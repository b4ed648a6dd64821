------------------------- MODULE WalletHoldsProofs -------------------------
(***************************************************************************)
(* For any number of deductions, sales, holds and analysts, and whatever   *)
(* the amounts: a guarded deduction takes only what is not held.           *)
(*                                                                         *)
(* The argument.  A deduction that has read, and since whose read no hold  *)
(* was placed, is judged by the version it read: either the row has moved  *)
(* on, or what it found available still is.  Debits count the version up;  *)
(* a seizure takes as much from the balance as from what is held; a        *)
(* release only frees credits.                                             *)
(*                                                                         *)
(* And what is locked is what is held.  Between the two statements of a    *)
(* placement a hold is there and not locked, and may even be decided: what *)
(* is locked is the sum of the placed holds that are undecided, less the   *)
(* decided ones that were not placed (LocksAddUp), unless two analysts     *)
(* have decided one hold.                                                  *)
(***************************************************************************)
EXTENDS WalletHolds, FiniteSetTheorems, WellFoundedInduction, TLAPS

CallerState ==
    [pc : {"idle", "read", "took", "done", "failed"}, version : Nat, retries : Nat]

Verdict == [pc : {"idle", "decided", "done"}, hold : Holds \cup {None}, seize : BOOLEAN]

Row == [balance : Int, locked : Int, version : Nat]

\* The state as far as the argument looks at it
TypeOK ==
    /\ wallet \in Row
    /\ writer \in Callers \cup {None}
    /\ callers \in [Callers -> CallerState]
    /\ verdicts \in [Analysts -> Verdict]
    /\ \A a \in Analysts : verdicts[a].pc = "decided" => verdicts[a].hold \in Holds
    /\ sure \in SUBSET Callers

\* Judged by its version: the row is newer than what was read, or still covers it.
Judged ==
    \A c \in Callers :
        callers[c].pc = "read" /\ c \in sure =>
            /\ callers[c].version <= wallet.version
            /\ callers[c].version = wallet.version => Available >= Amount[c]

IInv == TypeOK /\ Judged

\* What a debit, a placement and a verdict make of the row
LEMMA DebitedRow ==
    ASSUME NEW row \in Row, NEW n \in Nat
    PROVE  [row EXCEPT !.balance = @ - n, !.version = @ + 1] \in Row
<1>1. row.balance - n \in Int /\ row.version + 1 \in Nat
  BY DEF Row
<1>2. [row EXCEPT !.balance = @ - n] \in Row
  BY <1>1 DEF Row
<1> QED
  BY <1>1, <1>2 DEF Row

LEMMA LockedRow ==
    ASSUME NEW row \in Row, NEW n \in Nat
    PROVE  [row EXCEPT !.locked = @ + n] \in Row
<1>1. row.locked + n \in Int
  BY DEF Row
<1> QED
  BY <1>1 DEF Row

LEMMA DecidedRow ==
    ASSUME NEW row \in Row, NEW n \in Nat, NEW seize \in BOOLEAN
    PROVE  LET new == [row EXCEPT !.locked = @ - n, !.balance = IF seize THEN @ - n ELSE @]
           IN  /\ new \in Row
               /\ new.version = row.version
               /\ new.balance - new.locked >= row.balance - row.locked
<1> DEFINE new == [row EXCEPT !.locked = @ - n, !.balance = IF seize THEN @ - n ELSE @]
           balance == IF seize THEN row.balance - n ELSE row.balance
<1>1. row.locked - n \in Int /\ balance \in Int /\ row.balance - n <= balance
  BY DEF Row
<1>2. new = [[row EXCEPT !.locked = row.locked - n] EXCEPT !.balance = balance]
  BY DEF Row
<1>3. new \in Row
  <2> HIDE DEF balance
  <2> QED
    BY <1>1, <1>2 DEF Row
<1>4. new.version = row.version /\ new.locked = row.locked - n /\ new.balance = balance
  <2> HIDE DEF balance
  <2> QED
    BY <1>2 DEF Row
<1>5. balance - (row.locked - n) >= row.balance - row.locked
  <2> HIDE DEF balance
  <2>1. row.locked \in Int /\ row.balance \in Int
    BY DEF Row
  <2> QED
    BY <1>1, <2>1
<1> QED
  BY <1>3, <1>4, <1>5

\* What a failed swap makes of the caller
LEMMA RetryingCaller ==
    ASSUME NEW caller \in CallerState, NEW pc \in {"idle", "failed"}
    PROVE  [caller EXCEPT !.retries = @ + 1, !.pc = pc] \in CallerState
<1>1. caller.retries + 1 \in Nat
  BY DEF CallerState
<1>2. [caller EXCEPT !.retries = @ + 1] \in CallerState
  BY <1>1 DEF CallerState
<1> QED
  BY <1>2 DEF CallerState

LEMMA AmountIsNat == \A x \in Callers \cup Sales \cup Holds : Amount[x] \in Nat
BY AmountAssumption

LEMMA InitInv == Init => IInv
BY AmountAssumption DEF Row, Init, IInv, TypeOK, CallerState, Verdict, Judged

\* Every step keeps the types.
LEMMA TypeStep == ASSUME TypeOK, [Next]_vars PROVE TypeOK'
<1>1. ASSUME NEW c \in Callers, Read(c) PROVE TypeOK'
  <2>1. callers' \in [Callers -> CallerState]
    <3>1. callers[c] \in CallerState /\ wallet.version \in Nat
      BY DEF TypeOK, Row
    <3>2. PICK pc \in {"read", "failed"} :
            callers' = [callers EXCEPT ![c].pc = pc, ![c].version = wallet.version]
      BY <1>1 DEF Read
    <3> QED
      BY <3>1, <3>2 DEF TypeOK, CallerState
  <2> QED
    BY <1>1, <2>1 DEF TypeOK, Read
<1>2. ASSUME NEW c \in Callers, Swap(c) PROVE TypeOK'
  <2>1. callers' \in [Callers -> CallerState]
    <3>1. callers[c] \in CallerState
      BY DEF TypeOK
    <3>2. PICK new \in CallerState : callers' = [callers EXCEPT ![c] = new]
      <4>1. CASE Swaps(c)
        BY <1>2, <3>1, <4>1, [callers[c] EXCEPT !.pc = "took"] \in CallerState
        DEF Swap, TypeOK, CallerState
      <4>2. CASE ~Swaps(c)
        <5> DEFINE pc == IF callers[c].retries + 1 < MaxRetries THEN "idle" ELSE "failed"
                   new == [callers[c] EXCEPT !.retries = @ + 1, !.pc = pc]
        <5>1. new \in CallerState
          BY <3>1, RetryingCaller
        <5>2. callers' = [callers EXCEPT ![c].retries = @ + 1, ![c].pc = pc]
          BY <1>2, <4>2 DEF Swap
        <5>3. callers' = [callers EXCEPT ![c] = new]
          BY <5>2 DEF TypeOK
        <5> QED
          BY <5>1, <5>3
      <4> QED
        BY <4>1, <4>2
    <3> QED
      BY <3>2 DEF TypeOK
  <2>2. writer' \in Callers \cup {None}
    BY <1>2 DEF TypeOK, Swap
  <2>3. UNCHANGED <<wallet, sales, placing, holds, verdicts, sure, twice>>
    BY <1>2 DEF Swap
  <2> QED
    BY <2>1, <2>2, <2>3 DEF TypeOK
<1>3. ASSUME NEW c \in Callers, Commit(c) PROVE TypeOK'
  <2>1. callers' \in [Callers -> CallerState]
    BY <1>3 DEF TypeOK, Commit, CallerState
  <2>2. Amount[c] \in Nat
    BY AmountIsNat
  <2>3. wallet' \in Row
    BY <1>3, <2>2, DebitedRow DEF TypeOK, Commit
  <2> QED
    BY <1>3, <2>1, <2>3 DEF TypeOK, Commit
<1>4. ASSUME NEW c \in Callers, Rollback(c) PROVE TypeOK'
  <2>1. callers' \in [Callers -> CallerState]
    BY <1>4 DEF TypeOK, Rollback, CallerState
  <2> QED
    BY <1>4, <2>1 DEF TypeOK, Rollback
<1>5. ASSUME NEW s \in Sales, ReadSale(s) \/ Debit(s) PROVE TypeOK'
  <2>1. CASE ReadSale(s)
    BY <2>1 DEF TypeOK, ReadSale
  <2>2. CASE Debit(s)
    <3>1. Amount[s] \in Nat
      BY AmountIsNat
    <3>3. wallet' \in Row
      BY <2>2, <3>1, DebitedRow DEF TypeOK, Debit
    <3> QED
      BY <2>2, <3>3 DEF TypeOK, Debit
  <2> QED
    BY <1>5, <2>1, <2>2
<1>6. ASSUME NEW h \in Holds, CreateHold(h) \/ LockCredits(h) \/ FailToLock(h) PROVE TypeOK'
  BY <1>6, AmountIsNat, LockedRow DEF TypeOK, CreateHold, LockCredits, FailToLock
<1>7. ASSUME NEW a \in Analysts, NEW h \in Holds, NEW seize \in BOOLEAN, ReadHold(a, h, seize)
      PROVE  TypeOK'
  BY <1>7 DEF TypeOK, ReadHold, Verdict
<1>8. ASSUME NEW a \in Analysts, Decide(a) PROVE TypeOK'
  <2>1. /\ Amount[verdicts[a].hold] \in Nat
        /\ verdicts[a].seize \in BOOLEAN
    BY <1>8, AmountIsNat DEF TypeOK, Verdict, Decide
  <2>2. wallet' \in Row
    BY <1>8, <2>1, DecidedRow DEF TypeOK, Decide
  <2>3. verdicts' \in [Analysts -> Verdict]
    BY <1>8 DEF TypeOK, Decide, Verdict
  <2>4. \A b \in Analysts : verdicts'[b].pc = "decided" => verdicts'[b].hold \in Holds
    BY <1>8 DEF TypeOK, Decide, Verdict
  <2> QED
    BY <1>8, <2>2, <2>3, <2>4 DEF TypeOK, Decide
<1>9. CASE UNCHANGED vars
  BY <1>9 DEF TypeOK, vars
<1> QED
  BY <1>1, <1>2, <1>3, <1>4, <1>5, <1>6, <1>7, <1>8, <1>9 DEF Next

\* No step takes away the cover of a deduction without counting the version up or
\* placing a hold.
LEMMA JudgedStep == ASSUME IInv, [Next]_vars PROVE Judged'
<1> USE AmountIsNat DEF IInv, Row
<1>1. ASSUME NEW c \in Callers, Read(c) PROVE Judged'
  BY <1>1 DEF TypeOK, CallerState, Judged, Available, Read
<1>2. ASSUME NEW c \in Callers, Swap(c) PROVE Judged'
  BY <1>2 DEF TypeOK, CallerState, Judged, Available, Swap
<1>3. ASSUME NEW c \in Callers, Commit(c) PROVE Judged'
  BY <1>3 DEF TypeOK, CallerState, Judged, Available, Commit
<1>4. ASSUME NEW c \in Callers, Rollback(c) PROVE Judged'
  BY <1>4 DEF TypeOK, CallerState, Judged, Available, Rollback
<1>5. ASSUME NEW s \in Sales, ReadSale(s) PROVE Judged'
  BY <1>5 DEF TypeOK, CallerState, Judged, Available, ReadSale
<1>6. ASSUME NEW s \in Sales, Debit(s) PROVE Judged'
  BY <1>6 DEF TypeOK, CallerState, Judged, Available, Debit
<1>7. ASSUME NEW h \in Holds, CreateHold(h) \/ LockCredits(h) \/ FailToLock(h) PROVE Judged'
  BY <1>7 DEF TypeOK, CallerState, Judged, Available, CreateHold, LockCredits, FailToLock
<1>8. ASSUME NEW a \in Analysts, NEW h \in Holds, NEW seize \in BOOLEAN, ReadHold(a, h, seize)
      PROVE  Judged'
  BY <1>8 DEF TypeOK, CallerState, Judged, Available, ReadHold
<1>9. ASSUME NEW a \in Analysts, Decide(a) PROVE Judged'
  <2>1. /\ Amount[verdicts[a].hold] \in Nat
        /\ verdicts[a].seize \in BOOLEAN
    BY <1>9, AmountIsNat DEF TypeOK, Verdict, Decide
  <2>2. /\ wallet'.version = wallet.version
        /\ wallet'.balance - wallet'.locked >= wallet.balance - wallet.locked
    BY <1>9, <2>1, DecidedRow DEF TypeOK, Decide
  <2>3. callers' = callers /\ sure' = sure
    BY <1>9 DEF Decide
  <2> QED
    BY <1>9, <2>2, <2>3, TypeStep DEF TypeOK, CallerState, Judged, Available
<1>10. CASE UNCHANGED vars
  BY <1>10 DEF Judged, Available, vars
<1> QED
  BY <1>1, <1>2, <1>3, <1>4, <1>5, <1>6, <1>7, <1>8, <1>9, <1>10 DEF Next

\* A swap that succeeds finds what was judged.
LEMMA SwapIsCovered ==
    ASSUME IInv, [Next]_vars, NEW c \in Callers,
           callers[c].pc = "read", callers'[c].pc = "took", c \in sure
    PROVE  Available >= Amount[c]
<1>1. Swap(c)
  <2>1. ASSUME NEW d \in Callers, Read(d) \/ Commit(d) \/ Rollback(d) PROVE FALSE
    BY <2>1 DEF IInv, TypeOK, CallerState, Read, Commit, Rollback
  <2>2. ASSUME NEW d \in Callers, Swap(d), d # c PROVE FALSE
    BY <2>2 DEF IInv, TypeOK, CallerState, Swap
  <2>3. CASE UNCHANGED callers
    BY <2>3
  <2> QED
    BY <2>1, <2>2, <2>3 DEF Next, vars, ReadSale, Debit, CreateHold, LockCredits, FailToLock,
       ReadHold, Decide
<1>2. Swaps(c)
  BY <1>1 DEF IInv, TypeOK, CallerState, Swap
<1> QED
  BY <1>2 DEF IInv, Judged, Swaps

\* WalletConcurrencyGuard: for every number of deductions beside sales and fraud
\* holds, credits that are held are not taken, unless the hold came after the read.
THEOREM GuardTakesWhatIsFree == Spec => TakesWhatIsFree
<1>1. IInv /\ [Next]_vars => IInv'
  BY TypeStep, JudgedStep DEF IInv
<1>2. IInv /\ [Next]_vars =>
        [\A c \in Callers :
            callers[c].pc = "read" /\ callers'[c].pc = "took" /\ c \in sure
                => Available >= Amount[c]]_vars
  BY SwapIsCovered
<1> QED
  BY InitInv, <1>1, <1>2, PTL DEF Spec, TakesWhatIsFree

-----------------------------------------------------------------------------
(* Sums *)

\* The element a fold takes out first
First(S) == CHOOSE x \in S : TRUE

\* it gives each set of D its sum, by taking out the first element.
SumsUp(it, f, D) ==
    it = [s \in D |-> IF s = {} THEN 0 ELSE f[First(s)] + it[s \ {First(s)}]]

Small(S, n) == {s \in SUBSET S : Cardinality(s) <= n}

LEMMA TotalIsChosen ==
    ASSUME NEW f, NEW S
    PROVE  Total(f, S) = (CHOOSE it : SumsUp(it, f, SUBSET S))[S]
BY DEF Total, MapThenSumSet, MapThenFoldSet, SumsUp, First

\* A set of numbers that is not empty has a least one: how induction is done here.
LEMMA Least ==
    ASSUME NEW T, T \subseteq Nat, T # {}
    PROVE  \E n \in T : \A m \in T : n <= m
<1>1. PICK n \in T : \A m \in T : <<m, n>> \notin OpToRel(<, Nat)
  BY WFMin, NatLessThanWellFounded
<1>2. \A m \in T : ~(m < n)
  BY <1>1 DEF OpToRel
<1> QED
  BY <1>2

LEMMA FirstIn == ASSUME NEW S, S # {} PROVE First(S) \in S
BY DEF First

LEMMA OneLess ==
    ASSUME NEW S, IsFiniteSet(S), NEW x \in S
    PROVE  /\ IsFiniteSet(S \ {x})
           /\ Cardinality(S) \in Nat /\ Cardinality(S \ {x}) \in Nat
           /\ Cardinality(S \ {x}) = Cardinality(S) - 1
BY FS_RemoveElement, FS_CardinalityType

\* The recursion has a solution on the small sets, by induction on their size ...
LEMMA SolvedOnSmall ==
    ASSUME NEW f, NEW S, IsFiniteSet(S), NEW n \in Nat
    PROVE  \E it : SumsUp(it, f, Small(S, n))
<1> DEFINE Bad == {m \in Nat : ~ \E it : SumsUp(it, f, Small(S, m))}
<1> SUFFICES ASSUME Bad # {} PROVE FALSE
  OBVIOUS
<1>1. PICK m \in Bad : \A k \in Bad : m <= k
  BY Least
<1>2. CASE m = 0
  <2>1. Small(S, 0) = {{}}
    <3>1. ASSUME NEW s \in SUBSET S PROVE Cardinality(s) <= 0 <=> s = {}
      BY FS_Subset, FS_EmptySet, FS_CardinalityType
    <3> QED
      BY <3>1, {} \in SUBSET S DEF Small
  <2>2. SumsUp([s \in {{}} |-> 0], f, {{}})
    BY DEF SumsUp
  <2> QED
    BY <1>1, <1>2, <2>1, <2>2
<1>3. CASE m # 0
  <2>1. m - 1 \in Nat /\ m - 1 \notin Bad
    BY <1>1, <1>3
  <2>2. PICK old : SumsUp(old, f, Small(S, m - 1))
    BY <2>1
  <2> DEFINE new == [s \in Small(S, m) |->
                        IF s = {} THEN 0 ELSE f[First(s)] + old[s \ {First(s)}]]
  <2>3. ASSUME NEW s \in Small(S, m), s # {} PROVE s \ {First(s)} \in Small(S, m - 1)
    <3>1. IsFiniteSet(s) /\ First(s) \in s
      BY <2>3, FirstIn, FS_Subset DEF Small
    <3> QED
      BY <3>1, OneLess, <1>1, Cardinality(s) <= m DEF Small
  <2>4. ASSUME NEW s \in Small(S, m - 1) PROVE s \in Small(S, m) /\ new[s] = old[s]
    <3>1. s \in Small(S, m)
      BY FS_CardinalityType, FS_Subset, <1>1 DEF Small
    <3> QED
      BY <3>1, <2>2 DEF SumsUp
  <2>5. SumsUp(new, f, Small(S, m))
    <3>1. ASSUME NEW s \in Small(S, m), s # {}
          PROVE  old[s \ {First(s)}] = new[s \ {First(s)}]
      BY <2>3, <2>4, <3>1
    <3>2. new = [s \in Small(S, m) |->
                    IF s = {} THEN 0 ELSE f[First(s)] + new[s \ {First(s)}]]
      BY <3>1
    <3> QED
      BY <3>2 DEF SumsUp
  <2> QED
    BY <1>1, <2>5
<1> QED
  BY <1>2, <1>3

\* ... and only one.
LEMMA OneSolution ==
    ASSUME NEW f, NEW S, IsFiniteSet(S), NEW a, NEW b,
           SumsUp(a, f, SUBSET S), NEW T, S \subseteq T, SumsUp(b, f, SUBSET T)
    PROVE  \A s \in SUBSET S : a[s] = b[s]
<1> DEFINE Bad == {m \in Nat : \E s \in SUBSET S : Cardinality(s) = m /\ a[s] # b[s]}
<1> SUFFICES ASSUME Bad # {} PROVE FALSE
  BY FS_Subset, FS_CardinalityType
<1>1. PICK m \in Bad : \A k \in Bad : m <= k
  BY Least
<1>2. PICK s \in SUBSET S : Cardinality(s) = m /\ a[s] # b[s]
  BY <1>1
<1>3. s # {}
  BY <1>2 DEF SumsUp
<1>4. First(s) \in s /\ IsFiniteSet(s)
  BY <1>3, FirstIn, FS_Subset
<1>5. a[s \ {First(s)}] = b[s \ {First(s)}]
  <2>1. Cardinality(s \ {First(s)}) \notin Bad
    BY <1>1, <1>2, <1>4, OneLess
  <2> QED
    BY <2>1, <1>4, OneLess
<1> QED
  BY ZenonT(30), <1>2, <1>3, <1>5 DEF SumsUp

LEMMA TotalStep ==
    ASSUME NEW f, NEW S, IsFiniteSet(S)
    PROVE  Total(f, S) = IF S = {} THEN 0 ELSE f[First(S)] + Total(f, S \ {First(S)})
<1>1. ASSUME NEW T \in SUBSET S
      PROVE  \E it : SumsUp(it, f, SUBSET T) /\ Total(f, T) = it[T]
  <2>1. IsFiniteSet(T) /\ Small(T, Cardinality(T)) = SUBSET T
    BY FS_Subset DEF Small
  <2>2. \E it : SumsUp(it, f, SUBSET T)
    <3>1. Cardinality(T) \in Nat
      BY <2>1, FS_CardinalityType
    <3>2. \E it : SumsUp(it, f, Small(T, Cardinality(T)))
      BY <2>1, <3>1, SolvedOnSmall
    <3> QED
      BY <2>1, <3>2
  <2> QED
    BY <2>2, TotalIsChosen
<1>2. PICK all : SumsUp(all, f, SUBSET S) /\ Total(f, S) = all[S]
  BY <1>1
<1>3. ASSUME NEW T, T \subseteq S PROVE Total(f, T) = all[T]
  <2>1. PICK it : SumsUp(it, f, SUBSET T) /\ Total(f, T) = it[T]
    BY <1>1, <1>3
  <2>2. IsFiniteSet(T)
    BY <1>3, FS_Subset
  <2>3. \A s \in SUBSET T : it[s] = all[s]
    <3>1. SumsUp(it, f, SUBSET T) /\ SumsUp(all, f, SUBSET S)
      BY <1>2, <2>1
    <3>2. \A a, b, U : SumsUp(a, f, SUBSET T) /\ T \subseteq U /\ SumsUp(b, f, SUBSET U)
               => \A s \in SUBSET T : a[s] = b[s]
      BY SMTT(30), <2>2, OneSolution
    <3> QED
      BY <3>1, <3>2, <1>3
  <2> QED
    BY <2>1, <2>3
<1>4. CASE S # {}
  BY <1>2, <1>3, <1>4, S \ {First(S)} \subseteq S DEF SumsUp
<1> QED
  BY <1>2, <1>4 DEF SumsUp

LEMMA TotalOfNone == ASSUME NEW f PROVE Total(f, {}) = 0
BY TotalStep, FS_EmptySet

LEMMA TotalIsInt ==
    ASSUME NEW f, NEW S, IsFiniteSet(S), \A x \in S : f[x] \in Int
    PROVE  Total(f, S) \in Int
<1> DEFINE Bad == {m \in Nat : \E s \in SUBSET S : Cardinality(s) = m /\ Total(f, s) \notin Int}
<1> SUFFICES ASSUME Bad # {} PROVE FALSE
  BY FS_CardinalityType
<1>1. PICK m \in Bad : \A k \in Bad : m <= k
  BY Least
<1>2. PICK s \in SUBSET S : Cardinality(s) = m /\ Total(f, s) \notin Int
  BY <1>1
<1>3. s # {} /\ IsFiniteSet(s)
  <2>1. Total(f, {}) \in Int
    BY TotalOfNone
  <2> QED
    BY <1>2, <2>1, FS_Subset
<1>4. First(s) \in s
  BY <1>3, FirstIn
<1>5. Total(f, s \ {First(s)}) \in Int
  <2>1. Cardinality(s \ {First(s)}) \notin Bad
    BY <1>1, <1>2, <1>3, <1>4, OneLess
  <2> QED
    BY <2>1, <1>3, <1>4, OneLess
<1>6. f[First(s)] \in Int /\ Total(f, s) = f[First(s)] + Total(f, s \ {First(s)})
  BY <1>3, <1>4, TotalStep
<1> QED
  BY <1>2, <1>5, <1>6

\* Whichever element is taken out of a sum or put in
LEMMA TotalWithout ==
    ASSUME NEW f, NEW S, IsFiniteSet(S), \A x \in S : f[x] \in Int, NEW x \in S
    PROVE  Total(f, S) = f[x] + Total(f, S \ {x})
<1> DEFINE Bad == {m \in Nat : \E s \in SUBSET S : /\ Cardinality(s) = m
                     /\ \E y \in s : Total(f, s) # f[y] + Total(f, s \ {y})}
<1> SUFFICES ASSUME Bad # {} PROVE FALSE
  BY FS_CardinalityType
<1>1. PICK m \in Bad : \A k \in Bad : m <= k
  BY Least
<1>2. PICK s \in SUBSET S, y \in S :
        y \in s /\ Cardinality(s) = m /\ Total(f, s) # f[y] + Total(f, s \ {y})
  BY <1>1
<1> DEFINE c == First(s)
<1>3. s # {} /\ IsFiniteSet(s)
  BY <1>2, FS_Subset
<1>4. c \in s
  BY <1>3, FirstIn
<1>5. Total(f, s) = f[c] + Total(f, s \ {c})
  BY <1>3, TotalStep
<1> HIDE DEF c
<1>6. c # y
  BY <1>2, <1>5
<1>7. ASSUME NEW z \in s, NEW w \in s, z # w
      PROVE  Total(f, s \ {z}) = f[w] + Total(f, s \ {z, w})
  <2>1. Cardinality(s \ {z}) \notin Bad /\ Cardinality(s \ {z}) \in Nat
    BY <1>1, <1>2, <1>3, OneLess
  <2>2. s \ {z} \in SUBSET S /\ w \in s \ {z} /\ (s \ {z}) \ {w} = s \ {z, w}
    BY <1>7
  <2> DEFINE t == s \ {z}
  <2>3. t \in SUBSET S /\ w \in t /\ Cardinality(t) \in Nat /\ Cardinality(t) \notin Bad
    BY <2>1, <2>2
  <2>4. Total(f, t) = f[w] + Total(f, t \ {w})
    <3> HIDE DEF t
    <3> QED
      BY <2>3
  <2> QED
    BY <2>2, <2>4
<1>8. Total(f, s \ {c}) = f[y] + Total(f, s \ {c, y}) /\ Total(f, s \ {y}) = f[c] + Total(f, s \ {c, y})
  BY <1>2, <1>4, <1>6, <1>7, s \ {c, y} = s \ {y, c}
<1>9. Total(f, s \ {c, y}) \in Int /\ f[c] \in Int /\ f[y] \in Int
  BY <1>2, <1>4, TotalIsInt, FS_Subset
<1> QED
  BY <1>2, <1>5, <1>8, <1>9

LEMMA TotalWith ==
    ASSUME NEW f, NEW S, IsFiniteSet(S), NEW x, x \notin S,
           \A y \in S \cup {x} : f[y] \in Int
    PROVE  Total(f, S \cup {x}) = Total(f, S) + f[x]
<1>1. IsFiniteSet(S \cup {x}) /\ (S \cup {x}) \ {x} = S
  BY FS_AddElement
<1>2. Total(f, S) \in Int /\ f[x] \in Int
  BY TotalIsInt
<1>3. Total(f, S \cup {x}) = f[x] + Total(f, S)
  BY <1>1, TotalWithout, x \in S \cup {x}
<1> QED
  BY <1>2, <1>3

-----------------------------------------------------------------------------
(* What is locked *)

Placed == {h \in Holds : placing[h] = "placed"}
Held == {h \in Holds : holds[h] = "HELD"}
Decided == {h \in Holds : holds[h] \in {"RELEASED", "SEIZED"}}

\* A hold is there from the step that creates it.
HoldsTyped ==
    /\ placing \in [Holds -> {"idle", "created", "placed", "failed"}]
    /\ holds \in [Holds -> {"NONE", "HELD", "RELEASED", "SEIZED"}]
    /\ \A h \in Holds : holds[h] = "NONE" <=> placing[h] = "idle"

\* What an analyst has read is still so, unless two have read it.
DecidedOnce ==
    \A a \in Analysts : verdicts[a].pc = "decided" =>
        /\ holds[verdicts[a].hold] # "NONE"
        /\ ~twice => verdicts[a].hold \in Held

\* Locked are the placed holds, less those that were decided before they could be placed.
LocksAddUp == ~twice => wallet.locked = Total(Amount, Held \cap Placed) - Total(Amount, Decided \ Placed)

LockInv == TypeOK /\ HoldsTyped /\ DecidedOnce /\ LocksAddUp

LEMMA TotalOfHolds ==
    ASSUME NEW S, S \subseteq Holds
    PROVE  /\ IsFiniteSet(S) /\ Total(Amount, S) \in Int
           /\ \A h \in Holds \ S : Total(Amount, S \cup {h}) = Total(Amount, S) + Amount[h]
           /\ \A h \in S : Total(Amount, S \ {h}) = Total(Amount, S) - Amount[h]
<1>1. IsFiniteSet(S) /\ \A h \in Holds : Amount[h] \in Int
  BY FS_Subset, FinitenessAssumption, AmountIsNat
<1>2. Total(Amount, S) \in Int
  BY <1>1, TotalIsInt
<1>3. ASSUME NEW h \in Holds \ S PROVE Total(Amount, S \cup {h}) = Total(Amount, S) + Amount[h]
  BY <1>1, TotalWith
<1>4. ASSUME NEW h \in S PROVE Total(Amount, S \ {h}) = Total(Amount, S) - Amount[h]
  <2>1. IsFiniteSet(S \ {h}) /\ \A x \in S \ {h} : Amount[x] \in Int
    BY <1>1, FS_Subset, S \ {h} \subseteq S
  <2>2. Total(Amount, S \ {h}) \in Int
    BY <2>1, TotalIsInt
  <2>3. Total(Amount, S) = Amount[h] + Total(Amount, S \ {h})
    BY <1>1, TotalWithout
  <2> QED
    BY <1>1, <2>2, <2>3
<1> QED
  BY <1>1, <1>2, <1>3, <1>4

LEMMA InitLocks == Init => LockInv
<1> SUFFICES ASSUME Init PROVE LockInv
  OBVIOUS
<1>1. TypeOK
  BY InitInv DEF IInv
<1>2. HoldsTyped /\ DecidedOnce
  BY DEF Init, HoldsTyped, DecidedOnce
<1>3. Held \cap Placed = {} /\ Decided \ Placed = {} /\ wallet.locked = 0
  BY DEF Init, Held, Placed, Decided
<1>4. LocksAddUp
  BY <1>3, TotalOfNone DEF LocksAddUp
<1> QED
  BY <1>1, <1>2, <1>4 DEF LockInv

\* Steps that leave the holds and what is locked alone
LEMMA LocksUntouched ==
    ASSUME LockInv, UNCHANGED <<placing, holds, verdicts, twice>>, wallet'.locked = wallet.locked
    PROVE  HoldsTyped' /\ DecidedOnce' /\ LocksAddUp'
BY DEF LockInv, HoldsTyped, DecidedOnce, LocksAddUp, Placed, Held, Decided

LEMMA LocksMove ==
    ASSUME NEW S, NEW D, (Held \cap Placed)' = S, (Decided \ Placed)' = D,
           ~twice' => wallet'.locked = Total(Amount, S) - Total(Amount, D)
    PROVE  LocksAddUp'
<1>1. Total(Amount, (Held \cap Placed)') = Total(Amount, S)
      /\ Total(Amount, (Decided \ Placed)') = Total(Amount, D)
  OBVIOUS
<1> QED
  BY <1>1 DEF LocksAddUp

LEMMA CreateHoldLocks ==
    ASSUME LockInv, NEW h \in Holds, CreateHold(h)
    PROVE  HoldsTyped' /\ DecidedOnce' /\ LocksAddUp'
<1>1. HoldsTyped' /\ holds[h] = "NONE"
  BY DEF LockInv, HoldsTyped, CreateHold
<1>2. Held' = Held \cup {h} /\ Decided' = Decided /\ Placed' = Placed /\ h \notin Placed
  BY <1>1 DEF LockInv, HoldsTyped, CreateHold, Held, Decided, Placed
<1>3. (Held \cap Placed)' = Held \cap Placed /\ (Decided \ Placed)' = Decided \ Placed
  BY <1>2
<1>4. DecidedOnce'
  BY <1>2 DEF LockInv, DecidedOnce, CreateHold
<1>5. LocksAddUp'
  BY <1>3 DEF LockInv, LocksAddUp, CreateHold
<1> QED
  BY <1>1, <1>4, <1>5

LEMMA LockCreditsLocks ==
    ASSUME LockInv, NEW h \in Holds, LockCredits(h)
    PROVE  HoldsTyped' /\ DecidedOnce' /\ LocksAddUp'
<1>1. HoldsTyped' /\ DecidedOnce'
  BY DEF LockInv, HoldsTyped, DecidedOnce, LockCredits, Held
<1>2. Held' = Held /\ Decided' = Decided /\ Placed' = Placed \cup {h} /\ h \notin Placed
  BY DEF LockInv, HoldsTyped, LockCredits, Held, Decided, Placed
<1>3. wallet'.locked = wallet.locked + Amount[h] /\ twice' = twice
  BY DEF LockInv, TypeOK, Row, LockCredits
<1>4. Amount[h] \in Int /\ h \in Held \cup Decided
  BY AmountIsNat DEF LockInv, HoldsTyped, LockCredits, Held, Decided
<1> DEFINE S == Held \cap Placed
           D == Decided \ Placed
<1>5. S \subseteq Holds /\ D \subseteq Holds /\ Held \cap Decided = {}
  BY DEF Held, Decided
<1>6. Total(Amount, S) \in Int /\ Total(Amount, D) \in Int
  BY <1>5, TotalOfHolds
<1>7. CASE h \in Held
  <2>1. (Held \cap Placed)' = S \cup {h} /\ (Decided \ Placed)' = D /\ h \in Holds \ S
    BY <1>2, <1>5, <1>7
  <2>2. Total(Amount, S \cup {h}) = Total(Amount, S) + Amount[h]
    BY <1>5, <2>1, TotalOfHolds
  <2>3. ~twice => wallet.locked = Total(Amount, S) - Total(Amount, D)
    BY DEF LockInv, LocksAddUp
  <2>4. ~twice' => wallet'.locked = Total(Amount, S \cup {h}) - Total(Amount, D)
    <3> HIDE DEF S, D
    <3> QED
      BY <1>3, <1>4, <1>6, <2>2, <2>3
  <2>5. LocksAddUp'
    BY <2>1, <2>4, LocksMove
  <2> QED
    BY <1>1, <2>5
<1>8. CASE h \in Decided
  <2>1. (Held \cap Placed)' = S /\ (Decided \ Placed)' = D \ {h} /\ h \in D
    BY <1>2, <1>5, <1>8
  <2>2. Total(Amount, D \ {h}) = Total(Amount, D) - Amount[h]
    BY <1>5, <2>1, TotalOfHolds
  <2>3. ~twice => wallet.locked = Total(Amount, S) - Total(Amount, D)
    BY DEF LockInv, LocksAddUp
  <2>4. ~twice' => wallet'.locked = Total(Amount, S) - Total(Amount, D \ {h})
    <3> HIDE DEF S, D
    <3> QED
      BY <1>3, <1>4, <1>6, <2>2, <2>3
  <2>5. LocksAddUp'
    BY <2>1, <2>4, LocksMove
  <2> QED
    BY <1>1, <2>5
<1> QED
  BY <1>4, <1>7, <1>8

LEMMA DecideLocks ==
    ASSUME LockInv, NEW a \in Analysts, Decide(a)
    PROVE  HoldsTyped' /\ DecidedOnce' /\ LocksAddUp'
<1> DEFINE h == verdicts[a].hold
           S == Held \cap Placed
           D == Decided \ Placed
<1>1. h \in Holds /\ Amount[h] \in Int /\ verdicts[a].pc = "decided"
  BY AmountIsNat DEF LockInv, TypeOK, Decide
<1>2. HoldsTyped'
  <2>1. holds[h] # "NONE"
    BY <1>1 DEF LockInv, DecidedOnce
  <2> QED
    BY <1>1, <2>1 DEF LockInv, HoldsTyped, Decide
<1>3. ASSUME NEW b \in Analysts, verdicts'[b].pc = "decided"
      PROVE  /\ b # a /\ verdicts[b].pc = "decided" /\ verdicts'[b].hold = verdicts[b].hold
             /\ verdicts[b].hold \in Holds /\ holds'[verdicts[b].hold] # "NONE"
  <2>1. b # a /\ verdicts'[b] = verdicts[b]
    BY <1>3 DEF LockInv, TypeOK, Verdict, Decide
  <2>2. verdicts[b].hold \in Holds /\ holds[verdicts[b].hold] # "NONE"
    BY <1>3, <2>1 DEF LockInv, TypeOK, DecidedOnce
  <2> QED
    BY <1>1, <1>3, <2>1, <2>2 DEF LockInv, HoldsTyped, Decide
<1>5. CASE twice'
  BY <1>2, <1>3, <1>5 DEF DecidedOnce, LocksAddUp
<1>4. CASE ~twice'
  <2>1. ~twice /\ h \in Held
    BY <1>1, <1>4 DEF LockInv, DecidedOnce, Decide
  <2>2. Held' = Held \ {h} /\ Decided' = Decided \cup {h} /\ Placed' = Placed /\ h \notin Decided
    BY <1>1, <2>1 DEF LockInv, HoldsTyped, Decide, Held, Decided, Placed
  <2>3. DecidedOnce'
    <3>1. ASSUME NEW b \in Analysts, verdicts'[b].pc = "decided" PROVE verdicts'[b].hold \in Held'
      <4>1. verdicts[b].hold # h
        BY <1>1, <1>3, <1>4, <3>1 DEF Decide
      <4> QED
        BY <1>3, <2>1, <2>2, <3>1, <4>1 DEF LockInv, DecidedOnce
    <3> QED
      BY <1>3, <3>1 DEF DecidedOnce
  <2>4. wallet'.locked = wallet.locked - Amount[h]
    BY <1>1 DEF LockInv, TypeOK, Row, Decide
  <2>5. S \subseteq Holds /\ D \subseteq Holds
    BY DEF Held, Decided
  <2>6. /\ Total(Amount, S) \in Int /\ Total(Amount, D) \in Int
        /\ wallet.locked = Total(Amount, S) - Total(Amount, D)
    BY <2>1, <2>5, TotalOfHolds DEF LockInv, LocksAddUp
  <2>7. CASE h \in Placed
    <3>1. (Held \cap Placed)' = S \ {h} /\ (Decided \ Placed)' = D /\ h \in S
      BY <2>1, <2>2, <2>7
    <3>2. Total(Amount, S \ {h}) = Total(Amount, S) - Amount[h]
      BY <2>5, <3>1, TotalOfHolds
    <3>3. wallet'.locked = Total(Amount, S \ {h}) - Total(Amount, D)
      <4> HIDE DEF S, D, h
      <4> QED
        BY <1>1, <2>4, <2>6, <3>2
    <3>4. LocksAddUp'
      BY <3>1, <3>3, LocksMove
    <3> QED
      BY <1>2, <2>3, <3>4
  <2>8. CASE h \notin Placed
    <3>1. (Held \cap Placed)' = S /\ (Decided \ Placed)' = D \cup {h} /\ h \in Holds \ D
      BY <1>1, <2>2, <2>8
    <3>2. Total(Amount, D \cup {h}) = Total(Amount, D) + Amount[h]
      BY <2>5, <3>1, TotalOfHolds
    <3>3. wallet'.locked = Total(Amount, S) - Total(Amount, D \cup {h})
      <4> HIDE DEF S, D, h
      <4> QED
        BY <1>1, <2>4, <2>6, <3>2
    <3>4. LocksAddUp'
      BY <3>1, <3>3, LocksMove
    <3> QED
      BY <1>2, <2>3, <3>4
  <2> QED
    BY <2>7, <2>8
<1> QED
  BY <1>4, <1>5

LEMMA LocksStep == ASSUME LockInv, [Next]_vars PROVE LockInv'
<1>1. TypeOK'
  BY TypeStep DEF LockInv
<1>2. ASSUME NEW c \in Callers, Read(c) \/ Swap(c) \/ Commit(c) \/ Rollback(c)
      PROVE  HoldsTyped' /\ DecidedOnce' /\ LocksAddUp'
  <2>1. UNCHANGED <<placing, holds, verdicts, twice>> /\ wallet'.locked = wallet.locked
    BY <1>2 DEF LockInv, TypeOK, Row, Read, Swap, Commit, Rollback
  <2> QED
    BY <2>1, LocksUntouched
<1>3. ASSUME NEW s \in Sales, ReadSale(s) \/ Debit(s)
      PROVE  HoldsTyped' /\ DecidedOnce' /\ LocksAddUp'
  <2>1. UNCHANGED <<placing, holds, verdicts, twice>> /\ wallet'.locked = wallet.locked
    BY <1>3 DEF LockInv, TypeOK, Row, ReadSale, Debit
  <2> QED
    BY <2>1, LocksUntouched
<1>4. ASSUME NEW h \in Holds, FailToLock(h)
      PROVE  HoldsTyped' /\ DecidedOnce' /\ LocksAddUp'
  <2>1. HoldsTyped'
    BY <1>4 DEF LockInv, HoldsTyped, FailToLock
  <2>2. Held' = Held /\ Decided' = Decided /\ Placed' = Placed
    BY <1>4 DEF LockInv, HoldsTyped, FailToLock, Held, Decided, Placed
  <2> QED
    BY <1>4, <2>1, <2>2 DEF LockInv, DecidedOnce, LocksAddUp, FailToLock
<1>5. ASSUME NEW a \in Analysts, NEW h \in Holds, NEW seize \in BOOLEAN, ReadHold(a, h, seize)
      PROVE  HoldsTyped' /\ DecidedOnce' /\ LocksAddUp'
  <2>1. Held' = Held /\ Decided' = Decided /\ Placed' = Placed /\ h \in Held
    BY <1>5 DEF ReadHold, Undecided, Held, Decided, Placed
  <2>2. DecidedOnce'
    <3>1. verdicts'[a].hold = h /\ holds'[h] # "NONE" /\ \A b \in Analysts \ {a} : verdicts'[b] = verdicts[b]
      BY <1>5 DEF LockInv, TypeOK, ReadHold, Undecided
    <3> QED
      BY <1>5, <2>1, <3>1 DEF LockInv, DecidedOnce, ReadHold
  <2> QED
    BY <1>5, <2>1, <2>2 DEF LockInv, HoldsTyped, LocksAddUp, ReadHold
<1>6. CASE UNCHANGED vars
  <2>1. UNCHANGED <<placing, holds, verdicts, twice>> /\ wallet'.locked = wallet.locked
    BY <1>6 DEF vars
  <2> QED
    BY <1>1, <2>1, LocksUntouched DEF LockInv
<1> QED
  BY <1>1, <1>2, <1>3, <1>4, <1>5, <1>6, CreateHoldLocks, LockCreditsLocks, DecideLocks
  DEF Next, LockInv

\* However holds are placed and decided, two analysts deciding one of them apart, the
\* wallet has locked what the undecided holds amount to once all are placed.
THEOREM LocksMatchHolds == Spec => []HoldsAreLocked
<1>1. LockInv => HoldsAreLocked
  <2> SUFFICES ASSUME LockInv, ~twice, \A h \in Holds : placing[h] \in {"idle", "placed"}
               PROVE  wallet.locked = Total(Amount, Held)
    BY DEF HoldsAreLocked, Held
  <2>1. Held \cap Placed = Held /\ Decided \ Placed = {}
    BY DEF LockInv, HoldsTyped, Held, Placed, Decided
  <2>2. Total(Amount, Held) \in Int /\ Total(Amount, {}) = 0
    BY TotalOfNone, TotalOfHolds, Held \subseteq Holds DEF Held
  <2>3. wallet.locked = Total(Amount, Held \cap Placed) - Total(Amount, Decided \ Placed)
    BY DEF LockInv, LocksAddUp
  <2>4. /\ Total(Amount, Held \cap Placed) = Total(Amount, Held)
        /\ Total(Amount, Decided \ Placed) = Total(Amount, {})
    BY <2>1
  <2> QED
    BY <2>2, <2>3, <2>4
<1> QED
  BY <1>1, InitLocks, LocksStep, PTL DEF Spec
=============================================================================
