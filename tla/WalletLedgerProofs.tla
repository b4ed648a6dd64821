------------------------- MODULE WalletLedgerProofs -------------------------
(***************************************************************************)
(* For any users, packages, prices, products, sweeps and bounds: every     *)
(* invariant of the ledger, under the hypotheses each theorem names.       *)
(*                                                                         *)
(* The argument.  Nothing of it is a property of one row: each is a sum    *)
(* over lots, log rows or takes that an operation changes in a few places. *)
(* The first part therefore shows what Total gives when one element is     *)
(* added, changed or left out, by taking the least of the sets that could  *)
(* violate it.  Each operation is then described once (Drawdown takes what *)
(* it reports, Restored gives it back), and each invariant is a difference *)
(* that no operation changes:                                              *)
(*   Gap     the typed balances less what the lots hold and a sweep has    *)
(*           taken from a lot but not yet from its wallet                  *)
(*   Excess  the balance less the credits and the cleared earnings         *)
(*   Spread  a lot's original amount less what is left, what standing      *)
(*           sales and expiries took and what a sweep has in hand          *)
(* All are 0 for a fan no chargeback hit, wherever a sweep stands, until   *)
(* one is cut short; then the gap can only be positive.                    *)
(***************************************************************************)
EXTENDS WalletLedger, FiniteSetTheorems, SequenceTheorems, WellFoundedInduction, TLAPS

-----------------------------------------------------------------------------
(* Sums *)

\* The element a fold takes out first
First(S) == CHOOSE x \in S : TRUE

\* it gives each set of D its sum, by taking out the first element.
SumsUp(it, f, D) ==
    it = [s \in D |-> IF s = {} THEN 0 ELSE f[First(s)] + it[s \ {First(s)}]]

Small(S, n) == {s \in SUBSET S : Cardinality(s) <= n}

LEMMA TotalIsChosen ==
    ASSUME NEW f, NEW S
    PROVE  Total(f, S) = (CHOOSE it : SumsUp(it, f, SUBSET S))[S]
BY DEF Total, MapThenSumSet, MapThenFoldSet, SumsUp, First

\* A set of numbers that is not empty has a least one: how induction is done here.
LEMMA Least ==
    ASSUME NEW T, T \subseteq Nat, T # {}
    PROVE  \E n \in T : \A m \in T : n <= m
<1>1. PICK n \in T : \A m \in T : <<m, n>> \notin OpToRel(<, Nat)
  BY WFMin, NatLessThanWellFounded
<1>2. \A m \in T : ~(m < n)
  BY <1>1 DEF OpToRel
<1> QED
  BY <1>2

LEMMA FirstIn == ASSUME NEW S, S # {} PROVE First(S) \in S
BY DEF First

LEMMA OneLess ==
    ASSUME NEW S, IsFiniteSet(S), NEW x \in S
    PROVE  /\ IsFiniteSet(S \ {x})
           /\ Cardinality(S) \in Nat /\ Cardinality(S \ {x}) \in Nat
           /\ Cardinality(S \ {x}) = Cardinality(S) - 1
BY FS_RemoveElement, FS_CardinalityType

\* The recursion has a solution on the small sets, by induction on their size ...
LEMMA SolvedOnSmall ==
    ASSUME NEW f, NEW S, IsFiniteSet(S), NEW n \in Nat
    PROVE  \E it : SumsUp(it, f, Small(S, n))
<1> DEFINE Bad == {m \in Nat : ~ \E it : SumsUp(it, f, Small(S, m))}
<1> SUFFICES ASSUME Bad # {} PROVE FALSE
  OBVIOUS
<1>1. PICK m \in Bad : \A k \in Bad : m <= k
  BY Least
<1>2. CASE m = 0
  <2>1. Small(S, 0) = {{}}
    <3>1. ASSUME NEW s \in SUBSET S PROVE Cardinality(s) <= 0 <=> s = {}
      BY FS_Subset, FS_EmptySet, FS_CardinalityType
    <3> QED
      BY <3>1, {} \in SUBSET S DEF Small
  <2>2. SumsUp([s \in {{}} |-> 0], f, {{}})
    BY DEF SumsUp
  <2> QED
    BY <1>1, <1>2, <2>1, <2>2
<1>3. CASE m # 0
  <2>1. m - 1 \in Nat /\ m - 1 \notin Bad
    BY <1>1, <1>3
  <2>2. PICK old : SumsUp(old, f, Small(S, m - 1))
    BY <2>1
  <2> DEFINE new == [s \in Small(S, m) |->
                        IF s = {} THEN 0 ELSE f[First(s)] + old[s \ {First(s)}]]
  <2>3. ASSUME NEW s \in Small(S, m), s # {} PROVE s \ {First(s)} \in Small(S, m - 1)
    <3>1. IsFiniteSet(s) /\ First(s) \in s
      BY <2>3, FirstIn, FS_Subset DEF Small
    <3> QED
      BY <3>1, OneLess, <1>1, Cardinality(s) <= m DEF Small
  <2>4. ASSUME NEW s \in Small(S, m - 1) PROVE s \in Small(S, m) /\ new[s] = old[s]
    <3>1. s \in Small(S, m)
      BY FS_CardinalityType, FS_Subset, <1>1 DEF Small
    <3> QED
      BY <3>1, <2>2 DEF SumsUp
  <2>5. SumsUp(new, f, Small(S, m))
    <3>1. ASSUME NEW s \in Small(S, m), s # {}
          PROVE  old[s \ {First(s)}] = new[s \ {First(s)}]
      BY <2>3, <2>4, <3>1
    <3>2. new = [s \in Small(S, m) |->
                    IF s = {} THEN 0 ELSE f[First(s)] + new[s \ {First(s)}]]
      BY <3>1
    <3> QED
      BY <3>2 DEF SumsUp
  <2> QED
    BY <1>1, <2>5
<1> QED
  BY <1>2, <1>3

\* ... and only one.
LEMMA OneSolution ==
    ASSUME NEW f, NEW S, IsFiniteSet(S), NEW a, NEW b,
           SumsUp(a, f, SUBSET S), NEW T, S \subseteq T, SumsUp(b, f, SUBSET T)
    PROVE  \A s \in SUBSET S : a[s] = b[s]
<1> DEFINE Bad == {m \in Nat : \E s \in SUBSET S : Cardinality(s) = m /\ a[s] # b[s]}
<1> SUFFICES ASSUME Bad # {} PROVE FALSE
  BY FS_Subset, FS_CardinalityType
<1>1. PICK m \in Bad : \A k \in Bad : m <= k
  BY Least
<1>2. PICK s \in SUBSET S : Cardinality(s) = m /\ a[s] # b[s]
  BY <1>1
<1>3. s # {}
  BY <1>2 DEF SumsUp
<1>4. First(s) \in s /\ IsFiniteSet(s)
  BY <1>3, FirstIn, FS_Subset
<1>5. a[s \ {First(s)}] = b[s \ {First(s)}]
  <2>1. Cardinality(s \ {First(s)}) \notin Bad
    BY <1>1, <1>2, <1>4, OneLess
  <2> QED
    BY <2>1, <1>4, OneLess
<1> QED
  BY ZenonT(30), <1>2, <1>3, <1>5 DEF SumsUp

LEMMA TotalStep ==
    ASSUME NEW f, NEW S, IsFiniteSet(S)
    PROVE  Total(f, S) = IF S = {} THEN 0 ELSE f[First(S)] + Total(f, S \ {First(S)})
<1>1. ASSUME NEW T \in SUBSET S
      PROVE  \E it : SumsUp(it, f, SUBSET T) /\ Total(f, T) = it[T]
  <2>1. IsFiniteSet(T) /\ Small(T, Cardinality(T)) = SUBSET T
    BY FS_Subset DEF Small
  <2>2. \E it : SumsUp(it, f, SUBSET T)
    <3>1. Cardinality(T) \in Nat
      BY <2>1, FS_CardinalityType
    <3>2. \E it : SumsUp(it, f, Small(T, Cardinality(T)))
      BY <2>1, <3>1, SolvedOnSmall
    <3> QED
      BY <2>1, <3>2
  <2> QED
    BY <2>2, TotalIsChosen
<1>2. PICK all : SumsUp(all, f, SUBSET S) /\ Total(f, S) = all[S]
  BY <1>1
<1>3. ASSUME NEW T, T \subseteq S PROVE Total(f, T) = all[T]
  <2>1. PICK it : SumsUp(it, f, SUBSET T) /\ Total(f, T) = it[T]
    BY <1>1, <1>3
  <2>2. IsFiniteSet(T)
    BY <1>3, FS_Subset
  <2>3. \A s \in SUBSET T : it[s] = all[s]
    <3>1. SumsUp(it, f, SUBSET T) /\ SumsUp(all, f, SUBSET S)
      BY <1>2, <2>1
    <3>2. \A a, b, U : SumsUp(a, f, SUBSET T) /\ T \subseteq U /\ SumsUp(b, f, SUBSET U)
               => \A s \in SUBSET T : a[s] = b[s]
      BY SMTT(30), <2>2, OneSolution
    <3> QED
      BY <3>1, <3>2, <1>3
  <2> QED
    BY <2>1, <2>3
<1>4. CASE S # {}
  BY <1>2, <1>3, <1>4, S \ {First(S)} \subseteq S DEF SumsUp
<1> QED
  BY <1>2, <1>4 DEF SumsUp

LEMMA TotalOfNone == ASSUME NEW f PROVE Total(f, {}) = 0
BY TotalStep, FS_EmptySet

\* A sum is a number of the kind that is added up.
LEMMA TotalIsIn ==
    ASSUME NEW V, 0 \in V, \A a, b \in V : a + b \in V,
           NEW f, NEW S, IsFiniteSet(S), \A x \in S : f[x] \in V
    PROVE  Total(f, S) \in V
<1> DEFINE Bad == {m \in Nat : \E s \in SUBSET S : Cardinality(s) = m /\ Total(f, s) \notin V}
<1> SUFFICES ASSUME Bad # {} PROVE FALSE
  BY FS_CardinalityType
<1>1. PICK m \in Bad : \A k \in Bad : m <= k
  BY Least
<1>2. PICK s \in SUBSET S : Cardinality(s) = m /\ Total(f, s) \notin V
  BY <1>1
<1>3. s # {} /\ IsFiniteSet(s)
  <2>1. Total(f, {}) \in V
    BY TotalOfNone
  <2> QED
    BY <1>2, <2>1, FS_Subset
<1>4. First(s) \in s
  BY <1>3, FirstIn
<1>5. Total(f, s \ {First(s)}) \in V
  <2>1. Cardinality(s \ {First(s)}) \notin Bad
    BY <1>1, <1>2, <1>3, <1>4, OneLess
  <2> QED
    BY <2>1, <1>3, <1>4, OneLess
<1>6. f[First(s)] \in V /\ Total(f, s) = f[First(s)] + Total(f, s \ {First(s)})
  BY <1>3, <1>4, TotalStep
<1> QED
  BY <1>2, <1>5, <1>6

LEMMA TotalIsInt ==
    ASSUME NEW f, NEW S, IsFiniteSet(S), \A x \in S : f[x] \in Int
    PROVE  Total(f, S) \in Int
<1>1. 0 \in Int /\ \A a, b \in Int : a + b \in Int
  OBVIOUS
<1> QED
  BY <1>1, TotalIsIn

LEMMA TotalIsNat ==
    ASSUME NEW f, NEW S, IsFiniteSet(S), \A x \in S : f[x] \in Nat
    PROVE  Total(f, S) \in Nat
<1>1. 0 \in Nat /\ \A a, b \in Nat : a + b \in Nat
  OBVIOUS
<1> QED
  BY <1>1, TotalIsIn

\* Whichever element is taken out of a sum or put in
LEMMA TotalWithout ==
    ASSUME NEW f, NEW S, IsFiniteSet(S), \A x \in S : f[x] \in Int, NEW x \in S
    PROVE  Total(f, S) = f[x] + Total(f, S \ {x})
<1> DEFINE Bad == {m \in Nat : \E s \in SUBSET S : /\ Cardinality(s) = m
                     /\ \E y \in s : Total(f, s) # f[y] + Total(f, s \ {y})}
<1> SUFFICES ASSUME Bad # {} PROVE FALSE
  BY FS_CardinalityType
<1>1. PICK m \in Bad : \A k \in Bad : m <= k
  BY Least
<1>2. PICK s \in SUBSET S, y \in S :
        y \in s /\ Cardinality(s) = m /\ Total(f, s) # f[y] + Total(f, s \ {y})
  BY <1>1
<1> DEFINE c == First(s)
<1>3. s # {} /\ IsFiniteSet(s)
  BY <1>2, FS_Subset
<1>4. c \in s
  BY <1>3, FirstIn
<1>5. Total(f, s) = f[c] + Total(f, s \ {c})
  BY <1>3, TotalStep
<1> HIDE DEF c
<1>6. c # y
  BY <1>2, <1>5
<1>7. ASSUME NEW z \in s, NEW w \in s, z # w
      PROVE  Total(f, s \ {z}) = f[w] + Total(f, s \ {z, w})
  <2>1. Cardinality(s \ {z}) \notin Bad /\ Cardinality(s \ {z}) \in Nat
    BY <1>1, <1>2, <1>3, OneLess
  <2>2. s \ {z} \in SUBSET S /\ w \in s \ {z} /\ (s \ {z}) \ {w} = s \ {z, w}
    BY <1>7
  <2> DEFINE t == s \ {z}
  <2>3. t \in SUBSET S /\ w \in t /\ Cardinality(t) \in Nat /\ Cardinality(t) \notin Bad
    BY <2>1, <2>2
  <2>4. Total(f, t) = f[w] + Total(f, t \ {w})
    <3> HIDE DEF t
    <3> QED
      BY <2>3
  <2> QED
    BY <2>2, <2>4
<1>8. Total(f, s \ {c}) = f[y] + Total(f, s \ {c, y}) /\ Total(f, s \ {y}) = f[c] + Total(f, s \ {c, y})
  BY <1>2, <1>4, <1>6, <1>7, s \ {c, y} = s \ {y, c}
<1>9. Total(f, s \ {c, y}) \in Int /\ f[c] \in Int /\ f[y] \in Int
  BY <1>2, <1>4, TotalIsInt, FS_Subset
<1> QED
  BY <1>2, <1>5, <1>8, <1>9

LEMMA TotalWith ==
    ASSUME NEW f, NEW S, IsFiniteSet(S), NEW x, x \notin S,
           \A y \in S \cup {x} : f[y] \in Int
    PROVE  Total(f, S \cup {x}) = Total(f, S) + f[x]
<1>1. IsFiniteSet(S \cup {x}) /\ (S \cup {x}) \ {x} = S
  BY FS_AddElement
<1>2. Total(f, S) \in Int /\ f[x] \in Int
  BY TotalIsInt
<1>3. Total(f, S \cup {x}) = f[x] + Total(f, S)
  BY <1>1, TotalWithout, x \in S \cup {x}
<1> QED
  BY <1>2, <1>3

LEMMA TotalAgrees ==
    ASSUME NEW f, NEW g, NEW S, IsFiniteSet(S), \A x \in S : f[x] = g[x]
    PROVE  Total(f, S) = Total(g, S)
<1> DEFINE Bad == {m \in Nat : \E s \in SUBSET S : Cardinality(s) = m /\ Total(f, s) # Total(g, s)}
<1> SUFFICES ASSUME Bad # {} PROVE FALSE
  BY FS_CardinalityType
<1>1. PICK m \in Bad : \A k \in Bad : m <= k
  BY Least
<1>2. PICK s \in SUBSET S : Cardinality(s) = m /\ Total(f, s) # Total(g, s)
  BY <1>1
<1>3. s # {} /\ IsFiniteSet(s)
  BY <1>2, TotalOfNone, FS_Subset
<1>4. First(s) \in s
  BY <1>3, FirstIn
<1>5. Total(f, s \ {First(s)}) = Total(g, s \ {First(s)})
  <2>1. Cardinality(s \ {First(s)}) \notin Bad
    BY <1>1, <1>2, <1>3, <1>4, OneLess
  <2> QED
    BY <2>1, <1>3, <1>4, OneLess
<1> QED
  BY <1>2, <1>3, <1>4, <1>5, TotalStep

\* The same but for one element
LEMMA TotalMoves ==
    ASSUME NEW f, NEW g, NEW S, IsFiniteSet(S), NEW x \in S,
           \A y \in S : f[y] \in Int /\ g[y] \in Int, \A y \in S \ {x} : g[y] = f[y]
    PROVE  Total(g, S) = Total(f, S) + g[x] - f[x]
<1>1. IsFiniteSet(S \ {x}) /\ Total(g, S \ {x}) = Total(f, S \ {x})
  BY FS_RemoveElement, TotalAgrees
<1>2. Total(f, S \ {x}) \in Int
  BY <1>1, TotalIsInt
<1>3. Total(g, S) = g[x] + Total(g, S \ {x}) /\ Total(f, S) = f[x] + Total(f, S \ {x})
  BY TotalWithout
<1> QED
  BY <1>1, <1>2, <1>3

LEMMA TotalAdds ==
    ASSUME NEW f, NEW g, NEW h, NEW S, IsFiniteSet(S),
           \A x \in S : f[x] \in Int /\ g[x] \in Int /\ h[x] = f[x] + g[x]
    PROVE  Total(h, S) = Total(f, S) + Total(g, S)
<1> DEFINE Bad == {m \in Nat : \E s \in SUBSET S :
                     Cardinality(s) = m /\ Total(h, s) # Total(f, s) + Total(g, s)}
<1> SUFFICES ASSUME Bad # {} PROVE FALSE
  BY FS_CardinalityType
<1>1. PICK m \in Bad : \A k \in Bad : m <= k
  BY Least
<1>2. PICK s \in SUBSET S : Cardinality(s) = m /\ Total(h, s) # Total(f, s) + Total(g, s)
  BY <1>1
<1> DEFINE x == First(s)
           t == s \ {x}
<1>3. s # {} /\ IsFiniteSet(s)
  <2>1. Total(h, {}) = Total(f, {}) + Total(g, {})
    BY TotalOfNone
  <2> QED
    BY <1>2, <2>1, FS_Subset
<1>4. x \in s
  BY <1>3, FirstIn
<1>5. IsFiniteSet(t) /\ Total(h, t) = Total(f, t) + Total(g, t)
  <2>1. Cardinality(t) \notin Bad /\ Cardinality(t) \in Nat /\ t \in SUBSET S /\ IsFiniteSet(t)
    BY <1>1, <1>2, <1>3, <1>4, OneLess
  <2> QED
    BY <2>1
<1>6. Total(h, s) = h[x] + Total(h, t) /\ Total(f, s) = f[x] + Total(f, t)
      /\ Total(g, s) = g[x] + Total(g, t)
  BY <1>3, TotalStep
<1>7. Total(f, t) \in Int /\ Total(g, t) \in Int
  BY <1>5, TotalIsInt
<1> HIDE DEF x, t
<1> QED
  BY <1>2, <1>4, <1>5, <1>6, <1>7

\* Over two parts
LEMMA TotalOfBoth ==
    ASSUME NEW f, NEW S, IsFiniteSet(S), NEW T, IsFiniteSet(T), S \cap T = {},
           \A x \in S \cup T : f[x] \in Int
    PROVE  Total(f, S \cup T) = Total(f, S) + Total(f, T)
<1> DEFINE Bad == {m \in Nat : \E t \in SUBSET T :
                     Cardinality(t) = m /\ Total(f, S \cup t) # Total(f, S) + Total(f, t)}
<1> SUFFICES ASSUME Bad # {} PROVE FALSE
  BY FS_CardinalityType
<1>1. PICK m \in Bad : \A k \in Bad : m <= k
  BY Least
<1>2. PICK t \in SUBSET T :
        Cardinality(t) = m /\ Total(f, S \cup t) # Total(f, S) + Total(f, t)
  BY <1>1
<1>3. IsFiniteSet(t) /\ t # {}
  <2>1. Total(f, S \cup {}) = Total(f, S) + Total(f, {})
    BY TotalOfNone, TotalIsInt, S \cup {} = S
  <2> QED
    BY <1>2, <2>1, FS_Subset
<1>4. PICK x : x \in t
  BY <1>3
<1> DEFINE rest == t \ {x}
<1>5. IsFiniteSet(rest) /\ Total(f, S \cup rest) = Total(f, S) + Total(f, rest)
  <2>1. /\ IsFiniteSet(rest) /\ rest \in SUBSET T
        /\ Cardinality(rest) \in Nat /\ Cardinality(rest) = m - 1
    BY <1>2, <1>3, <1>4, OneLess
  <2>2. Cardinality(rest) \notin Bad
    BY <1>1, <2>1
  <2> HIDE DEF rest
  <2> QED
    BY <2>1, <2>2
<1>6. Total(f, t) = f[x] + Total(f, rest)
  BY <1>3, <1>4, TotalWithout
<1>7. Total(f, S \cup t) = f[x] + Total(f, S \cup rest)
  <2>1. IsFiniteSet(S \cup t) /\ (S \cup t) \ {x} = S \cup rest
    BY <1>3, <1>4, FS_Union
  <2> QED
    BY <2>1, <1>4, TotalWithout, x \in S \cup t
<1>8. Total(f, S) \in Int /\ Total(f, rest) \in Int /\ f[x] \in Int
  BY <1>4, <1>5, TotalIsInt
<1> HIDE DEF rest
<1> QED
  BY <1>2, <1>5, <1>6, <1>7, <1>8

\* A part of numbers not below zero is no more than the whole.
LEMMA TotalOfPart ==
    ASSUME NEW f, NEW S, IsFiniteSet(S), \A x \in S : f[x] \in Nat, NEW T, T \subseteq S
    PROVE  /\ Total(f, T) \in Nat /\ Total(f, S) \in Nat
           /\ Total(f, T) <= Total(f, S)
<1>1. IsFiniteSet(T) /\ IsFiniteSet(S \ T) /\ T \cap (S \ T) = {} /\ T \cup (S \ T) = S
  BY FS_Subset
<1>2. Total(f, T) \in Nat /\ Total(f, S) \in Nat /\ Total(f, S \ T) \in Nat
  BY <1>1, TotalIsNat
<1>3. Total(f, S) = Total(f, T) + Total(f, S \ T)
  <2>1. Total(f, T \cup (S \ T)) = Total(f, T) + Total(f, S \ T)
    BY <1>1, TotalOfBoth
  <2> QED
    BY <1>1, <2>1
<1> DEFINE a == Total(f, T)
           b == Total(f, S \ T)
           c == Total(f, S)
<1> HIDE DEF a, b, c
<1>4. a \in Nat /\ b \in Nat /\ c = a + b
  BY <1>2, <1>3 DEF a, b, c
<1>5. a <= c
  BY <1>4
<1> QED
  BY <1>2, <1>5 DEF a, c

-----------------------------------------------------------------------------
(* Which lots a purchase draws on, and how much it takes *)

LotStatus == {"ACTIVE", "DEPLETED", "EXPIRED", "REVOKED"}
LotRow == [owner : Users, type : CreditTypes, original : Nat, remaining : Nat,
           expires : Int, payment : Nat, status : LotStatus]
LotsTyped == lots \in Seq(LotRow)

Ahead(u, l) == {m \in Available(u) : DrawnBefore(m, l)}
Drawn(u, credits, l) == Clip(credits - Total(Remaining, Ahead(u, l)), 0, lots[l].remaining)

LEMMA NeverIsInt == Never \in Int
BY DEF Never

LEMMA LotFacts ==
    ASSUME LotsTyped
    PROVE  /\ DOMAIN lots = 1 .. Len(lots) /\ Len(lots) \in Nat /\ IsFiniteSet(DOMAIN lots)
           /\ \A l \in DOMAIN lots : /\ lots[l] \in LotRow /\ l \in Nat
                                     /\ Remaining[l] = lots[l].remaining
                                     /\ Remaining[l] \in Nat
<1>1. DOMAIN lots = 1 .. Len(lots) /\ Len(lots) \in Nat
  BY DEF LotsTyped
<1>2. IsFiniteSet(DOMAIN lots)
  BY <1>1, FS_Interval
<1>3. \A l \in DOMAIN lots : lots[l] \in LotRow
  BY DEF LotsTyped
<1> QED
  BY <1>1, <1>2, <1>3 DEF LotRow, Remaining

LEMMA PriorityFacts ==
    ASSUME NEW t \in CreditTypes
    PROVE  Priority(t) \in Nat /\ \A q \in CreditTypes : Priority(t) = Priority(q) => t = q
BY DEF Priority, CreditTypes

\* FEFO is a strict order of the lots.
LEMMA DrawnInOrder ==
    ASSUME LotsTyped, NEW k \in DOMAIN lots, NEW l \in DOMAIN lots, NEW m \in DOMAIN lots
    PROVE  /\ ~DrawnBefore(l, l)
           /\ l # m => DrawnBefore(l, m) \/ DrawnBefore(m, l)
           /\ DrawnBefore(k, l) /\ DrawnBefore(l, m) => DrawnBefore(k, m)
<1>1. ASSUME NEW x \in DOMAIN lots
      PROVE  x \in Nat /\ lots[x].expires \in Int /\ Priority(lots[x].type) \in Nat
  BY LotFacts, PriorityFacts DEF LotRow
<1> QED
  BY <1>1, NeverIsInt DEF DrawnBefore

LEMMA AvailableFacts ==
    ASSUME LotsTyped, NEW u
    PROVE  /\ Available(u) \subseteq DOMAIN lots /\ IsFiniteSet(Available(u))
           /\ \A l : Ahead(u, l) \subseteq Available(u) /\ IsFiniteSet(Ahead(u, l))
           /\ \A l : Total(Remaining, Ahead(u, l)) \in Nat
<1>1. Available(u) \subseteq DOMAIN lots /\ \A l : Ahead(u, l) \subseteq Available(u)
  BY DEF Available, Ahead
<1>2. IsFiniteSet(Available(u)) /\ \A l : IsFiniteSet(Ahead(u, l))
  BY <1>1, LotFacts, FS_Subset
<1>3. \A l : Total(Remaining, Ahead(u, l)) \in Nat
  BY <1>1, <1>2, LotFacts, TotalIsNat
<1> QED
  BY <1>1, <1>2, <1>3

\* Of an available lot at least nothing is taken and at most what it has.
LEMMA DrawnFacts ==
    ASSUME LotsTyped, NEW u, NEW credits \in Nat, NEW l \in Available(u)
    PROVE  /\ Drawn(u, credits, l) \in Nat
           /\ Drawn(u, credits, l) <= lots[l].remaining
           /\ credits - Total(Remaining, Ahead(u, l)) >= lots[l].remaining
                => Drawn(u, credits, l) = lots[l].remaining
           /\ Drawn(u, credits, l) > 0 => credits > Total(Remaining, Ahead(u, l))
           /\ 0 <= credits - Total(Remaining, Ahead(u, l))
                /\ credits - Total(Remaining, Ahead(u, l)) <= lots[l].remaining
                => Drawn(u, credits, l) = credits - Total(Remaining, Ahead(u, l))
           /\ credits - Total(Remaining, Ahead(u, l)) < 0 => Drawn(u, credits, l) = 0
<1> DEFINE ahead == Total(Remaining, Ahead(u, l))
           has == lots[l].remaining
<1>1. ahead \in Nat /\ has \in Nat
  BY AvailableFacts, LotFacts
<1>2. Drawn(u, credits, l) = Clip(credits - ahead, 0, has)
  BY DEF Drawn
<1> HIDE DEF ahead, has
<1>3. /\ Clip(credits - ahead, 0, has) \in Nat
      /\ Clip(credits - ahead, 0, has) <= has
      /\ credits - ahead >= has => Clip(credits - ahead, 0, has) = has
      /\ Clip(credits - ahead, 0, has) > 0 => credits > ahead
      /\ 0 <= credits - ahead /\ credits - ahead <= has
           => Clip(credits - ahead, 0, has) = credits - ahead
      /\ credits - ahead < 0 => Clip(credits - ahead, 0, has) = 0
  BY <1>1 DEF Clip, Smaller
<1> QED
  BY <1>2, <1>3 DEF ahead, has

LEMMA DrawdownFacts ==
    ASSUME LotsTyped, NEW u, NEW credits \in Nat
    PROVE  LET taken == Drawdown(u, credits)
           IN  /\ DOMAIN taken = {l \in Available(u) : Drawn(u, credits, l) > 0}
               /\ DOMAIN taken \subseteq DOMAIN lots /\ IsFiniteSet(DOMAIN taken)
               /\ \A l \in DOMAIN taken :
                     /\ taken[l] = Drawn(u, credits, l)
                     /\ taken[l] \in Nat /\ taken[l] > 0 /\ taken[l] <= lots[l].remaining
<1>1. Drawdown(u, credits)
        = [l \in {m \in Available(u) : Drawn(u, credits, m) > 0} |-> Drawn(u, credits, l)]
  BY DEF Drawdown, Drawn, Ahead
<1>2. {m \in Available(u) : Drawn(u, credits, m) > 0} \subseteq Available(u)
  OBVIOUS
<1>3. IsFiniteSet({m \in Available(u) : Drawn(u, credits, m) > 0})
  BY <1>2, AvailableFacts, FS_Subset
<1> QED
  BY <1>1, <1>3, AvailableFacts, DrawnFacts

\* First expiring first: a lot is left alone until those before it are empty.
LEMMA EmptiesInOrder ==
    ASSUME LotsTyped, NEW u, NEW credits \in Nat, NEW l \in DOMAIN Drawdown(u, credits),
           NEW m \in Available(u), DrawnBefore(m, l)
    PROVE  m \in DOMAIN Drawdown(u, credits) /\ Drawdown(u, credits)[m] = lots[m].remaining
<1>0. /\ DOMAIN Drawdown(u, credits) = {x \in Available(u) : Drawn(u, credits, x) > 0}
      /\ \A x \in DOMAIN Drawdown(u, credits) : Drawdown(u, credits)[x] = Drawn(u, credits, x)
  BY DrawdownFacts
<1>1. l \in Available(u) /\ credits > Total(Remaining, Ahead(u, l))
  BY <1>0, DrawnFacts
<1>2. Ahead(u, m) \cup {m} \subseteq Ahead(u, l) /\ m \notin Ahead(u, m)
  BY <1>1, AvailableFacts, DrawnInOrder DEF Ahead
<1>3. Total(Remaining, Ahead(u, m) \cup {m}) <= Total(Remaining, Ahead(u, l))
  BY <1>1, <1>2, AvailableFacts, LotFacts, TotalOfPart
<1>4. Total(Remaining, Ahead(u, m) \cup {m}) = Total(Remaining, Ahead(u, m)) + Remaining[m]
  BY <1>2, AvailableFacts, LotFacts, TotalWith
<1>5. /\ Total(Remaining, Ahead(u, m)) \in Nat /\ Total(Remaining, Ahead(u, l)) \in Nat
      /\ Remaining[m] = lots[m].remaining /\ lots[m].remaining \in Nat /\ lots[m].remaining > 0
  BY AvailableFacts, LotFacts DEF Available
<1>6. credits - Total(Remaining, Ahead(u, m)) >= lots[m].remaining
  BY <1>1, <1>3, <1>4, <1>5
<1>7. Drawn(u, credits, m) = lots[m].remaining /\ Drawn(u, credits, m) > 0
  BY <1>5, <1>6, DrawnFacts
<1> QED
  BY <1>0, <1>7

\* What is taken of the lots
TakenOf(u, credits) == [l \in Available(u) |-> Drawn(u, credits, l)]

\* A set of lots is drawn on from the front.
FromFront(u, S) == S \subseteq Available(u) /\ \A l \in S : Ahead(u, l) \subseteq S

\* Of lots there is a last one.
LEMMA LastLot ==
    ASSUME LotsTyped, NEW u, NEW S, S \subseteq Available(u), S # {}
    PROVE  \E l \in S : \A m \in S : m # l => DrawnBefore(m, l)
<1> DEFINE After(l) == {m \in S : DrawnBefore(l, m)}
           Sizes == {Cardinality(After(l)) : l \in S}
<1>1. S \subseteq DOMAIN lots /\ IsFiniteSet(S)
  BY AvailableFacts, FS_Subset
<1>2. \A l \in S : IsFiniteSet(After(l)) /\ Cardinality(After(l)) \in Nat
  BY <1>1, FS_Subset, FS_CardinalityType
<1>3. Sizes \subseteq Nat /\ Sizes # {}
  BY <1>2
<1>4. PICK n \in Sizes : \A k \in Sizes : n <= k
  BY <1>3, Least
<1>5. PICK l \in S : n = Cardinality(After(l))
  OBVIOUS
<1>6. ASSUME NEW m \in S, m # l, ~DrawnBefore(m, l) PROVE FALSE
  <2>1. m \in After(l)
    BY <1>1, <1>6, DrawnInOrder
  <2>2. After(m) \subseteq After(l) /\ m \notin After(m)
    BY <1>1, <2>1, DrawnInOrder
  <2>3. Cardinality(After(m)) < Cardinality(After(l))
    <3>1. After(m) \subseteq After(l) \ {m}
      BY <2>2
    <3> HIDE DEF After
    <3>2. Cardinality(After(l) \ {m}) = Cardinality(After(l)) - 1 /\ IsFiniteSet(After(l) \ {m})
      BY <1>2, <2>1, FS_RemoveElement
    <3>3. Cardinality(After(m)) <= Cardinality(After(l) \ {m})
      BY <3>1, <3>2, FS_Subset
    <3> QED
      BY <1>2, <3>2, <3>3
  <2>4. n <= Cardinality(After(m))
    BY <1>4
  <2> QED
    BY <1>2, <1>5, <2>3, <2>4
<1> QED
  BY <1>6

\* The lots from the front give all they have, or what is asked for.
LEMMA FrontGives ==
    ASSUME LotsTyped, NEW u, NEW credits \in Nat, NEW S, FromFront(u, S)
    PROVE  Total(TakenOf(u, credits), S) = Smaller(credits, Total(Remaining, S))
<1> DEFINE take == TakenOf(u, credits)
           Right(s) == Total(take, s) = Smaller(credits, Total(Remaining, s))
           Bad == {m \in Nat : \E s \in SUBSET S :
                     FromFront(u, s) /\ Cardinality(s) = m /\ ~Right(s)}
<1>0. S \subseteq Available(u) /\ IsFiniteSet(S)
  BY AvailableFacts, FS_Subset DEF FromFront
<1> SUFFICES ASSUME Bad # {} PROVE FALSE
  BY <1>0, FS_CardinalityType
<1>1. PICK m \in Bad : \A k \in Bad : m <= k
  BY Least
<1>2. PICK s \in SUBSET S : FromFront(u, s) /\ Cardinality(s) = m /\ ~Right(s)
  BY <1>1
<1>3. s # {}
  <2>1. Right({})
    BY TotalOfNone DEF Smaller
  <2> QED
    BY <1>2, <2>1
<1>4. s \subseteq Available(u) /\ IsFiniteSet(s)
  BY <1>0, FS_Subset
<1>5. PICK l \in s : \A k \in s : k # l => DrawnBefore(k, l)
  BY <1>3, <1>4, LastLot
<1>6. s \ {l} = Ahead(u, l) /\ FromFront(u, s \ {l})
  <2>1. s \subseteq DOMAIN lots
    BY <1>4, AvailableFacts
  <2>2. \A k \in s : ~DrawnBefore(k, k) /\ (DrawnBefore(k, l) => ~DrawnBefore(l, k))
    BY <2>1, DrawnInOrder
  <2> QED
    BY <1>2, <1>4, <1>5, <2>2 DEF FromFront, Ahead
<1>7. Right(s \ {l})
  <2>1. /\ Cardinality(s \ {l}) \in Nat /\ Cardinality(s \ {l}) = m - 1
        /\ s \ {l} \in SUBSET S
    BY <1>2, <1>4, OneLess
  <2>2. Cardinality(s \ {l}) \notin Bad
    BY <1>1, <2>1
  <2> HIDE DEF Right
  <2> QED
    BY <1>6, <2>1, <2>2
<1>8. \A k \in s : take[k] = Drawn(u, credits, k) /\ take[k] \in Int /\ Remaining[k] \in Int
  <2>1. \A k \in s : take[k] = Drawn(u, credits, k)
    BY <1>4 DEF TakenOf
  <2>2. \A k \in s : Drawn(u, credits, k) \in Int
    BY <1>4, DrawnFacts
  <2>3. \A k \in s : Remaining[k] \in Int
    BY <1>4, AvailableFacts, LotFacts
  <2> QED
    BY <2>1, <2>2, <2>3
<1>9. /\ Total(take, s) = Drawn(u, credits, l) + Total(take, s \ {l})
      /\ Total(Remaining, s) = lots[l].remaining + Total(Remaining, s \ {l})
  BY SMTT(30), <1>4, <1>5, <1>8, TotalWithout, AvailableFacts, LotFacts
<1> DEFINE ahead == Total(Remaining, Ahead(u, l))
           has == lots[l].remaining
           d == Drawn(u, credits, l)
<1>10. /\ ahead \in Nat /\ has \in Nat /\ d \in Nat /\ d <= has
       /\ credits - ahead >= has => d = has
       /\ 0 <= credits - ahead /\ credits - ahead <= has => d = credits - ahead
       /\ credits - ahead < 0 => d = 0
  BY <1>4, <1>5, DrawnFacts, AvailableFacts, LotFacts
<1>11. Total(take, s) = d + Smaller(credits, ahead) /\ Total(Remaining, s) = has + ahead
  BY <1>6, <1>7, <1>9
<1> HIDE DEF ahead, has, d
<1>12. d + Smaller(credits, ahead) = Smaller(credits, has + ahead)
  BY <1>10 DEF Smaller
<1> QED
  BY <1>2, <1>11, <1>12

\* The parts of a sum that are nothing do not count.
LEMMA TotalOfRest ==
    ASSUME NEW f, NEW S, IsFiniteSet(S), \A x \in S : f[x] \in Int, NEW T, T \subseteq S,
           \A x \in S \ T : f[x] = 0
    PROVE  Total(f, S) = Total(f, T)
<1>1. IsFiniteSet(T) /\ IsFiniteSet(S \ T) /\ T \cap (S \ T) = {} /\ T \cup (S \ T) = S
  BY FS_Subset
<1>2. Total(f, T \cup (S \ T)) = Total(f, T) + Total(f, S \ T)
  BY <1>1, TotalOfBoth
<1>3. Total(f, S \ T) \in {0}
  <2>1. 0 \in {0} /\ \A a, b \in {0} : a + b \in {0}
    OBVIOUS
  <2> QED
    BY <1>1, <2>1, TotalIsIn
<1>4. Total(f, T) \in Int
  BY <1>1, TotalIsInt
<1>5. Total(f, T \cup (S \ T)) = Total(f, T)
  BY <1>2, <1>3, <1>4
<1> QED
  BY <1>1, <1>5

\* drawdownCredits takes what is asked for, no more and no less, if the lots have it.
LEMMA DrawdownIsExact ==
    ASSUME LotsTyped, NEW u, NEW credits \in Nat,
           Total(Remaining, Available(u)) >= credits
    PROVE  Total(Drawdown(u, credits), DOMAIN Drawdown(u, credits)) = credits
<1> DEFINE take == TakenOf(u, credits)
           taken == Drawdown(u, credits)
<1>1. FromFront(u, Available(u))
  BY AvailableFacts DEF FromFront
<1>2. Total(take, Available(u)) = credits
  <2>1. Total(Remaining, Available(u)) \in Nat
    BY AvailableFacts, LotFacts, TotalIsNat
  <2> QED
    BY <1>1, <2>1, FrontGives DEF Smaller
<1>3. /\ DOMAIN taken \subseteq Available(u) /\ IsFiniteSet(DOMAIN taken)
      /\ \A l \in DOMAIN taken : taken[l] = take[l]
      /\ \A l \in Available(u) : take[l] \in Nat /\ (l \notin DOMAIN taken => take[l] = 0)
  <2>1. /\ DOMAIN taken = {l \in Available(u) : Drawn(u, credits, l) > 0}
        /\ IsFiniteSet(DOMAIN taken)
        /\ \A l \in DOMAIN taken : taken[l] = Drawn(u, credits, l)
    BY DrawdownFacts
  <2>2. \A l \in Available(u) : take[l] = Drawn(u, credits, l) /\ Drawn(u, credits, l) \in Nat
    BY DrawnFacts DEF TakenOf
  <2> HIDE DEF take, taken
  <2> QED
    BY <2>1, <2>2
<1> HIDE DEF take, taken
<1>4. Total(take, Available(u)) = Total(take, DOMAIN taken)
  BY <1>3, AvailableFacts, TotalOfRest
<1>5. Total(take, DOMAIN taken) = Total(taken, DOMAIN taken)
  BY <1>3, TotalAgrees
<1> QED
  BY <1>2, <1>4, <1>5 DEF taken

-----------------------------------------------------------------------------
(* Wallets: what the operations make of the balances and of their types *)

WalletStatus == {"ACTIVE", "SUSPENDED_CHARGEBACK"}
WalletRow == [balance : Int, typed : [CreditTypes -> Int], status : WalletStatus,
              deposited : Int, earned : Int, spent : Int]
WalletRows == [Users -> WalletRow]

LEMMA ColumnsRead ==
    ASSUME NEW w \in WalletRows, NEW u \in Users
    PROVE  /\ w[u].balance \in Int /\ w[u].typed \in [CreditTypes -> Int]
           /\ \A t \in CreditTypes : w[u].typed[t] \in Int
           /\ w[u].status \in WalletStatus
           /\ w[u].deposited \in Int /\ w[u].earned \in Int /\ w[u].spent \in Int
BY DEF WalletRows, WalletRow

\* Wallets w differ from wallets v only in u's balance and typed balances, by
\* in, and by what change says of each type.
Moves(v, w, u, in, change) ==
    /\ w \in WalletRows
    /\ \A x \in Users : x # u => w[x].balance = v[x].balance /\ w[x].typed = v[x].typed
    /\ w[u].balance = v[u].balance + in
    /\ \A t \in CreditTypes : w[u].typed[t] = v[u].typed[t] + change[t]

LEMMA GrantedFacts ==
    ASSUME NEW w \in WalletRows, NEW u \in Users, NEW type \in CreditTypes, NEW n \in Nat
    PROVE  Moves(w, Granted(w, u, type, n), u, n,
                 [t \in CreditTypes |-> IF t = type THEN n ELSE 0])
<1> DEFINE new == Granted(w, u, type, n)
           typed == [w[u].typed EXCEPT ![type] = @ + n]
<1>1. /\ w[u].balance + n \in Int /\ typed \in [CreditTypes -> Int]
      /\ \A t \in CreditTypes : typed[t] = w[u].typed[t] + (IF t = type THEN n ELSE 0)
  BY ColumnsRead
<1>2. new = [w EXCEPT ![u].balance = w[u].balance + n, ![u].typed = typed]
  BY DEF Granted, WalletRows, WalletRow
<1> HIDE DEF typed, new
<1>3. new \in WalletRows
  BY <1>1, <1>2 DEF WalletRows, WalletRow
<1>4. /\ new[u].balance = w[u].balance + n /\ new[u].typed = typed
      /\ \A x \in Users : x # u => new[x] = w[x]
  BY <1>1, <1>2 DEF WalletRows, WalletRow
<1> QED
  BY <1>1, <1>3, <1>4 DEF Moves, new

LEMMA ChargedFacts ==
    ASSUME NEW w \in WalletRows, NEW u \in Users, NEW n \in Nat, NEW taken,
           \A t \in CreditTypes : OfType(taken, t) \in Int
    PROVE  Moves(w, Charged(w, u, n, taken), u, -n,
                 [t \in CreditTypes |-> -OfType(taken, t)])
<1> DEFINE new == Charged(w, u, n, taken)
           typed == [t \in CreditTypes |-> w[u].typed[t] - OfType(taken, t)]
<1>1. /\ w[u].balance - n \in Int /\ w[u].spent + n \in Int /\ typed \in [CreditTypes -> Int]
      /\ \A t \in CreditTypes : typed[t] = w[u].typed[t] + (-OfType(taken, t))
  BY ColumnsRead
<1>2. new = [w EXCEPT ![u].balance = w[u].balance - n, ![u].spent = w[u].spent + n,
                      ![u].typed = typed]
  BY DEF Charged, WalletRows, WalletRow
<1> HIDE DEF typed, new
<1>3. new \in WalletRows
  BY ZenonT(30), <1>1, <1>2 DEF WalletRows, WalletRow
<1>4. /\ new[u].balance = w[u].balance - n /\ new[u].typed = typed
      /\ \A x \in Users : x # u => new[x] = w[x]
  BY <1>1, <1>2 DEF WalletRows, WalletRow
<1>5. new[u].balance = w[u].balance + (-n)
  BY <1>4, ColumnsRead
<1> QED
  BY <1>1, <1>3, <1>4, <1>5 DEF Moves, new

NoChange == [t \in CreditTypes |-> 0]

LEMMA PaidFacts ==
    ASSUME NEW w \in WalletRows, NEW u \in Users, NEW n \in Int
    PROVE  Moves(w, Paid(w, u, n), u, n, NoChange)
<1> DEFINE new == Paid(w, u, n)
<1>1. w[u].balance + n \in Int /\ w[u].earned + n \in Int
  BY ColumnsRead
<1>2. new = [w EXCEPT ![u].balance = w[u].balance + n, ![u].earned = w[u].earned + n]
  BY DEF Paid, WalletRows, WalletRow
<1> HIDE DEF new
<1>3. new \in WalletRows
  BY <1>1, <1>2 DEF WalletRows, WalletRow
<1>4. /\ new[u].balance = w[u].balance + n /\ new[u].typed = w[u].typed
      /\ \A x \in Users : x # u => new[x] = w[x]
  BY <1>1, <1>2 DEF WalletRows, WalletRow
<1> QED
  BY <1>3, <1>4, ColumnsRead DEF Moves, new, NoChange

LEMMA RepaidFacts ==
    ASSUME wallets \in WalletRows, NEW o, o.src \in Users, o.amount \in Nat,
           \A t \in CreditTypes : OfType(o.taken, t) \in Int
    PROVE  Moves(wallets, Repaid(o), o.src, o.amount,
                 [t \in CreditTypes |-> OfType(o.taken, t)])
<1> DEFINE u == o.src
           n == o.amount
           new == Repaid(o)
           typed == [t \in CreditTypes |-> wallets[u].typed[t] + OfType(o.taken, t)]
<1>1. /\ wallets[u].balance + n \in Int /\ wallets[u].spent - n \in Int
      /\ typed \in [CreditTypes -> Int]
      /\ \A t \in CreditTypes : typed[t] = wallets[u].typed[t] + OfType(o.taken, t)
  BY ColumnsRead
<1>2. new = [wallets EXCEPT ![u].balance = wallets[u].balance + n,
                            ![u].spent = wallets[u].spent - n, ![u].typed = typed]
  BY DEF Repaid, WalletRows, WalletRow
<1>u. u \in Users
  OBVIOUS
<1> HIDE DEF typed, new, u, n
<1>3. new \in WalletRows
  BY ZenonT(30), <1>1, <1>2, <1>u DEF WalletRows, WalletRow
<1>4. /\ new[u].balance = wallets[u].balance + n /\ new[u].typed = typed
      /\ \A x \in Users : x # u => new[x] = wallets[x]
  BY <1>1, <1>2, <1>u DEF WalletRows, WalletRow
<1> QED
  BY <1>1, <1>3, <1>4 DEF Moves, new, u, n

\* processChargebackDispute's update of the wallet
Disowned(u, credits, bonus) ==
    [wallets EXCEPT
        ![u].balance = @ - (credits + bonus),
        ![u].typed = ClampedOff(@, credits, bonus),
        ![u].deposited = @ - (credits + bonus),
        ![u].status = "SUSPENDED_CHARGEBACK"]

LEMMA DisownedFacts ==
    ASSUME wallets \in WalletRows, NEW u \in Users, NEW credits \in Nat, NEW bonus \in Nat
    PROVE  \E change : Moves(wallets, Disowned(u, credits, bonus), u, -(credits + bonus), change)
<1> DEFINE new == Disowned(u, credits, bonus)
           a == wallets[u].typed["PURCHASED"] - Smaller(wallets[u].typed["PURCHASED"], credits)
           b == wallets[u].typed["BONUS"] - Smaller(wallets[u].typed["BONUS"], bonus)
           typed == [wallets[u].typed EXCEPT !["PURCHASED"] = a, !["BONUS"] = b]
           status == "SUSPENDED_CHARGEBACK"
           m == wallets[u].balance - (credits + bonus)
           d == wallets[u].deposited - (credits + bonus)
           change == [t \in CreditTypes |-> typed[t] - wallets[u].typed[t]]
<1>1. a \in Int /\ b \in Int
  <2>1. wallets[u].typed["PURCHASED"] \in Int /\ wallets[u].typed["BONUS"] \in Int
    BY ColumnsRead DEF CreditTypes
  <2> QED
    BY <2>1 DEF Smaller
<1>2. new = [wallets EXCEPT ![u].balance = m, ![u].typed = typed, ![u].deposited = d,
                            ![u].status = status]
  <2>1. typed = ClampedOff(wallets[u].typed, credits, bonus)
    BY ColumnsRead DEF CreditTypes, ClampedOff
  <2> HIDE DEF typed
  <2> QED
    BY <2>1 DEF Disowned, WalletRows, WalletRow
<1>3. m \in Int /\ d \in Int /\ status \in WalletStatus /\ m = wallets[u].balance + (-(credits + bonus))
  BY ColumnsRead DEF WalletStatus
<1>4. /\ typed \in [CreditTypes -> Int]
      /\ \A t \in CreditTypes : typed[t] = wallets[u].typed[t] + change[t]
  <2> HIDE DEF a, b
  <2>1. typed \in [CreditTypes -> Int]
    BY <1>1, ColumnsRead
  <2> HIDE DEF typed
  <2> QED
    BY <2>1, ColumnsRead
<1> HIDE DEF typed, new, status, m, d, change
<1>5. new \in WalletRows
  <2>1. [[wallets EXCEPT ![u].balance = m] EXCEPT ![u].typed = typed] \in WalletRows
    BY ZenonT(30), <1>3, <1>4 DEF WalletRows, WalletRow
  <2> DEFINE half == [wallets EXCEPT ![u].balance = m, ![u].typed = typed]
  <2>2. half \in WalletRows
    BY ZenonT(30), <1>3, <1>4 DEF WalletRows, WalletRow
  <2>3. new = [half EXCEPT ![u].deposited = d, ![u].status = status]
    BY <1>2 DEF WalletRows, WalletRow
  <2> HIDE DEF half
  <2> QED
    BY <2>2, <2>3, <1>3 DEF WalletRows, WalletRow
<1>6. /\ new[u].balance = m /\ new[u].typed = typed
      /\ \A x \in Users : x # u => new[x] = wallets[x]
  BY <1>2, <1>3, <1>4 DEF WalletRows, WalletRow
<1>7. Moves(wallets, new, u, -(credits + bonus), change)
  BY <1>3, <1>4, <1>5, <1>6 DEF Moves
<1> QED
  BY <1>7 DEF new

LEMMA SweptFacts ==
    ASSUME wallets \in WalletRows, NEW lot, lot.owner \in Users, lot.type \in CreditTypes,
           NEW n \in Nat
    PROVE  Moves(wallets, Swept(lot, n), lot.owner, -n,
                 [t \in CreditTypes |-> IF t = SweptType(lot) THEN -n ELSE 0])
<1> DEFINE u == lot.owner
           type == SweptType(lot)
           new == Swept(lot, n)
           typed == [wallets[u].typed EXCEPT ![type] = @ - n]
<1>0. u \in Users /\ type \in CreditTypes
  BY DEF SweptType, CreditTypes
<1> HIDE DEF type, u
<1>1. /\ wallets[u].balance - n \in Int /\ typed \in [CreditTypes -> Int]
      /\ \A t \in CreditTypes :
            typed[t] = wallets[u].typed[t] + (IF t = type THEN -n ELSE 0)
  BY <1>0, ColumnsRead
<1>2. new = [wallets EXCEPT ![u].balance = wallets[u].balance - n, ![u].typed = typed]
  BY <1>0 DEF Swept, WalletRows, WalletRow, u, type
<1> HIDE DEF typed, new
<1>3. new \in WalletRows
  BY <1>0, <1>1, <1>2 DEF WalletRows, WalletRow
<1>4. /\ new[u].balance = wallets[u].balance - n /\ new[u].typed = typed
      /\ \A x \in Users : x # u => new[x] = wallets[x]
  BY <1>0, <1>1, <1>2 DEF WalletRows, WalletRow
<1>5. new[u].balance = wallets[u].balance + (-n)
  BY <1>0, <1>4, ColumnsRead
<1> QED
  BY <1>1, <1>3, <1>4, <1>5 DEF Moves, new, u, type

\* A deposit's three columns
LEMMA DepositedFacts ==
    ASSUME NEW w \in WalletRows, NEW u \in Users, NEW n \in Nat
    PROVE  Moves(w, [w EXCEPT ![u].deposited = @ + n], u, 0, NoChange)
<1> DEFINE new == [w EXCEPT ![u].deposited = w[u].deposited + n]
<1>1. w[u].deposited + n \in Int
  BY ColumnsRead
<1>2. new \in WalletRows
  BY <1>1 DEF WalletRows, WalletRow
<1>3. /\ new[u].balance = w[u].balance + 0 /\ new[u].typed = w[u].typed
      /\ \A x \in Users : x # u => new[x] = w[x]
  BY <1>1, ColumnsRead DEF WalletRows, WalletRow
<1>4. new = [w EXCEPT ![u].deposited = @ + n]
  BY DEF WalletRows
<1> HIDE DEF new
<1> QED
  BY <1>2, <1>3, <1>4, ColumnsRead DEF Moves, NoChange

-----------------------------------------------------------------------------
(* Lots: what the operations make of them *)

\* Lots that are written one by one
LEMMA LotsWritten ==
    ASSUME LotsTyped, NEW new, new = [l \in DOMAIN lots |-> new[l]],
           \A l \in DOMAIN lots : new[l] \in LotRow
    PROVE  new \in Seq(LotRow) /\ Len(new) = Len(lots) /\ DOMAIN new = DOMAIN lots
<1>1. DOMAIN lots = 1 .. Len(lots) /\ Len(lots) \in Nat
  BY LotFacts
<1>2. new \in [1 .. Len(lots) -> LotRow]
  BY <1>1
<1> QED
  BY <1>1, <1>2

\* An update of what is left of a lot and of its status
Written(row, n, s) == [row EXCEPT !.remaining = n, !.status = s]

LEMMA LotWritten ==
    ASSUME NEW row, row \in LotRow, NEW n, n \in Nat, NEW s, s \in LotStatus
    PROVE  /\ Written(row, n, s) \in LotRow
           /\ Written(row, n, s).owner = row.owner
           /\ Written(row, n, s).type = row.type
           /\ Written(row, n, s).payment = row.payment
           /\ Written(row, n, s).original = row.original
           /\ Written(row, n, s).expires = row.expires
           /\ Written(row, n, s).remaining = n
           /\ Written(row, n, s).status = s
BY DEF LotRow, LotStatus, Written

\* Lots new are lots with what is left and the status of some of them changed.
SameLots(new) ==
    /\ new \in Seq(LotRow) /\ Len(new) = Len(lots) /\ DOMAIN new = DOMAIN lots
    /\ \A l \in DOMAIN lots : /\ new[l].owner = lots[l].owner
                              /\ new[l].type = lots[l].type
                              /\ new[l].payment = lots[l].payment
                              /\ new[l].original = lots[l].original
                              /\ new[l].expires = lots[l].expires

LEMMA LotsChange ==
    ASSUME LotsTyped, NEW new, new = [l \in DOMAIN lots |-> new[l]],
           \A l \in DOMAIN lots : \/ new[l] = lots[l]
                                  \/ \E n \in Nat, s \in LotStatus : new[l] = Written(lots[l], n, s)
    PROVE  SameLots(new)
<1>1. ASSUME NEW l \in DOMAIN lots
      PROVE  /\ new[l] \in LotRow
             /\ new[l].owner = lots[l].owner /\ new[l].type = lots[l].type
             /\ new[l].payment = lots[l].payment /\ new[l].original = lots[l].original
             /\ new[l].expires = lots[l].expires
  <2>1. lots[l] \in LotRow
    BY LotFacts
  <2>2. CASE new[l] = lots[l]
    BY <2>1, <2>2
  <2>3. ASSUME NEW n \in Nat, NEW s \in LotStatus, new[l] = Written(lots[l], n, s)
        PROVE  /\ new[l] \in LotRow
               /\ new[l].owner = lots[l].owner /\ new[l].type = lots[l].type
               /\ new[l].payment = lots[l].payment /\ new[l].original = lots[l].original
               /\ new[l].expires = lots[l].expires
    BY <2>1, <2>3, LotWritten
  <2> QED
    BY <2>2, <2>3
<1>2. new \in Seq(LotRow) /\ Len(new) = Len(lots) /\ DOMAIN new = DOMAIN lots
  BY <1>1, LotsWritten
<1> QED
  BY <1>1, <1>2 DEF SameLots

\* drawdownCredits leaves a lot DEPLETED exactly when it is empty.
LEMMA DrawnOnFacts ==
    ASSUME LotsTyped, NEW taken, DOMAIN taken \subseteq DOMAIN lots,
           \A l \in DOMAIN taken : taken[l] \in Nat /\ taken[l] <= lots[l].remaining
    PROVE  /\ SameLots(DrawnOn(taken))
           /\ \A l \in DOMAIN lots \ DOMAIN taken : DrawnOn(taken)[l] = lots[l]
           /\ \A l \in DOMAIN taken :
                 /\ DrawnOn(taken)[l].remaining = lots[l].remaining - taken[l]
                 /\ DrawnOn(taken)[l].status
                      = IF taken[l] = lots[l].remaining THEN "DEPLETED" ELSE "ACTIVE"
<1> DEFINE left(l) == lots[l].remaining - taken[l]
           status(l) == IF taken[l] = lots[l].remaining THEN "DEPLETED" ELSE "ACTIVE"
           new == DrawnOn(taken)
<1>1. \A l \in DOMAIN taken : left(l) \in Nat /\ status(l) \in LotStatus /\ lots[l] \in LotRow
  BY LotFacts DEF LotRow, LotStatus
<1>2. /\ new = [l \in DOMAIN lots |-> new[l]]
      /\ \A l \in DOMAIN lots \ DOMAIN taken : new[l] = lots[l]
      /\ \A l \in DOMAIN taken : new[l] = Written(lots[l], left(l), status(l))
  BY DEF DrawnOn, Written
<1>3. ASSUME NEW l \in DOMAIN taken
      PROVE  new[l].remaining = left(l) /\ new[l].status = status(l)
  <2> HIDE DEF left, status, new
  <2>1. lots[l] \in LotRow /\ left(l) \in Nat /\ status(l) \in LotStatus
    BY <1>1
  <2>2. /\ Written(lots[l], left(l), status(l)).remaining = left(l)
        /\ Written(lots[l], left(l), status(l)).status = status(l)
    BY <2>1, LotWritten
  <2> QED
    BY <1>2, <2>2
<1>4. SameLots(new)
  <2> HIDE DEF left, status, new
  <2> QED
    BY <1>1, <1>2, LotsChange
<1> QED
  BY <1>2, <1>3, <1>4

\* restoreLotDeductions makes every lot it gives back to ACTIVE.
LEMMA RestoredFacts ==
    ASSUME LotsTyped, NEW back, DOMAIN back \subseteq DOMAIN lots,
           \A l \in DOMAIN back : back[l] \in Nat
    PROVE  /\ SameLots(Restored(back))
           /\ \A l \in DOMAIN lots \ DOMAIN back : Restored(back)[l] = lots[l]
           /\ \A l \in DOMAIN back :
                 /\ Restored(back)[l].remaining = lots[l].remaining + back[l]
                 /\ Restored(back)[l].status = "ACTIVE"
<1> DEFINE left(l) == lots[l].remaining + back[l]
           new == Restored(back)
<1>1. "ACTIVE" \in LotStatus /\ \A l \in DOMAIN back : left(l) \in Nat /\ lots[l] \in LotRow
  BY LotFacts DEF LotRow, LotStatus
<1>2. /\ new = [l \in DOMAIN lots |-> new[l]]
      /\ \A l \in DOMAIN lots \ DOMAIN back : new[l] = lots[l]
      /\ \A l \in DOMAIN back : new[l] = Written(lots[l], left(l), "ACTIVE")
  BY DEF Restored, Written
<1>3. ASSUME NEW l \in DOMAIN back PROVE new[l].remaining = left(l) /\ new[l].status = "ACTIVE"
  <2> HIDE DEF left, new
  <2>1. lots[l] \in LotRow /\ left(l) \in Nat /\ "ACTIVE" \in LotStatus
    BY <1>1
  <2>2. /\ Written(lots[l], left(l), "ACTIVE").remaining = left(l)
        /\ Written(lots[l], left(l), "ACTIVE").status = "ACTIVE"
    BY <2>1, LotWritten
  <2> QED
    BY <1>2, <2>2
<1>4. SameLots(new)
  <2> HIDE DEF left, new
  <2> QED
    BY <1>1, <1>2, LotsChange
<1> QED
  BY <1>2, <1>3, <1>4

\* The lots of a disputed payment
Revoked(p) ==
    [l \in DOMAIN lots |->
        IF lots[l].payment # p THEN lots[l]
        ELSE [lots[l] EXCEPT !.status = "REVOKED", !.remaining = 0]]

LEMMA RevokedFacts ==
    ASSUME LotsTyped, NEW p
    PROVE  /\ SameLots(Revoked(p))
           /\ \A l \in DOMAIN lots : lots[l].payment # p => Revoked(p)[l] = lots[l]
           /\ \A l \in DOMAIN lots : lots[l].payment = p =>
                 Revoked(p)[l].remaining = 0 /\ Revoked(p)[l].status = "REVOKED"
<1> DEFINE new == Revoked(p)
<1>1. 0 \in Nat /\ "REVOKED" \in LotStatus /\ \A l \in DOMAIN lots : lots[l] \in LotRow
  BY LotFacts DEF LotStatus
<1>2. /\ new = [l \in DOMAIN lots |-> new[l]]
      /\ \A l \in DOMAIN lots : lots[l].payment # p => new[l] = lots[l]
      /\ \A l \in DOMAIN lots : lots[l].payment = p => new[l] = Written(lots[l], 0, "REVOKED")
  <2>1. ASSUME NEW row \in LotRow
        PROVE  [row EXCEPT !.status = "REVOKED", !.remaining = 0] = Written(row, 0, "REVOKED")
    BY DEF LotRow, Written
  <2> QED
    BY <1>1, <2>1 DEF Revoked
<1> HIDE DEF new
<1>3. \A l \in DOMAIN lots : lots[l].payment = p => new[l].remaining = 0 /\ new[l].status = "REVOKED"
  BY <1>1, <1>2, LotWritten
<1>4. SameLots(new)
  BY <1>1, <1>2, LotsChange
<1> QED
  BY <1>2, <1>3, <1>4 DEF new

LEMMA ExpiredFacts ==
    ASSUME LotsTyped, NEW l \in DOMAIN lots
    PROVE  /\ SameLots(Expired(l))
           /\ \A m \in DOMAIN lots \ {l} : Expired(l)[m] = lots[m]
           /\ Expired(l)[l].remaining = 0 /\ Expired(l)[l].status = "EXPIRED"
<1> DEFINE new == Expired(l)
<1>1. 0 \in Nat /\ "EXPIRED" \in LotStatus /\ lots[l] \in LotRow
  BY LotFacts DEF LotStatus
<1>2. /\ new = [m \in DOMAIN lots |-> new[m]]
      /\ \A m \in DOMAIN lots \ {l} : new[m] = lots[m]
      /\ new[l] = Written(lots[l], 0, "EXPIRED")
  BY <1>1 DEF Expired, Written, LotRow, LotsTyped
<1> HIDE DEF new
<1>3. new[l].remaining = 0 /\ new[l].status = "EXPIRED"
  <2>1. /\ Written(lots[l], 0, "EXPIRED").remaining = 0
        /\ Written(lots[l], 0, "EXPIRED").status = "EXPIRED"
    BY <1>1 DEF Written, LotRow
  <2> QED
    BY <1>2, <2>1
<1>4. SameLots(new)
  BY <1>1, <1>2, LotsChange
<1> QED
  BY <1>2, <1>3, <1>4 DEF new

-----------------------------------------------------------------------------
(* Ledger rows *)

\* A WalletTransaction row with all its columns
IsEntry(e) ==
    e = [type |-> e.type, src |-> e.src, dst |-> e.dst, amount |-> e.amount, net |-> e.net,
         status |-> e.status, key |-> e.key, ref |-> e.ref, taken |-> e.taken,
         earning |-> e.earning]

\* What it was drawn from is among the first n lots.
EntryTyped(e, n) ==
    /\ IsEntry(e)
    /\ e.type \in EntryTypes /\ e.status \in {"COMPLETED", "REVERSED"}
    /\ e.src \in Users \cup {None} /\ e.dst \in Users \cup {None}
    /\ e.amount \in Nat /\ e.net \in Nat /\ e.ref \in Nat
    /\ DOMAIN e.taken \subseteq 1 .. n
    /\ \A l \in DOMAIN e.taken : e.taken[l] \in Nat

RowsTyped(rows, n) ==
    /\ \E S : rows \in Seq(S)
    /\ \A i \in DOMAIN rows : EntryTyped(rows[i], n)

LEMMA EntryColumns ==
    ASSUME NEW type, NEW src, NEW dst, NEW credits, NEW net, NEW key, NEW ref, NEW taken, NEW e,
           e = Entry(type, src, dst, credits, net, key, ref, taken)
    PROVE  /\ IsEntry(e) /\ e.type = type /\ e.src = src /\ e.dst = dst /\ e.amount = credits
           /\ e.net = net /\ e.key = key /\ e.ref = ref /\ e.taken = taken
           /\ e.status = "COMPLETED"
           /\ e.earning = IF type \in SaleTypes THEN "CLEARED" ELSE "NONE"
  BY DEF Entry, IsEntry

LEMMA EntryIsTyped ==
    ASSUME NEW type, type \in EntryTypes, NEW src, src \in Users \cup {None},
           NEW dst, dst \in Users \cup {None}, NEW credits, credits \in Nat, NEW net, net \in Nat,
           NEW key, NEW ref, ref \in Nat, NEW n, n \in Nat,
           NEW taken, DOMAIN taken \subseteq 1 .. n, \A l \in DOMAIN taken : taken[l] \in Nat
    PROVE  EntryTyped(Entry(type, src, dst, credits, net, key, ref, taken), n)
<1> DEFINE e == Entry(type, src, dst, credits, net, key, ref, taken)
<1>1. /\ IsEntry(e) /\ e.type = type /\ e.src = src /\ e.dst = dst /\ e.amount = credits
      /\ e.net = net /\ e.ref = ref /\ e.taken = taken /\ e.status = "COMPLETED"
  BY EntryColumns
<1> HIDE DEF e
<1>2. EntryTyped(e, n)
  BY <1>1 DEF EntryTyped
<1> QED
  BY <1>2 DEF e

\* A new row at the end leaves the ones before it as they are.
LEMMA AppendFacts ==
    ASSUME NEW s, \E S : s \in Seq(S), NEW e
    PROVE  /\ \E S : Append(s, e) \in Seq(S)
           /\ DOMAIN s = 1 .. Len(s) /\ Len(s) \in Nat
           /\ DOMAIN Append(s, e) = 1 .. (Len(s) + 1)
           /\ Append(s, e)[Len(s) + 1] = e
           /\ \A i \in DOMAIN s : Append(s, e)[i] = s[i]
<1>1. PICK S : s \in Seq(S)
  OBVIOUS
<1>2. s \in Seq(S \cup {e}) /\ e \in S \cup {e}
  BY <1>1
<1>3. Append(s, e) \in Seq(S \cup {e})
  BY <1>2
<1> QED BY <1>2, <1>3

LEMMA RowAppended ==
    ASSUME NEW rows, NEW n, n \in Nat, NEW m, m \in Nat, n <= m, RowsTyped(rows, n),
           NEW e, EntryTyped(e, m)
    PROVE  RowsTyped(Append(rows, e), m)
<1> DEFINE new == Append(rows, e)
<1>1. /\ \E S : new \in Seq(S)
      /\ DOMAIN rows = 1 .. Len(rows) /\ Len(rows) \in Nat
      /\ DOMAIN new = 1 .. (Len(rows) + 1)
      /\ new[Len(rows) + 1] = e
      /\ \A i \in DOMAIN rows : new[i] = rows[i]
  BY ZenonT(30), AppendFacts DEF RowsTyped
<1>2. ASSUME NEW i \in DOMAIN rows PROVE EntryTyped(rows[i], m)
  BY DEF RowsTyped, EntryTyped
<1> HIDE DEF new
<1>3. \A i \in DOMAIN new : i \in DOMAIN rows \/ i = Len(rows) + 1
  BY <1>1
<1>4. RowsTyped(new, m)
  BY <1>1, <1>2, <1>3 DEF RowsTyped
<1> QED
  BY <1>4 DEF new

\* Row i is REVERSED; nothing else changes but its earning.
LEMMA ReversedFacts ==
    ASSUME NEW n, RowsTyped(ledger, n), NEW i \in DOMAIN ledger
    PROVE  LET back == Reversed(i)
           IN  /\ RowsTyped(back, n) /\ Len(back) = Len(ledger) /\ DOMAIN back = DOMAIN ledger
               /\ \A j \in DOMAIN ledger \ {i} : back[j] = ledger[j]
               /\ back[i].status = "REVERSED"
               /\ back[i].earning = IF HasSeller(ledger[i]) /\ ledger[i].earning = "CLEARED"
                                    THEN "REVERSED_FRAUD" ELSE ledger[i].earning
               /\ \A j \in DOMAIN ledger :
                     /\ back[j].type = ledger[j].type /\ back[j].src = ledger[j].src
                     /\ back[j].dst = ledger[j].dst /\ back[j].amount = ledger[j].amount
                     /\ back[j].net = ledger[j].net /\ back[j].ref = ledger[j].ref
                     /\ back[j].taken = ledger[j].taken
<1> DEFINE o == ledger[i]
           earning == IF HasSeller(o) /\ o.earning = "CLEARED" THEN "REVERSED_FRAUD" ELSE o.earning
           v == [o EXCEPT !.status = "REVERSED", !.earning = earning]
           back == Reversed(i)
<1>1. EntryTyped(o, n) /\ IsEntry(o)
  BY DEF RowsTyped, EntryTyped
<1>2. back = [ledger EXCEPT ![i] = v]
  BY <1>1 DEF Reversed, IsEntry
<1>3. /\ v.status = "REVERSED" /\ IsEntry(v) /\ v.earning = earning
      /\ v.type = o.type /\ v.src = o.src /\ v.dst = o.dst /\ v.amount = o.amount
      /\ v.net = o.net /\ v.ref = o.ref /\ v.taken = o.taken
  <2> HIDE DEF earning, o
  <2>1. v = [o EXCEPT !.status = "REVERSED", !.earning = earning]
    OBVIOUS
  <2> HIDE DEF v
  <2>2. /\ v.status = "REVERSED" /\ IsEntry(v) /\ v.type = o.type /\ v.ref = o.ref
        /\ v.amount = o.amount
    BY <1>1, <2>1 DEF IsEntry
  <2>3. v.earning = earning /\ v.src = o.src /\ v.dst = o.dst /\ v.net = o.net /\ v.taken = o.taken
    BY <1>1, <2>1 DEF IsEntry
  <2> QED
    BY <2>2, <2>3
<1>4. EntryTyped(v, n)
  <2> HIDE DEF v, o
  <2> QED
    BY <1>1, <1>3 DEF EntryTyped
<1> HIDE DEF v, back
<1>5. DOMAIN back = DOMAIN ledger /\ back[i] = v /\ \A j \in DOMAIN ledger \ {i} : back[j] = ledger[j]
  BY <1>2
<1>6. (\E S : back \in Seq(S)) /\ Len(back) = Len(ledger)
  <2>1. PICK S : ledger \in Seq(S)
    BY DEF RowsTyped
  <2>2. ledger \in Seq(S \cup {v}) /\ v \in S \cup {v} /\ i \in 1 .. Len(ledger)
    BY <2>1
  <2>3. [ledger EXCEPT ![i] = v] \in Seq(S \cup {v}) /\ Len([ledger EXCEPT ![i] = v]) = Len(ledger)
    BY <2>2, ExceptSeq
  <2> QED BY <1>2, <2>3
<1>7. RowsTyped(back, n)
  BY <1>4, <1>5, <1>6 DEF RowsTyped
<1>8. \A j \in DOMAIN ledger :
          /\ back[j].type = ledger[j].type /\ back[j].src = ledger[j].src
          /\ back[j].dst = ledger[j].dst /\ back[j].amount = ledger[j].amount
          /\ back[j].net = ledger[j].net /\ back[j].ref = ledger[j].ref
          /\ back[j].taken = ledger[j].taken
  BY <1>3, <1>5
<1> QED
  BY <1>3, <1>5, <1>6, <1>7, <1>8 DEF back

-----------------------------------------------------------------------------
(* A row is refunded once *)

\* A REFUND row points back at a row before it.
LogInv ==
    /\ \E S : ledger \in Seq(S)
    /\ \A i \in DOMAIN ledger :
          /\ IsEntry(ledger[i])
          /\ ledger[i].status \in {"COMPLETED", "REVERSED"}
          /\ ledger[i].type = "REFUND" => ledger[i].ref \in 1 .. (i - 1)

RefundsOf(i) == {j \in Rows({"REFUND"}) : ledger[j].ref = i}

\* What RefundedOnce says of row i, without counting.
Settled(i) ==
    /\ ledger[i].status # "REVERSED" => RefundsOf(i) = {}
    /\ ledger[i].status = "REVERSED" => \E j : RefundsOf(i) = {j}
    /\ \A j \in RefundsOf(i) : ledger[j].amount = ledger[i].amount

-----------------------------------------------------------------------------
\* Every operation writes its row COMPLETED.
LEMMA EntryFacts ==
    ASSUME NEW type, NEW src, NEW dst, NEW credits, NEW net, NEW key, NEW ref, NEW taken
    PROVE  LET e == Entry(type, src, dst, credits, net, key, ref, taken)
           IN  /\ IsEntry(e) /\ e.type = type /\ e.status = "COMPLETED"
               /\ e.amount = credits /\ e.ref = ref
  BY DEF Entry, IsEntry

\* The two counts RefundedOnce compares.
LEMMA CountFacts ==
    /\ Cardinality({}) = 0
    /\ \A j : Cardinality({j}) = 1
  BY FS_EmptySet, FS_Singleton

\* Settled rows are what RefundedOnce counts.
LEMMA SettledCounts ==
    ASSUME LogInv, \A i \in DOMAIN ledger : Settled(i)
    PROVE  RefundedOnce
<1> SUFFICES ASSUME NEW i \in DOMAIN ledger
             PROVE  /\ Cardinality(RefundsOf(i)) = (IF ledger[i].status = "REVERSED" THEN 1 ELSE 0)
                    /\ \A j \in RefundsOf(i) : ledger[j].amount = ledger[i].amount
  BY DEF RefundedOnce, RefundsOf
<1>1. CASE ledger[i].status = "REVERSED"
  <2>1. PICK j : RefundsOf(i) = {j}
    BY <1>1 DEF Settled
  <2>2. Cardinality(RefundsOf(i)) = 1
    BY <2>1, CountFacts
  <2> QED BY <1>1, <2>2 DEF Settled
<1>2. CASE ledger[i].status # "REVERSED"
  <2>1. Cardinality(RefundsOf(i)) = 0
    BY <1>2, CountFacts DEF Settled
  <2> QED BY <1>2, <2>1 DEF Settled
<1> QED BY <1>1, <1>2

\* The refunds of a row, one by one.
LEMMA RefundsFacts ==
    /\ \A i, j : j \in RefundsOf(i) <=>
          j \in DOMAIN ledger /\ ledger[j].type = "REFUND" /\ ledger[j].ref = i
    /\ \A i, j : j \in RefundsOf(i)' <=>
          j \in DOMAIN ledger' /\ ledger'[j].type = "REFUND" /\ ledger'[j].ref = i
  BY DEF RefundsOf, Rows

\* Row i is as settled as it was when its status, its refunds and the amounts
\* are what they were.
LEMMA StaysSettled ==
    ASSUME NEW i, Settled(i), RefundsOf(i)' = RefundsOf(i),
           ledger'[i].status = ledger[i].status, ledger'[i].amount = ledger[i].amount,
           \A j \in DOMAIN ledger : ledger'[j].amount = ledger[j].amount
    PROVE  Settled(i)'
<1>1. RefundsOf(i) \subseteq DOMAIN ledger
  BY DEF RefundsOf, Rows
<1> QED BY <1>1 DEF Settled

\* A row of another type settles itself and unsettles nothing.
LEMMA OtherRow ==
    ASSUME LogInv, \A i \in DOMAIN ledger : Settled(i),
           NEW e, IsEntry(e), e.type # "REFUND", e.status = "COMPLETED",
           ledger' = Append(ledger, e)
    PROVE  LogInv' /\ \A i \in DOMAIN ledger' : Settled(i)'
<1> DEFINE n == Len(ledger)
<1>1. /\ \E S : ledger' \in Seq(S)
      /\ DOMAIN ledger = 1 .. n /\ n \in Nat /\ DOMAIN ledger' = 1 .. (n + 1)
      /\ ledger'[n + 1] = e /\ \A i \in DOMAIN ledger : ledger'[i] = ledger[i]
  BY ZenonT(30), AppendFacts DEF LogInv
<1>2. LogInv'
  BY <1>1 DEF LogInv
<1>3. ASSUME NEW i \in DOMAIN ledger' PROVE RefundsOf(i)' = RefundsOf(i)
  BY <1>1 DEF RefundsOf, Rows
<1>4. RefundsOf(n + 1) = {}
  BY <1>1 DEF LogInv, RefundsOf, Rows
<1>5. ASSUME NEW i \in DOMAIN ledger' PROVE Settled(i)'
  <2>1. CASE i \in DOMAIN ledger
    BY <1>1, <1>3, <2>1, StaysSettled
  <2>2. CASE i = n + 1
    BY <1>1, <1>3, <1>4, <2>2 DEF Settled
  <2> QED BY <1>1, <2>1, <2>2
<1> QED BY <1>2, <1>5

\* A refund settles the row it is about, which had no refund yet, and its own.
LEMMA RefundRow ==
    ASSUME LogInv, \A i \in DOMAIN ledger : Settled(i), NEW i \in DOMAIN ledger, Refund(i)
    PROVE  LogInv' /\ \A j \in DOMAIN ledger' : Settled(j)'
<1>0. PICK n \in Nat : n = Len(ledger) /\ DOMAIN ledger = 1 .. n
  BY AppendFacts DEF LogInv
<1> DEFINE o == ledger[i]
           e == Entry("REFUND", o.dst, o.src, o.amount, o.net, None, i, NoLots)
           back == Reversed(i)
<1>1. /\ ledger' = Append(back, e) /\ o.status # "REVERSED"
      /\ IsEntry(e) /\ e.type = "REFUND" /\ e.status = "COMPLETED"
      /\ e.amount = o.amount /\ e.ref = i
  BY EntryFacts DEF Refund, Refundable
<1>2. DOMAIN ledger = 1 .. n
  BY <1>0
<1> DEFINE v == back[i]
<1>3. back = [ledger EXCEPT ![i] = v] /\ \E x : v = [o EXCEPT !.status = "REVERSED", !.earning = x]
  BY DEF Reversed
<1>4. /\ v.status = "REVERSED" /\ IsEntry(v)
      /\ v.type = o.type /\ v.ref = o.ref /\ v.amount = o.amount
  <2>1. IsEntry(o)
    BY DEF LogInv
  <2> QED BY <1>3, <2>1 DEF IsEntry
<1> HIDE DEF v, back
<1>5. \E S : back \in Seq(S)
  <2>1. PICK S : ledger \in Seq(S)
    BY DEF LogInv
  <2>2. ledger \in Seq(S \cup {v}) /\ v \in S \cup {v}
    BY <2>1
  <2>3. [ledger EXCEPT ![i] = v] \in Seq(S \cup {v})
    BY <1>0, <2>2, ExceptSeq
  <2> QED BY <1>3, <2>3
<1>6. /\ DOMAIN back = DOMAIN ledger /\ Len(back) = n
      /\ back[i] = v /\ \A j \in DOMAIN ledger : j # i => back[j] = ledger[j]
  <2>1. DOMAIN back = DOMAIN ledger /\ \A j \in DOMAIN ledger : j # i => back[j] = ledger[j]
    BY <1>3
  <2>2. DOMAIN back = 1 .. Len(back) /\ Len(back) \in Nat
    BY <1>5, AppendFacts
  <2> QED BY <1>0, <2>1, <2>2 DEF v
<1>7. /\ \E S : ledger' \in Seq(S)
      /\ DOMAIN ledger' = 1 .. (n + 1) /\ ledger'[n + 1] = e
      /\ \A j \in DOMAIN ledger : ledger'[j] = back[j]
  <2> DEFINE new == Append(back, e)
  <2> HIDE DEF e
  <2>1. /\ \E T : new \in Seq(T)
        /\ DOMAIN new = 1 .. (Len(back) + 1) /\ new[Len(back) + 1] = e
        /\ \A j \in DOMAIN back : new[j] = back[j]
    BY ZenonT(30), <1>5, AppendFacts
  <2>2. ledger' = new
    BY <1>1
  <2> HIDE DEF new
  <2> QED BY <1>6, <2>1, <2>2
<1> HIDE DEF e, o
<1>8. LogInv'
  <2>1. ASSUME NEW j \in DOMAIN ledger'
        PROVE  /\ IsEntry(ledger'[j])
               /\ ledger'[j].status \in {"COMPLETED", "REVERSED"}
               /\ ledger'[j].type = "REFUND" => ledger'[j].ref \in 1 .. (j - 1)
    <3>1. CASE j = n + 1
      BY <1>0, <1>1, <1>7, <3>1
    <3>2. CASE j = i
      BY <1>4, <1>6, <1>7, <3>2 DEF LogInv, o
    <3>3. CASE j \in DOMAIN ledger /\ j # i
      BY <1>6, <1>7, <3>3 DEF LogInv
    <3> QED BY <1>0, <1>7, <3>1, <3>2, <3>3
  <2> QED BY <1>7, <2>1 DEF LogInv, IsEntry
<1>9. \A j \in DOMAIN ledger :
          /\ ledger'[j].type = ledger[j].type
          /\ ledger'[j].ref = ledger[j].ref
          /\ ledger'[j].amount = ledger[j].amount
          /\ j # i => ledger'[j].status = ledger[j].status
  BY <1>4, <1>6, <1>7 DEF o
<1>10. ASSUME NEW j \in DOMAIN ledger, j # i PROVE Settled(j)'
  <2>1. ASSUME NEW k \in RefundsOf(j)' PROVE k \in RefundsOf(j)
    <3>1. k \in DOMAIN ledger' /\ ledger'[k].type = "REFUND" /\ ledger'[k].ref = j
      BY RefundsFacts
    <3>2. k \in DOMAIN ledger
      BY <1>0, <1>1, <1>7, <1>10, <3>1
    <3>3. ledger[k].type = "REFUND" /\ ledger[k].ref = j
      BY <1>9, <3>1, <3>2
    <3> QED BY <3>2, <3>3, RefundsFacts
  <2>2. ASSUME NEW k \in RefundsOf(j) PROVE k \in RefundsOf(j)'
    <3>1. k \in DOMAIN ledger /\ ledger[k].type = "REFUND" /\ ledger[k].ref = j
      BY RefundsFacts
    <3>2. k \in DOMAIN ledger' /\ ledger'[k].type = "REFUND" /\ ledger'[k].ref = j
      BY <1>0, <1>7, <1>9, <3>1
    <3> QED BY <3>2, RefundsFacts
  <2>3. RefundsOf(j)' = RefundsOf(j)
    BY <2>1, <2>2
  <2>4. ledger'[j].status = ledger[j].status /\ ledger'[j].amount = ledger[j].amount
    BY <1>9, <1>10
  <2>6. \A k \in DOMAIN ledger : ledger'[k].amount = ledger[k].amount
    BY <1>9
  <2>5. Settled(j)
    OBVIOUS
  <2> QED BY <2>3, <2>4, <2>5, <2>6, StaysSettled
<1> HIDE DEF back
<1>11. Settled(i)'
  <2>1. RefundsOf(i) = {}
    BY <1>1 DEF Settled, o
  <2>2. \A j : j \in RefundsOf(i)' <=> j = n + 1
    <3>1. n + 1 \in RefundsOf(i)'
      BY <1>0, <1>1, <1>7, RefundsFacts
    <3>2. ASSUME NEW j \in RefundsOf(i)', j # n + 1 PROVE j \in RefundsOf(i)
      <4>1. j \in DOMAIN ledger' /\ ledger'[j].type = "REFUND" /\ ledger'[j].ref = i
        BY RefundsFacts
      <4>2. j \in DOMAIN ledger
        BY <1>0, <1>7, <3>2, <4>1
      <4>3. ledger[j].type = "REFUND" /\ ledger[j].ref = i
        BY <1>9, <4>1, <4>2
      <4> QED BY <4>2, <4>3, RefundsFacts
    <3> QED BY <2>1, <3>1, <3>2
  <2>3. RefundsOf(i)' = {n + 1}
    BY <2>2
  <2>4. ledger'[i].status = "REVERSED" /\ ledger'[n + 1].amount = ledger'[i].amount
    BY <1>0, <1>1, <1>4, <1>6, <1>7 DEF o
  <2> QED BY <2>3, <2>4 DEF Settled
<1>12. Settled(n + 1)'
  <2>1. ASSUME NEW j \in RefundsOf(n + 1)' PROVE FALSE
    <3>1. j \in DOMAIN ledger' /\ ledger'[j].type = "REFUND" /\ ledger'[j].ref = n + 1
      BY RefundsFacts
    <3>2. j \in 1 .. (n + 1) /\ n + 1 \in 1 .. (j - 1)
      BY <1>7, <1>8, <3>1 DEF LogInv
    <3> QED BY <1>0, <3>2
  <2>2. RefundsOf(n + 1)' = {}
    BY <2>1
  <2> QED BY <1>1, <1>7, <2>2 DEF Settled
<1> QED BY <1>2, <1>7, <1>8, <1>10, <1>11, <1>12

-----------------------------------------------------------------------------
Inv == LogInv /\ \A i \in DOMAIN ledger : Settled(i)

\* An empty log.
LEMMA InitInv == Init => Inv
<1> SUFFICES ASSUME Init PROVE Inv
  OBVIOUS
<1>1. ledger = <<>>
  BY DEF Init
<1> QED BY <1>1 DEF Inv, LogInv

\* The sweep writes lots and wallets between its rows.
LEMMA UnchangedInv ==
    ASSUME Inv, UNCHANGED ledger PROVE Inv'
<1>1. LogInv'
  BY DEF Inv, LogInv
<1>2. ASSUME NEW i \in DOMAIN ledger PROVE Settled(i)'
  <2>1. RefundsOf(i)' = RefundsOf(i)
    BY DEF RefundsOf, Rows
  <2> QED BY <2>1, StaysSettled DEF Inv
<1> QED BY <1>1, <1>2 DEF Inv

\* A deposit, a grant, a chargeback or a lot expired.
LEMMA EntryInv ==
    ASSUME Inv, NEW type, type # "REFUND", NEW src, NEW dst, NEW credits, NEW net, NEW key,
           NEW ref, NEW taken,
           ledger' = Append(ledger, Entry(type, src, dst, credits, net, key, ref, taken))
    PROVE  Inv'
  BY EntryFacts, OtherRow DEF Inv

\* A tip, a question, an unlock or an order.
LEMMA SaleInv ==
    ASSUME Inv, NEW type, type # "REFUND", NEW u, NEW c, NEW credits, NEW k,
           Sale(type, u, c, credits, k)
    PROVE  Inv'
  BY EntryInv DEF Sale

\* Whatever happens, refunds stay settled.
LEMMA StepInv == Inv /\ [Next]_vars => Inv'
<1> SUFFICES ASSUME Inv, [Next]_vars PROVE Inv'
  OBVIOUS
<1>1. ASSUME NEW u, NEW d, NEW k, Deposit(u, d, k) PROVE Inv'
  BY <1>1, EntryInv DEF Deposit
<1>2. ASSUME NEW u, NEW g, NEW k, GrantPromotional(u, g, k) \/ GrantBonus(u, g, k) PROVE Inv'
  BY <1>2, EntryInv DEF GrantPromotional, GrantBonus, Grant
<1>3. ASSUME NEW u, NEW c, NEW credits, NEW k,
             LiveTip(u, c, credits, k) \/ PaidQuestion(u, c, credits, k)
      PROVE  Inv'
  BY <1>3, SaleInv DEF LiveTip, PaidQuestion
<1>4. ASSUME NEW u, NEW c, NEW k, PPVPurchase(u, c, k) PROVE Inv'
  BY <1>4, SaleInv DEF PPVPurchase
<1>5. ASSUME NEW u, NEW p, NEW q, NEW k, ProductPurchase(u, p, q, k) PROVE Inv'
  BY <1>5, SaleInv DEF ProductPurchase
<1>6. ASSUME NEW i \in DOMAIN ledger, Refund(i) PROVE Inv'
  BY <1>6, RefundRow DEF Inv
<1>7. ASSUME NEW p, Chargeback(p) PROVE Inv'
  BY <1>7, EntryInv DEF Chargeback
<1>8. ASSUME NEW s, SweepFind(s) \/ SweepLot(s) \/ SweepWallet(s) \/ SweepCrash(s) PROVE Inv'
  BY <1>8, UnchangedInv DEF SweepFind, SweepLot, SweepWallet, SweepCrash
<1>9. ASSUME NEW s, SweepEntry(s) PROVE Inv'
  BY <1>9, EntryInv DEF SweepEntry
<1>10. CASE Tick \/ UNCHANGED vars
  BY <1>10, UnchangedInv DEF Tick, vars
<1> QED BY <1>1, <1>2, <1>3, <1>4, <1>5, <1>6, <1>7, <1>8, <1>9, <1>10 DEF Next

\* A row is REVERSED exactly when one REFUND row points at it, for its full
\* amount: processRefund called again, a chargeback in between, or a refund of
\* a refund never pay for one row twice.
THEOREM RefundsAreOnce == Spec => []RefundedOnce
<1>1. Inv => RefundedOnce
  BY SettledCounts DEF Inv
<1> QED BY InitInv, StepInv, <1>1, PTL DEF Spec

-----------------------------------------------------------------------------
(* Type correctness *)

PaymentRow == [owner : Users, credits : Nat, bonus : Nat,
               status : {"SUCCEEDED", "DISPUTED_CHARGEBACK"}]
SweepRow == [pc : {"idle", "lot", "wallet", "entry"}, todo : SUBSET (Nat \X Nat),
             lot : Nat, credits : Nat]

\* A sweep works on lots that exist.
SweepsTyped ==
    /\ sweeps \in [Sweepers -> SweepRow]
    /\ \A s \in Sweepers :
          /\ sweeps[s].pc \in {"wallet", "entry"} => sweeps[s].lot \in DOMAIN lots
          /\ \A item \in sweeps[s].todo : item[1] \in DOMAIN lots

BooksTyped ==
    /\ wallets \in WalletRows
    /\ LotsTyped
    /\ payments \in Seq(PaymentRow)
    /\ \A l \in DOMAIN lots : lots[l].payment \in 0 .. Len(payments)
    /\ RowsTyped(ledger, Len(lots))
    /\ SweepsTyped

StockTyped ==
    /\ now \in 0 .. MaxTime
    /\ stock = [q \in DOMAIN Products |-> stock[q]]
    /\ \A q \in DOMAIN Products : stock[q] \in 0 .. Products[q].stock

Typed == BooksTyped /\ StockTyped

LEMMA TypedImplied == Typed => TypeOK
<1> SUFFICES ASSUME Typed PROVE TypeOK
  OBVIOUS
<1>1. wallets \in [Users -> [balance : Int, typed : [CreditTypes -> Int],
                             status : {"ACTIVE", "SUSPENDED_CHARGEBACK"},
                             deposited : Int, earned : Int, spent : Int]]
  BY DEF Typed, BooksTyped, WalletRows, WalletRow, WalletStatus
<1>2. ASSUME NEW l \in DOMAIN lots
      PROVE  lots[l] \in [owner : Users, type : CreditTypes, original : Nat, remaining : Nat,
                          expires : Int, payment : 0 .. Len(payments),
                          status : {"ACTIVE", "DEPLETED", "EXPIRED", "REVOKED"}]
  <2>1. lots[l] \in LotRow /\ lots[l].payment \in 0 .. Len(payments)
    BY LotFacts DEF Typed, BooksTyped
  <2> QED
    BY <2>1 DEF LotRow, LotStatus
<1>3. ASSUME NEW i \in DOMAIN ledger
      PROVE  /\ ledger[i].type \in EntryTypes
             /\ {ledger[i].src, ledger[i].dst} \subseteq Users \cup {None}
             /\ ledger[i].amount \in Nat /\ ledger[i].net \in Nat /\ ledger[i].ref \in Nat
             /\ DOMAIN ledger[i].taken \subseteq DOMAIN lots
  BY LotFacts DEF Typed, BooksTyped, RowsTyped, EntryTyped
<1> QED
  BY <1>1, <1>2, <1>3 DEF TypeOK, Typed, StockTyped

\* Rows, lots and sweeps stay typed when lots are only written.
LEMMA SameLotsTyped ==
    ASSUME BooksTyped, SameLots(lots')
    PROVE  /\ LotsTyped' /\ Len(lots') = Len(lots) /\ DOMAIN lots' = DOMAIN lots
           /\ \A l \in DOMAIN lots' : lots'[l].payment \in 0 .. Len(payments)
BY DEF BooksTyped, SameLots, LotsTyped

LEMMA UsersFacts ==
    /\ \A u \in Fans : u \in Users
    /\ \A u \in Creators : u \in Users
    /\ None \notin Users
BY UsersAssumption

LEMMA FeeFacts ==
    ASSUME NEW credits, credits \in Nat
    PROVE  /\ PlatformFee(credits) \in Nat /\ credits - PlatformFee(credits) \in Nat
           /\ credits > 0 => credits - PlatformFee(credits) > 0
BY DEF PlatformFee, RakePercent

\* What a drawdown takes of each type is a number.
LEMMA OfTypeIsInt ==
    ASSUME LotsTyped, NEW taken, DOMAIN taken \subseteq DOMAIN lots,
           \A l \in DOMAIN taken : taken[l] \in Nat
    PROVE  \A t : OfType(taken, t) \in Nat
<1>1. ASSUME NEW t PROVE OfType(taken, t) \in Nat
  <2> DEFINE D == {l \in DOMAIN taken : lots[l].type = t}
  <2>1. D \subseteq DOMAIN lots
    OBVIOUS
  <2>2. IsFiniteSet(D)
    BY <2>1, LotFacts, FS_Subset
  <2>3. \A l \in D : taken[l] \in Nat
    OBVIOUS
  <2>4. Total(taken, D) \in Nat
    BY <2>2, <2>3, TotalIsNat
  <2> QED
    BY <2>4 DEF OfType
<1> QED
  BY <1>1

\* A sale moves the price from the fan's balance, and from its typed balances by
\* what was drawn of each, and the net to the creator's.
LEMMA SaleFacts ==
    ASSUME BooksTyped, NEW type, type \in SaleTypes, NEW fan \in Users, NEW creator \in Users,
           NEW credits, credits \in Nat, NEW k, Sale(type, fan, creator, credits, k)
    PROVE  LET net == credits - PlatformFee(credits)
               taken == Drawdown(fan, credits)
               e == Entry(type, fan, creator, credits, net, k, 0, taken)
           IN  /\ net \in Nat /\ \A t \in CreditTypes : OfType(taken, t) \in Nat
               /\ wallets' \in WalletRows
               /\ \A x \in Users :
                     /\ wallets'[x].balance = wallets[x].balance
                          - (IF x = fan THEN credits ELSE 0) + (IF x = creator THEN net ELSE 0)
                     /\ \A t \in CreditTypes : wallets'[x].typed[t] = wallets[x].typed[t]
                          - (IF x = fan THEN OfType(taken, t) ELSE 0)
               /\ SameLots(lots')
               /\ ledger' = Append(ledger, e) /\ EntryTyped(e, Len(lots))
<1> DEFINE net == credits - PlatformFee(credits)
           taken == Drawdown(fan, credits)
           e == Entry(type, fan, creator, credits, net, k, 0, taken)
           mid == Charged(wallets, fan, credits, taken)
<1>1. net \in Nat
  BY FeeFacts
<1>2. /\ DOMAIN taken \subseteq DOMAIN lots
      /\ \A l \in DOMAIN taken : taken[l] \in Nat /\ taken[l] <= lots[l].remaining
  BY DrawdownFacts DEF BooksTyped
<1> HIDE DEF net, taken
<1>3. \A t \in CreditTypes : OfType(taken, t) \in Nat
  BY <1>2, OfTypeIsInt DEF BooksTyped
<1>4. Moves(wallets, mid, fan, -credits, [t \in CreditTypes |-> -OfType(taken, t)])
  BY <1>3, ChargedFacts DEF BooksTyped
<1>5. wallets' = Paid(mid, creator, net) /\ lots' = DrawnOn(taken) /\ ledger' = Append(ledger, e)
  BY DEF Sale, net, taken
<1> HIDE DEF mid
<1>6. Moves(mid, wallets', creator, net, NoChange)
  <2>1. mid \in WalletRows
    BY <1>4 DEF Moves
  <2>2. net \in Int
    BY <1>1
  <2>3. Moves(mid, Paid(mid, creator, net), creator, net, NoChange)
    BY <2>1, <2>2, PaidFacts
  <2> QED
    BY <1>5, <2>3
<1>7. wallets' \in WalletRows
  BY <1>6 DEF Moves
<1>8. ASSUME NEW x \in Users
      PROVE  /\ wallets'[x].balance = wallets[x].balance
                  - (IF x = fan THEN credits ELSE 0) + (IF x = creator THEN net ELSE 0)
             /\ \A t \in CreditTypes : wallets'[x].typed[t] = wallets[x].typed[t]
                  - (IF x = fan THEN OfType(taken, t) ELSE 0)
  <2>1. /\ wallets[x].balance \in Int /\ \A t \in CreditTypes : wallets[x].typed[t] \in Int
        /\ mid[x].balance \in Int /\ \A t \in CreditTypes : mid[x].typed[t] \in Int
    BY <1>4, ColumnsRead DEF BooksTyped, Moves
  <2>2. /\ mid[x].balance = wallets[x].balance - (IF x = fan THEN credits ELSE 0)
        /\ \A t \in CreditTypes :
              mid[x].typed[t] = wallets[x].typed[t] - (IF x = fan THEN OfType(taken, t) ELSE 0)
    BY <1>3, <1>4, <2>1 DEF Moves
  <2>3. /\ wallets'[x].balance = mid[x].balance + (IF x = creator THEN net ELSE 0)
        /\ \A t \in CreditTypes : wallets'[x].typed[t] = mid[x].typed[t]
    BY <1>1, <1>6, <2>1 DEF Moves, NoChange
  <2> QED
    BY <1>1, <1>3, <2>1, <2>2, <2>3
<1>9. SameLots(lots')
  BY <1>2, <1>5, DrawnOnFacts DEF BooksTyped
<1>10. EntryTyped(e, Len(lots))
  <2>1. type \in EntryTypes /\ 0 \in Nat /\ Len(lots) \in Nat /\ DOMAIN lots = 1 .. Len(lots)
    BY LotFacts DEF EntryTypes, BooksTyped
  <2>2. fan \in Users \cup {None} /\ creator \in Users \cup {None}
    OBVIOUS
  <2> QED
    BY <1>1, <1>2, <2>1, <2>2, EntryIsTyped
<1> QED
  BY <1>1, <1>3, <1>5, <1>7, <1>8, <1>9, <1>10 DEF net, taken

\* Read for every user, so that one update can follow another
Moved(v, w, u, in, change) ==
    /\ w \in WalletRows
    /\ \A x \in Users :
          /\ v[x].balance \in Int /\ w[x].balance \in Int
          /\ w[x].balance = v[x].balance + (IF x = u THEN in ELSE 0)
          /\ \A t \in CreditTypes :
                /\ v[x].typed[t] \in Int /\ w[x].typed[t] \in Int
                /\ w[x].typed[t] = v[x].typed[t] + (IF x = u THEN change[t] ELSE 0)

LEMMA MovesRead ==
    ASSUME NEW v, v \in WalletRows, NEW w, NEW u, u \in Users, NEW in, in \in Int, NEW change,
           \A t \in CreditTypes : change[t] \in Int, Moves(v, w, u, in, change)
    PROVE  Moved(v, w, u, in, change)
<1>1. w \in WalletRows
  BY DEF Moves
<1>2. ASSUME NEW x \in Users
      PROVE  /\ v[x].balance \in Int /\ w[x].balance \in Int
             /\ w[x].balance = v[x].balance + (IF x = u THEN in ELSE 0)
             /\ \A t \in CreditTypes :
                   /\ v[x].typed[t] \in Int /\ w[x].typed[t] \in Int
                   /\ w[x].typed[t] = v[x].typed[t] + (IF x = u THEN change[t] ELSE 0)
  <2>1. /\ v[x].balance \in Int /\ w[x].balance \in Int
        /\ \A t \in CreditTypes : v[x].typed[t] \in Int /\ w[x].typed[t] \in Int
    BY <1>1, ColumnsRead
  <2> QED
    BY <2>1 DEF Moves
<1> QED
  BY <1>1, <1>2 DEF Moved

\* New lots are added at the end.
LEMMA LotsAdded ==
    ASSUME LotsTyped, NEW more, more \in Seq(LotRow), lots' = lots \o more
    PROVE  /\ LotsTyped' /\ Len(lots') = Len(lots) + Len(more) /\ Len(more) \in Nat
           /\ DOMAIN lots \subseteq DOMAIN lots' /\ DOMAIN lots' = 1 .. (Len(lots) + Len(more))
           /\ \A l \in DOMAIN lots : lots'[l] = lots[l]
           /\ \A l \in DOMAIN lots' \ DOMAIN lots :
                 /\ l > Len(lots) /\ l - Len(lots) \in 1 .. Len(more)
                 /\ lots'[l] = more[l - Len(lots)]
<1>1. lots \in Seq(LotRow) /\ DOMAIN lots = 1 .. Len(lots) /\ Len(lots) \in Nat
  BY LotFacts DEF LotsTyped
<1>2. Len(more) \in Nat
  OBVIOUS
<1>3. /\ lots' \in Seq(LotRow) /\ Len(lots') = Len(lots) + Len(more)
      /\ \A l \in 1 .. (Len(lots) + Len(more)) :
            lots'[l] = IF l <= Len(lots) THEN lots[l] ELSE more[l - Len(lots)]
  BY <1>1, ConcatProperties
<1>4. DOMAIN lots' = 1 .. (Len(lots) + Len(more))
  BY <1>3
<1> QED
  BY <1>1, <1>2, <1>3, <1>4 DEF LotsTyped

\* What a deposit adds to the lots and to the log
MintedLots(u, d) ==
    LET main == NewLot(u, "PURCHASED", d[1], Never, Len(payments) + 1)
        extra == NewLot(u, "BONUS", d[2], Never, Len(payments) + 1)
    IN  IF d[2] > 0 THEN <<main, extra>> ELSE <<main>>

MintedRow(u, d, k) ==
    Entry("DEPOSIT", None, u, d[1] + d[2], 0, k, Len(payments) + 1, NoLots)

LEMMA DepositFacts ==
    ASSUME BooksTyped, NEW u, u \in Users, NEW d, d \in Deposits, NEW k, Deposit(u, d, k)
    PROVE  LET more == MintedLots(u, d)
               e == MintedRow(u, d, k)
           IN  /\ d[1] \in Nat /\ d[1] > 0 /\ d[2] \in Nat
               /\ wallets' \in WalletRows
               /\ \A x \in Users :
                     /\ wallets'[x].balance
                          = wallets[x].balance + (IF x = u THEN d[1] + d[2] ELSE 0)
                     /\ \A t \in CreditTypes : wallets'[x].typed[t] = wallets[x].typed[t]
                          + (IF x = u THEN (IF t = "PURCHASED" THEN d[1] ELSE 0)
                                           + (IF t = "BONUS" THEN d[2] ELSE 0)
                                      ELSE 0)
               /\ lots' = lots \o more /\ more \in Seq(LotRow)
               /\ payments' = Append(payments, [owner |-> u, credits |-> d[1], bonus |-> d[2],
                                                status |-> "SUCCEEDED"])
               /\ ledger' = Append(ledger, e) /\ \A n \in Nat : EntryTyped(e, n)
<1> DEFINE p == Len(payments) + 1
           main == NewLot(u, "PURCHASED", d[1], Never, p)
           extra == NewLot(u, "BONUS", d[2], Never, p)
           more == IF d[2] > 0 THEN <<main, extra>> ELSE <<main>>
           e == Entry("DEPOSIT", None, u, d[1] + d[2], 0, k, p, NoLots)
           credits == d[1]
           bonus == d[2]
           one == Granted(wallets, u, "PURCHASED", credits)
           two == Granted(one, u, "BONUS", bonus)
<1>1. credits \in Nat /\ credits > 0 /\ bonus \in Nat /\ p \in Nat
  BY AmountsAssumption DEF BooksTyped
<1>2. /\ wallets' = [two EXCEPT ![u].deposited = @ + credits + bonus]
      /\ lots' = lots \o more
      /\ payments' = Append(payments, [owner |-> u, credits |-> d[1], bonus |-> d[2],
                                       status |-> "SUCCEEDED"])
      /\ ledger' = Append(ledger, e)
  BY DEF Deposit
<1>3. main \in LotRow /\ extra \in LotRow
  <2> HIDE DEF p
  <2>1. ASSUME NEW n, n \in Nat, NEW t, t \in CreditTypes
        PROVE  NewLot(u, t, n, Never, p) \in LotRow
    BY <1>1, <2>1, NeverIsInt DEF NewLot, LotRow, LotStatus
  <2> QED
    BY <1>1, <2>1 DEF CreditTypes
<1> HIDE DEF p, main, extra
<1>4. more \in Seq(LotRow)
  BY <1>3
<1> HIDE DEF credits, bonus
<1>5. /\ wallets \in WalletRows
      /\ "PURCHASED" \in CreditTypes /\ "BONUS" \in CreditTypes
  BY DEF BooksTyped, CreditTypes
<1> DEFINE c1 == [t \in CreditTypes |-> IF t = "PURCHASED" THEN credits ELSE 0]
           c2 == [t \in CreditTypes |-> IF t = "BONUS" THEN bonus ELSE 0]
<1>6. Moves(wallets, one, u, credits, c1)
  BY <1>1, <1>5, GrantedFacts
<1> HIDE DEF one
<1>7. one \in WalletRows
  BY <1>6 DEF Moves
<1>8. Moves(one, two, u, bonus, c2)
  BY <1>1, <1>5, <1>7, GrantedFacts
<1> HIDE DEF two
<1>9. two \in WalletRows
  BY <1>8 DEF Moves
<1>10. Moves(two, wallets', u, 0, NoChange)
  <2> DEFINE n == credits + bonus
  <2>1. n \in Nat
    BY <1>1
  <2>2. \A w \in WalletRows : [w EXCEPT ![u].deposited = @ + credits + bonus]
                                = [w EXCEPT ![u].deposited = @ + n]
    <3>1. ASSUME NEW w \in WalletRows
          PROVE  [w EXCEPT ![u].deposited = @ + credits + bonus]
                    = [w EXCEPT ![u].deposited = @ + n]
      <4>1. w[u].deposited + credits + bonus = w[u].deposited + n
        BY <1>1, ColumnsRead
      <4> QED
        BY <4>1 DEF WalletRows
    <3> QED
      BY <3>1
  <2> HIDE DEF n
  <2>3. Moves(two, [two EXCEPT ![u].deposited = @ + n], u, 0, NoChange)
    BY <1>9, <2>1, DepositedFacts
  <2> QED
    BY <1>2, <1>9, <2>2, <2>3
<1>11. /\ \A t \in CreditTypes : c1[t] \in Int /\ c1[t] = IF t = "PURCHASED" THEN credits ELSE 0
       /\ \A t \in CreditTypes : c2[t] \in Int /\ c2[t] = IF t = "BONUS" THEN bonus ELSE 0
       /\ \A t \in CreditTypes : NoChange[t] \in Int /\ NoChange[t] = 0
       /\ credits \in Int /\ bonus \in Int
  BY <1>1 DEF NoChange
<1> HIDE DEF c1, c2
<1>12. wallets' \in WalletRows
  BY <1>10 DEF Moves
<1>13. ASSUME NEW x \in Users
       PROVE  /\ wallets'[x].balance
                   = wallets[x].balance + (IF x = u THEN credits + bonus ELSE 0)
              /\ \A t \in CreditTypes : wallets'[x].typed[t] = wallets[x].typed[t]
                   + (IF x = u THEN (IF t = "PURCHASED" THEN credits ELSE 0)
                                    + (IF t = "BONUS" THEN bonus ELSE 0)
                               ELSE 0)
  <2>1. Moved(wallets, one, u, credits, c1)
    BY <1>5, <1>6, <1>11, MovesRead
  <2>2. Moved(one, two, u, bonus, c2)
    BY <1>7, <1>8, <1>11, MovesRead
  <2>3. Moved(two, wallets', u, 0, NoChange)
    BY <1>9, <1>10, <1>11, MovesRead
  <2>4. wallets'[x].balance = wallets[x].balance + (IF x = u THEN credits + bonus ELSE 0)
    BY <1>11, <2>1, <2>2, <2>3 DEF Moved
  <2>5. ASSUME NEW t \in CreditTypes
        PROVE  wallets'[x].typed[t] = wallets[x].typed[t]
                 + (IF x = u THEN (IF t = "PURCHASED" THEN credits ELSE 0)
                                  + (IF t = "BONUS" THEN bonus ELSE 0)
                             ELSE 0)
    BY <1>11, <2>1, <2>2, <2>3 DEF Moved
  <2> QED
    BY <2>4, <2>5
<1>14. \A n \in Nat : EntryTyped(e, n)
  <2>1. "DEPOSIT" \in EntryTypes /\ 0 \in Nat /\ credits + bonus \in Nat
    BY <1>1 DEF EntryTypes, MintTypes
  <2>2. DOMAIN NoLots = {}
    BY DEF NoLots
  <2> QED
    BY <1>1, <2>1, <2>2, EntryIsTyped DEF credits, bonus
<1>15. more = MintedLots(u, d) /\ e = MintedRow(u, d, k)
  BY DEF MintedLots, MintedRow, p, main, extra
<1> QED
  BY <1>1, <1>2, <1>4, <1>12, <1>13, <1>14, <1>15 DEF credits, bonus

GrantedLot(u, type, g) ==
    NewLot(u, type, g[1], IF g[2] = Never THEN Never ELSE now + g[2], 0)

LEMMA GrantFacts ==
    ASSUME BooksTyped, now \in Nat, NEW u, u \in Users, NEW type, type \in CreditTypes,
           NEW row, row \in MintTypes, NEW g, g \in Grants, NEW k, Grant(u, type, row, g, k)
    PROVE  LET lot == GrantedLot(u, type, g)
               e == Entry(row, None, u, g[1], 0, k, Len(lots) + 1, NoLots)
           IN  /\ g[1] \in Nat /\ g[1] > 0
               /\ wallets' \in WalletRows
               /\ \A x \in Users :
                     /\ wallets'[x].balance = wallets[x].balance + (IF x = u THEN g[1] ELSE 0)
                     /\ \A t \in CreditTypes : wallets'[x].typed[t] = wallets[x].typed[t]
                          + (IF x = u THEN (IF t = type THEN g[1] ELSE 0) ELSE 0)
               /\ lots' = lots \o <<lot>> /\ lot \in LotRow
               /\ ledger' = Append(ledger, e) /\ \A n \in Nat : EntryTyped(e, n)
<1> DEFINE expires == IF g[2] = Never THEN Never ELSE now + g[2]
           lot == NewLot(u, type, g[1], expires, 0)
           e == Entry(row, None, u, g[1], 0, k, Len(lots) + 1, NoLots)
           credits == g[1]
           change == [t \in CreditTypes |-> IF t = type THEN credits ELSE 0]
<1>1. credits \in Nat /\ credits > 0 /\ expires \in Int
  <2>1. g \in (Nat \ {0}) \X (Nat \cup {Never})
    BY AmountsAssumption
  <2> QED
    BY <2>1, NeverIsInt
<1>2. /\ wallets' = Granted(wallets, u, type, credits)
      /\ lots' = Append(lots, lot)
      /\ ledger' = Append(ledger, e)
  BY DEF Grant
<1> HIDE DEF expires
<1>3. lot \in LotRow
  BY <1>1 DEF NewLot, LotRow, LotStatus
<1> HIDE DEF lot, credits
<1>4. lots' = lots \o <<lot>>
  BY <1>2, <1>3, AppendIsConcat DEF BooksTyped, LotsTyped
<1>5. Moves(wallets, wallets', u, credits, change)
  BY <1>1, <1>2, GrantedFacts DEF BooksTyped
<1>6. \A t \in CreditTypes : change[t] \in Int /\ change[t] = IF t = type THEN credits ELSE 0
  BY <1>1
<1> HIDE DEF change
<1>7. Moved(wallets, wallets', u, credits, change)
  BY <1>1, <1>5, <1>6, MovesRead DEF BooksTyped
<1>8. \A n \in Nat : EntryTyped(e, n)
  <2>1. row \in EntryTypes /\ 0 \in Nat /\ Len(lots) + 1 \in Nat /\ DOMAIN NoLots = {}
    BY LotFacts DEF EntryTypes, NoLots, BooksTyped
  <2> QED
    BY <1>1, <2>1, EntryIsTyped DEF credits
<1>9. ASSUME NEW x \in Users
      PROVE  /\ wallets'[x].balance = wallets[x].balance + (IF x = u THEN credits ELSE 0)
             /\ \A t \in CreditTypes : wallets'[x].typed[t] = wallets[x].typed[t]
                  + (IF x = u THEN (IF t = type THEN credits ELSE 0) ELSE 0)
  BY <1>6, <1>7 DEF Moved
<1>10. lot = GrantedLot(u, type, g)
  BY DEF GrantedLot, lot, expires
<1> QED
  BY <1>1, <1>2, <1>3, <1>4, <1>7, <1>8, <1>9, <1>10 DEF Moved, credits

\* A refund moves the gross back to the source and the net off the seller.
LEMMA RefundFacts ==
    ASSUME BooksTyped, NEW i, i \in DOMAIN ledger, Refund(i)
    PROVE  LET o == ledger[i]
               e == Entry("REFUND", o.dst, o.src, o.amount, o.net, None, i, NoLots)
           IN  /\ EntryTyped(o, Len(lots)) /\ o.src \in Users /\ o.status = "COMPLETED"
               /\ o.type \in RefundTypes
               /\ \A t \in CreditTypes : OfType(o.taken, t) \in Nat
               /\ wallets' \in WalletRows
               /\ \A x \in Users :
                     /\ wallets'[x].balance = wallets[x].balance
                          + (IF x = o.src THEN o.amount ELSE 0)
                          - (IF x = o.dst THEN o.net ELSE 0)
                     /\ \A t \in CreditTypes : wallets'[x].typed[t] = wallets[x].typed[t]
                          + (IF x = o.src THEN OfType(o.taken, t) ELSE 0)
               /\ lots' = Restored(o.taken) /\ SameLots(lots')
               /\ ledger' = Append(Reversed(i), e) /\ EntryTyped(e, Len(lots))
<1> DEFINE o == ledger[i]
           e == Entry("REFUND", o.dst, o.src, o.amount, o.net, None, i, NoLots)
<1>1. EntryTyped(o, Len(lots)) /\ wallets \in WalletRows /\ LotsTyped
  BY DEF BooksTyped, RowsTyped
<1>2. /\ lots' = Restored(o.taken)
      /\ wallets' = IF HasSeller(o) THEN ClawedBack(o) ELSE Repaid(o)
      /\ ledger' = Append(Reversed(i), e)
      /\ o.type \in RefundTypes /\ o.status # "REVERSED" /\ o.src # None
  BY DEF Refund, Refundable
<1>3. i \in Nat
  <2>1. PICK S : ledger \in Seq(S)
    BY DEF BooksTyped, RowsTyped
  <2> QED
    BY <2>1
<1> HIDE DEF o
<1>4. /\ o.src \in Users /\ o.dst \in Users \cup {None} /\ o.status = "COMPLETED"
      /\ o.amount \in Nat /\ o.net \in Nat
      /\ DOMAIN o.taken \subseteq DOMAIN lots
      /\ \A l \in DOMAIN o.taken : o.taken[l] \in Nat
  BY <1>1, <1>2, LotFacts DEF EntryTyped
<1>5. \A t \in CreditTypes : OfType(o.taken, t) \in Nat
  BY <1>1, <1>4, OfTypeIsInt
<1> DEFINE mid == Repaid(o)
           change == [t \in CreditTypes |-> OfType(o.taken, t)]
<1>6. Moves(wallets, mid, o.src, o.amount, change)
  BY <1>1, <1>4, <1>5, RepaidFacts
<1>7. /\ \A t \in CreditTypes : change[t] \in Int /\ change[t] = OfType(o.taken, t)
      /\ \A t \in CreditTypes : NoChange[t] \in Int /\ NoChange[t] = 0
      /\ o.amount \in Int /\ -o.net \in Int
  BY <1>4, <1>5 DEF NoChange
<1>8. ClawedBack(o) = [mid EXCEPT ![o.dst].balance = @ - o.net, ![o.dst].earned = @ - o.net]
  BY DEF ClawedBack
<1> HIDE DEF mid, change
<1>9. Moved(wallets, mid, o.src, o.amount, change)
  BY <1>1, <1>4, <1>6, <1>7, MovesRead
<1>10. mid \in WalletRows
  BY <1>9 DEF Moved
<1>11. ASSUME o.dst \in Users PROVE Moved(mid, ClawedBack(o), o.dst, -o.net, NoChange)
  <2> DEFINE new == ClawedBack(o)
             u == o.dst
  <2>1. /\ mid[u].balance - o.net \in Int /\ mid[u].earned - o.net \in Int
        /\ mid[u].balance + (-o.net) = mid[u].balance - o.net
    BY <1>4, <1>10, <1>11, ColumnsRead
  <2>2. new = [mid EXCEPT ![u].balance = mid[u].balance - o.net,
                          ![u].earned = mid[u].earned - o.net]
    BY <1>8, <1>10, <1>11 DEF WalletRows, WalletRow
  <2> HIDE DEF new
  <2>3. new \in WalletRows
    BY <1>10, <1>11, <2>1, <2>2 DEF WalletRows, WalletRow
  <2>4. /\ new[u].balance = mid[u].balance - o.net /\ new[u].typed = mid[u].typed
        /\ \A x \in Users : x # u => new[x] = mid[x]
    BY <1>10, <1>11, <2>1, <2>2 DEF WalletRows, WalletRow
  <2>5. Moves(mid, new, u, -o.net, NoChange)
    BY <1>10, <1>11, <2>1, <2>3, <2>4, ColumnsRead DEF Moves, NoChange
  <2>6. Moved(mid, new, u, -o.net, NoChange)
    BY <1>7, <1>10, <1>11, <2>5, MovesRead
  <2> QED
    BY <2>6 DEF new
<1>12. /\ wallets' \in WalletRows
       /\ \A x \in Users :
             /\ wallets'[x].balance = wallets[x].balance
                  + (IF x = o.src THEN o.amount ELSE 0) - (IF x = o.dst THEN o.net ELSE 0)
             /\ \A t \in CreditTypes : wallets'[x].typed[t] = wallets[x].typed[t]
                  + (IF x = o.src THEN OfType(o.taken, t) ELSE 0)
  <2>1. CASE HasSeller(o)
    <3>1. o.dst \in Users
      BY <1>4, <2>1 DEF HasSeller
    <3>2. Moved(mid, wallets', o.dst, -o.net, NoChange)
      BY <1>2, <1>11, <2>1, <3>1
    <3> QED
      BY <1>4, <1>5, <1>7, <1>9, <3>2 DEF Moved
  <2>2. CASE ~HasSeller(o)
    <3>1. wallets' = mid
      BY <1>2, <2>2 DEF mid
    <3>2. \A x \in Users : (IF x = o.dst THEN o.net ELSE 0) = 0
      BY <1>4, <2>2, UsersFacts DEF HasSeller
    <3>3. ASSUME NEW x \in Users
          PROVE  wallets'[x].balance = wallets[x].balance
                  + (IF x = o.src THEN o.amount ELSE 0) - (IF x = o.dst THEN o.net ELSE 0)
      BY <1>4, <1>9, <3>1, <3>2 DEF Moved
    <3> QED
      BY <1>7, <1>9, <3>1, <3>3 DEF Moved
  <2> QED
    BY <2>1, <2>2
<1>13. SameLots(lots')
  BY <1>1, <1>2, <1>4, RestoredFacts
<1>14. EntryTyped(e, Len(lots))
  <2>1. "REFUND" \in EntryTypes /\ Len(lots) \in Nat /\ DOMAIN NoLots = {}
    BY <1>1, LotFacts DEF EntryTypes, NoLots
  <2> QED
    BY <1>3, <1>4, <2>1, EntryIsTyped
<1> QED
  BY <1>1, <1>2, <1>4, <1>5, <1>12, <1>13, <1>14 DEF o

\* A chargeback takes the package off the balance.
LEMMA ChargebackFacts ==
    ASSUME BooksTyped, NEW p, p \in DOMAIN payments, Chargeback(p)
    PROVE  LET u == payments[p].owner
               n == payments[p].credits + payments[p].bonus
               e == Entry("CHARGEBACK_REVERSAL", u, None, n, 0, None, p, NoLots)
           IN  /\ u \in Users /\ n \in Nat
               /\ wallets' \in WalletRows
               /\ \A x \in Users :
                     /\ wallets'[x].balance = wallets[x].balance - (IF x = u THEN n ELSE 0)
                     /\ x # u => wallets'[x].typed = wallets[x].typed
               /\ lots' = Revoked(p) /\ SameLots(lots')
               /\ payments' \in Seq(PaymentRow) /\ Len(payments') = Len(payments)
               /\ DOMAIN payments' = DOMAIN payments
               /\ \A q \in DOMAIN payments :
                     /\ payments'[q].owner = payments[q].owner
                     /\ q # p => payments'[q] = payments[q]
               /\ payments'[p].status = "DISPUTED_CHARGEBACK"
               /\ ledger' = Append(ledger, e) /\ EntryTyped(e, Len(lots))
<1> DEFINE pay == payments[p]
           u == pay.owner
           n == pay.credits + pay.bonus
           e == Entry("CHARGEBACK_REVERSAL", u, None, n, 0, None, p, NoLots)
<1>1. /\ payments \in Seq(PaymentRow) /\ wallets \in WalletRows /\ LotsTyped
      /\ p \in 1 .. Len(payments) /\ Len(payments) \in Nat /\ pay \in PaymentRow
  BY DEF BooksTyped
<1>2. /\ lots' = Revoked(p)
      /\ payments' = [payments EXCEPT ![p].status = "DISPUTED_CHARGEBACK"]
      /\ wallets' = Disowned(u, pay.credits, pay.bonus)
      /\ ledger' = Append(ledger, e)
  BY DEF Chargeback, Revoked, Disowned
<1>3. DOMAIN payments = 1 .. Len(payments)
  BY <1>1
<1>4. /\ payments' \in Seq(PaymentRow) /\ Len(payments') = Len(payments)
      /\ DOMAIN payments' = DOMAIN payments
      /\ \A q \in DOMAIN payments :
            /\ payments'[q].owner = payments[q].owner
            /\ q # p => payments'[q] = payments[q]
      /\ payments'[p].status = "DISPUTED_CHARGEBACK"
  <2> DEFINE v == [pay EXCEPT !.status = "DISPUTED_CHARGEBACK"]
  <2>1. v \in PaymentRow /\ v.owner = pay.owner /\ v.status = "DISPUTED_CHARGEBACK"
    BY <1>1 DEF PaymentRow
  <2>2. payments' = [payments EXCEPT ![p] = v]
    BY <1>2
  <2> HIDE DEF v
  <2>3. payments' \in Seq(PaymentRow) /\ Len(payments') = Len(payments)
    BY <1>1, <2>1, <2>2, ExceptSeq
  <2>4. /\ DOMAIN payments' = DOMAIN payments /\ payments'[p] = v
        /\ \A q \in DOMAIN payments : q # p => payments'[q] = payments[q]
    BY <2>2
  <2> QED
    BY <2>1, <2>3, <2>4
<1> HIDE DEF pay
<1>5. u \in Users /\ pay.credits \in Nat /\ pay.bonus \in Nat /\ n \in Nat
  BY <1>1 DEF PaymentRow
<1>6. PICK change : Moves(wallets, wallets', u, -n, change)
  BY <1>1, <1>2, <1>5, DisownedFacts
<1>7. \A x \in Users : /\ wallets'[x].balance = wallets[x].balance - (IF x = u THEN n ELSE 0)
                       /\ x # u => wallets'[x].typed = wallets[x].typed
  <2> HIDE DEF n, u
  <2>1. \A x \in Users : wallets[x].balance \in Int
    BY <1>1, ColumnsRead
  <2> QED
    BY <1>5, <1>6, <2>1 DEF Moves
<1>8. SameLots(lots')
  BY <1>1, <1>2, RevokedFacts
<1>9. EntryTyped(e, Len(lots))
  <2>1. "CHARGEBACK_REVERSAL" \in EntryTypes /\ 0 \in Nat /\ Len(lots) \in Nat /\ DOMAIN NoLots = {}
    BY <1>1, LotFacts DEF EntryTypes, BurnTypes, NoLots
  <2>2. p \in Nat
    BY <1>1
  <2> HIDE DEF n, u
  <2> QED
    BY <1>5, <2>1, <2>2, EntryIsTyped
<1>10. wallets' \in WalletRows
  BY <1>6 DEF Moves
<1> QED
  BY <1>2, <1>4, <1>5, <1>7, <1>8, <1>9, <1>10 DEF pay

\* Sweeps go on over lots that are only added.
LEMMA SweepsStay ==
    ASSUME SweepsTyped, sweeps' = sweeps, DOMAIN lots \subseteq DOMAIN lots'
    PROVE  SweepsTyped'
BY DEF SweepsTyped

LEMMA SaleTyped ==
    ASSUME BooksTyped, NEW type, type \in SaleTypes, NEW fan \in Users, NEW creator \in Users,
           NEW credits, credits \in Nat, NEW k, Sale(type, fan, creator, credits, k)
    PROVE  BooksTyped'
<1>1. /\ wallets' \in WalletRows /\ SameLots(lots')
      /\ \E e : ledger' = Append(ledger, e) /\ EntryTyped(e, Len(lots))
  BY SaleFacts
<1>2. payments' = payments /\ sweeps' = sweeps
  BY DEF Sale
<1>3. /\ LotsTyped' /\ Len(lots') = Len(lots) /\ DOMAIN lots' = DOMAIN lots /\ Len(lots) \in Nat
      /\ \A l \in DOMAIN lots' : lots'[l].payment \in 0 .. Len(payments)
  BY <1>1, SameLotsTyped, LotFacts DEF BooksTyped
<1>4. RowsTyped(ledger', Len(lots'))
  <2>1. PICK e : ledger' = Append(ledger, e) /\ EntryTyped(e, Len(lots))
    BY <1>1
  <2>2. RowsTyped(ledger, Len(lots))
    BY DEF BooksTyped
  <2>3. RowsTyped(Append(ledger, e), Len(lots))
    BY <1>3, <2>1, <2>2, RowAppended
  <2> QED
    BY <1>3, <2>1, <2>3
<1>5. SweepsTyped'
  BY <1>2, <1>3, SweepsStay DEF BooksTyped
<1> QED
  BY <1>1, <1>2, <1>3, <1>4, <1>5 DEF BooksTyped

LEMMA RefundTyped ==
    ASSUME BooksTyped, NEW i, i \in DOMAIN ledger, Refund(i)
    PROVE  BooksTyped'
<1>1. /\ wallets' \in WalletRows /\ SameLots(lots')
      /\ \E e : ledger' = Append(Reversed(i), e) /\ EntryTyped(e, Len(lots))
  BY RefundFacts
<1>2. payments' = payments /\ sweeps' = sweeps
  BY DEF Refund
<1>3. /\ LotsTyped' /\ Len(lots') = Len(lots) /\ DOMAIN lots' = DOMAIN lots /\ Len(lots) \in Nat
      /\ \A l \in DOMAIN lots' : lots'[l].payment \in 0 .. Len(payments)
  BY <1>1, SameLotsTyped, LotFacts DEF BooksTyped
<1>4. RowsTyped(Reversed(i), Len(lots))
  BY ReversedFacts DEF BooksTyped
<1>5. RowsTyped(ledger', Len(lots'))
  BY <1>1, <1>3, <1>4, RowAppended
<1>6. SweepsTyped'
  BY <1>2, <1>3, SweepsStay DEF BooksTyped
<1> QED
  BY <1>1, <1>2, <1>3, <1>5, <1>6 DEF BooksTyped

LEMMA ChargebackTyped ==
    ASSUME BooksTyped, NEW p, p \in DOMAIN payments, Chargeback(p)
    PROVE  BooksTyped'
<1>1. /\ wallets' \in WalletRows /\ SameLots(lots')
      /\ payments' \in Seq(PaymentRow) /\ Len(payments') = Len(payments)
      /\ \E e : ledger' = Append(ledger, e) /\ EntryTyped(e, Len(lots))
  BY ChargebackFacts
<1>2. sweeps' = sweeps
  BY DEF Chargeback
<1>3. /\ LotsTyped' /\ Len(lots') = Len(lots) /\ DOMAIN lots' = DOMAIN lots /\ Len(lots) \in Nat
      /\ \A l \in DOMAIN lots' : lots'[l].payment \in 0 .. Len(payments)
  BY <1>1, SameLotsTyped, LotFacts DEF BooksTyped
<1>4. RowsTyped(ledger', Len(lots'))
  <2>1. PICK e : ledger' = Append(ledger, e) /\ EntryTyped(e, Len(lots))
    BY <1>1
  <2>2. RowsTyped(ledger, Len(lots))
    BY DEF BooksTyped
  <2>3. RowsTyped(Append(ledger, e), Len(lots))
    BY <1>3, <2>1, <2>2, RowAppended
  <2> QED
    BY <1>3, <2>1, <2>3
<1>5. SweepsTyped'
  BY <1>2, <1>3, SweepsStay DEF BooksTyped
<1> QED
  BY <1>1, <1>3, <1>4, <1>5 DEF BooksTyped

\* Lots that are added come from a payment there is.
LEMMA AddedTyped ==
    ASSUME BooksTyped, wallets' \in WalletRows,
           NEW more, more \in Seq(LotRow), lots' = lots \o more,
           \A i \in 1 .. Len(more) : more[i].payment \in 0 .. Len(payments'),
           payments' \in Seq(PaymentRow), Len(payments') >= Len(payments),
           NEW e, ledger' = Append(ledger, e), \A n \in Nat : EntryTyped(e, n),
           sweeps' = sweeps
    PROVE  BooksTyped'
<1>1. /\ LotsTyped' /\ Len(lots') = Len(lots) + Len(more)
      /\ Len(more) \in Nat /\ Len(lots) \in Nat
      /\ DOMAIN lots \subseteq DOMAIN lots'
      /\ \A l \in DOMAIN lots : lots'[l] = lots[l]
      /\ \A l \in DOMAIN lots' \ DOMAIN lots :
            l - Len(lots) \in 1 .. Len(more) /\ lots'[l] = more[l - Len(lots)]
  BY LotsAdded, LotFacts DEF BooksTyped
<1>2. Len(payments) \in Nat /\ Len(payments') \in Nat
  BY DEF BooksTyped
<1>3. ASSUME NEW l \in DOMAIN lots' PROVE lots'[l].payment \in 0 .. Len(payments')
  <2>1. CASE l \in DOMAIN lots
    BY <1>1, <1>2, <2>1 DEF BooksTyped
  <2>2. CASE l \notin DOMAIN lots
    <3>1. l - Len(lots) \in 1 .. Len(more) /\ lots'[l] = more[l - Len(lots)]
      BY <1>1, <2>2
    <3> DEFINE i == l - Len(lots)
    <3>2. i \in 1 .. Len(more) /\ lots'[l] = more[i]
      BY <3>1
    <3> HIDE DEF i
    <3> QED
      BY <3>2
  <2> QED
    BY <2>1, <2>2
<1>4. RowsTyped(ledger', Len(lots'))
  <2>1. Len(lots') \in Nat /\ Len(lots) <= Len(lots') /\ EntryTyped(e, Len(lots'))
    BY <1>1
  <2>2. RowsTyped(ledger, Len(lots)) /\ Len(lots) \in Nat
    BY <1>1 DEF BooksTyped
  <2>3. RowsTyped(Append(ledger, e), Len(lots'))
    BY <2>1, <2>2, RowAppended
  <2> QED
    BY <2>3
<1>5. SweepsTyped'
  BY <1>1, SweepsStay DEF BooksTyped
<1> QED
  BY <1>1, <1>3, <1>4, <1>5 DEF BooksTyped

LEMMA DepositTyped ==
    ASSUME BooksTyped, NEW u, u \in Users, NEW d, d \in Deposits, NEW k, Deposit(u, d, k)
    PROVE  BooksTyped'
<1> DEFINE more == MintedLots(u, d)
           p == Len(payments) + 1
           pay == [owner |-> u, credits |-> d[1], bonus |-> d[2], status |-> "SUCCEEDED"]
<1>1. /\ d[1] \in Nat /\ d[2] \in Nat
      /\ wallets' \in WalletRows
      /\ lots' = lots \o more /\ more \in Seq(LotRow)
      /\ payments' = Append(payments, pay)
  BY DepositFacts
<1>2. PICK e : ledger' = Append(ledger, e) /\ \A n \in Nat : EntryTyped(e, n)
  BY DepositFacts
<1>3. pay \in PaymentRow /\ payments \in Seq(PaymentRow) /\ Len(payments) \in Nat /\ p \in Nat
  BY <1>1 DEF PaymentRow, BooksTyped
<1> HIDE DEF pay
<1>4. payments' \in Seq(PaymentRow) /\ Len(payments') = p /\ p >= Len(payments)
  BY <1>1, <1>3, AppendProperties
<1>5. \A i \in 1 .. Len(more) : more[i].payment = p
  <2> DEFINE main == NewLot(u, "PURCHASED", d[1], Never, p)
             extra == NewLot(u, "BONUS", d[2], Never, p)
  <2>1. main.payment = p /\ extra.payment = p
    BY DEF NewLot
  <2>2. more = IF d[2] > 0 THEN <<main, extra>> ELSE <<main>>
    BY DEF MintedLots
  <2> HIDE DEF main, extra, p, more
  <2> QED
    BY <2>1, <2>2
<1>6. sweeps' = sweeps
  BY DEF Deposit
<1> HIDE DEF more, p
<1>7. \A i \in 1 .. Len(more) : more[i].payment \in 0 .. Len(payments')
  BY <1>3, <1>4, <1>5
<1> QED
  BY <1>1, <1>2, <1>4, <1>6, <1>7, AddedTyped

LEMMA GrantTyped ==
    ASSUME BooksTyped, now \in Nat, NEW u, u \in Users, NEW type, type \in CreditTypes,
           NEW row, row \in MintTypes, NEW g, g \in Grants, NEW k, Grant(u, type, row, g, k)
    PROVE  BooksTyped'
<1> DEFINE lot == GrantedLot(u, type, g)
           more == <<lot>>
<1>1. /\ wallets' \in WalletRows
      /\ lots' = lots \o more /\ lot \in LotRow
  BY GrantFacts
<1>2. PICK e : ledger' = Append(ledger, e) /\ \A n \in Nat : EntryTyped(e, n)
  BY GrantFacts
<1>3. /\ payments' = payments /\ sweeps' = sweeps /\ Len(payments) \in Nat
      /\ payments \in Seq(PaymentRow)
  BY DEF Grant, BooksTyped
<1>4. lot.payment = 0
  BY DEF NewLot, GrantedLot
<1> HIDE DEF lot
<1>5. /\ more \in Seq(LotRow) /\ \A i \in 1 .. Len(more) : more[i].payment \in 0 .. Len(payments')
      /\ payments' \in Seq(PaymentRow) /\ Len(payments') >= Len(payments)
  BY <1>1, <1>3, <1>4
<1> HIDE DEF more
<1> QED
  BY <1>1, <1>2, <1>3, <1>5, AddedTyped

LEMMA SweepRead ==
    ASSUME BooksTyped, NEW s \in Sweepers
    PROVE  /\ sweeps[s] \in SweepRow
           /\ sweeps[s].pc \in {"idle", "lot", "wallet", "entry"}
           /\ sweeps[s].lot \in Nat /\ sweeps[s].credits \in Nat
           /\ sweeps[s].pc \in {"wallet", "entry"} => sweeps[s].lot \in DOMAIN lots
           /\ \A item \in sweeps[s].todo :
                 /\ item \in Nat \X Nat /\ item[1] \in DOMAIN lots
                 /\ item[1] \in Nat /\ item[2] \in Nat
BY DEF BooksTyped, SweepsTyped, SweepRow

LEMMA SweepMoves ==
    ASSUME SweepsTyped, DOMAIN lots' = DOMAIN lots, NEW s \in Sweepers, NEW row, row \in SweepRow,
           row.pc \in {"wallet", "entry"} => row.lot \in DOMAIN lots,
           \A item \in row.todo : item[1] \in DOMAIN lots,
           sweeps' = [sweeps EXCEPT ![s] = row]
    PROVE  SweepsTyped'
<1>1. /\ sweeps' \in [Sweepers -> SweepRow] /\ sweeps'[s] = row
      /\ \A r \in Sweepers : r # s => sweeps'[r] = sweeps[r]
  BY DEF SweepsTyped
<1>2. ASSUME NEW r \in Sweepers
      PROVE  /\ sweeps'[r].pc \in {"wallet", "entry"} => sweeps'[r].lot \in DOMAIN lots'
             /\ \A item \in sweeps'[r].todo : item[1] \in DOMAIN lots'
  <2>1. CASE r = s
    BY <1>1, <2>1
  <2>2. CASE r # s
    BY <1>1, <2>2 DEF SweepsTyped
  <2> QED
    BY <2>1, <2>2
<1> QED
  BY <1>1, <1>2 DEF SweepsTyped

\* What each step of a sweep makes of its row
FoundRow == [pc |-> "lot", todo |-> {<<l, lots[l].remaining>> : l \in Stale}, lot |-> 0, credits |-> 0]
LotRowOf(s, item) ==
    [pc |-> "wallet", todo |-> sweeps[s].todo \ {item}, lot |-> item[1], credits |-> item[2]]
WalletRowOf(s) ==
    [pc |-> "entry", todo |-> sweeps[s].todo, lot |-> sweeps[s].lot, credits |-> sweeps[s].credits]
EntryRowOf(s) ==
    [pc |-> IF sweeps[s].todo = {} THEN "idle" ELSE "lot", todo |-> sweeps[s].todo,
     lot |-> 0, credits |-> 0]

LEMMA SweepSteps ==
    ASSUME BooksTyped, NEW s \in Sweepers
    PROVE  /\ SweepFind(s) => sweeps' = [sweeps EXCEPT ![s] = FoundRow] /\ lots' = lots
           /\ SweepLot(s) => \E item \in sweeps[s].todo :
                 lots' = Expired(item[1]) /\ sweeps' = [sweeps EXCEPT ![s] = LotRowOf(s, item)]
           /\ SweepWallet(s) => sweeps' = [sweeps EXCEPT ![s] = WalletRowOf(s)] /\ lots' = lots
           /\ SweepEntry(s) => sweeps' = [sweeps EXCEPT ![s] = EntryRowOf(s)] /\ lots' = lots
           /\ SweepCrash(s) => sweeps' = [sweeps EXCEPT ![s] = Idle] /\ lots' = lots
<1>1. sweeps[s] \in SweepRow /\ sweeps \in [Sweepers -> SweepRow]
  BY SweepRead DEF BooksTyped, SweepsTyped
<1>2. SweepFind(s) => sweeps' = [sweeps EXCEPT ![s] = FoundRow] /\ lots' = lots
  BY DEF SweepFind, FoundRow, Idle
<1>3. SweepLot(s) => \E item \in sweeps[s].todo :
          lots' = Expired(item[1]) /\ sweeps' = [sweeps EXCEPT ![s] = LotRowOf(s, item)]
  BY <1>1 DEF SweepLot, LotRowOf
<1>4. SweepWallet(s) => sweeps' = [sweeps EXCEPT ![s] = WalletRowOf(s)] /\ lots' = lots
  <2>1. [sweeps EXCEPT ![s].pc = "entry"] = [sweeps EXCEPT ![s] = WalletRowOf(s)]
    <3>1. [sweeps[s] EXCEPT !.pc = "entry"] = WalletRowOf(s)
      BY <1>1 DEF SweepRow, WalletRowOf
    <3> QED
      BY <1>1, <3>1
  <2> QED
    BY <2>1 DEF SweepWallet
<1>5. SweepEntry(s) => sweeps' = [sweeps EXCEPT ![s] = EntryRowOf(s)] /\ lots' = lots
  BY DEF SweepEntry, EntryRowOf, Idle
<1>6. SweepCrash(s) => sweeps' = [sweeps EXCEPT ![s] = Idle] /\ lots' = lots
  BY DEF SweepCrash
<1> QED
  BY <1>2, <1>3, <1>4, <1>5, <1>6

\* The rows of the log, the lots and the wallets a step of a sweep leaves
LEMMA SweepTyped ==
    ASSUME BooksTyped, NEW s \in Sweepers,
           SweepFind(s) \/ SweepLot(s) \/ SweepWallet(s) \/ SweepEntry(s) \/ SweepCrash(s)
    PROVE  BooksTyped'
<1>0. /\ SweepsTyped /\ LotsTyped /\ sweeps \in [Sweepers -> SweepRow]
      /\ DOMAIN lots = 1 .. Len(lots) /\ Len(lots) \in Nat
  BY LotFacts DEF BooksTyped, SweepsTyped
<1>1. CASE SweepFind(s)
  <2>1. FoundRow \in SweepRow /\ FoundRow.pc = "lot" /\ \A item \in FoundRow.todo : item[1] \in DOMAIN lots
    <3>1. Stale \subseteq DOMAIN lots
      BY DEF Stale
    <3>2. \A l \in Stale : l \in Nat /\ lots[l].remaining \in Nat
      BY <1>0, <3>1, LotFacts
    <3> QED
      BY <3>1, <3>2 DEF FoundRow, SweepRow
  <2>2. SweepsTyped'
    BY <1>0, <1>1, <2>1, SweepSteps, SweepMoves
  <2> QED
    BY <1>1, <2>2 DEF SweepFind, BooksTyped, LotsTyped
<1>2. CASE SweepLot(s)
  <2>1. PICK item \in sweeps[s].todo :
          lots' = Expired(item[1]) /\ sweeps' = [sweeps EXCEPT ![s] = LotRowOf(s, item)]
    BY <1>2, SweepSteps
  <2>2. item[1] \in DOMAIN lots /\ item[1] \in Nat /\ item[2] \in Nat
    BY SweepRead
  <2>3. SameLots(lots')
    BY <1>0, <2>1, <2>2, ExpiredFacts
  <2>4. /\ LotsTyped' /\ Len(lots') = Len(lots) /\ DOMAIN lots' = DOMAIN lots
        /\ \A l \in DOMAIN lots' : lots'[l].payment \in 0 .. Len(payments)
    BY <2>3, SameLotsTyped
  <2>5. /\ LotRowOf(s, item) \in SweepRow /\ LotRowOf(s, item).lot = item[1]
        /\ LotRowOf(s, item).todo \subseteq sweeps[s].todo
    BY <2>2, SweepRead DEF LotRowOf, SweepRow
  <2>6. \A it \in LotRowOf(s, item).todo : it[1] \in DOMAIN lots
    BY <2>5, SweepRead
  <2>7. SweepsTyped'
    BY <1>0, <2>1, <2>2, <2>4, <2>5, <2>6, SweepMoves
  <2> QED
    BY <1>2, <2>4, <2>7 DEF SweepLot, BooksTyped
<1>3. CASE SweepWallet(s)
  <2>1. sweeps[s].pc = "wallet" /\ wallets' = Swept(lots[sweeps[s].lot], sweeps[s].credits)
    BY <1>3 DEF SweepWallet
  <2>2. sweeps[s].lot \in DOMAIN lots /\ sweeps[s].credits \in Nat
    BY <2>1, SweepRead
  <2> DEFINE lot == lots[sweeps[s].lot]
  <2>3. lot.owner \in Users /\ lot.type \in CreditTypes
    BY <1>0, <2>2, LotFacts DEF LotRow
  <2>4. wallets' \in WalletRows
    BY <2>1, <2>2, <2>3, SweptFacts DEF BooksTyped, Moves
  <2>5. WalletRowOf(s) \in SweepRow /\ WalletRowOf(s).lot = sweeps[s].lot
        /\ WalletRowOf(s).todo = sweeps[s].todo
    BY <2>2, SweepRead DEF WalletRowOf, SweepRow
  <2>6. SweepsTyped'
    BY <1>0, <1>3, <2>2, <2>5, SweepRead, SweepSteps, SweepMoves
  <2> QED
    BY <1>3, <2>4, <2>6 DEF SweepWallet, BooksTyped, LotsTyped
<1>4. CASE SweepEntry(s)
  <2>1. sweeps[s].lot \in DOMAIN lots /\ sweeps[s].credits \in Nat /\ sweeps[s].lot \in Nat
    BY <1>4, SweepRead DEF SweepEntry
  <2> DEFINE u == lots[sweeps[s].lot].owner
             e == Entry("CREDIT_EXPIRATION", u, None, sweeps[s].credits, 0, None, sweeps[s].lot, NoLots)
  <2>2. u \in Users
    BY <1>0, <2>1, LotFacts DEF LotRow
  <2>3. ledger' = Append(ledger, e)
    BY <1>4 DEF SweepEntry, Logged
  <2>4. EntryTyped(e, Len(lots))
    <3>1. "CREDIT_EXPIRATION" \in EntryTypes /\ 0 \in Nat /\ DOMAIN NoLots = {}
      BY DEF EntryTypes, BurnTypes, NoLots
    <3> HIDE DEF u
    <3> QED
      BY <1>0, <2>1, <2>2, <3>1, EntryIsTyped
  <2> HIDE DEF e
  <2>5. RowsTyped(ledger', Len(lots'))
    <3>1. RowsTyped(ledger, Len(lots)) /\ lots' = lots
      BY <1>4, SweepSteps DEF BooksTyped
    <3>2. RowsTyped(Append(ledger, e), Len(lots))
      BY <1>0, <2>4, <3>1, RowAppended
    <3> QED
      BY <2>3, <3>1, <3>2
  <2>6. EntryRowOf(s) \in SweepRow /\ EntryRowOf(s).pc \notin {"wallet", "entry"}
        /\ EntryRowOf(s).todo = sweeps[s].todo
    BY SweepRead DEF EntryRowOf, SweepRow
  <2>7. SweepsTyped'
    BY <1>0, <1>4, <2>6, SweepRead, SweepSteps, SweepMoves
  <2> QED
    BY <1>4, <2>5, <2>7 DEF SweepEntry, BooksTyped, LotsTyped
<1>5. CASE SweepCrash(s)
  <2>1. Idle \in SweepRow /\ Idle.pc = "idle" /\ Idle.todo = {}
    BY DEF Idle, SweepRow
  <2>2. SweepsTyped'
    BY <1>0, <1>5, <2>1, SweepSteps, SweepMoves
  <2> QED
    BY <1>5, <2>2 DEF SweepCrash, BooksTyped, LotsTyped
<1> QED
  BY <1>1, <1>2, <1>3, <1>4, <1>5

-----------------------------------------------------------------------------
LEMMA InitTyped == Init => Typed
<1> SUFFICES ASSUME Init PROVE Typed
  OBVIOUS
<1>1. wallets \in WalletRows
  BY DEF Init, EmptyWallet, WalletRows, WalletRow, WalletStatus, CreditTypes
<1>2. /\ LotsTyped /\ Len(lots) = 0 /\ DOMAIN lots = {}
      /\ payments \in Seq(PaymentRow) /\ RowsTyped(ledger, Len(lots))
  BY DEF Init, LotsTyped, RowsTyped
<1>3. SweepsTyped
  <2>1. Idle \in SweepRow /\ Idle.pc = "idle" /\ Idle.todo = {}
    BY DEF Idle, SweepRow
  <2>2. sweeps = [s \in Sweepers |-> Idle]
    BY DEF Init
  <2> QED
    BY <2>1, <2>2 DEF SweepsTyped
<1>4. StockTyped
  BY CatalogueAssumption, BoundsAssumption DEF Init, StockTyped
<1> QED
  BY <1>1, <1>2, <1>3, <1>4 DEF Typed, BooksTyped

\* The prices of the sales there are
LEMMA PriceFacts ==
    /\ \A credits \in Prices : credits \in Nat
    /\ \A c \in DOMAIN Contents :
          Contents[c].seller \in Users /\ Contents[c].price \in Nat
    /\ \A p \in DOMAIN Products, n \in Quantities :
          Products[p].seller \in Users /\ Products[p].price * n \in Nat
<1>1. \A p \in DOMAIN Products, n \in Quantities : Products[p].price \in Nat /\ n \in Nat
  BY AmountsAssumption, CatalogueAssumption
<1>2. \A a, b \in Nat : a * b \in Nat
  OBVIOUS
<1> QED
  BY <1>1, <1>2, AmountsAssumption, CatalogueAssumption, UsersFacts

\* What a step does to wallets, lots and log: one of seven things, or nothing
Steps ==
    \/ \E k : \E u \in Users, d \in Deposits : Deposit(u, d, k)
    \/ \E k : \E u \in Users, type \in CreditTypes \ {"PURCHASED"}, row \in MintTypes, g \in Grants :
          Grant(u, type, row, g, k)
    \/ \E k : \E type \in SaleTypes, u \in Users, c \in Users, credits \in Nat :
          Sale(type, u, c, credits, k)
    \/ \E i \in DOMAIN ledger : Refund(i)
    \/ \E p \in DOMAIN payments : Chargeback(p)
    \/ \E s \in Sweepers : SweepFind(s) \/ SweepLot(s) \/ SweepWallet(s) \/ SweepEntry(s)
    \/ \E s \in Sweepers : SweepCrash(s)
    \/ UNCHANGED <<wallets, lots, ledger, payments, sweeps, crashes>> /\ now <= now'

LEMMA StepCases ==
    ASSUME Typed, [Next]_vars
    PROVE  Steps
<1>1. ASSUME NEW u \in Fans, NEW d \in Deposits, NEW k, Deposit(u, d, k) PROVE Steps
  BY <1>1, UsersFacts DEF Steps
<1>2. ASSUME NEW u \in Fans, NEW g \in Grants, NEW k, GrantPromotional(u, g, k) \/ GrantBonus(u, g, k)
      PROVE  Steps
  <2>1. PICK type \in CreditTypes \ {"PURCHASED"}, row \in MintTypes : Grant(u, type, row, g, k)
    BY <1>2 DEF GrantPromotional, GrantBonus, CreditTypes, MintTypes
  <2> QED
    BY <2>1, UsersFacts DEF Steps
<1>3. ASSUME NEW type \in SaleTypes, NEW u \in Users, NEW c \in Users, NEW credits \in Nat, NEW k,
             Sale(type, u, c, credits, k)
      PROVE  Steps
  BY <1>3 DEF Steps
<1>4. ASSUME NEW u \in Fans, NEW c \in Creators, NEW credits \in Prices, NEW k,
             LiveTip(u, c, credits, k) \/ PaidQuestion(u, c, credits, k)
      PROVE  Steps
  <2>1. PICK type \in SaleTypes : Sale(type, u, c, credits, k)
    BY <1>4 DEF LiveTip, PaidQuestion, SaleTypes
  <2> QED
    BY <1>3, <2>1, UsersFacts, PriceFacts
<1>5. ASSUME NEW u \in Fans, NEW c \in DOMAIN Contents, NEW k, PPVPurchase(u, c, k) PROVE Steps
  <2>1. /\ Sale("PPV_PURCHASE", u, Contents[c].seller, Contents[c].price, k)
        /\ "PPV_PURCHASE" \in SaleTypes
    BY <1>5 DEF PPVPurchase, SaleTypes
  <2> QED
    BY <1>3, <2>1, UsersFacts, PriceFacts
<1>6. ASSUME NEW u \in Fans, NEW p \in DOMAIN Products, NEW n \in Quantities, NEW k,
             ProductPurchase(u, p, n, k)
      PROVE  Steps
  <2>1. /\ Sale("PRODUCT_PURCHASE", u, Products[p].seller, Products[p].price * n, k)
        /\ "PRODUCT_PURCHASE" \in SaleTypes
    BY <1>6 DEF ProductPurchase, SaleTypes
  <2> QED
    BY <1>3, <2>1, UsersFacts, PriceFacts
<1>7. ASSUME NEW i \in DOMAIN ledger, Refund(i) PROVE Steps
  BY <1>7 DEF Steps
<1>8. ASSUME NEW p \in DOMAIN payments, Chargeback(p) PROVE Steps
  BY <1>8 DEF Steps
<1>9. ASSUME NEW s \in Sweepers,
             SweepFind(s) \/ SweepLot(s) \/ SweepWallet(s) \/ SweepEntry(s) \/ SweepCrash(s)
      PROVE  Steps
  BY <1>9 DEF Steps
<1>10. CASE Tick \/ UNCHANGED vars
  <2>1. now \in Nat
    BY BoundsAssumption DEF Typed, StockTyped
  <2> QED
    BY <1>10, <2>1 DEF Tick, vars, Steps
<1> QED
  BY <1>1, <1>2, <1>4, <1>5, <1>6, <1>7, <1>8, <1>9, <1>10 DEF Next

LEMMA StepTyped == Typed /\ [Next]_vars => Typed'
<1> SUFFICES ASSUME Typed, [Next]_vars PROVE Typed'
  OBVIOUS
<1>0. BooksTyped /\ StockTyped /\ now \in Nat
  BY BoundsAssumption DEF Typed, StockTyped
<1>1. ASSUME NEW u \in Fans, NEW d \in Deposits, NEW k, Deposit(u, d, k) PROVE Typed'
  BY <1>0, <1>1, DepositTyped, UsersFacts DEF Typed, StockTyped, Deposit
<1>2. ASSUME NEW u \in Fans, NEW g \in Grants, NEW k, GrantPromotional(u, g, k) \/ GrantBonus(u, g, k)
      PROVE  Typed'
  <2>1. PICK type \in CreditTypes, row \in MintTypes : Grant(u, type, row, g, k)
    BY <1>2 DEF GrantPromotional, GrantBonus, CreditTypes, MintTypes
  <2>2. BooksTyped'
    BY <1>0, <2>1, GrantTyped, UsersFacts
  <2> QED
    BY <1>0, <2>1, <2>2 DEF Typed, StockTyped, Grant
<1>3. ASSUME NEW u \in Fans, NEW c \in Creators, NEW credits \in Prices, NEW k,
             LiveTip(u, c, credits, k) \/ PaidQuestion(u, c, credits, k)
      PROVE  Typed'
  <2>1. PICK type \in SaleTypes : Sale(type, u, c, credits, k)
    BY <1>3 DEF LiveTip, PaidQuestion, SaleTypes
  <2>2. BooksTyped'
    BY <1>0, <2>1, SaleTyped, UsersFacts, PriceFacts
  <2> QED
    BY <1>0, <1>3, <2>2 DEF Typed, StockTyped, LiveTip, PaidQuestion, Sale
<1>4. ASSUME NEW u \in Fans, NEW c \in DOMAIN Contents, NEW k, PPVPurchase(u, c, k) PROVE Typed'
  <2>1. /\ Sale("PPV_PURCHASE", u, Contents[c].seller, Contents[c].price, k)
        /\ "PPV_PURCHASE" \in SaleTypes
    BY <1>4 DEF PPVPurchase, SaleTypes
  <2>2. BooksTyped'
    BY <1>0, <2>1, SaleTyped, UsersFacts, PriceFacts
  <2> QED
    BY <1>0, <1>4, <2>2 DEF Typed, StockTyped, PPVPurchase, Sale
<1>5. ASSUME NEW u \in Fans, NEW p \in DOMAIN Products, NEW n \in Quantities, NEW k,
             ProductPurchase(u, p, n, k)
      PROVE  Typed'
  <2>1. /\ Sale("PRODUCT_PURCHASE", u, Products[p].seller, Products[p].price * n, k)
        /\ "PRODUCT_PURCHASE" \in SaleTypes
    BY <1>5 DEF ProductPurchase, SaleTypes
  <2>2. BooksTyped'
    BY <1>0, <2>1, SaleTyped, UsersFacts, PriceFacts
  <2>3. /\ stock' = [stock EXCEPT ![p] = @ - n] /\ stock[p] >= n /\ now' = now
        /\ n \in Nat /\ \A q \in DOMAIN Products : Products[q].stock \in Nat
    BY <1>5, AmountsAssumption, CatalogueAssumption DEF ProductPurchase, Sale
  <2>4. /\ DOMAIN stock = DOMAIN Products
        /\ \A q \in DOMAIN Products : stock[q] \in 0 .. Products[q].stock
    BY <1>0 DEF StockTyped
  <2>5. stock[p] - n \in 0 .. Products[p].stock
    BY <2>3, <2>4
  <2>6. \A q \in DOMAIN Products : stock'[q] = IF q = p THEN stock[p] - n ELSE stock[q]
    BY <2>3, <2>4
  <2>7. StockTyped'
    BY <1>0, <2>3, <2>4, <2>5, <2>6 DEF StockTyped
  <2> QED
    BY <2>2, <2>7 DEF Typed
<1>6. ASSUME NEW i \in DOMAIN ledger, Refund(i) PROVE Typed'
  BY <1>0, <1>6, RefundTyped DEF Typed, StockTyped, Refund
<1>7. ASSUME NEW p \in DOMAIN payments, Chargeback(p) PROVE Typed'
  BY <1>0, <1>7, ChargebackTyped DEF Typed, StockTyped, Chargeback
<1>8. ASSUME NEW s \in Sweepers,
             SweepFind(s) \/ SweepLot(s) \/ SweepWallet(s) \/ SweepEntry(s) \/ SweepCrash(s)
      PROVE  Typed'
  <2>1. BooksTyped'
    BY <1>0, <1>8, SweepTyped
  <2>2. UNCHANGED <<stock, now>>
    BY <1>8 DEF SweepFind, SweepLot, SweepWallet, SweepEntry, SweepCrash
  <2> QED
    BY <1>0, <2>1, <2>2 DEF Typed, StockTyped
<1>9. CASE Tick
  <2>1. BooksTyped'
    BY <1>0, <1>9 DEF Tick, BooksTyped, LotsTyped, SweepsTyped
  <2>2. StockTyped'
    BY <1>0, <1>9, BoundsAssumption DEF Tick, StockTyped
  <2> QED
    BY <2>1, <2>2 DEF Typed
<1>10. CASE UNCHANGED vars
  BY <1>0, <1>10 DEF vars, Typed, StockTyped, BooksTyped, LotsTyped, SweepsTyped
<1> QED
  BY <1>1, <1>2, <1>3, <1>4, <1>5, <1>6, <1>7, <1>8, <1>9, <1>10 DEF Next

\* Whatever is bought, granted, sold, refunded, charged back or swept, every row
\* keeps its shape: no lot holds a negative amount, no product oversells, and
\* every log row names lots there are.
THEOREM LedgerTyped == Spec => []TypeOK
<1> QED
  BY InitTyped, StepTyped, TypedImplied, PTL DEF Spec

-----------------------------------------------------------------------------
(* The log explains the balances *)

Replayed(u) == Total(Effects(u), DOMAIN ledger)
LogBalanced == \A u \in Users : wallets[u].balance = Replayed(u) - Unlogged(u)

LEMMA EffectIsInt ==
    ASSUME NEW e, NEW n, EntryTyped(e, n), NEW u
    PROVE  Effect(e, u) \in Int
BY DEF EntryTyped, Effect

LEMMA ReplayedIsInt ==
    ASSUME NEW n, RowsTyped(ledger, n), NEW u
    PROVE  Replayed(u) \in Int /\ IsFiniteSet(DOMAIN ledger)
<1>1. IsFiniteSet(DOMAIN ledger)
  <2>1. DOMAIN ledger = 1 .. Len(ledger) /\ Len(ledger) \in Nat
    BY AppendFacts DEF RowsTyped
  <2> QED
    BY <2>1, FS_Interval
<1>2. \A i \in DOMAIN ledger : Effects(u)[i] \in Int
  BY EffectIsInt DEF RowsTyped, Effects
<1> QED
  BY <1>1, <1>2, TotalIsInt DEF Replayed

\* The log after a row is added, with the columns Effect reads as they were
SameEffects(back) ==
    /\ DOMAIN back = DOMAIN ledger /\ Len(back) = Len(ledger)
    /\ \A j \in DOMAIN ledger :
          /\ back[j].type = ledger[j].type /\ back[j].src = ledger[j].src
          /\ back[j].dst = ledger[j].dst /\ back[j].amount = ledger[j].amount
          /\ back[j].net = ledger[j].net

LEMMA SameIsSame == ASSUME NEW n, RowsTyped(ledger, n) PROVE SameEffects(ledger)
BY DEF SameEffects

LEMMA LogGrows ==
    ASSUME NEW n, RowsTyped(ledger, n), NEW back, RowsTyped(back, n), SameEffects(back),
           NEW e, NEW m, EntryTyped(e, m), ledger' = Append(back, e), NEW u
    PROVE  Replayed(u)' = Replayed(u) + Effect(e, u) /\ Effect(e, u) \in Int /\ Replayed(u) \in Int
<1> DEFINE f == Effects(u)
           g == [i \in DOMAIN ledger' |-> Effect(ledger'[i], u)]
           D == DOMAIN ledger
           k == Len(ledger) + 1
<1>1. /\ D = 1 .. Len(ledger) /\ Len(ledger) \in Nat /\ DOMAIN ledger' = D \cup {k} /\ k \notin D
      /\ ledger'[k] = e /\ \A i \in D : ledger'[i] = back[i]
  <2>1. DOMAIN ledger = 1 .. Len(ledger) /\ Len(ledger) \in Nat
    BY AppendFacts DEF RowsTyped
  <2>2. /\ DOMAIN ledger' = 1 .. (Len(back) + 1) /\ ledger'[Len(back) + 1] = e
        /\ \A i \in DOMAIN back : ledger'[i] = back[i]
    BY AppendFacts DEF RowsTyped
  <2>3. Len(back) = Len(ledger) /\ DOMAIN back = D
    BY DEF SameEffects
  <2> QED
    BY <2>1, <2>2, <2>3
<1>2. \A i \in D : f[i] = Effect(ledger[i], u) /\ f[i] \in Int
  BY EffectIsInt DEF RowsTyped, Effects
<1>3. Effect(e, u) \in Int
  BY EffectIsInt
<1> HIDE DEF k
<1>4. g[k] = Effect(e, u) /\ \A i \in D : g[i] = Effect(back[i], u)
  BY <1>1
<1>5. \A i \in D : Effect(back[i], u) = Effect(ledger[i], u)
  BY DEF SameEffects, Effect
<1>6. IsFiniteSet(D)
  BY ReplayedIsInt
<1>7. Replayed(u)' = Total(g, D \cup {k}) /\ Replayed(u) = Total(f, D)
  BY <1>1 DEF Replayed, Effects
<1> HIDE DEF f, g, D
<1>8. Total(g, D \cup {k}) = Total(g, D) + g[k]
  <2>1. \A y \in D \cup {k} : g[y] \in Int
    BY <1>2, <1>3, <1>4, <1>5
  <2> QED
    BY <1>1, <1>6, <2>1, TotalWith
<1>9. Total(g, D) = Total(f, D)
  BY <1>2, <1>4, <1>5, <1>6, TotalAgrees
<1> QED
  BY <1>3, <1>4, <1>7, <1>8, <1>9, ReplayedIsInt

\* Sweeps that stand still owe the log what they did.
LEMMA UnloggedStays ==
    ASSUME BooksTyped, sweeps' = sweeps, DOMAIN lots \subseteq DOMAIN lots',
           \A l \in DOMAIN lots : lots'[l].owner = lots[l].owner
    PROVE  \A u : Unlogged(u)' = Unlogged(u)
<1>1. ASSUME NEW u PROVE Unlogged(u)' = Unlogged(u)
  <2> DEFINE S == {s \in Sweepers : sweeps[s].pc = "entry" /\ lots[sweeps[s].lot].owner = u}
             T == {s \in Sweepers : sweeps'[s].pc = "entry" /\ lots'[sweeps'[s].lot].owner = u}
  <2>1. T = S
    BY SweepRead
  <2>2. Unlogged(u) = Total(SweptCredits, S) /\ Unlogged(u)' = Total(SweptCredits', T)
    BY DEF Unlogged
  <2>3. SweptCredits' = SweptCredits
    BY DEF SweptCredits
  <2> QED
    BY <2>1, <2>2, <2>3
<1> QED
  BY <1>1

LEMMA UnloggedFacts ==
    ASSUME BooksTyped
    PROVE  /\ \A u : Unlogged(u) \in Nat
           /\ \A s \in Sweepers : SweptCredits[s] = sweeps[s].credits /\ SweptCredits[s] \in Nat
           /\ \A u : IsFiniteSet({s \in Sweepers : sweeps[s].pc = "entry" /\ lots[sweeps[s].lot].owner = u})
<1>1. \A s \in Sweepers : SweptCredits[s] = sweeps[s].credits /\ SweptCredits[s] \in Nat
  BY SweepRead DEF SweptCredits
<1>2. ASSUME NEW u PROVE Unlogged(u) \in Nat
        /\ IsFiniteSet({s \in Sweepers : sweeps[s].pc = "entry" /\ lots[sweeps[s].lot].owner = u})
  <2> DEFINE S == {s \in Sweepers : sweeps[s].pc = "entry" /\ lots[sweeps[s].lot].owner = u}
  <2>1. S \subseteq Sweepers
    OBVIOUS
  <2>2. IsFiniteSet(S)
    BY <2>1, FinitenessAssumption, FS_Subset
  <2>3. Total(SweptCredits, S) \in Nat
    BY <1>1, <2>1, <2>2, TotalIsNat
  <2> QED
    BY <2>2, <2>3 DEF Unlogged
<1> QED
  BY <1>1, <1>2

\* A sweep's second write is not logged yet, its third is ...
LEMMA UnloggedMoves ==
    ASSUME BooksTyped, NEW s \in Sweepers, NEW row, row \in SweepRow, SameLots(lots'),
           sweeps' = [sweeps EXCEPT ![s] = row],
           row.pc = "entry" => row.lot \in DOMAIN lots
    PROVE  \A u : Unlogged(u)' = Unlogged(u)
              + (IF row.pc = "entry" /\ lots[row.lot].owner = u THEN row.credits ELSE 0)
              - (IF sweeps[s].pc = "entry" /\ lots[sweeps[s].lot].owner = u
                 THEN sweeps[s].credits ELSE 0)
<1>0. /\ sweeps \in [Sweepers -> SweepRow] /\ IsFiniteSet(Sweepers)
      /\ sweeps'[s] = row /\ \A r \in Sweepers : r # s => sweeps'[r] = sweeps[r]
      /\ row.credits \in Nat /\ sweeps[s].credits \in Nat
  BY SweepRead, FinitenessAssumption DEF BooksTyped, SweepsTyped, SweepRow
<1> SUFFICES ASSUME NEW u
             PROVE  Unlogged(u)' = Unlogged(u)
              + (IF row.pc = "entry" /\ lots[row.lot].owner = u THEN row.credits ELSE 0)
              - (IF sweeps[s].pc = "entry" /\ lots[sweeps[s].lot].owner = u
                 THEN sweeps[s].credits ELSE 0)
  OBVIOUS
<1> DEFINE S == {r \in Sweepers : sweeps[r].pc = "entry" /\ lots[sweeps[r].lot].owner = u}
           T == {r \in Sweepers : sweeps'[r].pc = "entry" /\ lots'[sweeps'[r].lot].owner = u}
           f == SweptCredits
           g == [r \in Sweepers |-> sweeps'[r].credits]
           rest == S \ {s}
<1>1. Unlogged(u) = Total(f, S) /\ Unlogged(u)' = Total(g, T)
  BY DEF Unlogged, SweptCredits
<1>2. /\ \A r \in Sweepers : f[r] = sweeps[r].credits /\ f[r] \in Nat
      /\ \A r \in Sweepers : r # s => g[r] = f[r]
      /\ g[s] = row.credits
  BY <1>0, UnloggedFacts
<1>3. T \ {s} = rest
  <2>1. \A r \in Sweepers : sweeps[r].pc = "entry" => lots'[sweeps[r].lot].owner = lots[sweeps[r].lot].owner
    BY SweepRead DEF SameLots
  <2> QED
    BY <1>0, <2>1
<1>4. s \in T <=> row.pc = "entry" /\ lots[row.lot].owner = u
  BY <1>0 DEF SameLots
<1>5. s \in S <=> sweeps[s].pc = "entry" /\ lots[sweeps[s].lot].owner = u
  OBVIOUS
<1>6. S \subseteq Sweepers /\ T \subseteq Sweepers /\ IsFiniteSet(S) /\ IsFiniteSet(T) /\ IsFiniteSet(rest)
  <2>1. S \subseteq Sweepers /\ T \subseteq Sweepers /\ rest \subseteq Sweepers
    OBVIOUS
  <2> QED
    BY <1>0, <2>1, FS_Subset
<1> HIDE DEF S, T, f, g
<1>7. Total(f, rest) \in Int /\ Total(g, rest) = Total(f, rest)
  <2>1. \A r \in rest : r \in Sweepers /\ r # s
    BY <1>6
  <2>2. \A r \in rest : f[r] \in Int /\ g[r] = f[r]
    BY <1>2, <2>1
  <2> HIDE DEF rest
  <2>3. Total(f, rest) \in Int
    BY <1>6, <2>2, TotalIsInt
  <2>4. Total(g, rest) = Total(f, rest)
    BY <1>6, <2>2, TotalAgrees
  <2> QED
    BY <2>3, <2>4
<1>8. Total(f, S) = Total(f, rest) + (IF s \in S THEN f[s] ELSE 0)
  <2>1. CASE s \in S
    <3>1. \A x \in S : f[x] \in Int
      BY <1>2, <1>6
    <3>2. Total(f, S) = f[s] + Total(f, rest)
      BY <1>6, <2>1, <3>1, TotalWithout
    <3> QED
      BY <1>2, <1>7, <2>1, <3>2
  <2>2. CASE s \notin S
    <3>1. rest = S
      BY <2>2
    <3> HIDE DEF rest
    <3> QED
      BY <1>7, <2>2, <3>1
  <2> QED
    BY <2>1, <2>2
<1>9. Total(g, T) = Total(f, rest) + (IF s \in T THEN g[s] ELSE 0)
  <2>1. CASE s \in T
    <3>1. \A x \in T : g[x] \in Int
      BY <1>0, <1>2, <1>6
    <3>2. Total(g, T) = g[s] + Total(g, rest)
      BY <1>3, <1>6, <2>1, <3>1, TotalWithout
    <3> QED
      BY <1>0, <1>2, <1>7, <2>1, <3>2
  <2>2. CASE s \notin T
    <3>1. rest = T
      BY <1>3, <2>2
    <3> HIDE DEF rest
    <3> QED
      BY <1>7, <2>2, <3>1
  <2> QED
    BY <2>1, <2>2
<1> QED
  BY <1>0, <1>1, <1>2, <1>4, <1>5, <1>7, <1>8, <1>9

\* A row is added and the wallets move by its effect.
LEMMA LogKept ==
    ASSUME BooksTyped, LogBalanced, NEW back, RowsTyped(back, Len(lots)), SameEffects(back),
           NEW e, NEW m, EntryTyped(e, m), ledger' = Append(back, e),
           \A u \in Users : /\ wallets'[u].balance + Unlogged(u)'
                                 = wallets[u].balance + Unlogged(u) + Effect(e, u)
                            /\ wallets'[u].balance \in Int /\ Unlogged(u)' \in Int
    PROVE  LogBalanced'
<1>1. \A u : Replayed(u)' = Replayed(u) + Effect(e, u) /\ Effect(e, u) \in Int /\ Replayed(u) \in Int
  BY LogGrows DEF BooksTyped
<1>2. ASSUME NEW u \in Users PROVE wallets'[u].balance = Replayed(u)' - Unlogged(u)'
  <2>1. wallets[u].balance \in Int /\ Unlogged(u) \in Int
    BY UnloggedFacts, ColumnsRead DEF BooksTyped
  <2>2. wallets[u].balance = Replayed(u) - Unlogged(u)
    BY DEF LogBalanced
  <2> QED
    BY SMTT(30), <1>1, <2>1, <2>2
<1> QED
  BY <1>2 DEF LogBalanced

\* Sales, refunds, deposits, grants and chargebacks touch no sweep.
LEMMA LogKeptByOne ==
    ASSUME BooksTyped, LogBalanced, NEW back, RowsTyped(back, Len(lots)), SameEffects(back),
           NEW e, NEW m, EntryTyped(e, m), ledger' = Append(back, e),
           wallets' \in WalletRows, sweeps' = sweeps, DOMAIN lots \subseteq DOMAIN lots',
           \A l \in DOMAIN lots : lots'[l].owner = lots[l].owner,
           \A u \in Users : wallets'[u].balance = wallets[u].balance + Effect(e, u)
    PROVE  LogBalanced'
<1>1. \A u : Unlogged(u)' = Unlogged(u)
  BY UnloggedStays
<1>2. \A u : Unlogged(u) \in Nat
  BY UnloggedFacts
<1>3. \A u : Effect(e, u) \in Int
  BY EffectIsInt
<1>4. \A u \in Users : wallets[u].balance \in Int /\ wallets'[u].balance \in Int
  BY ColumnsRead DEF BooksTyped
<1>5. ASSUME NEW u \in Users
      PROVE  /\ wallets'[u].balance + Unlogged(u)' = wallets[u].balance + Unlogged(u) + Effect(e, u)
             /\ wallets'[u].balance \in Int /\ Unlogged(u)' \in Int
  BY <1>1, <1>2, <1>3, <1>4
<1> QED
  BY <1>5, LogKept

LEMMA SaleLogged ==
    ASSUME BooksTyped, LogBalanced, NEW type, type \in SaleTypes, NEW fan \in Users,
           NEW creator \in Users, NEW credits, credits \in Nat, NEW k,
           Sale(type, fan, creator, credits, k)
    PROVE  LogBalanced'
<1> DEFINE net == credits - PlatformFee(credits)
           taken == Drawdown(fan, credits)
           e == Entry(type, fan, creator, credits, net, k, 0, taken)
<1>1. /\ net \in Nat /\ wallets' \in WalletRows
      /\ \A x \in Users : wallets'[x].balance = wallets[x].balance
                  - (IF x = fan THEN credits ELSE 0) + (IF x = creator THEN net ELSE 0)
      /\ SameLots(lots')
      /\ ledger' = Append(ledger, e) /\ EntryTyped(e, Len(lots))
  BY SaleFacts
<1>2. e.type = type /\ e.src = fan /\ e.dst = creator /\ e.amount = credits /\ e.net = net
  BY EntryColumns
<1> HIDE DEF e, net, taken
<1>3. ASSUME NEW x \in Users PROVE wallets'[x].balance = wallets[x].balance + Effect(e, x)
  <2>1. type # "REFUND"
    BY DEF SaleTypes
  <2>2. Effect(e, x) = (IF creator = x THEN net ELSE 0) - (IF fan = x THEN credits ELSE 0)
    BY <1>2, <2>1 DEF Effect
  <2>3. wallets[x].balance \in Int
    BY ColumnsRead DEF BooksTyped
  <2>4. wallets'[x].balance = wallets[x].balance
          - (IF x = fan THEN credits ELSE 0) + (IF x = creator THEN net ELSE 0)
    BY <1>1
  <2>5. net \in Int /\ credits \in Int
    BY <1>1
  <2> QED
    BY <2>2, <2>3, <2>4, <2>5
<1>4. sweeps' = sweeps /\ DOMAIN lots \subseteq DOMAIN lots'
      /\ \A l \in DOMAIN lots : lots'[l].owner = lots[l].owner
  BY <1>1 DEF Sale, SameLots
<1>5. RowsTyped(ledger, Len(lots)) /\ SameEffects(ledger)
  BY SameIsSame DEF BooksTyped
<1> QED
  BY <1>1, <1>3, <1>4, <1>5, LogKeptByOne

LEMMA RefundLogged ==
    ASSUME BooksTyped, LogBalanced, NEW i, i \in DOMAIN ledger, Refund(i)
    PROVE  LogBalanced'
<1> DEFINE o == ledger[i]
           e == Entry("REFUND", o.dst, o.src, o.amount, o.net, None, i, NoLots)
<1>1. /\ wallets' \in WalletRows
      /\ \A x \in Users : wallets'[x].balance = wallets[x].balance
                  + (IF x = o.src THEN o.amount ELSE 0) - (IF x = o.dst THEN o.net ELSE 0)
      /\ SameLots(lots')
      /\ ledger' = Append(Reversed(i), e) /\ EntryTyped(e, Len(lots))
      /\ EntryTyped(o, Len(lots))
  BY RefundFacts
<1>2. e.type = "REFUND" /\ e.src = o.dst /\ e.dst = o.src /\ e.amount = o.amount /\ e.net = o.net
  BY EntryColumns
<1>3. RowsTyped(Reversed(i), Len(lots)) /\ SameEffects(Reversed(i))
  BY ReversedFacts DEF BooksTyped, SameEffects
<1> HIDE DEF e, o
<1>4. ASSUME NEW x \in Users PROVE wallets'[x].balance = wallets[x].balance + Effect(e, x)
  <2>1. Effect(e, x) = (IF o.src = x THEN o.amount ELSE 0) - (IF o.dst = x THEN o.net ELSE 0)
    BY <1>2 DEF Effect
  <2>2. wallets[x].balance \in Int /\ o.amount \in Nat /\ o.net \in Nat
    BY <1>1, ColumnsRead DEF BooksTyped, EntryTyped
  <2> QED
    BY <1>1, <2>1, <2>2
<1>5. sweeps' = sweeps /\ DOMAIN lots \subseteq DOMAIN lots'
      /\ \A l \in DOMAIN lots : lots'[l].owner = lots[l].owner
  BY <1>1 DEF Refund, SameLots
<1> QED
  BY <1>1, <1>3, <1>4, <1>5, LogKeptByOne

LEMMA ChargebackLogged ==
    ASSUME BooksTyped, LogBalanced, NEW p, p \in DOMAIN payments, Chargeback(p)
    PROVE  LogBalanced'
<1> DEFINE u == payments[p].owner
           n == payments[p].credits + payments[p].bonus
           e == Entry("CHARGEBACK_REVERSAL", u, None, n, 0, None, p, NoLots)
<1>1. /\ u \in Users /\ n \in Nat /\ wallets' \in WalletRows
      /\ \A x \in Users : wallets'[x].balance = wallets[x].balance - (IF x = u THEN n ELSE 0)
      /\ SameLots(lots')
      /\ ledger' = Append(ledger, e) /\ EntryTyped(e, Len(lots))
  BY ChargebackFacts
<1>2. e.type = "CHARGEBACK_REVERSAL" /\ e.src = u /\ e.dst = None /\ e.amount = n
  BY EntryColumns
<1> HIDE DEF e, u, n
<1>3. ASSUME NEW x \in Users PROVE wallets'[x].balance = wallets[x].balance + Effect(e, x)
  <2>1. "CHARGEBACK_REVERSAL" \notin SaleTypes /\ None # x
    BY UsersFacts DEF SaleTypes
  <2>2. Effect(e, x) = 0 - (IF u = x THEN n ELSE 0)
    BY <1>2, <2>1 DEF Effect
  <2>3. wallets[x].balance \in Int
    BY ColumnsRead DEF BooksTyped
  <2> QED
    BY <1>1, <2>2, <2>3
<1>4. sweeps' = sweeps /\ DOMAIN lots \subseteq DOMAIN lots'
      /\ \A l \in DOMAIN lots : lots'[l].owner = lots[l].owner
  BY <1>1 DEF Chargeback, SameLots
<1>5. RowsTyped(ledger, Len(lots)) /\ SameEffects(ledger)
  BY SameIsSame DEF BooksTyped
<1> QED
  BY <1>1, <1>3, <1>4, <1>5, LogKeptByOne

\* A deposit or a grant
LEMMA MintLogged ==
    ASSUME BooksTyped, LogBalanced, NEW u, u \in Users, NEW n, n \in Nat,
           NEW row, row \in MintTypes, NEW k, NEW ref,
           NEW e, e = Entry(row, None, u, n, 0, k, ref, NoLots), \A m \in Nat : EntryTyped(e, m),
           ledger' = Append(ledger, e), wallets' \in WalletRows, sweeps' = sweeps,
           \A x \in Users : wallets'[x].balance = wallets[x].balance + (IF x = u THEN n ELSE 0),
           NEW more, more \in Seq(LotRow), lots' = lots \o more
    PROVE  LogBalanced'
<1>1. e.type = row /\ e.src = None /\ e.dst = u /\ e.amount = n
  BY EntryColumns
<1>2. ASSUME NEW x \in Users PROVE wallets'[x].balance = wallets[x].balance + Effect(e, x)
  <2>1. row \notin SaleTypes /\ row # "REFUND" /\ None # x
    BY UsersFacts DEF SaleTypes, MintTypes
  <2>2. Effect(e, x) = (IF u = x THEN n ELSE 0) - 0
    BY <1>1, <2>1 DEF Effect
  <2> QED
    BY <2>2
<1>3. DOMAIN lots \subseteq DOMAIN lots' /\ \A l \in DOMAIN lots : lots'[l].owner = lots[l].owner
  BY LotsAdded DEF BooksTyped
<1>4. RowsTyped(ledger, Len(lots)) /\ SameEffects(ledger) /\ EntryTyped(e, 0)
  BY SameIsSame DEF BooksTyped
<1> QED
  BY <1>2, <1>3, <1>4, LogKeptByOne

LEMMA DepositLogged ==
    ASSUME BooksTyped, LogBalanced, NEW u, u \in Users, NEW d, d \in Deposits, NEW k,
           Deposit(u, d, k)
    PROVE  LogBalanced'
<1> DEFINE e == MintedRow(u, d, k)
           n == d[1] + d[2]
           more == MintedLots(u, d)
<1>1. /\ d[1] \in Nat /\ d[2] \in Nat /\ wallets' \in WalletRows
      /\ \A x \in Users : wallets'[x].balance = wallets[x].balance + (IF x = u THEN n ELSE 0)
      /\ lots' = lots \o more /\ more \in Seq(LotRow)
  BY DepositFacts
<1>4. ledger' = Append(ledger, e)
  BY DEF Deposit, MintedRow
<1>5. \A m \in Nat : EntryTyped(e, m)
  BY DepositFacts
<1>2. n \in Nat /\ "DEPOSIT" \in MintTypes /\ sweeps' = sweeps
  BY <1>1 DEF MintTypes, Deposit
<1>3. e = Entry("DEPOSIT", None, u, n, 0, k, Len(payments) + 1, NoLots)
  BY DEF MintedRow
<1> HIDE DEF e, n, more
<1> QED
  BY <1>1, <1>2, <1>3, <1>4, <1>5, MintLogged

LEMMA GrantLogged ==
    ASSUME BooksTyped, LogBalanced, now \in Nat, NEW u, u \in Users,
           NEW type, type \in CreditTypes, NEW row, row \in MintTypes,
           NEW g, g \in Grants, NEW k, Grant(u, type, row, g, k)
    PROVE  LogBalanced'
<1> DEFINE e == Entry(row, None, u, g[1], 0, k, Len(lots) + 1, NoLots)
           n == g[1]
           more == <<GrantedLot(u, type, g)>>
<1>1. /\ n \in Nat /\ wallets' \in WalletRows
      /\ \A x \in Users : wallets'[x].balance = wallets[x].balance + (IF x = u THEN n ELSE 0)
      /\ lots' = lots \o more /\ GrantedLot(u, type, g) \in LotRow
  BY GrantFacts
<1>4. ledger' = Append(ledger, e)
  BY DEF Grant
<1>5. \A m \in Nat : EntryTyped(e, m)
  BY GrantFacts
<1>2. more \in Seq(LotRow) /\ sweeps' = sweeps
  BY <1>1 DEF Grant
<1>3. e = Entry(row, None, u, n, 0, k, Len(lots) + 1, NoLots)
  OBVIOUS
<1> HIDE DEF e, n, more
<1> QED
  BY <1>1, <1>2, <1>3, <1>4, <1>5, MintLogged

\* A sweep's second write is owed to the log, its third pays it.
LEMMA SweepLogged ==
    ASSUME BooksTyped, LogBalanced, NEW s \in Sweepers,
           SweepFind(s) \/ SweepLot(s) \/ SweepWallet(s) \/ SweepEntry(s)
    PROVE  LogBalanced'
<1>0. /\ LotsTyped /\ SameLots(lots) /\ wallets \in WalletRows
      /\ sweeps[s] \in SweepRow
      /\ \A u : Unlogged(u) \in Nat
  BY UnloggedFacts, SweepRead DEF BooksTyped, LotsTyped, SameLots
<1>1. CASE SweepFind(s) \/ SweepLot(s)
  <2>1. ledger' = ledger /\ wallets' = wallets /\ sweeps[s].pc \in {"idle", "lot"}
    BY <1>1 DEF SweepFind, SweepLot
  <2>2. PICK row \in SweepRow :
          /\ sweeps' = [sweeps EXCEPT ![s] = row] /\ row.pc \in {"lot", "wallet"}
          /\ SameLots(lots')
    <3>1. CASE SweepFind(s)
      <4>1. FoundRow \in SweepRow /\ FoundRow.pc = "lot"
        <5>1. Stale \subseteq DOMAIN lots
          BY DEF Stale
        <5>2. \A l \in Stale : l \in Nat /\ lots[l].remaining \in Nat
          BY <1>0, <5>1, LotFacts
        <5> QED
          BY <5>1, <5>2 DEF FoundRow, SweepRow
      <4> QED
        BY <1>0, <3>1, <4>1, SweepSteps
    <3>2. CASE SweepLot(s)
      <4>1. PICK item \in sweeps[s].todo :
              lots' = Expired(item[1]) /\ sweeps' = [sweeps EXCEPT ![s] = LotRowOf(s, item)]
        BY <3>2, SweepSteps
      <4>2. item[1] \in DOMAIN lots /\ item[1] \in Nat /\ item[2] \in Nat
        BY SweepRead
      <4>3. SameLots(lots')
        BY <1>0, <4>1, <4>2, ExpiredFacts
      <4>4. LotRowOf(s, item) \in SweepRow /\ LotRowOf(s, item).pc = "wallet"
        BY <4>2, SweepRead DEF LotRowOf, SweepRow
      <4> QED
        BY <4>1, <4>3, <4>4
    <3> QED
      BY <1>1, <3>1, <3>2
  <2>3. \A u : Unlogged(u)' = Unlogged(u)
            + (IF row.pc = "entry" /\ lots[row.lot].owner = u THEN row.credits ELSE 0)
            - (IF sweeps[s].pc = "entry" /\ lots[sweeps[s].lot].owner = u
               THEN sweeps[s].credits ELSE 0)
    BY <2>2, UnloggedMoves
  <2>4. \A u : Unlogged(u)' = Unlogged(u)
    BY <1>0, <2>1, <2>2, <2>3
  <2>5. \A u : Replayed(u)' = Replayed(u)
    BY <2>1 DEF Replayed, Effects
  <2> QED
    BY <2>1, <2>4, <2>5 DEF LogBalanced
<1>2. CASE SweepWallet(s)
  <2> DEFINE lot == lots[sweeps[s].lot]
             n == sweeps[s].credits
             row == WalletRowOf(s)
  <2>1. /\ sweeps[s].pc = "wallet" /\ wallets' = Swept(lot, n)
        /\ ledger' = ledger /\ lots' = lots
    BY <1>2 DEF SweepWallet
  <2>2. sweeps[s].lot \in DOMAIN lots /\ n \in Nat /\ lot.owner \in Users /\ lot.type \in CreditTypes
    BY <1>0, <2>1, SweepRead, LotFacts DEF LotRow
  <2>3. \A x \in Users : wallets'[x].balance = wallets[x].balance - (IF x = lot.owner THEN n ELSE 0)
    <3>1. Moves(wallets, wallets', lot.owner, -n,
                [t \in CreditTypes |-> IF t = SweptType(lot) THEN -n ELSE 0])
      BY <1>0, <2>1, <2>2, SweptFacts
    <3>2. \A x \in Users : wallets[x].balance \in Int
      BY <1>0, ColumnsRead
    <3> HIDE DEF lot, n
    <3> QED
      BY <2>2, <3>1, <3>2 DEF Moves
  <2>4. row \in SweepRow /\ row.pc = "entry" /\ row.lot = sweeps[s].lot /\ row.credits = n
        /\ sweeps' = [sweeps EXCEPT ![s] = row]
    BY <1>2, <2>2, SweepRead, SweepSteps DEF WalletRowOf, SweepRow
  <2> HIDE DEF row
  <2>5. \A u : Unlogged(u)' = Unlogged(u)
            + (IF row.pc = "entry" /\ lots[row.lot].owner = u THEN row.credits ELSE 0)
            - (IF sweeps[s].pc = "entry" /\ lots[sweeps[s].lot].owner = u
               THEN sweeps[s].credits ELSE 0)
    BY <1>0, <2>1, <2>2, <2>4, UnloggedMoves
  <2>6. \A u : Unlogged(u)' = Unlogged(u) + (IF lot.owner = u THEN n ELSE 0)
    BY <1>0, <2>1, <2>2, <2>4, <2>5
  <2>7. \A u : Replayed(u)' = Replayed(u) /\ Replayed(u) \in Int
    BY <2>1, ReplayedIsInt DEF Replayed, Effects, BooksTyped
  <2>8. ASSUME NEW u \in Users PROVE wallets'[u].balance = Replayed(u)' - Unlogged(u)'
    <3>1. wallets[u].balance = Replayed(u) - Unlogged(u)
      BY DEF LogBalanced
    <3> HIDE DEF lot, n
    <3> QED
      BY <1>0, <2>2, <2>3, <2>6, <2>7, <3>1
  <2> QED
    BY <2>8 DEF LogBalanced
<1>3. CASE SweepEntry(s)
  <2> DEFINE u == lots[sweeps[s].lot].owner
             n == sweeps[s].credits
             row == EntryRowOf(s)
             e == Entry("CREDIT_EXPIRATION", u, None, n, 0, None, sweeps[s].lot, NoLots)
  <2>1. /\ sweeps[s].pc = "entry" /\ wallets' = wallets /\ lots' = lots
        /\ ledger' = Append(ledger, e) /\ sweeps' = [sweeps EXCEPT ![s] = row]
    BY <1>3, SweepSteps DEF SweepEntry, Logged
  <2>2. sweeps[s].lot \in DOMAIN lots /\ sweeps[s].lot \in Nat /\ n \in Nat /\ u \in Users
    BY <1>0, <2>1, SweepRead, LotFacts DEF LotRow
  <2>3. row \in SweepRow /\ row.pc # "entry"
    BY SweepRead DEF EntryRowOf, SweepRow
  <2> HIDE DEF row
  <2>4. \A x : Unlogged(x)' = Unlogged(x)
            + (IF row.pc = "entry" /\ lots[row.lot].owner = x THEN row.credits ELSE 0)
            - (IF sweeps[s].pc = "entry" /\ lots[sweeps[s].lot].owner = x
               THEN sweeps[s].credits ELSE 0)
    BY <1>0, <2>1, <2>3, UnloggedMoves
  <2>5. \A x : Unlogged(x)' = Unlogged(x) - (IF u = x THEN n ELSE 0)
    BY <1>0, <2>1, <2>2, <2>3, <2>4
  <2>6. e.type = "CREDIT_EXPIRATION" /\ e.src = u /\ e.dst = None /\ e.amount = n
    BY EntryColumns
  <2>7. EntryTyped(e, Len(lots))
    <3>1. /\ "CREDIT_EXPIRATION" \in EntryTypes /\ 0 \in Nat /\ DOMAIN NoLots = {}
          /\ Len(lots) \in Nat
      BY <1>0, LotFacts DEF EntryTypes, BurnTypes, NoLots
    <3> HIDE DEF u
    <3> QED
      BY <1>0, <2>2, <3>1, EntryIsTyped
  <2> HIDE DEF e, u, n
  <2>8. ASSUME NEW x \in Users
        PROVE  /\ wallets'[x].balance + Unlogged(x)' = wallets[x].balance + Unlogged(x) + Effect(e, x)
               /\ wallets'[x].balance \in Int /\ Unlogged(x)' \in Int
    <3>1. "CREDIT_EXPIRATION" \notin SaleTypes /\ None # x
      BY UsersFacts DEF SaleTypes
    <3>2. Effect(e, x) = 0 - (IF u = x THEN n ELSE 0)
      BY <2>6, <3>1 DEF Effect
    <3>3. wallets[x].balance \in Int
      BY <1>0, ColumnsRead
    <3> QED
      BY <1>0, <2>1, <2>2, <2>5, <3>2, <3>3
  <2>9. RowsTyped(ledger, Len(lots)) /\ SameEffects(ledger)
    BY SameIsSame DEF BooksTyped
  <2> QED
    BY <2>1, <2>7, <2>8, <2>9, LogKept
<1> QED
  BY <1>1, <1>2, <1>3

-----------------------------------------------------------------------------
Explained == crashes = 0 => LogBalanced
CrashesCount == crashes \in Nat

LEMMA ExplainedImplied == Explained => LogExplainsBalances
BY DEF Explained, LogBalanced, LogExplainsBalances, Replayed

LEMMA InitExplained == Init => Explained /\ CrashesCount
<1> SUFFICES ASSUME Init PROVE LogBalanced /\ crashes \in Nat
  BY DEF Explained, CrashesCount
<1>1. ASSUME NEW u \in Users PROVE wallets[u].balance = Replayed(u) - Unlogged(u)
  <2>1. Replayed(u) = 0
    BY TotalOfNone DEF Init, Replayed, Effects
  <2>2. {s \in Sweepers : sweeps[s].pc = "entry" /\ lots[sweeps[s].lot].owner = u} = {}
    BY DEF Init, Idle
  <2>3. Unlogged(u) = 0
    BY <2>2, TotalOfNone DEF Unlogged
  <2>4. wallets[u].balance = 0
    BY DEF Init, EmptyWallet
  <2> QED
    BY <2>1, <2>3, <2>4
<1> QED
  BY <1>1 DEF Init, LogBalanced

LEMMA StepExplained ==
    ASSUME Typed, Explained, CrashesCount, [Next]_vars
    PROVE  Explained' /\ CrashesCount'
<1>0. BooksTyped /\ now \in Nat /\ crashes \in Nat
  BY BoundsAssumption DEF Typed, StockTyped, CrashesCount
<1>1. ASSUME NEW u \in Users, NEW d \in Deposits, NEW k, Deposit(u, d, k)
      PROVE  Explained' /\ CrashesCount'
  BY <1>0, <1>1, DepositLogged DEF Deposit, Explained, CrashesCount
<1>2. ASSUME NEW u \in Users, NEW type \in CreditTypes, NEW row \in MintTypes, NEW g \in Grants,
             NEW k, Grant(u, type, row, g, k)
      PROVE  Explained' /\ CrashesCount'
  BY <1>0, <1>2, GrantLogged DEF Grant, Explained, CrashesCount
<1>3. ASSUME NEW type \in SaleTypes, NEW u \in Users, NEW c \in Users, NEW credits \in Nat, NEW k,
             Sale(type, u, c, credits, k)
      PROVE  Explained' /\ CrashesCount'
  <2>1. crashes' = crashes
    BY <1>3 DEF Sale
  <2> QED
    BY <1>0, <1>3, <2>1, SaleLogged DEF Explained, CrashesCount
<1>4. ASSUME NEW i \in DOMAIN ledger, Refund(i) PROVE Explained' /\ CrashesCount'
  BY <1>0, <1>4, RefundLogged DEF Refund, Explained, CrashesCount
<1>5. ASSUME NEW p \in DOMAIN payments, Chargeback(p) PROVE Explained' /\ CrashesCount'
  BY <1>0, <1>5, ChargebackLogged DEF Chargeback, Explained, CrashesCount
<1>6. ASSUME NEW s \in Sweepers, SweepFind(s) \/ SweepLot(s) \/ SweepWallet(s) \/ SweepEntry(s)
      PROVE  Explained' /\ CrashesCount'
  <2>1. crashes' = crashes
    BY <1>6 DEF SweepFind, SweepLot, SweepWallet, SweepEntry
  <2> QED
    BY <1>0, <1>6, <2>1, SweepLogged DEF Explained, CrashesCount
<1>7. ASSUME NEW s \in Sweepers, SweepCrash(s) PROVE Explained' /\ CrashesCount'
  BY <1>0, <1>7 DEF SweepCrash, Explained, CrashesCount
<1>8. CASE UNCHANGED <<wallets, lots, ledger, sweeps, crashes>>
  BY <1>8 DEF Explained, CrashesCount, LogBalanced, Replayed, Effects, Unlogged, SweptCredits
<1> QED
  BY <1>1, <1>2, <1>3, <1>4, <1>5, <1>6, <1>7, <1>8, StepCases DEF Steps

\* Until a sweep is cut short, replaying the log gives every balance, whatever is
\* refunded or charged back, also between the writes of any number of sweeps.
THEOREM LogIsComplete == Spec => []LogExplainsBalances
<1>1. Init => Typed /\ Explained /\ CrashesCount
  BY InitTyped, InitExplained
<1>2. Typed /\ Explained /\ CrashesCount /\ [Next]_vars => (Typed /\ Explained /\ CrashesCount)'
  BY StepTyped, StepExplained
<1> QED
  BY <1>1, <1>2, ExplainedImplied, PTL DEF Spec

-----------------------------------------------------------------------------
(* First expiring first *)

\* Only a sale ends the log with a row of a sale.
LEMMA LastRow ==
    ASSUME NEW n, RowsTyped(ledger, n), NEW back, RowsTyped(back, n), Len(back) = Len(ledger),
           NEW e, ledger' = Append(back, e)
    PROVE  Len(ledger') = Len(ledger) + 1 /\ ledger'[Len(ledger')] = e
<1>1. PICK S : back \in Seq(S)
  BY DEF RowsTyped
<1>2. back \in Seq(S \cup {e}) /\ e \in S \cup {e}
  BY <1>1
<1> QED
  BY <1>2, AppendProperties

LEMMA SaleSpends ==
    ASSUME BooksTyped, NEW type, type \in SaleTypes, NEW fan \in Users, NEW creator \in Users,
           NEW credits \in Nat, NEW k, Sale(type, fan, creator, credits, k)
    PROVE  ExpiringFirst
<1> DEFINE taken == Drawdown(fan, credits)
<1>1. /\ LotsTyped /\ lots' = DrawnOn(taken)
  BY DEF BooksTyped, Sale
<1>2. /\ DOMAIN taken \subseteq DOMAIN lots /\ DOMAIN taken \subseteq Available(fan)
      /\ \A l \in DOMAIN taken : taken[l] \in Nat /\ taken[l] <= lots[l].remaining
  BY <1>1, DrawdownFacts
<1>3. /\ \A l \in DOMAIN lots \ DOMAIN taken : lots'[l] = lots[l]
      /\ \A l \in DOMAIN taken : lots'[l].remaining = lots[l].remaining - taken[l]
  BY <1>1, <1>2, DrawnOnFacts
<1>4. \A l \in DOMAIN taken, m \in Available(fan) :
          DrawnBefore(m, l) => m \in DOMAIN taken /\ taken[m] = lots[m].remaining
  BY <1>1, EmptiesInOrder
<1> HIDE DEF taken
<1> SUFFICES ASSUME NEW l \in DOMAIN lots, NEW m \in DOMAIN lots,
                    lots'[l].remaining < lots[l].remaining,
                    lots[m].owner = lots[l].owner, lots[m].status = "ACTIVE", Unexpired(m),
                    \/ /\ lots[m].expires # Never
                       /\ lots[l].expires = Never \/ lots[m].expires < lots[l].expires
                    \/ /\ lots[m].expires = lots[l].expires
                       /\ lots[m].type # "PURCHASED" /\ lots[l].type = "PURCHASED"
             PROVE  lots'[m].remaining = 0
  BY DEF ExpiringFirst
<1>5. /\ lots[l].remaining \in Nat /\ lots[m].remaining \in Nat
      /\ lots[l].type \in CreditTypes /\ lots[m].type \in CreditTypes
      /\ lots[l].expires \in Int /\ lots[m].expires \in Int
  BY <1>1, LotFacts DEF LotRow
<1>6. l \in DOMAIN taken
  <2>1. CASE l \notin DOMAIN taken
    BY <1>3, <1>5, <2>1
  <2> QED
    BY <2>1
<1>7. lots[l].owner = fan
  BY <1>2, <1>6 DEF Available
<1>8. CASE lots[m].remaining = 0
  <2>1. m \notin Available(fan)
    BY <1>8 DEF Available
  <2> QED
    BY <1>2, <1>3, <1>8, <2>1
<1>9. CASE lots[m].remaining > 0
  <2>1. m \in Available(fan)
    BY <1>7, <1>9 DEF Available
  <2>2. lots[m].type # "PURCHASED" /\ lots[l].type = "PURCHASED"
          => Priority(lots[m].type) < Priority(lots[l].type)
    BY <1>5 DEF CreditTypes, Priority
  <2>3. DrawnBefore(m, l)
    BY <1>5, <2>2, NeverIsInt DEF DrawnBefore
  <2>4. m \in DOMAIN taken /\ taken[m] = lots[m].remaining
    BY <1>4, <1>6, <2>1, <2>3
  <2> QED
    BY <1>3, <1>5, <2>4
<1> QED
  BY <1>5, <1>8, <1>9

\* No purchase leaves a credit behind that expires earlier than one it takes, or
\* takes a purchased credit while a promotional or bonus one of the same term is
\* left, whatever lots refunds have refilled before.
THEOREM SpendingIsOrdered == Spec => SpendsExpiringFirst
<1>1. ASSUME Typed, [Next]_vars PROVE [ExpiringFirst]_vars
  <2>0. BooksTyped /\ RowsTyped(ledger, Len(lots)) /\ now \in Nat
    BY BoundsAssumption, <1>1 DEF Typed, StockTyped, BooksTyped
  <2>1. ASSUME NEW back, RowsTyped(back, Len(lots)), Len(back) = Len(ledger),
               NEW e, ledger' = Append(back, e), e.type \notin SaleTypes
        PROVE  ExpiringFirst
    <3>1. ledger'[Len(ledger')] = e
      BY <2>0, <2>1, LastRow
    <3> QED
      BY <2>1, <3>1 DEF ExpiringFirst
  <2>2. ASSUME NEW u \in Users, NEW d \in Deposits, NEW k, Deposit(u, d, k) PROVE ExpiringFirst
    <3>1. ledger' = Append(ledger, MintedRow(u, d, k)) /\ MintedRow(u, d, k).type \notin SaleTypes
      BY <2>2 DEF Deposit, MintedRow, Entry, SaleTypes
    <3> QED
      BY <2>0, <2>1, <3>1
  <2>3. ASSUME NEW u \in Users, NEW type \in CreditTypes, NEW row \in MintTypes, NEW g \in Grants,
               NEW k, Grant(u, type, row, g, k)
        PROVE  ExpiringFirst
    <3>1. \E e : ledger' = Append(ledger, e) /\ e.type \notin SaleTypes
      BY <2>3 DEF Grant, Entry, SaleTypes, MintTypes
    <3> QED
      BY <2>0, <2>1, <3>1
  <2>4. ASSUME NEW type \in SaleTypes, NEW u \in Users, NEW c \in Users, NEW credits \in Nat, NEW k,
               Sale(type, u, c, credits, k)
        PROVE  ExpiringFirst
    BY <2>0, <2>4, SaleSpends
  <2>5. ASSUME NEW i \in DOMAIN ledger, Refund(i) PROVE ExpiringFirst
    <3>1. \E e : ledger' = Append(Reversed(i), e) /\ e.type \notin SaleTypes
      BY <2>5 DEF Refund, Entry, SaleTypes
    <3>2. RowsTyped(Reversed(i), Len(lots)) /\ Len(Reversed(i)) = Len(ledger)
      BY <2>0, ReversedFacts
    <3> QED
      BY <2>1, <3>1, <3>2
  <2>6. ASSUME NEW p \in DOMAIN payments, Chargeback(p) PROVE ExpiringFirst
    <3> DEFINE u == payments[p].owner
               n == payments[p].credits + payments[p].bonus
               e == Entry("CHARGEBACK_REVERSAL", u, None, n, 0, None, p, NoLots)
    <3>1. ledger' = Append(ledger, e)
      BY <2>6 DEF Chargeback
    <3>2. e.type \notin SaleTypes
      BY EntryColumns DEF SaleTypes
    <3> HIDE DEF e
    <3> QED
      BY <2>0, <2>1, <3>1, <3>2
  <2>7. ASSUME NEW s \in Sweepers, SweepEntry(s) PROVE ExpiringFirst
    <3>1. \E e : ledger' = Append(ledger, e) /\ e.type \notin SaleTypes
      BY <2>7 DEF SweepEntry, Entry, SaleTypes
    <3> QED
      BY <2>0, <2>1, <3>1
  <2>8. CASE ledger' = ledger
    <3>1. ~(Len(ledger') > Len(ledger))
      <4>1. Len(ledger) \in Nat
        BY <2>0, AppendFacts DEF RowsTyped
      <4> QED
        BY <2>8, <4>1
    <3> QED
      BY <3>1 DEF ExpiringFirst
  <2> QED
    BY <1>1, <2>2, <2>3, <2>4, <2>5, <2>6, <2>7, <2>8, StepCases
       DEF Steps, SweepFind, SweepLot, SweepWallet, SweepCrash
<1> QED
  BY <1>1, InitTyped, StepTyped, PTL DEF Spec, SpendsExpiringFirst

-----------------------------------------------------------------------------
(* Who stands on a row of the log *)

Sided(e) ==
    /\ e.type \in MintTypes => e.src = None /\ e.dst \in Users
    /\ e.type \in BurnTypes => e.src \in Users /\ e.dst = None
    /\ e.type \in SaleTypes \cup {"REFUND"} => e.src \in Users /\ e.dst \in Users

\* A row of anything but a refund
Fresh(e, n) ==
    EntryTyped(e, n) /\ Sided(e) /\ e.status = "COMPLETED" /\ e.type # "REFUND"

LEMMA TypesApart ==
    /\ \A t \in MintTypes : t \notin BurnTypes /\ t \notin SaleTypes /\ t # "REFUND"
    /\ \A t \in BurnTypes : t \notin MintTypes /\ t \notin SaleTypes /\ t # "REFUND"
    /\ \A t \in SaleTypes : t \notin MintTypes /\ t \notin BurnTypes /\ t # "REFUND"
    /\ "REFUND" \notin MintTypes /\ "REFUND" \notin BurnTypes /\ "REFUND" \notin SaleTypes
    /\ "CREDIT_EXPIRATION" \in BurnTypes /\ "CHARGEBACK_REVERSAL" \in BurnTypes
    /\ "DEPOSIT" \in MintTypes
    /\ \A t \in EntryTypes : t \in MintTypes \/ t \in BurnTypes \/ t \in SaleTypes \/ t = "REFUND"
BY DEF MintTypes, BurnTypes, SaleTypes, EntryTypes

LEMMA LogSteps ==
    ASSUME Typed, [Next]_vars
    PROVE  \/ ledger' = ledger
           \/ \E e : ledger' = Append(ledger, e) /\ Fresh(e, Len(lots'))
           \/ \E i \in DOMAIN ledger : Refund(i)
<1> DEFINE New == \E e : ledger' = Append(ledger, e) /\ Fresh(e, Len(lots'))
<1>0. /\ BooksTyped /\ now \in Nat
      /\ BooksTyped' /\ Len(lots') \in Nat
  BY BoundsAssumption, StepTyped, LotFacts DEF Typed, StockTyped, BooksTyped, LotsTyped
<1>1. ASSUME NEW u \in Users, NEW d \in Deposits, NEW k, Deposit(u, d, k) PROVE New
  <2> DEFINE e == MintedRow(u, d, k)
  <2>1. ledger' = Append(ledger, e)
    BY <1>1 DEF Deposit, MintedRow
  <2>2. EntryTyped(e, Len(lots'))
    BY <1>0, <1>1, DepositFacts
  <2>3. e.type = "DEPOSIT" /\ e.src = None /\ e.dst = u /\ e.status = "COMPLETED"
    BY EntryColumns DEF MintedRow
  <2> HIDE DEF e
  <2>4. Fresh(e, Len(lots'))
    BY <2>2, <2>3, TypesApart DEF Fresh, Sided
  <2> QED
    BY <2>1, <2>4
<1>2. ASSUME NEW u \in Users, NEW type \in CreditTypes, NEW row \in MintTypes, NEW g \in Grants,
             NEW k, Grant(u, type, row, g, k)
      PROVE  New
  <2> DEFINE e == Entry(row, None, u, g[1], 0, k, Len(lots) + 1, NoLots)
  <2>1. ledger' = Append(ledger, e)
    BY <1>2 DEF Grant
  <2>2. EntryTyped(e, Len(lots'))
    BY <1>0, <1>2, GrantFacts
  <2>3. e.type = row /\ e.src = None /\ e.dst = u /\ e.status = "COMPLETED"
    BY EntryColumns
  <2> HIDE DEF e
  <2>4. Fresh(e, Len(lots'))
    BY <2>2, <2>3, TypesApart DEF Fresh, Sided
  <2> QED
    BY <2>1, <2>4
<1>3. ASSUME NEW type \in SaleTypes, NEW u \in Users, NEW c \in Users, NEW credits \in Nat, NEW k,
             Sale(type, u, c, credits, k)
      PROVE  New
  <2> DEFINE e == Entry(type, u, c, credits, credits - PlatformFee(credits), k, 0, Drawdown(u, credits))
  <2>1. ledger' = Append(ledger, e) /\ EntryTyped(e, Len(lots)) /\ SameLots(lots')
    BY <1>0, <1>3, SaleFacts
  <2>2. Len(lots') = Len(lots)
    BY <2>1 DEF SameLots
  <2>3. e.type = type /\ e.src = u /\ e.dst = c /\ e.status = "COMPLETED"
    BY EntryColumns
  <2> HIDE DEF e
  <2>4. Fresh(e, Len(lots'))
    BY <2>1, <2>2, <2>3, TypesApart DEF Fresh, Sided
  <2> QED
    BY <2>1, <2>4
<1>4. ASSUME NEW p \in DOMAIN payments, Chargeback(p) PROVE New
  <2> DEFINE u == payments[p].owner
             n == payments[p].credits + payments[p].bonus
             e == Entry("CHARGEBACK_REVERSAL", u, None, n, 0, None, p, NoLots)
  <2>1. ledger' = Append(ledger, e) /\ EntryTyped(e, Len(lots)) /\ SameLots(lots') /\ u \in Users
    BY <1>0, <1>4, ChargebackFacts
  <2>2. Len(lots') = Len(lots)
    BY <2>1 DEF SameLots
  <2>3. e.type = "CHARGEBACK_REVERSAL" /\ e.src = u /\ e.dst = None /\ e.status = "COMPLETED"
    BY EntryColumns
  <2> HIDE DEF e, u
  <2>4. Fresh(e, Len(lots'))
    BY <2>1, <2>2, <2>3, TypesApart DEF Fresh, Sided
  <2> QED
    BY <2>1, <2>4
<1>5. ASSUME NEW s \in Sweepers, SweepEntry(s) PROVE New
  <2> DEFINE u == lots[sweeps[s].lot].owner
             e == Entry("CREDIT_EXPIRATION", u, None, sweeps[s].credits, 0, None, sweeps[s].lot, NoLots)
  <2>1. ledger' = Append(ledger, e) /\ lots' = lots /\ sweeps[s].pc = "entry"
    BY <1>5 DEF SweepEntry, Logged
  <2>2. sweeps[s].lot \in DOMAIN lots /\ sweeps[s].credits \in Nat /\ sweeps[s].lot \in Nat
    BY <1>0, <2>1, SweepRead
  <2>3. u \in Users
    BY <1>0, <2>2, LotFacts DEF LotRow, BooksTyped
  <2>4. EntryTyped(e, Len(lots))
    <3>1. /\ "CREDIT_EXPIRATION" \in EntryTypes /\ 0 \in Nat /\ DOMAIN NoLots = {}
          /\ Len(lots) \in Nat
      BY <1>0, <2>1 DEF EntryTypes, BurnTypes, NoLots
    <3> HIDE DEF u
    <3> QED
      BY <2>2, <2>3, <3>1, EntryIsTyped
  <2>5. e.type = "CREDIT_EXPIRATION" /\ e.src = u /\ e.dst = None /\ e.status = "COMPLETED"
    BY EntryColumns
  <2> HIDE DEF e, u
  <2>6. Fresh(e, Len(lots'))
    BY <2>1, <2>3, <2>4, <2>5, TypesApart DEF Fresh, Sided
  <2> QED
    BY <2>1, <2>6
<1> QED
  BY <1>1, <1>2, <1>3, <1>4, <1>5, StepCases DEF Steps, SweepFind, SweepLot, SweepWallet, SweepCrash

\* A log with a new row
LEMMA NewRow ==
    ASSUME NEW n, RowsTyped(ledger, n), NEW back, RowsTyped(back, n), DOMAIN back = DOMAIN ledger,
           Len(back) = Len(ledger), NEW e, ledger' = Append(back, e)
    PROVE  LET k == Len(ledger) + 1
           IN  /\ k \in Nat /\ k \notin DOMAIN ledger /\ IsFiniteSet(DOMAIN ledger)
               /\ DOMAIN ledger = 1 .. Len(ledger) /\ DOMAIN ledger' = DOMAIN ledger \cup {k}
               /\ ledger'[k] = e /\ \A i \in DOMAIN ledger : ledger'[i] = back[i]
<1>1. DOMAIN ledger = 1 .. Len(ledger) /\ Len(ledger) \in Nat
  BY AppendFacts DEF RowsTyped
<1>2. /\ DOMAIN ledger' = 1 .. (Len(back) + 1) /\ ledger'[Len(back) + 1] = e
      /\ \A i \in DOMAIN back : ledger'[i] = back[i]
  BY AppendFacts DEF RowsTyped
<1>3. IsFiniteSet(DOMAIN ledger)
  BY <1>1, FS_Interval
<1> QED
  BY <1>1, <1>2, <1>3

LogSided == \A i \in DOMAIN ledger : Sided(ledger[i])

\* When only sales are refunded, a refund stands between the same two users.
LEMMA StepSided ==
    ASSUME Typed, [Next]_vars, RefundTypes \subseteq SaleTypes, LogSided
    PROVE  LogSided'
<1>0. BooksTyped /\ RowsTyped(ledger, Len(lots))
  BY DEF Typed, BooksTyped
<1>1. ASSUME NEW e, ledger' = Append(ledger, e), Fresh(e, Len(lots')) PROVE LogSided'
  BY <1>0, <1>1, NewRow DEF LogSided, Fresh
<1>2. ASSUME NEW i \in DOMAIN ledger, Refund(i) PROVE LogSided'
  <2> DEFINE o == ledger[i]
             e == Entry("REFUND", o.dst, o.src, o.amount, o.net, None, i, NoLots)
             back == Reversed(i)
  <2>1. ledger' = Append(back, e) /\ o.type \in SaleTypes
    BY <1>2 DEF Refund
  <2>2. o.src \in Users /\ o.dst \in Users
    BY <2>1 DEF LogSided, Sided
  <2>3. e.type = "REFUND" /\ e.src = o.dst /\ e.dst = o.src
    BY EntryColumns
  <2>4. RowsTyped(back, Len(lots)) /\ DOMAIN back = DOMAIN ledger /\ Len(back) = Len(ledger)
        /\ \A j \in DOMAIN ledger : /\ back[j].type = ledger[j].type
                                    /\ back[j].src = ledger[j].src /\ back[j].dst = ledger[j].dst
    BY <1>0, ReversedFacts
  <2> HIDE DEF e, o, back
  <2>5. Sided(e)
    BY <2>2, <2>3, TypesApart DEF Sided
  <2>6. /\ DOMAIN ledger' = DOMAIN ledger \cup {Len(ledger) + 1}
        /\ ledger'[Len(ledger) + 1] = e /\ \A j \in DOMAIN ledger : ledger'[j] = back[j]
    BY <1>0, <2>1, <2>4, NewRow
  <2>7. \A j \in DOMAIN ledger : Sided(back[j])
    BY <2>4 DEF LogSided, Sided
  <2> QED
    BY <2>5, <2>6, <2>7 DEF LogSided
<1>3. CASE ledger' = ledger
  BY <1>3 DEF LogSided
<1> QED
  BY <1>1, <1>2, <1>3, LogSteps

\* The sum over some rows is a sum over all rows.
LEMMA TotalMasked ==
    ASSUME NEW D, IsFiniteSet(D), NEW S, S \subseteq D, NEW f, \A x \in D : f[x] \in Int,
           NEW g, \A x \in D : g[x] = IF x \in S THEN f[x] ELSE 0
    PROVE  Total(f, S) = Total(g, D) /\ Total(f, S) \in Int
<1>1. IsFiniteSet(S)
  BY FS_Subset
<1>2. Total(g, D) = Total(g, S)
  <2>1. \A x \in D : g[x] \in Int
    OBVIOUS
  <2>2. \A x \in D \ S : g[x] = 0
    OBVIOUS
  <2> QED
    BY <2>1, <2>2, TotalOfRest
<1>3. Total(g, S) = Total(f, S)
  BY <1>1, TotalAgrees
<1>4. Total(f, S) \in Int
  BY <1>1, TotalIsInt
<1> QED
  BY <1>2, <1>3, <1>4

-----------------------------------------------------------------------------
(* reconcileWallet, where nothing is refunded *)

NoRefunds == \A i \in DOMAIN ledger : ledger[i].status = "COMPLETED" /\ ledger[i].type # "REFUND"

LEMMA StepUnrefunded ==
    ASSUME Typed, [Next]_vars, RefundTypes = {}, NoRefunds
    PROVE  NoRefunds'
<1>0. RowsTyped(ledger, Len(lots))
  BY DEF Typed, BooksTyped
<1>1. ASSUME NEW e, ledger' = Append(ledger, e), Fresh(e, Len(lots')) PROVE NoRefunds'
  BY <1>0, <1>1, NewRow DEF NoRefunds, Fresh
<1>2. ~ \E i \in DOMAIN ledger : Refund(i)
  BY DEF Refund
<1>3. CASE ledger' = ledger
  BY <1>3 DEF NoRefunds
<1> QED
  BY <1>1, <1>2, <1>3, LogSteps

\* What reconcileWallet adds up, row by row, is what the log replays.
LEMMA CalculatedIsReplayed ==
    ASSUME BooksTyped, LogSided, NoRefunds, NEW u \in Users
    PROVE  CalculatedBalance(u) = Replayed(u)
<1> DEFINE D == DOMAIN ledger
           In == {i \in {j \in Rows(MintTypes \cup {"REFUND"}) : ledger[j].status = "COMPLETED"} :
                    ledger[i].dst = u}
           Net == {i \in {j \in Rows(SaleTypes) : ledger[j].status = "COMPLETED"} : ledger[i].dst = u}
           Out == {i \in {j \in Rows(SaleTypes \cup BurnTypes) : ledger[j].status = "COMPLETED"} :
                    ledger[i].src = u}
           a == [i \in D |-> IF i \in In THEN Amounts[i] ELSE 0]
           b == [i \in D |-> IF i \in Net THEN Nets[i] ELSE 0]
           c == [i \in D |-> IF i \in Out THEN Amounts[i] ELSE 0]
           f == Effects(u)
           g == [i \in D |-> a[i] + b[i]]
<1>1. CalculatedBalance(u) = Total(Amounts, In) + Total(Nets, Net) - Total(Amounts, Out)
  BY DEF CalculatedBalance, SumAmount
<1>2. IsFiniteSet(D) /\ Replayed(u) \in Int /\ Replayed(u) = Total(f, D)
  BY ReplayedIsInt DEF BooksTyped, Replayed
<1>3. \A i \in D :
         /\ EntryTyped(ledger[i], Len(lots)) /\ Sided(ledger[i])
         /\ ledger[i].type \in EntryTypes /\ ledger[i].amount \in Nat /\ ledger[i].net \in Nat
         /\ Amounts[i] = ledger[i].amount /\ Nets[i] = ledger[i].net
         /\ f[i] = Effect(ledger[i], u) /\ f[i] \in Int
  BY EffectIsInt DEF BooksTyped, RowsTyped, EntryTyped, LogSided, Amounts, Nets, Effects
<1>4. In \subseteq D /\ Net \subseteq D /\ Out \subseteq D
  BY DEF Rows
<1>5. \A i \in D : /\ i \in In <=> ledger[i].type \in MintTypes /\ ledger[i].dst = u
                   /\ i \in Net <=> ledger[i].type \in SaleTypes /\ ledger[i].dst = u
                   /\ i \in Out <=> ledger[i].type \in SaleTypes \cup BurnTypes /\ ledger[i].src = u
  BY DEF Rows, NoRefunds
<1>6. /\ \A i \in D : a[i] = IF i \in In THEN Amounts[i] ELSE 0
      /\ \A i \in D : b[i] = IF i \in Net THEN Nets[i] ELSE 0
      /\ \A i \in D : c[i] = IF i \in Out THEN Amounts[i] ELSE 0
      /\ \A i \in D : g[i] = a[i] + b[i]
  OBVIOUS
<1> HIDE DEF In, Net, Out, a, b, c, f, g
<1>7. \A i \in D : a[i] \in Int /\ b[i] \in Int /\ c[i] \in Int /\ g[i] = f[i] + c[i]
  <2>1. ASSUME NEW i \in D PROVE a[i] \in Int /\ b[i] \in Int /\ c[i] \in Int /\ g[i] = f[i] + c[i]
    <3> DEFINE e == ledger[i]
    <3>1. /\ e.amount \in Nat /\ e.net \in Nat /\ f[i] = Effect(e, u) /\ g[i] = a[i] + b[i]
          /\ a[i] = (IF e.type \in MintTypes /\ e.dst = u THEN e.amount ELSE 0)
          /\ b[i] = (IF e.type \in SaleTypes /\ e.dst = u THEN e.net ELSE 0)
          /\ c[i] = (IF e.type \in SaleTypes \cup BurnTypes /\ e.src = u THEN e.amount ELSE 0)
      BY <1>3, <1>5, <1>6
    <3>2. e.type \in MintTypes \/ e.type \in BurnTypes \/ e.type \in SaleTypes
      BY <1>3, TypesApart DEF NoRefunds
    <3>3. Sided(e) /\ u # None
      BY <1>3, UsersFacts
    <3> HIDE DEF e
    <3>4. CASE e.type \in MintTypes
      BY <3>1, <3>3, <3>4, TypesApart DEF Effect, Sided
    <3>5. CASE e.type \in BurnTypes
      BY <3>1, <3>3, <3>5, TypesApart DEF Effect, Sided
    <3>6. CASE e.type \in SaleTypes
      BY <3>1, <3>3, <3>6, TypesApart DEF Effect
    <3> QED
      BY <3>2, <3>4, <3>5, <3>6
  <2> QED
    BY <2>1
<1>8. /\ Total(Amounts, In) = Total(a, D) /\ Total(Amounts, In) \in Int
      /\ Total(Nets, Net) = Total(b, D) /\ Total(Nets, Net) \in Int
      /\ Total(Amounts, Out) = Total(c, D) /\ Total(Amounts, Out) \in Int
  <2>1. \A i \in D : Amounts[i] \in Int /\ Nets[i] \in Int
    BY <1>3
  <2>2. Total(Amounts, In) = Total(a, D) /\ Total(Amounts, In) \in Int
    BY <1>2, <1>4, <1>6, <2>1, TotalMasked
  <2>3. Total(Nets, Net) = Total(b, D) /\ Total(Nets, Net) \in Int
    BY <1>2, <1>4, <1>6, <2>1, TotalMasked
  <2>4. Total(Amounts, Out) = Total(c, D) /\ Total(Amounts, Out) \in Int
    BY <1>2, <1>4, <1>6, <2>1, TotalMasked
  <2> QED
    BY <2>2, <2>3, <2>4
<1>9. Total(g, D) = Total(a, D) + Total(b, D)
  BY <1>2, <1>6, <1>7, TotalAdds
<1>10. Total(g, D) = Total(f, D) + Total(c, D)
  BY <1>2, <1>3, <1>7, TotalAdds
<1> DEFINE x == Total(a, D)
           y == Total(b, D)
           z == Total(c, D)
           w == Total(f, D)
<1>11. x + y = w + z /\ x \in Int /\ y \in Int /\ z \in Int /\ w \in Int
  BY <1>2, <1>8, <1>9, <1>10
<1>12. CalculatedBalance(u) = x + y - z /\ Replayed(u) = w
  BY <1>1, <1>2, <1>8
<1> HIDE DEF x, y, z, w
<1> QED
  BY <1>11, <1>12

\* Where nothing is refunded, reconcileWallet reports isConsistent for every
\* wallet between any number of sweeps that came to their end.
THEOREM WalletsReconcile ==
    ASSUME RefundTypes = {}
    PROVE  Spec => []ReconcilesBalances
<1> DEFINE IInv == Typed /\ Explained /\ CrashesCount /\ LogSided /\ NoRefunds
<1>1. Init => IInv
  BY InitTyped, InitExplained DEF Init, LogSided, NoRefunds
<1>2. IInv /\ [Next]_vars => IInv'
  BY StepTyped, StepExplained, StepSided, StepUnrefunded
<1>3. ASSUME IInv PROVE ReconcilesBalances
  <2> SUFFICES ASSUME crashes = 0, \A s \in Sweepers : sweeps[s].pc = "idle", NEW u \in Users
               PROVE  wallets[u].balance = CalculatedBalance(u)
    BY DEF ReconcilesBalances
  <2>1. BooksTyped /\ LogBalanced
    BY <1>3 DEF Typed, Explained
  <2>2. {s \in Sweepers : sweeps[s].pc = "entry" /\ lots[sweeps[s].lot].owner = u} = {}
    OBVIOUS
  <2>3. Unlogged(u) = 0
    BY <2>2, TotalOfNone DEF Unlogged
  <2>4. Replayed(u) \in Int /\ CalculatedBalance(u) = Replayed(u)
    BY <1>3, <2>1, ReplayedIsInt, CalculatedIsReplayed DEF BooksTyped
  <2> QED
    BY <2>1, <2>3, <2>4 DEF LogBalanced
<1> HIDE DEF IInv
<1> QED
  BY <1>1, <1>2, <1>3, PTL DEF Spec

-----------------------------------------------------------------------------
(* Credits are conserved *)

\* What a row stands for in the sum of all balances, once refunds are done
Weight(e) ==
    IF e.type \in MintTypes THEN e.amount
    ELSE IF e.type \in BurnTypes THEN -e.amount
    ELSE IF e.type \in SaleTypes /\ e.status = "COMPLETED" THEN e.net - e.amount ELSE 0

Weights == [i \in DOMAIN ledger |-> Weight(ledger[i])]
Weighed == Total(Weights, DOMAIN ledger)
AllReplayed == Total([u \in Users |-> Replayed(u)], Users)
Conserved == AllReplayed = Weighed

LEMMA WeightIsInt ==
    ASSUME NEW e, NEW n, EntryTyped(e, n)
    PROVE  Weight(e) \in Int
BY DEF EntryTyped, Weight

\* A sum over the users that counts one of them, or nobody
LEMMA TotalOfPoint ==
    ASSUME NEW a, a \in Users \cup {None}, NEW n, n \in Int,
           NEW f, \A x \in Users : f[x] = IF x = a THEN n ELSE 0
    PROVE  Total(f, Users) = IF a = None THEN 0 ELSE n
<1>0. IsFiniteSet(Users) /\ None \notin Users
  BY FinitenessAssumption, UsersFacts
<1>1. CASE a \in Users
  <2>1. \A x \in Users : f[x] \in Int
    OBVIOUS
  <2>2. Total(f, Users) = f[a] + Total(f, Users \ {a})
    BY <1>0, <1>1, <2>1, TotalWithout
  <2>3. Total(f, Users \ {a}) = 0
    <3>1. IsFiniteSet(Users \ {a})
      BY <1>0, FS_RemoveElement
    <3>2. \A x \in Users \ {a} : f[x] = 0
      OBVIOUS
    <3>3. Total(f, Users \ {a}) = Total(f, {})
      BY <3>1, <3>2, TotalOfRest
    <3> QED
      BY <3>3, TotalOfNone
  <2> QED
    BY <1>0, <1>1, <2>2, <2>3
<1>2. CASE a = None
  <2>1. \A x \in Users : f[x] = 0
    BY <1>0, <1>2
  <2>2. Total(f, Users) = Total(f, {})
    BY <1>0, <2>1, TotalOfRest
  <2> QED
    BY <1>2, <2>2, TotalOfNone
<1> QED
  BY <1>1, <1>2

\* What a row does to all balances together
LEMMA EffectOnAll ==
    ASSUME NEW e, NEW n, EntryTyped(e, n), Sided(e)
    PROVE  Total([u \in Users |-> Effect(e, u)], Users)
             = IF e.type = "REFUND" THEN e.amount - e.net
               ELSE IF e.type \in SaleTypes THEN e.net - e.amount
               ELSE IF e.type \in MintTypes THEN e.amount ELSE -e.amount
<1> DEFINE p == IF e.type \in SaleTypes THEN e.net ELSE e.amount
           q == IF e.type = "REFUND" THEN e.net ELSE e.amount
           f == [u \in Users |-> IF u = e.dst THEN p ELSE 0]
           g == [u \in Users |-> Effect(e, u)]
           h == [u \in Users |-> IF u = e.src THEN q ELSE 0]
<1>1. /\ p \in Nat /\ q \in Nat /\ e.amount \in Nat /\ e.net \in Nat
      /\ e.dst \in Users \cup {None} /\ e.src \in Users \cup {None} /\ e.type \in EntryTypes
  BY DEF EntryTyped
<1>2. ASSUME NEW u \in Users
      PROVE  /\ f[u] = IF u = e.dst THEN p ELSE 0
             /\ h[u] = IF u = e.src THEN q ELSE 0
             /\ g[u] \in Int /\ f[u] \in Int /\ h[u] \in Int /\ f[u] = g[u] + h[u]
  <2>1. Effect(e, u) = (IF e.dst = u THEN p ELSE 0) - (IF e.src = u THEN q ELSE 0)
    BY TypesApart DEF Effect
  <2>2. g[u] = Effect(e, u) /\ f[u] = (IF u = e.dst THEN p ELSE 0)
        /\ h[u] = (IF u = e.src THEN q ELSE 0)
    OBVIOUS
  <2> HIDE DEF f, g, h, p, q
  <2> QED
    BY <1>1, <2>1, <2>2
<1> HIDE DEF f, g, h, p, q
<1>3. Total(f, Users) = (IF e.dst = None THEN 0 ELSE p) /\ Total(h, Users) = (IF e.src = None THEN 0 ELSE q)
  <2> DEFINE a == e.dst
             b == e.src
  <2>1. a \in Users \cup {None} /\ b \in Users \cup {None} /\ p \in Int /\ q \in Int
    BY <1>1
  <2>2. (\A x \in Users : f[x] = IF x = a THEN p ELSE 0) /\ (\A x \in Users : h[x] = IF x = b THEN q ELSE 0)
    BY <1>2
  <2> HIDE DEF a, b
  <2>3. Total(f, Users) = IF a = None THEN 0 ELSE p
    BY <2>1, <2>2, TotalOfPoint
  <2>4. Total(h, Users) = IF b = None THEN 0 ELSE q
    BY <2>1, <2>2, TotalOfPoint
  <2> QED
    BY <2>3, <2>4 DEF a, b
<1>4. Total(f, Users) = Total(g, Users) + Total(h, Users) /\ Total(g, Users) \in Int
  BY <1>2, FinitenessAssumption, TotalAdds, TotalIsInt
<1> DEFINE t == Total(g, Users)
<1>5. /\ (IF e.dst = None THEN 0 ELSE p) = t + (IF e.src = None THEN 0 ELSE q) /\ t \in Int
  BY <1>3, <1>4
<1> HIDE DEF t
<1>6. t = IF e.type = "REFUND" THEN e.amount - e.net
          ELSE IF e.type \in SaleTypes THEN e.net - e.amount
          ELSE IF e.type \in MintTypes THEN e.amount ELSE -e.amount
  <2>1. e.type \in MintTypes => e.src = None /\ e.dst # None
    BY UsersFacts DEF Sided
  <2>2. e.type \in BurnTypes => e.src # None /\ e.dst = None
    BY UsersFacts DEF Sided
  <2>3. e.type \in SaleTypes \cup {"REFUND"} => e.src # None /\ e.dst # None
    BY UsersFacts DEF Sided
  <2>4. CASE e.type \in MintTypes
    BY <1>1, <1>5, <2>1, <2>4, TypesApart DEF p, q
  <2>5. CASE e.type \in BurnTypes
    BY <1>1, <1>5, <2>2, <2>5, TypesApart DEF p, q
  <2>6. CASE e.type \in SaleTypes
    BY <1>1, <1>5, <2>3, <2>6, TypesApart DEF p, q
  <2>7. CASE e.type = "REFUND"
    BY <1>1, <1>5, <2>3, <2>7, TypesApart DEF p, q
  <2> QED
    BY <1>1, <2>4, <2>5, <2>6, <2>7, TypesApart
<1> QED
  BY <1>6 DEF t, g

\* All balances together after a row is added
LEMMA AllGrows ==
    ASSUME NEW n, RowsTyped(ledger, n), NEW back, RowsTyped(back, n), SameEffects(back),
           NEW e, NEW m, EntryTyped(e, m), ledger' = Append(back, e)
    PROVE  AllReplayed' = AllReplayed + Total([u \in Users |-> Effect(e, u)], Users)
<1> DEFINE f == [u \in Users |-> Replayed(u)]
           g == [u \in Users |-> Effect(e, u)]
           h == [u \in Users |-> Replayed(u)']
<1>1. \A u \in Users : f[u] \in Int /\ g[u] \in Int /\ h[u] = f[u] + g[u]
  BY LogGrows
<1>2. AllReplayed' = Total(h, Users) /\ AllReplayed = Total(f, Users)
  BY DEF AllReplayed
<1> HIDE DEF f, g, h
<1>3. Total(h, Users) = Total(f, Users) + Total(g, Users)
  BY <1>1, FinitenessAssumption, TotalAdds
<1> QED
  BY <1>2, <1>3 DEF g

LEMMA WeighedGrows ==
    ASSUME NEW n, RowsTyped(ledger, n), NEW back, RowsTyped(back, n), DOMAIN back = DOMAIN ledger,
           Len(back) = Len(ledger), NEW e, NEW m, EntryTyped(e, m), ledger' = Append(back, e)
    PROVE  Weighed' = Total([i \in DOMAIN ledger |-> Weight(back[i])], DOMAIN ledger) + Weight(e)
<1> DEFINE D == DOMAIN ledger
           k == Len(ledger) + 1
           f == [i \in D |-> Weight(back[i])]
           g == [i \in DOMAIN ledger' |-> Weight(ledger'[i])]
<1>1. /\ k \notin D /\ IsFiniteSet(D) /\ DOMAIN ledger' = D \cup {k}
      /\ ledger'[k] = e /\ \A i \in D : ledger'[i] = back[i]
  BY NewRow
<1>2. \A i \in D : f[i] \in Int
  BY WeightIsInt DEF RowsTyped
<1>3. Weight(e) \in Int
  BY WeightIsInt
<1> HIDE DEF k
<1>4. g[k] = Weight(e) /\ \A i \in D : g[i] = f[i]
  BY <1>1
<1>5. Weighed' = Total(g, D \cup {k})
  BY <1>1 DEF Weighed, Weights
<1> HIDE DEF f, g, D
<1>6. Total(g, D \cup {k}) = Total(g, D) + g[k]
  <2>1. \A y \in D \cup {k} : g[y] \in Int
    BY <1>2, <1>3, <1>4
  <2> QED
    BY <1>1, <2>1, TotalWith
<1>7. Total(g, D) = Total(f, D)
  BY <1>1, <1>4, TotalAgrees
<1>8. Weighed' = Total(f, D) + Weight(e)
  BY <1>4, <1>5, <1>6, <1>7
<1> QED
  BY <1>8 DEF f, D

LEMMA WeighedFacts ==
    ASSUME NEW n, RowsTyped(ledger, n)
    PROVE  /\ IsFiniteSet(DOMAIN ledger) /\ Weighed \in Int /\ AllReplayed \in Int
           /\ \A i \in DOMAIN ledger : Weights[i] = Weight(ledger[i]) /\ Weights[i] \in Int
<1>1. IsFiniteSet(DOMAIN ledger) /\ \A u : Replayed(u) \in Int
  BY ReplayedIsInt
<1>2. \A i \in DOMAIN ledger : Weights[i] = Weight(ledger[i]) /\ Weights[i] \in Int
  BY WeightIsInt DEF Weights, RowsTyped
<1>3. Weighed \in Int
  BY <1>1, <1>2, TotalIsInt DEF Weighed
<1>4. AllReplayed \in Int
  <2> DEFINE f == [u \in Users |-> Replayed(u)]
  <2>1. \A u \in Users : f[u] \in Int
    BY <1>1
  <2> HIDE DEF f
  <2>2. Total(f, Users) \in Int
    BY <2>1, FinitenessAssumption, TotalIsInt
  <2> QED
    BY <2>2 DEF f, AllReplayed
<1> QED
  BY <1>1, <1>2, <1>3, <1>4

\* Whatever row is added, all balances move by what the rows stand for.
LEMMA StepConserved ==
    ASSUME Typed, [Next]_vars, RefundTypes \subseteq SaleTypes, LogSided, Conserved
    PROVE  Conserved'
<1>0. /\ BooksTyped /\ RowsTyped(ledger, Len(lots)) /\ AllReplayed \in Int /\ Weighed \in Int
      /\ IsFiniteSet(DOMAIN ledger)
      /\ \A i \in DOMAIN ledger : Weights[i] = Weight(ledger[i]) /\ Weights[i] \in Int
  BY WeighedFacts DEF Typed, BooksTyped
<1>1. ASSUME NEW e, ledger' = Append(ledger, e), Fresh(e, Len(lots')) PROVE Conserved'
  <2>1. EntryTyped(e, Len(lots')) /\ Sided(e) /\ e.status = "COMPLETED" /\ e.type # "REFUND"
    BY <1>1 DEF Fresh
  <2>2. e.type \in EntryTypes /\ Weight(e) \in Int
    BY <2>1, WeightIsInt DEF EntryTyped
  <2>3. Total([u \in Users |-> Effect(e, u)], Users) = Weight(e)
    <3>1. Total([u \in Users |-> Effect(e, u)], Users)
             = IF e.type = "REFUND" THEN e.amount - e.net
               ELSE IF e.type \in SaleTypes THEN e.net - e.amount
               ELSE IF e.type \in MintTypes THEN e.amount ELSE -e.amount
      BY <2>1, EffectOnAll
    <3> QED
      BY <2>1, <2>2, <3>1, TypesApart DEF Weight
  <2>4. AllReplayed' = AllReplayed + Weight(e)
    <3>1. SameEffects(ledger)
      BY <1>0, SameIsSame
    <3>2. AllReplayed' = AllReplayed + Total([u \in Users |-> Effect(e, u)], Users)
      BY <1>0, <1>1, <2>1, <3>1, AllGrows
    <3> QED
      BY <2>3, <3>2
  <2>5. Weighed' = Weighed + Weight(e)
    <3>1. Weighed' = Total([i \in DOMAIN ledger |-> Weight(ledger[i])], DOMAIN ledger) + Weight(e)
      BY <1>0, <1>1, <2>1, WeighedGrows
    <3> QED
      BY <3>1 DEF Weighed, Weights
  <2> QED
    BY <2>4, <2>5 DEF Conserved
<1>2. ASSUME NEW i \in DOMAIN ledger, Refund(i) PROVE Conserved'
  <2> DEFINE o == ledger[i]
             e == Entry("REFUND", o.dst, o.src, o.amount, o.net, None, i, NoLots)
             back == Reversed(i)
             D == DOMAIN ledger
             f == [j \in D |-> Weight(back[j])]
  <2>1. /\ ledger' = Append(back, e) /\ EntryTyped(e, Len(lots)) /\ EntryTyped(o, Len(lots))
        /\ o.status = "COMPLETED" /\ o.type \in SaleTypes
    BY <1>0, <1>2, RefundFacts
  <2>2. e.type = "REFUND" /\ e.src = o.dst /\ e.dst = o.src /\ e.amount = o.amount /\ e.net = o.net
    BY EntryColumns
  <2>3. Sided(e)
    BY <2>1, <2>2, TypesApart DEF LogSided, Sided
  <2>4. /\ RowsTyped(back, Len(lots)) /\ Len(back) = Len(ledger) /\ DOMAIN back = D
        /\ \A j \in D \ {i} : back[j] = ledger[j]
        /\ back[i].status = "REVERSED" /\ back[i].type = o.type
        /\ SameEffects(back)
    BY <1>0, ReversedFacts DEF SameEffects
  <2>5. o.amount \in Nat /\ o.net \in Nat
    BY <2>1 DEF EntryTyped
  <2> HIDE DEF e, back
  <2>6. Total([u \in Users |-> Effect(e, u)], Users) = o.amount - o.net
    <3>1. Total([u \in Users |-> Effect(e, u)], Users)
             = IF e.type = "REFUND" THEN e.amount - e.net
               ELSE IF e.type \in SaleTypes THEN e.net - e.amount
               ELSE IF e.type \in MintTypes THEN e.amount ELSE -e.amount
      BY <2>1, <2>3, EffectOnAll
    <3> QED
      BY <2>2, <3>1
  <2>7. AllReplayed' = AllReplayed + (o.amount - o.net)
    <3>1. AllReplayed' = AllReplayed + Total([u \in Users |-> Effect(e, u)], Users)
      BY <1>0, <2>1, <2>4, AllGrows
    <3> QED
      BY <2>6, <3>1
  <2>8. Weighed' = Total(f, D) + Weight(e)
    BY <1>0, <2>1, <2>4, WeighedGrows
  <2>9. Weight(e) = 0
    BY <2>2, TypesApart DEF Weight
  <2>10. f[i] = 0 /\ \A j \in D \ {i} : f[j] = Weights[j]
    <3>1. Weight(back[i]) = 0
      BY <2>1, <2>4, TypesApart DEF Weight
    <3> QED
      BY <1>0, <2>4, <3>1
  <2>11. Weights[i] = o.net - o.amount
    BY <1>0, <2>1, TypesApart DEF Weight
  <2> HIDE DEF f, o, D
  <2>12. Total(f, D) = Weighed + f[i] - Weights[i]
    <3>1. \A j \in D : Weights[j] \in Int /\ f[j] \in Int
      BY <1>0, <2>10 DEF D
    <3>2. i \in D /\ IsFiniteSet(D)
      BY <1>0 DEF D
    <3>3. Total(f, D) = Total(Weights, D) + f[i] - Weights[i]
      BY <2>10, <3>1, <3>2, TotalMoves
    <3> QED
      BY <3>3 DEF Weighed, D
  <2> DEFINE w == Weighed
             t == Total(f, D)
  <2>13. t = w + 0 - (o.net - o.amount) /\ Weighed' = t + 0 /\ AllReplayed' = w + (o.amount - o.net)
    BY <2>7, <2>8, <2>9, <2>10, <2>11, <2>12 DEF Conserved
  <2>14. w \in Int
    BY <1>0
  <2> HIDE DEF w, t
  <2> QED
    BY <2>5, <2>13, <2>14 DEF Conserved
<1>3. CASE ledger' = ledger
  BY <1>3 DEF Conserved, AllReplayed, Replayed, Effects, Weighed, Weights
<1> QED
  BY <1>1, <1>2, <1>3, LogSteps

\* What the rows stand for: minted, less burnt, less the fees of standing sales
LEMMA WeighedIs ==
    ASSUME BooksTyped
    PROVE  LET standing == {i \in Rows(SaleTypes) : ledger[i].status = "COMPLETED"}
               fees == Total(Amounts, standing) - Total(Nets, standing)
           IN  Weighed + fees = SumAmount(Rows(MintTypes)) - SumAmount(Rows(BurnTypes))
<1> DEFINE D == DOMAIN ledger
           standing == {i \in Rows(SaleTypes) : ledger[i].status = "COMPLETED"}
           Mint == Rows(MintTypes)
           Burn == Rows(BurnTypes)
           a == [i \in D |-> IF i \in standing THEN Amounts[i] ELSE 0]
           b == [i \in D |-> IF i \in standing THEN Nets[i] ELSE 0]
           c == [i \in D |-> IF i \in Mint THEN Amounts[i] ELSE 0]
           d == [i \in D |-> IF i \in Burn THEN Amounts[i] ELSE 0]
           f == Weights
           g == [i \in D |-> f[i] + a[i]]
           h == [i \in D |-> g[i] + d[i]]
<1>1. IsFiniteSet(D) /\ Weighed \in Int /\ Weighed = Total(f, D)
      /\ \A i \in D : f[i] = Weight(ledger[i]) /\ f[i] \in Int
  BY WeighedFacts DEF BooksTyped, Weighed
<1>2. \A i \in D : /\ EntryTyped(ledger[i], Len(lots))
                   /\ ledger[i].type \in EntryTypes /\ ledger[i].amount \in Nat /\ ledger[i].net \in Nat
                   /\ Amounts[i] = ledger[i].amount /\ Nets[i] = ledger[i].net
  BY DEF BooksTyped, RowsTyped, EntryTyped, Amounts, Nets
<1>3. /\ standing \subseteq D /\ Mint \subseteq D /\ Burn \subseteq D
      /\ \A i \in D : /\ i \in standing <=> ledger[i].type \in SaleTypes /\ ledger[i].status = "COMPLETED"
                      /\ i \in Mint <=> ledger[i].type \in MintTypes
                      /\ i \in Burn <=> ledger[i].type \in BurnTypes
  BY DEF Rows
<1>4. /\ \A i \in D : a[i] = IF i \in standing THEN Amounts[i] ELSE 0
      /\ \A i \in D : b[i] = IF i \in standing THEN Nets[i] ELSE 0
      /\ \A i \in D : c[i] = IF i \in Mint THEN Amounts[i] ELSE 0
      /\ \A i \in D : d[i] = IF i \in Burn THEN Amounts[i] ELSE 0
      /\ \A i \in D : g[i] = f[i] + a[i]
      /\ \A i \in D : h[i] = g[i] + d[i]
  OBVIOUS
<1> HIDE DEF standing, Mint, Burn, a, b, c, d, f, g, h
<1>5. ASSUME NEW i \in D
      PROVE  /\ a[i] \in Int /\ b[i] \in Int /\ c[i] \in Int /\ d[i] \in Int /\ g[i] \in Int
             /\ h[i] = b[i] + c[i]
  <2> DEFINE e == ledger[i]
  <2>1. /\ e.amount \in Nat /\ e.net \in Nat /\ f[i] = Weight(e)
        /\ g[i] = f[i] + a[i] /\ h[i] = g[i] + d[i]
        /\ a[i] = (IF e.type \in SaleTypes /\ e.status = "COMPLETED" THEN e.amount ELSE 0)
        /\ b[i] = (IF e.type \in SaleTypes /\ e.status = "COMPLETED" THEN e.net ELSE 0)
        /\ c[i] = (IF e.type \in MintTypes THEN e.amount ELSE 0)
        /\ d[i] = (IF e.type \in BurnTypes THEN e.amount ELSE 0)
    BY <1>1, <1>2, <1>3, <1>4
  <2>2. f[i] \in Int
    BY <1>1
  <2> HIDE DEF e
  <2>3. CASE e.type \in MintTypes
    BY <2>1, <2>2, <2>3, TypesApart DEF Weight
  <2>4. CASE e.type \in BurnTypes
    BY <2>1, <2>2, <2>4, TypesApart DEF Weight
  <2>5. CASE e.type \in SaleTypes
    BY <2>1, <2>2, <2>5, TypesApart DEF Weight
  <2>6. CASE e.type = "REFUND"
    BY <2>1, <2>2, <2>6, TypesApart DEF Weight
  <2> QED
    BY <1>2, <2>3, <2>4, <2>5, <2>6, TypesApart DEF e
<1>6. \A i \in D : Amounts[i] \in Int /\ Nets[i] \in Int
  BY <1>2
<1>7. Total(Amounts, standing) = Total(a, D) /\ Total(Amounts, standing) \in Int
  BY <1>1, <1>3, <1>4, <1>6, TotalMasked
<1>8. Total(Nets, standing) = Total(b, D) /\ Total(Nets, standing) \in Int
  BY <1>1, <1>3, <1>4, <1>6, TotalMasked
<1>9. Total(Amounts, Mint) = Total(c, D) /\ Total(Amounts, Mint) \in Int
  BY <1>1, <1>3, <1>4, <1>6, TotalMasked
<1>10. Total(Amounts, Burn) = Total(d, D) /\ Total(Amounts, Burn) \in Int
  BY <1>1, <1>3, <1>4, <1>6, TotalMasked
<1>11. Total(g, D) = Total(f, D) + Total(a, D)
  BY <1>1, <1>4, <1>5, TotalAdds
<1>12. Total(h, D) = Total(g, D) + Total(d, D)
  BY <1>1, <1>4, <1>5, TotalAdds
<1>13. Total(h, D) = Total(b, D) + Total(c, D)
  BY <1>1, <1>5, TotalAdds
<1> DEFINE sa == Total(a, D)
           sb == Total(b, D)
           sc == Total(c, D)
           sd == Total(d, D)
           sf == Total(f, D)
<1>14. sf + sa + sd = sb + sc
  BY <1>11, <1>12, <1>13
<1>15. /\ sa \in Int /\ sb \in Int /\ sc \in Int /\ sd \in Int /\ sf \in Int
       /\ Weighed = sf /\ Total(Amounts, standing) = sa /\ Total(Nets, standing) = sb
       /\ SumAmount(Mint) = sc /\ SumAmount(Burn) = sd
  BY <1>1, <1>7, <1>8, <1>9, <1>10 DEF SumAmount
<1> HIDE DEF sa, sb, sc, sd, sf
<1>16. Weighed + (Total(Amounts, standing) - Total(Nets, standing)) = SumAmount(Mint) - SumAmount(Burn)
  BY <1>14, <1>15
<1> QED
  BY <1>16 DEF standing, Mint, Burn

\* Where only sales are refunded credits are neither made nor lost, also between
\* the writes of any number of sweeps, until one of them is cut short.
THEOREM CreditsStay ==
    ASSUME RefundTypes \subseteq SaleTypes
    PROVE  Spec => []CreditsConserved
<1> DEFINE IInv == Typed /\ Explained /\ CrashesCount /\ LogSided /\ Conserved
<1>1. ASSUME Init PROVE IInv
  <2>1. Typed /\ Explained /\ CrashesCount /\ LogSided
    BY <1>1, InitTyped, InitExplained DEF Init, LogSided
  <2>2. Conserved
    <3>1. ledger = <<>>
      BY <1>1 DEF Init
    <3>2. Weighed = 0 /\ \A u : Replayed(u) = 0
      BY <3>1, TotalOfNone DEF Weighed, Weights, Replayed, Effects
    <3> DEFINE f == [u \in Users |-> Replayed(u)]
    <3>3. \A u \in Users : f[u] = 0
      BY <3>2
    <3>4. Total(f, Users) = Total(f, {})
      <4> HIDE DEF f
      <4> QED
        BY <3>3, FinitenessAssumption, TotalOfRest
    <3> QED
      BY <3>2, <3>4, TotalOfNone DEF Conserved, AllReplayed
  <2> QED
    BY <2>1, <2>2
<1>2. IInv /\ [Next]_vars => IInv'
  BY StepTyped, StepExplained, StepSided, StepConserved
<1>3. ASSUME IInv, crashes = 0 PROVE CreditsConserved
  <2> DEFINE standing == {i \in Rows(SaleTypes) : ledger[i].status = "COMPLETED"}
             fees == Total(Amounts, standing) - Total(Nets, standing)
             g == [u \in Users |-> wallets[u].balance + Unlogged(u)]
             f == [u \in Users |-> Replayed(u)]
  <2>1. BooksTyped /\ LogBalanced
    BY <1>3 DEF Typed, Explained
  <2>2. \A u \in Users : g[u] = f[u]
    <3>1. \A u : Unlogged(u) \in Int /\ Replayed(u) \in Int
      BY <2>1, UnloggedFacts, ReplayedIsInt DEF BooksTyped
    <3> QED
      BY <2>1, <3>1 DEF LogBalanced
  <2>3. Weighed + fees = SumAmount(Rows(MintTypes)) - SumAmount(Rows(BurnTypes))
    BY <2>1, WeighedIs
  <2>4. Total(f, Users) = Weighed
    BY <1>3 DEF Conserved, AllReplayed
  <2> HIDE DEF f, g
  <2>5. Total(g, Users) = Total(f, Users)
    BY <2>2, FinitenessAssumption, TotalAgrees
  <2>6. Total(g, Users) + fees = SumAmount(Rows(MintTypes)) - SumAmount(Rows(BurnTypes))
    BY <2>3, <2>4, <2>5
  <2> QED
    BY <2>6 DEF CreditsConserved, g
<1>4. IInv => CreditsConserved
  BY <1>3 DEF CreditsConserved
<1> HIDE DEF IInv
<1> QED
  BY <1>1, <1>2, <1>4, PTL DEF Spec

-----------------------------------------------------------------------------
(* No lot expires twice *)

Expiry == "CREDIT_EXPIRATION"

\* No row says that lot l expired.
Unswept(l) == \A i \in DOMAIN ledger : ledger[i].type = Expiry => ledger[i].ref # l

\* A lot that expired is not active, and no sweep has it still to do.
SweptOnce ==
    /\ ExpiredOnce
    /\ \A i \in DOMAIN ledger : ledger[i].type = Expiry =>
          ledger[i].ref \in DOMAIN lots /\ lots[ledger[i].ref].status # "ACTIVE"
    /\ \A s \in Sweepers :
          /\ sweeps[s].pc \in {"wallet", "entry"} =>
                lots[sweeps[s].lot].status # "ACTIVE" /\ Unswept(sweeps[s].lot)
          /\ \A item \in sweeps[s].todo :
                /\ Unswept(item[1])
                /\ sweeps[s].pc \in {"wallet", "entry"} => item[1] # sweeps[s].lot
                /\ \A other \in sweeps[s].todo : other[1] = item[1] => other = item

\* Where nothing is refunded no lot becomes active again.
NoneRevived ==
    /\ DOMAIN lots \subseteq DOMAIN lots'
    /\ \A l \in DOMAIN lots : lots[l].status # "ACTIVE" => lots'[l].status # "ACTIVE"

\* A step of a user leaves the sweeps and their rows alone.
UserStep ==
    /\ NoneRevived /\ sweeps' = sweeps
    /\ ledger' = ledger \/ \E e : ledger' = Append(ledger, e) /\ e.type # Expiry

LEMMA UserSteps ==
    ASSUME Typed, [Next]_vars, RefundTypes = {}
    PROVE  \/ UserStep
           \/ \E s \in Sweepers :
                SweepFind(s) \/ SweepLot(s) \/ SweepWallet(s) \/ SweepEntry(s) \/ SweepCrash(s)
<1>0. /\ BooksTyped /\ LotsTyped /\ now \in Nat
      /\ Expiry \notin MintTypes /\ Expiry \notin SaleTypes /\ "DEPOSIT" # Expiry
      /\ "CHARGEBACK_REVERSAL" # Expiry
  BY BoundsAssumption DEF Typed, StockTyped, BooksTyped, Expiry, MintTypes, SaleTypes
<1>1. ASSUME NEW more, more \in Seq(LotRow), lots' = lots \o more PROVE NoneRevived
  BY <1>0, <1>1, LotsAdded DEF NoneRevived
<1>2. ASSUME NEW u \in Users, NEW d \in Deposits, NEW k, Deposit(u, d, k) PROVE UserStep
  <2>1. NoneRevived
    BY <1>0, <1>1, <1>2, DepositFacts
  <2>2. ledger' = Append(ledger, MintedRow(u, d, k)) /\ sweeps' = sweeps
    BY <1>2 DEF Deposit, MintedRow
  <2>3. MintedRow(u, d, k).type = "DEPOSIT"
    BY EntryColumns DEF MintedRow
  <2> QED
    BY <1>0, <2>1, <2>2, <2>3 DEF UserStep
<1>3. ASSUME NEW u \in Users, NEW type \in CreditTypes, NEW row \in MintTypes, NEW g \in Grants,
             NEW k, Grant(u, type, row, g, k)
      PROVE  UserStep
  <2> DEFINE e == Entry(row, None, u, g[1], 0, k, Len(lots) + 1, NoLots)
             lot == GrantedLot(u, type, g)
  <2>1. lots' = lots \o <<lot>> /\ lot \in LotRow
    BY <1>0, <1>3, GrantFacts
  <2>2. NoneRevived
    <3> HIDE DEF lot
    <3>1. <<lot>> \in Seq(LotRow)
      BY <2>1
    <3> QED
      BY <1>1, <2>1, <3>1
  <2>3. ledger' = Append(ledger, e) /\ sweeps' = sweeps
    BY <1>3 DEF Grant
  <2>4. e.type = row
    BY EntryColumns
  <2> HIDE DEF e
  <2> QED
    BY <1>0, <2>2, <2>3, <2>4 DEF UserStep
<1>4. ASSUME NEW type \in SaleTypes, NEW u \in Users, NEW c \in Users, NEW credits \in Nat, NEW k,
             Sale(type, u, c, credits, k)
      PROVE  UserStep
  <2> DEFINE taken == Drawdown(u, credits)
             e == Entry(type, u, c, credits, credits - PlatformFee(credits), k, 0, taken)
  <2>1. lots' = DrawnOn(taken) /\ ledger' = Append(ledger, e) /\ sweeps' = sweeps
    BY <1>4 DEF Sale
  <2>2. \A l \in DOMAIN taken : lots[l].status = "ACTIVE"
    BY DEF Drawdown, Available
  <2>3. e.type = type
    BY EntryColumns
  <2> HIDE DEF taken, e
  <2>4. NoneRevived
    BY <2>1, <2>2 DEF NoneRevived, DrawnOn
  <2> QED
    BY <1>0, <2>1, <2>3, <2>4 DEF UserStep
<1>5. ASSUME NEW i \in DOMAIN ledger, Refund(i) PROVE FALSE
  BY <1>5 DEF Refund
<1>6. ASSUME NEW p \in DOMAIN payments, Chargeback(p) PROVE UserStep
  <2> DEFINE u == payments[p].owner
             e == Entry("CHARGEBACK_REVERSAL", u, None, payments[p].credits + payments[p].bonus,
                        0, None, p, NoLots)
  <2>1. /\ lots' = [l \in DOMAIN lots |->
                      IF lots[l].payment # p THEN lots[l]
                      ELSE [lots[l] EXCEPT !.status = "REVOKED", !.remaining = 0]]
        /\ ledger' = Append(ledger, e) /\ sweeps' = sweeps
    BY <1>6 DEF Chargeback
  <2>2. e.type = "CHARGEBACK_REVERSAL"
    BY EntryColumns
  <2> HIDE DEF e
  <2>3. \A l \in DOMAIN lots : [lots[l] EXCEPT !.status = "REVOKED", !.remaining = 0].status = "REVOKED"
    BY <1>0, LotFacts DEF LotRow
  <2>4. NoneRevived
    BY <2>1, <2>3 DEF NoneRevived
  <2> QED
    BY <1>0, <2>1, <2>2, <2>4 DEF UserStep
<1>7. CASE UNCHANGED <<wallets, lots, ledger, payments, sweeps, crashes>>
  BY <1>7 DEF UserStep, NoneRevived
<1> QED
  BY <1>2, <1>3, <1>4, <1>5, <1>6, <1>7, StepCases DEF Steps

\* The rows of a log with one more
LEMMA RowsOfAppend ==
    ASSUME NEW n, RowsTyped(ledger, n), NEW e, ledger' = Append(ledger, e)
    PROVE  /\ DOMAIN ledger' = DOMAIN ledger \cup {Len(ledger) + 1}
           /\ Len(ledger) + 1 \notin DOMAIN ledger
           /\ ledger'[Len(ledger) + 1] = e /\ \A i \in DOMAIN ledger : ledger'[i] = ledger[i]
BY NewRow

LEMMA StepSwept ==
    ASSUME Typed, [Next]_vars, RefundTypes = {}, \A r, s \in Sweepers : r = s, SweptOnce
    PROVE  SweptOnce'
<1>0. /\ BooksTyped /\ RowsTyped(ledger, Len(lots)) /\ LotsTyped
  BY DEF Typed, BooksTyped
<1>1. ASSUME NoneRevived, sweeps' = sweeps, ledger' = ledger PROVE SweptOnce'
  BY <1>0, <1>1, SweepRead DEF SweptOnce, NoneRevived, ExpiredOnce, Rows, Unswept
<1>2. ASSUME NoneRevived, sweeps' = sweeps, NEW e, ledger' = Append(ledger, e), e.type # Expiry
      PROVE  SweptOnce'
  <2>1. /\ DOMAIN ledger' = DOMAIN ledger \cup {Len(ledger) + 1}
        /\ ledger'[Len(ledger) + 1] = e /\ \A i \in DOMAIN ledger : ledger'[i] = ledger[i]
    BY <1>0, <1>2, RowsOfAppend
  <2>2. \A i \in DOMAIN ledger' : ledger'[i].type = Expiry => i \in DOMAIN ledger /\ ledger'[i] = ledger[i]
    BY <1>2, <2>1
  <2>3. \A l : Unswept(l) => Unswept(l)'
    BY <2>2 DEF Unswept
  <2>4. ExpiredOnce'
    BY <2>2 DEF SweptOnce, ExpiredOnce, Rows, Expiry
  <2>5. \A i \in DOMAIN ledger' : ledger'[i].type = Expiry =>
          ledger'[i].ref \in DOMAIN lots' /\ lots'[ledger'[i].ref].status # "ACTIVE"
    BY <1>2, <2>2 DEF SweptOnce, NoneRevived
  <2> QED
    BY <1>0, <1>2, <2>3, <2>4, <2>5, SweepRead DEF SweptOnce, NoneRevived
<1>3. ASSUME NEW s \in Sweepers, SweepFind(s) PROVE SweptOnce'
  <2>1. sweeps' = [sweeps EXCEPT ![s] = FoundRow] /\ lots' = lots /\ ledger' = ledger
    BY <1>0, <1>3, SweepSteps DEF SweepFind
  <2>2. sweeps'[s].pc = "lot" /\ sweeps'[s].todo = {<<l, lots[l].remaining>> : l \in Stale}
    BY <1>0, <2>1 DEF BooksTyped, SweepsTyped, FoundRow
  <2>3. ASSUME NEW l \in Stale PROVE Unswept(l)
    BY <2>3 DEF SweptOnce, Unswept, Stale
  <2>4. \A item \in sweeps'[s].todo : Unswept(item[1])'
    BY <2>1, <2>2, <2>3 DEF Unswept
  <2>5. \A item, other \in sweeps'[s].todo : other[1] = item[1] => other = item
    BY <2>2
  <2>6. ExpiredOnce' /\ \A i \in DOMAIN ledger' : ledger'[i].type = Expiry =>
          ledger'[i].ref \in DOMAIN lots' /\ lots'[ledger'[i].ref].status # "ACTIVE"
    BY <2>1 DEF SweptOnce, ExpiredOnce, Rows
  <2> QED
    BY <2>2, <2>4, <2>5, <2>6 DEF SweptOnce
<1>4. ASSUME NEW s \in Sweepers, SweepLot(s) PROVE SweptOnce'
  <2>1. PICK item \in sweeps[s].todo :
          lots' = Expired(item[1]) /\ sweeps' = [sweeps EXCEPT ![s] = LotRowOf(s, item)]
    BY <1>0, <1>4, SweepSteps
  <2>2. /\ ledger' = ledger /\ item[1] \in DOMAIN lots /\ sweeps[s].pc = "lot"
    BY <1>0, <1>4, SweepRead DEF SweepLot
  <2>3. /\ sweeps'[s].pc = "wallet" /\ sweeps'[s].todo = sweeps[s].todo \ {item}
        /\ sweeps'[s].lot = item[1]
    BY <1>0, <2>1 DEF BooksTyped, SweepsTyped, LotRowOf
  <2>4. NoneRevived /\ DOMAIN lots' = DOMAIN lots /\ lots'[item[1]].status # "ACTIVE"
    <3> DEFINE l == item[1]
    <3>1. /\ SameLots(Expired(l)) /\ Expired(l)[l].status = "EXPIRED"
          /\ \A m \in DOMAIN lots \ {l} : Expired(l)[m] = lots[m]
      BY <1>0, <2>2, ExpiredFacts
    <3> HIDE DEF l
    <3> QED
      BY <2>1, <3>1 DEF NoneRevived, SameLots, l
  <2>5. \A l : Unswept(l) => Unswept(l)'
    BY <2>2 DEF Unswept
  <2>6. ExpiredOnce' /\ \A i \in DOMAIN ledger' : ledger'[i].type = Expiry =>
          ledger'[i].ref \in DOMAIN lots' /\ lots'[ledger'[i].ref].status # "ACTIVE"
    BY <2>2, <2>4 DEF SweptOnce, ExpiredOnce, Rows, NoneRevived
  <2>7. \A other \in sweeps[s].todo : Unswept(other[1]) /\ (other[1] = item[1] => other = item)
    BY DEF SweptOnce
  <2>8. \A other \in sweeps'[s].todo : other \in sweeps[s].todo /\ other[1] # item[1]
    BY <2>3, <2>7
  <2> QED
    BY <2>3, <2>4, <2>5, <2>6, <2>7, <2>8 DEF SweptOnce
<1>5. ASSUME NEW s \in Sweepers, SweepWallet(s) PROVE SweptOnce'
  <2>1. /\ sweeps' = [sweeps EXCEPT ![s] = WalletRowOf(s)] /\ lots' = lots /\ ledger' = ledger
        /\ sweeps[s].pc = "wallet"
    BY <1>0, <1>5, SweepSteps DEF SweepWallet
  <2>2. sweeps'[s].pc = "entry" /\ sweeps'[s].todo = sweeps[s].todo /\ sweeps'[s].lot = sweeps[s].lot
    BY <1>0, <2>1 DEF BooksTyped, SweepsTyped, WalletRowOf
  <2> QED
    BY <2>1, <2>2 DEF SweptOnce, ExpiredOnce, Rows, Unswept
<1>6. ASSUME NEW s \in Sweepers, SweepEntry(s) PROVE SweptOnce'
  <2> DEFINE it == sweeps[s].lot
             k == Len(ledger) + 1
             e == Entry("CREDIT_EXPIRATION", lots[it].owner, None, Logged(s), 0, None, it, NoLots)
  <2>1. /\ sweeps' = [sweeps EXCEPT ![s] = EntryRowOf(s)] /\ lots' = lots /\ ledger' = Append(ledger, e)
        /\ sweeps[s].pc = "entry"
    BY <1>0, <1>6, SweepSteps DEF SweepEntry
  <2>2. sweeps'[s].pc \in {"idle", "lot"} /\ sweeps'[s].todo = sweeps[s].todo
    BY <1>0, <2>1 DEF BooksTyped, SweepsTyped, EntryRowOf
  <2>3. e.type = Expiry /\ e.ref = it
    BY EntryColumns DEF Expiry
  <2> HIDE DEF e
  <2>4. /\ DOMAIN ledger' = DOMAIN ledger \cup {k}
        /\ ledger'[k] = e /\ \A i \in DOMAIN ledger : ledger'[i] = ledger[i]
    BY <1>0, <2>1, RowsOfAppend
  <2>5. it \in DOMAIN lots /\ lots[it].status # "ACTIVE" /\ Unswept(it)
    BY <1>0, <2>1, SweepRead DEF SweptOnce
  <2> HIDE DEF it, k
  <2>6. \A l : Unswept(l) /\ l # it => Unswept(l)'
    BY <2>3, <2>4 DEF Unswept
  <2>7. \A item \in sweeps[s].todo : Unswept(item[1]) /\ item[1] # it
    BY <2>1 DEF SweptOnce, it
  <2>8. \A i, j \in DOMAIN ledger' : ledger'[i].type = Expiry /\ ledger'[j].type = Expiry
                                     /\ ledger'[i].ref = ledger'[j].ref => i = j
    <3>1. \A i, j \in DOMAIN ledger : ledger[i].type = Expiry /\ ledger[j].type = Expiry
                                      /\ ledger[i].ref = ledger[j].ref => i = j
      BY DEF SweptOnce, ExpiredOnce, Rows, Expiry
    <3>2. \A i \in DOMAIN ledger : ledger[i].type = Expiry => ledger[i].ref # it
      BY <2>5 DEF Unswept
    <3> QED
      BY <2>3, <2>4, <3>1, <3>2
  <2>9. ExpiredOnce'
    BY <2>8 DEF ExpiredOnce, Rows, Expiry
  <2>10. \A i \in DOMAIN ledger' : ledger'[i].type = Expiry =>
          ledger'[i].ref \in DOMAIN lots' /\ lots'[ledger'[i].ref].status # "ACTIVE"
    BY <2>1, <2>3, <2>4, <2>5 DEF SweptOnce
  <2>11. \A item, other \in sweeps[s].todo : other[1] = item[1] => other = item
    BY DEF SweptOnce
  <2> QED
    BY <2>2, <2>6, <2>7, <2>9, <2>10, <2>11 DEF SweptOnce
<1>7. ASSUME NEW s \in Sweepers, SweepCrash(s) PROVE SweptOnce'
  <2>1. sweeps' = [sweeps EXCEPT ![s] = Idle] /\ lots' = lots /\ ledger' = ledger
    BY <1>0, <1>7, SweepSteps DEF SweepCrash
  <2>2. sweeps'[s].pc = "idle" /\ sweeps'[s].todo = {}
    BY <1>0, <2>1 DEF BooksTyped, SweepsTyped, Idle
  <2> QED
    BY <2>1, <2>2 DEF SweptOnce, ExpiredOnce, Rows
<1> QED
  BY <1>1, <1>2, <1>3, <1>4, <1>5, <1>6, <1>7, UserSteps DEF UserStep

\* A sweep that is cut short and started again never expires a lot twice, as
\* long as one sweep runs at a time and no refund revives the lot.
THEOREM ExpiriesAreOnce ==
    ASSUME RefundTypes = {}, \A r, s \in Sweepers : r = s
    PROVE  Spec => []ExpiredOnce
<1>1. Init => Typed /\ SweptOnce
  <2>1. Init => SweptOnce
    BY DEF Init, SweptOnce, ExpiredOnce, Rows, Idle
  <2> QED
    BY <2>1, InitTyped
<1>2. Typed /\ SweptOnce /\ [Next]_vars => (Typed /\ SweptOnce)'
  BY StepTyped, StepSwept
<1>3. SweptOnce => ExpiredOnce
  BY DEF SweptOnce
<1> QED
  BY <1>1, <1>2, <1>3, PTL DEF Spec

-----------------------------------------------------------------------------
(* What ties lots, rows and sweeps together *)

IsDisputed(u, ps) ==
    \E p \in DOMAIN ps : ps[p].owner = u /\ ps[p].status = "DISPUTED_CHARGEBACK"

\* A lot with a payment is its payer's and never expires, what expires was not
\* purchased, an empty lot is empty, and a lot is revoked by a dispute and
\* expired by a sweep.
LotLinked(row, ps) ==
    /\ row.payment # 0 => row.expires = Never /\ row.owner = ps[row.payment].owner
    /\ row.expires # Never => row.type # "PURCHASED"
    /\ row.status \in {"DEPLETED", "EXPIRED"} => row.remaining = 0
    /\ row.status = "REVOKED" => IsDisputed(row.owner, ps)

\* A sale's row names the fan's lots and all it took; no other row names lots
\* or an earning.
RowLinked(e, ls) ==
    /\ e.type \in SaleTypes =>
          /\ \A l \in DOMAIN e.taken : ls[l].owner = e.src
          /\ Total(e.taken, DOMAIN e.taken) = e.amount
          /\ e.status = "COMPLETED" => e.earning = "CLEARED"
    /\ e.type \notin SaleTypes => DOMAIN e.taken = {} /\ e.earning # "CLEARED"

\* Refunds and sweeps do not meet.
Apart == RefundTypes = {} \/ Sweepers = {}

\* A lot a sweep has to do holds at least what the query saw: a refund may have
\* put credits back.
Due(l, credits) ==
    /\ lots[l].status = "ACTIVE" /\ lots[l].remaining >= credits
    /\ Apart => lots[l].remaining = credits
    /\ lots[l].expires # Never /\ lots[l].expires <= now

SweepLinked(s) ==
    /\ sweeps[s].pc \in {"wallet", "entry"} => lots[sweeps[s].lot].expires # Never
    /\ \A item \in sweeps[s].todo :
          /\ Due(item[1], item[2])
          /\ \A other \in sweeps[s].todo : other[1] = item[1] => other = item

LotsLinked == \A l \in DOMAIN lots : LotLinked(lots[l], payments)
RowsLinked == \A i \in DOMAIN ledger : RowLinked(ledger[i], lots)
SweepsLinked == \A s \in Sweepers : SweepLinked(s)
Linked == LotsLinked /\ RowsLinked /\ SweepsLinked

\* One sweep runs at a time.
OneSweep == \A r, s \in Sweepers : r = s

PaymentsKept ==
    /\ DOMAIN payments \subseteq DOMAIN payments'
    /\ \A p \in DOMAIN payments :
          /\ payments'[p].owner = payments[p].owner
          /\ payments[p].status = "DISPUTED_CHARGEBACK" =>
                payments'[p].status = "DISPUTED_CHARGEBACK"

LotsKept ==
    /\ DOMAIN lots \subseteq DOMAIN lots'
    /\ \A l \in DOMAIN lots : /\ lots'[l].owner = lots[l].owner /\ lots'[l].type = lots[l].type
                              /\ lots'[l].expires = lots[l].expires

LEMMA LotStaysLinked ==
    ASSUME NEW row, row.payment = 0 \/ row.payment \in DOMAIN payments,
           LotLinked(row, payments), PaymentsKept
    PROVE  LotLinked(row, payments')
BY DEF LotLinked, PaymentsKept, IsDisputed

LEMMA PaymentOfLot ==
    ASSUME BooksTyped, NEW l \in DOMAIN lots
    PROVE  lots[l].payment = 0 \/ lots[l].payment \in DOMAIN payments
<1>1. lots[l].payment \in 0 .. Len(payments) /\ DOMAIN payments = 1 .. Len(payments)
      /\ Len(payments) \in Nat
  BY DEF BooksTyped
<1> QED
  BY <1>1

LEMMA RowStaysLinked ==
    ASSUME LotsKept, NEW e, DOMAIN e.taken \subseteq DOMAIN lots, RowLinked(e, lots)
    PROVE  RowLinked(e, lots')
BY DEF RowLinked, LotsKept

\* A row that touches no lot
LEMMA PlainRowLinked ==
    ASSUME NEW type, type \notin SaleTypes, NEW src, NEW dst, NEW credits, NEW net, NEW key, NEW ref,
           NEW ls
    PROVE  RowLinked(Entry(type, src, dst, credits, net, key, ref, NoLots), ls)
<1> DEFINE e == Entry(type, src, dst, credits, net, key, ref, NoLots)
<1>1. e.type = type /\ e.taken = NoLots /\ e.earning = "NONE"
  BY EntryColumns
<1>2. DOMAIN NoLots = {}
  BY DEF NoLots
<1> HIDE DEF e
<1>3. RowLinked(e, ls)
  BY <1>1, <1>2 DEF RowLinked
<1> QED
  BY <1>3 DEF e

\* The log with a new row
LEMMA RowsStayLinked ==
    ASSUME BooksTyped, RowsLinked, LotsKept, NEW e, ledger' = Append(ledger, e), RowLinked(e, lots')
    PROVE  RowsLinked'
<1>1. RowsTyped(ledger, Len(lots)) /\ DOMAIN lots = 1 .. Len(lots)
  BY LotFacts DEF BooksTyped
<1>2. /\ DOMAIN ledger' = DOMAIN ledger \cup {Len(ledger) + 1}
      /\ ledger'[Len(ledger) + 1] = e /\ \A i \in DOMAIN ledger : ledger'[i] = ledger[i]
  BY <1>1, RowsOfAppend
<1>3. ASSUME NEW i \in DOMAIN ledger PROVE RowLinked(ledger'[i], lots')
  <2> DEFINE o == ledger[i]
  <2>1. RowLinked(o, lots) /\ DOMAIN o.taken \subseteq DOMAIN lots
    BY <1>1 DEF RowsLinked, RowsTyped, EntryTyped
  <2> HIDE DEF o
  <2>2. RowLinked(o, lots')
    BY <2>1, RowStaysLinked
  <2> QED
    BY <1>2, <2>2 DEF o
<1> QED
  BY <1>2, <1>3 DEF RowsLinked

LEMMA SweepsStayDue ==
    ASSUME BooksTyped, SweepsLinked, LotsKept, sweeps' = sweeps, now \in Int, now' \in Int, now <= now',
           \A l \in DOMAIN lots : lots[l].status = "ACTIVE" /\ lots[l].expires # Never
                                  /\ lots[l].expires <= now
              => /\ lots'[l].status = "ACTIVE" /\ lots'[l].remaining \in Nat
                 /\ lots'[l].remaining >= lots[l].remaining
                 /\ Apart => lots'[l].remaining = lots[l].remaining
    PROVE  SweepsLinked'
<1>1. ASSUME NEW s \in Sweepers PROVE SweepLinked(s)'
  <2>1. sweeps'[s].pc \in {"wallet", "entry"} => lots'[sweeps'[s].lot].expires # Never
    BY SweepRead DEF SweepsLinked, SweepLinked, LotsKept
  <2>2. ASSUME NEW item \in sweeps[s].todo PROVE Due(item[1], item[2])'
    <3>1. item[1] \in DOMAIN lots /\ Due(item[1], item[2])
      BY SweepRead DEF SweepsLinked, SweepLinked
    <3>2. /\ lots[item[1]].expires \in Int /\ lots[item[1]].remaining \in Nat /\ item[2] \in Nat
          /\ lots'[item[1]].expires = lots[item[1]].expires
      BY <3>1, LotFacts, SweepRead DEF LotRow, BooksTyped, LotsKept
    <3> DEFINE l == item[1]
               c == item[2]
    <3>3. /\ lots'[l].status = "ACTIVE" /\ lots'[l].remaining >= lots[l].remaining
          /\ lots'[l].remaining \in Nat
          /\ Apart => lots'[l].remaining = lots[l].remaining
          /\ lots[l].remaining >= c /\ (Apart => lots[l].remaining = c)
          /\ lots[l].expires # Never /\ lots[l].expires <= now
      BY <3>1 DEF Due
    <3> HIDE DEF l, c
    <3>4. Due(l, c)'
      BY <3>2, <3>3 DEF Due, l, c
    <3> QED
      BY <3>4 DEF l, c
  <2>3. \A item, other \in sweeps[s].todo : other[1] = item[1] => other = item
    BY DEF SweepsLinked, SweepLinked
  <2> QED
    BY <2>1, <2>2, <2>3 DEF SweepLinked
<1> QED
  BY <1>1 DEF SweepsLinked

LEMMA SweepsStayLinked ==
    ASSUME BooksTyped, SweepsLinked, LotsKept, sweeps' = sweeps, now \in Int, now' \in Int, now <= now',
           \A l \in DOMAIN lots : lots[l].status = "ACTIVE" /\ lots[l].expires # Never
                                  /\ lots[l].expires <= now => lots'[l] = lots[l]
    PROVE  SweepsLinked'
<1>1. \A l \in DOMAIN lots : lots[l].remaining \in Nat
  BY LotFacts DEF LotRow, BooksTyped
<1>2. \A l \in DOMAIN lots : lots[l].status = "ACTIVE" /\ lots[l].expires # Never
                              /\ lots[l].expires <= now
        => /\ lots'[l].status = "ACTIVE" /\ lots'[l].remaining \in Nat
           /\ lots'[l].remaining >= lots[l].remaining
           /\ Apart => lots'[l].remaining = lots[l].remaining
  BY <1>1
<1> QED
  BY <1>2, SweepsStayDue

LEMMA LotsGrowLinked ==
    ASSUME BooksTyped, Linked, NEW more, more \in Seq(LotRow), lots' = lots \o more, PaymentsKept,
           sweeps' = sweeps, now \in Int, now' = now,
           \A k \in 1 .. Len(more) : LotLinked(more[k], payments'),
           NEW e, ledger' = Append(ledger, e), \A ls : RowLinked(e, ls)
    PROVE  Linked' /\ LotsKept
<1>1. /\ DOMAIN lots \subseteq DOMAIN lots'
      /\ \A l \in DOMAIN lots : lots'[l] = lots[l]
      /\ \A l \in DOMAIN lots' \ DOMAIN lots :
            l - Len(lots) \in 1 .. Len(more) /\ lots'[l] = more[l - Len(lots)]
  BY LotsAdded DEF BooksTyped
<1>2. LotsKept
  BY <1>1 DEF LotsKept
<1>3. LotsLinked'
  <2>1. ASSUME NEW l \in DOMAIN lots PROVE LotLinked(lots'[l], payments')
    <3> DEFINE row == lots[l]
    <3>1. LotLinked(row, payments) /\ (row.payment = 0 \/ row.payment \in DOMAIN payments)
      BY PaymentOfLot DEF Linked, LotsLinked
    <3> HIDE DEF row
    <3>2. LotLinked(row, payments')
      BY <3>1, LotStaysLinked
    <3> QED
      BY <1>1, <3>2 DEF row
  <2>2. \A l \in DOMAIN lots' \ DOMAIN lots : LotLinked(lots'[l], payments')
    BY <1>1
  <2> QED
    BY <2>1, <2>2 DEF LotsLinked
<1>4. RowsLinked'
  BY <1>2, RowsStayLinked DEF Linked
<1>5. SweepsLinked'
  BY <1>1, <1>2, SweepsStayLinked DEF Linked
<1> QED
  BY <1>2, <1>3, <1>4, <1>5 DEF Linked

LEMMA DepositLinked ==
    ASSUME BooksTyped, Linked, now \in Nat, NEW u, u \in Users, NEW d, d \in Deposits, NEW k,
           Deposit(u, d, k)
    PROVE  Linked' /\ LotsKept /\ PaymentsKept
<1> DEFINE more == MintedLots(u, d)
           p == Len(payments) + 1
<1>1. /\ lots' = lots \o more /\ more \in Seq(LotRow)
      /\ payments' = Append(payments, [owner |-> u, credits |-> d[1], bonus |-> d[2],
                                       status |-> "SUCCEEDED"])
  BY DepositFacts
<1>2. ledger' = Append(ledger, MintedRow(u, d, k)) /\ sweeps' = sweeps /\ now' = now /\ now \in Int
  BY DEF Deposit, MintedRow
<1>3. /\ DOMAIN payments' = DOMAIN payments \cup {p} /\ payments'[p].owner = u
      /\ \A q \in DOMAIN payments : payments'[q] = payments[q]
  BY <1>1 DEF BooksTyped
<1>4. PaymentsKept
  BY <1>3 DEF PaymentsKept
<1>5. \A ls : RowLinked(MintedRow(u, d, k), ls)
  <2>1. "DEPOSIT" \notin SaleTypes
    BY DEF SaleTypes
  <2> QED
    BY <2>1, PlainRowLinked DEF MintedRow
<1>6. ASSUME NEW n \in 1 .. Len(more) PROVE LotLinked(more[n], payments')
  <2> DEFINE row == more[n]
  <2>1. row.payment = p /\ row.expires = Never /\ row.owner = u /\ row.status = "ACTIVE"
    BY DEF MintedLots, NewLot
  <2> HIDE DEF row, more
  <2>2. LotLinked(row, payments')
    BY <1>3, <2>1 DEF LotLinked
  <2> QED
    BY <2>2 DEF row
<1> HIDE DEF more
<1> QED
  BY <1>1, <1>2, <1>4, <1>5, <1>6, LotsGrowLinked

LEMMA GrantLinked ==
    ASSUME BooksTyped, Linked, now \in Nat, NEW u, u \in Users, NEW type, type \in CreditTypes,
           type # "PURCHASED", NEW row, row \in MintTypes, NEW g, g \in Grants, NEW k,
           Grant(u, type, row, g, k)
    PROVE  Linked' /\ LotsKept /\ PaymentsKept
<1> DEFINE lot == GrantedLot(u, type, g)
           more == <<lot>>
           e == Entry(row, None, u, g[1], 0, k, Len(lots) + 1, NoLots)
<1>1. lots' = lots \o <<lot>> /\ lot \in LotRow /\ ledger' = Append(ledger, e)
  BY GrantFacts
<1>2. payments' = payments /\ sweeps' = sweeps /\ now' = now /\ now \in Int
  BY DEF Grant
<1>3. PaymentsKept
  BY <1>2 DEF PaymentsKept
<1>4. \A ls : RowLinked(e, ls)
  BY TypesApart, PlainRowLinked
<1>5. lot.payment = 0 /\ lot.type = type /\ lot.status = "ACTIVE"
  BY DEF GrantedLot, NewLot
<1> HIDE DEF e, lot
<1>6. LotLinked(lot, payments')
  BY <1>5 DEF LotLinked
<1>7. more \in Seq(LotRow) /\ \A n \in 1 .. Len(more) : LotLinked(more[n], payments')
  BY <1>1, <1>6
<1>8. lots' = lots \o more
  BY <1>1
<1> HIDE DEF more
<1> QED
  BY <1>1, <1>2, <1>3, <1>4, <1>7, <1>8, LotsGrowLinked

LEMMA SaleLinked ==
    ASSUME BooksTyped, Linked, now \in Nat, NEW type, type \in SaleTypes, NEW fan \in Users,
           NEW creator \in Users, NEW credits, credits \in Nat, NEW k,
           Sale(type, fan, creator, credits, k)
    PROVE  Linked' /\ LotsKept /\ PaymentsKept
<1> DEFINE net == credits - PlatformFee(credits)
           taken == Drawdown(fan, credits)
           e == Entry(type, fan, creator, credits, net, k, 0, taken)
<1>1. SameLots(lots') /\ ledger' = Append(ledger, e)
  BY SaleFacts
<1>2. /\ lots' = DrawnOn(taken) /\ payments' = payments /\ sweeps' = sweeps /\ now' = now /\ now \in Int
      /\ Total(Remaining, Available(fan)) >= credits
  BY DEF Sale
<1>3. /\ DOMAIN taken \subseteq DOMAIN lots
      /\ \A l \in DOMAIN taken : /\ taken[l] \in Nat /\ taken[l] <= lots[l].remaining
                                 /\ l \in Available(fan)
  BY DrawdownFacts DEF BooksTyped, Drawdown
<1>4. Total(taken, DOMAIN taken) = credits
  BY <1>2, DrawdownIsExact DEF BooksTyped
<1>5. e.type = type /\ e.src = fan /\ e.amount = credits /\ e.taken = taken /\ e.earning = "CLEARED"
  BY EntryColumns
<1> HIDE DEF taken, e, net
<1>6. LotsKept /\ PaymentsKept
  BY <1>1, <1>2 DEF SameLots, LotsKept, PaymentsKept
<1>7. \A l \in DOMAIN taken : lots'[l].owner = fan
  BY <1>3, <1>6 DEF Available, LotsKept
<1>8. RowLinked(e, lots')
  BY <1>4, <1>5, <1>7 DEF RowLinked
<1>9. RowsLinked'
  BY <1>1, <1>6, <1>8, RowsStayLinked DEF Linked
<1>10. /\ \A l \in DOMAIN lots \ DOMAIN taken : lots'[l] = lots[l]
       /\ \A l \in DOMAIN taken :
            /\ lots'[l].remaining = lots[l].remaining - taken[l]
            /\ lots'[l].status = IF taken[l] = lots[l].remaining THEN "DEPLETED" ELSE "ACTIVE"
  BY <1>2, <1>3, DrawnOnFacts DEF BooksTyped
<1>11. ASSUME NEW l \in DOMAIN lots PROVE LotLinked(lots'[l], payments')
  <2>1. LotLinked(lots[l], payments)
    BY DEF Linked, LotsLinked
  <2>2. CASE l \notin DOMAIN taken
    BY <1>2, <1>10, <2>1, <2>2
  <2>3. CASE l \in DOMAIN taken
    <3>1. /\ lots'[l].status \in {"DEPLETED", "ACTIVE"}
          /\ lots'[l].status = "DEPLETED" => lots'[l].remaining = 0
      <4>1. lots[l].remaining \in Nat /\ taken[l] \in Nat
        BY <1>3, <2>3, LotFacts DEF LotRow, BooksTyped
      <4> QED
        BY <1>10, <2>3, <4>1
    <3>2. /\ lots'[l].payment = lots[l].payment /\ lots'[l].expires = lots[l].expires
          /\ lots'[l].owner = lots[l].owner /\ lots'[l].type = lots[l].type
      BY <1>1 DEF SameLots
    <3> QED
      BY <1>2, <2>1, <3>1, <3>2 DEF LotLinked
  <2> QED
    BY <2>2, <2>3
<1>12. LotsLinked'
  BY <1>1, <1>11 DEF LotsLinked, SameLots
<1>13. ASSUME NEW l \in DOMAIN lots, lots[l].status = "ACTIVE", lots[l].expires # Never,
              lots[l].expires <= now
       PROVE  lots'[l] = lots[l]
  <2>1. lots[l].expires \in Int
    BY LotFacts DEF LotRow, BooksTyped
  <2>2. l \notin Available(fan)
    BY <1>2, <1>13, <2>1 DEF Available, Unexpired
  <2> QED
    BY <1>3, <1>10, <2>2
<1>14. SweepsLinked'
  <2>1. now <= now' /\ now' \in Int
    BY <1>2
  <2> QED
    BY <1>2, <1>6, <1>13, <2>1, SweepsStayLinked DEF Linked
<1> QED
  BY <1>6, <1>9, <1>12, <1>14 DEF Linked

LEMMA RefundLinked ==
    ASSUME BooksTyped, Linked, now \in Nat, NEW i, i \in DOMAIN ledger, Refund(i)
    PROVE  Linked' /\ LotsKept /\ PaymentsKept
<1> DEFINE o == ledger[i]
           e == Entry("REFUND", o.dst, o.src, o.amount, o.net, None, i, NoLots)
           back == Reversed(i)
<1>1. /\ EntryTyped(o, Len(lots)) /\ lots' = Restored(o.taken) /\ SameLots(lots')
      /\ ledger' = Append(back, e) /\ o.type \in RefundTypes /\ o.src \in Users
  BY RefundFacts
<1>2. Apart => Sweepers = {}
  BY <1>1 DEF Apart
<1>3. payments' = payments /\ sweeps' = sweeps /\ now' = now /\ now \in Int
  BY DEF Refund
<1>4. LotsKept /\ PaymentsKept
  BY <1>1, <1>3 DEF SameLots, LotsKept, PaymentsKept
<1>5. /\ DOMAIN lots = 1 .. Len(lots) /\ RowsTyped(ledger, Len(lots))
  BY LotFacts DEF BooksTyped
<1>6. /\ RowsTyped(back, Len(lots)) /\ Len(back) = Len(ledger) /\ DOMAIN back = DOMAIN ledger
      /\ \A j \in DOMAIN ledger \ {i} : back[j] = ledger[j]
      /\ back[i].status = "REVERSED"
      /\ back[i].type = o.type /\ back[i].src = o.src /\ back[i].taken = o.taken
      /\ back[i].amount = o.amount /\ (o.earning # "CLEARED" => back[i].earning = o.earning)
  BY <1>5, ReversedFacts
<1>7. \A ls : RowLinked(e, ls)
  <2>1. "REFUND" \notin SaleTypes
    BY DEF SaleTypes
  <2> QED
    BY <2>1, PlainRowLinked
<1>8. RowLinked(o, lots) /\ DOMAIN o.taken \subseteq DOMAIN lots /\ \A l \in DOMAIN o.taken : o.taken[l] \in Nat
  BY <1>1, <1>5 DEF Linked, RowsLinked, EntryTyped
<1> HIDE DEF o, e, back
<1>9. \A j \in DOMAIN ledger : RowLinked(back[j], lots')
  <2>1. RowLinked(back[i], lots')
    <3>1. RowLinked(o, lots')
      BY <1>4, <1>8, RowStaysLinked
    <3> QED
      BY <1>6, <3>1 DEF RowLinked
  <2>2. ASSUME NEW j \in DOMAIN ledger \ {i} PROVE RowLinked(back[j], lots')
    <3> DEFINE r == ledger[j]
    <3>1. RowLinked(r, lots) /\ DOMAIN r.taken \subseteq DOMAIN lots
      BY <1>5 DEF Linked, RowsLinked, RowsTyped, EntryTyped
    <3> HIDE DEF r
    <3>2. RowLinked(r, lots')
      BY <1>4, <3>1, RowStaysLinked
    <3> QED
      BY <1>6, <3>2 DEF r
  <2> QED
    BY <2>1, <2>2
<1>10. RowsLinked'
  <2>1. /\ DOMAIN ledger' = DOMAIN ledger \cup {Len(ledger) + 1}
        /\ ledger'[Len(ledger) + 1] = e /\ \A j \in DOMAIN ledger : ledger'[j] = back[j]
    BY <1>1, <1>5, <1>6, NewRow
  <2> QED
    BY <1>7, <1>9, <2>1 DEF RowsLinked
<1>11. /\ \A l \in DOMAIN lots \ DOMAIN o.taken : lots'[l] = lots[l]
       /\ \A l \in DOMAIN o.taken : lots'[l].status = "ACTIVE"
                                     /\ lots'[l].remaining = lots[l].remaining + o.taken[l]
  BY <1>1, <1>8, RestoredFacts DEF BooksTyped
<1>12. ASSUME NEW l \in DOMAIN lots PROVE LotLinked(lots'[l], payments')
  <2>1. LotLinked(lots[l], payments)
    BY DEF Linked, LotsLinked
  <2>2. CASE l \notin DOMAIN o.taken
    BY <1>3, <1>11, <2>1, <2>2
  <2>3. CASE l \in DOMAIN o.taken
    <3>1. /\ lots'[l].payment = lots[l].payment /\ lots'[l].expires = lots[l].expires
          /\ lots'[l].owner = lots[l].owner /\ lots'[l].type = lots[l].type
      BY <1>1 DEF SameLots
    <3> QED
      BY <1>3, <1>11, <2>1, <2>3, <3>1 DEF LotLinked
  <2> QED
    BY <2>2, <2>3
<1>13. LotsLinked'
  BY <1>1, <1>12 DEF LotsLinked, SameLots
<1>14. SweepsLinked'
  <2>1. \A l \in DOMAIN lots : lots[l].remaining \in Nat
    BY LotFacts DEF LotRow, BooksTyped
  <2>2. CASE Sweepers = {}
    BY <2>2 DEF SweepsLinked
  <2>3. CASE ~Apart
    <3>1. ASSUME NEW l \in DOMAIN lots, lots[l].status = "ACTIVE"
          PROVE  /\ lots'[l].status = "ACTIVE" /\ lots'[l].remaining \in Nat
                 /\ lots'[l].remaining >= lots[l].remaining
      <4>1. CASE l \in DOMAIN o.taken
        BY <1>8, <1>11, <2>1, <4>1
      <4>2. CASE l \notin DOMAIN o.taken
        BY <1>11, <2>1, <3>1, <4>2
      <4> QED
        BY <4>1, <4>2
    <3>2. now <= now' /\ now' \in Int
      BY <1>3
    <3> QED
      BY <1>3, <1>4, <2>3, <3>1, <3>2, SweepsStayDue DEF Linked
  <2> QED
    BY <1>2, <2>2, <2>3
<1> QED
  BY <1>4, <1>10, <1>13, <1>14 DEF Linked

LEMMA ChargebackLinked ==
    ASSUME BooksTyped, Linked, now \in Nat, NEW p, p \in DOMAIN payments, Chargeback(p)
    PROVE  Linked' /\ LotsKept /\ PaymentsKept
<1> DEFINE u == payments[p].owner
           n == payments[p].credits + payments[p].bonus
           e == Entry("CHARGEBACK_REVERSAL", u, None, n, 0, None, p, NoLots)
<1>1. /\ lots' = Revoked(p) /\ SameLots(lots')
      /\ DOMAIN payments' = DOMAIN payments
      /\ \A q \in DOMAIN payments : payments'[q].owner = payments[q].owner
                                    /\ (q # p => payments'[q] = payments[q])
      /\ payments'[p].status = "DISPUTED_CHARGEBACK"
      /\ ledger' = Append(ledger, e)
  BY ChargebackFacts
<1>2. sweeps' = sweeps /\ now' = now /\ now \in Int
  <2>1. sweeps' = sweeps /\ now' = now
    BY DEF Chargeback
  <2> QED
    BY <2>1
<1>3. LotsKept /\ PaymentsKept
  BY <1>1 DEF SameLots, LotsKept, PaymentsKept
<1>4. RowLinked(e, lots')
  <2>1. "CHARGEBACK_REVERSAL" \notin SaleTypes
    BY DEF SaleTypes
  <2> QED
    BY <2>1, PlainRowLinked
<1> HIDE DEF e
<1>5. RowsLinked'
  BY <1>1, <1>3, <1>4, RowsStayLinked DEF Linked
<1>6. /\ \A l \in DOMAIN lots : lots[l].payment # p => lots'[l] = lots[l]
      /\ \A l \in DOMAIN lots : lots[l].payment = p =>
            lots'[l].remaining = 0 /\ lots'[l].status = "REVOKED"
  BY <1>1, RevokedFacts DEF BooksTyped
<1>7. p # 0
  BY DEF BooksTyped
<1>8. ASSUME NEW l \in DOMAIN lots PROVE LotLinked(lots'[l], payments')
  <2> DEFINE row == lots[l]
  <2>1. LotLinked(row, payments) /\ (row.payment = 0 \/ row.payment \in DOMAIN payments)
    BY PaymentOfLot DEF Linked, LotsLinked
  <2>2. lots'[l].payment = row.payment /\ lots'[l].expires = row.expires
        /\ lots'[l].owner = row.owner /\ lots'[l].type = row.type
    BY <1>1 DEF SameLots
  <2>3. LotLinked(row, payments')
    <3> HIDE DEF row
    <3> QED
      BY <1>3, <2>1, LotStaysLinked
  <2>4. CASE row.payment # p
    BY <1>6, <2>3, <2>4
  <2>5. CASE row.payment = p
    <3>1. lots'[l].status = "REVOKED" /\ row.owner = payments'[p].owner
      BY <1>1, <1>6, <1>7, <2>1, <2>5 DEF LotLinked
    <3>2. IsDisputed(row.owner, payments')
      BY <1>1, <3>1 DEF IsDisputed
    <3> HIDE DEF row
    <3> QED
      BY <2>2, <2>3, <3>1, <3>2 DEF LotLinked
  <2> QED
    BY <2>4, <2>5
<1>9. LotsLinked'
  BY <1>1, <1>8 DEF LotsLinked, SameLots
<1>10. \A l \in DOMAIN lots : lots[l].expires # Never => lots'[l] = lots[l]
  BY <1>6, <1>7 DEF Linked, LotsLinked, LotLinked
<1>11. SweepsLinked'
  <2>1. now <= now' /\ now' \in Int
    BY <1>2
  <2> QED
    BY <1>2, <1>3, <1>10, <2>1, SweepsStayLinked DEF Linked
<1> QED
  BY <1>3, <1>5, <1>9, <1>11 DEF Linked

\* What a step of a sweep does to the lots, the log and its own row
LEMMA SweepLinks ==
    ASSUME BooksTyped, Linked, OneSweep, now \in Nat, NEW s \in Sweepers,
           SweepFind(s) \/ SweepLot(s) \/ SweepWallet(s) \/ SweepEntry(s) \/ SweepCrash(s)
    PROVE  Linked' /\ LotsKept /\ PaymentsKept
<1>0. /\ LotsTyped /\ sweeps \in [Sweepers -> SweepRow] /\ payments' = payments /\ now' = now
      /\ now \in Int /\ \A r \in Sweepers : r = s
  <2>1. payments' = payments /\ now' = now
    BY DEF SweepFind, SweepLot, SweepWallet, SweepEntry, SweepCrash
  <2> QED
    BY <2>1 DEF BooksTyped, SweepsTyped, OneSweep
<1>1. PaymentsKept
  BY <1>0 DEF PaymentsKept
<1>2. lots' = lots => LotsKept /\ LotsLinked'
  BY <1>0 DEF LotsKept, Linked, LotsLinked
<1>3. lots' = lots /\ ledger' = ledger => RowsLinked'
  BY DEF Linked, RowsLinked
<1>4. ASSUME SweepLinked(s)' PROVE SweepsLinked'
  BY <1>0, <1>4 DEF SweepsLinked
<1>5. CASE SweepFind(s)
  <2>1. sweeps' = [sweeps EXCEPT ![s] = FoundRow] /\ lots' = lots /\ ledger' = ledger
    BY <1>5, SweepSteps DEF SweepFind
  <2>2. sweeps'[s].pc = "lot" /\ sweeps'[s].todo = {<<l, lots[l].remaining>> : l \in Stale}
    BY <1>0, <2>1 DEF FoundRow
  <2>3. \A l \in Stale : Due(l, lots[l].remaining)
    <3>1. ASSUME NEW l \in Stale PROVE Due(l, lots[l].remaining)
      <4>1. lots[l].expires \in Int /\ lots[l].remaining \in Nat
        BY <1>0, LotFacts DEF LotRow, Stale
      <4> QED
        BY <1>0, <4>1 DEF Stale, Due, Unexpired
    <3> QED
      BY <3>1
  <2>4. \A l, c : Due(l, c) => Due(l, c)'
    BY <1>0, <2>1 DEF Due
  <2>5. \A item \in sweeps'[s].todo : Due(item[1], item[2])'
    BY <2>2, <2>3, <2>4
  <2>6. \A item, other \in sweeps'[s].todo : other[1] = item[1] => other = item
    BY <2>2
  <2>7. SweepLinked(s)'
    BY <2>2, <2>5, <2>6 DEF SweepLinked
  <2> QED
    BY <1>1, <1>2, <1>3, <1>4, <2>1, <2>7 DEF Linked
<1>6. CASE SweepLot(s)
  <2>1. PICK item \in sweeps[s].todo :
          lots' = Expired(item[1]) /\ sweeps' = [sweeps EXCEPT ![s] = LotRowOf(s, item)]
    BY <1>6, SweepSteps
  <2> DEFINE it == item[1]
  <2>2. ledger' = ledger /\ it \in DOMAIN lots
    BY <1>6, SweepRead DEF SweepLot
  <2>3. /\ sweeps'[s].pc = "wallet" /\ sweeps'[s].todo = sweeps[s].todo \ {item}
        /\ sweeps'[s].lot = it
    BY <1>0, <2>1 DEF LotRowOf
  <2>4. /\ SameLots(lots') /\ lots'[it].status = "EXPIRED" /\ lots'[it].remaining = 0
        /\ \A m \in DOMAIN lots \ {it} : lots'[m] = lots[m]
    BY <1>0, <2>1, <2>2, ExpiredFacts
  <2>5. Due(it, item[2]) /\ \A other \in sweeps[s].todo :
          other[1] \in DOMAIN lots /\ Due(other[1], other[2]) /\ (other[1] = it => other = item)
    BY SweepRead DEF Linked, SweepsLinked, SweepLinked
  <2>6b. \A one, other \in sweeps[s].todo : other[1] = one[1] => other = one
    BY DEF Linked, SweepsLinked, SweepLinked
  <2> HIDE DEF it
  <2>6. LotsKept
    BY <2>4 DEF SameLots, LotsKept
  <2>7. \A other \in sweeps'[s].todo : Due(other[1], other[2])'
    <3>1. \A other \in sweeps'[s].todo : other[1] \in DOMAIN lots \ {it} /\ Due(other[1], other[2])
      BY <2>3, <2>5
    <3> QED
      BY <1>0, <2>4, <3>1 DEF Due
  <2>8. SweepLinked(s)'
    <3>1. lots'[sweeps'[s].lot].expires # Never
      BY <2>2, <2>3, <2>4, <2>5 DEF Due, SameLots
    <3>2. \A one, other \in sweeps'[s].todo : other[1] = one[1] => other = one
      BY <2>3, <2>6b
    <3> QED
      BY <2>7, <3>1, <3>2 DEF SweepLinked
  <2>9. LotsLinked'
    <3>1. ASSUME NEW l \in DOMAIN lots PROVE LotLinked(lots'[l], payments')
      <4>1. LotLinked(lots[l], payments)
        BY DEF Linked, LotsLinked
      <4>2. CASE l # it
        BY <1>0, <2>4, <4>1, <4>2
      <4>3. CASE l = it
        <5>1. /\ lots'[l].payment = lots[l].payment /\ lots'[l].expires = lots[l].expires
              /\ lots'[l].owner = lots[l].owner /\ lots'[l].type = lots[l].type
          BY <2>4 DEF SameLots
        <5> QED
          BY <1>0, <2>4, <4>1, <4>3, <5>1 DEF LotLinked
      <4> QED
        BY <4>2, <4>3
    <3> QED
      BY <2>4, <3>1 DEF LotsLinked, SameLots
  <2>10. RowsLinked'
    <3>1. ASSUME NEW i \in DOMAIN ledger PROVE RowLinked(ledger[i], lots')
      <4> DEFINE o == ledger[i]
      <4>1. RowLinked(o, lots) /\ DOMAIN o.taken \subseteq DOMAIN lots
        BY <1>0, LotFacts DEF Linked, RowsLinked, BooksTyped, RowsTyped, EntryTyped
      <4> HIDE DEF o
      <4>2. RowLinked(o, lots')
        BY <2>6, <4>1, RowStaysLinked
      <4> QED
        BY <4>2 DEF o
    <3> QED
      BY <2>2, <3>1 DEF RowsLinked
  <2> QED
    BY <1>1, <1>4, <2>6, <2>8, <2>9, <2>10 DEF Linked
<1>7. CASE SweepWallet(s)
  <2>1. /\ sweeps' = [sweeps EXCEPT ![s] = WalletRowOf(s)] /\ lots' = lots /\ ledger' = ledger
        /\ sweeps[s].pc = "wallet"
    BY <1>7, SweepSteps DEF SweepWallet
  <2>2. sweeps'[s].todo = sweeps[s].todo /\ sweeps'[s].lot = sweeps[s].lot
    BY <1>0, <2>1 DEF WalletRowOf
  <2>3. SweepLinked(s)'
    BY <1>0, <2>1, <2>2 DEF SweepLinked, Linked, SweepsLinked, Due
  <2> QED
    BY <1>1, <1>2, <1>3, <1>4, <2>1, <2>3 DEF Linked
<1>8. CASE SweepEntry(s)
  <2> DEFINE it == sweeps[s].lot
             e == Entry("CREDIT_EXPIRATION", lots[it].owner, None, Logged(s), 0, None, it, NoLots)
  <2>1. /\ sweeps' = [sweeps EXCEPT ![s] = EntryRowOf(s)] /\ lots' = lots /\ ledger' = Append(ledger, e)
    BY <1>8, SweepSteps DEF SweepEntry
  <2>2. sweeps'[s].pc \notin {"wallet", "entry"} /\ sweeps'[s].todo = sweeps[s].todo
    BY <1>0, <2>1 DEF EntryRowOf
  <2>3. RowLinked(e, lots')
    BY TypesApart, PlainRowLinked
  <2> HIDE DEF e
  <2>4. RowsLinked'
    BY <1>2, <2>1, <2>3, RowsStayLinked DEF Linked
  <2>5. SweepLinked(s)'
    BY <1>0, <2>1, <2>2 DEF SweepLinked, Linked, SweepsLinked, Due
  <2> QED
    BY <1>1, <1>2, <1>4, <2>1, <2>4, <2>5 DEF Linked
<1>9. CASE SweepCrash(s)
  <2>1. sweeps' = [sweeps EXCEPT ![s] = Idle] /\ lots' = lots /\ ledger' = ledger
    BY <1>9, SweepSteps DEF SweepCrash
  <2>2. sweeps'[s].pc = "idle" /\ sweeps'[s].todo = {}
    BY <1>0, <2>1 DEF Idle
  <2>3. SweepLinked(s)'
    BY <2>2 DEF SweepLinked
  <2> QED
    BY <1>1, <1>2, <1>3, <1>4, <2>1, <2>3 DEF Linked
<1> QED
  BY <1>5, <1>6, <1>7, <1>8, <1>9

LEMMA StepLinked ==
    ASSUME Typed, [Next]_vars, OneSweep, Linked
    PROVE  Linked' /\ LotsKept /\ PaymentsKept
<1>0. /\ BooksTyped /\ now \in Nat /\ now' \in Nat
  BY BoundsAssumption, StepTyped DEF Typed, StockTyped
<1> DEFINE Kept == Linked' /\ LotsKept /\ PaymentsKept
<1>1. ASSUME NEW u \in Users, NEW d \in Deposits, NEW k, Deposit(u, d, k) PROVE Kept
  BY <1>0, <1>1, DepositLinked
<1>2. ASSUME NEW u \in Users, NEW type \in CreditTypes \ {"PURCHASED"}, NEW row \in MintTypes,
             NEW g \in Grants, NEW k, Grant(u, type, row, g, k)
      PROVE  Kept
  BY <1>0, <1>2, GrantLinked
<1>3. ASSUME NEW type \in SaleTypes, NEW u \in Users, NEW c \in Users, NEW credits \in Nat, NEW k,
             Sale(type, u, c, credits, k)
      PROVE  Kept
  BY <1>0, <1>3, SaleLinked
<1>4. ASSUME NEW i \in DOMAIN ledger, Refund(i) PROVE Kept
  BY <1>0, <1>4, RefundLinked
<1>5. ASSUME NEW p \in DOMAIN payments, Chargeback(p) PROVE Kept
  BY <1>0, <1>5, ChargebackLinked
<1>6. ASSUME NEW s \in Sweepers,
             SweepFind(s) \/ SweepLot(s) \/ SweepWallet(s) \/ SweepEntry(s) \/ SweepCrash(s)
      PROVE  Kept
  BY <1>0, <1>6, SweepLinks
<1>7. ASSUME UNCHANGED <<wallets, lots, ledger, payments, sweeps, crashes>>, now <= now' PROVE Kept
  <2>1. lots' = lots /\ ledger' = ledger /\ payments' = payments /\ sweeps' = sweeps /\ now <= now'
    BY <1>7
  <2>2. LotsKept /\ PaymentsKept
    BY <2>1 DEF LotsKept, PaymentsKept
  <2>3. now \in Int /\ now' \in Int
    BY <1>0
  <2>4. SweepsLinked'
    BY <1>0, <2>1, <2>2, <2>3, SweepsStayLinked DEF Linked
  <2>5. LotsLinked' /\ RowsLinked'
    BY <2>1 DEF Linked, LotsLinked, RowsLinked
  <2> QED
    BY <2>2, <2>4, <2>5 DEF Linked
<1> HIDE DEF Kept
<1>8. Kept
  BY <1>1, <1>2, <1>3, <1>4, <1>5, <1>6, <1>7, StepCases DEF Steps
<1> QED
  BY <1>8 DEF Kept

-----------------------------------------------------------------------------
(* The typed balances are the lots *)

\* What some sweeps hold after one of them moved
LEMMA CreditsMove ==
    ASSUME BooksTyped, BooksTyped', NEW s \in Sweepers,
           \A r \in Sweepers : r # s => sweeps'[r] = sweeps[r],
           NEW S, S \subseteq Sweepers, NEW T, T \subseteq Sweepers,
           \A r \in Sweepers : r # s => (r \in T <=> r \in S)
    PROVE  /\ Total(SweptCredits, S) \in Nat /\ Total(SweptCredits', T) \in Nat
           /\ Total(SweptCredits', T) = Total(SweptCredits, S)
                + (IF s \in T THEN sweeps'[s].credits ELSE 0)
                - (IF s \in S THEN sweeps[s].credits ELSE 0)
<1> DEFINE f == SweptCredits
           g == [r \in Sweepers |-> sweeps'[r].credits]
           mf == [r \in Sweepers |-> IF r \in S THEN f[r] ELSE 0]
           mg == [r \in Sweepers |-> IF r \in T THEN g[r] ELSE 0]
<1>1. \A r \in Sweepers : /\ f[r] = sweeps[r].credits /\ f[r] \in Nat
                          /\ g[r] = sweeps'[r].credits /\ g[r] \in Nat
  <2>1. sweeps \in [Sweepers -> SweepRow] /\ sweeps' \in [Sweepers -> SweepRow]
    BY DEF BooksTyped, SweepsTyped
  <2> QED
    BY <2>1 DEF SweepRow, SweptCredits
<1>2. SweptCredits' = g
  BY DEF SweptCredits
<1>3. /\ \A r \in Sweepers : mf[r] = IF r \in S THEN f[r] ELSE 0
      /\ \A r \in Sweepers : mg[r] = IF r \in T THEN g[r] ELSE 0
  OBVIOUS
<1> HIDE DEF f, g, mf, mg
<1>4. Total(f, S) = Total(mf, Sweepers) /\ Total(g, T) = Total(mg, Sweepers)
  BY <1>1, <1>3, FinitenessAssumption, TotalMasked
<1>5. (\A r \in Sweepers : mf[r] \in Int /\ mg[r] \in Int) /\ \A r \in Sweepers \ {s} : mg[r] = mf[r]
  BY <1>1, <1>3
<1>6. Total(mg, Sweepers) = Total(mf, Sweepers) + mg[s] - mf[s]
  BY <1>5, FinitenessAssumption, TotalMoves
<1>7. Total(f, S) \in Nat /\ Total(g, T) \in Nat
  <2>1. IsFiniteSet(S) /\ IsFiniteSet(T)
    BY FinitenessAssumption, FS_Subset
  <2> QED
    BY <1>1, <2>1, TotalIsNat
<1> QED
  BY <1>1, <1>2, <1>3, <1>4, <1>6, <1>7 DEF f

HalfMine(row, ls, u, t) ==
    row.pc = "wallet" /\ ls[row.lot].owner = u /\ ls[row.lot].type = t

LEMMA HalfMoves ==
    ASSUME BooksTyped, BooksTyped', LotsKept, NEW s \in Sweepers,
           \A r \in Sweepers : r # s => sweeps'[r] = sweeps[r], NEW u, NEW t
    PROVE  /\ HalfSwept(u, t) \in Nat /\ HalfSwept(u, t)' \in Nat
           /\ HalfSwept(u, t)' = HalfSwept(u, t)
                + (IF HalfMine(sweeps'[s], lots', u, t) THEN sweeps'[s].credits ELSE 0)
                - (IF HalfMine(sweeps[s], lots, u, t) THEN sweeps[s].credits ELSE 0)
<1> DEFINE S == {r \in Sweepers : /\ sweeps[r].pc = "wallet" /\ lots[sweeps[r].lot].owner = u
                                  /\ lots[sweeps[r].lot].type = t}
           T == {r \in Sweepers : /\ sweeps'[r].pc = "wallet" /\ lots'[sweeps'[r].lot].owner = u
                                  /\ lots'[sweeps'[r].lot].type = t}
<1>1. HalfSwept(u, t) = Total(SweptCredits, S) /\ HalfSwept(u, t)' = Total(SweptCredits', T)
  BY DEF HalfSwept
<1>2. S \subseteq Sweepers /\ T \subseteq Sweepers
  OBVIOUS
<1>3. \A r \in Sweepers : r # s => (r \in T <=> r \in S)
  <2>1. \A r \in Sweepers : sweeps[r].pc = "wallet" =>
          /\ lots'[sweeps[r].lot].owner = lots[sweeps[r].lot].owner
          /\ lots'[sweeps[r].lot].type = lots[sweeps[r].lot].type
    BY SweepRead DEF LotsKept
  <2> QED
    BY <2>1
<1>4. (s \in S <=> HalfMine(sweeps[s], lots, u, t)) /\ (s \in T <=> HalfMine(sweeps'[s], lots', u, t))
  BY DEF HalfMine
<1> HIDE DEF S, T
<1>5. /\ Total(SweptCredits, S) \in Nat /\ Total(SweptCredits', T) \in Nat
      /\ Total(SweptCredits', T) = Total(SweptCredits, S)
           + (IF s \in T THEN sweeps'[s].credits ELSE 0)
           - (IF s \in S THEN sweeps[s].credits ELSE 0)
  BY <1>2, <1>3, CreditsMove
<1> QED
  BY <1>1, <1>4, <1>5

LEMMA HalfStays ==
    ASSUME BooksTyped, LotsKept, sweeps' = sweeps, NEW u, NEW t
    PROVE  HalfSwept(u, t)' = HalfSwept(u, t) /\ HalfSwept(u, t) \in Nat
<1> DEFINE S == {r \in Sweepers : /\ sweeps[r].pc = "wallet" /\ lots[sweeps[r].lot].owner = u
                                  /\ lots[sweeps[r].lot].type = t}
           T == {r \in Sweepers : /\ sweeps'[r].pc = "wallet" /\ lots'[sweeps'[r].lot].owner = u
                                  /\ lots'[sweeps'[r].lot].type = t}
<1>1. HalfSwept(u, t) = Total(SweptCredits, S) /\ HalfSwept(u, t)' = Total(SweptCredits', T)
  BY DEF HalfSwept
<1>2. T = S
  BY SweepRead DEF LotsKept
<1>3. SweptCredits' = SweptCredits
  BY DEF SweptCredits
<1>4. Total(SweptCredits, S) \in Nat
  <2>1. S \subseteq Sweepers
    OBVIOUS
  <2>2. IsFiniteSet(S)
    BY <2>1, FinitenessAssumption, FS_Subset
  <2>3. \A r \in S : SweptCredits[r] \in Nat
    BY <2>1, UnloggedFacts
  <2> HIDE DEF S
  <2> QED
    BY <2>2, <2>3, TotalIsNat
<1> QED
  BY <1>1, <1>2, <1>3, <1>4

\* The credits of u's active lots of type t
Mine(row, u, t) == row.owner = u /\ row.type = t /\ row.status = "ACTIVE"
Held(ls, u, t) == [l \in DOMAIN ls |-> IF Mine(ls[l], u, t) THEN ls[l].remaining ELSE 0]
HeldIn(ls, u, t) == Total(Held(ls, u, t), DOMAIN ls)

LEMMA HeldFacts ==
    ASSUME NEW ls, ls \in Seq(LotRow), NEW u, NEW t
    PROVE  /\ Total([l \in DOMAIN ls |-> ls[l].remaining],
                    {l \in DOMAIN ls : ls[l].owner = u /\ ls[l].type = t /\ ls[l].status = "ACTIVE"})
                = HeldIn(ls, u, t)
           /\ IsFiniteSet(DOMAIN ls) /\ HeldIn(ls, u, t) \in Nat
           /\ \A l \in DOMAIN ls :
                /\ Held(ls, u, t)[l] = IF Mine(ls[l], u, t) THEN ls[l].remaining ELSE 0
                /\ Held(ls, u, t)[l] \in Nat /\ ls[l].remaining \in Nat
<1> DEFINE f == [l \in DOMAIN ls |-> ls[l].remaining]
           S == {l \in DOMAIN ls : ls[l].owner = u /\ ls[l].type = t /\ ls[l].status = "ACTIVE"}
           g == Held(ls, u, t)
           D == DOMAIN ls
<1>1. IsFiniteSet(D)
  <2>1. D = 1 .. Len(ls) /\ Len(ls) \in Nat
    OBVIOUS
  <2> QED
    BY <2>1, FS_Interval
<1>2. \A l \in D : ls[l].remaining \in Nat
  <2>1. \A l \in D : ls[l] \in LotRow
    OBVIOUS
  <2> QED
    BY <2>1 DEF LotRow
<1>3. /\ S \subseteq D
      /\ \A l \in D : f[l] = ls[l].remaining /\ (l \in S <=> Mine(ls[l], u, t))
      /\ \A l \in D : g[l] = IF Mine(ls[l], u, t) THEN ls[l].remaining ELSE 0
  BY DEF Mine, Held
<1> HIDE DEF f, S, g, D
<1>4. \A l \in D : f[l] \in Int /\ g[l] \in Nat /\ g[l] = IF l \in S THEN f[l] ELSE 0
  BY <1>2, <1>3
<1>5. Total(f, S) = Total(g, D)
  BY <1>1, <1>3, <1>4, TotalMasked
<1>6. Total(g, D) \in Nat
  BY <1>1, <1>4, TotalIsNat
<1> QED
  BY <1>1, <1>2, <1>3, <1>4, <1>5, <1>6 DEF HeldIn, f, S, g, D

\* What a typed balance has over the lots and the sweeps under way
Gap(u, t) == wallets[u].typed[t] - HalfSwept(u, t) - HeldIn(lots, u, t)

LEMMA GapTyped ==
    ASSUME BooksTyped, BooksTyped', NEW u \in Users, NEW t \in CreditTypes
    PROVE  /\ wallets[u].typed[t] \in Int /\ wallets'[u].typed[t] \in Int
           /\ HeldIn(lots, u, t) \in Nat /\ HeldIn(lots', u, t) \in Nat
<1>1. wallets \in WalletRows /\ wallets' \in WalletRows /\ lots \in Seq(LotRow) /\ lots' \in Seq(LotRow)
  BY DEF BooksTyped, LotsTyped
<1> QED
  BY <1>1, ColumnsRead, HeldFacts

\* The gap stays when typed balance and lots move together and sweeps stand still.
LEMMA GapStays ==
    ASSUME BooksTyped, BooksTyped', LotsKept, sweeps' = sweeps, NEW u \in Users, NEW t \in CreditTypes,
           wallets'[u].typed[t] - wallets[u].typed[t] = HeldIn(lots', u, t) - HeldIn(lots, u, t)
    PROVE  Gap(u, t)' = Gap(u, t)
<1>1. HalfSwept(u, t)' = HalfSwept(u, t) /\ HalfSwept(u, t) \in Nat
  BY HalfStays
<1>2. Gap(u, t)' = wallets'[u].typed[t] - HalfSwept(u, t)' - HeldIn(lots', u, t)
  BY DEF Gap
<1> DEFINE h == HalfSwept(u, t)
           hh == HalfSwept(u, t)'
<1> HIDE DEF h, hh
<1> QED
  BY <1>1, <1>2, GapTyped DEF Gap

\* What a row took of each type, as a sum over all lots
PartOf(taken, t) ==
    [l \in DOMAIN lots |-> IF l \in DOMAIN taken /\ lots[l].type = t THEN taken[l] ELSE 0]

LEMMA PartFacts ==
    ASSUME LotsTyped, NEW taken, DOMAIN taken \subseteq DOMAIN lots,
           \A l \in DOMAIN taken : taken[l] \in Nat, NEW t
    PROVE  /\ Total(PartOf(taken, t), DOMAIN lots) = OfType(taken, t)
           /\ OfType(taken, t) \in Nat
           /\ \A l \in DOMAIN lots : /\ PartOf(taken, t)[l] \in Nat
                 /\ PartOf(taken, t)[l]
                      = IF l \in DOMAIN taken /\ lots[l].type = t THEN taken[l] ELSE 0
<1> DEFINE f == PartOf(taken, t)
           D == DOMAIN lots
           S == {l \in DOMAIN taken : lots[l].type = t}
<1>1. IsFiniteSet(D)
  BY LotFacts
<1>2. /\ \A l \in D : f[l] = IF l \in DOMAIN taken /\ lots[l].type = t THEN taken[l] ELSE 0
      /\ \A l \in D : f[l] \in Nat
  BY DEF PartOf
<1>3. S \subseteq D /\ IsFiniteSet(S)
  <2>1. S \subseteq D
    OBVIOUS
  <2> QED
    BY <1>1, <2>1, FS_Subset
<1>4. (\A l \in S : f[l] = taken[l] /\ taken[l] \in Nat) /\ \A l \in D \ S : f[l] = 0
  BY <1>2, <1>3
<1>5. OfType(taken, t) = Total(taken, S)
  BY DEF OfType
<1> HIDE DEF f, S, D
<1>6. \A l \in D : f[l] \in Int
  BY <1>2
<1>7. Total(f, D) = Total(f, S)
  BY <1>1, <1>3, <1>4, <1>6, TotalOfRest
<1>8. Total(f, S) = Total(taken, S)
  BY <1>3, <1>4, TotalAgrees
<1>9. Total(taken, S) \in Nat
  BY <1>3, <1>4, TotalIsNat
<1> QED
  BY <1>2, <1>5, <1>7, <1>8, <1>9 DEF f, D

\* Lots of u that gain what they are given, and no other
LEMMA HeldGains ==
    ASSUME NEW ls, ls \in Seq(LotRow), NEW new, new \in Seq(LotRow), DOMAIN new = DOMAIN ls,
           NEW u, NEW t, NEW m, \A l \in DOMAIN ls : m[l] \in Int,
           \A l \in DOMAIN ls : Held(new, u, t)[l] = Held(ls, u, t)[l] + m[l]
    PROVE  HeldIn(new, u, t) = HeldIn(ls, u, t) + Total(m, DOMAIN ls)
<1> DEFINE f == Held(ls, u, t)
           g == Held(new, u, t)
           D == DOMAIN ls
<1>1. IsFiniteSet(D) /\ \A l \in D : f[l] \in Int /\ m[l] \in Int /\ g[l] = f[l] + m[l]
  <2>1. IsFiniteSet(D) /\ \A l \in D : f[l] \in Nat
    BY HeldFacts
  <2>2. \A l \in D : g[l] = f[l] + m[l]
    OBVIOUS
  <2> HIDE DEF f, g
  <2> QED
    BY <2>1, <2>2
<1>2. HeldIn(new, u, t) = Total(g, D) /\ HeldIn(ls, u, t) = Total(f, D)
  BY DEF HeldIn
<1> HIDE DEF f, g, D
<1>3. Total(g, D) = Total(f, D) + Total(m, D)
  BY <1>1, TotalAdds
<1> QED
  BY <1>2, <1>3 DEF D

\* A lot no write touched counts as it did.
LEMMA HeldSame ==
    ASSUME NEW ls, ls \in Seq(LotRow), NEW new, new \in Seq(LotRow), DOMAIN new = DOMAIN ls,
           NEW u, NEW t, \A l \in DOMAIN ls : Held(new, u, t)[l] = Held(ls, u, t)[l]
    PROVE  HeldIn(new, u, t) = HeldIn(ls, u, t)
<1> DEFINE f == Held(ls, u, t)
           g == Held(new, u, t)
           D == DOMAIN ls
<1>1. IsFiniteSet(D) /\ \A l \in D : g[l] = f[l]
  BY HeldFacts
<1>2. HeldIn(new, u, t) = Total(g, D) /\ HeldIn(ls, u, t) = Total(f, D)
  BY DEF HeldIn
<1> HIDE DEF f, g, D
<1>3. Total(g, D) = Total(f, D)
  BY <1>1, TotalAgrees
<1> QED
  BY <1>2, <1>3

LEMMA SaleDraws ==
    ASSUME BooksTyped, NEW type, type \in SaleTypes, NEW fan \in Users, NEW creator \in Users,
           NEW credits, credits \in Nat, NEW k, Sale(type, fan, creator, credits, k)
    PROVE  /\ \A x \in Users : \A r \in CreditTypes : wallets'[x].typed[r] = wallets[x].typed[r]
                  - (IF x = fan THEN OfType(Drawdown(fan, credits), r) ELSE 0)
           /\ \A x \in Users : wallets'[x].balance = wallets[x].balance
                  - (IF x = fan THEN credits ELSE 0)
                  + (IF x = creator THEN credits - PlatformFee(credits) ELSE 0)
<1> DEFINE net == credits - PlatformFee(credits)
           taken == Drawdown(fan, credits)
           e == Entry(type, fan, creator, credits, net, k, 0, taken)
<1>1. /\ net \in Nat /\ \A t \in CreditTypes : OfType(taken, t) \in Nat
      /\ wallets' \in WalletRows
      /\ \A x \in Users :
            /\ wallets'[x].balance = wallets[x].balance
                 - (IF x = fan THEN credits ELSE 0) + (IF x = creator THEN net ELSE 0)
            /\ \A t \in CreditTypes : wallets'[x].typed[t] = wallets[x].typed[t]
                 - (IF x = fan THEN OfType(taken, t) ELSE 0)
      /\ SameLots(lots')
      /\ ledger' = Append(ledger, e) /\ EntryTyped(e, Len(lots))
  BY SaleFacts
<1> HIDE DEF e
<1> QED
  BY <1>1

LEMMA SaleGap ==
    ASSUME BooksTyped, BooksTyped', LotsKept, NEW type, type \in SaleTypes, NEW fan \in Users,
           NEW creator \in Users, NEW credits, credits \in Nat, NEW k,
           Sale(type, fan, creator, credits, k), NEW u \in Users, NEW t \in CreditTypes
    PROVE  Gap(u, t)' = Gap(u, t)
<1> DEFINE taken == Drawdown(fan, credits)
           D == DOMAIN lots
           m == PartOf(taken, t)
<1>1. /\ wallets'[u].typed[t] = wallets[u].typed[t] - (IF u = fan THEN OfType(taken, t) ELSE 0)
      /\ SameLots(lots')
  <2>1. /\ \A x \in Users : \A r \in CreditTypes : wallets'[x].typed[r] = wallets[x].typed[r]
                  - (IF x = fan THEN OfType(Drawdown(fan, credits), r) ELSE 0)
        /\ \A x \in Users : wallets'[x].balance = wallets[x].balance
                  - (IF x = fan THEN credits ELSE 0)
                  + (IF x = creator THEN credits - PlatformFee(credits) ELSE 0)
    BY SaleDraws
  <2>2. SameLots(lots')
    BY SaleFacts
  <2> QED
    BY <2>1, <2>2
<1>2. lots' = DrawnOn(taken) /\ sweeps' = sweeps
  BY DEF Sale
<1>3. /\ DOMAIN taken \subseteq D
      /\ \A l \in DOMAIN taken : /\ taken[l] \in Nat /\ taken[l] <= lots[l].remaining
                                 /\ lots[l].owner = fan /\ lots[l].status = "ACTIVE"
  BY ZenonT(30), DrawdownFacts DEF BooksTyped, Drawdown, Available
<1> HIDE DEF taken
<1>4. /\ \A l \in D \ DOMAIN taken : lots'[l] = lots[l]
      /\ \A l \in DOMAIN taken :
            /\ lots'[l].remaining = lots[l].remaining - taken[l]
            /\ lots'[l].status = IF taken[l] = lots[l].remaining THEN "DEPLETED" ELSE "ACTIVE"
  BY <1>2, <1>3, DrawnOnFacts DEF BooksTyped
<1>5. /\ LotsTyped /\ lots \in Seq(LotRow) /\ lots' \in Seq(LotRow) /\ DOMAIN lots' = D
  BY <1>1 DEF SameLots, BooksTyped, LotsTyped
<1>6. /\ Total(m, D) = OfType(taken, t) /\ OfType(taken, t) \in Nat
      /\ \A l \in D : /\ m[l] \in Nat
                      /\ m[l] = IF l \in DOMAIN taken /\ lots[l].type = t THEN taken[l] ELSE 0
  BY <1>3, <1>5, PartFacts
<1> HIDE DEF m
<1>7. ASSUME NEW l \in D
      PROVE  Held(lots, u, t)[l] = Held(lots', u, t)[l] + (IF u = fan THEN m[l] ELSE 0)
  <2>1. /\ Held(lots, u, t)[l] = IF Mine(lots[l], u, t) THEN lots[l].remaining ELSE 0
        /\ Held(lots', u, t)[l] = IF Mine(lots'[l], u, t) THEN lots'[l].remaining ELSE 0
        /\ lots[l].remaining \in Nat /\ lots'[l].remaining \in Nat
    BY <1>5, HeldFacts
  <2>2. lots'[l].owner = lots[l].owner /\ lots'[l].type = lots[l].type
    BY <1>1 DEF SameLots
  <2>3. CASE l \in DOMAIN taken
    BY <1>3, <1>4, <1>6, <2>1, <2>2, <2>3 DEF Mine
  <2>4. CASE l \notin DOMAIN taken
    BY <1>4, <1>6, <2>1, <2>4
  <2> QED
    BY <2>3, <2>4
<1>8. HeldIn(lots, u, t) = HeldIn(lots', u, t) + (IF u = fan THEN OfType(taken, t) ELSE 0)
  <2>1. CASE u = fan
    <3>1. \A l \in DOMAIN lots' : m[l] \in Int /\ Held(lots, u, t)[l] = Held(lots', u, t)[l] + m[l]
      BY <1>5, <1>6, <1>7, <2>1
    <3>2. HeldIn(lots, u, t) = HeldIn(lots', u, t) + Total(m, DOMAIN lots')
      BY <1>5, <3>1, HeldGains
    <3> QED
      BY <1>5, <1>6, <2>1, <3>2
  <2>2. CASE u # fan
    <3>1. \A l \in DOMAIN lots' : Held(lots, u, t)[l] = Held(lots', u, t)[l]
      <4>1. \A l \in D : Held(lots', u, t)[l] \in Nat
        BY <1>5, HeldFacts
      <4> QED
        BY <1>5, <1>7, <2>2, <4>1
    <3>2. HeldIn(lots, u, t) = HeldIn(lots', u, t)
      BY <1>5, <3>1, HeldSame
    <3>3. HeldIn(lots', u, t) \in Nat
      BY <1>5, HeldFacts
    <3> QED
      BY <2>2, <3>2, <3>3
  <2> QED
    BY <2>1, <2>2
<1>9. wallets'[u].typed[t] - wallets[u].typed[t] = HeldIn(lots', u, t) - HeldIn(lots, u, t)
  BY <1>1, <1>6, <1>8, GapTyped
<1> QED
  BY <1>2, <1>9, GapStays

LEMMA RefundGap ==
    ASSUME BooksTyped, BooksTyped', LotsKept, Linked, NEW i, i \in DOMAIN ledger,
           Refund(i), NEW u \in Users, ~Disputed(u), NEW t \in CreditTypes
    PROVE  Gap(u, t)' = Gap(u, t)
<1> DEFINE o == ledger[i]
           taken == o.taken
           fan == o.src
           D == DOMAIN lots
           m == PartOf(taken, t)
<1>1. /\ wallets'[u].typed[t] = wallets[u].typed[t] + (IF u = fan THEN OfType(taken, t) ELSE 0)
      /\ lots' = Restored(taken) /\ SameLots(lots') /\ EntryTyped(o, Len(lots)) /\ o.type \in RefundTypes
  BY RefundFacts
<1>2. sweeps' = sweeps
  BY DEF Refund
<1>3. /\ DOMAIN taken \subseteq D
      /\ \A l \in DOMAIN taken : taken[l] \in Nat /\ lots[l].owner = fan
  <2>1. DOMAIN taken \subseteq D /\ \A l \in DOMAIN taken : taken[l] \in Nat
    BY <1>1, LotFacts DEF EntryTyped, BooksTyped
  <2>2. RowLinked(o, lots)
    BY DEF Linked, RowsLinked
  <2> HIDE DEF o
  <2> QED
    BY <2>1, <2>2 DEF RowLinked
<1> HIDE DEF o, taken, fan
<1>4. /\ \A l \in D \ DOMAIN taken : lots'[l] = lots[l]
      /\ \A l \in DOMAIN taken :
            lots'[l].remaining = lots[l].remaining + taken[l] /\ lots'[l].status = "ACTIVE"
  BY <1>1, <1>3, RestoredFacts DEF BooksTyped
<1>5. /\ LotsTyped /\ lots \in Seq(LotRow) /\ lots' \in Seq(LotRow) /\ DOMAIN lots' = D
  BY <1>1 DEF SameLots, BooksTyped, LotsTyped
<1>6. /\ Total(m, D) = OfType(taken, t) /\ OfType(taken, t) \in Nat
      /\ \A l \in D : /\ m[l] \in Nat
                      /\ m[l] = IF l \in DOMAIN taken /\ lots[l].type = t THEN taken[l] ELSE 0
  BY <1>3, <1>5, PartFacts
<1> HIDE DEF m
\* The lots of an undisputed fan are active or empty.
<1>7. \A l \in D : lots[l].owner = u => lots[l].status = "ACTIVE" \/ lots[l].remaining = 0
  <2>1. ASSUME NEW l \in D, lots[l].owner = u PROVE lots[l].status = "ACTIVE" \/ lots[l].remaining = 0
    <3>1. LotLinked(lots[l], payments)
      BY DEF Linked, LotsLinked
    <3>2. lots[l].status \in LotStatus
      BY <1>5, LotFacts DEF LotRow
    <3>3. ~IsDisputed(u, payments)
      BY DEF Disputed, IsDisputed
    <3> QED
      BY <2>1, <3>1, <3>2, <3>3 DEF LotLinked, LotStatus
  <2> QED
    BY <2>1
<1>8. ASSUME NEW l \in D
      PROVE  Held(lots', u, t)[l] = Held(lots, u, t)[l] + (IF u = fan THEN m[l] ELSE 0)
  <2>1. /\ Held(lots, u, t)[l] = IF Mine(lots[l], u, t) THEN lots[l].remaining ELSE 0
        /\ Held(lots', u, t)[l] = IF Mine(lots'[l], u, t) THEN lots'[l].remaining ELSE 0
        /\ lots[l].remaining \in Nat /\ lots'[l].remaining \in Nat
    BY <1>5, HeldFacts
  <2>2. lots'[l].owner = lots[l].owner /\ lots'[l].type = lots[l].type
    BY <1>1 DEF SameLots
  <2>3. CASE l \in DOMAIN taken
    BY <1>3, <1>4, <1>6, <1>7, <2>1, <2>2, <2>3 DEF Mine
  <2>4. CASE l \notin DOMAIN taken
    BY <1>4, <1>6, <2>1, <2>4
  <2> QED
    BY <2>3, <2>4
<1>9. HeldIn(lots', u, t) = HeldIn(lots, u, t) + (IF u = fan THEN OfType(taken, t) ELSE 0)
  <2>1. CASE u = fan
    <3>1. \A l \in DOMAIN lots : m[l] \in Int /\ Held(lots', u, t)[l] = Held(lots, u, t)[l] + m[l]
      BY <1>6, <1>8, <2>1
    <3>2. HeldIn(lots', u, t) = HeldIn(lots, u, t) + Total(m, DOMAIN lots)
      BY <1>5, <3>1, HeldGains
    <3> QED
      BY <1>6, <2>1, <3>2
  <2>2. CASE u # fan
    <3>1. \A l \in DOMAIN lots : Held(lots', u, t)[l] = Held(lots, u, t)[l]
      <4>1. \A l \in D : Held(lots, u, t)[l] \in Nat
        BY <1>5, HeldFacts
      <4> QED
        BY <1>8, <2>2, <4>1
    <3>2. HeldIn(lots', u, t) = HeldIn(lots, u, t)
      BY <1>5, <3>1, HeldSame
    <3>3. HeldIn(lots, u, t) \in Nat
      BY <1>5, HeldFacts
    <3> QED
      BY <2>2, <3>2, <3>3
  <2> QED
    BY <2>1, <2>2
<1>10. wallets'[u].typed[t] - wallets[u].typed[t] = HeldIn(lots', u, t) - HeldIn(lots, u, t)
  BY <1>1, <1>6, <1>9, GapTyped
<1> QED
  BY <1>2, <1>10, GapStays

\* Lots new are lots ls and one more, k.
OneMore(ls, new, k) ==
    /\ new \in Seq(LotRow) /\ k \notin DOMAIN ls /\ DOMAIN new = DOMAIN ls \cup {k}
    /\ \A l \in DOMAIN ls : new[l] = ls[l]

LEMMA AppendIsOneMore ==
    ASSUME NEW ls, ls \in Seq(LotRow), NEW row, row \in LotRow
    PROVE  OneMore(ls, Append(ls, row), Len(ls) + 1) /\ Append(ls, row)[Len(ls) + 1] = row
<1> DEFINE new == Append(ls, row)
<1>1. new \in Seq(LotRow)
  OBVIOUS
<1>2. /\ DOMAIN new = DOMAIN ls \cup {Len(ls) + 1} /\ Len(ls) + 1 \notin DOMAIN ls
      /\ new[Len(ls) + 1] = row /\ \A l \in DOMAIN ls : new[l] = ls[l]
  OBVIOUS
<1> HIDE DEF new
<1>3. OneMore(ls, new, Len(ls) + 1)
  BY <1>1, <1>2 DEF OneMore
<1> QED
  BY <1>2, <1>3 DEF new

LEMMA HeldAppend ==
    ASSUME NEW ls, ls \in Seq(LotRow), NEW new, NEW k, OneMore(ls, new, k), NEW u, NEW t
    PROVE  HeldIn(new, u, t) = HeldIn(ls, u, t) + (IF Mine(new[k], u, t) THEN new[k].remaining ELSE 0)
<1> DEFINE f == Held(ls, u, t)
           g == Held(new, u, t)
           D == DOMAIN ls
<1>1. new \in Seq(LotRow)
  BY DEF OneMore
<1>2. DOMAIN new = D \cup {k} /\ k \notin D /\ \A l \in D : new[l] = ls[l]
  BY DEF OneMore
<1>3. IsFiniteSet(D) /\ \A l \in D : f[l] = (IF Mine(ls[l], u, t) THEN ls[l].remaining ELSE 0) /\ f[l] \in Nat
  BY HeldFacts
<1>4. \A l \in DOMAIN new : g[l] = (IF Mine(new[l], u, t) THEN new[l].remaining ELSE 0) /\ g[l] \in Nat
  BY <1>1, HeldFacts
<1>5. HeldIn(new, u, t) = Total(g, DOMAIN new) /\ HeldIn(ls, u, t) = Total(f, D)
  BY DEF HeldIn
<1> HIDE DEF f, g, D
<1>6. \A l \in D : g[l] = f[l]
  BY <1>2, <1>3, <1>4
<1>7. \A l \in D \cup {k} : g[l] \in Int
  BY <1>2, <1>4
<1>8. Total(g, D \cup {k}) = Total(g, D) + g[k]
  BY <1>2, <1>3, <1>7, TotalWith
<1>9. Total(g, D) = Total(f, D)
  BY <1>3, <1>6, TotalAgrees
<1> QED
  BY <1>1, <1>2, <1>4, <1>5, <1>8, <1>9

LEMMA DepositGap ==
    ASSUME BooksTyped, BooksTyped', LotsKept, NEW u, u \in Users, NEW d, d \in Deposits, NEW k,
           Deposit(u, d, k), NEW x \in Users, NEW t \in CreditTypes
    PROVE  Gap(x, t)' = Gap(x, t)
<1> DEFINE main == NewLot(u, "PURCHASED", d[1], Never, Len(payments) + 1)
           extra == NewLot(u, "BONUS", d[2], Never, Len(payments) + 1)
           mid == Append(lots, main)
<1>1. /\ d[1] \in Nat /\ d[2] \in Nat
      /\ \A y \in Users : \A r \in CreditTypes : wallets'[y].typed[r] = wallets[y].typed[r]
                          + (IF y = u THEN (IF r = "PURCHASED" THEN d[1] ELSE 0)
                                           + (IF r = "BONUS" THEN d[2] ELSE 0)
                                      ELSE 0)
      /\ lots' = lots \o MintedLots(u, d)
  BY DepositFacts
<1>2. wallets'[x].typed[t] = wallets[x].typed[t]
          + (IF x = u THEN (IF t = "PURCHASED" THEN d[1] ELSE 0) + (IF t = "BONUS" THEN d[2] ELSE 0)
                      ELSE 0)
  BY <1>1
<1>3. /\ main \in LotRow /\ extra \in LotRow
      /\ Mine(main, x, t) <=> x = u /\ t = "PURCHASED"
      /\ Mine(extra, x, t) <=> x = u /\ t = "BONUS"
      /\ main.remaining = d[1] /\ extra.remaining = d[2]
  <2>1. Len(payments) + 1 \in Nat
    BY DEF BooksTyped
  <2> QED
    BY <1>1, <2>1, NeverIsInt DEF NewLot, LotRow, LotStatus, CreditTypes, Mine
<1>4. lots \in Seq(LotRow)
  BY DEF BooksTyped, LotsTyped
<1>5. lots' = IF d[2] > 0 THEN Append(mid, extra) ELSE mid
  <2>1. lots' = IF d[2] > 0 THEN lots \o <<main, extra>> ELSE lots \o <<main>>
    BY <1>1 DEF MintedLots
  <2> HIDE DEF main, extra
  <2>2. lots \o <<main>> = Append(lots, main)
    BY <1>3, <1>4
  <2>3. lots \o <<main, extra>> = Append(Append(lots, main), extra)
    BY <1>3, <1>4
  <2> QED
    BY <2>1, <2>2, <2>3
<1> HIDE DEF main, extra
<1>6. /\ mid \in Seq(LotRow)
      /\ HeldIn(mid, x, t) = HeldIn(lots, x, t) + (IF Mine(main, x, t) THEN main.remaining ELSE 0)
  <2> DEFINE n == Len(lots) + 1
  <2>1. OneMore(lots, mid, n) /\ mid[n] = main
    BY <1>3, <1>4, AppendIsOneMore
  <2> HIDE DEF mid, n
  <2>2. HeldIn(mid, x, t) = HeldIn(lots, x, t) + (IF Mine(mid[n], x, t) THEN mid[n].remaining ELSE 0)
    BY <1>4, <2>1, HeldAppend
  <2> QED
    BY <2>1, <2>2 DEF OneMore
<1> HIDE DEF mid
<1> DEFINE last == Append(mid, extra)
<1> HIDE DEF last
<1>7. HeldIn(last, x, t) = HeldIn(mid, x, t) + (IF Mine(extra, x, t) THEN extra.remaining ELSE 0)
  <2> DEFINE n == Len(mid) + 1
  <2>1. OneMore(mid, last, n) /\ last[n] = extra
    BY <1>3, <1>6, AppendIsOneMore DEF last
  <2> HIDE DEF n
  <2>2. HeldIn(last, x, t) = HeldIn(mid, x, t) + (IF Mine(last[n], x, t) THEN last[n].remaining ELSE 0)
    BY <1>6, <2>1, HeldAppend
  <2> QED
    BY <2>1, <2>2
<1>8. wallets'[x].typed[t] - wallets[x].typed[t] = HeldIn(lots', x, t) - HeldIn(lots, x, t)
  <2>1. HeldIn(lots', x, t) = HeldIn(lots, x, t)
          + (IF x = u /\ t = "PURCHASED" THEN d[1] ELSE 0) + (IF x = u /\ t = "BONUS" THEN d[2] ELSE 0)
    <3>1. HeldIn(lots, x, t) \in Nat /\ HeldIn(mid, x, t) \in Nat
      BY <1>4, <1>6, HeldFacts
    <3>2. CASE d[2] > 0
      BY <1>1, <1>3, <1>5, <1>6, <1>7, <3>1, <3>2 DEF last
    <3>3. CASE ~(d[2] > 0)
      <4>1. d[2] = 0 /\ lots' = mid
        BY <1>1, <1>5, <3>3
      <4> QED
        BY <1>1, <1>3, <1>6, <3>1, <4>1
    <3> QED
      BY <3>2, <3>3
  <2> QED
    BY <1>1, <1>2, <2>1, GapTyped
<1>9. sweeps' = sweeps
  BY DEF Deposit
<1> QED
  BY <1>8, <1>9, GapStays

LEMMA GrantGap ==
    ASSUME BooksTyped, BooksTyped', LotsKept, now \in Nat, NEW u, u \in Users, NEW type,
           type \in CreditTypes, NEW row, row \in MintTypes, NEW g, g \in Grants, NEW k,
           Grant(u, type, row, g, k), NEW x \in Users, NEW t \in CreditTypes
    PROVE  Gap(x, t)' = Gap(x, t)
<1> DEFINE lot == GrantedLot(u, type, g)
<1>1. /\ g[1] \in Nat
      /\ \A y \in Users : \A r \in CreditTypes : wallets'[y].typed[r] = wallets[y].typed[r]
                          + (IF y = u THEN (IF r = type THEN g[1] ELSE 0) ELSE 0)
      /\ lots' = lots \o <<lot>> /\ lot \in LotRow
  BY GrantFacts
<1>2. lots \in Seq(LotRow)
  BY DEF BooksTyped, LotsTyped
<1>3. (Mine(lot, x, t) <=> x = u /\ t = type) /\ lot.remaining = g[1]
  BY DEF GrantedLot, NewLot, Mine
<1> HIDE DEF lot
<1>4. lots' = Append(lots, lot)
  BY <1>1, <1>2
<1>5. HeldIn(lots', x, t) = HeldIn(lots, x, t) + (IF Mine(lot, x, t) THEN lot.remaining ELSE 0)
  <2> DEFINE new == lots'
             n == Len(lots) + 1
  <2>1. OneMore(lots, new, n) /\ new[n] = lot
    BY <1>1, <1>2, <1>4, AppendIsOneMore
  <2> HIDE DEF new, n
  <2>2. HeldIn(new, x, t) = HeldIn(lots, x, t) + (IF Mine(new[n], x, t) THEN new[n].remaining ELSE 0)
    BY <1>2, <2>1, HeldAppend
  <2> QED
    BY <2>1, <2>2 DEF new
<1>6. wallets'[x].typed[t] - wallets[x].typed[t] = HeldIn(lots', x, t) - HeldIn(lots, x, t)
  <2>1. wallets'[x].typed[t] = wallets[x].typed[t] + (IF x = u THEN (IF t = type THEN g[1] ELSE 0) ELSE 0)
    BY <1>1
  <2> QED
    BY <1>1, <1>3, <1>5, <2>1, GapTyped
<1>7. sweeps' = sweeps
  BY DEF Grant
<1> QED
  BY <1>6, <1>7, GapStays

LEMMA ChargebackGap ==
    ASSUME BooksTyped, BooksTyped', LotsKept, Linked, NEW p, p \in DOMAIN payments, Chargeback(p),
           NEW u \in Users, u # payments[p].owner, NEW t \in CreditTypes
    PROVE  Gap(u, t)' = Gap(u, t)
<1> DEFINE D == DOMAIN lots
<1>1. /\ lots' = Revoked(p) /\ SameLots(lots')
      /\ \A x \in Users : x # payments[p].owner => wallets'[x].typed = wallets[x].typed
  BY ChargebackFacts
<1>2. \A l \in D : lots[l].payment # p => lots'[l] = lots[l]
  BY <1>1, RevokedFacts DEF BooksTyped
<1>3. p # 0
  BY DEF BooksTyped
<1>4. \A l \in D : lots[l].owner = u => lots'[l] = lots[l]
  BY <1>2, <1>3 DEF Linked, LotsLinked, LotLinked
<1>5. lots \in Seq(LotRow) /\ lots' \in Seq(LotRow) /\ DOMAIN lots' = D
  BY <1>1 DEF SameLots, BooksTyped, LotsTyped
<1>6. ASSUME NEW l \in D PROVE Held(lots', u, t)[l] = Held(lots, u, t)[l]
  <2>1. /\ Held(lots, u, t)[l] = IF Mine(lots[l], u, t) THEN lots[l].remaining ELSE 0
        /\ Held(lots', u, t)[l] = IF Mine(lots'[l], u, t) THEN lots'[l].remaining ELSE 0
    BY <1>5, HeldFacts
  <2>2. lots'[l].owner = lots[l].owner
    BY <1>1 DEF SameLots
  <2> QED
    BY <1>4, <2>1, <2>2 DEF Mine
<1>7. HeldIn(lots', u, t) = HeldIn(lots, u, t)
  BY <1>5, <1>6, HeldSame
<1>8. wallets'[u].typed[t] = wallets[u].typed[t]
  BY <1>1
<1>9. wallets'[u].typed[t] - wallets[u].typed[t] = HeldIn(lots', u, t) - HeldIn(lots, u, t)
  BY <1>7, <1>8, GapTyped
<1>10. sweeps' = sweeps
  BY DEF Chargeback
<1> QED
  BY <1>9, <1>10, GapStays

\* A sweep takes from a typed balance what it took from the lot of that type;
\* one that is cut short leaves the balance the more.
LEMMA SweepGap ==
    ASSUME BooksTyped, BooksTyped', LotsKept, Linked, NEW s \in Sweepers,
           SweepFind(s) \/ SweepLot(s) \/ SweepWallet(s) \/ SweepEntry(s) \/ SweepCrash(s),
           NEW u \in Users, NEW t \in CreditTypes
    PROVE  Gap(u, t)' = Gap(u, t) \/ ((SweepCrash(s) \/ ~Apart) /\ Gap(u, t)' >= Gap(u, t))
<1>0. /\ LotsTyped /\ lots \in Seq(LotRow) /\ lots' \in Seq(LotRow) /\ sweeps \in [Sweepers -> SweepRow]
      /\ sweeps[s] \in SweepRow /\ sweeps[s].credits \in Nat
  BY SweepRead DEF BooksTyped, LotsTyped, SweepsTyped
<1> DEFINE took(row, ls) == IF HalfMine(row, ls, u, t) THEN row.credits ELSE 0
           h == HalfSwept(u, t)
           hh == HalfSwept(u, t)'
           w == wallets[u].typed[t]
           ww == wallets'[u].typed[t]
           a == HeldIn(lots, u, t)
           aa == HeldIn(lots', u, t)
<1>1. w \in Int /\ ww \in Int /\ a \in Nat /\ aa \in Nat
  BY GapTyped
<1>2. Gap(u, t) = w - h - a /\ Gap(u, t)' = ww - hh - aa
  BY DEF Gap
<1>3. ASSUME \A r \in Sweepers : r # s => sweeps'[r] = sweeps[r]
      PROVE  h \in Nat /\ hh \in Nat /\ hh = h + took(sweeps'[s], lots') - took(sweeps[s], lots)
  BY <1>3, HalfMoves
<1>4. ASSUME lots' = lots PROVE aa = a
  BY <1>4
<1> HIDE DEF h, hh, w, ww, a, aa
<1>5. CASE SweepFind(s)
  <2>1. sweeps' = [sweeps EXCEPT ![s] = FoundRow] /\ lots' = lots /\ wallets' = wallets
        /\ sweeps[s].pc = "idle"
    BY <1>5, SweepSteps DEF SweepFind
  <2>2. sweeps'[s].pc = "lot" /\ \A r \in Sweepers : r # s => sweeps'[r] = sweeps[r]
    BY <1>0, <2>1 DEF FoundRow
  <2>3. took(sweeps'[s], lots') = 0 /\ took(sweeps[s], lots) = 0
    BY <2>1, <2>2 DEF HalfMine
  <2>4. ww = w
    BY <2>1 DEF w, ww
  <2>5. Gap(u, t)' = Gap(u, t)
    BY <1>1, <1>2, <1>3, <1>4, <2>1, <2>2, <2>3, <2>4
  <2> QED
    BY <2>5
<1>6. CASE SweepLot(s)
  <2>1. PICK item \in sweeps[s].todo :
          lots' = Expired(item[1]) /\ sweeps' = [sweeps EXCEPT ![s] = LotRowOf(s, item)]
    BY <1>6, SweepSteps
  <2> DEFINE l == item[1]
             c == item[2]
             f == Held(lots, u, t)
             g == Held(lots', u, t)
  <2>2. /\ l \in DOMAIN lots /\ c \in Nat /\ Due(l, c) /\ sweeps[s].pc = "lot" /\ wallets' = wallets
    BY <1>6, SweepRead DEF SweepLot, Linked, SweepsLinked, SweepLinked
  <2>3. /\ sweeps'[s].pc = "wallet" /\ sweeps'[s].lot = l /\ sweeps'[s].credits = c
        /\ \A r \in Sweepers : r # s => sweeps'[r] = sweeps[r]
    BY <1>0, <2>1 DEF LotRowOf
  <2>4. /\ SameLots(lots') /\ lots'[l].status = "EXPIRED"
        /\ \A m \in DOMAIN lots \ {l} : lots'[m] = lots[m]
    BY <1>0, <2>1, <2>2, ExpiredFacts
  <2>5. /\ took(sweeps[s], lots) = 0
        /\ took(sweeps'[s], lots') = IF lots[l].owner = u /\ lots[l].type = t THEN c ELSE 0
    BY <2>2, <2>3, <2>4 DEF HalfMine, SameLots
  <2>6. /\ IsFiniteSet(DOMAIN lots) /\ DOMAIN lots' = DOMAIN lots
        /\ \A m \in DOMAIN lots :
              /\ f[m] = (IF Mine(lots[m], u, t) THEN lots[m].remaining ELSE 0) /\ f[m] \in Nat
              /\ g[m] = (IF Mine(lots'[m], u, t) THEN lots'[m].remaining ELSE 0) /\ g[m] \in Nat
    <3>1. DOMAIN lots' = DOMAIN lots
      BY <2>4 DEF SameLots
    <3>2. /\ IsFiniteSet(DOMAIN lots)
          /\ \A m \in DOMAIN lots :
                f[m] = (IF Mine(lots[m], u, t) THEN lots[m].remaining ELSE 0) /\ f[m] \in Nat
      BY <1>0, HeldFacts
    <3>3. \A m \in DOMAIN lots' :
                g[m] = (IF Mine(lots'[m], u, t) THEN lots'[m].remaining ELSE 0) /\ g[m] \in Nat
      BY <1>0, HeldFacts
    <3> QED
      BY <3>1, <3>2, <3>3
  <2> HIDE DEF l, c
  <2>7. a = Total(f, DOMAIN lots) /\ aa = Total(g, DOMAIN lots)
    BY <2>6 DEF a, aa, HeldIn
  <2> HIDE DEF f, g
  <2>8. /\ g[l] = 0 /\ f[l] = IF lots[l].owner = u /\ lots[l].type = t THEN lots[l].remaining ELSE 0
        /\ lots[l].remaining >= c /\ (Apart => lots[l].remaining = c)
        /\ \A m \in DOMAIN lots \ {l} : g[m] = f[m]
    BY <2>2, <2>4, <2>6 DEF Mine, Due
  <2>9. aa = a + g[l] - f[l]
    <3>1. \A m \in DOMAIN lots : f[m] \in Int /\ g[m] \in Int
      BY <2>6
    <3>2. Total(g, DOMAIN lots) = Total(f, DOMAIN lots) + g[l] - f[l]
      BY <2>2, <2>6, <2>8, <3>1, TotalMoves
    <3> QED
      BY <2>7, <3>2
  <2>10. ww = w
    BY <2>2 DEF w, ww
  <2>11. h \in Nat /\ hh \in Nat /\ hh = h + took(sweeps'[s], lots') - took(sweeps[s], lots)
    BY <1>3, <2>3
  <2> DEFINE x == IF lots[l].owner = u /\ lots[l].type = t THEN c ELSE 0
  <2>12. /\ hh = h + x /\ aa = a - f[l] /\ f[l] \in Nat /\ x \in Nat /\ f[l] >= x
         /\ Apart => f[l] = x
    BY <1>1, <2>2, <2>5, <2>6, <2>8, <2>9, <2>11
  <2> HIDE DEF x
  <2>13. Gap(u, t)' >= Gap(u, t) /\ (Apart => Gap(u, t)' = Gap(u, t))
    BY <1>1, <1>2, <2>10, <2>11, <2>12
  <2> QED
    BY <2>13
<1>7. CASE SweepWallet(s)
  <2> DEFINE lot == lots[sweeps[s].lot]
             n == sweeps[s].credits
             change == [r \in CreditTypes |-> IF r = SweptType(lot) THEN -n ELSE 0]
  <2>1. /\ sweeps' = [sweeps EXCEPT ![s] = WalletRowOf(s)] /\ lots' = lots
        /\ sweeps[s].pc = "wallet" /\ wallets' = Swept(lot, n)
    BY <1>7, SweepSteps DEF SweepWallet
  <2>2. /\ sweeps'[s].pc = "entry" /\ \A r \in Sweepers : r # s => sweeps'[r] = sweeps[r]
    BY <1>0, <2>1 DEF WalletRowOf
  <2>3. /\ sweeps[s].lot \in DOMAIN lots /\ n \in Nat /\ lot \in LotRow /\ lot.expires # Never
    BY <1>0, <2>1, SweepRead, LotFacts DEF Linked, SweepsLinked, SweepLinked
  <2>4. lot.owner \in Users /\ lot.type \in CreditTypes /\ SweptType(lot) = lot.type
    <3>1. LotLinked(lot, payments)
      BY <2>3 DEF Linked, LotsLinked
    <3> HIDE DEF lot
    <3> QED
      BY <2>3, <3>1 DEF LotLinked, LotRow, SweptType, CreditTypes
  <2>5. took(sweeps'[s], lots') = 0 /\ took(sweeps[s], lots) = IF lot.owner = u /\ lot.type = t THEN n ELSE 0
    BY <2>1, <2>2 DEF HalfMine
  <2>6. ww = w - (IF lot.owner = u /\ lot.type = t THEN n ELSE 0)
    <3> HIDE DEF lot, n
    <3>1. Moves(wallets, wallets', lot.owner, -n, change)
      BY <2>1, <2>3, <2>4, SweptFacts DEF BooksTyped
    <3>2. /\ -n \in Int /\ \A r \in CreditTypes : change[r] = (IF r = lot.type THEN -n ELSE 0)
                                                  /\ change[r] \in Int
      BY <2>3, <2>4
    <3> HIDE DEF change
    <3>3. Moved(wallets, wallets', lot.owner, -n, change)
      BY <2>4, <3>1, <3>2, MovesRead DEF BooksTyped
    <3>4. ww = w + (IF u = lot.owner THEN change[t] ELSE 0)
      BY <3>3 DEF Moved, w, ww
    <3> QED
      BY <1>1, <2>3, <3>2, <3>4
  <2>7. h \in Nat /\ hh \in Nat /\ hh = h + took(sweeps'[s], lots') - took(sweeps[s], lots)
    BY <1>3, <2>2
  <2> HIDE DEF lot, n
  <2>8. Gap(u, t)' = Gap(u, t)
    <3> DEFINE x == IF lot.owner = u /\ lot.type = t THEN n ELSE 0
    <3>1. x \in Nat /\ ww = w - x /\ hh = h + 0 - x
      BY <2>3, <2>5, <2>6, <2>7
    <3> HIDE DEF x
    <3> QED
      BY <1>1, <1>2, <1>4, <2>1, <2>7, <3>1
  <2> QED
    BY <2>8
<1>8. CASE SweepEntry(s)
  <2>1. sweeps' = [sweeps EXCEPT ![s] = EntryRowOf(s)] /\ lots' = lots /\ wallets' = wallets
        /\ sweeps[s].pc = "entry"
    BY <1>8, SweepSteps DEF SweepEntry
  <2>2. sweeps'[s].pc # "wallet" /\ \A r \in Sweepers : r # s => sweeps'[r] = sweeps[r]
    BY <1>0, <2>1 DEF EntryRowOf
  <2>3. took(sweeps'[s], lots') = 0 /\ took(sweeps[s], lots) = 0
    BY <2>1, <2>2 DEF HalfMine
  <2>4. ww = w
    BY <2>1 DEF w, ww
  <2>5. h \in Nat /\ hh \in Nat /\ Gap(u, t)' = Gap(u, t)
    BY <1>1, <1>2, <1>3, <1>4, <2>1, <2>2, <2>3, <2>4
  <2> QED
    BY <2>5
<1>9. CASE SweepCrash(s)
  <2>1. sweeps' = [sweeps EXCEPT ![s] = Idle] /\ lots' = lots /\ wallets' = wallets
        /\ sweeps[s].pc # "idle"
    BY <1>9, SweepSteps DEF SweepCrash
  <2>2. sweeps'[s].pc = "idle" /\ \A r \in Sweepers : r # s => sweeps'[r] = sweeps[r]
    BY <1>0, <2>1 DEF Idle
  <2>3. took(sweeps'[s], lots') = 0 /\ took(sweeps[s], lots) \in Nat
    BY <1>0, <2>1, <2>2 DEF HalfMine
  <2>4. ww = w
    BY <2>1 DEF w, ww
  <2>5. h \in Nat /\ hh \in Nat /\ hh <= h
    BY <1>3, <2>2, <2>3
  <2>6. Gap(u, t)' >= Gap(u, t)
    BY <1>1, <1>2, <1>4, <2>1, <2>4, <2>5
  <2> QED
    BY <1>9, <2>6
<1> QED
  BY <1>5, <1>6, <1>7, <1>8, <1>9

\* A step leaves the gap of every wallet without a chargeback as it is; a
\* sweep that is cut short, or that expires a lot a refund filled up since its
\* query, may only widen it.
LEMMA StepGap ==
    ASSUME Typed, [Next]_vars, OneSweep, Linked, NEW u \in Users, ~Disputed(u)', NEW t \in CreditTypes
    PROVE  /\ ~Disputed(u)
           /\ \/ Gap(u, t)' = Gap(u, t)
              \/ Gap(u, t)' >= Gap(u, t) /\ (~Apart \/ \E s \in Sweepers : SweepCrash(s))
<1>0. /\ BooksTyped /\ now \in Nat /\ BooksTyped' /\ LotsKept /\ PaymentsKept
  BY BoundsAssumption, StepTyped, StepLinked DEF Typed, StockTyped
<1>1. ~Disputed(u)
  BY <1>0 DEF Disputed, PaymentsKept
<1> DEFINE Kept == \/ Gap(u, t)' = Gap(u, t)
                   \/ Gap(u, t)' >= Gap(u, t) /\ (~Apart \/ \E s \in Sweepers : SweepCrash(s))
<1>2. ASSUME NEW x \in Users, NEW d \in Deposits, NEW k, Deposit(x, d, k) PROVE Kept
  BY <1>0, <1>2, DepositGap
<1>3. ASSUME NEW x \in Users, NEW type \in CreditTypes \ {"PURCHASED"}, NEW row \in MintTypes,
             NEW g \in Grants, NEW k, Grant(x, type, row, g, k)
      PROVE  Kept
  BY <1>0, <1>3, GrantGap
<1>4. ASSUME NEW type \in SaleTypes, NEW x \in Users, NEW c \in Users, NEW credits \in Nat, NEW k,
             Sale(type, x, c, credits, k)
      PROVE  Kept
  BY <1>0, <1>4, SaleGap
<1>5. ASSUME NEW i \in DOMAIN ledger, Refund(i) PROVE Kept
  BY <1>0, <1>1, <1>5, RefundGap
<1>6. ASSUME NEW p \in DOMAIN payments, Chargeback(p) PROVE Kept
  <2>1. /\ DOMAIN payments' = DOMAIN payments /\ payments'[p].owner = payments[p].owner
        /\ payments'[p].status = "DISPUTED_CHARGEBACK"
    BY <1>0, <1>6, ChargebackFacts
  <2>2. u # payments[p].owner
    BY <2>1 DEF Disputed
  <2> QED
    BY <1>0, <1>6, <2>2, ChargebackGap
<1>7. ASSUME NEW s \in Sweepers,
             SweepFind(s) \/ SweepLot(s) \/ SweepWallet(s) \/ SweepEntry(s) \/ SweepCrash(s)
      PROVE  Kept
  BY <1>0, <1>7, SweepGap
<1>8. ASSUME UNCHANGED <<wallets, lots, ledger, payments, sweeps, crashes>>, now <= now' PROVE Kept
  <2>1. wallets' = wallets /\ lots' = lots /\ sweeps' = sweeps
    BY <1>8
  <2>2. /\ wallets'[u].typed[t] - wallets[u].typed[t] = 0
        /\ HeldIn(lots', u, t) - HeldIn(lots, u, t) = 0
    BY <1>0, <2>1, GapTyped
  <2>3. wallets'[u].typed[t] - wallets[u].typed[t] = HeldIn(lots', u, t) - HeldIn(lots, u, t)
    BY <2>2
  <2> QED
    BY <1>0, <2>1, <2>3, GapStays
<1> HIDE DEF Kept
<1>9. Kept
  BY <1>2, <1>3, <1>4, <1>5, <1>6, <1>7, <1>8, StepCases DEF Steps
<1> QED
  BY <1>1, <1>9 DEF Kept

\* Gaps are integers.
LEMMA GapIsInt ==
    ASSUME BooksTyped, NEW u \in Users, NEW t \in CreditTypes
    PROVE  /\ Gap(u, t) \in Int /\ wallets[u].typed[t] \in Int
           /\ HalfSwept(u, t) \in Nat /\ HeldIn(lots, u, t) \in Nat
<1>1. HalfSwept(u, t) \in Nat
  <2> DEFINE S == {s \in Sweepers : /\ sweeps[s].pc = "wallet" /\ lots[sweeps[s].lot].owner = u
                                    /\ lots[sweeps[s].lot].type = t}
  <2>1. IsFiniteSet(S) /\ \A s \in S : SweptCredits[s] \in Nat
    BY SweepRead, FinitenessAssumption, FS_Subset DEF SweptCredits
  <2>2. HalfSwept(u, t) = Total(SweptCredits, S)
    BY DEF HalfSwept
  <2> HIDE DEF S
  <2> QED
    BY <2>1, <2>2, TotalIsNat
<1>2. wallets[u].typed[t] \in Int /\ HeldIn(lots, u, t) \in Nat
  BY ColumnsRead, HeldFacts DEF BooksTyped, LotsTyped
<1> QED
  BY <1>1, <1>2 DEF Gap

GapsAreInts == \A u \in Users, t \in CreditTypes : Gap(u, t) \in Int

LEMMA GapsTyped == BooksTyped => GapsAreInts
BY GapIsInt DEF GapsAreInts

\* What the two theorems say of the gap
Covered == \A u \in Users : ~Disputed(u) => \A t \in CreditTypes : Gap(u, t) >= 0
Closed == crashes = 0 => \A u \in Users : ~Disputed(u) => \A t \in CreditTypes : Gap(u, t) = 0

LEMMA InitLinked == Init => Linked /\ Covered /\ Closed
<1> SUFFICES ASSUME Init PROVE Linked /\ Covered /\ Closed
  OBVIOUS
<1>1. Linked
  BY DEF Init, Idle, Linked, LotsLinked, RowsLinked, SweepsLinked, SweepLinked
<1>2. ASSUME NEW u \in Users, NEW t \in CreditTypes PROVE Gap(u, t) = 0
  <2>1. wallets[u].typed[t] = 0
    BY DEF Init, EmptyWallet
  <2>2. {s \in Sweepers : /\ sweeps[s].pc = "wallet" /\ lots[sweeps[s].lot].owner = u
                          /\ lots[sweeps[s].lot].type = t} = {}
    BY DEF Init, Idle
  <2>3. HalfSwept(u, t) = 0
    BY <2>2, TotalOfNone DEF HalfSwept
  <2>4. DOMAIN lots = {}
    BY DEF Init
  <2>5. HeldIn(lots, u, t) = 0
    BY <2>4, TotalOfNone DEF HeldIn
  <2> QED
    BY <2>1, <2>3, <2>5 DEF Gap
<1> QED
  BY <1>1, <1>2 DEF Covered, Closed

LEMMA StepCovered ==
    ASSUME Typed, [Next]_vars, OneSweep, Linked, Covered
    PROVE  Covered'
<1>1. ASSUME NEW u \in Users, ~Disputed(u)', NEW t \in CreditTypes PROVE Gap(u, t)' >= 0
  <2>1. ~Disputed(u) /\ (Gap(u, t)' = Gap(u, t) \/ Gap(u, t)' >= Gap(u, t))
    BY <1>1, StepGap
  <2>2. Gap(u, t) >= 0
    BY <2>1 DEF Covered
  <2>3. BooksTyped /\ BooksTyped'
    BY StepTyped DEF Typed
  <2>4. GapsAreInts /\ GapsAreInts'
    BY <2>3, GapsTyped, PTL
  <2>5. Gap(u, t) \in Int /\ Gap(u, t)' \in Int
    BY <2>4 DEF GapsAreInts
  <2> DEFINE a == Gap(u, t)
             b == Gap(u, t)'
  <2>6. a \in Int /\ b \in Int /\ a >= 0 /\ (b = a \/ b >= a)
    BY <2>1, <2>2, <2>5
  <2> HIDE DEF a, b
  <2>7. b >= 0
    BY <2>6
  <2> QED
    BY <2>7 DEF b
<1> QED
  BY <1>1 DEF Covered

\* Only a sweep that is cut short counts a crash.
LEMMA CrashCounts ==
    ASSUME Typed, [Next]_vars, CrashesCount
    PROVE  /\ CrashesCount'
           /\ crashes' = 0 => crashes = 0 /\ ~ \E s \in Sweepers : SweepCrash(s)
<1>1. ASSUME NEW s \in Sweepers, SweepCrash(s) PROVE crashes' = crashes + 1
  BY <1>1 DEF SweepCrash
<1>2. CASE \E s \in Sweepers : SweepCrash(s)
  BY <1>1, <1>2 DEF CrashesCount
<1>3. CASE ~ \E s \in Sweepers : SweepCrash(s)
  <2>1. CASE crashes' = crashes
    BY <1>3, <2>1 DEF CrashesCount
  <2>2. CASE UNCHANGED vars
    BY <1>3, <2>2 DEF CrashesCount, vars
  <2>3. CASE Tick
    BY <1>3, <2>3 DEF CrashesCount, Tick
  <2>4. ASSUME NEW i \in DOMAIN ledger, Refund(i) PROVE crashes' = crashes
    BY <2>4 DEF Refund
  <2>5. ASSUME NEW p \in DOMAIN payments, Chargeback(p) PROVE crashes' = crashes
    BY <2>5 DEF Chargeback
  <2>6. ASSUME NEW u \in Fans, NEW d \in Deposits, NEW k, Deposit(u, d, k) PROVE crashes' = crashes
    BY <2>6 DEF Deposit
  <2>7. ASSUME NEW u \in Fans, NEW g \in Grants, NEW k, GrantPromotional(u, g, k) \/ GrantBonus(u, g, k)
        PROVE  crashes' = crashes
    BY <2>7 DEF GrantPromotional, GrantBonus, Grant
  <2>8. ASSUME NEW u \in Fans, NEW c \in Creators, NEW credits \in Prices, NEW k,
               LiveTip(u, c, credits, k) \/ PaidQuestion(u, c, credits, k)
        PROVE  crashes' = crashes
    BY <2>8 DEF LiveTip, PaidQuestion, Sale
  <2>9. ASSUME NEW u \in Fans, NEW c \in DOMAIN Contents, NEW k, PPVPurchase(u, c, k)
        PROVE  crashes' = crashes
    BY <2>9 DEF PPVPurchase, Sale
  <2>10. ASSUME NEW u \in Fans, NEW p \in DOMAIN Products, NEW n \in Quantities, NEW k,
                ProductPurchase(u, p, n, k)
         PROVE  crashes' = crashes
    BY <2>10 DEF ProductPurchase, Sale
  <2>11. ASSUME NEW s \in Sweepers, SweepFind(s) \/ SweepLot(s) \/ SweepWallet(s) \/ SweepEntry(s)
         PROVE  crashes' = crashes
    BY <2>11 DEF SweepFind, SweepLot, SweepWallet, SweepEntry
  <2> QED
    BY <1>3, <2>1, <2>2, <2>3, <2>4, <2>5, <2>6, <2>7, <2>8, <2>9, <2>10, <2>11 DEF Next
<1> QED
  BY <1>2, <1>3

LEMMA StepClosed ==
    ASSUME Typed, [Next]_vars, OneSweep, Apart, Linked, Closed, CrashesCount
    PROVE  Closed' /\ CrashesCount'
<1>1. ASSUME crashes' = 0, NEW u \in Users, ~Disputed(u)', NEW t \in CreditTypes
      PROVE  Gap(u, t)' = 0
  <2>1. crashes = 0 /\ ~ \E s \in Sweepers : SweepCrash(s)
    BY <1>1, CrashCounts
  <2>2. ~Disputed(u) /\ Gap(u, t)' = Gap(u, t)
    BY <1>1, <2>1, StepGap
  <2> QED
    BY <2>1, <2>2 DEF Closed
<1> QED
  BY <1>1, CrashCounts DEF Closed

LEMMA CoveredImplied == BooksTyped /\ Covered => WalletsCoverLots
<1> SUFFICES ASSUME BooksTyped, Covered, NEW u \in Users, ~Disputed(u), NEW t \in CreditTypes
             PROVE  wallets[u].typed[t] >=
                      Total(Remaining, {l \in DOMAIN lots : /\ lots[l].owner = u
                                                            /\ lots[l].type = t
                                                            /\ lots[l].status = "ACTIVE"})
  BY DEF WalletsCoverLots
<1> DEFINE h == HeldIn(lots, u, t)
           w == wallets[u].typed[t]
           x == HalfSwept(u, t)
<1>1. lots \in Seq(LotRow)
  BY DEF BooksTyped, LotsTyped
<1>2. Total([l \in DOMAIN lots |-> lots[l].remaining],
            {l \in DOMAIN lots : lots[l].owner = u /\ lots[l].type = t /\ lots[l].status = "ACTIVE"}) = h
  BY <1>1, HeldFacts
<1>3. w - x - h >= 0 /\ w \in Int /\ x \in Nat /\ h \in Nat
  BY GapIsInt DEF Covered, Gap
<1> HIDE DEF h, w, x
<1>4. w >= h
  BY <1>3
<1> QED
  BY <1>2, <1>4 DEF w, Remaining

LEMMA ClosedImplied == BooksTyped /\ Closed => (crashes = 0 => TypedMatchesLots)
<1> SUFFICES ASSUME BooksTyped, Closed, crashes = 0, NEW u \in Users, ~Disputed(u), NEW t \in CreditTypes
             PROVE  wallets[u].typed[t] = HalfSwept(u, t) +
                      Total(Remaining, {l \in DOMAIN lots : /\ lots[l].owner = u
                                                            /\ lots[l].type = t
                                                            /\ lots[l].status = "ACTIVE"})
  BY DEF TypedMatchesLots
<1> DEFINE h == HeldIn(lots, u, t)
           w == wallets[u].typed[t]
           x == HalfSwept(u, t)
<1>1. lots \in Seq(LotRow)
  BY DEF BooksTyped, LotsTyped
<1>2. Total([l \in DOMAIN lots |-> lots[l].remaining],
            {l \in DOMAIN lots : lots[l].owner = u /\ lots[l].type = t /\ lots[l].status = "ACTIVE"}) = h
  BY <1>1, HeldFacts
<1>3. w - x - h = 0 /\ w \in Int /\ x \in Nat /\ h \in Nat
  BY GapIsInt DEF Closed, Gap
<1> HIDE DEF h, w, x
<1>4. w = x + h
  BY <1>3
<1> QED
  BY <1>2, <1>4 DEF w, x, Remaining

\* Wherever the one sweep stands or was cut short, and whatever is refunded
\* meanwhile, a wallet that no chargeback hit holds at least the credits of its
\* lots.
THEOREM LotsAreCovered ==
    ASSUME \A r, s \in Sweepers : r = s
    PROVE  Spec => []WalletsCoverLots
<1>0. OneSweep
  BY DEF OneSweep
<1> DEFINE IInv == Typed /\ Linked /\ Covered
<1>1. Init => IInv
  BY InitTyped, InitLinked
<1>2. IInv /\ [Next]_vars => IInv'
  BY <1>0, StepTyped, StepLinked, StepCovered
<1>3. IInv => WalletsCoverLots
  BY CoveredImplied DEF Typed
<1> HIDE DEF IInv
<1> QED
  BY <1>1, <1>2, <1>3, PTL DEF Spec


-----------------------------------------------------------------------------
(* A balance is credits and earnings *)

LEMMA ThreeTypes ==
    ASSUME NEW f, \A t \in CreditTypes : f[t] \in Int
    PROVE  /\ Total(f, CreditTypes) = f["PROMOTIONAL"] + f["BONUS"] + f["PURCHASED"]
           /\ f["PROMOTIONAL"] \in Int /\ f["BONUS"] \in Int /\ f["PURCHASED"] \in Int
<1>1. f["PROMOTIONAL"] \in Int /\ f["BONUS"] \in Int /\ f["PURCHASED"] \in Int
  BY DEF CreditTypes
<1> DEFINE one == {"PROMOTIONAL"}
           two == {"PROMOTIONAL", "BONUS"}
<1>2. /\ IsFiniteSet({}) /\ {} \cup {"PROMOTIONAL"} = one /\ one \cup {"BONUS"} = two
      /\ two \cup {"PURCHASED"} = CreditTypes /\ IsFiniteSet(one) /\ IsFiniteSet(two)
  <2>1. IsFiniteSet(one) /\ IsFiniteSet({})
    BY FS_EmptySet, FS_Singleton
  <2>2. IsFiniteSet(one \cup {"BONUS"}) /\ one \cup {"BONUS"} = two
    <3>1. one \cup {"BONUS"} = two
      OBVIOUS
    <3> HIDE DEF one, two
    <3> QED
      BY <2>1, <3>1, FS_AddElement
  <2>3. two \cup {"PURCHASED"} = CreditTypes
    BY DEF CreditTypes
  <2>4. {} \cup {"PROMOTIONAL"} = one
    OBVIOUS
  <2> HIDE DEF one, two
  <2> QED
    BY <2>1, <2>2, <2>3, <2>4
<1>3. /\ "BONUS" \notin one /\ "PURCHASED" \notin two
      /\ \A t \in one \cup {"BONUS"} : f[t] \in Int
      /\ \A t \in two \cup {"PURCHASED"} : f[t] \in Int
      /\ \A t \in {} \cup {"PROMOTIONAL"} : f[t] \in Int
  BY <1>1
<1> HIDE DEF one, two
<1>4. Total(f, one) = f["PROMOTIONAL"]
  <2> DEFINE x == "PROMOTIONAL"
  <2>1. x \notin {} /\ {} \cup {x} = one /\ (\A t \in {} \cup {x} : f[t] \in Int) /\ f[x] \in Int
    BY <1>1, <1>2, <1>3
  <2> HIDE DEF x
  <2> DEFINE none == {}
  <2>2. Total(f, none) = 0 /\ IsFiniteSet(none) /\ x \notin none /\ none \cup {x} = one
        /\ \A t \in none \cup {x} : f[t] \in Int
    BY <1>2, <2>1, TotalOfNone
  <2> HIDE DEF none
  <2>3. Total(f, none \cup {x}) = Total(f, none) + f[x]
    BY <2>2, TotalWith
  <2>4. Total(f, one) = Total(f, none) + f[x]
    BY <2>2, <2>3
  <2>5. Total(f, one) = 0 + f[x]
    BY <2>2, <2>4
  <2> QED
    BY <2>1, <2>5 DEF x
<1>5. Total(f, two) = Total(f, one) + f["BONUS"]
  <2> DEFINE x == "BONUS"
  <2>1. x \notin one /\ one \cup {x} = two /\ \A t \in one \cup {x} : f[t] \in Int
    BY <1>2, <1>3
  <2> HIDE DEF x
  <2>2. Total(f, one \cup {x}) = Total(f, one) + f[x]
    BY <1>2, <2>1, TotalWith
  <2> QED
    BY <2>1, <2>2 DEF x
<1>6. Total(f, CreditTypes) = Total(f, two) + f["PURCHASED"]
  <2> DEFINE x == "PURCHASED"
  <2>1. x \notin two /\ two \cup {x} = CreditTypes /\ \A t \in two \cup {x} : f[t] \in Int
    BY <1>2, <1>3
  <2> HIDE DEF x
  <2>2. Total(f, two \cup {x}) = Total(f, two) + f[x]
    BY <1>2, <2>1, TotalWith
  <2> QED
    BY <2>1, <2>2 DEF x
<1> QED
  BY <1>1, <1>4, <1>5, <1>6

\* What is drawn of the three types is all that is drawn.
LEMMA TypesOfDrawn ==
    ASSUME LotsTyped, NEW taken, DOMAIN taken \subseteq DOMAIN lots,
           \A l \in DOMAIN taken : taken[l] \in Nat
    PROVE  /\ OfType(taken, "PROMOTIONAL") \in Nat /\ OfType(taken, "BONUS") \in Nat
           /\ OfType(taken, "PURCHASED") \in Nat
           /\ OfType(taken, "PROMOTIONAL") + OfType(taken, "BONUS") + OfType(taken, "PURCHASED")
                = Total(taken, DOMAIN taken)
<1> DEFINE A == {l \in DOMAIN taken : lots[l].type = "PROMOTIONAL"}
           B == {l \in DOMAIN taken : lots[l].type = "BONUS"}
           C == {l \in DOMAIN taken : lots[l].type = "PURCHASED"}
           AB == A \cup B
<1>1. IsFiniteSet(DOMAIN taken) /\ \A l \in DOMAIN taken : lots[l].type \in CreditTypes /\ taken[l] \in Int
  BY LotFacts, FS_Subset DEF LotRow
<1>2. /\ A \subseteq DOMAIN taken /\ B \subseteq DOMAIN taken /\ C \subseteq DOMAIN taken
      /\ AB \subseteq DOMAIN taken /\ AB \cup C = DOMAIN taken /\ A \cap B = {} /\ AB \cap C = {}
  BY <1>1 DEF CreditTypes
<1>3. OfType(taken, "PROMOTIONAL") = Total(taken, A) /\ OfType(taken, "BONUS") = Total(taken, B)
      /\ OfType(taken, "PURCHASED") = Total(taken, C)
  BY DEF OfType
<1> HIDE DEF A, B, C
<1>4. IsFiniteSet(A) /\ IsFiniteSet(B) /\ IsFiniteSet(C) /\ IsFiniteSet(AB)
  BY <1>1, <1>2, FS_Subset
<1>5. Total(taken, A) \in Nat /\ Total(taken, B) \in Nat /\ Total(taken, C) \in Nat
  BY <1>2, <1>4, TotalIsNat
<1>6. Total(taken, AB) = Total(taken, A) + Total(taken, B)
  BY <1>1, <1>2, <1>4, TotalOfBoth
<1> HIDE DEF AB
<1>7. Total(taken, AB \cup C) = Total(taken, AB) + Total(taken, C)
  BY <1>1, <1>2, <1>4, TotalOfBoth
<1> QED
  BY <1>2, <1>3, <1>5, <1>6, <1>7

\* The cleared earnings a row brought u, and all of them
EarnedRow(e, u) == IF e.dst = u /\ e.earning = "CLEARED" THEN e.net ELSE 0
EarnedRows(u) == [i \in DOMAIN ledger |-> EarnedRow(ledger[i], u)]
EarnedBy(u) == Total(EarnedRows(u), DOMAIN ledger)

LEMMA EarnedIsInt ==
    ASSUME NEW n, RowsTyped(ledger, n), NEW u
    PROVE  /\ IsFiniteSet(DOMAIN ledger) /\ EarnedBy(u) \in Int
           /\ \A i \in DOMAIN ledger : /\ EarnedRows(u)[i] = EarnedRow(ledger[i], u)
                                       /\ EarnedRow(ledger[i], u) \in Nat
<1>1. IsFiniteSet(DOMAIN ledger)
  BY ReplayedIsInt
<1>2. ASSUME NEW i \in DOMAIN ledger
      PROVE  /\ EarnedRows(u)[i] = EarnedRow(ledger[i], u)
             /\ EarnedRow(ledger[i], u) \in Nat /\ EarnedRows(u)[i] \in Int
  <2>1. ledger[i].net \in Nat
    BY DEF RowsTyped, EntryTyped
  <2> QED
    BY <2>1 DEF EarnedRows, EarnedRow
<1>3. EarnedBy(u) \in Int
  BY <1>1, <1>2, TotalIsInt DEF EarnedBy
<1> QED
  BY <1>1, <1>2, <1>3

\* A sum over the rows of the log after a row is added and row i may have changed
LEMMA ColumnMoves ==
    ASSUME NEW D, IsFiniteSet(D), NEW k, k \notin D, NEW i, i \in D, NEW f, NEW g,
           \A j \in D : f[j] \in Int, \A j \in D \cup {k} : g[j] \in Int,
           \A j \in D \ {i} : g[j] = f[j]
    PROVE  Total(g, D \cup {k}) = Total(f, D) + g[i] - f[i] + g[k] /\ Total(f, D) \in Int
<1>1. Total(g, D) = Total(f, D) + g[i] - f[i]
  BY TotalMoves
<1>2. Total(g, D \cup {k}) = Total(g, D) + g[k]
  BY TotalWith
<1>3. Total(f, D) \in Int
  BY TotalIsInt
<1> QED
  BY <1>1, <1>2, <1>3

LEMMA ColumnGrows ==
    ASSUME NEW D, IsFiniteSet(D), NEW k, k \notin D, NEW f, NEW g,
           \A j \in D : f[j] \in Int, \A j \in D \cup {k} : g[j] \in Int,
           \A j \in D : g[j] = f[j]
    PROVE  Total(g, D \cup {k}) = Total(f, D) + g[k] /\ Total(f, D) \in Int
<1>1. Total(g, D) = Total(f, D)
  BY TotalAgrees
<1>2. Total(g, D \cup {k}) = Total(g, D) + g[k]
  BY TotalWith
<1>3. Total(f, D) \in Int
  BY TotalIsInt
<1> QED
  BY <1>1, <1>2, <1>3

LEMMA EarnedGrows ==
    ASSUME BooksTyped, NEW e, NEW m, EntryTyped(e, m), ledger' = Append(ledger, e), NEW u
    PROVE  EarnedBy(u)' = EarnedBy(u) + EarnedRow(e, u) /\ EarnedRow(e, u) \in Int
<1> DEFINE D == DOMAIN ledger
           k == Len(ledger) + 1
           f == EarnedRows(u)
           g == [i \in DOMAIN ledger' |-> EarnedRow(ledger'[i], u)]
<1>1. RowsTyped(ledger, Len(lots))
  BY DEF BooksTyped
<1>2. /\ DOMAIN ledger' = D \cup {k} /\ k \notin D /\ ledger'[k] = e
      /\ \A i \in D : ledger'[i] = ledger[i]
  BY <1>1, RowsOfAppend
<1>3. IsFiniteSet(D) /\ \A i \in D : f[i] = EarnedRow(ledger[i], u) /\ f[i] \in Int
  BY <1>1, EarnedIsInt
<1>4. EarnedRow(e, u) \in Int
  BY DEF EarnedRow, EntryTyped
<1> HIDE DEF k
<1>5. g[k] = EarnedRow(e, u) /\ \A i \in D : g[i] = f[i]
  BY <1>2, <1>3
<1>6. EarnedBy(u)' = Total(g, D \cup {k}) /\ EarnedBy(u) = Total(f, D)
  BY <1>2 DEF EarnedBy, EarnedRows
<1>7. \A i \in D : f[i] \in Int
  BY <1>3
<1>8. \A i \in D \cup {k} : g[i] \in Int
  BY <1>2, <1>3, <1>4, <1>5
<1>9. IsFiniteSet(D) /\ k \notin D
  BY <1>2, <1>3
<1>10. \A i \in D : g[i] = f[i]
  BY <1>5
<1> HIDE DEF D, f, g
<1>11. Total(g, D \cup {k}) = Total(f, D) + g[k]
  BY ZenonT(30), <1>7, <1>8, <1>9, <1>10, ColumnGrows
<1> QED
  BY <1>4, <1>5, <1>6, <1>11

\* What a wallet holds beyond its credits and its earnings
CreditsOf(u) == Total(wallets[u].typed, CreditTypes)
Excess(u) == wallets[u].balance - CreditsOf(u) - EarnedBy(u)

LEMMA ExcessKept ==
    ASSUME BooksTyped, BooksTyped', NEW u \in Users, NEW a, a \in Int, NEW b, b \in Int,
           NEW c, c \in Int, NEW n, n \in Int,
           wallets'[u].typed["PROMOTIONAL"] = wallets[u].typed["PROMOTIONAL"] + a,
           wallets'[u].typed["BONUS"] = wallets[u].typed["BONUS"] + b,
           wallets'[u].typed["PURCHASED"] = wallets[u].typed["PURCHASED"] + c,
           wallets'[u].balance = wallets[u].balance + a + b + c + n,
           EarnedBy(u)' = EarnedBy(u) + n
    PROVE  Excess(u)' = Excess(u)
<1> DEFINE f == wallets[u].typed
           g == wallets'[u].typed
           x == wallets[u].balance
           y == wallets'[u].balance
           p == EarnedBy(u)
           q == EarnedBy(u)'
<1>1. /\ x \in Int /\ y \in Int
      /\ \A t \in CreditTypes : f[t] \in Int /\ g[t] \in Int
  BY ColumnsRead DEF BooksTyped
<1>2. p \in Int
  BY EarnedIsInt DEF BooksTyped
<1>3. Excess(u) = x - Total(f, CreditTypes) - p /\ Excess(u)' = y - Total(g, CreditTypes) - q
  BY DEF Excess, CreditsOf
<1>4. y = x + a + b + c + n /\ q = p + n
  OBVIOUS
<1>5. /\ g["PROMOTIONAL"] = f["PROMOTIONAL"] + a /\ g["BONUS"] = f["BONUS"] + b
      /\ g["PURCHASED"] = f["PURCHASED"] + c
  OBVIOUS
<1> HIDE DEF f, g, x, y, p, q
<1>6. /\ Total(f, CreditTypes) = f["PROMOTIONAL"] + f["BONUS"] + f["PURCHASED"]
      /\ Total(g, CreditTypes) = g["PROMOTIONAL"] + g["BONUS"] + g["PURCHASED"]
      /\ f["PROMOTIONAL"] \in Int /\ f["BONUS"] \in Int /\ f["PURCHASED"] \in Int
  BY <1>1, ThreeTypes
<1> QED
  BY <1>1, <1>2, <1>3, <1>4, <1>5, <1>6

LEMMA SaleExcess ==
    ASSUME BooksTyped, BooksTyped', NEW type, type \in SaleTypes, NEW fan \in Users,
           NEW creator \in Users, NEW credits, credits \in Nat, NEW k,
           Sale(type, fan, creator, credits, k), NEW u \in Users
    PROVE  Excess(u)' = Excess(u)
<1> DEFINE net == credits - PlatformFee(credits)
           taken == Drawdown(fan, credits)
           e == Entry(type, fan, creator, credits, net, k, 0, taken)
           drawn(t) == OfType(taken, t)
           a == IF u = fan THEN -drawn("PROMOTIONAL") ELSE 0
           b == IF u = fan THEN -drawn("BONUS") ELSE 0
           c == IF u = fan THEN -drawn("PURCHASED") ELSE 0
           n == IF u = creator THEN net ELSE 0
<1>1. /\ net \in Nat /\ \A t \in CreditTypes : OfType(taken, t) \in Nat
      /\ \A x \in Users :
            /\ wallets'[x].balance = wallets[x].balance
                 - (IF x = fan THEN credits ELSE 0) + (IF x = creator THEN net ELSE 0)
            /\ \A t \in CreditTypes : wallets'[x].typed[t] = wallets[x].typed[t]
                 - (IF x = fan THEN OfType(taken, t) ELSE 0)
      /\ ledger' = Append(ledger, e) /\ EntryTyped(e, Len(lots))
  BY SaleFacts
<1>2. Total(taken, DOMAIN taken) = credits
  <2>1. Total(Remaining, Available(fan)) >= credits
    BY DEF Sale
  <2> QED
    BY <2>1, DrawdownIsExact DEF BooksTyped
<1>3. DOMAIN taken \subseteq DOMAIN lots /\ \A l \in DOMAIN taken : taken[l] \in Nat
  BY DrawdownFacts DEF BooksTyped
<1>4. e.dst = creator /\ e.net = net /\ e.earning = "CLEARED"
  BY EntryColumns
<1> HIDE DEF taken, e, net
<1>5. /\ drawn("PROMOTIONAL") \in Nat /\ drawn("BONUS") \in Nat /\ drawn("PURCHASED") \in Nat
      /\ drawn("PROMOTIONAL") + drawn("BONUS") + drawn("PURCHASED") = credits
  <2>1. LotsTyped
    BY DEF BooksTyped
  <2> QED
    BY <1>2, <1>3, <2>1, TypesOfDrawn
<1>6. EarnedBy(u)' = EarnedBy(u) + EarnedRow(e, u)
  BY <1>1, EarnedGrows
<1>7. EarnedRow(e, u) = n
  BY <1>4 DEF EarnedRow
<1>8. \A t \in CreditTypes : wallets[u].typed[t] \in Int
  BY ColumnsRead DEF BooksTyped
<1>9. wallets[u].balance \in Int
  BY ColumnsRead DEF BooksTyped
<1>10. \A t \in CreditTypes : wallets'[u].typed[t] = wallets[u].typed[t]
                 - (IF u = fan THEN drawn(t) ELSE 0)
  BY <1>1
<1>11. /\ wallets'[u].balance = wallets[u].balance
                 - (IF u = fan THEN credits ELSE 0) + (IF u = creator THEN net ELSE 0)
  BY <1>1
<1>12. "PROMOTIONAL" \in CreditTypes /\ "BONUS" \in CreditTypes /\ "PURCHASED" \in CreditTypes
  BY DEF CreditTypes
<1> HIDE DEF drawn
<1>13. a \in Int /\ b \in Int /\ c \in Int /\ n \in Int
  BY <1>1, <1>5
<1>14. /\ wallets'[u].typed["PROMOTIONAL"] = wallets[u].typed["PROMOTIONAL"] + a
       /\ wallets'[u].typed["BONUS"] = wallets[u].typed["BONUS"] + b
       /\ wallets'[u].typed["PURCHASED"] = wallets[u].typed["PURCHASED"] + c
  BY <1>5, <1>8, <1>10, <1>12
<1>15. wallets'[u].balance = wallets[u].balance + a + b + c + n
  BY <1>1, <1>5, <1>9, <1>11
<1> HIDE DEF a, b, c, n
<1> QED
  BY <1>6, <1>7, <1>13, <1>14, <1>15, ExcessKept

LEMMA DepositExcess ==
    ASSUME BooksTyped, BooksTyped', NEW u, u \in Users, NEW d, d \in Deposits, NEW k,
           Deposit(u, d, k), NEW x \in Users
    PROVE  Excess(x)' = Excess(x)
<1> DEFINE e == MintedRow(u, d, k)
           p == d[1]
           q == d[2]
           a == 0
           b == IF x = u THEN q ELSE 0
           c == IF x = u THEN p ELSE 0
<1>1. /\ p \in Nat /\ q \in Nat
      /\ \A y \in Users : wallets'[y].balance = wallets[y].balance + (IF y = u THEN p + q ELSE 0)
  BY DepositFacts
<1>2. \A y \in Users : \A t \in CreditTypes : wallets'[y].typed[t] = wallets[y].typed[t]
          + (IF y = u THEN (IF t = "PURCHASED" THEN p ELSE 0) + (IF t = "BONUS" THEN q ELSE 0) ELSE 0)
  BY DepositFacts
<1>3. ledger' = Append(ledger, e)
  BY DEF Deposit, MintedRow
<1>4. EntryTyped(e, 0)
  <2>1. \A n \in Nat : EntryTyped(e, n)
    BY DepositFacts
  <2> QED
    BY <2>1
<1>5. e.earning = "NONE"
  BY EntryColumns, TypesApart DEF MintedRow
<1> HIDE DEF e, p, q
<1>6. EarnedBy(x)' = EarnedBy(x) + a
  <2>1. EarnedRow(e, x) = a
    BY <1>5 DEF EarnedRow
  <2> QED
    BY <1>3, <1>4, <2>1, EarnedGrows
<1>7. /\ wallets[x].balance \in Int /\ \A t \in CreditTypes : wallets[x].typed[t] \in Int
  BY ColumnsRead DEF BooksTyped
<1>8. "PROMOTIONAL" \in CreditTypes /\ "BONUS" \in CreditTypes /\ "PURCHASED" \in CreditTypes
  BY DEF CreditTypes
<1>9. \A t \in CreditTypes : wallets'[x].typed[t] = wallets[x].typed[t]
        + (IF x = u THEN (IF t = "PURCHASED" THEN p ELSE 0) + (IF t = "BONUS" THEN q ELSE 0) ELSE 0)
  BY <1>2
<1>10. a \in Int /\ b \in Int /\ c \in Int
  BY <1>1
<1>11. /\ wallets'[x].typed["PROMOTIONAL"] = wallets[x].typed["PROMOTIONAL"] + a
       /\ wallets'[x].typed["BONUS"] = wallets[x].typed["BONUS"] + b
       /\ wallets'[x].typed["PURCHASED"] = wallets[x].typed["PURCHASED"] + c
  BY <1>1, <1>7, <1>8, <1>9
<1>12. wallets'[x].balance = wallets[x].balance + a + b + c + a
  BY <1>1, <1>7
<1> HIDE DEF a, b, c
<1> QED
  BY <1>6, <1>10, <1>11, <1>12, ExcessKept

LEMMA GrantExcess ==
    ASSUME BooksTyped, BooksTyped', now \in Nat, NEW u, u \in Users, NEW type, type \in CreditTypes,
           NEW row, row \in MintTypes, NEW g, g \in Grants, NEW k, Grant(u, type, row, g, k),
           NEW x \in Users
    PROVE  Excess(x)' = Excess(x)
<1> DEFINE e == Entry(row, None, u, g[1], 0, k, Len(lots) + 1, NoLots)
           p == g[1]
           zero == 0
           a == IF x = u /\ type = "PROMOTIONAL" THEN p ELSE 0
           b == IF x = u /\ type = "BONUS" THEN p ELSE 0
           c == IF x = u /\ type = "PURCHASED" THEN p ELSE 0
<1>1. /\ g[1] \in Nat /\ g[1] > 0
      /\ wallets' \in WalletRows
      /\ \A y \in Users :
            /\ wallets'[y].balance = wallets[y].balance + (IF y = u THEN g[1] ELSE 0)
            /\ \A t \in CreditTypes : wallets'[y].typed[t] = wallets[y].typed[t]
                          + (IF y = u THEN (IF t = type THEN g[1] ELSE 0) ELSE 0)
      /\ lots' = lots \o <<GrantedLot(u, type, g)>> /\ GrantedLot(u, type, g) \in LotRow
      /\ ledger' = Append(ledger, e) /\ \A n \in Nat : EntryTyped(e, n)
  BY GrantFacts
<1>2. /\ \A y \in Users : wallets'[y].balance = wallets[y].balance + (IF y = u THEN p ELSE 0)
      /\ \A y \in Users : \A t \in CreditTypes : wallets'[y].typed[t] = wallets[y].typed[t]
                          + (IF y = u THEN (IF t = type THEN p ELSE 0) ELSE 0)
  BY <1>1
<1>3. ledger' = Append(ledger, e)
  BY DEF Grant
<1>4. EntryTyped(e, 0)
  <2>1. \A n \in Nat : EntryTyped(e, n)
    BY GrantFacts
  <2> QED
    BY <2>1
<1>5. e.earning = "NONE"
  BY EntryColumns, TypesApart
<1> HIDE DEF e, p
<1>6. EarnedBy(x)' = EarnedBy(x) + zero
  <2>1. EarnedRow(e, x) = zero
    BY <1>5 DEF EarnedRow
  <2> QED
    BY <1>3, <1>4, <2>1, EarnedGrows
<1>7. /\ wallets[x].balance \in Int /\ \A t \in CreditTypes : wallets[x].typed[t] \in Int
  BY ColumnsRead DEF BooksTyped
<1>8. /\ "PROMOTIONAL" \in CreditTypes /\ "BONUS" \in CreditTypes /\ "PURCHASED" \in CreditTypes
      /\ type = "PROMOTIONAL" \/ type = "BONUS" \/ type = "PURCHASED"
  BY DEF CreditTypes
<1>9. \A t \in CreditTypes : wallets'[x].typed[t] = wallets[x].typed[t]
        + (IF x = u THEN (IF t = type THEN p ELSE 0) ELSE 0)
  BY <1>2
<1>10. a \in Int /\ b \in Int /\ c \in Int /\ zero \in Int
  BY <1>1 DEF p
<1>11. /\ wallets'[x].typed["PROMOTIONAL"] = wallets[x].typed["PROMOTIONAL"] + a
       /\ wallets'[x].typed["BONUS"] = wallets[x].typed["BONUS"] + b
       /\ wallets'[x].typed["PURCHASED"] = wallets[x].typed["PURCHASED"] + c
  BY <1>1, <1>7, <1>8, <1>9
<1>12. wallets'[x].balance = wallets[x].balance + a + b + c + zero
  BY <1>1, <1>2, <1>7, <1>8
<1> HIDE DEF a, b, c, zero
<1> QED
  BY <1>6, <1>10, <1>11, <1>12, ExcessKept

LEMMA ChargebackExcess ==
    ASSUME BooksTyped, BooksTyped', NEW p, p \in DOMAIN payments, Chargeback(p),
           NEW u \in Users, u # payments[p].owner
    PROVE  Excess(u)' = Excess(u)
<1> DEFINE n == payments[p].credits + payments[p].bonus
           e == Entry("CHARGEBACK_REVERSAL", payments[p].owner, None, n, 0, None, p, NoLots)
           zero == 0
<1>1. /\ \A x \in Users :
            /\ wallets'[x].balance = wallets[x].balance - (IF x = payments[p].owner THEN n ELSE 0)
            /\ x # payments[p].owner => wallets'[x].typed = wallets[x].typed
      /\ ledger' = Append(ledger, e) /\ EntryTyped(e, Len(lots))
  BY ChargebackFacts
<1>2. e.earning = "NONE"
  BY EntryColumns, TypesApart
<1> HIDE DEF e, n
<1>3. EarnedBy(u)' = EarnedBy(u) + EarnedRow(e, u)
  BY <1>1, EarnedGrows
<1>4. EarnedRow(e, u) = zero
  BY <1>2 DEF EarnedRow
<1>5. /\ wallets[u].balance \in Int /\ \A t \in CreditTypes : wallets[u].typed[t] \in Int
  BY ColumnsRead DEF BooksTyped
<1>6. "PROMOTIONAL" \in CreditTypes /\ "BONUS" \in CreditTypes /\ "PURCHASED" \in CreditTypes
  BY DEF CreditTypes
<1>7. zero \in Int
  OBVIOUS
<1>8. /\ wallets'[u].typed["PROMOTIONAL"] = wallets[u].typed["PROMOTIONAL"] + zero
      /\ wallets'[u].typed["BONUS"] = wallets[u].typed["BONUS"] + zero
      /\ wallets'[u].typed["PURCHASED"] = wallets[u].typed["PURCHASED"] + zero
  BY <1>1, <1>5, <1>6
<1>9. wallets'[u].balance = wallets[u].balance + zero + zero + zero + zero
  BY <1>1, <1>5
<1> HIDE DEF zero
<1> QED
  BY <1>3, <1>4, <1>7, <1>8, <1>9, ExcessKept

\* A refund of a sale takes back the credits it drew and the earning it made.
LEMMA RefundExcess ==
    ASSUME BooksTyped, BooksTyped', RefundTypes \subseteq SaleTypes, Linked,
           NEW i, i \in DOMAIN ledger, Refund(i), NEW u \in Users
    PROVE  Excess(u)' = Excess(u)
<1> DEFINE o == ledger[i]
           e == Entry("REFUND", o.dst, o.src, o.amount, o.net, None, i, NoLots)
           fan == o.src
           taken == o.taken
           drawn(t) == OfType(taken, t)
           back == Reversed(i)
           f == EarnedRows(u)
           g == [j \in DOMAIN ledger' |-> EarnedRow(ledger'[j], u)]
           D == DOMAIN ledger
           k == Len(ledger) + 1
           a == IF u = fan THEN drawn("PROMOTIONAL") ELSE 0
           b == IF u = fan THEN drawn("BONUS") ELSE 0
           c == IF u = fan THEN drawn("PURCHASED") ELSE 0
           n == IF u = o.dst THEN -o.net ELSE 0
<1>1. /\ EntryTyped(o, Len(lots)) /\ o.status = "COMPLETED" /\ o.type \in RefundTypes
      /\ \A x \in Users :
            /\ wallets'[x].balance = wallets[x].balance
                 + (IF x = o.src THEN o.amount ELSE 0) - (IF x = o.dst THEN o.net ELSE 0)
            /\ \A t \in CreditTypes : wallets'[x].typed[t] = wallets[x].typed[t]
                 + (IF x = o.src THEN OfType(o.taken, t) ELSE 0)
      /\ ledger' = Append(back, e) /\ EntryTyped(e, Len(lots))
  BY RefundFacts
<1>2. RowLinked(o, lots) /\ RowsTyped(ledger, Len(lots)) /\ LotsTyped
  BY DEF Linked, RowsLinked, BooksTyped
<1>3. /\ RowsTyped(back, Len(lots)) /\ Len(back) = Len(ledger) /\ DOMAIN back = DOMAIN ledger
      /\ \A j \in DOMAIN ledger \ {i} : back[j] = ledger[j]
      /\ back[i].earning = IF HasSeller(ledger[i]) /\ ledger[i].earning = "CLEARED"
                           THEN "REVERSED_FRAUD" ELSE ledger[i].earning
      /\ back[i].dst = ledger[i].dst /\ back[i].net = ledger[i].net
  BY <1>2, ReversedFacts
<1>4. /\ k \in Nat /\ k \notin D /\ IsFiniteSet(D) /\ DOMAIN ledger' = D \cup {k}
      /\ ledger'[k] = e /\ \A j \in D : ledger'[j] = back[j]
  <2> HIDE DEF e, back
  <2> QED
    BY <1>1, <1>2, <1>3, NewRow
<1>5. e.earning = "NONE"
  BY EntryColumns, TypesApart
<1>6. \A j \in D : f[j] = EarnedRow(ledger[j], u) /\ f[j] \in Nat
  BY <1>2, EarnedIsInt
<1>7. /\ o.amount \in Nat /\ o.net \in Nat /\ DOMAIN taken \subseteq DOMAIN lots
      /\ \A l \in DOMAIN taken : taken[l] \in Nat
  <2> HIDE DEF o
  <2> QED
    BY <1>1, <1>2, LotFacts DEF EntryTyped
<1>8. o.earning = "CLEARED" /\ Total(taken, DOMAIN taken) = o.amount
  <2> HIDE DEF o
  <2> QED
    BY <1>1, <1>2 DEF RowLinked
<1>9. f[i] = (IF u = o.dst THEN o.net ELSE 0)
  BY <1>6, <1>8 DEF EarnedRow
<1>10. EarnedRow(back[i], u) = 0
  BY <1>3, <1>7, <1>8, UsersAssumption DEF EarnedRow, HasSeller
<1>11. EarnedBy(u) = Total(f, D) /\ EarnedBy(u)' = Total(g, D \cup {k})
  BY <1>4 DEF EarnedBy, EarnedRows
<1> HIDE DEF e, k, f, back
<1>12. g[i] = 0 /\ g[k] = 0 /\ \A j \in D \ {i} : g[j] = f[j]
  BY <1>3, <1>4, <1>5, <1>6, <1>10 DEF EarnedRow
<1> HIDE DEF g
<1>13. \A j \in D \cup {k} : g[j] \in Int
  BY <1>6, <1>12
<1>14. EarnedBy(u)' = EarnedBy(u) + n
  <2>1. \A j \in D : f[j] \in Int
    BY <1>6
  <2>2. i \in D /\ IsFiniteSet(D) /\ k \notin D
    BY <1>4
  <2>4. \A j \in D \ {i} : g[j] = f[j]
    BY <1>12
  <2> HIDE DEF D
  <2>3. Total(g, D \cup {k}) = Total(f, D) + g[i] - f[i] + g[k] /\ Total(f, D) \in Int
    BY <1>13, <2>1, <2>2, <2>4, ColumnMoves
  <2> HIDE DEF o
  <2> QED
    BY <1>7, <1>9, <1>11, <1>12, <2>3
<1>15. /\ drawn("PROMOTIONAL") \in Nat /\ drawn("BONUS") \in Nat /\ drawn("PURCHASED") \in Nat
       /\ drawn("PROMOTIONAL") + drawn("BONUS") + drawn("PURCHASED") = o.amount
  <2> HIDE DEF o, taken
  <2> QED
    BY <1>2, <1>7, <1>8, TypesOfDrawn
<1>16. /\ wallets[u].balance \in Int /\ \A t \in CreditTypes : wallets[u].typed[t] \in Int
  BY ColumnsRead DEF BooksTyped
<1>17. /\ wallets'[u].balance = wallets[u].balance
               + (IF u = fan THEN o.amount ELSE 0) - (IF u = o.dst THEN o.net ELSE 0)
       /\ \A t \in CreditTypes : wallets'[u].typed[t] = wallets[u].typed[t]
               + (IF u = fan THEN drawn(t) ELSE 0)
  BY <1>1
<1>18. "PROMOTIONAL" \in CreditTypes /\ "BONUS" \in CreditTypes /\ "PURCHASED" \in CreditTypes
  BY DEF CreditTypes
<1> HIDE DEF drawn, o, fan, taken
<1>19. a \in Int /\ b \in Int /\ c \in Int /\ n \in Int
  BY <1>7, <1>15
<1>20. /\ wallets'[u].typed["PROMOTIONAL"] = wallets[u].typed["PROMOTIONAL"] + a
       /\ wallets'[u].typed["BONUS"] = wallets[u].typed["BONUS"] + b
       /\ wallets'[u].typed["PURCHASED"] = wallets[u].typed["PURCHASED"] + c
  BY <1>17, <1>18
<1>21. wallets'[u].balance = wallets[u].balance + a + b + c + n
  BY <1>7, <1>15, <1>16, <1>17
<1> HIDE DEF a, b, c, n
<1> QED
  BY <1>14, <1>19, <1>20, <1>21, ExcessKept

LEMMA ExcessStays ==
    ASSUME NEW u \in Users, wallets'[u] = wallets[u], ledger' = ledger
    PROVE  Excess(u)' = Excess(u)
BY DEF Excess, CreditsOf, EarnedBy, EarnedRows

\* A sweep takes as much off the balance as off the typed balance.
LEMMA SweepExcess ==
    ASSUME BooksTyped, BooksTyped', NEW s \in Sweepers,
           SweepFind(s) \/ SweepLot(s) \/ SweepWallet(s) \/ SweepEntry(s) \/ SweepCrash(s),
           NEW u \in Users
    PROVE  Excess(u)' = Excess(u)
<1>1. CASE SweepFind(s) \/ SweepLot(s) \/ SweepCrash(s)
  BY <1>1, ExcessStays DEF SweepFind, SweepLot, SweepCrash
<1>2. CASE SweepWallet(s)
  <2> DEFINE lot == lots[sweeps[s].lot]
             m == sweeps[s].credits
             type == SweptType(lot)
             change == [r \in CreditTypes |-> IF r = type THEN -m ELSE 0]
             zero == 0
             a == IF u = lot.owner /\ type = "PROMOTIONAL" THEN -m ELSE 0
             b == IF u = lot.owner /\ type = "BONUS" THEN -m ELSE 0
             c == IF u = lot.owner /\ type = "PURCHASED" THEN -m ELSE 0
  <2>1. wallets' = Swept(lot, m) /\ ledger' = ledger /\ sweeps[s].pc = "wallet"
    BY <1>2 DEF SweepWallet
  <2>2. sweeps[s].lot \in DOMAIN lots /\ m \in Nat /\ lot \in LotRow
    BY <2>1, SweepRead, LotFacts DEF BooksTyped
  <2>3. lot.owner \in Users /\ lot.type \in CreditTypes /\ type \in {"PROMOTIONAL", "BONUS"}
    <3> HIDE DEF lot
    <3> QED
      BY <2>2 DEF LotRow, SweptType
  <2> HIDE DEF lot, m
  <2>4. Moves(wallets, wallets', lot.owner, -m, change)
    BY <2>1, <2>2, <2>3, SweptFacts DEF BooksTyped
  <2> HIDE DEF type
  <2>5. /\ -m \in Int /\ \A r \in CreditTypes : change[r] = (IF r = type THEN -m ELSE 0)
                                                /\ change[r] \in Int
    BY <2>2
  <2> HIDE DEF change
  <2>6. Moved(wallets, wallets', lot.owner, -m, change)
    BY <2>3, <2>4, <2>5, MovesRead DEF BooksTyped
  <2>7. /\ wallets'[u].balance = wallets[u].balance + (IF u = lot.owner THEN -m ELSE 0)
        /\ \A t \in CreditTypes : wallets'[u].typed[t] = wallets[u].typed[t]
                                     + (IF u = lot.owner THEN change[t] ELSE 0)
    BY <2>6 DEF Moved
  <2>8. /\ wallets[u].balance \in Int /\ \A t \in CreditTypes : wallets[u].typed[t] \in Int
    BY ColumnsRead DEF BooksTyped
  <2>9. "PROMOTIONAL" \in CreditTypes /\ "BONUS" \in CreditTypes /\ "PURCHASED" \in CreditTypes
    BY DEF CreditTypes
  <2>10. a \in Int /\ b \in Int /\ c \in Int /\ zero \in Int
    BY <2>2
  <2>11. /\ wallets'[u].typed["PROMOTIONAL"] = wallets[u].typed["PROMOTIONAL"] + a
         /\ wallets'[u].typed["BONUS"] = wallets[u].typed["BONUS"] + b
         /\ wallets'[u].typed["PURCHASED"] = wallets[u].typed["PURCHASED"] + c
    BY <2>5, <2>7, <2>8, <2>9
  <2>12. wallets'[u].balance = wallets[u].balance + a + b + c + zero
    BY <2>2, <2>3, <2>7, <2>8
  <2>13. EarnedBy(u)' = EarnedBy(u) + zero
    <3>1. EarnedBy(u)' = EarnedBy(u)
      BY <2>1 DEF EarnedBy, EarnedRows
    <3>2. EarnedBy(u) \in Int
      BY EarnedIsInt DEF BooksTyped
    <3> DEFINE p == EarnedBy(u)
               q == EarnedBy(u)'
    <3>3. q = p /\ p \in Int
      BY <3>1, <3>2
    <3> HIDE DEF p, q
    <3>4. q = p + zero
      BY <3>3
    <3> QED
      BY <3>4 DEF p, q
  <2> HIDE DEF a, b, c, zero
  <2> QED
    BY <2>10, <2>11, <2>12, <2>13, ExcessKept
<1>3. CASE SweepEntry(s)
  <2> DEFINE v == lots[sweeps[s].lot].owner
             n == sweeps[s].credits
             e == Entry("CREDIT_EXPIRATION", v, None, n, 0, None, sweeps[s].lot, NoLots)
  <2>1. wallets' = wallets /\ ledger' = Append(ledger, e) /\ sweeps[s].pc = "entry"
    BY <1>3 DEF SweepEntry, Logged
  <2>2. e.earning = "NONE"
    BY EntryColumns, TypesApart
  <2>3. EntryTyped(e, Len(lots))
    <3>1. sweeps[s].lot \in DOMAIN lots /\ sweeps[s].lot \in Nat /\ n \in Nat /\ v \in Users
      BY <2>1, SweepRead, LotFacts DEF LotRow, BooksTyped
    <3>2. /\ "CREDIT_EXPIRATION" \in EntryTypes /\ 0 \in Nat /\ DOMAIN NoLots = {}
          /\ Len(lots) \in Nat
      BY LotFacts DEF EntryTypes, BurnTypes, NoLots, BooksTyped
    <3> HIDE DEF v, n
    <3> QED
      BY <3>1, <3>2, EntryIsTyped
  <2> HIDE DEF e
  <2>4. EarnedBy(u)' = EarnedBy(u) + EarnedRow(e, u) /\ EarnedRow(e, u) = 0
    BY <2>1, <2>2, <2>3, EarnedGrows DEF EarnedRow
  <2>5. CreditsOf(u)' = CreditsOf(u) /\ wallets'[u].balance = wallets[u].balance
    BY <2>1 DEF CreditsOf
  <2>6. EarnedBy(u) \in Int
    BY EarnedIsInt DEF BooksTyped
  <2> DEFINE p == EarnedBy(u)
             q == EarnedBy(u)'
  <2>7. q = p
    BY <2>4, <2>6
  <2> HIDE DEF p, q
  <2>8. Excess(u) = wallets[u].balance - CreditsOf(u) - p
        /\ Excess(u)' = wallets'[u].balance - CreditsOf(u)' - q
    BY DEF Excess, p, q
  <2> QED
    BY <2>5, <2>7, <2>8
<1> QED
  BY <1>1, <1>2, <1>3

\* What a wallet holds is its credits and its earnings.
Balanced == \A u \in Users : ~Disputed(u) => Excess(u) = 0

LEMMA InitBalanced == Init => Balanced
<1> SUFFICES ASSUME Init, NEW u \in Users PROVE Excess(u) = 0
  BY DEF Balanced
<1> DEFINE f == wallets[u].typed
<1>1. wallets[u].balance = 0 /\ \A t \in CreditTypes : f[t] = 0
  BY DEF Init, EmptyWallet
<1>2. DOMAIN ledger = {}
  BY DEF Init
<1>3. EarnedBy(u) = 0
  BY <1>2, TotalOfNone DEF EarnedBy
<1>4. CreditsOf(u) = Total(f, CreditTypes)
  BY DEF CreditsOf
<1>5. f["PROMOTIONAL"] = 0 /\ f["BONUS"] = 0 /\ f["PURCHASED"] = 0 /\ \A t \in CreditTypes : f[t] \in Int
  BY <1>1 DEF CreditTypes
<1> HIDE DEF f
<1>6. Total(f, CreditTypes) = f["PROMOTIONAL"] + f["BONUS"] + f["PURCHASED"]
  BY <1>5, ThreeTypes
<1> QED
  BY <1>1, <1>3, <1>4, <1>5, <1>6 DEF Excess

LEMMA StepBalanced ==
    ASSUME Typed, [Next]_vars, OneSweep, RefundTypes \subseteq SaleTypes, Linked, Balanced
    PROVE  Balanced'
<1>0. /\ BooksTyped /\ now \in Nat /\ BooksTyped' /\ PaymentsKept
  BY BoundsAssumption, StepTyped, StepLinked DEF Typed, StockTyped
<1> SUFFICES ASSUME NEW u \in Users, ~Disputed(u)' PROVE Excess(u)' = 0
  BY DEF Balanced
<1> DEFINE Kept == Excess(u)' = Excess(u)
<1>1. ~Disputed(u)
  BY <1>0 DEF Disputed, PaymentsKept
<1>2. ASSUME NEW x \in Users, NEW d \in Deposits, NEW k, Deposit(x, d, k) PROVE Kept
  BY <1>0, <1>2, DepositExcess
<1>3. ASSUME NEW x \in Users, NEW type \in CreditTypes \ {"PURCHASED"}, NEW row \in MintTypes,
             NEW g \in Grants, NEW k, Grant(x, type, row, g, k)
      PROVE  Kept
  BY <1>0, <1>3, GrantExcess
<1>4. ASSUME NEW type \in SaleTypes, NEW x \in Users, NEW c \in Users, NEW credits \in Nat, NEW k,
             Sale(type, x, c, credits, k)
      PROVE  Kept
  BY <1>0, <1>4, SaleExcess
<1>5. ASSUME NEW i \in DOMAIN ledger, Refund(i) PROVE Kept
  BY <1>0, <1>5, RefundExcess
<1>6. ASSUME NEW p \in DOMAIN payments, Chargeback(p) PROVE Kept
  <2>1. /\ DOMAIN payments' = DOMAIN payments /\ payments'[p].owner = payments[p].owner
        /\ payments'[p].status = "DISPUTED_CHARGEBACK"
    BY <1>0, <1>6, ChargebackFacts
  <2>2. u # payments[p].owner
    BY <2>1 DEF Disputed
  <2> QED
    BY <1>0, <1>6, <2>2, ChargebackExcess
<1>7. ASSUME NEW s \in Sweepers,
             SweepFind(s) \/ SweepLot(s) \/ SweepWallet(s) \/ SweepEntry(s) \/ SweepCrash(s)
      PROVE  Kept
  BY <1>0, <1>7, SweepExcess
<1>8. ASSUME UNCHANGED <<wallets, lots, ledger, payments, sweeps, crashes>>, now <= now' PROVE Kept
  BY <1>8, ExcessStays
<1> HIDE DEF Kept
<1>9. Kept
  BY <1>2, <1>3, <1>4, <1>5, <1>6, <1>7, <1>8, StepCases DEF Steps
<1> QED
  BY <1>1, <1>9 DEF Kept, Balanced

LEMMA BalancedImplied == BooksTyped /\ Balanced => BalanceIsCreditsAndEarnings
<1> SUFFICES ASSUME BooksTyped, Balanced, NEW u \in Users, ~Disputed(u)
             PROVE  wallets[u].balance =
                      Total(wallets[u].typed, CreditTypes)
                      + Total(Nets, {i \in DOMAIN ledger : ledger[i].dst = u /\ ledger[i].earning = "CLEARED"})
  BY DEF BalanceIsCreditsAndEarnings
<1> DEFINE S == {i \in DOMAIN ledger : ledger[i].dst = u /\ ledger[i].earning = "CLEARED"}
           D == DOMAIN ledger
           g == EarnedRows(u)
           w == wallets[u].typed
<1>1. IsFiniteSet(D) /\ \A i \in D : g[i] = EarnedRow(ledger[i], u)
  BY EarnedIsInt DEF BooksTyped
<1>2. \A i \in D : Nets[i] = ledger[i].net /\ ledger[i].net \in Int
  BY DEF Nets, BooksTyped, RowsTyped, EntryTyped
<1>3. \A i \in D : g[i] = IF i \in S THEN Nets[i] ELSE 0
  BY <1>1, <1>2 DEF EarnedRow
<1>4. S \subseteq D /\ \A i \in D : Nets[i] \in Int
  BY <1>2
<1>5. EarnedBy(u) = Total(g, D) /\ CreditsOf(u) = Total(w, CreditTypes)
  BY DEF EarnedBy, CreditsOf
<1> HIDE DEF S, D, g
<1>6. Total(Nets, S) = Total(g, D) /\ Total(Nets, S) \in Int
  BY <1>1, <1>3, <1>4, TotalMasked
<1>7. wallets[u].balance \in Int /\ \A t \in CreditTypes : w[t] \in Int
  BY ColumnsRead DEF BooksTyped
<1> HIDE DEF w
<1>8. Total(w, CreditTypes) \in Int
  BY <1>7, ThreeTypes
<1>9. Excess(u) = 0
  BY DEF Balanced
<1>10. wallets[u].balance - Total(w, CreditTypes) - Total(g, D) = 0
  BY <1>5, <1>9 DEF Excess
<1>11. wallets[u].balance = Total(w, CreditTypes) + Total(Nets, S)
  BY <1>6, <1>7, <1>8, <1>10
<1> QED
  BY <1>11 DEF S, w

-----------------------------------------------------------------------------
(* Every credit of a lot is accounted for *)

LEMMA TotalOfZeros ==
    ASSUME NEW f, NEW S, IsFiniteSet(S), \A x \in S : f[x] = 0
    PROVE  Total(f, S) = 0
<1> DEFINE none == {}
<1>1. none \subseteq S /\ (\A x \in S : f[x] \in Int) /\ \A x \in S : f[x] = IF x \in none THEN f[x] ELSE 0
  OBVIOUS
<1>2. Total(f, none) = 0
  BY TotalOfNone
<1> HIDE DEF none
<1>3. Total(f, none) = Total(f, S)
  BY <1>1, TotalMasked
<1> QED
  BY <1>2, <1>3

\* What a row used of lot l: a standing sale what it took, an expiry its amount
Took(e, l) == IF e.status = "COMPLETED" /\ l \in DOMAIN e.taken THEN e.taken[l] ELSE 0
Lost(e, l) == IF e.type = Expiry /\ e.ref = l THEN e.amount ELSE 0
Used(e, l) == Took(e, l) + Lost(e, l)
UsedRows(l) == [i \in DOMAIN ledger |-> Used(ledger[i], l)]
UsedOf(l) == Total(UsedRows(l), DOMAIN ledger)

LEMMA UsedIsNat ==
    ASSUME NEW e, NEW n, EntryTyped(e, n), NEW l
    PROVE  Took(e, l) \in Nat /\ Lost(e, l) \in Nat /\ Used(e, l) \in Nat
BY DEF EntryTyped, Took, Lost, Used

LEMMA UsedFacts ==
    ASSUME BooksTyped, NEW l
    PROVE  /\ IsFiniteSet(DOMAIN ledger) /\ UsedOf(l) \in Int
           /\ \A i \in DOMAIN ledger : /\ UsedRows(l)[i] = Used(ledger[i], l)
                                       /\ Used(ledger[i], l) \in Nat
<1>1. IsFiniteSet(DOMAIN ledger)
  BY ReplayedIsInt DEF BooksTyped
<1>2. ASSUME NEW i \in DOMAIN ledger
      PROVE  /\ UsedRows(l)[i] = Used(ledger[i], l) /\ Used(ledger[i], l) \in Nat
             /\ UsedRows(l)[i] \in Int
  <2>1. EntryTyped(ledger[i], Len(lots))
    BY DEF BooksTyped, RowsTyped
  <2>2. Used(ledger[i], l) \in Nat
    BY <2>1, UsedIsNat
  <2> QED
    BY <2>2 DEF UsedRows
<1>3. UsedOf(l) \in Int
  BY <1>1, <1>2, TotalIsInt DEF UsedOf
<1> QED
  BY <1>1, <1>2, <1>3

LEMMA UsedGrows ==
    ASSUME BooksTyped, NEW e, NEW m, EntryTyped(e, m), ledger' = Append(ledger, e), NEW l
    PROVE  UsedOf(l)' = UsedOf(l) + Used(e, l) /\ Used(e, l) \in Nat /\ UsedOf(l) \in Int
<1> DEFINE D == DOMAIN ledger
           k == Len(ledger) + 1
           f == UsedRows(l)
           g == [i \in DOMAIN ledger' |-> Used(ledger'[i], l)]
<1>1. /\ DOMAIN ledger' = D \cup {k} /\ k \notin D /\ ledger'[k] = e
      /\ \A i \in D : ledger'[i] = ledger[i]
  BY RowsOfAppend DEF BooksTyped
<1>2. IsFiniteSet(D) /\ (\A i \in D : f[i] = Used(ledger[i], l) /\ f[i] \in Int) /\ UsedOf(l) \in Int
  BY UsedFacts
<1>3. Used(e, l) \in Nat
  BY UsedIsNat
<1> HIDE DEF k
<1>4. g[k] = Used(e, l) /\ \A i \in D : g[i] = f[i]
  BY <1>1, <1>2
<1>5. UsedOf(l)' = Total(g, D \cup {k}) /\ UsedOf(l) = Total(f, D)
  BY <1>1 DEF UsedOf, UsedRows
<1>6. \A i \in D : f[i] \in Int
  BY <1>2
<1>8. (\A i \in D : g[i] = f[i]) /\ g[k] \in Int
  <2> HIDE DEF D, f, g
  <2>1. g[k] \in Nat
    BY <1>3, <1>4
  <2> QED
    BY <1>4, <2>1
<1>10. IsFiniteSet(D) /\ k \notin D
  BY <1>1, <1>2
<1> HIDE DEF D, f, g
<1>7. \A i \in D \cup {k} : g[i] \in Int
  BY <1>6, <1>8
<1>9. Total(g, D \cup {k}) = Total(f, D) + g[k]
  BY <1>6, <1>7, <1>8, <1>10, ColumnGrows
<1> QED
  BY <1>2, <1>3, <1>4, <1>5, <1>9

\* What sweeps took from lot l and have not entered in the log
SweepingOf(l) ==
    Total(SweptCredits, {s \in Sweepers : sweeps[s].pc \in {"wallet", "entry"} /\ sweeps[s].lot = l})
SweepsOn(row, l) == row.pc \in {"wallet", "entry"} /\ row.lot = l

LEMMA SweepingMoves ==
    ASSUME BooksTyped, BooksTyped', NEW s \in Sweepers,
           \A r \in Sweepers : r # s => sweeps'[r] = sweeps[r], NEW l
    PROVE  /\ SweepingOf(l) \in Nat /\ SweepingOf(l)' \in Nat
           /\ SweepingOf(l)' = SweepingOf(l)
                + (IF SweepsOn(sweeps'[s], l) THEN sweeps'[s].credits ELSE 0)
                - (IF SweepsOn(sweeps[s], l) THEN sweeps[s].credits ELSE 0)
<1> DEFINE S == {r \in Sweepers : sweeps[r].pc \in {"wallet", "entry"} /\ sweeps[r].lot = l}
           T == {r \in Sweepers : sweeps'[r].pc \in {"wallet", "entry"} /\ sweeps'[r].lot = l}
<1>1. SweepingOf(l) = Total(SweptCredits, S) /\ SweepingOf(l)' = Total(SweptCredits', T)
  BY DEF SweepingOf
<1>2. S \subseteq Sweepers /\ T \subseteq Sweepers
  OBVIOUS
<1>3. \A r \in Sweepers : r # s => (r \in T <=> r \in S)
  OBVIOUS
<1>4. (s \in S <=> SweepsOn(sweeps[s], l)) /\ (s \in T <=> SweepsOn(sweeps'[s], l))
  BY DEF SweepsOn
<1> HIDE DEF S, T
<1>5. /\ Total(SweptCredits, S) \in Nat /\ Total(SweptCredits', T) \in Nat
      /\ Total(SweptCredits', T) = Total(SweptCredits, S)
           + (IF s \in T THEN sweeps'[s].credits ELSE 0)
           - (IF s \in S THEN sweeps[s].credits ELSE 0)
  BY ZenonT(30), <1>2, <1>3, CreditsMove
<1> QED
  BY <1>1, <1>4, <1>5

LEMMA SweepingStays ==
    ASSUME BooksTyped, sweeps' = sweeps, NEW l
    PROVE  SweepingOf(l)' = SweepingOf(l) /\ SweepingOf(l) \in Nat
<1> DEFINE S == {r \in Sweepers : sweeps[r].pc \in {"wallet", "entry"} /\ sweeps[r].lot = l}
<1>1. SweptCredits' = SweptCredits
  BY DEF SweptCredits
<1>2. SweepingOf(l)' = SweepingOf(l)
  BY <1>1 DEF SweepingOf
<1>3. S \subseteq Sweepers
  OBVIOUS
<1>4. IsFiniteSet(S)
  BY <1>3, FinitenessAssumption, FS_Subset
<1>5. \A s \in S : SweptCredits[s] \in Nat
  BY <1>3, UnloggedFacts
<1>6. SweepingOf(l) = Total(SweptCredits, S)
  BY DEF SweepingOf
<1> HIDE DEF S
<1> QED
  BY <1>2, <1>4, <1>5, <1>6, TotalIsNat

\* What is missing of lot l
Spread(l) == lots[l].original - lots[l].remaining - UsedOf(l) - SweepingOf(l)

LEMMA SpreadKept ==
    ASSUME BooksTyped, NEW l \in DOMAIN lots, NEW a, a \in Int, NEW b, b \in Int, NEW c, c \in Int,
           a + b + c = 0, lots'[l].original = lots[l].original,
           lots'[l].remaining = lots[l].remaining + a,
           UsedOf(l)' = UsedOf(l) + b, SweepingOf(l)' = SweepingOf(l) + c, SweepingOf(l) \in Int
    PROVE  Spread(l)' = Spread(l)
<1> DEFINE p == UsedOf(l)
           q == UsedOf(l)'
           x == SweepingOf(l)
           y == SweepingOf(l)'
<1>1. p \in Int
  BY UsedFacts
<1>2. lots[l].original \in Int /\ lots[l].remaining \in Int
  BY LotFacts DEF BooksTyped, LotRow
<1>3. Spread(l) = lots[l].original - lots[l].remaining - p - x
      /\ Spread(l)' = lots'[l].original - lots'[l].remaining - q - y
  BY DEF Spread
<1>4. q = p + b /\ y = x + c /\ x \in Int
  OBVIOUS
<1> HIDE DEF p, q, x, y
<1> QED
  BY <1>1, <1>2, <1>3, <1>4

\* A step that adds a row and leaves the sweeps alone
LEMMA SpreadOfRow ==
    ASSUME BooksTyped, NEW l \in DOMAIN lots, NEW e, NEW m, EntryTyped(e, m),
           ledger' = Append(ledger, e), sweeps' = sweeps,
           lots'[l].original = lots[l].original,
           lots'[l].remaining = lots[l].remaining - Used(e, l)
    PROVE  Spread(l)' = Spread(l)
<1> DEFINE b == Used(e, l)
           a == -b
           zero == 0
<1>1. UsedOf(l)' = UsedOf(l) + b /\ b \in Nat
  BY UsedGrows
<1>2. SweepingOf(l)' = SweepingOf(l) /\ SweepingOf(l) \in Int
  BY SweepingStays
<1>3. lots[l].remaining \in Int
  BY LotFacts DEF BooksTyped
<1> DEFINE x == SweepingOf(l)
           y == SweepingOf(l)'
<1>4. SweepingOf(l)' = SweepingOf(l) + zero
  <2>1. x \in Int /\ y = x
    BY <1>2
  <2> HIDE DEF x, y
  <2>2. y = x + zero
    BY <2>1
  <2> QED
    BY <2>2 DEF x, y
<1> HIDE DEF b
<1>5. lots'[l].remaining = lots[l].remaining + a /\ a \in Int /\ b \in Int /\ zero \in Int
      /\ a + b + zero = 0
  BY <1>1, <1>3 DEF b
<1> HIDE DEF a, zero
<1> QED
  BY <1>1, <1>2, <1>4, <1>5, SpreadKept

\* A row that a lot expired names a lot.
ExpiriesNamed == \A i \in DOMAIN ledger : ledger[i].type = Expiry => ledger[i].ref \in DOMAIN lots

LEMMA SaleSpread ==
    ASSUME BooksTyped, NEW type, type \in SaleTypes, NEW fan \in Users,
           NEW creator \in Users, NEW credits, credits \in Nat, NEW k,
           Sale(type, fan, creator, credits, k), NEW l \in DOMAIN lots
    PROVE  Spread(l)' = Spread(l)
<1> DEFINE net == credits - PlatformFee(credits)
           taken == Drawdown(fan, credits)
           e == Entry(type, fan, creator, credits, net, k, 0, taken)
<1>1. SameLots(lots')
  BY SaleFacts
<1>2. ledger' = Append(ledger, e) /\ EntryTyped(e, Len(lots))
  BY SaleFacts
<1>3. lots' = DrawnOn(taken) /\ sweeps' = sweeps
  BY DEF Sale
<1>4. /\ DOMAIN taken \subseteq DOMAIN lots
      /\ \A m \in DOMAIN taken : taken[m] \in Nat /\ taken[m] <= lots[m].remaining
  BY DrawdownFacts DEF BooksTyped
<1> HIDE DEF taken
<1>5. e.type = type /\ e.status = "COMPLETED" /\ e.taken = taken
  BY EntryColumns
<1> HIDE DEF e
<1>6. /\ \A m \in DOMAIN lots \ DOMAIN taken : lots'[m] = lots[m]
      /\ \A m \in DOMAIN taken : lots'[m].remaining = lots[m].remaining - taken[m]
  BY <1>3, <1>4, DrawnOnFacts DEF BooksTyped
<1>7. Used(e, l) = IF l \in DOMAIN taken THEN taken[l] ELSE 0
  BY <1>4, <1>5 DEF Used, Took, Lost, SaleTypes, Expiry
<1>8. lots[l].remaining \in Int
  BY LotFacts DEF BooksTyped
<1>9. lots'[l].remaining = lots[l].remaining - Used(e, l)
  BY <1>4, <1>6, <1>7, <1>8
<1>10. lots'[l].original = lots[l].original
  BY <1>1 DEF SameLots
<1> QED
  BY <1>2, <1>3, <1>9, <1>10, SpreadOfRow

\* A deposit or a grant leaves the older lots as they are.
LEMMA MintSpread ==
    ASSUME BooksTyped, NEW l \in DOMAIN lots, lots'[l] = lots[l], sweeps' = sweeps,
           NEW e, NEW m, EntryTyped(e, m), ledger' = Append(ledger, e), Used(e, l) = 0
    PROVE  Spread(l)' = Spread(l)
<1>1. lots[l].remaining \in Int
  BY LotFacts DEF BooksTyped
<1>2. lots'[l].remaining = lots[l].remaining - Used(e, l)
  BY <1>1
<1> QED
  BY <1>2, SpreadOfRow

\* A row that names no lot
LEMMA PlainUsesNothing ==
    ASSUME NEW type, type # Expiry, NEW src, NEW dst, NEW credits, NEW net, NEW key, NEW ref, NEW l
    PROVE  Used(Entry(type, src, dst, credits, net, key, ref, NoLots), l) = 0
<1> DEFINE e == Entry(type, src, dst, credits, net, key, ref, NoLots)
<1>1. e.type = type /\ e.taken = NoLots
  BY EntryColumns
<1>2. DOMAIN NoLots = {}
  BY DEF NoLots
<1> HIDE DEF e
<1>3. Took(e, l) = 0 /\ Lost(e, l) = 0
  BY <1>1, <1>2 DEF Took, Lost
<1>4. Used(e, l) = 0
  BY <1>3 DEF Used
<1> QED
  BY <1>4 DEF e

\* A new lot is whole, and no row or sweep names it.
LEMMA NewSpread ==
    ASSUME BooksTyped, ExpiriesNamed, NEW l, l \notin DOMAIN lots, l \in Nat,
           lots'[l].remaining = lots'[l].original, lots'[l].original \in Int,
           NEW e, NEW m, EntryTyped(e, m), ledger' = Append(ledger, e), Used(e, l) = 0,
           sweeps' = sweeps
    PROVE  Spread(l)' = 0
<1>1. \A i \in DOMAIN ledger : UsedRows(l)[i] = 0
  <2>1. ASSUME NEW i \in DOMAIN ledger PROVE UsedRows(l)[i] = 0
    <3>1. l \notin DOMAIN ledger[i].taken
      BY LotFacts DEF BooksTyped, RowsTyped, EntryTyped
    <3>2. Lost(ledger[i], l) = 0
      BY DEF ExpiriesNamed, Lost
    <3>3. UsedRows(l)[i] = Used(ledger[i], l)
      BY UsedFacts
    <3> QED
      BY <3>1, <3>2, <3>3 DEF Used, Took
  <2> QED
    BY <2>1
<1>2. UsedOf(l) = 0
  BY <1>1, UsedFacts, TotalOfZeros DEF UsedOf
<1>3. UsedOf(l)' = 0
  <2>1. UsedOf(l)' = UsedOf(l) + Used(e, l)
    BY UsedGrows
  <2> QED
    BY <1>2, <2>1
<1>4. SweepingOf(l) = 0
  <2> DEFINE S == {s \in Sweepers : sweeps[s].pc \in {"wallet", "entry"} /\ sweeps[s].lot = l}
  <2>1. S = {}
    BY SweepRead
  <2>2. SweepingOf(l) = Total(SweptCredits, S)
    BY DEF SweepingOf
  <2> HIDE DEF S
  <2> QED
    BY <2>1, <2>2, TotalOfNone
<1>5. SweepingOf(l)' = 0
  BY <1>4, SweepingStays
<1> QED
  BY <1>3, <1>5 DEF Spread

LEMMA RefundSpread ==
    ASSUME BooksTyped, NEW i, i \in DOMAIN ledger, Refund(i), NEW l \in DOMAIN lots
    PROVE  Spread(l)' = Spread(l)
<1> DEFINE o == ledger[i]
           e == Entry("REFUND", o.dst, o.src, o.amount, o.net, None, i, NoLots)
           taken == o.taken
           back == Reversed(i)
           f == UsedRows(l)
           g == [j \in DOMAIN ledger' |-> Used(ledger'[j], l)]
           D == DOMAIN ledger
           k == Len(ledger) + 1
           a == IF l \in DOMAIN taken THEN taken[l] ELSE 0
           b == -a
           zero == 0
<1>1. /\ EntryTyped(o, Len(lots)) /\ o.status = "COMPLETED"
      /\ lots' = Restored(o.taken) /\ SameLots(lots')
      /\ ledger' = Append(back, e) /\ EntryTyped(e, Len(lots))
  BY RefundFacts
<1>2. RowsTyped(ledger, Len(lots)) /\ LotsTyped
  BY DEF BooksTyped
<1>3. /\ RowsTyped(back, Len(lots)) /\ Len(back) = Len(ledger) /\ DOMAIN back = DOMAIN ledger
      /\ \A j \in DOMAIN ledger \ {i} : back[j] = ledger[j]
      /\ back[i].status = "REVERSED"
      /\ \A j \in DOMAIN ledger :
            /\ back[j].type = ledger[j].type /\ back[j].amount = ledger[j].amount
            /\ back[j].ref = ledger[j].ref
  BY <1>2, ReversedFacts
<1>4. /\ k \in Nat /\ k \notin D /\ IsFiniteSet(D) /\ DOMAIN ledger' = D \cup {k}
      /\ ledger'[k] = e /\ \A j \in D : ledger'[j] = back[j]
  <2> HIDE DEF e, back
  <2> QED
    BY <1>1, <1>2, <1>3, NewRow
<1>5. Used(e, l) = 0
  BY PlainUsesNothing DEF Expiry
<1>6. /\ \A j \in D : f[j] = Used(ledger[j], l) /\ f[j] \in Nat
      /\ UsedOf(l) \in Int
  BY UsedFacts
<1>7. /\ DOMAIN taken \subseteq DOMAIN lots /\ \A m \in DOMAIN taken : taken[m] \in Nat
  <2> HIDE DEF o
  <2> QED
    BY <1>1, <1>2, LotFacts DEF EntryTyped
<1>8. /\ lots'[l].remaining = lots[l].remaining + a /\ lots'[l].original = lots[l].original
      /\ a \in Nat
  <2> HIDE DEF o, taken
  <2>1. lots' = Restored(taken)
    BY <1>1 DEF taken
  <2>2. /\ \A m \in DOMAIN lots \ DOMAIN taken : lots'[m] = lots[m]
        /\ \A m \in DOMAIN taken : lots'[m].remaining = lots[m].remaining + taken[m]
    BY <1>2, <1>7, <2>1, RestoredFacts
  <2>3. lots[l].remaining \in Int
    BY <1>2, LotFacts
  <2> QED
    BY <1>1, <1>7, <2>2, <2>3 DEF SameLots
<1>9. Used(ledger[i], l) = a + Lost(ledger[i], l)
  BY <1>1 DEF Used, Took
<1>10. Used(back[i], l) = Lost(ledger[i], l)
  <2>1. Took(back[i], l) = 0
    BY <1>3 DEF Took
  <2>2. Lost(back[i], l) = Lost(ledger[i], l)
    BY <1>3 DEF Lost
  <2>3. Lost(ledger[i], l) \in Nat
    BY <1>1, UsedIsNat
  <2> QED
    BY <2>1, <2>2, <2>3 DEF Used
<1>11. Lost(ledger[i], l) \in Nat
  BY <1>1, UsedIsNat
<1>12. UsedOf(l) = Total(f, D) /\ UsedOf(l)' = Total(g, D \cup {k})
  BY <1>4 DEF UsedOf, UsedRows
<1>13. g[i] = Used(back[i], l) /\ g[k] = Used(e, l) /\ \A j \in D \ {i} : g[j] = Used(ledger[j], l)
  BY <1>3, <1>4
<1> HIDE DEF e, k, f, back, g, taken, a
<1>14. g[i] = f[i] - a /\ g[k] = 0 /\ \A j \in D \ {i} : g[j] = f[j]
  BY <1>5, <1>6, <1>8, <1>9, <1>10, <1>11, <1>13
<1>15. UsedOf(l)' = UsedOf(l) + b
  <2>1. \A j \in D : f[j] \in Int
    BY <1>6
  <2>2. i \in D /\ IsFiniteSet(D) /\ k \notin D
    BY <1>4
  <2>3. \A j \in D \cup {k} : g[j] \in Int
    BY <1>6, <1>8, <1>14
  <2>4. \A j \in D \ {i} : g[j] = f[j]
    BY <1>14
  <2> HIDE DEF D
  <2>5. Total(g, D \cup {k}) = Total(f, D) + g[i] - f[i] + g[k] /\ Total(f, D) \in Int
    BY <2>1, <2>2, <2>3, <2>4, ColumnMoves
  <2>6. f[i] \in Int
    BY <2>1, <2>2
  <2> QED
    BY <1>8, <1>12, <1>14, <2>5, <2>6
<1>16. sweeps' = sweeps
  BY DEF Refund
<1>17. SweepingOf(l)' = SweepingOf(l) /\ SweepingOf(l) \in Int
  BY <1>16, SweepingStays
<1> DEFINE x == SweepingOf(l)
           y == SweepingOf(l)'
<1>18. SweepingOf(l)' = SweepingOf(l) + zero
  <2>1. x \in Int /\ y = x
    BY <1>17
  <2> HIDE DEF x, y
  <2>2. y = x + zero
    BY <2>1
  <2> QED
    BY <2>2 DEF x, y
<1>19. a \in Int /\ b \in Int /\ zero \in Int /\ a + b + zero = 0
  BY <1>8
<1> HIDE DEF b, zero
<1> QED
  BY <1>8, <1>15, <1>17, <1>18, <1>19, SpreadKept

LEMMA ChargebackSpread ==
    ASSUME BooksTyped, Linked, NEW p, p \in DOMAIN payments, Chargeback(p),
           NEW l \in DOMAIN lots, lots[l].owner # payments[p].owner
    PROVE  Spread(l)' = Spread(l)
<1> DEFINE n == payments[p].credits + payments[p].bonus
           e == Entry("CHARGEBACK_REVERSAL", payments[p].owner, None, n, 0, None, p, NoLots)
<1>1. lots' = Revoked(p)
  BY ChargebackFacts
<1>2. ledger' = Append(ledger, e) /\ EntryTyped(e, Len(lots))
  BY ChargebackFacts
<1>3. \A m \in DOMAIN lots : lots[m].payment # p => lots'[m] = lots[m]
  BY <1>1, RevokedFacts DEF BooksTyped
<1>4. p # 0
  BY DEF BooksTyped
<1>5. lots'[l] = lots[l]
  BY <1>3, <1>4 DEF Linked, LotsLinked, LotLinked
<1>6. Used(e, l) = 0
  BY PlainUsesNothing DEF Expiry
<1>7. sweeps' = sweeps
  BY DEF Chargeback
<1> HIDE DEF e
<1> QED
  BY <1>2, <1>5, <1>6, <1>7, MintSpread

LEMMA SpreadStays ==
    ASSUME BooksTyped, NEW l \in DOMAIN lots, lots'[l] = lots[l], ledger' = ledger,
           SweepingOf(l)' = SweepingOf(l)
    PROVE  Spread(l)' = Spread(l)
BY DEF Spread, UsedOf, UsedRows

\* A sweep moves what a lot has left into its hands, and from there into the
\* log.
LEMMA SweepSpread ==
    ASSUME BooksTyped, BooksTyped', LotsKept, Linked, Apart, NEW s \in Sweepers,
           SweepFind(s) \/ SweepLot(s) \/ SweepWallet(s) \/ SweepEntry(s), NEW l \in DOMAIN lots
    PROVE  Spread(l)' = Spread(l)
<1>0. /\ LotsTyped /\ sweeps \in [Sweepers -> SweepRow]
      /\ sweeps[s] \in SweepRow /\ sweeps[s].credits \in Nat
  BY SweepRead DEF BooksTyped, SweepsTyped
<1> DEFINE zero == 0
           x == SweepingOf(l)
           y == SweepingOf(l)'
           held(row) == IF SweepsOn(row, l) THEN row.credits ELSE 0
<1>1. ASSUME \A r \in Sweepers : r # s => sweeps'[r] = sweeps[r]
      PROVE  x \in Nat /\ y \in Nat /\ y = x + held(sweeps'[s]) - held(sweeps[s])
  BY <1>1, SweepingMoves
<1> HIDE DEF x, y
<1>2. CASE SweepFind(s)
  <2>1. sweeps' = [sweeps EXCEPT ![s] = FoundRow] /\ lots' = lots /\ ledger' = ledger
        /\ sweeps[s].pc = "idle"
    BY <1>2, SweepSteps DEF SweepFind
  <2>2. sweeps'[s].pc = "lot" /\ \A r \in Sweepers : r # s => sweeps'[r] = sweeps[r]
    BY <1>0, <2>1 DEF FoundRow
  <2>3. held(sweeps'[s]) = 0 /\ held(sweeps[s]) = 0
    BY <2>1, <2>2 DEF SweepsOn
  <2>4. y = x
    BY <1>1, <2>2, <2>3
  <2> QED
    BY <2>1, <2>4, SpreadStays DEF x, y
<1>3. CASE SweepLot(s)
  <2>1. PICK item \in sweeps[s].todo :
          lots' = Expired(item[1]) /\ sweeps' = [sweeps EXCEPT ![s] = LotRowOf(s, item)]
    BY <1>3, SweepSteps
  <2> DEFINE m == item[1]
             c == item[2]
             a == IF m = l THEN -c ELSE 0
             d == IF m = l THEN c ELSE 0
  <2>2. /\ m \in DOMAIN lots /\ c \in Nat /\ Due(m, c) /\ sweeps[s].pc = "lot" /\ ledger' = ledger
    BY <1>3, SweepRead DEF SweepLot, Linked, SweepsLinked, SweepLinked
  <2>3. /\ sweeps'[s].pc = "wallet" /\ sweeps'[s].lot = m /\ sweeps'[s].credits = c
        /\ \A r \in Sweepers : r # s => sweeps'[r] = sweeps[r]
    BY <1>0, <2>1 DEF LotRowOf
  <2>4. /\ SameLots(lots') /\ lots'[m].remaining = 0
        /\ \A j \in DOMAIN lots \ {m} : lots'[j] = lots[j]
    BY <1>0, <2>1, <2>2, ExpiredFacts
  <2>5. held(sweeps[s]) = 0 /\ held(sweeps'[s]) = d
    BY <2>2, <2>3 DEF SweepsOn
  <2> HIDE DEF held, m, c
  <2>6. y = x + d /\ x \in Int
    <3>1. x \in Nat /\ y = x + held(sweeps'[s]) - held(sweeps[s])
      BY <1>1, <2>3
    <3> QED
      BY <2>2, <2>5, <3>1
  <2>7. lots[m].remaining = c /\ lots[l].remaining \in Nat
    BY <1>0, <2>2, LotFacts DEF Due
  <2>8. lots'[l].remaining = lots[l].remaining + a /\ lots'[l].original = lots[l].original
    BY <2>2, <2>4, <2>7 DEF SameLots
  <2>9. UsedOf(l)' = UsedOf(l) + zero
    <3>1. UsedOf(l)' = UsedOf(l)
      BY <2>2 DEF UsedOf, UsedRows
    <3>2. UsedOf(l) \in Int
      BY UsedFacts
    <3> DEFINE p == UsedOf(l)
               q == UsedOf(l)'
    <3>3. q = p /\ p \in Int
      BY <3>1, <3>2
    <3> HIDE DEF p, q
    <3>4. q = p + zero
      BY <3>3
    <3> QED
      BY <3>4 DEF p, q
  <2>10. a \in Int /\ d \in Int /\ zero \in Int /\ a + zero + d = 0
    BY <2>2
  <2> HIDE DEF a, d, zero
  <2> QED
    BY <2>6, <2>8, <2>9, <2>10, SpreadKept DEF x, y
<1>4. CASE SweepWallet(s)
  <2>1. /\ sweeps' = [sweeps EXCEPT ![s] = WalletRowOf(s)] /\ lots' = lots /\ ledger' = ledger
        /\ sweeps[s].pc = "wallet"
    BY <1>4, SweepSteps DEF SweepWallet
  <2>2. /\ sweeps'[s].pc = "entry" /\ sweeps'[s].lot = sweeps[s].lot
        /\ sweeps'[s].credits = sweeps[s].credits
        /\ \A r \in Sweepers : r # s => sweeps'[r] = sweeps[r]
    BY <1>0, <2>1 DEF WalletRowOf
  <2>3. held(sweeps'[s]) = held(sweeps[s]) /\ held(sweeps[s]) \in Nat
    BY <1>0, <2>1, <2>2 DEF SweepsOn
  <2> HIDE DEF held
  <2>4. y = x
    BY <1>1, <2>2, <2>3
  <2> QED
    BY <2>1, <2>4, SpreadStays DEF x, y
<1>5. CASE SweepEntry(s)
  <2> DEFINE v == lots[sweeps[s].lot].owner
             n == sweeps[s].credits
             e == Entry("CREDIT_EXPIRATION", v, None, n, 0, None, sweeps[s].lot, NoLots)
             b == IF sweeps[s].lot = l THEN n ELSE 0
             c == -b
  <2>1. /\ ledger' = Append(ledger, e) /\ sweeps[s].pc = "entry" /\ lots' = lots
        /\ sweeps' = [sweeps EXCEPT ![s] = EntryRowOf(s)]
    BY <1>5, SweepSteps DEF SweepEntry, Logged
  <2>2. sweeps'[s].pc # "wallet" /\ sweeps'[s].pc # "entry"
        /\ \A r \in Sweepers : r # s => sweeps'[r] = sweeps[r]
    BY <1>0, <2>1 DEF EntryRowOf
  <2>3. EntryTyped(e, Len(lots))
    <3>1. sweeps[s].lot \in DOMAIN lots /\ sweeps[s].lot \in Nat /\ n \in Nat /\ v \in Users
      BY <2>1, SweepRead, LotFacts DEF LotRow, BooksTyped
    <3>2. /\ "CREDIT_EXPIRATION" \in EntryTypes /\ 0 \in Nat /\ DOMAIN NoLots = {}
          /\ Len(lots) \in Nat
      BY LotFacts DEF EntryTypes, BurnTypes, NoLots, BooksTyped
    <3> HIDE DEF v, n
    <3> QED
      BY <3>1, <3>2, EntryIsTyped
  <2>4. e.type = "CREDIT_EXPIRATION" /\ e.ref = sweeps[s].lot /\ e.amount = n /\ e.taken = NoLots
    BY EntryColumns
  <2>5. held(sweeps'[s]) = 0 /\ held(sweeps[s]) = b
    BY <2>1, <2>2 DEF SweepsOn
  <2>6. DOMAIN NoLots = {} /\ n \in Nat
    BY <1>0 DEF NoLots
  <2> HIDE DEF e, n
  <2>7. Used(e, l) = b
    BY <2>4, <2>6 DEF Used, Took, Lost, Expiry
  <2>8. UsedOf(l)' = UsedOf(l) + b
    <3>1. UsedOf(l)' = UsedOf(l) + Used(e, l)
      BY <2>1, <2>3, UsedGrows
    <3> QED
      BY <2>7, <3>1
  <2> HIDE DEF held
  <2>9. y = x + c /\ x \in Int /\ c \in Int /\ b \in Int
    <3>1. x \in Nat /\ y = x + held(sweeps'[s]) - held(sweeps[s])
      BY <1>1, <2>2
    <3>2. b \in Nat
      BY <2>6
    <3> HIDE DEF b
    <3> QED
      BY <2>5, <3>1, <3>2
  <2>10. lots[l].remaining \in Int
    BY <1>0, LotFacts
  <2> HIDE DEF b
  <2>11. lots'[l].remaining = lots[l].remaining + zero /\ lots'[l].original = lots[l].original
         /\ zero \in Int /\ zero + b + c = 0
    BY <2>1, <2>9, <2>10
  <2> HIDE DEF c, zero
  <2> QED
    BY <2>8, <2>9, <2>11, SpreadKept DEF x, y
<1> QED
  BY <1>2, <1>3, <1>4, <1>5

LEMMA StepNamed ==
    ASSUME Typed, [Next]_vars, LotsKept, ExpiriesNamed
    PROVE  ExpiriesNamed'
<1>0. BooksTyped /\ RowsTyped(ledger, Len(lots)) /\ DOMAIN lots \subseteq DOMAIN lots' /\ now \in Nat
  BY BoundsAssumption DEF Typed, BooksTyped, LotsKept, StockTyped
<1>1. ASSUME ledger' = ledger PROVE ExpiriesNamed'
  BY <1>0, <1>1 DEF ExpiriesNamed
<1>2. ASSUME NEW e, ledger' = Append(ledger, e), e.type = Expiry => e.ref \in DOMAIN lots
      PROVE  ExpiriesNamed'
  <2>1. /\ DOMAIN ledger' = DOMAIN ledger \cup {Len(ledger) + 1}
        /\ ledger'[Len(ledger) + 1] = e /\ \A i \in DOMAIN ledger : ledger'[i] = ledger[i]
    BY <1>0, <1>2, RowsOfAppend
  <2> QED
    BY <1>0, <1>2, <2>1 DEF ExpiriesNamed
<1>3. ASSUME NEW u \in Users, NEW d \in Deposits, NEW k, Deposit(u, d, k) PROVE ExpiriesNamed'
  <2> DEFINE e == MintedRow(u, d, k)
  <2>1. ledger' = Append(ledger, e) /\ e.type # Expiry
    BY <1>3, EntryColumns DEF Deposit, MintedRow, Expiry
  <2> HIDE DEF e
  <2> QED
    BY <1>2, <2>1
<1>4. ASSUME NEW u \in Users, NEW type \in CreditTypes \ {"PURCHASED"}, NEW row \in MintTypes,
             NEW g \in Grants, NEW k, Grant(u, type, row, g, k)
      PROVE  ExpiriesNamed'
  <2> DEFINE e == Entry(row, None, u, g[1], 0, k, Len(lots) + 1, NoLots)
  <2>1. ledger' = Append(ledger, e) /\ e.type # Expiry
    BY <1>4, EntryColumns, TypesApart DEF Grant, Expiry
  <2> HIDE DEF e
  <2> QED
    BY <1>2, <2>1
<1>5. ASSUME NEW type \in SaleTypes, NEW u \in Users, NEW c \in Users, NEW credits \in Nat, NEW k,
             Sale(type, u, c, credits, k)
      PROVE  ExpiriesNamed'
  <2> DEFINE e == Entry(type, u, c, credits, credits - PlatformFee(credits), k, 0, Drawdown(u, credits))
  <2>1. ledger' = Append(ledger, e) /\ e.type # Expiry
    BY <1>5, EntryColumns, TypesApart DEF Sale, Expiry
  <2> HIDE DEF e
  <2> QED
    BY <1>2, <2>1
<1>6. ASSUME NEW i \in DOMAIN ledger, Refund(i) PROVE ExpiriesNamed'
  <2> DEFINE o == ledger[i]
             e == Entry("REFUND", o.dst, o.src, o.amount, o.net, None, i, NoLots)
             back == Reversed(i)
             k == Len(ledger) + 1
  <2>1. ledger' = Append(back, e)
    BY <1>0, <1>6, RefundFacts
  <2>2. /\ RowsTyped(back, Len(lots)) /\ Len(back) = Len(ledger) /\ DOMAIN back = DOMAIN ledger
        /\ \A j \in DOMAIN ledger : back[j].type = ledger[j].type /\ back[j].ref = ledger[j].ref
    BY <1>0, ReversedFacts
  <2>3. e.type # Expiry
    BY EntryColumns DEF Expiry
  <2> HIDE DEF e, back
  <2>4. /\ DOMAIN ledger' = DOMAIN ledger \cup {k}
        /\ ledger'[k] = e /\ \A j \in DOMAIN ledger : ledger'[j] = back[j]
    BY <1>0, <2>1, <2>2, NewRow
  <2> HIDE DEF k
  <2> QED
    BY <1>0, <2>2, <2>3, <2>4 DEF ExpiriesNamed
<1>7. ASSUME NEW p \in DOMAIN payments, Chargeback(p) PROVE ExpiriesNamed'
  <2> DEFINE e == Entry("CHARGEBACK_REVERSAL", payments[p].owner, None,
                        payments[p].credits + payments[p].bonus, 0, None, p, NoLots)
  <2>1. ledger' = Append(ledger, e)
    BY <1>7 DEF Chargeback
  <2>2. e.type # Expiry
    BY EntryColumns DEF Expiry
  <2> HIDE DEF e
  <2> QED
    BY <1>2, <2>1, <2>2
<1>8. ASSUME NEW s \in Sweepers, SweepEntry(s) PROVE ExpiriesNamed'
  <2> DEFINE e == Entry("CREDIT_EXPIRATION", lots[sweeps[s].lot].owner, None, Logged(s), 0, None,
                        sweeps[s].lot, NoLots)
  <2>1. ledger' = Append(ledger, e) /\ sweeps[s].pc = "entry"
    BY <1>8 DEF SweepEntry
  <2>2. e.ref = sweeps[s].lot /\ sweeps[s].lot \in DOMAIN lots
    BY <1>0, <2>1, EntryColumns, SweepRead
  <2> HIDE DEF e
  <2> QED
    BY <1>2, <2>1, <2>2
<1>9. ASSUME NEW s \in Sweepers, SweepFind(s) \/ SweepLot(s) \/ SweepWallet(s) \/ SweepCrash(s)
      PROVE  ExpiriesNamed'
  BY <1>1, <1>9 DEF SweepFind, SweepLot, SweepWallet, SweepCrash
<1>10. ASSUME UNCHANGED <<wallets, lots, ledger, payments, sweeps, crashes>>, now <= now'
       PROVE  ExpiriesNamed'
  BY <1>1, <1>10
<1> QED
  BY <1>3, <1>4, <1>5, <1>6, <1>7, <1>8, <1>9, <1>10, StepCases DEF Steps

\* The lots of fans no chargeback hit are accounted for until a sweep is cut
\* short.
AllSpread ==
    crashes = 0 => \A l \in DOMAIN lots : ~Disputed(lots[l].owner) => Spread(l) = 0

LEMMA NewLots ==
    ASSUME BooksTyped, ExpiriesNamed, NEW more, more \in Seq(LotRow), lots' = lots \o more,
           \A j \in DOMAIN more : more[j].remaining = more[j].original,
           NEW type, type # Expiry, NEW src, NEW dst, NEW credits, NEW net, NEW key, NEW ref,
           NEW m, EntryTyped(Entry(type, src, dst, credits, net, key, ref, NoLots), m),
           ledger' = Append(ledger, Entry(type, src, dst, credits, net, key, ref, NoLots)),
           sweeps' = sweeps
    PROVE  \A l \in DOMAIN lots' : Spread(l)' = IF l \in DOMAIN lots THEN Spread(l) ELSE 0
<1> DEFINE e == Entry(type, src, dst, credits, net, key, ref, NoLots)
<1>1. /\ DOMAIN lots' \subseteq Nat
      /\ \A l \in DOMAIN lots : lots'[l] = lots[l]
      /\ \A l \in DOMAIN lots' \ DOMAIN lots :
            l - Len(lots) \in 1 .. Len(more) /\ lots'[l] = more[l - Len(lots)]
  BY LotsAdded DEF BooksTyped
<1>2. ledger' = Append(ledger, e) /\ EntryTyped(e, m)
  OBVIOUS
<1>3. \A l : Used(e, l) = 0
  BY PlainUsesNothing
<1> HIDE DEF e
<1>4. ASSUME NEW l \in DOMAIN lots PROVE Spread(l)' = Spread(l)
  BY <1>1, <1>2, <1>3, MintSpread
<1>5. ASSUME NEW l \in DOMAIN lots', l \notin DOMAIN lots PROVE Spread(l)' = 0
  <2>1. l - Len(lots) \in DOMAIN more /\ lots'[l] = more[l - Len(lots)] /\ l \in Nat
    BY <1>1, <1>5
  <2>2. lots'[l] \in LotRow /\ lots'[l].remaining = lots'[l].original
    BY <2>1
  <2>3. lots'[l].original \in Int
    <3>1. lots'[l].original \in Nat
      BY <2>2 DEF LotRow
    <3> QED
      BY <3>1
  <2> QED
    BY <1>2, <1>3, <1>5, <2>1, <2>2, <2>3, NewSpread
<1> QED
  BY <1>4, <1>5

LEMMA StepSpread ==
    ASSUME Typed, [Next]_vars, OneSweep, Apart, Linked, ExpiriesNamed,
           ~ \E s \in Sweepers : SweepCrash(s), NEW l \in DOMAIN lots', ~Disputed(lots[l].owner)'
    PROVE  Spread(l)' = IF l \in DOMAIN lots THEN Spread(l) ELSE 0
<1>0. /\ BooksTyped /\ now \in Nat /\ BooksTyped' /\ LotsKept /\ PaymentsKept
  BY BoundsAssumption, StepTyped, StepLinked DEF Typed, StockTyped
<1> DEFINE Kept == Spread(l)' = IF l \in DOMAIN lots THEN Spread(l) ELSE 0
<1>1. ASSUME NEW x \in Users, NEW d \in Deposits, NEW k, Deposit(x, d, k) PROVE Kept
  <2> DEFINE more == MintedLots(x, d)
  <2>1. more \in Seq(LotRow) /\ lots' = lots \o more
    BY <1>0, <1>1, DepositFacts
  <2>2. ledger' = Append(ledger, MintedRow(x, d, k))
    BY <1>1 DEF Deposit, MintedRow
  <2>3. sweeps' = sweeps
    BY <1>1 DEF Deposit
  <2>4. \A j \in DOMAIN more : more[j].remaining = more[j].original
    BY DEF MintedLots, NewLot
  <2>5. EntryTyped(MintedRow(x, d, k), 0)
    <3>1. \A n \in Nat : EntryTyped(MintedRow(x, d, k), n)
      BY <1>0, <1>1, DepositFacts
    <3> QED
      BY <3>1
  <2>6. "DEPOSIT" # Expiry
    BY DEF Expiry
  <2> HIDE DEF more
  <2> QED
    BY <1>0, <2>1, <2>2, <2>3, <2>4, <2>5, <2>6, NewLots DEF MintedRow
<1>2. ASSUME NEW x \in Users, NEW type \in CreditTypes \ {"PURCHASED"}, NEW row \in MintTypes,
             NEW g \in Grants, NEW k, Grant(x, type, row, g, k)
      PROVE  Kept
  <2> DEFINE lot == GrantedLot(x, type, g)
             more == <<lot>>
             e == Entry(row, None, x, g[1], 0, k, Len(lots) + 1, NoLots)
  <2>1. lot \in LotRow /\ lots' = lots \o more
    BY <1>0, <1>2, GrantFacts
  <2>2. ledger' = Append(ledger, e)
    BY <1>2 DEF Grant
  <2>3. sweeps' = sweeps
    BY <1>2 DEF Grant
  <2>4. lot.remaining = lot.original
    BY DEF GrantedLot, NewLot
  <2>5. EntryTyped(e, 0)
    <3>1. \A n \in Nat : EntryTyped(e, n)
      BY <1>0, <1>2, GrantFacts
    <3> QED
      BY <3>1
  <2>6. row # Expiry
    BY TypesApart DEF Expiry
  <2> HIDE DEF lot
  <2>7. more \in Seq(LotRow) /\ \A j \in DOMAIN more : more[j].remaining = more[j].original
    BY <2>1, <2>4
  <2> HIDE DEF more
  <2> QED
    BY <1>0, <2>1, <2>2, <2>3, <2>5, <2>6, <2>7, NewLots
<1>3. ASSUME DOMAIN lots' = DOMAIN lots, Spread(l)' = Spread(l) PROVE Kept
  BY <1>3
<1>4. ASSUME NEW type \in SaleTypes, NEW x \in Users, NEW c \in Users, NEW credits \in Nat, NEW k,
             Sale(type, x, c, credits, k)
      PROVE  Kept
  <2>1. SameLots(lots')
    BY <1>0, <1>4, SaleFacts
  <2>2. DOMAIN lots' = DOMAIN lots
    BY <2>1 DEF SameLots
  <2> QED
    BY <1>0, <1>3, <1>4, <2>2, SaleSpread
<1>5. ASSUME NEW i \in DOMAIN ledger, Refund(i) PROVE Kept
  <2>1. SameLots(lots')
    BY <1>0, <1>5, RefundFacts
  <2>2. DOMAIN lots' = DOMAIN lots
    BY <2>1 DEF SameLots
  <2> QED
    BY <1>0, <1>3, <1>5, <2>2, RefundSpread
<1>6. ASSUME NEW p \in DOMAIN payments, Chargeback(p) PROVE Kept
  <2>1. SameLots(lots')
    BY <1>0, <1>6, ChargebackFacts
  <2>2. DOMAIN lots' = DOMAIN lots /\ lots'[l].owner = lots[l].owner
    BY <2>1 DEF SameLots
  <2>3. /\ DOMAIN payments' = DOMAIN payments /\ payments'[p].owner = payments[p].owner
        /\ payments'[p].status = "DISPUTED_CHARGEBACK"
    BY <1>0, <1>6, ChargebackFacts
  <2>4. lots[l].owner # payments[p].owner
    BY <2>2, <2>3 DEF Disputed
  <2> QED
    BY <1>0, <1>3, <1>6, <2>2, <2>4, ChargebackSpread
<1>7. ASSUME NEW s \in Sweepers,
             SweepFind(s) \/ SweepLot(s) \/ SweepWallet(s) \/ SweepEntry(s)
      PROVE  Kept
  <2>1. DOMAIN lots' = DOMAIN lots
    <3>1. CASE SweepLot(s)
      BY <3>1 DEF SweepLot, Expired
    <3>2. CASE SweepFind(s) \/ SweepWallet(s) \/ SweepEntry(s)
      BY <3>2 DEF SweepFind, SweepWallet, SweepEntry
    <3> QED
      BY <1>7, <3>1, <3>2
  <2> QED
    BY <1>0, <1>3, <1>7, <2>1, SweepSpread
<1>8. ASSUME UNCHANGED <<wallets, lots, ledger, payments, sweeps, crashes>>, now <= now' PROVE Kept
  <2>1. l \in DOMAIN lots /\ lots'[l] = lots[l] /\ ledger' = ledger /\ sweeps' = sweeps
    BY <1>8
  <2>2. SweepingOf(l)' = SweepingOf(l)
    BY <1>0, <2>1, SweepingStays
  <2> QED
    BY <1>0, <1>3, <1>8, <2>1, <2>2, SpreadStays
<1> HIDE DEF Kept
<1>9. Kept
  BY <1>1, <1>2, <1>4, <1>5, <1>6, <1>7, <1>8, StepCases DEF Steps
<1> QED
  BY <1>9 DEF Kept

LEMMA StepAllSpread ==
    ASSUME Typed, [Next]_vars, OneSweep, Apart, Linked, ExpiriesNamed, CrashesCount, AllSpread
    PROVE  AllSpread'
<1>1. LotsKept /\ PaymentsKept
  BY StepLinked
<1>2. ASSUME crashes' = 0, NEW l \in DOMAIN lots', ~Disputed(lots[l].owner)'
      PROVE  Spread(l)' = 0
  <2>1. crashes = 0 /\ ~ \E s \in Sweepers : SweepCrash(s)
    BY <1>2, CrashCounts
  <2>2. Spread(l)' = IF l \in DOMAIN lots THEN Spread(l) ELSE 0
    BY <1>2, <2>1, StepSpread
  <2>3. l \in DOMAIN lots => ~Disputed(lots[l].owner)
    BY <1>1, <1>2 DEF LotsKept, PaymentsKept, Disputed
  <2> QED
    BY <2>1, <2>2, <2>3 DEF AllSpread
<1> QED
  BY <1>2 DEF AllSpread

LEMMA SpreadImplied == BooksTyped /\ AllSpread => (crashes = 0 => LotsAddUp)
<1> SUFFICES ASSUME BooksTyped, AllSpread, crashes = 0, NEW l \in DOMAIN lots, ~Disputed(lots[l].owner)
             PROVE  lots[l].remaining + Outstanding(l)
                      + SumAmount({i \in Rows({"CREDIT_EXPIRATION"}) : ledger[i].ref = l})
                      + SweepingOf(l) = lots[l].original
  BY DEF LotsAddUp, SweepingOf
<1> DEFINE D == DOMAIN ledger
           S == {i \in D : ledger[i].status = "COMPLETED"}
           T == {i \in Rows({"CREDIT_EXPIRATION"}) : ledger[i].ref = l}
           f == TakenFrom(l)
           a == [i \in D |-> Took(ledger[i], l)]
           b == [i \in D |-> Lost(ledger[i], l)]
           u == UsedRows(l)
<1>1. IsFiniteSet(D) /\ \A i \in D : u[i] = Used(ledger[i], l)
  BY UsedFacts
<1>2. \A i \in D : Took(ledger[i], l) \in Nat /\ Lost(ledger[i], l) \in Nat
  BY UsedIsNat DEF BooksTyped, RowsTyped
<1>3. ASSUME NEW i \in D
      PROVE  /\ f[i] \in Int /\ Amounts[i] \in Int
             /\ a[i] = (IF i \in S THEN f[i] ELSE 0) /\ b[i] = (IF i \in T THEN Amounts[i] ELSE 0)
             /\ a[i] \in Int /\ b[i] \in Int /\ u[i] = a[i] + b[i]
  <2>1. EntryTyped(ledger[i], Len(lots))
    BY DEF BooksTyped, RowsTyped
  <2>2. f[i] = IF l \in DOMAIN ledger[i].taken THEN ledger[i].taken[l] ELSE 0
    BY DEF TakenFrom
  <2>3. Amounts[i] = ledger[i].amount
    BY DEF Amounts
  <2>4. f[i] \in Int /\ Amounts[i] \in Int
    BY <2>1, <2>2, <2>3 DEF EntryTyped
  <2>5. a[i] = IF i \in S THEN f[i] ELSE 0
    BY <2>2 DEF Took
  <2>6. b[i] = IF i \in T THEN Amounts[i] ELSE 0
    BY <2>3 DEF Lost, Rows, Expiry
  <2>7. u[i] = a[i] + b[i]
    BY <1>1 DEF Used
  <2> QED
    BY <1>2, <2>4, <2>5, <2>6, <2>7
<1>4. S \subseteq D /\ T \subseteq D
  BY DEF Rows
<1>5. Outstanding(l) = Total(f, S) /\ UsedOf(l) = Total(u, D)
      /\ SumAmount({i \in Rows({"CREDIT_EXPIRATION"}) : ledger[i].ref = l}) = Total(Amounts, T)
  BY DEF Outstanding, UsedOf, SumAmount
<1> HIDE DEF D, S, T, f, a, b, u
<1>6. Total(f, S) = Total(a, D) /\ Total(f, S) \in Int
  BY <1>1, <1>3, <1>4, TotalMasked
<1>7. Total(Amounts, T) = Total(b, D) /\ Total(Amounts, T) \in Int
  BY <1>1, <1>3, <1>4, TotalMasked
<1>8. Total(u, D) = Total(a, D) + Total(b, D)
  BY <1>1, <1>3, TotalAdds
<1>9. Spread(l) = 0
  BY DEF AllSpread
<1>10. SweepingOf(l) \in Int
  <2>1. {s \in Sweepers : sweeps[s].pc \in {"wallet", "entry"} /\ sweeps[s].lot = l} \subseteq Sweepers
    OBVIOUS
  <2>2. IsFiniteSet({s \in Sweepers : sweeps[s].pc \in {"wallet", "entry"} /\ sweeps[s].lot = l})
    BY <2>1, FinitenessAssumption, FS_Subset
  <2>3. \A s \in Sweepers : SweptCredits[s] \in Int
    BY UnloggedFacts
  <2> QED
    BY <2>1, <2>2, <2>3, TotalIsInt DEF SweepingOf
<1>11. lots[l].original \in Int /\ lots[l].remaining \in Int
  BY LotFacts DEF BooksTyped, LotRow
<1> QED
  BY <1>5, <1>6, <1>7, <1>8, <1>9, <1>10, <1>11 DEF Spread

\* Until a sweep is cut short, the balances, the earnings, the lots and the
\* standing sales of every fan no chargeback hit agree, when only sales are
\* refunded, one sweep runs at a time and none runs where refunds do.
THEOREM BooksStayInAgreement ==
    ASSUME RefundTypes \subseteq SaleTypes, \A r, s \in Sweepers : r = s,
           RefundTypes = {} \/ Sweepers = {}
    PROVE  Spec => []BooksAgree
<1>0. OneSweep /\ Apart
  BY DEF OneSweep, Apart
<1> DEFINE IInv == /\ Typed /\ Linked /\ CrashesCount /\ Closed /\ Balanced
                   /\ ExpiriesNamed /\ AllSpread
<1>1. Init => IInv
  <2> SUFFICES ASSUME Init PROVE IInv
    OBVIOUS
  <2>1. Typed /\ Linked /\ Closed /\ Balanced
    BY InitTyped, InitLinked, InitBalanced
  <2>2. CrashesCount /\ ExpiriesNamed /\ AllSpread
    BY DEF Init, CrashesCount, ExpiriesNamed, AllSpread
  <2> QED
    BY <2>1, <2>2
<1>2. IInv /\ [Next]_vars => IInv'
  BY <1>0, StepTyped, StepLinked, StepClosed, StepBalanced, StepNamed, StepAllSpread
<1>3. IInv => BooksAgree
  BY ClosedImplied, BalancedImplied, SpreadImplied DEF Typed, BooksAgree
<1> HIDE DEF IInv
<1> QED
  BY <1>1, <1>2, <1>3, PTL DEF Spec
=============================================================================
