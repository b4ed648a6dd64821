---------------------------- MODULE WalletHolds ----------------------------
(***************************************************************************)
(* One wallet row and those who write it under READ COMMITTED: deductions  *)
(* of WalletConcurrencyGuard, which compare and swap the row's version;    *)
(* sales of the ledger, which decrement the balance and count the version  *)
(* up; and the fraud holds, which move lockedBalance and leave the version *)
(* alone.  A transaction that has updated the row keeps it locked until it *)
(* ends.  The Redis lock of the guard is left out: a deduction goes ahead  *)
(* when it cannot have it.                                                 *)
(***************************************************************************)
EXTENDS Integers, FiniteSets, FiniteSetsExt

CONSTANTS
    Callers,       \* calls of executeAtomicDeduction
    Sales,         \* sales of the ledger
    Holds,         \* holds that the risk engine places
    Analysts,      \* calls that release or seize a hold
    Amount,        \* credits of each deduction, sale and hold
    Credits,       \* the balance at the start
    MaxRetries,    \* MAX_CAS_RETRIES
    None

ASSUME AmountAssumption ==
    /\ Amount \in [Callers \cup Sales \cup Holds -> Nat \ {0}]
    /\ Credits \in Nat /\ MaxRetries \in Nat
    /\ None \notin Callers
ASSUME FinitenessAssumption == IsFiniteSet(Holds)

VARIABLES
    wallet,      \* the committed row
    writer,      \* the deduction whose transaction has updated the row
    callers,     \* where each deduction stands, and what it read
    sales,       \* where each sale stands
    placing,     \* where the risk engine stands with each hold
    holds,       \* WalletHold rows, by status
    verdicts,    \* where each analyst stands, with the hold and the verdict
    sure,        \* deductions since whose read no hold was placed
    twice        \* two analysts decided one hold

vars == <<wallet, writer, callers, sales, placing, holds, verdicts, sure, twice>>

Init ==
    /\ wallet = [balance |-> Credits, locked |-> 0, version |-> 1]
    /\ writer = None
    /\ callers = [c \in Callers |-> [pc |-> "idle", version |-> 0, retries |-> 0]]
    /\ sales = [s \in Sales |-> "idle"]
    /\ placing = [h \in Holds |-> "idle"]
    /\ holds = [h \in Holds |-> "NONE"]
    /\ verdicts = [a \in Analysts |-> [pc |-> "idle", hold |-> None, seize |-> FALSE]]
    /\ sure = {} /\ twice = FALSE

-----------------------------------------------------------------------------
(* WalletConcurrencyGuard.executeAtomicDeduction *)

Available == wallet.balance - wallet.locked

\* Too little is available: the deduction throws, and is not tried again.
Read(c) ==
    /\ callers[c].pc = "idle"
    /\ callers' = [callers EXCEPT
          ![c].pc = IF Available < Amount[c] THEN "failed" ELSE "read",
          ![c].version = wallet.version]
    /\ sure' = sure \cup {c}
    /\ UNCHANGED <<wallet, writer, sales, placing, holds, verdicts, twice>>

\* Wrong on purpose: the balance alone is compared.
SwapsAnyVersion(c) == wallet.balance >= Amount[c]

Swaps(c) == wallet.version = callers[c].version /\ wallet.balance >= Amount[c]

\* The update waits for the row, then finds it as it was read, or does not: the
\* deduction starts over, a few times.
Swap(c) ==
    /\ callers[c].pc = "read" /\ writer = None
    /\ IF Swaps(c)
       THEN /\ writer' = c
            /\ callers' = [callers EXCEPT ![c].pc = "took"]
       ELSE /\ callers' = [callers EXCEPT
                  ![c].retries = @ + 1,
                  ![c].pc = IF callers[c].retries + 1 < MaxRetries THEN "idle" ELSE "failed"]
            /\ UNCHANGED writer
    /\ UNCHANGED <<wallet, sales, placing, holds, verdicts, sure, twice>>

\* The caller's own work ends the transaction, or throws and rolls it back.
Commit(c) ==
    /\ writer = c /\ writer' = None
    /\ wallet' = [wallet EXCEPT !.balance = @ - Amount[c], !.version = @ + 1]
    /\ callers' = [callers EXCEPT ![c].pc = "done"]
    /\ UNCHANGED <<sales, placing, holds, verdicts, sure, twice>>

Rollback(c) ==
    /\ writer = c /\ writer' = None
    /\ callers' = [callers EXCEPT ![c].pc = "failed"]
    /\ UNCHANGED <<wallet, sales, placing, holds, verdicts, sure, twice>>

-----------------------------------------------------------------------------
(* A sale of the ledger looks at the balance, not at what is held. *)

ReadSale(s) ==
    /\ sales[s] = "idle"
    /\ sales' = [sales EXCEPT ![s] = IF wallet.balance < Amount[s] THEN "failed" ELSE "read"]
    /\ UNCHANGED <<wallet, writer, callers, placing, holds, verdicts, sure, twice>>

Debit(s) ==
    /\ sales[s] = "read" /\ writer = None
    /\ sales' = [sales EXCEPT ![s] = "done"]
    /\ wallet' = [wallet EXCEPT !.balance = @ - Amount[s], !.version = @ + 1]
    /\ UNCHANGED <<writer, callers, placing, holds, verdicts, sure, twice>>

-----------------------------------------------------------------------------
(* FraudEnforcementService *)

\* enforce, DELAY_FULFILLMENT: the hold first, then the wallet, or never
CreateHold(h) ==
    /\ placing[h] = "idle"
    /\ placing' = [placing EXCEPT ![h] = "created"]
    /\ holds' = [holds EXCEPT ![h] = "HELD"]
    /\ UNCHANGED <<wallet, writer, callers, sales, verdicts, sure, twice>>

LockCredits(h) ==
    /\ placing[h] = "created" /\ writer = None
    /\ placing' = [placing EXCEPT ![h] = "placed"]
    /\ wallet' = [wallet EXCEPT !.locked = @ + Amount[h]]
    /\ sure' = {}
    /\ UNCHANGED <<writer, callers, sales, holds, verdicts, twice>>

FailToLock(h) ==
    /\ placing[h] = "created"
    /\ placing' = [placing EXCEPT ![h] = "failed"]
    /\ UNCHANGED <<wallet, writer, callers, sales, holds, verdicts, sure, twice>>

\* Wrong on purpose: any hold there is can be decided.
Exists(h) == holds[h] # "NONE"

Undecided(h) == holds[h] = "HELD"

\* releaseHold and seizeHold read the hold before their transaction ...
ReadHold(a, h, seize) ==
    /\ verdicts[a].pc = "idle" /\ Undecided(h)
    /\ verdicts' = [verdicts EXCEPT ![a] = [pc |-> "decided", hold |-> h, seize |-> seize]]
    /\ UNCHANGED <<wallet, writer, callers, sales, placing, holds, sure, twice>>

\* ... which looks at its status no more.
Decide(a) ==
    LET h == verdicts[a].hold
    IN  /\ verdicts[a].pc = "decided" /\ writer = None
        /\ verdicts' = [verdicts EXCEPT ![a].pc = "done"]
        /\ holds' = [holds EXCEPT ![h] = IF verdicts[a].seize THEN "SEIZED" ELSE "RELEASED"]
        /\ wallet' = [wallet EXCEPT
              !.locked = @ - Amount[h],
              !.balance = IF verdicts[a].seize THEN @ - Amount[h] ELSE @]
        /\ twice' = (twice \/ \E b \in Analysts \ {a} :
              verdicts[b].pc = "decided" /\ verdicts[b].hold = h)
        /\ UNCHANGED <<writer, callers, sales, placing, sure>>

Next ==
    \/ \E c \in Callers : Read(c) \/ Swap(c) \/ Commit(c) \/ Rollback(c)
    \/ \E s \in Sales : ReadSale(s) \/ Debit(s)
    \/ \E h \in Holds : CreateHold(h) \/ LockCredits(h) \/ FailToLock(h)
    \/ \E a \in Analysts :
          \/ \E h \in Holds, seize \in BOOLEAN : ReadHold(a, h, seize)
          \/ Decide(a)

Spec == Init /\ [][Next]_vars

-----------------------------------------------------------------------------
(* Properties *)

\* A deduction takes only credits that are not held: what it found available when
\* it read is there when it swaps, though sales, other deductions, releases and
\* seizures come between, and the swap compares neither what is held nor the
\* status of a hold.  Only a hold that is placed in between is not seen.
TakesWhatIsFree ==
    [][\A c \in Callers :
          callers[c].pc = "read" /\ callers'[c].pc = "took" /\ c \in sure
              => Available >= Amount[c]]_vars

\* The sum of f over S
Total(f, S) == MapThenSumSet(LAMBDA x : f[x], S)

\* When nothing is under way and every placement succeeded, what the wallet has
\* locked is what its undecided holds amount to, unless two analysts decided one
\* hold at the same time.
HoldsAreLocked ==
    (~twice /\ \A h \in Holds : placing[h] \in {"idle", "placed"})
        => wallet.locked = Total(Amount, {h \in Holds : holds[h] = "HELD"})
=============================================================================
