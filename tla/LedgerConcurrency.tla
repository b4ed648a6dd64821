-------------------------- MODULE LedgerConcurrency --------------------------
(***************************************************************************)
(* Concurrent purchases and refunds of WalletLedgerService, statement by   *)
(* statement.  Each request runs one prisma.$transaction; the order of its *)
(* SELECTs and UPDATEs, and which of them carry absolute values, is the    *)
(* code's.  The fan's credits are one PURCHASED lot: the order in which    *)
(* several lots are drawn is WalletLedger's subject.                       *)
(***************************************************************************)
EXTENDS Integers, FiniteSets, FiniteSetsExt

CONSTANTS
    Requests,   \* the transactions in flight
    Fans,       \* users whose credits they move
    Creator,    \* the seller
    Keys,       \* idempotency keys
    Kind,       \* request -> "TIP", "PPV", "PRODUCT" or "REFUND"
    Fan,        \* request -> the fan it charges or refunds
    Amount,     \* request -> credits
    Key,        \* request -> its idempotency key; for a refund, the sale's
    Opening,    \* fan -> credits at the start
    Stock,      \* units of the product on sale
    Nobody

SaleKinds == {"TIP", "PPV", "PRODUCT"}

ASSUME RequestsAssumption ==
    /\ Kind \in [Requests -> SaleKinds \cup {"REFUND"}]
    /\ Fan \in [Requests -> Fans]
    /\ Amount \in [Requests -> Nat \ {0}]
    /\ Key \in [Requests -> Keys]
ASSUME FinitenessAssumption == IsFiniteSet(Requests)
ASSUME NobodyAssumption == Nobody \notin Requests
ASSUME OpeningAssumption ==
    /\ Opening \in [Fans -> Nat] /\ Stock \in Nat
    /\ Creator \notin Fans

WalletRow(u) == <<"wallet", u>>
LotRow(u) == <<"lot", u>>
EntryRow(k) == <<"entry", k>>       \* WalletTransaction, unique idempotencyKey
OwnedRow(u) == <<"owned", u>>       \* ContentPurchase, unique (contentId, fanId)
ReceiptRow(p) == <<"receipt", p>>   \* the REFUND WalletTransaction of request p
StockRow == <<"stock", "product">>

Rows == {WalletRow(u) : u \in Fans \cup {Creator}} \cup {LotRow(u) : u \in Fans}
        \cup {EntryRow(k) : k \in Keys} \cup {OwnedRow(u) : u \in Fans}
        \cup {ReceiptRow(p) : p \in Requests} \cup {StockRow}

VARIABLES
    store, draft, holder,   \* the database
    pc,     \* the statement each request executes next, or how it ended
    seen    \* the lot's remaining as its SELECT returned it

DB == INSTANCE ReadCommitted WITH Txns <- Requests

vars == <<store, draft, holder, pc, seen>>

PlatformFee(credits) == (credits * 20) \div 100
Net(p) == Amount[p] - PlatformFee(Amount[p])

Ended == {"done", "replayed", "failed"}

\* The sales that REFUND requests are about were made before the start.
Sold == {Key[p] : p \in {q \in Requests : Kind[q] = "REFUND"}}

OpeningRow(r) ==
    CASE r[1] = "wallet" -> IF r[2] = Creator THEN [balance |-> 0, typed |-> 0]
                            ELSE [balance |-> Opening[r[2]], typed |-> Opening[r[2]]]
      [] r[1] = "lot"    -> Opening[r[2]]
      [] r[1] = "entry"  -> IF r[2] \in Sold THEN "COMPLETED" ELSE "ABSENT"
      [] r[1] = "stock"  -> Stock
      [] OTHER           -> FALSE

Init ==
    /\ DB!DBInit([r \in Rows |-> OpeningRow(r)])
    /\ pc = [p \in Requests |-> IF Kind[p] = "REFUND" THEN "original" ELSE "check"]
    /\ seen = [p \in Requests |-> 0]

See(p, r) == DB!See(p, r)

\* The transaction ends without a trace.
Stop(p, outcome) ==
    /\ DB!Rollback(p)
    /\ pc' = [pc EXCEPT ![p] = outcome]
    /\ UNCHANGED seen

Go(p, label) == pc' = [pc EXCEPT ![p] = label]

Update(p, r, v, label) ==
    /\ DB!Write(p, r, v)
    /\ Go(p, label)
    /\ UNCHANGED seen

-----------------------------------------------------------------------------
(* A sale *)

\* The idempotency key, or for PPV the existing purchase.
Check(p) ==
    LET known == IF Kind[p] = "PPV" THEN See(p, OwnedRow(Fan[p]))
                 ELSE See(p, EntryRow(Key[p])) # "ABSENT"
    IN  /\ pc[p] = "check"
        /\ IF known THEN Stop(p, "replayed")
           ELSE /\ Go(p, IF Kind[p] = "PRODUCT" THEN "product" ELSE "fan")
                /\ UNCHANGED <<store, draft, holder, seen>>

\* product.findUnique and the inventory check.
CheckStock(p) ==
    /\ pc[p] = "product"
    /\ IF See(p, StockRow) < 1 THEN Stop(p, "failed")
       ELSE Go(p, "fan") /\ UNCHANGED <<store, draft, holder, seen>>

\* validateWalletUsability
ReadFan(p) ==
    /\ pc[p] = "fan"
    /\ IF See(p, WalletRow(Fan[p])).balance < Amount[p] THEN Stop(p, "failed")
       ELSE Go(p, "debit") /\ UNCHANGED <<store, draft, holder, seen>>

\* Wrong on purpose: the typed balance is left alone.
MovedUntyped(p, u, balance, typed) ==
    LET wallet == See(p, WalletRow(u))
    IN  [balance |-> wallet.balance + balance, typed |-> wallet.typed]

\* An UPDATE of a wallet with increments.
Moved(p, u, balance, typed) ==
    LET wallet == See(p, WalletRow(u))
    IN  [balance |-> wallet.balance + balance, typed |-> wallet.typed + typed]

Debit(p) ==
    /\ pc[p] = "debit"
    /\ Update(p, WalletRow(Fan[p]), Moved(p, Fan[p], -Amount[p], 0), "credit")

Credit(p) ==
    /\ pc[p] = "credit"
    /\ Update(p, WalletRow(Creator), Moved(p, Creator, Net(p), 0),
              IF Kind[p] = "PRODUCT" THEN "stock" ELSE "entry")

TakeStock(p) ==
    /\ pc[p] = "stock"
    /\ Update(p, StockRow, See(p, StockRow) - 1, "entry")

\* Wrong on purpose: the unique index's error is answered before the callback
\* ends, so its transaction is left open with its locks.
InsertEntryLeaking(p) ==
    LET row == EntryRow(Key[p])
    IN  /\ pc[p] = "entry"
        /\ DB!Unlocked(p, row)
        /\ IF See(p, row) # "ABSENT"
           THEN Go(p, "failed") /\ UNCHANGED <<store, draft, holder, seen>>
           ELSE Update(p, row, "COMPLETED", "lots")

\* walletTransaction.create: waits for a concurrent insert of the same key,
\* and fails on the unique index when that one committed.
InsertEntry(p) ==
    LET row == EntryRow(Key[p])
    IN  /\ pc[p] = "entry"
        /\ DB!Unlocked(p, row)
        /\ IF See(p, row) # "ABSENT" THEN Stop(p, "failed")
           ELSE Update(p, row, "COMPLETED", "lots")

\* Wrong on purpose: drawdownCredits without its own check of what is there.
ReadLotsUnchecked(p) ==
    /\ pc[p] = "lots"
    /\ seen' = [seen EXCEPT ![p] = See(p, LotRow(Fan[p]))]
    /\ Go(p, "draw")
    /\ UNCHANGED <<store, draft, holder>>

\* drawdownCredits: the lots are read, then written with the value computed.
ReadLots(p) ==
    LET lot == See(p, LotRow(Fan[p]))
    IN  /\ pc[p] = "lots"
        /\ IF lot < Amount[p] THEN Stop(p, "failed")
           ELSE /\ seen' = [seen EXCEPT ![p] = lot]
                /\ Go(p, "draw")
                /\ UNCHANGED <<store, draft, holder>>

DrawLots(p) ==
    /\ pc[p] = "draw"
    /\ Update(p, LotRow(Fan[p]), seen[p] - Amount[p], "typed")

UpdateTyped(p) ==
    /\ pc[p] = "typed"
    /\ Update(p, WalletRow(Fan[p]), Moved(p, Fan[p], 0, -Amount[p]),
              IF Kind[p] = "PPV" THEN "own" ELSE "commit")

\* Wrong on purpose: ContentPurchase without its unique index.
InsertAnyPurchase(p) ==
    /\ pc[p] = "own"
    /\ Update(p, OwnedRow(Fan[p]), TRUE, "commit")

\* contentPurchase.create behind its unique index.
InsertPurchase(p) ==
    /\ pc[p] = "own"
    /\ DB!Unlocked(p, OwnedRow(Fan[p]))
    /\ IF See(p, OwnedRow(Fan[p])) THEN Stop(p, "failed")
       ELSE Update(p, OwnedRow(Fan[p]), TRUE, "commit")

-----------------------------------------------------------------------------
(* A refund *)

ReadOriginal(p) ==
    /\ pc[p] = "original"
    /\ IF See(p, EntryRow(Key[p])) = "REVERSED" THEN Stop(p, "failed")
       ELSE Go(p, "deductions") /\ UNCHANGED <<store, draft, holder, seen>>

\* restoreLotDeductions, again a read and an absolute write.
ReadDeductions(p) ==
    /\ pc[p] = "deductions"
    /\ seen' = [seen EXCEPT ![p] = See(p, LotRow(Fan[p]))]
    /\ Go(p, "restore")
    /\ UNCHANGED <<store, draft, holder>>

RestoreLots(p) ==
    /\ pc[p] = "restore"
    /\ Update(p, LotRow(Fan[p]), seen[p] + Amount[p], "repay")

RepayFan(p) ==
    /\ pc[p] = "repay"
    /\ Update(p, WalletRow(Fan[p]), Moved(p, Fan[p], Amount[p], Amount[p]), "clawback")

DebitCreator(p) ==
    /\ pc[p] = "clawback"
    /\ Update(p, WalletRow(Creator), Moved(p, Creator, -Net(p), 0), "reverse")

ReverseOriginal(p) ==
    /\ pc[p] = "reverse"
    /\ Update(p, EntryRow(Key[p]), "REVERSED", "receipt")

\* The refund's own key carries the time, so it never collides.
InsertReceipt(p) ==
    /\ pc[p] = "receipt"
    /\ Update(p, ReceiptRow(p), TRUE, "commit")

-----------------------------------------------------------------------------
\* Wrong on purpose: the answer is sent while the transaction is still open.
FinishUncommitted(p) ==
    /\ pc[p] = "commit"
    /\ Go(p, "done")
    /\ UNCHANGED <<store, draft, holder, seen>>

Finish(p) ==
    /\ pc[p] = "commit"
    /\ DB!Commit(p)
    /\ pc' = [pc EXCEPT ![p] = "done"]
    /\ UNCHANGED seen

Running(p) == pc[p] \notin Ended

\* prisma's transaction timeout, a lost connection or a process that dies.
Timeout(p) ==
    /\ Running(p)
    /\ Stop(p, "failed")

\* The row the next statement of p needs, for the statements that take a lock.
Needs(p) ==
    CASE pc[p] \in {"debit", "typed", "repay"}  -> {WalletRow(Fan[p])}
      [] pc[p] \in {"credit", "clawback"}       -> {WalletRow(Creator)}
      [] pc[p] = "stock"                        -> {StockRow}
      [] pc[p] \in {"entry", "reverse"}         -> {EntryRow(Key[p])}
      [] pc[p] \in {"draw", "restore"}          -> {LotRow(Fan[p])}
      [] pc[p] = "own"                          -> {OwnedRow(Fan[p])}
      [] OTHER                                  -> {}

Deadlocked(p) ==
    \E S \in SUBSET Requests :
        /\ p \in S
        /\ \A q \in S : \E r \in Needs(q) : holder[r] \in S \ {q}

\* The database breaks a cycle of waiting transactions.
Victim(p) ==
    /\ Deadlocked(p)
    /\ Stop(p, "failed")

SaleStep(p) ==
    \/ Check(p) \/ CheckStock(p) \/ ReadFan(p) \/ Debit(p) \/ Credit(p) \/ TakeStock(p)
    \/ InsertEntry(p) \/ ReadLots(p) \/ DrawLots(p) \/ UpdateTyped(p) \/ InsertPurchase(p)

RefundStep(p) ==
    \/ ReadOriginal(p) \/ ReadDeductions(p) \/ RestoreLots(p) \/ RepayFan(p)
    \/ DebitCreator(p) \/ ReverseOriginal(p) \/ InsertReceipt(p)

Step(p) == SaleStep(p) \/ RefundStep(p) \/ Finish(p) \/ Victim(p)

Next == \E p \in Requests : Step(p) \/ Timeout(p)

Spec == Init /\ [][Next]_vars

\* The server runs every request and the database serves every lock.
FairSpec == Spec /\ \A p \in Requests : WF_vars(Step(p))

-----------------------------------------------------------------------------
(* Properties *)

Statements == {"check", "product", "fan", "debit", "credit", "stock", "entry", "lots", "draw",
               "typed", "own", "original", "deductions", "restore", "repay", "clawback",
               "reverse", "receipt", "commit"}

\* Every request is at one of its statements or has ended; only running
\* transactions have locks and uncommitted writes.
TypeOK ==
    /\ pc \in [Requests -> Statements \cup Ended]
    /\ seen \in [Requests -> Int]
    /\ holder \in [Rows -> Requests \cup {Nobody}]
    /\ \A p \in Requests :
          /\ DOMAIN draft[p] = {r \in Rows : holder[r] = p}
          /\ pc[p] \in Ended => DOMAIN draft[p] = {}

Done(kinds) == {p \in Requests : Kind[p] \in kinds /\ pc[p] = "done"}

\* The sum of f over S
Total(f, S) == MapThenSumSet(LAMBDA x : f[x], S)
Credits(ps) == Total(Amount, ps)
NetOf(ps) == Total([p \in Requests |-> Net(p)], ps)

\* Atomic, and no lost update: the committed balances are the opening ones
\* moved by exactly the requests that ended "done"; what failed, timed out or
\* was a replay left no trace.
BalancesAreDoneWork ==
    /\ \A u \in Fans :
          LET mine(ps) == {p \in ps : Fan[p] = u}
          IN  store[WalletRow(u)].balance = Opening[u] - Credits(mine(Done(SaleKinds)))
                                            + Credits(mine(Done({"REFUND"})))
    /\ store[WalletRow(Creator)].balance = NetOf(Done(SaleKinds)) - NetOf(Done({"REFUND"}))

\* The committed balance of a fan is what the lots hold, and the typed balance
\* too: the wallet's row lock, taken by the debit before the lots are read,
\* keeps other sales off the lots.
LotsBackBalances ==
    \A u \in Fans :
        /\ store[WalletRow(u)].balance = store[LotRow(u)]
        /\ store[WalletRow(u)].typed = store[LotRow(u)]

\* However the sales overlap, no fan spends credits twice: the committed balance
\* never goes below zero, although each sale checked one that was already stale.
NeverOverdrawn == \A u \in Fans : store[WalletRow(u)].balance >= 0

\* One idempotency key is charged at most once, and one content at most once
\* per fan, however the duplicate requests overlap.
ChargedOnce ==
    /\ \A k \in Keys : Cardinality({p \in Done(SaleKinds) : Key[p] = k}) <= 1
    /\ \A u \in Fans : Cardinality({p \in Done({"PPV"}) : Fan[p] = u}) <= 1

\* A transaction is refunded at most once.
RefundedOnce ==
    \A k \in Keys : Cardinality({p \in Done({"REFUND"}) : Key[p] = k}) <= 1

\* No more units are sold than there were.
StockNeverNegative == store[StockRow] >= 0

\* Every request ends, also when transactions wait on each other in a cycle.
EveryRequestEnds == \A p \in Requests : <>(pc[p] \in Ended)

-----------------------------------------------------------------------------
\* Sales by themselves are serializable: each takes effect at once at its
\* commit, on a balance that covers it, or not at all.
Serial == INSTANCE SerialSales WITH
    credits <- [u \in Fans |-> store[WalletRow(u)].balance],
    outcome <- [p \in Requests |-> IF pc[p] = "done" THEN "sold"
                                   ELSE IF pc[p] \in Ended THEN "refused" ELSE "open"]

SerialSpec == Serial!Spec
=============================================================================
