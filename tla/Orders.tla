------------------------------- MODULE Orders -------------------------------
(***************************************************************************)
(* OrderService: the orders of one buyer, for one piece of content ("PPV") *)
(* and for one other product ("SEAT"), paid from the wallet.  Orders, the  *)
(* index of idempotency keys and the entitlement grants live in the memory *)
(* of the process; the ledger is in the database and survives a restart.   *)
(* A handler runs without interruption from one await of the database to   *)
(* the next.                                                               *)
(***************************************************************************)
EXTENDS Naturals

CONSTANTS
    MaxOrders,     \* bound: calls of createAndProcessOrder
    MaxRefunds,    \* bound: calls of refundOrder
    MaxCrashes,    \* bound: restarts of the process
    Keys,          \* idempotency keys of the clients
    None           \* no key, no order, no transaction

Ids == 1 .. MaxOrders
Refunds == 1 .. MaxRefunds
Kinds == {"PPV", "SEAT"}

ASSUME NoneAssumption == None \notin Keys \cup Ids

VARIABLES
    calls,       \* where the call stands that makes each order, and its input
    orders,      \* ordersStore, by order id
    index,       \* idempotencyKeyIndex
    grants,      \* the active entitlement of each kind, by the order it names
    ledger,      \* wallet transactions of the buyer's purchases
    refunds,     \* where each call of refundOrder stands
    refused,     \* orders whose refund the ledger refused or failed
    crashes

memory == <<calls, orders, index, grants, refunds>>
vars == <<memory, ledger, refused, crashes>>

NoCall == [pc |-> "new", key |-> None, kind |-> "SEAT", paid |-> None]
Done == [NoCall EXCEPT !.pc = "done"]
NoOrder == [status |-> "NONE", tx |-> None, refund |-> "NONE"]
NoRefund == [pc |-> "idle", order |-> None, partial |-> FALSE]

Init ==
    /\ calls = [o \in Ids |-> NoCall]
    /\ orders = [o \in Ids |-> NoOrder]
    /\ index = [k \in Keys |-> None]
    /\ grants = [kind \in Kinds |-> None]
    /\ ledger = {}
    /\ refunds = [r \in Refunds |-> NoRefund]
    /\ refused = {} /\ crashes = 0

-----------------------------------------------------------------------------
(* createAndProcessOrder *)

\* A call whose key the index knows is answered with that order, whatever became
\* of it, and changes nothing.
Begin(o, key, kind) ==
    /\ calls[o].pc = "new"
    /\ \A p \in 1 .. o - 1 : calls[p].pc # "new"
    /\ key \in Keys => index[key] = None
    /\ calls' = [calls EXCEPT ![o] = [pc |-> "checking", key |-> key, kind |-> kind, paid |-> None]]
    /\ UNCHANGED <<orders, index, grants, ledger, refunds, refused, crashes>>

\* Buyer and catalog are good; the index is not asked again.
Store(o) ==
    /\ calls[o].pc = "checking"
    /\ calls' = [calls EXCEPT ![o].pc = "paying"]
    /\ orders' = [orders EXCEPT ![o].status = "PROCESSING"]
    /\ index' = [k \in Keys |-> IF k = calls[o].key THEN o ELSE index[k]]
    /\ UNCHANGED <<grants, ledger, refunds, refused, crashes>>

\* Wrong on purpose: the ledger's key is always the order's own.
OrdersOwnKey(o) == o

LedgerKey(o) == IF calls[o].key = None THEN o ELSE calls[o].key

\* What the ledger takes for the purchase asked for: the content that was bought
\* once, of anything else the transaction under the same key.
Bought(o) ==
    {t \in ledger : IF calls[o].kind = "PPV" THEN t.kind = "PPV" ELSE t.key = LedgerKey(o)}

Purchase(o) ==
    [key |-> LedgerKey(o), kind |-> calls[o].kind, by |-> o, for |-> calls[o].key,
     reversed |-> FALSE]

\* The ledger's transaction commits, and answers unless the connection breaks.
\* Keys are unique there.
Pay(o) ==
    /\ calls[o].pc = "paying"
    /\ \E t \in IF Bought(o) = {} THEN {Purchase(o)} ELSE Bought(o), answered \in BOOLEAN :
          /\ \A s \in ledger : s.key = t.key => s = t
          /\ ledger' = ledger \cup {t}
          /\ calls' = [calls EXCEPT ![o].pc = IF answered THEN "paid" ELSE "unpaid",
                                    ![o].paid = IF answered THEN t.key ELSE None]
    /\ UNCHANGED <<orders, index, grants, refunds, refused, crashes>>

\* Too few credits, an unknown product, a key that another transaction takes
\* meanwhile.
Refuse(o) ==
    /\ calls[o].pc = "paying"
    /\ calls' = [calls EXCEPT ![o].pc = "unpaid"]
    /\ UNCHANGED <<orders, index, grants, ledger, refunds, refused, crashes>>

\* Wrong on purpose: an order that was refunded meanwhile stays so, but its
\* entitlement is granted.
SettleRefunded(o) ==
    /\ calls[o].pc \in {"paid", "unpaid"}
    /\ calls' = [calls EXCEPT ![o] = Done]
    /\ IF calls[o].pc = "paid"
       THEN /\ orders' = [orders EXCEPT ![o].tx = calls[o].paid,
                    ![o].status = IF @ = "REFUNDED" THEN @ ELSE "COMPLETED"]
            /\ grants' = [grants EXCEPT ![calls[o].kind] = o]
       ELSE orders' = [orders EXCEPT ![o].status = "FAILED"] /\ UNCHANGED grants
    /\ UNCHANGED <<index, ledger, refunds, refused, crashes>>

\* Wrong on purpose: a payment that failed is only logged.
SettleAnyhow(o) ==
    /\ calls[o].pc \in {"paid", "unpaid"}
    /\ calls' = [calls EXCEPT ![o] = Done]
    /\ orders' = [orders EXCEPT ![o].tx = calls[o].paid, ![o].status = "COMPLETED"]
    /\ grants' = [grants EXCEPT ![calls[o].kind] = o]
    /\ UNCHANGED <<index, ledger, refunds, refused, crashes>>

\* The grant takes the place of an older one for the same thing.  A refund that
\* came meanwhile is overwritten, except for its mark.
Settle(o) ==
    /\ calls[o].pc \in {"paid", "unpaid"}
    /\ calls' = [calls EXCEPT ![o] = Done]
    /\ IF calls[o].pc = "paid"
       THEN /\ orders' = [orders EXCEPT ![o].tx = calls[o].paid, ![o].status = "COMPLETED"]
            /\ grants' = [grants EXCEPT ![calls[o].kind] = o]
       ELSE orders' = [orders EXCEPT ![o].status = "FAILED"] /\ UNCHANGED grants
    /\ UNCHANGED <<index, ledger, refunds, refused, crashes>>

-----------------------------------------------------------------------------
(* refundOrder *)

\* The order is marked and every grant that names it revoked.
Undo(o, partial) ==
    /\ orders' = [orders EXCEPT ![o].status = "REFUNDED",
                                ![o].refund = IF partial THEN "PARTIAL" ELSE "FULL"]
    /\ grants' = [kind \in Kinds |-> IF grants[kind] = o THEN None ELSE grants[kind]]

\* Without a transaction there is nothing to wait for.
AskRefund(r, o, partial) ==
    /\ refunds[r].pc = "idle"
    /\ \A q \in 1 .. r - 1 : refunds[q].pc # "idle"
    /\ orders[o].status \notin {"NONE", "REFUNDED"} /\ orders[o].refund # "FULL"
    /\ IF orders[o].tx = None
       THEN /\ Undo(o, partial)
            /\ refunds' = [refunds EXCEPT ![r].pc = "done"]
       ELSE /\ refunds' = [refunds EXCEPT ![r] =
                  [pc |-> "repaying", order |-> o, partial |-> partial]]
            /\ UNCHANGED <<orders, grants>>
    /\ UNCHANGED <<calls, index, ledger, refused, crashes>>

Reversed(tx) ==
    {IF t.key = tx THEN [t EXCEPT !.reversed = TRUE] ELSE t : t \in ledger}

\* processRefund reverses the whole transaction, or throws: that is only logged.
Repay(r) ==
    LET o == refunds[r].order
    IN  /\ refunds[r].pc = "repaying"
        /\ refunds' = [refunds EXCEPT ![r].pc = "repaid"]
        /\ \/ /\ \E t \in ledger : t.key = orders[o].tx /\ ~t.reversed
              /\ ledger' = Reversed(orders[o].tx) /\ UNCHANGED refused
           \/ refused' = refused \cup {o} /\ UNCHANGED ledger
        /\ UNCHANGED <<calls, orders, index, grants, crashes>>

FinishRefund(r) ==
    /\ refunds[r].pc = "repaid"
    /\ refunds' = [refunds EXCEPT ![r] = [NoRefund EXCEPT !.pc = "done"]]
    /\ Undo(refunds[r].order, refunds[r].partial)
    /\ UNCHANGED <<calls, index, ledger, refused, crashes>>

-----------------------------------------------------------------------------
\* The process starts afresh; calls that were under way never go on.
Restart ==
    /\ crashes < MaxCrashes /\ crashes' = crashes + 1
    /\ calls' = [o \in Ids |-> IF calls[o].pc = "new" THEN NoCall ELSE Done]
    /\ orders' = [o \in Ids |-> NoOrder]
    /\ index' = [k \in Keys |-> None]
    /\ grants' = [kind \in Kinds |-> None]
    /\ refunds' = [r \in Refunds |->
          IF refunds[r].pc = "idle" THEN NoRefund ELSE [NoRefund EXCEPT !.pc = "done"]]
    /\ UNCHANGED <<ledger, refused>>

Next ==
    \/ \E o \in Ids :
          \/ \E key \in Keys \cup {None}, kind \in Kinds : Begin(o, key, kind)
          \/ Store(o) \/ Pay(o) \/ Refuse(o) \/ Settle(o)
    \/ \E r \in Refunds :
          \/ \E o \in Ids, partial \in BOOLEAN : AskRefund(r, o, partial)
          \/ Repay(r) \/ FinishRefund(r)
    \/ Restart

Spec == Init /\ [][Next]_vars

-----------------------------------------------------------------------------
(* Properties *)

Unpaid(tx) == \A t \in ledger : t.key = tx => t.reversed

\* One key is charged once, though calls with it overlap, its order failed, or the
\* process that knew the key is gone.
KeyChargedOnce ==
    \A s, t \in ledger : s.for = t.for /\ s.for # None => s = t

\* Who has access has paid for it: the order behind a grant has a transaction, and
\* the one it made itself is not reversed, unless the refund is just being
\* finished, or another order was given the same transaction and refunded.
AccessIsPaid ==
    \A kind \in Kinds :
        LET o == grants[kind]
        IN  o # None =>
                /\ \E t \in ledger : t.key = orders[o].tx
                /\ \/ ~ \E t \in ledger : t.key = orders[o].tx /\ t.by = o /\ t.reversed
                   \/ \E r \in Refunds : refunds[r].pc = "repaid" /\ refunds[r].order = o
                   \/ \E p \in Ids \ {o} : orders[p].tx = orders[o].tx

\* A refunded order is undone: it gives no access, and what it had paid is back
\* unless the ledger would not, however the refund meets the order's payment, a
\* second refund, or an order that replaced its grant.
RefundedIsUndone ==
    \A o \in Ids : orders[o].status = "REFUNDED" =>
        /\ \A kind \in Kinds : grants[kind] # o
        /\ orders[o].tx # None => Unpaid(orders[o].tx) \/ o \in refused
=============================================================================
