---------------------------- MODULE OrdersProofs ----------------------------
(***************************************************************************)
(* For any number of orders, refunds, restarts and keys: a key is charged  *)
(* once, access is paid for, and a refunded order is undone.               *)
(*                                                                         *)
(* The argument.  The ledger never holds two transactions under one key,   *)
(* and one made for a client's key is kept under it.  An order gets its    *)
(* transaction in the step that ends its call, so a transaction that is    *)
(* reversed before that was reversed through another order, and the two    *)
(* share it.  A refund reads an order's transaction after that step, when  *)
(* only a restart can still change it.                                     *)
(***************************************************************************)
EXTENDS Orders, TLAPS

Call == [pc : {"new", "checking", "paying", "paid", "unpaid", "done"},
         key : Keys \cup {None}, kind : Kinds, paid : Keys \cup Ids \cup {None}]

Order == [status : {"NONE", "PROCESSING", "COMPLETED", "FAILED", "REFUNDED"},
          tx : Keys \cup Ids \cup {None}, refund : {"NONE", "PARTIAL", "FULL"}]

RefundCall == [pc : {"idle", "repaying", "repaid", "done"}, order : Ids \cup {None},
               partial : BOOLEAN]

Transaction == [key : Keys \cup Ids, kind : Kinds, by : Ids, for : Keys \cup {None},
                reversed : BOOLEAN]

TypeOK ==
    /\ calls \in [Ids -> Call]
    /\ orders \in [Ids -> Order]
    /\ grants \in [Kinds -> Ids \cup {None}]
    /\ ledger \in SUBSET Transaction
    /\ refunds \in [Refunds -> RefundCall]
    /\ refused \in SUBSET Ids

InLedger(tx) == \E t \in ledger : t.key = tx

\* One transaction a key, and a client's key is the transaction's own.
KeysAreUnique ==
    /\ \A s, t \in ledger : s.key = t.key => s = t
    /\ \A t \in ledger : t.for # None => t.key = t.for

\* An order has a transaction once its call has ended, and a call that was
\* answered knows one; both are in the ledger.
TxInLedger ==
    \A o \in Ids :
        /\ orders[o].tx # None => calls[o].pc = "done" /\ InLedger(orders[o].tx)
        /\ calls[o].pc = "paid" => InLedger(calls[o].paid)

\* A grant names an order that has a transaction and was not refunded.
GrantsAreSettled ==
    \A kind \in Kinds : grants[kind] # None =>
        orders[grants[kind]].tx # None /\ orders[grants[kind]].status # "REFUNDED"

\* The call that made a transaction is past its payment; what is reversed before
\* that call's own order has it was reversed through another.
ReversedEarly ==
    \A t \in ledger :
        /\ calls[t.by].pc \in {"paid", "unpaid", "done"}
        /\ t.reversed /\ calls[t.by].pc # "done" =>
              \E p \in Ids \ {t.by} : orders[p].tx = t.key

\* A refund that waits is about an order with a transaction, and has made it
\* unpaid when it goes on, unless the ledger would not.
RefundsKnowTheirTx ==
    \A r \in Refunds :
        LET o == refunds[r].order
        IN  /\ refunds[r].pc \in {"repaying", "repaid"} => o \in Ids /\ orders[o].tx # None
            /\ refunds[r].pc = "repaid" => Unpaid(orders[o].tx) \/ o \in refused

IInv ==
    /\ TypeOK /\ KeysAreUnique /\ TxInLedger /\ GrantsAreSettled
    /\ ReversedEarly /\ RefundsKnowTheirTx
    /\ AccessIsPaid /\ RefundedIsUndone

-----------------------------------------------------------------------------
LEMMA InitInv == Init => IInv
<1> SUFFICES ASSUME Init PROVE IInv
  OBVIOUS
<1>1. TypeOK
  BY DEF Init, TypeOK, NoCall, NoOrder, NoRefund, Call, Order, RefundCall, Kinds
<1>2. \A o \in Ids : orders[o] = NoOrder /\ calls[o] = NoCall
  BY DEF Init
<1>3. \A r \in Refunds : refunds[r] = NoRefund
  BY DEF Init
<1> QED
  BY <1>1, <1>2, <1>3 DEF Init, IInv, KeysAreUnique, TxInLedger, GrantsAreSettled, ReversedEarly,
     RefundsKnowTheirTx, AccessIsPaid, RefundedIsUndone, NoOrder, NoCall, NoRefund

\* A step that moves calls which had not been paid, and neither the orders'
\* transactions, the grants, the ledger nor the refunds, keeps what is said of them.
LEMMA EarlyStep ==
    ASSUME IInv, TypeOK', UNCHANGED <<grants, ledger, refunds, refused>>,
           \A o \in Ids : orders'[o].tx = orders[o].tx,
           \A o \in Ids : orders'[o].status \in {orders[o].status, "PROCESSING"},
           \A o \in Ids : /\ calls[o].pc \in {"paid", "unpaid", "done"} => calls'[o] = calls[o]
                          /\ calls'[o].pc \in {"paid", "done"} => calls'[o] = calls[o]
    PROVE  IInv'
<1> USE DEF IInv
<1>1. KeysAreUnique'
  BY DEF KeysAreUnique
<1>2. TxInLedger'
  BY DEF TxInLedger, InLedger
<1>3. GrantsAreSettled'
  BY DEF GrantsAreSettled, TypeOK
<1>4. ReversedEarly'
  BY DEF ReversedEarly, TypeOK, Transaction
<1>5. RefundsKnowTheirTx'
  BY DEF RefundsKnowTheirTx, Unpaid
<1>6. AccessIsPaid'
  BY DEF AccessIsPaid, TypeOK
<1>7. RefundedIsUndone'
  BY DEF RefundedIsUndone, Unpaid
<1> QED
  BY <1>1, <1>2, <1>3, <1>4, <1>5, <1>6, <1>7

LEMMA BeginStep ==
    ASSUME IInv, NEW o \in Ids, NEW key \in Keys \cup {None}, NEW kind \in Kinds,
           Begin(o, key, kind)
    PROVE  IInv'
<1>1. TypeOK'
  BY DEF IInv, TypeOK, Begin, Call
<1> QED
  BY <1>1, EarlyStep DEF Begin, IInv, TypeOK

LEMMA StoreStep == ASSUME IInv, NEW o \in Ids, Store(o) PROVE IInv'
<1>1. TypeOK'
  BY DEF IInv, TypeOK, Store, Call, Order
<1>2. \A p \in Ids : orders'[p].tx = orders[p].tx
  BY DEF IInv, TypeOK, Store, Order
<1>3. \A p \in Ids : orders'[p].status \in {orders[p].status, "PROCESSING"}
  BY DEF IInv, TypeOK, Store, Order
<1>4. \A p \in Ids : /\ calls[p].pc \in {"paid", "unpaid", "done"} => calls'[p] = calls[p]
                     /\ calls'[p].pc \in {"paid", "done"} => calls'[p] = calls[p]
  BY DEF IInv, TypeOK, Store, Call
<1> QED
  BY <1>1, <1>2, <1>3, <1>4, EarlyStep DEF Store

LEMMA RefuseStep == ASSUME IInv, NEW o \in Ids, Refuse(o) PROVE IInv'
<1>1. TypeOK'
  BY DEF IInv, TypeOK, Refuse, Call
<1>2. \A p \in Ids : /\ calls[p].pc \in {"paid", "unpaid", "done"} => calls'[p] = calls[p]
                     /\ calls'[p].pc \in {"paid", "done"} => calls'[p] = calls[p]
  BY DEF IInv, TypeOK, Refuse, Call
<1> QED
  BY <1>1, <1>2, EarlyStep DEF Refuse, IInv, TypeOK

\* A commit of the ledger adds at most one transaction, under a new key, that is
\* not reversed and is by the order that paid.
LEMMA PayFacts ==
    ASSUME IInv, NEW o \in Ids, Pay(o)
    PROVE  /\ TypeOK'
           /\ \A t \in ledger : t \in ledger'
           /\ \A t \in ledger' : t \in ledger \/ (~t.reversed /\ ~InLedger(t.key) /\ t.by = o)
           /\ KeysAreUnique'
           /\ calls'[o].pc = "paid" => \E t \in ledger' : t.key = calls'[o].paid
           /\ calls[o].pc = "paying" /\ calls'[o].pc \in {"paid", "unpaid"}
           /\ \A p \in Ids \ {o} : calls'[p] = calls[p]
<1> USE DEF IInv
<1>1. PICK t \in IF Bought(o) = {} THEN {Purchase(o)} ELSE Bought(o), answered \in BOOLEAN :
        /\ \A s \in ledger : s.key = t.key => s = t
        /\ ledger' = ledger \cup {t}
        /\ calls' = [calls EXCEPT ![o].pc = IF answered THEN "paid" ELSE "unpaid",
                                  ![o].paid = IF answered THEN t.key ELSE None]
  BY DEF Pay
<1>2. t \in ledger \/ t = Purchase(o)
  BY <1>1 DEF Bought
<1>3. calls[o] \in Call /\ calls[o].pc = "paying"
  BY DEF TypeOK, Pay
<1>4. Purchase(o) \in Transaction
  BY <1>3 DEF Purchase, LedgerKey, Call, Transaction
<1>5. t \in Transaction
  BY <1>2, <1>4 DEF TypeOK
<1>6. calls' \in [Ids -> Call]
  BY <1>1, <1>3, <1>5 DEF TypeOK, Call, Transaction
<1>7. TypeOK'
  BY <1>1, <1>5, <1>6 DEF Pay, TypeOK
<1>8. Purchase(o).for # None => Purchase(o).key = Purchase(o).for
  BY DEF Purchase, LedgerKey
<1>9. KeysAreUnique'
  BY <1>1, <1>2, <1>8 DEF KeysAreUnique
<1>10. t \in ledger \/ (~t.reversed /\ ~InLedger(t.key) /\ t.by = o)
  BY <1>1, <1>2 DEF Purchase, InLedger
<1>11. calls'[o].pc = IF answered THEN "paid" ELSE "unpaid"
  BY <1>1 DEF TypeOK, Call
<1>12. answered => calls'[o].paid = t.key
  BY <1>1 DEF TypeOK, Call
<1>13. \A p \in Ids \ {o} : calls'[p] = calls[p]
  BY <1>1 DEF TypeOK
<1>14. calls'[o].pc = "paid" => \E s \in ledger' : s.key = calls'[o].paid
  BY <1>1, <1>11, <1>12
<1>15. \A s \in ledger' : s \in ledger \/ (~s.reversed /\ ~InLedger(s.key) /\ s.by = o)
  BY <1>1, <1>10
<1>16. calls[o].pc = "paying" /\ calls'[o].pc \in {"paid", "unpaid"}
  BY <1>3, <1>11
<1>17. \A s \in ledger : s \in ledger'
  BY <1>1
<1> QED
  BY <1>7, <1>9, <1>13, <1>14, <1>15, <1>16, <1>17

LEMMA PayStep == ASSUME IInv, NEW o \in Ids, Pay(o) PROVE IInv'
<1> USE DEF IInv
<1>1. UNCHANGED <<orders, grants, refunds, refused>>
  BY DEF Pay
<1>2. \A tx : InLedger(tx) => /\ \E t \in ledger' : t.key = tx
                              /\ Unpaid(tx) => (\A t \in ledger' : t.key = tx => t.reversed)
  BY PayFacts DEF InLedger, Unpaid
<1>3. TxInLedger'
  BY <1>1, <1>2, PayFacts DEF TxInLedger, InLedger
<1>4. GrantsAreSettled'
  BY <1>1 DEF GrantsAreSettled
<1>5. ReversedEarly'
  <2> SUFFICES ASSUME NEW t \in ledger'
               PROVE  /\ calls'[t.by].pc \in {"paid", "unpaid", "done"}
                      /\ t.reversed /\ calls'[t.by].pc # "done" =>
                            \E p \in Ids \ {t.by} : orders[p].tx = t.key
    BY <1>1 DEF ReversedEarly
  <2>1. CASE t \in ledger
    <3>1. t.by \in Ids \ {o} /\ calls'[t.by] = calls[t.by]
      BY <2>1, PayFacts DEF TypeOK, Transaction, ReversedEarly
    <3> QED
      BY <2>1, <3>1 DEF ReversedEarly
  <2>2. CASE t \notin ledger
    BY <2>2, PayFacts
  <2> QED
    BY <2>1, <2>2
<1>6. RefundsKnowTheirTx'
  BY <1>1, <1>2 DEF RefundsKnowTheirTx, TxInLedger, Unpaid
<1>7. AccessIsPaid'
  <2> SUFFICES ASSUME NEW kind \in Kinds, grants[kind] # None
               PROVE  LET p == grants[kind]
                      IN  /\ \E t \in ledger' : t.key = orders[p].tx
                          /\ \/ ~ \E t \in ledger' : t.key = orders[p].tx /\ t.by = p /\ t.reversed
                             \/ \E r \in Refunds : refunds[r].pc = "repaid" /\ refunds[r].order = p
                             \/ \E q \in Ids \ {p} : orders[q].tx = orders[p].tx
    BY <1>1 DEF AccessIsPaid, InLedger
  <2> QED
    BY <1>2, PayFacts DEF AccessIsPaid, InLedger
<1>8. RefundedIsUndone'
  BY <1>1, <1>2 DEF RefundedIsUndone, TxInLedger, Unpaid
<1> QED
  BY <1>3, <1>4, <1>5, <1>6, <1>7, <1>8, PayFacts

\* A call that is paid settles an order that had no transaction.
LEMMA SettleFacts ==
    ASSUME IInv, NEW o \in Ids, Settle(o)
    PROVE  /\ TypeOK'
           /\ UNCHANGED <<ledger, refunds, refused>>
           /\ calls'[o].pc = "done" /\ orders[o].tx = None
           /\ \A p \in Ids \ {o} : calls'[p] = calls[p] /\ orders'[p] = orders[p]
           /\ orders'[o].status \in {"COMPLETED", "FAILED"}
           /\ orders'[o].tx # None => InLedger(orders'[o].tx)
           /\ \A kind \in Kinds : \/ grants'[kind] = grants[kind]
                                  \/ grants'[kind] = o /\ orders'[o].tx # None
           /\ \A kind \in Kinds : grants[kind] # o
<1> USE DEF IInv
<1>1. calls[o] \in Call /\ orders[o] \in Order /\ calls[o].pc \in {"paid", "unpaid"}
  BY DEF TypeOK, Settle
<1>2. orders[o].tx = None
  BY <1>1 DEF TxInLedger
<1>3. calls' = [calls EXCEPT ![o] = Done] /\ Done \in Call /\ Done.pc = "done"
  BY DEF Settle, Done, NoCall, Call, Kinds
<1>4. UNCHANGED <<ledger, refunds, refused>>
  BY DEF Settle
<1>5. \A kind \in Kinds : grants[kind] # o
  BY <1>2, NoneAssumption DEF GrantsAreSettled
<1>6. CASE calls[o].pc = "paid"
  <2>1. calls[o].paid \in Keys \cup Ids /\ InLedger(calls[o].paid)
    BY <1>6 DEF TxInLedger, InLedger, TypeOK, Transaction
  <2>2. /\ orders' = [orders EXCEPT ![o].tx = calls[o].paid, ![o].status = "COMPLETED"]
        /\ grants' = [grants EXCEPT ![calls[o].kind] = o]
    BY <1>6 DEF Settle
  <2>3. orders' \in [Ids -> Order]
    BY <1>1, <2>1, <2>2 DEF TypeOK, Order
  <2>4. TypeOK'
    BY <1>1, <1>3, <1>4, <2>2, <2>3 DEF TypeOK, Call
  <2>5. orders'[o].tx = calls[o].paid /\ orders'[o].status = "COMPLETED"
    BY <1>1, <2>2 DEF TypeOK, Order
  <2>6. \A p \in Ids \ {o} : calls'[p] = calls[p] /\ orders'[p] = orders[p]
    BY <1>3, <2>2 DEF TypeOK
  <2>7. \A kind \in Kinds : grants'[kind] \in {grants[kind], o}
    BY <2>2 DEF TypeOK
  <2>8. orders'[o].tx # None
    BY <2>1, <2>5, NoneAssumption
  <2>9. calls'[o].pc = "done"
    BY <1>3 DEF TypeOK
  <2> QED
    BY <1>2, <1>4, <1>5, <2>1, <2>4, <2>5, <2>6, <2>7, <2>8, <2>9
<1>7. CASE calls[o].pc = "unpaid"
  <2>1. orders' = [orders EXCEPT ![o].status = "FAILED"] /\ grants' = grants
    BY <1>7 DEF Settle
  <2>2. TypeOK'
    BY <1>3, <1>4, <2>1 DEF TypeOK, Order
  <2>3. orders'[o].status = "FAILED" /\ orders'[o].tx = None
    BY <1>1, <1>2, <2>1 DEF TypeOK, Order
  <2>4. \A p \in Ids \ {o} : calls'[p] = calls[p] /\ orders'[p] = orders[p]
    BY <1>3, <2>1 DEF TypeOK
  <2>5. calls'[o].pc = "done"
    BY <1>3 DEF TypeOK
  <2> QED
    BY <1>2, <1>4, <1>5, <2>1, <2>2, <2>3, <2>4, <2>5
<1> QED
  BY <1>1, <1>6, <1>7

LEMMA SettleStep == ASSUME IInv, NEW o \in Ids, Settle(o) PROVE IInv'
<1> USE DEF IInv
<1>1. \A p \in Ids : orders[p].tx # None => orders'[p] = orders[p]
  BY SettleFacts
<1>2. KeysAreUnique'
  BY SettleFacts DEF KeysAreUnique
<1>3. TxInLedger'
  BY SettleFacts DEF TxInLedger, InLedger
<1>4. GrantsAreSettled'
  BY SettleFacts DEF GrantsAreSettled, TypeOK
<1>5. ReversedEarly'
  <2> SUFFICES ASSUME NEW t \in ledger
               PROVE  /\ calls'[t.by].pc \in {"paid", "unpaid", "done"}
                      /\ t.reversed /\ calls'[t.by].pc # "done" =>
                            \E p \in Ids \ {t.by} : orders'[p].tx = t.key
    BY SettleFacts DEF ReversedEarly
  <2>3. calls'[t.by].pc \in {"paid", "unpaid", "done"}
    BY SettleFacts DEF ReversedEarly, TypeOK, Transaction
  <2> SUFFICES ASSUME t.reversed, calls'[t.by].pc # "done"
               PROVE  \E p \in Ids \ {t.by} : orders'[p].tx = t.key
    BY <2>3
  <2>1. t.by \in Ids /\ calls[t.by].pc # "done" /\ t.key # None
    BY SettleFacts, NoneAssumption DEF TypeOK, Transaction
  <2>2. PICK p \in Ids \ {t.by} : orders[p].tx = t.key
    BY <2>1 DEF ReversedEarly
  <2> QED
    BY <1>1, <2>1, <2>2
<1>6. RefundsKnowTheirTx'
  BY <1>1, SettleFacts DEF RefundsKnowTheirTx, Unpaid
<1>7. AccessIsPaid'
  <2> SUFFICES ASSUME NEW kind \in Kinds, NEW p \in Ids, grants'[kind] = p
               PROVE  /\ InLedger(orders'[p].tx)
                      /\ \/ ~ \E t \in ledger : t.key = orders'[p].tx /\ t.by = p /\ t.reversed
                         \/ \E r \in Refunds : refunds[r].pc = "repaid" /\ refunds[r].order = p
                         \/ \E q \in Ids \ {p} : orders'[q].tx = orders'[p].tx
    BY SettleFacts DEF AccessIsPaid, InLedger, TypeOK
  <2>1. CASE p = o
    <3>1. orders'[o].tx # None /\ InLedger(orders'[o].tx)
      BY <2>1, SettleFacts
    <3>2. ASSUME NEW t \in ledger, t.key = orders'[o].tx, t.by = o, t.reversed
          PROVE  \E q \in Ids \ {o} : orders'[q].tx = orders'[o].tx
      <4>1. calls[o].pc # "done"
        BY DEF Settle
      <4> QED
        BY <3>1, <3>2, <4>1, <1>1 DEF ReversedEarly
    <3> QED
      BY <2>1, <3>1, <3>2
  <2>2. CASE p # o
    <3>1. grants[kind] = p /\ orders'[p] = orders[p] /\ orders[p].tx # None
      BY <2>2, SettleFacts, NoneAssumption DEF GrantsAreSettled
    <3> QED
      BY <1>1, <3>1, NoneAssumption DEF AccessIsPaid, InLedger
  <2> QED
    BY <2>1, <2>2
<1>8. RefundedIsUndone'
  <2> SUFFICES ASSUME NEW p \in Ids, orders'[p].status = "REFUNDED"
               PROVE  /\ \A kind \in Kinds : grants'[kind] # p
                      /\ orders'[p].tx # None => Unpaid(orders'[p].tx) \/ p \in refused
    BY SettleFacts DEF RefundedIsUndone, Unpaid
  <2>1. p # o /\ orders'[p] = orders[p]
    BY SettleFacts
  <2> QED
    BY <2>1, SettleFacts DEF RefundedIsUndone
<1> QED
  BY <1>2, <1>3, <1>4, <1>5, <1>6, <1>7, <1>8, SettleFacts

\* An order is marked refunded when it has no transaction, or what it had is unpaid
\* or would not be reversed; nothing else about it or others changes.
LEMMA UndoStep ==
    ASSUME IInv, NEW o \in Ids, NEW partial \in BOOLEAN, Undo(o, partial),
           UNCHANGED <<calls, ledger, refused>>, TypeOK',
           orders[o].tx # None => Unpaid(orders[o].tx) \/ o \in refused,
           \A r \in Refunds : \/ refunds'[r] = refunds[r]
                              \/ refunds'[r].pc = "done" /\ (refunds[r].pc = "repaid" => refunds[r].order = o)
    PROVE  IInv'
<1> USE DEF IInv
<1>1. \A p \in Ids : /\ orders'[p].tx = orders[p].tx
                     /\ orders'[p].status = IF p = o THEN "REFUNDED" ELSE orders[p].status
  BY DEF Undo, TypeOK, Order
<1>2. \A kind \in Kinds : /\ grants'[kind] \in {grants[kind], None}
                          /\ grants'[kind] # o
  BY NoneAssumption DEF Undo
<1>3. KeysAreUnique'
  BY DEF KeysAreUnique
<1>4. TxInLedger'
  BY <1>1 DEF TxInLedger, InLedger
<1>5. GrantsAreSettled'
  BY <1>1, <1>2 DEF GrantsAreSettled, TypeOK
<1>6. ReversedEarly'
  BY <1>1 DEF ReversedEarly
<1>7. RefundsKnowTheirTx'
  BY <1>1 DEF RefundsKnowTheirTx, Unpaid
<1>8. AccessIsPaid'
  <2> SUFFICES ASSUME NEW kind \in Kinds, NEW p \in Ids, grants'[kind] = p
               PROVE  /\ InLedger(orders'[p].tx)
                      /\ \/ ~ \E t \in ledger : t.key = orders'[p].tx /\ t.by = p /\ t.reversed
                         \/ \E r \in Refunds : refunds'[r].pc = "repaid" /\ refunds'[r].order = p
                         \/ \E q \in Ids \ {p} : orders'[q].tx = orders'[p].tx
    BY DEF AccessIsPaid, InLedger, TypeOK
  <2>1. grants[kind] = p /\ p # o
    BY <1>2, NoneAssumption
  <2> QED
    BY <1>1, <2>1, NoneAssumption DEF AccessIsPaid, InLedger
<1>9. RefundedIsUndone'
  BY <1>1, <1>2, NoneAssumption DEF RefundedIsUndone, Unpaid
<1> QED
  BY <1>3, <1>4, <1>5, <1>6, <1>7, <1>8, <1>9

LEMMA AskRefundStep ==
    ASSUME IInv, NEW r \in Refunds, NEW o \in Ids, NEW partial \in BOOLEAN,
           AskRefund(r, o, partial)
    PROVE  IInv'
<1> USE DEF IInv
<1>1. CASE orders[o].tx = None
  <2>1. Undo(o, partial) /\ refunds' = [refunds EXCEPT ![r].pc = "done"]
        /\ refunds[r].pc = "idle"
    BY <1>1 DEF AskRefund
  <2>2. TypeOK'
    <3>1. orders' \in [Ids -> Order]
      <4>1. PICK mark \in {"PARTIAL", "FULL"} :
              orders' = [orders EXCEPT ![o].status = "REFUNDED", ![o].refund = mark]
        BY <2>1, (IF partial THEN "PARTIAL" ELSE "FULL") \in {"PARTIAL", "FULL"} DEF Undo
      <4> QED
        BY <4>1 DEF TypeOK, Order
    <3>2. refunds' \in [Refunds -> RefundCall]
      BY <2>1 DEF TypeOK, RefundCall
    <3>3. grants' \in [Kinds -> Ids \cup {None}]
      BY <2>1 DEF Undo, TypeOK
    <3> QED
      BY <3>1, <3>2, <3>3 DEF AskRefund, TypeOK
  <2>3. \A q \in Refunds : \/ refunds'[q] = refunds[q]
                           \/ refunds'[q].pc = "done"
                              /\ (refunds[q].pc = "repaid" => refunds[q].order = o)
    BY <2>1 DEF TypeOK, RefundCall
  <2> QED
    BY <1>1, <2>1, <2>2, <2>3, UndoStep DEF AskRefund
<1>2. CASE orders[o].tx # None
  <2>1. /\ refunds' = [refunds EXCEPT ![r] =
              [pc |-> "repaying", order |-> o, partial |-> partial]]
        /\ refunds[r].pc = "idle"
        /\ UNCHANGED <<calls, orders, grants, ledger, refused>>
    BY <1>2 DEF AskRefund
  <2>2. TypeOK'
    BY <2>1 DEF TypeOK, RefundCall
  <2>3. RefundsKnowTheirTx'
    BY <1>2, <2>1 DEF RefundsKnowTheirTx, Unpaid, TypeOK
  <2>4. \A q \in Refunds : refunds[q].pc = "repaid" => refunds'[q] = refunds[q]
    BY <2>1 DEF TypeOK
  <2>5. AccessIsPaid'
    BY <2>1, <2>4 DEF AccessIsPaid
  <2> QED
    BY <2>1, <2>2, <2>3, <2>5 DEF KeysAreUnique, TxInLedger, InLedger, GrantsAreSettled,
       ReversedEarly, RefundedIsUndone, Unpaid
<1> QED
  BY <1>1, <1>2

LEMMA FinishRefundStep == ASSUME IInv, NEW r \in Refunds, FinishRefund(r) PROVE IInv'
<1> USE DEF IInv
<1> DEFINE o == refunds[r].order
<1>1. /\ refunds[r].pc = "repaid" /\ o \in Ids /\ refunds[r].partial \in BOOLEAN
      /\ Unpaid(orders[o].tx) \/ o \in refused
  BY DEF FinishRefund, RefundsKnowTheirTx, TypeOK, RefundCall
<1>2. refunds' = [refunds EXCEPT ![r] = [NoRefund EXCEPT !.pc = "done"]]
      /\ Undo(o, refunds[r].partial) /\ UNCHANGED <<calls, ledger, refused>>
  BY DEF FinishRefund
<1>3. [NoRefund EXCEPT !.pc = "done"] \in RefundCall
  BY DEF NoRefund, RefundCall
<1>4. TypeOK'
  BY <1>1, <1>2, <1>3 DEF Undo, TypeOK, Order
<1>5. \A q \in Refunds : \/ refunds'[q] = refunds[q]
                         \/ refunds'[q].pc = "done"
                            /\ (refunds[q].pc = "repaid" => refunds[q].order = o)
  BY <1>2 DEF TypeOK, NoRefund
<1> QED
  BY <1>1, <1>2, <1>4, <1>5, UndoStep

\* The ledger reverses the one transaction under the order's key, or refuses.
LEMMA RepayStep == ASSUME IInv, NEW r \in Refunds, Repay(r) PROVE IInv'
<1> USE DEF IInv
<1> DEFINE o == refunds[r].order
           tx == orders[o].tx
<1>1. o \in Ids /\ tx # None /\ refunds[r].pc = "repaying"
  BY DEF Repay, RefundsKnowTheirTx
<1>2. refunds' = [refunds EXCEPT ![r].pc = "repaid"] /\ UNCHANGED <<calls, orders, grants>>
  BY DEF Repay
<1>3. /\ refunds'[r].pc = "repaid" /\ refunds'[r].order = o
      /\ \A q \in Refunds \ {r} : refunds'[q] = refunds[q]
      /\ refunds' \in [Refunds -> RefundCall]
  BY <1>2 DEF TypeOK, RefundCall
<1>4. CASE ledger' = Reversed(tx) /\ UNCHANGED refused
  <2>1. \A t \in ledger : [t EXCEPT !.reversed = TRUE] \in Transaction
    BY DEF TypeOK, Transaction
  <2>2. \A s \in ledger' : \E t \in ledger :
           s = IF t.key = tx THEN [t EXCEPT !.reversed = TRUE] ELSE t
    BY <1>4 DEF Reversed
  <2>3. \A s \in ledger' : \E t \in ledger :
           /\ s.key = t.key /\ s.by = t.by /\ s.for = t.for
           /\ t.key = tx => s.reversed /\ s = [t EXCEPT !.reversed = TRUE]
           /\ t.key # tx => s = t
    BY <2>2 DEF TypeOK, Transaction
  <2>4. \A t \in ledger : \E s \in ledger' : s.key = t.key
    <3> TAKE t \in ledger
    <3>1. (IF t.key = tx THEN [t EXCEPT !.reversed = TRUE] ELSE t) \in ledger'
      BY <1>4 DEF Reversed
    <3>2. [t EXCEPT !.reversed = TRUE].key = t.key
      BY DEF TypeOK, Transaction
    <3> QED
      BY <3>1, <3>2
  <2>5. TypeOK'
    BY <1>2, <1>3, <1>4, <2>1, <2>2 DEF TypeOK
  <2>6. KeysAreUnique'
    <3>1. ASSUME NEW s1 \in ledger', NEW s2 \in ledger', s1.key = s2.key PROVE s1 = s2
      <4>1. PICK t1 \in ledger : s1 = IF t1.key = tx THEN [t1 EXCEPT !.reversed = TRUE] ELSE t1
        BY <2>2
      <4>2. PICK t2 \in ledger : s2 = IF t2.key = tx THEN [t2 EXCEPT !.reversed = TRUE] ELSE t2
        BY <2>2
      <4>3. s1.key = t1.key /\ s2.key = t2.key
        BY <4>1, <4>2 DEF TypeOK, Transaction
      <4> QED
        BY <3>1, <4>1, <4>2, <4>3 DEF KeysAreUnique
    <3>2. \A s \in ledger' : s.for # None => s.key = s.for
      BY <2>3 DEF KeysAreUnique
    <3> QED
      BY <3>1, <3>2 DEF KeysAreUnique
  <2>7. TxInLedger'
    BY <1>2, <2>4 DEF TxInLedger, InLedger
  <2>8. GrantsAreSettled'
    BY <1>2 DEF GrantsAreSettled
  <2>9. ReversedEarly'
    <3>3. \A s \in ledger' : calls[s.by].pc \in {"paid", "unpaid", "done"}
      BY <2>3 DEF ReversedEarly
    <3> SUFFICES ASSUME NEW s \in ledger', s.reversed, calls[s.by].pc # "done"
                 PROVE  \E p \in Ids \ {s.by} : orders[p].tx = s.key
      BY <1>2, <3>3 DEF ReversedEarly
    <3>1. CASE s.key = tx
      BY <1>1, <3>1 DEF TxInLedger
    <3>2. CASE s.key # tx
      BY <2>3, <3>2 DEF ReversedEarly
    <3> QED
      BY <3>1, <3>2
  <2>10. \A s \in ledger' : s.key = tx => s.reversed
    BY <2>3
  <2>11. \A x : Unpaid(x) => \A s \in ledger' : s.key = x => s.reversed
    BY <2>3, <2>10 DEF Unpaid
  <2>12. RefundsKnowTheirTx'
    BY <1>1, <1>2, <1>3, <1>4, <2>10, <2>11 DEF RefundsKnowTheirTx, Unpaid
  <2>13. AccessIsPaid'
    <3> SUFFICES ASSUME NEW kind \in Kinds, NEW p \in Ids, grants[kind] = p
                 PROVE  /\ InLedger(orders[p].tx)'
                        /\ \/ ~ \E t \in ledger' : t.key = orders[p].tx /\ t.by = p /\ t.reversed
                           \/ \E q \in Refunds : refunds'[q].pc = "repaid" /\ refunds'[q].order = p
                           \/ \E q \in Ids \ {p} : orders[q].tx = orders[p].tx
      BY <1>2 DEF AccessIsPaid, InLedger, TypeOK
    <3>1. InLedger(orders[p].tx)'
      BY <1>2, <2>4, NoneAssumption DEF GrantsAreSettled, TxInLedger, InLedger
    <3>2. CASE orders[p].tx = tx
      BY <1>1, <1>3, <3>1, <3>2
    <3>3. CASE orders[p].tx # tx
      BY <1>1, <1>3, <2>3, <3>1, <3>3, NoneAssumption DEF AccessIsPaid
    <3> QED
      BY <3>2, <3>3
  <2>14. RefundedIsUndone'
    BY <1>2, <1>4, <2>11 DEF RefundedIsUndone, Unpaid
  <2> QED
    BY <2>5, <2>6, <2>7, <2>8, <2>9, <2>12, <2>13, <2>14
<1>5. CASE refused' = refused \cup {o} /\ UNCHANGED ledger
  <2>1. TypeOK'
    BY <1>1, <1>2, <1>3, <1>5 DEF TypeOK
  <2>2. RefundsKnowTheirTx'
    BY <1>1, <1>2, <1>3, <1>5 DEF RefundsKnowTheirTx, Unpaid
  <2>3. \A q \in Refunds : refunds[q].pc = "repaid" => refunds'[q] = refunds[q]
    BY <1>1, <1>3
  <2>4. AccessIsPaid'
    BY <1>2, <1>5, <2>3 DEF AccessIsPaid
  <2>5. RefundedIsUndone'
    BY <1>2, <1>5 DEF RefundedIsUndone, Unpaid
  <2> QED
    BY <1>2, <1>5, <2>1, <2>2, <2>4, <2>5 DEF KeysAreUnique, TxInLedger, InLedger,
       GrantsAreSettled, ReversedEarly
<1> QED
  BY <1>4, <1>5 DEF Repay

LEMMA RestartStep == ASSUME IInv, Restart PROVE IInv'
<1> USE DEF IInv
<1>1. \A o \in Ids : /\ calls'[o] \in {NoCall, Done} /\ orders'[o] = NoOrder
                     /\ calls[o].pc # "new" => calls'[o].pc = "done"
  BY DEF Restart, Done, NoCall
<1>2. \A r \in Refunds : refunds'[r].pc \in {"idle", "done"}
  BY DEF Restart, NoRefund
<1>3. \A kind \in Kinds : grants'[kind] = None
  BY DEF Restart
<1>4. TypeOK'
  BY DEF Restart, TypeOK, NoCall, Done, NoOrder, NoRefund, Call, Order, RefundCall, Kinds
<1> QED
  <2>1. UNCHANGED <<ledger, refused>>
    BY DEF Restart
  <2>2. \A o \in Ids : orders'[o].tx = None /\ orders'[o].status = "NONE"
                       /\ calls'[o].pc \in {"new", "done"}
    BY <1>1 DEF NoOrder, NoCall, Done
  <2>3. KeysAreUnique'
    BY <2>1 DEF KeysAreUnique
  <2>4. TxInLedger' /\ GrantsAreSettled' /\ RefundsKnowTheirTx'
    BY <1>2, <1>3, <2>2 DEF TxInLedger, GrantsAreSettled, RefundsKnowTheirTx
  <2>5. ReversedEarly'
    BY <1>1, <2>1 DEF ReversedEarly, TypeOK, Transaction
  <2>6. AccessIsPaid' /\ RefundedIsUndone'
    BY <1>3, <2>2 DEF AccessIsPaid, RefundedIsUndone
  <2> QED
    BY <1>4, <2>3, <2>4, <2>5, <2>6

-----------------------------------------------------------------------------
LEMMA InvStep == ASSUME IInv, [Next]_vars PROVE IInv'
<1>1. CASE UNCHANGED vars
  BY <1>1 DEF vars, memory, IInv, TypeOK, KeysAreUnique, TxInLedger, InLedger, GrantsAreSettled,
     ReversedEarly, RefundsKnowTheirTx, AccessIsPaid, RefundedIsUndone, Unpaid
<1> QED
  BY <1>1, BeginStep, StoreStep, PayStep, RefuseStep, SettleStep, AskRefundStep, RepayStep,
     FinishRefundStep, RestartStep DEF Next

LEMMA Invariance == Spec => []IInv
BY InitInv, InvStep, PTL DEF Spec

\* However many calls of createAndProcessOrder carry one key, overlap, fail, lose
\* their answer or are cut short by restarts, the ledger charges the key once.
THEOREM OneChargePerKey == Spec => []KeyChargedOnce
<1>1. IInv => KeyChargedOnce
  BY DEF IInv, KeysAreUnique, KeyChargedOnce
<1> QED
  BY <1>1, Invariance, PTL

\* Whoever has an entitlement from an order has paid for it, for any number of
\* orders and refunds of them that overlap.
THEOREM AccessWasPaid == Spec => []AccessIsPaid
<1>1. IInv => AccessIsPaid
  BY DEF IInv
<1> QED
  BY <1>1, Invariance, PTL

\* A refunded order gives no access, and what it had paid is back unless the
\* ledger would not reverse it, for any number of refunds.
THEOREM RefundsUndo == Spec => []RefundedIsUndone
<1>1. IInv => RefundedIsUndone
  BY DEF IInv
<1> QED
  BY <1>1, Invariance, PTL
=============================================================================
