-------------------------- MODULE LiveInteractions --------------------------
(***************************************************************************)
(* Paid interactions of a live stream: InteractionPurchaseService takes    *)
(* the credits and InteractionQueueService lines the request up for the    *)
(* creator, who accepts, performs, rejects, cancels or refunds it.  The    *)
(* queues are in the memory of one process, the credits in the database;   *)
(* an await is a step boundary.                                            *)
(***************************************************************************)
EXTENDS Integers, Sequences, FiniteSets

CONSTANTS
    Creators,
    Alias,         \* the creator whose queue mirrors this one, or NoAlias
    NoAlias,
    Seeds,         \* statuses of the demo items a queue starts with
    Offers,
    Price,
    Stock,         \* remainingQuantity at the start
    Purchases,     \* calls of purchaseInteraction
    Of,            \* [creator, offer, key] of each
    Refunds,       \* calls of reject, cancel and refund
    On,            \* the creator each of them is about
    Credits,       \* the fan's balance at the start
    Remembered,    \* balances of the fan that the memory of the process may hold
    MaxMoves       \* bound: accept, start, complete and toggle

ASSUME OffersAssumption ==
    /\ Price \in [Offers -> Nat \ {0}] /\ Stock \in [Offers -> Nat] /\ Credits \in Nat
    /\ Remembered \subseteq Int
    /\ Alias \in [Creators -> Creators \cup {NoAlias}]

VARIABLES
    queues,    \* creator -> items in order of purchase
    balance,   \* the fan's wallet row
    rows,      \* WalletTransaction rows, and the refunds that failed
    stock,
    isActive,
    answered,  \* keys in processedPurchases
    buying,    \* where each purchase stands
    repaying,  \* where each reject, cancel or refund stands
    moves

memory == <<queues, stock, isActive, answered>>
database == <<balance, rows>>
vars == <<memory, database, buying, repaying, moves>>

\* ALLOWED_QUEUE_TRANSITIONS
Allowed ==
    [PENDING     |-> {"ACCEPTED", "REJECTED", "CANCELLED"},
     ACCEPTED    |-> {"IN_PROGRESS", "CANCELLED", "REJECTED"},
     IN_PROGRESS |-> {"COMPLETED", "CANCELLED", "REFUNDED"},
     COMPLETED   |-> {"REFUNDED"},
     REJECTED    |-> {},
     CANCELLED   |-> {},
     REFUNDED    |-> {}]

\* A demo item can be in any status.
ASSUME SeedsAssumption == Seeds \in [Creators -> Seq(DOMAIN Allowed)]

Queued(item) == item.status \in {"PENDING", "ACCEPTED", "IN_PROGRESS"}

Item(by, status) == [by |-> by, status |-> status, position |-> 0, refund |-> "none"]

\* Wrong on purpose: the positions of those who left are given to nobody.
NewPositions(q) ==
    [n \in DOMAIN q |-> [q[n] EXCEPT !.position = IF Queued(q[n]) THEN n ELSE 0]]

\* recalculatePositions
Renumbered(q) ==
    [n \in DOMAIN q |-> [q[n] EXCEPT !.position =
        IF Queued(q[n]) THEN Cardinality({m \in 1 .. n : Queued(q[m])}) ELSE 0]]

Init ==
    /\ queues = [c \in Creators |->
          Renumbered([n \in DOMAIN Seeds[c] |-> Item("seed", Seeds[c][n])])]
    /\ balance = Credits
    /\ rows = {}
    /\ stock = Stock
    /\ isActive = [o \in Offers |-> TRUE]
    /\ answered = {}
    /\ buying = [p \in Purchases |-> "new"]
    /\ repaying = [r \in Refunds |-> [pc |-> "new"]]
    /\ moves = 0

-----------------------------------------------------------------------------
(* InteractionPurchaseService.purchaseInteraction *)

Goes(p, from, to) == buying[p] = from /\ buying' = [buying EXCEPT ![p] = to]

Charged(k) == \E row \in rows : row.type = "INTERACTION_FEE" /\ row.key = k

\* Gate 8: the map of this process, then, after an await, the ledger.
CheckKey(p) ==
    /\ Goes(p, "new", IF Of[p].key \in answered THEN "over" ELSE "keyed")
    /\ UNCHANGED <<memory, database, repaying, moves>>

\* A read of the ledger that fails is taken for one that found nothing.
CheckLedger(p) ==
    /\ \/ Goes(p, "keyed", IF Charged(Of[p].key) THEN "over" ELSE "unsold")
       \/ Goes(p, "keyed", "unsold")
    /\ UNCHANGED <<memory, database, repaying, moves>>

\* Gates 1 and 2
CheckOffer(p) ==
    /\ Goes(p, "unsold", IF isActive[Of[p].offer] THEN "offered" ELSE "over")
    /\ UNCHANGED <<memory, database, repaying, moves>>

\* Gates 5 and 6; for a wallet that cannot be read the memory answers.
CheckFunds(p) ==
    /\ \E credits \in {balance} \cup Remembered :
          Goes(p, "offered", IF credits >= Price[Of[p].offer] /\ stock[Of[p].offer] > 0
                             THEN "funded" ELSE "over")
    /\ UNCHANGED <<memory, database, repaying, moves>>

\* Gate 7 came back: the stock goes down, at most to zero, and the charge starts.
TakeStock(p) ==
    /\ Goes(p, "funded", "paying")
    /\ stock' = [stock EXCEPT ![Of[p].offer] = IF @ > 0 THEN @ - 1 ELSE @]
    /\ UNCHANGED <<queues, isActive, answered, database, repaying, moves>>

Fee(p) == [type |-> "INTERACTION_FEE", key |-> Of[p].key, by |-> p]

\* Wrong on purpose: a slow commit is taken for a failed one, and that ends the
\* call.
ChargeGivesUp(p) ==
    /\ \/ /\ Goes(p, "paying", "paid") \/ Goes(p, "paying", "over")
          /\ ~Charged(Of[p].key)
          /\ balance' = balance - Price[Of[p].offer]
          /\ rows' = rows \cup {Fee(p)}
       \/ Goes(p, "paying", "over") /\ UNCHANGED database
    /\ UNCHANGED <<memory, repaying, moves>>

\* The transaction commits, or it fails, on a key that is taken or for any other
\* reason; the error is dropped.
Charge(p) ==
    /\ Goes(p, "paying", "paid")
    /\ \/ /\ ~Charged(Of[p].key)
          /\ balance' = balance - Price[Of[p].offer]
          /\ rows' = rows \cup {Fee(p)}
       \/ UNCHANGED database
    /\ UNCHANGED <<memory, repaying, moves>>

\* Wrong on purpose: the newest request is the next one.
LineUpFirst(p) ==
    /\ Goes(p, "paid", "over")
    /\ queues' = [queues EXCEPT ![Of[p].creator] = Renumbered(<<Item(p, "PENDING")>> \o @)]
    /\ answered' = answered \cup {Of[p].key}
    /\ UNCHANGED <<stock, isActive, database, repaying, moves>>

\* enqueueInteraction, and the same once more in the alias's queue
LineUp(p) ==
    /\ Goes(p, "paid", "over")
    /\ queues' = [c \in Creators |->
          IF c \in {Of[p].creator, Alias[Of[p].creator]}
          THEN Renumbered(Append(queues[c], Item(p, "PENDING"))) ELSE queues[c]]
    /\ answered' = answered \cup {Of[p].key}
    /\ UNCHANGED <<stock, isActive, database, repaying, moves>>

-----------------------------------------------------------------------------
(* InteractionQueueService, for the creator *)

Moved(c, n, to) == [queues[c][n] EXCEPT !.status = to]

\* accept, startProgress, complete; the last renumbers, which for the others
\* would change nothing.  An illegal move is answered with null.
Move(c, n, to) ==
    /\ to \in {"ACCEPTED", "IN_PROGRESS", "COMPLETED"} \cap Allowed[queues[c][n].status]
    /\ moves < MaxMoves
    /\ moves' = moves + 1
    /\ queues' = [queues EXCEPT ![c] = Renumbered([@ EXCEPT ![n] = Moved(c, n, to)])]
    /\ UNCHANGED <<stock, isActive, answered, database, buying, repaying>>

\* toggleInteractionActive
Toggle(o) ==
    /\ moves < MaxMoves
    /\ moves' = moves + 1
    /\ isActive' = [isActive EXCEPT ![o] = ~@]
    /\ UNCHANGED <<queues, stock, answered, database, buying, repaying>>

\* rejectInteraction, cancelInteraction, refundInteraction: whatever the item's
\* status, the refund is made first.
AskRefund(r, c, n, to) ==
    /\ repaying[r].pc = "new" /\ On[r] = c
    /\ repaying' = [repaying EXCEPT ![r] = [pc |-> "repay", creator |-> c, item |-> n, to |-> to]]
    /\ UNCHANGED <<memory, database, buying, moves>>

Row(type, r) == [type |-> type, key |-> r, by |-> r]

\* Wrong on purpose: the item is marked with a refund that is still to be made.
MarkAtOnce(r) ==
    LET q == repaying[r]
    IN  /\ q.pc = "repay"
        /\ queues' = [queues EXCEPT ![q.creator] =
              Renumbered([@ EXCEPT ![q.item] = [@ EXCEPT !.status = q.to, !.refund = r]])]
        /\ repaying' = [repaying EXCEPT ![r].pc = "mark"]
        /\ UNCHANGED <<stock, isActive, answered, database, buying, moves>>

\* processFinancialRefund; a demo item's fan has no wallet, and errors are dropped.
Repay(r) ==
    LET item == queues[repaying[r].creator][repaying[r].item]
    IN  /\ repaying[r].pc = "repay"
        /\ \/ /\ item.by # "seed"
              /\ balance' = balance + Price[Of[item.by].offer]
              /\ rows' = rows \cup {Row("REFUND", r)}
           \/ balance' = balance /\ rows' = rows \cup {Row("FAILED", r)}
        /\ repaying' = [repaying EXCEPT ![r].pc = "mark"]
        /\ UNCHANGED <<memory, buying, moves>>

\* The transition, if it is legal by now, with its refundTransactionId
Mark(r) ==
    LET q == repaying[r]
        item == queues[q.creator][q.item]
    IN  /\ q.pc = "mark"
        /\ queues' = IF q.to \in Allowed[item.status]
                     THEN [queues EXCEPT ![q.creator] =
                        Renumbered([@ EXCEPT ![q.item] =
                            [item EXCEPT !.status = q.to, !.refund = r]])]
                     ELSE queues
        /\ repaying' = [repaying EXCEPT ![r].pc = "over"]
        /\ UNCHANGED <<stock, isActive, answered, database, buying, moves>>

Buy(p) ==
    \/ CheckKey(p) \/ CheckLedger(p) \/ CheckOffer(p) \/ CheckFunds(p)
    \/ TakeStock(p) \/ Charge(p) \/ LineUp(p)

Next ==
    \/ \E p \in Purchases : Buy(p)
    \/ \E c \in Creators : \E n \in DOMAIN queues[c] :
          \/ \E to \in {"ACCEPTED", "IN_PROGRESS", "COMPLETED"} : Move(c, n, to)
          \/ \E r \in Refunds, to \in {"REJECTED", "CANCELLED", "REFUNDED"} : AskRefund(r, c, n, to)
    \/ \E r \in Refunds : Repay(r) \/ Mark(r)
    \/ \E o \in Offers : Toggle(o)

Spec == Init /\ [][Next]_vars
-----------------------------------------------------------------------------
(* Properties *)

\* In every queue, the alias's too, the items that wait or are performed hold the
\* places 1 .. n in order of purchase, and the others none, whatever is bought,
\* performed, rejected, cancelled and refunded meanwhile.
QueuesInOrder ==
    \A c \in Creators : \A m, n \in DOMAIN queues[c] :
        LET q == queues[c]
        IN  /\ ~Queued(q[n]) => q[n].position = 0
            /\ Queued(q[n]) => q[n].position \in 1 .. Cardinality({k \in DOMAIN q : Queued(q[k])})
            /\ m < n /\ Queued(q[m]) /\ Queued(q[n]) => q[m].position < q[n].position

Kept ==
    \A c \in Creators : \A n \in DOMAIN queues[c] :
        /\ n \in DOMAIN queues'[c]
        /\ queues'[c][n].by = queues[c][n].by
        /\ queues'[c][n].position <= queues[c][n].position
        /\ queues[c][n].refund # "none" => queues'[c][n].refund = queues[c][n].refund

\* A request never falls back in the queue, and once it was given back its refund
\* is not replaced, though calls that reject, cancel and refund it overlap.
NobodyFallsBack == [][Kept]_vars

HasItem(c, p) == \E n \in DOMAIN queues[c] : queues[c][n].by = p

\* A fan who was charged stands in the queue, and in its mirror, or is about to,
\* whatever else happened while the charge was under way.
PaidIsQueued ==
    \A row \in rows : row.type = "INTERACTION_FEE" =>
        \/ buying[row.by] = "paid"
        \/ \A c \in Creators \cap {Of[row.by].creator, Alias[Of[row.by].creator]} :
              HasItem(c, row.by)

\* A refund an item names was attempted, for that item, before the item was
\* marked; no two items name one refund.
MarksAreBacked ==
    \A c \in Creators : \A n \in DOMAIN queues[c] :
        LET r == queues[c][n].refund
        IN  r # "none" => /\ \E row \in rows : row.key = r /\ row.type # "INTERACTION_FEE"
                          /\ repaying[r].creator = c /\ repaying[r].item = n
=============================================================================
