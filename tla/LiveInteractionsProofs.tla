----------------------- MODULE LiveInteractionsProofs -----------------------
(***************************************************************************)
(* For any creators, demo items, offers, purchases and refunds: queues stay *)
(* in order, nobody falls back in one, whoever was charged is lined up, and *)
(* a refund an item names was attempted for that item.                     *)
(*                                                                         *)
(* The argument.  Every write of a queue ends with recalculatePositions, so *)
(* a position is at any time the number of those who wait up to there; an  *)
(* item that has left the queue never comes back to it, so that number     *)
(* only falls.  An item with a refund is in a status without transitions.  *)
(***************************************************************************)
EXTENDS LiveInteractions, FiniteSetTheorems, SequenceTheorems, TLAPS

Items == [by : Purchases \cup {"seed"}, status : DOMAIN Allowed, position : Nat,
          refund : Refunds \cup {"none"}]

Request == [pc : {"repay", "mark", "over"}, creator : Creators, item : Nat,
            to : {"REJECTED", "CANCELLED", "REFUNDED"}]

TypeOK ==
    /\ queues \in [Creators -> Seq(Items)]
    /\ buying \in [Purchases -> {"new", "keyed", "unsold", "offered", "funded", "paying", "paid", "over"}]
    /\ \A row \in rows : row.type = "INTERACTION_FEE" => row.by \in Purchases
    /\ repaying \in [Refunds -> Request \cup {[pc |-> "new"]}]
    /\ \A r \in Refunds : repaying[r].pc # "new" =>
          repaying[r] \in Request /\ repaying[r].item \in DOMAIN queues[repaying[r].creator]

\* Those who wait or are performed, up to the n-th item of a queue
Before(q, n) == {m \in 1 .. n : Queued(q[m])}

\* Positions are as recalculatePositions leaves them.
Numbered(q) ==
    \A n \in DOMAIN q : q[n].position = IF Queued(q[n]) THEN Cardinality(Before(q, n)) ELSE 0

AllNumbered == \A c \in Creators : Numbered(queues[c])

\* Who was given back is in a status that ALLOWED_QUEUE_TRANSITIONS lets nobody leave.
RefundedHaveLeft ==
    \A c \in Creators : \A n \in DOMAIN queues[c] :
        queues[c][n].refund # "none" =>
            queues[c][n].status \in {"REJECTED", "CANCELLED", "REFUNDED"}

\* The payment of a refund comes before its mark.
PaidBeforeMarked ==
    \A r \in Refunds : repaying[r].pc \in {"mark", "over"} =>
        \E row \in rows : row.key = r /\ row.type # "INTERACTION_FEE"

\* Only a refund that was asked for can be named.
NamedWasAsked ==
    \A c \in Creators : \A n \in DOMAIN queues[c] :
        LET r == queues[c][n].refund
        IN  r # "none" => /\ repaying[r].pc = "over"
                          /\ repaying[r].creator = c /\ repaying[r].item = n

IInv ==
    /\ TypeOK /\ AllNumbered /\ RefundedHaveLeft /\ PaidBeforeMarked /\ NamedWasAsked
    /\ PaidIsQueued

-----------------------------------------------------------------------------
(* Queues *)

Statuses == {"PENDING", "ACCEPTED", "IN_PROGRESS", "COMPLETED", "REJECTED", "CANCELLED", "REFUNDED"}

\* What ALLOWED_QUEUE_TRANSITIONS says of who waits and who has left
LEMMA Transitions ==
    /\ DOMAIN Allowed = Statuses
    /\ \A s \in Statuses, to \in {"ACCEPTED", "IN_PROGRESS", "COMPLETED"} :
          to \in Allowed[s] => s \in {"PENDING", "ACCEPTED", "IN_PROGRESS"}
    /\ \A s \in Statuses, to \in {"REJECTED", "CANCELLED", "REFUNDED"} :
          to \in Allowed[s] => s \notin {"REJECTED", "CANCELLED", "REFUNDED"}
<1>1. DOMAIN Allowed = Statuses
  BY DEF Allowed, Statuses
<1>2. /\ Allowed["PENDING"] = {"ACCEPTED", "REJECTED", "CANCELLED"}
      /\ Allowed["ACCEPTED"] = {"IN_PROGRESS", "CANCELLED", "REJECTED"}
      /\ Allowed["IN_PROGRESS"] = {"COMPLETED", "CANCELLED", "REFUNDED"}
      /\ Allowed["COMPLETED"] = {"REFUNDED"}
      /\ Allowed["REJECTED"] = {} /\ Allowed["CANCELLED"] = {} /\ Allowed["REFUNDED"] = {}
  BY DEF Allowed
<1> QED
  BY <1>1, <1>2 DEF Statuses

LEMMA BeforeIsFinite ==
    ASSUME NEW q, NEW n \in Nat
    PROVE  IsFiniteSet(Before(q, n)) /\ Cardinality(Before(q, n)) \in Nat
<1>1. IsFiniteSet(1 .. n)
  BY FS_Interval
<1>2. Before(q, n) \in SUBSET (1 .. n)
  BY DEF Before
<1> QED
  BY <1>1, <1>2, FS_Subset, FS_CardinalityType

\* recalculatePositions changes positions only, and numbers the queue.
LEMMA RenumberedFacts ==
    ASSUME NEW q \in Seq(Items)
    PROVE  /\ Renumbered(q) \in Seq(Items)
           /\ DOMAIN Renumbered(q) = DOMAIN q
           /\ \A n \in DOMAIN q : /\ Renumbered(q)[n].by = q[n].by
                                  /\ Renumbered(q)[n].status = q[n].status
                                  /\ Renumbered(q)[n].refund = q[n].refund
           /\ Numbered(Renumbered(q))
<1> DEFINE P(n) == IF Queued(q[n]) THEN Cardinality(Before(q, n)) ELSE 0
           R == Renumbered(q)
<1>1. DOMAIN q = 1 .. Len(q) /\ Len(q) \in Nat
  OBVIOUS
<1>2. \A n \in DOMAIN q : P(n) \in Nat
  BY <1>1, BeforeIsFinite
<1>3. R = [n \in DOMAIN q |-> [q[n] EXCEPT !.position = P(n)]]
  BY DEF Renumbered, Before
<1>4. \A n \in DOMAIN q : q[n] \in Items
  OBVIOUS
<1> HIDE DEF P, R
<1>5. \A n \in DOMAIN q : R[n] = [q[n] EXCEPT !.position = P(n)]
  BY <1>3
<1>6. \A n \in DOMAIN q : /\ R[n] \in Items /\ R[n].position = P(n)
                          /\ R[n].by = q[n].by /\ R[n].status = q[n].status
                          /\ R[n].refund = q[n].refund
  BY <1>2, <1>4, <1>5 DEF Items
<1>7. DOMAIN R = DOMAIN q
  BY <1>3
<1>8. R \in Seq(Items)
  <2>1. R \in [1 .. Len(q) -> Items]
    BY <1>1, <1>3, <1>6, <1>7
  <2> QED
    BY <1>1, <2>1, SeqDef
<1>9. \A n \in DOMAIN q : Queued(R[n]) <=> Queued(q[n])
  BY <1>6 DEF Queued
<1>10. \A n \in DOMAIN q : Before(R, n) = Before(q, n)
  BY <1>1, <1>9 DEF Before
<1>11. Numbered(R)
  BY <1>6, <1>7, <1>9, <1>10 DEF Numbered, P
<1> QED
  BY <1>6, <1>7, <1>8, <1>11 DEF R

\* A numbered queue gives the places 1, 2, ... in order to those who wait.
LEMMA NumberedInOrder ==
    ASSUME NEW q \in Seq(Items), Numbered(q), NEW m \in DOMAIN q, NEW n \in DOMAIN q
    PROVE  /\ ~Queued(q[n]) => q[n].position = 0
           /\ Queued(q[n]) => q[n].position \in 1 .. Cardinality({k \in DOMAIN q : Queued(q[k])})
           /\ m < n /\ Queued(q[m]) /\ Queued(q[n]) => q[m].position < q[n].position
<1>1. DOMAIN q = 1 .. Len(q) /\ Len(q) \in Nat
  OBVIOUS
<1>2. m \in Nat /\ n \in Nat
  BY <1>1
<1>3. ~Queued(q[n]) => q[n].position = 0
  BY DEF Numbered
<1>4. ASSUME Queued(q[n])
      PROVE  q[n].position \in 1 .. Cardinality({k \in DOMAIN q : Queued(q[k])})
  <2>1. q[n].position = Cardinality(Before(q, n))
    BY <1>4 DEF Numbered
  <2>2. {k \in DOMAIN q : Queued(q[k])} = Before(q, Len(q))
    BY <1>1 DEF Before
  <2>3. Before(q, n) \in SUBSET Before(q, Len(q))
    BY <1>1 DEF Before
  <2>4. Cardinality(Before(q, n)) <= Cardinality(Before(q, Len(q)))
    BY <1>1, <2>3, BeforeIsFinite, FS_Subset
  <2>5. Cardinality(Before(q, n)) # 0
    <3>1. n \in Before(q, n)
      BY <1>1, <1>4 DEF Before
    <3> QED
      BY <1>2, <3>1, BeforeIsFinite, FS_EmptySet
  <2>6. Cardinality(Before(q, n)) \in Nat /\ Cardinality(Before(q, Len(q))) \in Nat
    BY <1>1, <1>2, BeforeIsFinite
  <2>7. Cardinality(Before(q, n)) \in 1 .. Cardinality(Before(q, Len(q)))
    BY <2>4, <2>5, <2>6
  <2> QED
    BY <2>1, <2>2, <2>7
<1>5. ASSUME m < n, Queued(q[m]), Queued(q[n])
      PROVE  q[m].position < q[n].position
  <2>1. q[m].position = Cardinality(Before(q, m)) /\ q[n].position = Cardinality(Before(q, n))
    BY <1>5 DEF Numbered
  <2>2. Before(q, m) \in SUBSET Before(q, n)
    BY <1>2, <1>5 DEF Before
  <2>3. n \in Before(q, n) /\ n \notin Before(q, m)
    BY <1>1, <1>2, <1>5 DEF Before
  <2>4. /\ Cardinality(Before(q, m)) <= Cardinality(Before(q, n))
        /\ Cardinality(Before(q, m)) # Cardinality(Before(q, n))
    BY <1>2, <2>2, <2>3, BeforeIsFinite, FS_Subset
  <2> QED
    BY <1>2, <2>1, <2>4, BeforeIsFinite
<1> QED
  BY <1>3, <1>4, <1>5

\* Where nobody comes to wait who did not, nobody falls back.
LEMMA NobodyBefore ==
    ASSUME NEW q1 \in Seq(Items), NEW q2 \in Seq(Items), Numbered(q1), Numbered(q2),
           DOMAIN q1 \subseteq DOMAIN q2,
           \A n \in DOMAIN q1 : Queued(q2[n]) => Queued(q1[n])
    PROVE  \A n \in DOMAIN q1 : q2[n].position <= q1[n].position
<1> TAKE n \in DOMAIN q1
<1>1. DOMAIN q1 = 1 .. Len(q1) /\ Len(q1) \in Nat /\ n \in Nat
  OBVIOUS
<1>2. Before(q2, n) \in SUBSET Before(q1, n)
  BY <1>1 DEF Before
<1>3. Cardinality(Before(q2, n)) <= Cardinality(Before(q1, n))
  BY <1>1, <1>2, BeforeIsFinite, FS_Subset
<1>4. q1[n] \in Items
  OBVIOUS
<1>5. q1[n].position \in Nat
  BY <1>4 DEF Items
<1> QED
  BY <1>1, <1>3, <1>5 DEF Numbered

\* What a step may make of a queue: no item goes, comes back to wait, or changes its
\* refund.
Follows(q1, q2) ==
    /\ q2 \in Seq(Items) /\ Numbered(q2)
    /\ DOMAIN q1 \subseteq DOMAIN q2
    /\ \A n \in DOMAIN q1 :
          /\ q2[n].by = q1[n].by
          /\ Queued(q2[n]) => Queued(q1[n])
          /\ q1[n].refund # "none" => q2[n].refund = q1[n].refund

\* The queue with a new request, and with another item at a place
Lined(q, p) == Renumbered(Append(q, Item(p, "PENDING")))
Replacing(q, n, item) == Renumbered([q EXCEPT ![n] = item])
PutAt(c, n, item) == [queues EXCEPT ![c] = Replacing(@, n, item)]

LEMMA Appended ==
    ASSUME NEW q \in Seq(Items), NEW p \in Purchases
    PROVE  /\ Follows(q, Lined(q, p))
           /\ DOMAIN Lined(q, p) = DOMAIN q \cup {Len(q) + 1}
           /\ \A n \in DOMAIN q : /\ Lined(q, p)[n].status = q[n].status
                                  /\ Lined(q, p)[n].refund = q[n].refund
           /\ Lined(q, p)[Len(q) + 1].by = p /\ Lined(q, p)[Len(q) + 1].refund = "none"
<1> DEFINE item == Item(p, "PENDING")
           a == Append(q, item)
           q2 == Renumbered(a)
<1>1. item \in Items /\ item.by = p /\ item.refund = "none"
  BY DEF Item, Items, Allowed
<1> HIDE DEF item
<1>2. /\ a \in Seq(Items) /\ DOMAIN a = DOMAIN q \cup {Len(q) + 1}
      /\ a[Len(q) + 1] = item /\ \A n \in DOMAIN q : a[n] = q[n]
  BY <1>1
<1> HIDE DEF a
<1>3. /\ q2 \in Seq(Items) /\ Numbered(q2) /\ DOMAIN q2 = DOMAIN a
      /\ \A n \in DOMAIN a : /\ q2[n].by = a[n].by /\ q2[n].status = a[n].status
                             /\ q2[n].refund = a[n].refund
  BY <1>2, RenumberedFacts
<1> HIDE DEF q2
<1>4. Follows(q, q2)
  BY <1>2, <1>3 DEF Follows, Queued
<1>5. q2[Len(q) + 1].by = p /\ q2[Len(q) + 1].refund = "none"
  BY <1>1, <1>2, <1>3
<1>6. \A n \in DOMAIN q : q2[n].status = q[n].status /\ q2[n].refund = q[n].refund
  BY <1>2, <1>3
<1> QED
  BY <1>2, <1>3, <1>4, <1>5, <1>6 DEF q2, a, item, Lined

LEMMA Replaced ==
    ASSUME NEW q \in Seq(Items), NEW n \in DOMAIN q, NEW item \in Items,
           item.by = q[n].by, Queued(item) => Queued(q[n]),
           q[n].refund # "none" => item.refund = q[n].refund
    PROVE  LET q2 == Replacing(q, n, item)
           IN  /\ Follows(q, q2)
               /\ DOMAIN q2 = DOMAIN q
               /\ q2[n].status = item.status /\ q2[n].refund = item.refund
               /\ \A m \in DOMAIN q \ {n} :
                     q2[m].status = q[m].status /\ q2[m].refund = q[m].refund
<1> DEFINE a == [q EXCEPT ![n] = item]
           q2 == Renumbered(a)
<1>1. /\ a \in Seq(Items) /\ DOMAIN a = DOMAIN q
      /\ a[n] = item /\ \A m \in DOMAIN q \ {n} : a[m] = q[m]
  BY ExceptSeq
<1> HIDE DEF a
<1>2. /\ q2 \in Seq(Items) /\ Numbered(q2) /\ DOMAIN q2 = DOMAIN a
      /\ \A m \in DOMAIN a : /\ q2[m].by = a[m].by /\ q2[m].status = a[m].status
                             /\ q2[m].refund = a[m].refund
  BY <1>1, RenumberedFacts
<1> HIDE DEF q2
<1>3. Follows(q, q2)
  <2>1. \A m \in DOMAIN q : q2[m].by = q[m].by
    BY <1>1, <1>2
  <2>2. \A m \in DOMAIN q : Queued(q2[m]) => Queued(q[m])
    BY <1>1, <1>2 DEF Queued
  <2>3. \A m \in DOMAIN q : q[m].refund # "none" => q2[m].refund = q[m].refund
    BY <1>1, <1>2
  <2> QED
    BY <1>1, <1>2, <2>1, <2>2, <2>3 DEF Follows
<1> QED
  BY <1>1, <1>2, <1>3 DEF q2, a, Replacing

-----------------------------------------------------------------------------
(* The invariant *)

LEMMA InitInv == Init => IInv
<1> SUFFICES ASSUME Init PROVE IInv
  OBVIOUS
<1> DEFINE seeds(c) == [n \in DOMAIN Seeds[c] |-> Item("seed", Seeds[c][n])]
<1>1. ASSUME NEW c \in Creators
      PROVE  /\ queues[c] \in Seq(Items) /\ Numbered(queues[c])
             /\ \A n \in DOMAIN queues[c] : queues[c][n].refund = "none"
  <2>1. Seeds[c] \in Seq(DOMAIN Allowed)
    BY SeedsAssumption
  <2>2. \A n \in 1 .. Len(Seeds[c]) : Item("seed", Seeds[c][n]) \in Items
    BY <2>1 DEF Item, Items
  <2>3. seeds(c) \in [1 .. Len(Seeds[c]) -> Items]
    BY <2>1, <2>2
  <2>4. seeds(c) \in Seq(Items)
    BY <2>1, <2>3, SeqDef
  <2>5. queues[c] = Renumbered(seeds(c))
    BY DEF Init
  <2>6. \A n \in DOMAIN seeds(c) : seeds(c)[n].refund = "none"
    BY DEF Item
  <2> HIDE DEF seeds
  <2> QED
    BY <2>4, <2>5, <2>6, RenumberedFacts
<1>2. TypeOK
  <2>1. queues \in [Creators -> Seq(Items)]
    BY <1>1 DEF Init
  <2>2. repaying = [r \in Refunds |-> [pc |-> "new"]]
    BY DEF Init
  <2>3. \A r \in Refunds : repaying[r].pc = "new"
    BY <2>2
  <2> QED
    BY <2>1, <2>2, <2>3 DEF Init, TypeOK
<1>3. \A r \in Refunds : repaying[r].pc = "new"
  BY DEF Init
<1> QED
  BY <1>1, <1>2, <1>3 DEF Init, IInv, AllNumbered, RefundedHaveLeft, PaidBeforeMarked,
     NamedWasAsked, PaidIsQueued

\* A step that leaves queues and refunds alone has to care for the charges only.
LEMMA QuietStep ==
    ASSUME IInv, UNCHANGED <<queues, repaying>>, rows \subseteq rows',
           buying' \in [Purchases -> {"new", "keyed", "unsold", "offered", "funded", "paying",
                                      "paid", "over"}],
           \A p \in Purchases : buying[p] = "paid" => buying'[p] = "paid",
           \A row \in rows' \ rows : row.type = "INTERACTION_FEE" =>
                row.by \in Purchases /\ buying'[row.by] = "paid"
    PROVE  IInv'
<1>1. TypeOK'
  BY DEF IInv, TypeOK
<1>2. PaidBeforeMarked'
  BY DEF IInv, PaidBeforeMarked
<1>3. PaidIsQueued'
  BY DEF IInv, PaidIsQueued, HasItem, TypeOK
<1> QED
  BY <1>1, <1>2, <1>3 DEF IInv, AllNumbered, RefundedHaveLeft, NamedWasAsked

LEMMA BuyStep ==
    ASSUME IInv, NEW p \in Purchases,
           CheckKey(p) \/ CheckLedger(p) \/ CheckOffer(p) \/ CheckFunds(p) \/ TakeStock(p) \/ Charge(p)
    PROVE  IInv'
<1> USE DEF memory, database, Goes
<1>1. ASSUME UNCHANGED <<queues, repaying, rows>>, NEW to, NEW from,
             buying[p] = from, from # "paid", buying' = [buying EXCEPT ![p] = to],
             to \in {"keyed", "unsold", "offered", "funded", "paying", "over"}
      PROVE  IInv'
  BY <1>1, QuietStep DEF IInv, TypeOK
<1>2. CASE CheckKey(p)
  BY <1>1, <1>2 DEF CheckKey
<1>3. CASE CheckLedger(p)
  BY <1>1, <1>3 DEF CheckLedger
<1>4. CASE CheckOffer(p)
  BY <1>1, <1>4 DEF CheckOffer
<1>5. CASE CheckFunds(p)
  BY <1>1, <1>5 DEF CheckFunds
<1>6. CASE TakeStock(p)
  BY <1>1, <1>6 DEF TakeStock
<1>7. CASE Charge(p)
  <2>1. /\ UNCHANGED <<queues, repaying>> /\ buying' = [buying EXCEPT ![p] = "paid"]
        /\ rows' = rows \cup {Fee(p)} \/ rows' = rows
    BY <1>7 DEF Charge
  <2>2. Fee(p).by = p
    BY DEF Fee
  <2>3. \A row \in rows' \ rows : row.by = p
    BY <2>1, <2>2
  <2>4. buying' \in [Purchases -> {"new", "keyed", "unsold", "offered", "funded", "paying",
                                      "paid", "over"}] /\ buying'[p] = "paid"
    BY <2>1 DEF IInv, TypeOK
  <2>5. \A x \in Purchases : buying[x] = "paid" => buying'[x] = "paid"
    BY <2>1 DEF IInv, TypeOK
  <2> QED
    BY <2>1, <2>3, <2>4, <2>5, QuietStep
<1> QED
  BY <1>2, <1>3, <1>4, <1>5, <1>6, <1>7

\* A step that changes queues as Follows allows, and neither who paid nor refunds
\* beyond what the items say, keeps the rest.
LEMMA QueueStep ==
    ASSUME IInv, UNCHANGED rows, queues' \in [Creators -> Seq(Items)],
           \A c \in Creators : queues'[c] = queues[c] \/ Follows(queues[c], queues'[c]),
           buying' \in [Purchases -> {"new", "keyed", "unsold", "offered", "funded", "paying",
                                      "paid", "over"}],
           \A p \in Purchases : buying[p] = "paid" =>
              \/ buying'[p] = "paid"
              \/ \A c \in Creators \cap {Of[p].creator, Alias[Of[p].creator]} :
                    \E n \in DOMAIN queues'[c] : queues'[c][n].by = p
    PROVE  AllNumbered' /\ PaidIsQueued'
<1>1. AllNumbered'
  BY DEF IInv, AllNumbered, Follows
<1>2. \A c \in Creators, p \in Purchases : HasItem(c, p) => HasItem(c, p)'
  BY DEF HasItem, Follows
<1>3. PaidIsQueued'
  <2> SUFFICES ASSUME NEW row \in rows, row.type = "INTERACTION_FEE", buying'[row.by] # "paid",
                      NEW c \in Creators \cap {Of[row.by].creator, Alias[Of[row.by].creator]}
               PROVE  HasItem(c, row.by)'
    BY DEF PaidIsQueued
  <2>1. row.by \in Purchases
    BY DEF IInv, TypeOK
  <2>2. CASE buying[row.by] = "paid"
    BY <2>1, <2>2 DEF HasItem
  <2>3. CASE buying[row.by] # "paid"
    BY <1>2, <2>1, <2>3 DEF IInv, PaidIsQueued
  <2> QED
    BY <2>2, <2>3
<1> QED
  BY <1>1, <1>3

LEMMA LineUpFacts ==
    ASSUME IInv, NEW p \in Purchases, LineUp(p), NEW c \in Creators
    PROVE  LET lined == c \in {Of[p].creator, Alias[Of[p].creator]}
               q == queues[c]
           IN  /\ queues'[c] \in Seq(Items)
               /\ ~lined => queues'[c] = q
               /\ lined => /\ Follows(q, queues'[c])
                           /\ DOMAIN queues'[c] = DOMAIN q \cup {Len(q) + 1}
                           /\ \A n \in DOMAIN q : /\ queues'[c][n].status = q[n].status
                                                  /\ queues'[c][n].refund = q[n].refund
                           /\ queues'[c][Len(q) + 1].by = p
                           /\ queues'[c][Len(q) + 1].refund = "none"
<1>1. queues[c] \in Seq(Items)
  BY DEF IInv, TypeOK
<1>2. CASE c \in {Of[p].creator, Alias[Of[p].creator]}
  <2>1. queues'[c] = Lined(queues[c], p)
    BY <1>2 DEF LineUp, Lined
  <2>2. /\ Follows(queues[c], queues'[c])
        /\ DOMAIN queues'[c] = DOMAIN queues[c] \cup {Len(queues[c]) + 1}
        /\ \A n \in DOMAIN queues[c] : /\ queues'[c][n].status = queues[c][n].status
                                       /\ queues'[c][n].refund = queues[c][n].refund
        /\ queues'[c][Len(queues[c]) + 1].by = p
        /\ queues'[c][Len(queues[c]) + 1].refund = "none"
    <3> DEFINE q == queues[c]
    <3> HIDE DEF q
    <3>1. /\ Follows(q, Lined(q, p))
          /\ DOMAIN Lined(q, p) = DOMAIN q \cup {Len(q) + 1}
          /\ \A n \in DOMAIN q : /\ Lined(q, p)[n].status = q[n].status
                                 /\ Lined(q, p)[n].refund = q[n].refund
          /\ Lined(q, p)[Len(q) + 1].by = p /\ Lined(q, p)[Len(q) + 1].refund = "none"
      <4>1. q \in Seq(Items)
        BY <1>1 DEF q
      <4> QED
        BY <4>1, Appended
    <3> QED
      BY <2>1, <3>1 DEF q
  <2>3. queues'[c] \in Seq(Items)
    BY <2>2 DEF Follows
  <2> QED
    BY <1>2, <2>2, <2>3
<1>3. CASE c \notin {Of[p].creator, Alias[Of[p].creator]}
  BY <1>1, <1>3 DEF LineUp
<1> QED
  BY <1>2, <1>3

LEMMA LineUpStep == ASSUME IInv, NEW p \in Purchases, LineUp(p) PROVE IInv'
<1>1. UNCHANGED <<rows, repaying>> /\ buying' = [buying EXCEPT ![p] = "over"]
  BY DEF LineUp, Goes, database
<1>2. \A c \in Creators : queues[c] \in Seq(Items)
  BY DEF IInv, TypeOK
<1>3. queues' \in [Creators -> Seq(Items)]
  <2>1. \A c \in Creators : queues'[c] \in Seq(Items)
    BY LineUpFacts
  <2> QED
    BY <2>1 DEF LineUp
<1>4. \A c \in Creators : DOMAIN queues[c] \subseteq DOMAIN queues'[c]
  BY LineUpFacts DEF Follows
<1>5. TypeOK'
  <2>1. buying' \in [Purchases -> {"new", "keyed", "unsold", "offered", "funded", "paying",
                                    "paid", "over"}]
    BY <1>1 DEF IInv, TypeOK
  <2>2. \A r \in Refunds : repaying[r].pc # "new" =>
           repaying[r] \in Request /\ repaying[r].item \in DOMAIN queues'[repaying[r].creator]
    BY <1>4 DEF IInv, TypeOK, Request
  <2> QED
    BY <1>1, <1>3, <2>1, <2>2 DEF IInv, TypeOK
<1>6. AllNumbered' /\ PaidIsQueued'
  <2>1. \A c \in Creators : queues'[c] = queues[c] \/ Follows(queues[c], queues'[c])
    BY LineUpFacts
  <2>2. \A c \in Creators \cap {Of[p].creator, Alias[Of[p].creator]} :
           \E n \in DOMAIN queues'[c] : queues'[c][n].by = p
    BY LineUpFacts
  <2>3. \A x \in Purchases \ {p} : buying'[x] = buying[x]
    BY <1>1 DEF IInv, TypeOK
  <2> QED
    BY <1>1, <1>3, <1>5, <2>1, <2>2, <2>3, QueueStep DEF TypeOK
<1>7. ASSUME NEW c \in Creators, NEW n \in DOMAIN queues'[c], queues'[c][n].refund # "none"
      PROVE  /\ n \in DOMAIN queues[c] /\ queues'[c][n].refund = queues[c][n].refund
             /\ queues'[c][n].status = queues[c][n].status
  BY <1>7, LineUpFacts
<1>8. RefundedHaveLeft' /\ NamedWasAsked'
  BY <1>1, <1>7 DEF IInv, RefundedHaveLeft, NamedWasAsked
<1>9. PaidBeforeMarked'
  BY <1>1 DEF IInv, PaidBeforeMarked
<1> QED
  BY <1>5, <1>6, <1>8, <1>9 DEF IInv

\* Move and Mark put one item in another's place; the item waits no longer than
\* before, and is not one that was given back.
LEMMA ReplaceStep ==
    ASSUME IInv, NEW c \in Creators, NEW n \in DOMAIN queues[c], NEW item \in Items,
           item.by = queues[c][n].by, Queued(item) => Queued(queues[c][n]),
           queues[c][n].refund = "none",
           item.refund # "none" => item.status \in {"REJECTED", "CANCELLED", "REFUNDED"},
           queues' = PutAt(c, n, item),
           UNCHANGED <<rows, buying>>
    PROVE  /\ queues' \in [Creators -> Seq(Items)]
           /\ AllNumbered' /\ PaidIsQueued' /\ RefundedHaveLeft'
           /\ \A d \in Creators : /\ DOMAIN queues'[d] = DOMAIN queues[d]
                                  /\ queues'[d] = queues[d] \/ Follows(queues[d], queues'[d])
           /\ \A d \in Creators : \A m \in DOMAIN queues[d] :
                 queues'[d][m].refund = IF d = c /\ m = n THEN item.refund ELSE queues[d][m].refund
<1> DEFINE q == queues[c]
           q2 == Replacing(q, n, item)
<1>1. q \in Seq(Items)
  BY DEF IInv, TypeOK
<1>2. /\ Follows(q, q2) /\ DOMAIN q2 = DOMAIN q
      /\ q2[n].status = item.status /\ q2[n].refund = item.refund
      /\ \A m \in DOMAIN q \ {n} : q2[m].status = q[m].status /\ q2[m].refund = q[m].refund
  BY <1>1, Replaced
<1>3. queues' = [queues EXCEPT ![c] = q2]
  BY DEF PutAt
<1> HIDE DEF q2
<1>4. queues'[c] = q2 /\ \A d \in Creators \ {c} : queues'[d] = queues[d]
  BY <1>3 DEF IInv, TypeOK
<1>5. queues' \in [Creators -> Seq(Items)]
  BY <1>2, <1>3 DEF IInv, TypeOK, Follows
<1>6. \A d \in Creators : /\ DOMAIN queues'[d] = DOMAIN queues[d]
                          /\ queues'[d] = queues[d] \/ Follows(queues[d], queues'[d])
  BY <1>2, <1>4
<1>7. AllNumbered' /\ PaidIsQueued'
  BY <1>5, <1>6, QueueStep DEF IInv, TypeOK
<1>8. \A d \in Creators : \A m \in DOMAIN queues[d] :
         queues'[d][m].refund = IF d = c /\ m = n THEN item.refund ELSE queues[d][m].refund
  BY <1>2, <1>4
<1>9. RefundedHaveLeft'
  <2> SUFFICES ASSUME NEW d \in Creators, NEW m \in DOMAIN queues[d], queues'[d][m].refund # "none"
               PROVE  queues'[d][m].status \in {"REJECTED", "CANCELLED", "REFUNDED"}
    BY <1>6 DEF RefundedHaveLeft
  <2>1. CASE d = c /\ m = n
    BY <1>2, <1>4, <2>1
  <2>2. CASE ~(d = c /\ m = n)
    BY <1>2, <1>4, <2>2 DEF IInv, RefundedHaveLeft
  <2> QED
    BY <2>1, <2>2
<1> QED
  BY <1>5, <1>6, <1>7, <1>8, <1>9

LEMMA MoveStep ==
    ASSUME IInv, NEW c \in Creators, NEW n \in DOMAIN queues[c],
           NEW to \in {"ACCEPTED", "IN_PROGRESS", "COMPLETED"}, Move(c, n, to)
    PROVE  /\ IInv'
           /\ \A d \in Creators : queues'[d] = queues[d] \/ Follows(queues[d], queues'[d])
<1> DEFINE old == queues[c][n]
           item == Moved(c, n, to)
<1>1. old \in Items
  <2>1. queues[c] \in Seq(Items)
    BY DEF IInv, TypeOK
  <2> QED
    BY <2>1
<1>2. /\ item \in Items /\ item.by = old.by /\ item.refund = old.refund
      /\ item.status = to
  BY <1>1, Transitions DEF Moved, Items, Statuses
<1>3. old.status \in {"PENDING", "ACCEPTED", "IN_PROGRESS"}
  BY <1>1, Transitions DEF Move, Items
<1>4. old.refund = "none"
  BY <1>3 DEF IInv, RefundedHaveLeft
<1>5. /\ queues' = PutAt(c, n, item)
      /\ UNCHANGED <<rows, buying, repaying>>
  BY DEF Move, database, PutAt, Replacing
<1>6. Queued(old)
  BY <1>3 DEF Queued
<1> HIDE DEF item, old
<1>7. /\ item.by = queues[c][n].by
      /\ Queued(item) => Queued(queues[c][n])
      /\ queues[c][n].refund = "none" /\ item.refund = "none"
  BY <1>2, <1>4, <1>6 DEF old
<1>8. /\ queues' \in [Creators -> Seq(Items)]
      /\ AllNumbered' /\ PaidIsQueued' /\ RefundedHaveLeft'
      /\ \A d \in Creators : /\ DOMAIN queues'[d] = DOMAIN queues[d]
                             /\ queues'[d] = queues[d] \/ Follows(queues[d], queues'[d])
      /\ \A d \in Creators : \A m \in DOMAIN queues[d] :
            queues'[d][m].refund = IF d = c /\ m = n THEN item.refund ELSE queues[d][m].refund
  BY <1>2, <1>5, <1>7, ReplaceStep
<1>9. \A d \in Creators : \A m \in DOMAIN queues[d] : queues'[d][m].refund = queues[d][m].refund
  BY <1>8, <1>7
<1>10. TypeOK'
  BY <1>5, <1>8 DEF IInv, TypeOK, Request
<1>11. NamedWasAsked' /\ PaidBeforeMarked'
  BY <1>5, <1>8, <1>9 DEF IInv, NamedWasAsked, PaidBeforeMarked
<1> QED
  BY <1>8, <1>10, <1>11 DEF IInv

LEMMA AskRefundStep ==
    ASSUME IInv, NEW r \in Refunds, NEW c \in Creators, NEW n \in DOMAIN queues[c],
           NEW to \in {"REJECTED", "CANCELLED", "REFUNDED"}, AskRefund(r, c, n, to)
    PROVE  IInv'
<1>1. /\ UNCHANGED <<queues, rows, buying>> /\ repaying[r].pc = "new"
      /\ repaying' = [repaying EXCEPT ![r] = [pc |-> "repay", creator |-> c, item |-> n, to |-> to]]
  BY DEF AskRefund, memory, database
<1>2. queues[c] \in Seq(Items) /\ n \in Nat
  <2>1. queues[c] \in Seq(Items)
    BY DEF IInv, TypeOK
  <2> QED
    BY <2>1
<1>3. [pc |-> "repay", creator |-> c, item |-> n, to |-> to] \in Request
  BY <1>2 DEF Request
<1>4. \A x \in Refunds \ {r} : repaying'[x] = repaying[x]
  BY <1>1 DEF IInv, TypeOK
<1>5. /\ repaying'[r].pc = "repay" /\ repaying'[r].creator = c /\ repaying'[r].item = n
      /\ repaying'[r] \in Request
  BY <1>1, <1>3 DEF IInv, TypeOK
<1>6. TypeOK'
  <2>1. repaying' \in [Refunds -> Request \cup {[pc |-> "new"]}]
    BY <1>1, <1>3 DEF IInv, TypeOK
  <2> QED
    BY <1>1, <1>4, <1>5, <2>1 DEF IInv, TypeOK
<1>7. PaidBeforeMarked'
  BY <1>1, <1>4, <1>5 DEF IInv, PaidBeforeMarked
<1>8. NamedWasAsked'
  <2>1. \A d \in Creators : \A m \in DOMAIN queues[d] :
           queues[d][m].refund # "none" => queues[d][m].refund \in Refunds \ {r}
    <3> SUFFICES ASSUME NEW d \in Creators, NEW m \in DOMAIN queues[d],
                        queues[d][m].refund # "none"
                 PROVE  queues[d][m].refund \in Refunds \ {r}
      OBVIOUS
    <3>1. queues[d][m] \in Items
      <4>1. queues[d] \in Seq(Items)
        BY DEF IInv, TypeOK
      <4> QED
        BY <4>1
    <3>2. repaying[queues[d][m].refund].pc = "over"
      BY DEF IInv, NamedWasAsked
    <3> QED
      BY <1>1, <3>1, <3>2 DEF Items
  <2> QED
    BY <1>1, <1>4, <2>1 DEF IInv, NamedWasAsked
<1> QED
  BY <1>1, <1>6, <1>7, <1>8 DEF IInv, AllNumbered, RefundedHaveLeft, PaidIsQueued, HasItem

LEMMA RepayStep == ASSUME IInv, NEW r \in Refunds, Repay(r) PROVE IInv'
<1>1. /\ UNCHANGED <<queues, buying>> /\ repaying[r].pc = "repay"
      /\ repaying' = [repaying EXCEPT ![r].pc = "mark"]
  BY DEF Repay, memory
<1>2. PICK type \in {"REFUND", "FAILED"} : rows' = rows \cup {Row(type, r)}
  BY DEF Repay
<1>3. Row(type, r).key = r /\ Row(type, r).type # "INTERACTION_FEE"
  BY DEF Row
<1>4. repaying[r] \in Request
  BY <1>1 DEF IInv, TypeOK
<1>5. /\ repaying'[r] \in Request /\ repaying'[r].pc = "mark"
      /\ repaying'[r].creator = repaying[r].creator /\ repaying'[r].item = repaying[r].item
      /\ \A x \in Refunds \ {r} : repaying'[x] = repaying[x]
      /\ repaying' \in [Refunds -> Request \cup {[pc |-> "new"]}]
  BY <1>1, <1>4 DEF IInv, TypeOK, Request
<1>6. TypeOK'
  <2>1. \A row \in rows' : row.type = "INTERACTION_FEE" => row.by \in Purchases
    BY <1>2, <1>3 DEF IInv, TypeOK
  <2>2. \A x \in Refunds : repaying'[x].pc # "new" =>
           repaying'[x] \in Request /\ repaying'[x].item \in DOMAIN queues[repaying'[x].creator]
    BY <1>1, <1>5 DEF IInv, TypeOK
  <2> QED
    BY <1>1, <1>5, <2>1, <2>2 DEF IInv, TypeOK
<1>7. PaidBeforeMarked'
  BY <1>2, <1>3, <1>5 DEF IInv, PaidBeforeMarked
<1>8. NamedWasAsked'
  <2>1. \A d \in Creators : \A m \in DOMAIN queues[d] :
           queues[d][m].refund # "none" => queues[d][m].refund \in Refunds \ {r}
    <3> SUFFICES ASSUME NEW d \in Creators, NEW m \in DOMAIN queues[d],
                        queues[d][m].refund # "none"
                 PROVE  queues[d][m].refund \in Refunds \ {r}
      OBVIOUS
    <3>1. queues[d][m] \in Items
      <4>1. queues[d] \in Seq(Items)
        BY DEF IInv, TypeOK
      <4> QED
        BY <4>1
    <3>2. repaying[queues[d][m].refund].pc = "over"
      BY DEF IInv, NamedWasAsked
    <3> QED
      BY <1>1, <3>1, <3>2 DEF Items
  <2> QED
    BY <1>1, <1>5, <2>1 DEF IInv, NamedWasAsked
<1>9. PaidIsQueued'
  BY <1>1, <1>2, <1>3 DEF IInv, PaidIsQueued, HasItem
<1> QED
  BY <1>1, <1>6, <1>7, <1>8, <1>9 DEF IInv, AllNumbered, RefundedHaveLeft

LEMMA MarkStep ==
    ASSUME IInv, NEW r \in Refunds, Mark(r)
    PROVE  /\ IInv'
           /\ \A d \in Creators : queues'[d] = queues[d] \/ Follows(queues[d], queues'[d])
<1> DEFINE c == repaying[r].creator
           n == repaying[r].item
           to == repaying[r].to
           old == queues[c][n]
           item == [old EXCEPT !.status = to, !.refund = r]
<1>1. /\ repaying[r].pc = "mark" /\ repaying[r] \in Request
      /\ c \in Creators /\ n \in DOMAIN queues[c]
      /\ to \in {"REJECTED", "CANCELLED", "REFUNDED"}
  BY DEF Mark, IInv, TypeOK, Request
<1>2. /\ UNCHANGED <<rows, buying>> /\ repaying' = [repaying EXCEPT ![r].pc = "over"]
  BY DEF Mark, database
<1>3. /\ repaying'[r] \in Request /\ repaying'[r].pc = "over"
      /\ repaying'[r].creator = c /\ repaying'[r].item = n
      /\ \A x \in Refunds \ {r} : repaying'[x] = repaying[x]
      /\ repaying' \in [Refunds -> Request \cup {[pc |-> "new"]}]
  BY <1>1, <1>2 DEF IInv, TypeOK, Request
<1>4. PaidBeforeMarked'
  BY <1>1, <1>2, <1>3 DEF IInv, PaidBeforeMarked
<1>5. \A d \in Creators : \A m \in DOMAIN queues[d] :
         queues[d][m].refund # "none" =>
            /\ repaying'[queues[d][m].refund].pc = "over"
            /\ repaying'[queues[d][m].refund].creator = d
            /\ repaying'[queues[d][m].refund].item = m
  <2> SUFFICES ASSUME NEW d \in Creators, NEW m \in DOMAIN queues[d],
                      queues[d][m].refund # "none"
               PROVE  /\ repaying'[queues[d][m].refund].pc = "over"
                      /\ repaying'[queues[d][m].refund].creator = d
                      /\ repaying'[queues[d][m].refund].item = m
    OBVIOUS
  <2>1. queues[d][m] \in Items
    <3>1. queues[d] \in Seq(Items)
      BY DEF IInv, TypeOK
    <3> QED
      BY <3>1
  <2>2. /\ repaying[queues[d][m].refund].pc = "over"
        /\ repaying[queues[d][m].refund].creator = d
        /\ repaying[queues[d][m].refund].item = m
    BY DEF IInv, NamedWasAsked
  <2> QED
    BY <1>1, <1>3, <2>1, <2>2 DEF Items
<1>6. CASE to \in Allowed[old.status]
  <2>1. old \in Items
    <3>1. queues[c] \in Seq(Items)
      BY <1>1 DEF IInv, TypeOK
    <3> QED
      BY <1>1, <3>1
  <2>2. /\ item \in Items /\ item.by = old.by /\ item.refund = r /\ item.status = to
    BY <1>1, <2>1, Transitions DEF Items, Statuses
  <2>3. old.status \notin {"REJECTED", "CANCELLED", "REFUNDED"}
    BY <1>1, <1>6, <2>1, Transitions DEF Items
  <2>4. old.refund = "none"
    BY <1>1, <2>3 DEF IInv, RefundedHaveLeft
  <2>5. ~Queued(item)
    BY <1>1, <2>2 DEF Queued
  <2>6. queues' = PutAt(c, n, item)
    BY <1>6 DEF Mark, PutAt, Replacing
  <2> HIDE DEF item, to, c, n
  <2>7. /\ queues' \in [Creators -> Seq(Items)]
        /\ AllNumbered' /\ PaidIsQueued' /\ RefundedHaveLeft'
        /\ \A d \in Creators : /\ DOMAIN queues'[d] = DOMAIN queues[d]
                               /\ queues'[d] = queues[d] \/ Follows(queues[d], queues'[d])
        /\ \A d \in Creators : \A m \in DOMAIN queues[d] :
              queues'[d][m].refund = IF d = c /\ m = n THEN item.refund ELSE queues[d][m].refund
    BY <1>1, <1>2, <2>2, <2>4, <2>5, <2>6, ReplaceStep
  <2>8. TypeOK'
    BY <1>1, <1>2, <1>3, <2>7 DEF IInv, TypeOK, Request
  <2>9. NamedWasAsked'
    BY <1>3, <1>5, <2>2, <2>7 DEF NamedWasAsked
  <2> QED
    BY <1>4, <2>7, <2>8, <2>9 DEF IInv
<1>7. CASE to \notin Allowed[old.status]
  <2>1. queues' = queues
    BY <1>7 DEF Mark
  <2>2. TypeOK'
    BY <1>1, <1>2, <1>3, <2>1 DEF IInv, TypeOK
  <2>3. NamedWasAsked'
    BY <1>5, <2>1 DEF NamedWasAsked
  <2> QED
    BY <1>2, <1>4, <2>1, <2>2, <2>3
    DEF IInv, AllNumbered, RefundedHaveLeft, PaidIsQueued, HasItem
<1> QED
  BY <1>6, <1>7

LEMMA ToggleStep == ASSUME IInv, NEW o \in Offers, Toggle(o) PROVE IInv'
BY QuietStep DEF Toggle, database, IInv, TypeOK

LEMMA InvStep == ASSUME IInv, [Next]_vars PROVE IInv'
<1>1. CASE UNCHANGED vars
  BY <1>1, QuietStep DEF vars, memory, database, IInv, TypeOK
<1>2. ASSUME NEW p \in Purchases, Buy(p) PROVE IInv'
  BY <1>2, BuyStep, LineUpStep DEF Buy
<1> QED
  BY <1>1, <1>2, MoveStep, AskRefundStep, RepayStep, MarkStep, ToggleStep DEF Next

LEMMA Invariance == Spec => []IInv
BY InitInv, InvStep, PTL DEF Spec

-----------------------------------------------------------------------------
\* In every queue, the alias's too, those who wait hold the places 1 .. n in order
\* of purchase, for any number of purchases, moves and refunds.
THEOREM QueuesStayInOrder == Spec => []QueuesInOrder
<1>1. IInv => QueuesInOrder
  <2> SUFFICES ASSUME IInv, NEW c \in Creators, NEW m \in DOMAIN queues[c],
                      NEW n \in DOMAIN queues[c]
               PROVE  LET q == queues[c]
                      IN  /\ ~Queued(q[n]) => q[n].position = 0
                          /\ Queued(q[n]) =>
                                q[n].position \in 1 .. Cardinality({k \in DOMAIN q : Queued(q[k])})
                          /\ m < n /\ Queued(q[m]) /\ Queued(q[n]) => q[m].position < q[n].position
    BY DEF QueuesInOrder
  <2>1. queues[c] \in Seq(Items) /\ Numbered(queues[c])
    BY DEF IInv, TypeOK, AllNumbered
  <2> QED
    BY <2>1, NumberedInOrder
<1> QED
  BY <1>1, Invariance, PTL

\* Whoever was charged is lined up with the creator and her alias, or is about to be.
THEOREM ChargedIsQueued == Spec => []PaidIsQueued
<1>1. IInv => PaidIsQueued
  BY DEF IInv
<1> QED
  BY <1>1, Invariance, PTL

\* A refund an item names was attempted for that very item before it was marked.
THEOREM MarksHaveRefunds == Spec => []MarksAreBacked
<1>1. IInv => MarksAreBacked
  <2> SUFFICES ASSUME IInv, NEW c \in Creators, NEW n \in DOMAIN queues[c],
                      queues[c][n].refund # "none"
               PROVE  LET r == queues[c][n].refund
                      IN  /\ \E row \in rows : row.key = r /\ row.type # "INTERACTION_FEE"
                          /\ repaying[r].creator = c /\ repaying[r].item = n
    BY DEF MarksAreBacked
  <2>1. queues[c] \in Seq(Items)
    BY DEF IInv, TypeOK
  <2>2. queues[c][n] \in Items
    BY <2>1
  <2>3. queues[c][n].refund \in Refunds
    BY <2>2 DEF Items
  <2> QED
    BY <2>3 DEF IInv, NamedWasAsked, PaidBeforeMarked
<1> QED
  BY <1>1, Invariance, PTL

\* No step of anybody lets a request fall back in a queue, or replaces a refund.
THEOREM NoStepFallsBack == Spec => NobodyFallsBack
<1>1. ASSUME IInv, [Next]_vars PROVE Kept \/ UNCHANGED vars
  <2>1. ASSUME NEW c \in Creators,
               Follows(queues[c], queues'[c]) \/ queues'[c] = queues[c],
               NEW n \in DOMAIN queues[c]
        PROVE  /\ n \in DOMAIN queues'[c]
               /\ queues'[c][n].by = queues[c][n].by
               /\ queues'[c][n].position <= queues[c][n].position
               /\ queues[c][n].refund # "none" => queues'[c][n].refund = queues[c][n].refund
    <3>1. queues[c] \in Seq(Items) /\ Numbered(queues[c])
      BY <1>1 DEF IInv, TypeOK, AllNumbered
    <3>2. CASE Follows(queues[c], queues'[c])
      <4>1. queues'[c][n].position <= queues[c][n].position
        BY <3>1, <3>2, NobodyBefore DEF Follows
      <4> QED
        BY <3>2, <4>1 DEF Follows
    <3>3. CASE queues'[c] = queues[c]
      <4>1. queues[c][n] \in Items
        BY <3>1
      <4> QED
        BY <3>3, <4>1 DEF Items
    <3> QED
      BY <2>1, <3>2, <3>3
  <2>2. ASSUME NEW p \in Purchases, LineUp(p) PROVE Kept
    <3>1. \A c \in Creators : queues'[c] = queues[c] \/ Follows(queues[c], queues'[c])
      BY <1>1, <2>2, LineUpFacts
    <3> QED
      BY <2>1, <3>1 DEF Kept
  <2>3. ASSUME NEW p \in Purchases, Buy(p) PROVE Kept
    <3>1. LineUp(p) \/ UNCHANGED queues
      BY <2>3 DEF Buy, CheckKey, CheckLedger, CheckOffer, CheckFunds, TakeStock, Charge, memory
    <3> QED
      BY <2>1, <2>2, <3>1 DEF Kept
  <2>4. ASSUME NEW c \in Creators, NEW n \in DOMAIN queues[c],
               NEW to \in {"ACCEPTED", "IN_PROGRESS", "COMPLETED"}, Move(c, n, to)
        PROVE  Kept
    BY <1>1, <2>1, <2>4, MoveStep DEF Kept
  <2>5. ASSUME NEW r \in Refunds, Mark(r) PROVE Kept
    BY <1>1, <2>1, <2>5, MarkStep DEF Kept
  <2>6. ASSUME UNCHANGED queues PROVE Kept
    BY <2>1, <2>6 DEF Kept
  <2> QED
    BY <1>1, <2>3, <2>4, <2>5, <2>6 DEF Next, AskRefund, Repay, Toggle, memory
<1> QED
  BY <1>1, Invariance, PTL DEF Spec, NobodyFallsBack
=============================================================================
