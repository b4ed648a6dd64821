----------------------- MODULE LedgerConcurrencyProofs -----------------------
(***************************************************************************)
(* For any number of requests, fans, keys and credits.  When every request *)
(* is a sale: lots and balances never part, no balance goes below zero,    *)
(* and the sales implement SerialSales.  When refunds overlap them too:    *)
(* the committed balances are the opening ones, moved by exactly the       *)
(* requests that were done, and nothing is charged twice.                  *)
(*                                                                         *)
(* The argument.  The fan's wallet row guards the fan's lots: it is the    *)
(* first row a sale writes, so of two sales of one fan only one is past    *)
(* it.  An increment adds to what a row holds once it is locked, so what a *)
(* request has written of a wallet is at any time the committed balance    *)
(* with its own move (Written), and its commit adds the move of one more   *)
(* request (Done).  A key, and a content of a fan, is a row as well, and   *)
(* whoever commits it has found it empty after locking it (Once).          *)
(***************************************************************************)
EXTENDS LedgerConcurrency, FiniteSetTheorems, WellFoundedInduction, TLAPS

SalesOnly == \A p \in Requests : Kind[p] \in SaleKinds

Before == {"check", "product", "fan", "debit"}
After == {"credit", "stock", "entry", "lots", "draw", "typed", "own", "commit"}
Drawn == {"typed", "own", "commit"}

\* The locks a transaction holds are the rows it has written.
Locks ==
    /\ holder \in [Rows -> Requests \cup {Nobody}]
    /\ draft = [p \in Requests |-> draft[p]]
    /\ \A p \in Requests : DOMAIN draft[p] = {r \in Rows : holder[r] = p}

\* The committed wallet and lot of a fan agree and are not negative.
Backed ==
    \A u \in Fans :
        /\ store[LotRow(u)] \in Nat
        /\ store[WalletRow(u)] = [balance |-> store[LotRow(u)], typed |-> store[LotRow(u)]]

\* What request p has written of its fan's wallet and lot, statement by
\* statement; it never writes another fan's.
Progress(p) ==
    LET w == WalletRow(Fan[p])
        l == LotRow(Fan[p])
        lot == store[l]
    IN  /\ pc[p] \in Before \cup Ended => DOMAIN draft[p] = {}
        /\ pc[p] \in After =>
              /\ w \in DOMAIN draft[p]
              /\ draft[p][w] = [balance |-> lot - Amount[p],
                                typed |-> IF pc[p] \in {"own", "commit"}
                                          THEN lot - Amount[p] ELSE lot]
        /\ pc[p] \in After \ Drawn => l \notin DOMAIN draft[p]
        /\ pc[p] = "draw" => seen[p] = lot /\ lot >= Amount[p]
        /\ pc[p] \in Drawn => /\ l \in DOMAIN draft[p]
                              /\ draft[p][l] = lot - Amount[p]
                              /\ lot >= Amount[p]
        /\ \A v \in Fans : v # Fan[p] =>
              WalletRow(v) \notin DOMAIN draft[p] /\ LotRow(v) \notin DOMAIN draft[p]

Inv ==
    /\ pc \in [Requests -> Before \cup After \cup Ended]
    /\ seen \in [Requests -> Int]
    /\ Locks
    /\ Backed
    /\ \A p \in Requests : Progress(p)

-----------------------------------------------------------------------------
\* Rows of different tables, and of different fans, are different rows.
LEMMA RowFacts ==
    /\ \A u \in Fans : WalletRow(u) \in Rows /\ LotRow(u) \in Rows /\ OwnedRow(u) \in Rows
    /\ WalletRow(Creator) \in Rows /\ StockRow \in Rows
    /\ \A k \in Keys : EntryRow(k) \in Rows
    /\ \A u, v \in Fans :
          /\ WalletRow(u) # LotRow(v) /\ WalletRow(u) # WalletRow(Creator)
          /\ LotRow(u) # WalletRow(Creator)
          /\ WalletRow(u) # StockRow /\ LotRow(u) # StockRow
          /\ WalletRow(u) # OwnedRow(v) /\ LotRow(u) # OwnedRow(v)
          /\ u # v => WalletRow(u) # WalletRow(v) /\ LotRow(u) # LotRow(v)
    /\ \A u \in Fans, k \in Keys : WalletRow(u) # EntryRow(k) /\ LotRow(u) # EntryRow(k)
  BY OpeningAssumption
     DEF WalletRow, LotRow, EntryRow, OwnedRow, ReceiptRow, StockRow, Rows

\* A write adds one row to the writer's draft and locks it; nothing else moves.
LEMMA WriteFacts ==
    ASSUME Locks, NEW p \in Requests, NEW r \in Rows, NEW v, DB!Write(p, r, v)
    PROVE  /\ holder[r] \in {Nobody, p}
           /\ store' = store
           /\ DOMAIN draft'[p] = DOMAIN draft[p] \cup {r}
           /\ draft'[p][r] = v
           /\ \A q \in DOMAIN draft[p] : q # r => draft'[p][q] = draft[p][q]
           /\ \A t \in Requests : t # p => draft'[t] = draft[t]
           /\ Locks'
  BY NobodyAssumption DEF Locks, DB!Write, DB!Unlocked

\* Ending a transaction empties its draft, frees its locks and leaves the
\* other transactions alone.
LEMMA ReleaseFacts ==
    ASSUME Locks, NEW p \in Requests, DB!Release(p)
    PROVE  /\ DOMAIN draft'[p] = {}
           /\ \A t \in Requests : t # p => draft'[t] = draft[t]
           /\ Locks'
  BY NobodyAssumption DEF Locks, DB!Release, DB!NoRows

\* Two transactions never have the same row in their drafts.
LEMMA Exclusive ==
    ASSUME Locks, NEW p \in Requests, NEW q \in Requests, p # q, NEW r \in DOMAIN draft[p]
    PROVE  r \notin DOMAIN draft[q]
  BY DEF Locks

\* Backed, field by field.
LEMMA BackedFacts ==
    ASSUME Backed, NEW u \in Fans
    PROVE  /\ store[LotRow(u)] \in Nat
           /\ store[WalletRow(u)].balance = store[LotRow(u)]
           /\ store[WalletRow(u)].typed = store[LotRow(u)]
<1>1. /\ store[LotRow(u)] \in Nat
      /\ store[WalletRow(u)] = [balance |-> store[LotRow(u)], typed |-> store[LotRow(u)]]
  BY DEF Backed
<1> QED BY <1>1

-----------------------------------------------------------------------------
\* A step of p that commits nothing keeps the invariant if it moves p's own
\* progress as it should.
LEMMA OwnStep ==
    ASSUME Inv, NEW p \in Requests, UNCHANGED store, Locks',
           \A q \in Requests : q # p => draft'[q] = draft[q],
           NEW l \in Before \cup After \cup Ended, pc' = [pc EXCEPT ![p] = l],
           seen' \in [Requests -> Int],
           \A q \in Requests : q # p => seen'[q] = seen[q],
           Progress(p)'
    PROVE  Inv'
<1>1. Backed'
  BY DEF Inv, Backed
<1>2. ASSUME NEW q \in Requests, q # p PROVE Progress(q)'
  <2>1. /\ draft'[q] = draft[q] /\ pc'[q] = pc[q] /\ seen'[q] = seen[q]
    BY <1>2 DEF Inv
  <2> QED BY <2>1 DEF Inv, Progress
<1>3. pc' \in [Requests -> Before \cup After \cup Ended]
  BY DEF Inv
<1> QED BY <1>1, <1>2, <1>3 DEF Inv

\* The same for the step that writes one row and leaves seen alone.
LEMMA UpdateStep ==
    ASSUME Inv, NEW p \in Requests, NEW r \in Rows, NEW v,
           NEW l \in Before \cup After \cup Ended, Update(p, r, v, l), Progress(p)'
    PROVE  Inv'
<1>1. DB!Write(p, r, v) /\ pc' = [pc EXCEPT ![p] = l] /\ UNCHANGED seen
  BY DEF Update, Go
<1>2. Locks
  BY DEF Inv
<1>3. store' = store /\ Locks' /\ \A q \in Requests : q # p => draft'[q] = draft[q]
  BY <1>1, <1>2, WriteFacts
<1> QED BY <1>1, <1>3, OwnStep DEF Inv

\* A read moves p from one statement to the next; nothing of p's writes matters
\* to the statements before the debit.
LEMMA EarlyRead ==
    ASSUME Inv, NEW p \in Requests, pc[p] \in Before,
           NEW l \in Before, Go(p, l), UNCHANGED <<store, draft, holder>>,
           seen' \in [Requests -> Int],
           \A q \in Requests : q # p => seen'[q] = seen[q]
    PROVE  Inv'
<1>1. pc' = [pc EXCEPT ![p] = l] /\ pc'[p] = l
  BY DEF Go, Inv
<1>2. Locks'
  BY DEF Inv, Locks
<1>3. Progress(p)'
  BY <1>1 DEF Inv, Progress, Before, After, Drawn, Ended
<1> QED BY <1>1, <1>2, <1>3, OwnStep

\* A transaction that ends without committing leaves nothing behind.
LEMMA StopStep ==
    ASSUME Inv, NEW p \in Requests, NEW o \in Ended, Stop(p, o)
    PROVE  Inv'
<1>1. /\ DB!Release(p) /\ UNCHANGED <<store, seen>> /\ pc' = [pc EXCEPT ![p] = o]
      /\ pc'[p] = o
  BY DEF Stop, DB!Rollback, Inv
<1>2. Locks
  BY DEF Inv
<1>3. /\ DOMAIN draft'[p] = {} /\ Locks'
      /\ \A t \in Requests : t # p => draft'[t] = draft[t]
  BY <1>1, <1>2, ReleaseFacts
<1>4. Progress(p)'
  BY <1>1, <1>3 DEF Progress, Before, After, Drawn, Ended
<1> QED BY <1>1, <1>3, <1>4, OwnStep DEF Inv
-----------------------------------------------------------------------------
(* The statements of a sale *)

LEMMA CheckInv ==
    ASSUME SalesOnly, Inv, NEW p \in Requests, Check(p) PROVE Inv'
<1>1. CASE Stop(p, "replayed")
  BY <1>1, StopStep DEF Ended
<1>2. CASE \E l \in {"product", "fan"} : Go(p, l) /\ UNCHANGED <<store, draft, holder, seen>>
  <2>1. PICK l \in {"product", "fan"} : Go(p, l) /\ UNCHANGED <<store, draft, holder, seen>>
    BY <1>2
  <2> QED BY <2>1, EarlyRead DEF Check, Before, Inv
<1> QED BY <1>1, <1>2 DEF Check

LEMMA CheckStockInv ==
    ASSUME SalesOnly, Inv, NEW p \in Requests, CheckStock(p) PROVE Inv'
<1>1. CASE Stop(p, "failed")
  BY <1>1, StopStep DEF Ended
<1>2. CASE Go(p, "fan") /\ UNCHANGED <<store, draft, holder, seen>>
  BY <1>2, EarlyRead DEF CheckStock, Before, Inv
<1> QED BY <1>1, <1>2 DEF CheckStock

LEMMA ReadFanInv ==
    ASSUME SalesOnly, Inv, NEW p \in Requests, ReadFan(p) PROVE Inv'
<1>1. CASE Stop(p, "failed")
  BY <1>1, StopStep DEF Ended
<1>2. CASE Go(p, "debit") /\ UNCHANGED <<store, draft, holder, seen>>
  BY <1>2, EarlyRead DEF ReadFan, Before, Inv
<1> QED BY <1>1, <1>2 DEF ReadFan

\* The debit takes the fan's wallet row, which no other sale can have changed.
LEMMA DebitInv ==
    ASSUME SalesOnly, Inv, NEW p \in Requests, Debit(p) PROVE Inv'
<1> DEFINE w == WalletRow(Fan[p])
           v == Moved(p, Fan[p], -Amount[p], 0)
           lot == store[LotRow(Fan[p])]
<1>1. /\ pc[p] = "debit" /\ Update(p, w, v, "credit")
      /\ DB!Write(p, w, v) /\ UNCHANGED seen /\ pc'[p] = "credit"
  BY DEF Debit, Update, Go, Inv
<1>2. Fan[p] \in Fans /\ w \in Rows /\ Amount[p] \in Nat
  BY RequestsAssumption, RowFacts
<1>3. DOMAIN draft[p] = {}
  BY <1>1 DEF Inv, Progress, Before
<1>4. See(p, w) = [balance |-> lot, typed |-> lot] /\ lot \in Nat
  BY <1>2, <1>3 DEF Inv, Backed, See, DB!See
<1>5. v = [balance |-> lot - Amount[p], typed |-> lot]
  BY <1>2, <1>4 DEF Moved
<1>6. DOMAIN draft'[p] = {w} /\ draft'[p][w] = v /\ store' = store
  BY <1>1, <1>2, <1>3, WriteFacts DEF Inv
<1>7. Progress(p)'
  BY <1>1, <1>2, <1>5, <1>6, RowFacts DEF Progress, Before, After, Drawn, Ended
<1> QED BY <1>1, <1>2, <1>7, UpdateStep DEF After

\* A write of a row that is neither a fan's wallet nor a fan's lot.
LEMMA OtherWrite ==
    ASSUME Inv, NEW p \in Requests, NEW r \in Rows, NEW v, NEW l \in After,
           \A u \in Fans : r # WalletRow(u) /\ r # LotRow(u),
           pc[p] \in After, l \notin {"draw"},
           l \in Drawn <=> pc[p] \in Drawn,
           l \in {"own", "commit"} <=> pc[p] \in {"own", "commit"},
           Update(p, r, v, l)
    PROVE  Inv'
<1>1. DB!Write(p, r, v) /\ UNCHANGED seen /\ pc'[p] = l
  BY DEF Update, Go, Inv
<1>2. /\ store' = store /\ DOMAIN draft'[p] = DOMAIN draft[p] \cup {r}
      /\ \A q \in DOMAIN draft[p] : q # r => draft'[p][q] = draft[p][q]
  BY <1>1, WriteFacts DEF Inv
<1>3. Fan[p] \in Fans
  BY RequestsAssumption
<1>4. Progress(p)
  BY DEF Inv
<1>5. Progress(p)'
  BY <1>1, <1>2, <1>3, <1>4 DEF Progress, Before, After, Drawn, Ended
<1> QED BY <1>5, UpdateStep

LEMMA CreditInv ==
    ASSUME SalesOnly, Inv, NEW p \in Requests, Credit(p) PROVE Inv'
<1>1. PICK l \in {"stock", "entry"} :
          Update(p, WalletRow(Creator), Moved(p, Creator, Net(p), 0), l)
  BY DEF Credit
<1> QED BY <1>1, OtherWrite, RowFacts DEF Credit, After, Drawn

LEMMA TakeStockInv ==
    ASSUME SalesOnly, Inv, NEW p \in Requests, TakeStock(p) PROVE Inv'
  BY OtherWrite, RowFacts DEF TakeStock, After, Drawn

LEMMA InsertEntryInv ==
    ASSUME SalesOnly, Inv, NEW p \in Requests, InsertEntry(p) PROVE Inv'
<1> DEFINE row == EntryRow(Key[p])
<1>1. row \in Rows /\ \A u \in Fans : row # WalletRow(u) /\ row # LotRow(u)
  BY RequestsAssumption, RowFacts
<1>2. CASE Stop(p, "failed")
  BY <1>2, StopStep DEF Ended
<1>3. CASE Update(p, row, "COMPLETED", "lots")
  BY <1>1, <1>3, OtherWrite DEF InsertEntry, After, Drawn
<1> QED BY <1>2, <1>3 DEF InsertEntry

LEMMA InsertPurchaseInv ==
    ASSUME SalesOnly, Inv, NEW p \in Requests, InsertPurchase(p) PROVE Inv'
<1>1. CASE Stop(p, "failed")
  BY <1>1, StopStep DEF Ended
<1> DEFINE row == OwnedRow(Fan[p])
<1>2. row \in Rows /\ \A u \in Fans : row # WalletRow(u) /\ row # LotRow(u)
  BY RequestsAssumption, RowFacts
<1>3. CASE Update(p, row, TRUE, "commit")
  BY <1>2, <1>3, OtherWrite DEF InsertPurchase, After, Drawn
<1> QED BY <1>1, <1>3 DEF InsertPurchase
\* The lots are read with the fan's wallet row locked: nobody else has the
\* fan's lot row, and what is read is what is committed.
LEMMA ReadLotsInv ==
    ASSUME SalesOnly, Inv, NEW p \in Requests, ReadLots(p) PROVE Inv'
<1> DEFINE l == LotRow(Fan[p])
           lot == See(p, l)
<1>1. CASE Stop(p, "failed")
  BY <1>1, StopStep DEF Ended
<1>2. CASE /\ lot >= Amount[p]
           /\ seen' = [seen EXCEPT ![p] = lot] /\ Go(p, "draw")
           /\ UNCHANGED <<store, draft, holder>>
  <2>1. pc[p] = "lots" /\ pc' = [pc EXCEPT ![p] = "draw"] /\ pc'[p] = "draw"
    BY <1>2 DEF ReadLots, Go, Inv
  <2>2. Fan[p] \in Fans /\ Progress(p)
    BY RequestsAssumption DEF Inv
  <2>3. l \notin DOMAIN draft[p]
    BY <2>1, <2>2 DEF Progress, After, Drawn
  <2>4. lot = store[l] /\ lot \in Int
    BY <2>2, <2>3, BackedFacts DEF See, DB!See, Inv
  <2>5. /\ seen' \in [Requests -> Int]
        /\ seen'[p] = lot
        /\ \A q \in Requests : q # p => seen'[q] = seen[q]
    BY <1>2, <2>4 DEF Inv
  <2>6. Locks'
    BY <1>2 DEF Inv, Locks
  <2>7. Progress(p)'
    BY <1>2, <2>1, <2>2, <2>4, <2>5 DEF Progress, Before, After, Drawn, Ended
  <2> QED BY <1>2, <2>1, <2>5, <2>6, <2>7, OwnStep DEF After
<1>3. lot \in Int /\ Amount[p] \in Int
  <2>1. Fan[p] \in Fans /\ Progress(p) /\ pc[p] = "lots"
    BY RequestsAssumption DEF Inv, ReadLots
  <2>2. l \notin DOMAIN draft[p]
    BY <2>1 DEF Progress, After, Drawn
  <2> QED BY <2>1, <2>2, RequestsAssumption, BackedFacts DEF See, DB!See, Inv
<1> QED BY <1>1, <1>2, <1>3 DEF ReadLots

LEMMA DrawLotsInv ==
    ASSUME SalesOnly, Inv, NEW p \in Requests, DrawLots(p) PROVE Inv'
<1> DEFINE l == LotRow(Fan[p])
           v == seen[p] - Amount[p]
<1>1. /\ pc[p] = "draw" /\ Update(p, l, v, "typed")
      /\ DB!Write(p, l, v) /\ UNCHANGED seen /\ pc'[p] = "typed"
  BY DEF DrawLots, Update, Go, Inv
<1>2. Fan[p] \in Fans /\ l \in Rows /\ Progress(p)
  BY RequestsAssumption, RowFacts DEF Inv
<1>3. /\ store' = store /\ DOMAIN draft'[p] = DOMAIN draft[p] \cup {l}
      /\ draft'[p][l] = v
      /\ \A q \in DOMAIN draft[p] : q # l => draft'[p][q] = draft[p][q]
  BY <1>1, <1>2, WriteFacts DEF Inv
<1>4. Progress(p)'
  BY <1>1, <1>2, <1>3, RowFacts DEF Progress, Before, After, Drawn, Ended
<1> QED BY <1>1, <1>2, <1>4, UpdateStep DEF After

LEMMA UpdateTypedInv ==
    ASSUME SalesOnly, Inv, NEW p \in Requests, UpdateTyped(p) PROVE Inv'
<1> DEFINE w == WalletRow(Fan[p])
           v == Moved(p, Fan[p], 0, -Amount[p])
           lot == store[LotRow(Fan[p])]
<1>1. PICK o \in {"own", "commit"} : pc[p] = "typed" /\ Update(p, w, v, o)
  BY DEF UpdateTyped
<1>2. DB!Write(p, w, v) /\ UNCHANGED seen /\ pc'[p] = o
  BY <1>1 DEF Update, Go, Inv
<1>3. Fan[p] \in Fans /\ w \in Rows /\ Amount[p] \in Nat /\ lot \in Nat /\ Progress(p)
  BY RequestsAssumption, RowFacts DEF Inv, Backed
<1>4. See(p, w) = [balance |-> lot - Amount[p], typed |-> lot]
  BY <1>1, <1>3 DEF Progress, After, See, DB!See
<1>5. v = [balance |-> lot - Amount[p], typed |-> lot - Amount[p]]
  BY <1>3, <1>4 DEF Moved
<1>6. /\ store' = store /\ DOMAIN draft'[p] = DOMAIN draft[p] \cup {w}
      /\ draft'[p][w] = v
      /\ \A q \in DOMAIN draft[p] : q # w => draft'[p][q] = draft[p][q]
  BY <1>2, <1>3, WriteFacts DEF Inv
<1>7. Progress(p)'
  BY <1>1, <1>2, <1>3, <1>5, <1>6, RowFacts DEF Progress, Before, After, Drawn, Ended
<1> QED BY <1>1, <1>3, <1>7, UpdateStep DEF After

\* The commit publishes a wallet and a lot that agree, of its own fan only.
LEMMA FinishFacts ==
    ASSUME Inv, NEW p \in Requests, Finish(p)
    PROVE  LET w == WalletRow(Fan[p])
               l == LotRow(Fan[p])
           IN  /\ store[l] \in Nat /\ Amount[p] \in Nat /\ store[l] >= Amount[p]
               /\ store'[l] = store[l] - Amount[p]
               /\ store'[w] = [balance |-> store[l] - Amount[p], typed |-> store[l] - Amount[p]]
               /\ \A v \in Fans : v # Fan[p] =>
                     store'[WalletRow(v)] = store[WalletRow(v)] /\ store'[LotRow(v)] = store[LotRow(v)]
<1>1. /\ pc[p] = "commit"
      /\ store' = [r \in Rows |-> IF r \in DOMAIN draft[p] THEN draft[p][r] ELSE store[r]]
  BY DEF Finish, DB!Commit, DB!See
<1>2. Fan[p] \in Fans /\ Amount[p] \in Nat /\ Progress(p)
  BY RequestsAssumption DEF Inv
<1>3. \A v \in Fans : v # Fan[p] =>
          store'[WalletRow(v)] = store[WalletRow(v)] /\ store'[LotRow(v)] = store[LotRow(v)]
  BY <1>1, <1>2, RowFacts DEF Progress
<1>4. /\ store'[LotRow(Fan[p])] = store[LotRow(Fan[p])] - Amount[p]
      /\ store[LotRow(Fan[p])] >= Amount[p]
      /\ store'[WalletRow(Fan[p])] = [balance |-> store[LotRow(Fan[p])] - Amount[p],
                                      typed |-> store[LotRow(Fan[p])] - Amount[p]]
  BY <1>1, <1>2, RowFacts DEF Progress, After, Drawn
<1>5. store[LotRow(Fan[p])] \in Nat
  BY <1>2, BackedFacts DEF Inv
<1> QED
  BY <1>2, <1>3, <1>4, <1>5

\* A transaction that is past its debit belongs to another fan, whose rows the
\* commit leaves.
LEMMA FinishInv ==
    ASSUME SalesOnly, Inv, NEW p \in Requests, Finish(p) PROVE Inv'
<1> DEFINE w == WalletRow(Fan[p])
           l == LotRow(Fan[p])
<1>1. /\ pc[p] = "commit" /\ DB!Release(p) /\ UNCHANGED seen
      /\ store' = [r \in Rows |-> IF r \in DOMAIN draft[p] THEN draft[p][r] ELSE store[r]]
      /\ pc' = [pc EXCEPT ![p] = "done"] /\ pc'[p] = "done"
  BY DEF Finish, DB!Commit, DB!See, Inv
<1>2. /\ DOMAIN draft'[p] = {} /\ Locks'
      /\ \A t \in Requests : t # p => draft'[t] = draft[t]
  BY <1>1, ReleaseFacts DEF Inv
<1>3. Fan[p] \in Fans /\ Amount[p] \in Nat /\ Progress(p)
  BY RequestsAssumption DEF Inv
<1>4. \A v \in Fans : v # Fan[p] =>
          store'[WalletRow(v)] = store[WalletRow(v)] /\ store'[LotRow(v)] = store[LotRow(v)]
  BY FinishFacts
<1>5. Backed'
  <2>1. /\ store'[w] = [balance |-> store[l] - Amount[p], typed |-> store[l] - Amount[p]]
        /\ store'[l] = store[l] - Amount[p] /\ store[l] >= Amount[p] /\ store[l] \in Nat
    BY FinishFacts
  <2>2. store'[l] \in Nat
    BY <1>3, <2>1
  <2> QED BY <1>3, <1>4, <2>1, <2>2 DEF Inv, Backed
<1>6. ASSUME NEW q \in Requests, q # p PROVE Progress(q)'
  <2>1. draft'[q] = draft[q] /\ pc'[q] = pc[q] /\ seen'[q] = seen[q] /\ Progress(q)
    BY <1>1, <1>2, <1>6 DEF Inv
  <2>2. Fan[q] \in Fans
    BY RequestsAssumption
  <2>3. CASE pc[q] \in After
    <3>1. w \in DOMAIN draft[p] /\ WalletRow(Fan[q]) \in DOMAIN draft[q]
      BY <1>1, <1>3, <2>1, <2>3 DEF Progress, After
    <3>2. Fan[q] # Fan[p]
      BY <1>6, <3>1, Exclusive DEF Inv
    <3>3. /\ store'[WalletRow(Fan[q])] = store[WalletRow(Fan[q])]
          /\ store'[LotRow(Fan[q])] = store[LotRow(Fan[q])]
      BY <1>4, <2>2, <3>2
    <3> QED BY <2>1, <3>3 DEF Progress
  <2>4. CASE pc[q] \notin After
    BY <2>1, <2>4 DEF Progress, After, Drawn
  <2> QED BY <2>3, <2>4
<1>7. Progress(p)'
  BY <1>1, <1>2 DEF Progress, Before, After, Drawn, Ended
<1>8. pc' \in [Requests -> Before \cup After \cup Ended]
  BY <1>1 DEF Inv, Ended
<1> QED BY <1>1, <1>2, <1>5, <1>6, <1>7, <1>8 DEF Inv

-----------------------------------------------------------------------------
LEMMA InitInv == SalesOnly /\ Init => Inv
<1> SUFFICES ASSUME SalesOnly, Init PROVE Inv
  OBVIOUS
<1>1. pc = [p \in Requests |-> "check"]
  BY RequestsAssumption DEF SalesOnly, SaleKinds, Init
<1>2. /\ store = [r \in Rows |-> OpeningRow(r)]
      /\ draft = [t \in Requests |-> DB!NoRows] /\ holder = [r \in Rows |-> Nobody]
  BY DEF Init, DB!DBInit
<1>3. Locks
  BY <1>2, NobodyAssumption DEF Locks, DB!NoRows
<1>4. Backed
  <2>1. ASSUME NEW u \in Fans
        PROVE  /\ OpeningRow(LotRow(u)) = Opening[u]
               /\ OpeningRow(WalletRow(u)) = [balance |-> Opening[u], typed |-> Opening[u]]
    BY OpeningAssumption DEF OpeningRow, LotRow, WalletRow
  <2> QED BY <1>2, <2>1, RowFacts, OpeningAssumption DEF Backed
<1>5. ASSUME NEW p \in Requests PROVE Progress(p)
  BY <1>1, <1>2 DEF Progress, DB!NoRows, Before, After, Drawn, Ended
<1>6. seen \in [Requests -> Int]
  BY DEF Init
<1> QED BY <1>1, <1>3, <1>4, <1>5, <1>6 DEF Inv, Before

\* No statement of a sale leads to a statement of a refund.
LEMMA NextInv == SalesOnly /\ Inv /\ [Next]_vars => Inv'
<1> SUFFICES ASSUME SalesOnly, Inv, [Next]_vars PROVE Inv'
  OBVIOUS
<1>1. ASSUME NEW p \in Requests, SaleStep(p) PROVE Inv'
  BY <1>1, CheckInv, CheckStockInv, ReadFanInv, DebitInv, CreditInv, TakeStockInv,
     InsertEntryInv, ReadLotsInv, DrawLotsInv, UpdateTypedInv, InsertPurchaseInv
     DEF SaleStep
<1>2. ASSUME NEW p \in Requests, RefundStep(p) PROVE FALSE
  <2>1. pc[p] \in Before \cup After \cup Ended
    BY DEF Inv
  <2> QED BY <1>2, <2>1 DEF RefundStep, ReadOriginal, ReadDeductions, RestoreLots, RepayFan,
             DebitCreator, ReverseOriginal, InsertReceipt, Before, After, Ended
<1>3. ASSUME NEW p \in Requests, Finish(p) PROVE Inv'
  BY <1>3, FinishInv
<1>4. ASSUME NEW p \in Requests, Victim(p) \/ Timeout(p) PROVE Inv'
  BY <1>4, StopStep DEF Victim, Timeout, Ended
<1>5. CASE UNCHANGED vars
  BY <1>5 DEF vars, Inv, Locks, Backed, Progress
<1> QED BY <1>1, <1>2, <1>3, <1>4, <1>5 DEF Next, Step

\* While only sales run, the invariant holds throughout.
THEOREM Invariance == SalesOnly => (Spec => []Inv)
<1> SUFFICES ASSUME SalesOnly PROVE Spec => []Inv
  OBVIOUS
<1>1. Init => Inv
  BY InitInv
<1>2. Inv /\ [Next]_vars => Inv'
  BY NextInv
<1> QED BY <1>1, <1>2, PTL DEF Spec

\* Whatever the number of overlapping purchases, the committed balance of a
\* fan is what the fan's credit lots hold: drawdownCredits needs no lock of its
\* own because the debit before it has locked the wallet.
THEOREM SalesKeepLots == SalesOnly => (Spec => []LotsBackBalances)
<1> SUFFICES ASSUME SalesOnly PROVE Spec => []LotsBackBalances
  OBVIOUS
<1>1. Inv => LotsBackBalances
  BY BackedFacts DEF Inv, LotsBackBalances
<1> QED BY <1>1, Invariance, PTL

\* Whatever the number of overlapping purchases, no fan's committed balance goes
\* below zero, although the check of the balance holds no lock.
THEOREM SalesNeverOverdraw == SalesOnly => (Spec => []NeverOverdrawn)
<1> SUFFICES ASSUME SalesOnly PROVE Spec => []NeverOverdrawn
  OBVIOUS
<1>1. Inv => NeverOverdrawn
  BY BackedFacts DEF Inv, NeverOverdrawn
<1> QED BY <1>1, Invariance, PTL

-----------------------------------------------------------------------------
(* Sums *)

\* The element a fold takes out first
First(S) == CHOOSE x \in S : TRUE

\* it gives each set of D its sum, by taking out the first element.
SumsUp(it, f, D) ==
    it = [s \in D |-> IF s = {} THEN 0 ELSE f[First(s)] + it[s \ {First(s)}]]

Small(S, n) == {s \in SUBSET S : Cardinality(s) <= n}

LEMMA TotalIsChosen ==
    ASSUME NEW f, NEW S
    PROVE  Total(f, S) = (CHOOSE it : SumsUp(it, f, SUBSET S))[S]
BY DEF Total, MapThenSumSet, MapThenFoldSet, SumsUp, First

\* A set of numbers that is not empty has a least one: how induction is done here.
LEMMA Least ==
    ASSUME NEW T, T \subseteq Nat, T # {}
    PROVE  \E n \in T : \A m \in T : n <= m
<1>1. PICK n \in T : \A m \in T : <<m, n>> \notin OpToRel(<, Nat)
  BY WFMin, NatLessThanWellFounded
<1>2. \A m \in T : ~(m < n)
  BY <1>1 DEF OpToRel
<1> QED
  BY <1>2

LEMMA FirstIn == ASSUME NEW S, S # {} PROVE First(S) \in S
BY DEF First

LEMMA OneLess ==
    ASSUME NEW S, IsFiniteSet(S), NEW x \in S
    PROVE  /\ IsFiniteSet(S \ {x})
           /\ Cardinality(S) \in Nat /\ Cardinality(S \ {x}) \in Nat
           /\ Cardinality(S \ {x}) = Cardinality(S) - 1
BY FS_RemoveElement, FS_CardinalityType

\* The recursion has a solution on the small sets, by induction on their size ...
LEMMA SolvedOnSmall ==
    ASSUME NEW f, NEW S, IsFiniteSet(S), NEW n \in Nat
    PROVE  \E it : SumsUp(it, f, Small(S, n))
<1> DEFINE Bad == {m \in Nat : ~ \E it : SumsUp(it, f, Small(S, m))}
<1> SUFFICES ASSUME Bad # {} PROVE FALSE
  OBVIOUS
<1>1. PICK m \in Bad : \A k \in Bad : m <= k
  BY Least
<1>2. CASE m = 0
  <2>1. Small(S, 0) = {{}}
    <3>1. ASSUME NEW s \in SUBSET S PROVE Cardinality(s) <= 0 <=> s = {}
      BY FS_Subset, FS_EmptySet, FS_CardinalityType
    <3> QED
      BY <3>1, {} \in SUBSET S DEF Small
  <2>2. SumsUp([s \in {{}} |-> 0], f, {{}})
    BY DEF SumsUp
  <2> QED
    BY <1>1, <1>2, <2>1, <2>2
<1>3. CASE m # 0
  <2>1. m - 1 \in Nat /\ m - 1 \notin Bad
    BY <1>1, <1>3
  <2>2. PICK old : SumsUp(old, f, Small(S, m - 1))
    BY <2>1
  <2> DEFINE new == [s \in Small(S, m) |->
                        IF s = {} THEN 0 ELSE f[First(s)] + old[s \ {First(s)}]]
  <2>3. ASSUME NEW s \in Small(S, m), s # {} PROVE s \ {First(s)} \in Small(S, m - 1)
    <3>1. IsFiniteSet(s) /\ First(s) \in s
      BY <2>3, FirstIn, FS_Subset DEF Small
    <3> QED
      BY <3>1, OneLess, <1>1, Cardinality(s) <= m DEF Small
  <2>4. ASSUME NEW s \in Small(S, m - 1) PROVE s \in Small(S, m) /\ new[s] = old[s]
    <3>1. s \in Small(S, m)
      BY FS_CardinalityType, FS_Subset, <1>1 DEF Small
    <3> QED
      BY <3>1, <2>2 DEF SumsUp
  <2>5. SumsUp(new, f, Small(S, m))
    <3>1. ASSUME NEW s \in Small(S, m), s # {}
          PROVE  old[s \ {First(s)}] = new[s \ {First(s)}]
      BY <2>3, <2>4, <3>1
    <3>2. new = [s \in Small(S, m) |->
                    IF s = {} THEN 0 ELSE f[First(s)] + new[s \ {First(s)}]]
      BY <3>1
    <3> QED
      BY <3>2 DEF SumsUp
  <2> QED
    BY <1>1, <2>5
<1> QED
  BY <1>2, <1>3

\* ... and only one.
LEMMA OneSolution ==
    ASSUME NEW f, NEW S, IsFiniteSet(S), NEW a, NEW b,
           SumsUp(a, f, SUBSET S), NEW T, S \subseteq T, SumsUp(b, f, SUBSET T)
    PROVE  \A s \in SUBSET S : a[s] = b[s]
<1> DEFINE Bad == {m \in Nat : \E s \in SUBSET S : Cardinality(s) = m /\ a[s] # b[s]}
<1> SUFFICES ASSUME Bad # {} PROVE FALSE
  BY FS_Subset, FS_CardinalityType
<1>1. PICK m \in Bad : \A k \in Bad : m <= k
  BY Least
<1>2. PICK s \in SUBSET S : Cardinality(s) = m /\ a[s] # b[s]
  BY <1>1
<1>3. s # {}
  BY <1>2 DEF SumsUp
<1>4. First(s) \in s /\ IsFiniteSet(s)
  BY <1>3, FirstIn, FS_Subset
<1>5. a[s \ {First(s)}] = b[s \ {First(s)}]
  <2>1. Cardinality(s \ {First(s)}) \notin Bad
    BY <1>1, <1>2, <1>4, OneLess
  <2> QED
    BY <2>1, <1>4, OneLess
<1> QED
  BY ZenonT(30), <1>2, <1>3, <1>5 DEF SumsUp

LEMMA TotalStep ==
    ASSUME NEW f, NEW S, IsFiniteSet(S)
    PROVE  Total(f, S) = IF S = {} THEN 0 ELSE f[First(S)] + Total(f, S \ {First(S)})
<1>1. ASSUME NEW T \in SUBSET S
      PROVE  \E it : SumsUp(it, f, SUBSET T) /\ Total(f, T) = it[T]
  <2>1. IsFiniteSet(T) /\ Small(T, Cardinality(T)) = SUBSET T
    BY FS_Subset DEF Small
  <2>2. \E it : SumsUp(it, f, SUBSET T)
    <3>1. Cardinality(T) \in Nat
      BY <2>1, FS_CardinalityType
    <3>2. \E it : SumsUp(it, f, Small(T, Cardinality(T)))
      BY <2>1, <3>1, SolvedOnSmall
    <3> QED
      BY <2>1, <3>2
  <2> QED
    BY <2>2, TotalIsChosen
<1>2. PICK all : SumsUp(all, f, SUBSET S) /\ Total(f, S) = all[S]
  BY <1>1
<1>3. ASSUME NEW T, T \subseteq S PROVE Total(f, T) = all[T]
  <2>1. PICK it : SumsUp(it, f, SUBSET T) /\ Total(f, T) = it[T]
    BY <1>1, <1>3
  <2>2. IsFiniteSet(T)
    BY <1>3, FS_Subset
  <2>3. \A s \in SUBSET T : it[s] = all[s]
    <3>1. SumsUp(it, f, SUBSET T) /\ SumsUp(all, f, SUBSET S)
      BY <1>2, <2>1
    <3>2. \A a, b, U : SumsUp(a, f, SUBSET T) /\ T \subseteq U /\ SumsUp(b, f, SUBSET U)
               => \A s \in SUBSET T : a[s] = b[s]
      BY SMTT(30), <2>2, OneSolution
    <3> QED
      BY <3>1, <3>2, <1>3
  <2> QED
    BY <2>1, <2>3
<1>4. CASE S # {}
  BY <1>2, <1>3, <1>4, S \ {First(S)} \subseteq S DEF SumsUp
<1> QED
  BY <1>2, <1>4 DEF SumsUp

LEMMA TotalOfNone == ASSUME NEW f PROVE Total(f, {}) = 0
BY TotalStep, FS_EmptySet

LEMMA TotalIsInt ==
    ASSUME NEW f, NEW S, IsFiniteSet(S), \A x \in S : f[x] \in Int
    PROVE  Total(f, S) \in Int
<1> DEFINE Bad == {m \in Nat : \E s \in SUBSET S : Cardinality(s) = m /\ Total(f, s) \notin Int}
<1> SUFFICES ASSUME Bad # {} PROVE FALSE
  BY FS_CardinalityType
<1>1. PICK m \in Bad : \A k \in Bad : m <= k
  BY Least
<1>2. PICK s \in SUBSET S : Cardinality(s) = m /\ Total(f, s) \notin Int
  BY <1>1
<1>3. s # {} /\ IsFiniteSet(s)
  <2>1. Total(f, {}) \in Int
    BY TotalOfNone
  <2> QED
    BY <1>2, <2>1, FS_Subset
<1>4. First(s) \in s
  BY <1>3, FirstIn
<1>5. Total(f, s \ {First(s)}) \in Int
  <2>1. Cardinality(s \ {First(s)}) \notin Bad
    BY <1>1, <1>2, <1>3, <1>4, OneLess
  <2> QED
    BY <2>1, <1>3, <1>4, OneLess
<1>6. f[First(s)] \in Int /\ Total(f, s) = f[First(s)] + Total(f, s \ {First(s)})
  BY <1>3, <1>4, TotalStep
<1> QED
  BY <1>2, <1>5, <1>6

\* Whichever element is taken out of a sum or put in
LEMMA TotalWithout ==
    ASSUME NEW f, NEW S, IsFiniteSet(S), \A x \in S : f[x] \in Int, NEW x \in S
    PROVE  Total(f, S) = f[x] + Total(f, S \ {x})
<1> DEFINE Bad == {m \in Nat : \E s \in SUBSET S : /\ Cardinality(s) = m
                     /\ \E y \in s : Total(f, s) # f[y] + Total(f, s \ {y})}
<1> SUFFICES ASSUME Bad # {} PROVE FALSE
  BY FS_CardinalityType
<1>1. PICK m \in Bad : \A k \in Bad : m <= k
  BY Least
<1>2. PICK s \in SUBSET S, y \in S :
        y \in s /\ Cardinality(s) = m /\ Total(f, s) # f[y] + Total(f, s \ {y})
  BY <1>1
<1> DEFINE c == First(s)
<1>3. s # {} /\ IsFiniteSet(s)
  BY <1>2, FS_Subset
<1>4. c \in s
  BY <1>3, FirstIn
<1>5. Total(f, s) = f[c] + Total(f, s \ {c})
  BY <1>3, TotalStep
<1> HIDE DEF c
<1>6. c # y
  BY <1>2, <1>5
<1>7. ASSUME NEW z \in s, NEW w \in s, z # w
      PROVE  Total(f, s \ {z}) = f[w] + Total(f, s \ {z, w})
  <2>1. Cardinality(s \ {z}) \notin Bad /\ Cardinality(s \ {z}) \in Nat
    BY <1>1, <1>2, <1>3, OneLess
  <2>2. s \ {z} \in SUBSET S /\ w \in s \ {z} /\ (s \ {z}) \ {w} = s \ {z, w}
    BY <1>7
  <2> DEFINE t == s \ {z}
  <2>3. t \in SUBSET S /\ w \in t /\ Cardinality(t) \in Nat /\ Cardinality(t) \notin Bad
    BY <2>1, <2>2
  <2>4. Total(f, t) = f[w] + Total(f, t \ {w})
    <3> HIDE DEF t
    <3> QED
      BY <2>3
  <2> QED
    BY <2>2, <2>4
<1>8. Total(f, s \ {c}) = f[y] + Total(f, s \ {c, y}) /\ Total(f, s \ {y}) = f[c] + Total(f, s \ {c, y})
  BY <1>2, <1>4, <1>6, <1>7, s \ {c, y} = s \ {y, c}
<1>9. Total(f, s \ {c, y}) \in Int /\ f[c] \in Int /\ f[y] \in Int
  BY <1>2, <1>4, TotalIsInt, FS_Subset
<1> QED
  BY <1>2, <1>5, <1>8, <1>9

LEMMA TotalWith ==
    ASSUME NEW f, NEW S, IsFiniteSet(S), NEW x, x \notin S,
           \A y \in S \cup {x} : f[y] \in Int
    PROVE  Total(f, S \cup {x}) = Total(f, S) + f[x]
<1>1. IsFiniteSet(S \cup {x}) /\ (S \cup {x}) \ {x} = S
  BY FS_AddElement
<1>2. Total(f, S) \in Int /\ f[x] \in Int
  BY TotalIsInt
<1>3. Total(f, S \cup {x}) = f[x] + Total(f, S)
  BY <1>1, TotalWithout, x \in S \cup {x}
<1> QED
  BY <1>2, <1>3

-----------------------------------------------------------------------------
(* Sales and refunds together *)

Owners == Fans \cup {Creator}

Wallet == [balance : Int, typed : Int]

InSale == {"check", "product", "fan", "debit", "credit", "stock", "entry", "lots", "draw",
           "typed", "own"}
InRefund == {"original", "deductions", "restore", "repay", "clawback", "reverse", "receipt"}

\* The statements after that on the fan's wallet, and after that on the creator's
FanMoved == {"credit", "stock", "entry", "lots", "draw", "typed", "own",
             "clawback", "reverse", "receipt", "commit"}
CreatorMoved == FanMoved \ {"credit", "clawback"}

\* What request p moves on u's wallet, all in all
Move(p, u) ==
    LET credits == IF u = Creator THEN -Net(p) ELSE Amount[p]
    IN  IF Kind[p] = "REFUND" THEN credits ELSE -credits

Moves(p, u) == (u = Fan[p] /\ pc[p] \in FanMoved) \/ (u = Creator /\ pc[p] \in CreatorMoved)

\* What a request has written of a wallet is the committed balance with its move.
Written(p) ==
    /\ pc[p] \in Ended => DOMAIN draft[p] = {}
    /\ \A u \in Owners :
          /\ WalletRow(u) \in DOMAIN draft[p] <=> Moves(p, u)
          /\ Moves(p, u) =>
                /\ draft[p][WalletRow(u)] \in Wallet
                /\ draft[p][WalletRow(u)].balance = store[WalletRow(u)].balance + Move(p, u)
    /\ \A u \in Fans : LotRow(u) \in DOMAIN draft[p] => draft[p][LotRow(u)] \in Int

Labelled ==
    /\ pc \in [Requests -> Statements \cup Ended]
    /\ seen \in [Requests -> Int]
    /\ \A p \in Requests :
          /\ pc[p] \in InSale => Kind[p] \in SaleKinds
          /\ pc[p] \in InRefund => Kind[p] = "REFUND"

StoreTyped ==
    /\ \A u \in Owners : store[WalletRow(u)] \in Wallet
    /\ \A u \in Fans : store[LotRow(u)] \in Int

WorkInv ==
    /\ Labelled /\ Locks /\ StoreTyped
    /\ \A p \in Requests : Written(p)
    /\ BalancesAreDoneWork

LEMMA RequestFacts ==
    ASSUME NEW p \in Requests
    PROVE  /\ Fan[p] \in Fans /\ Fan[p] \in Owners /\ Fan[p] # Creator /\ Creator \in Owners
           /\ Amount[p] \in Int /\ Net(p) \in Int
           /\ Move(p, Fan[p]) = IF Kind[p] = "REFUND" THEN Amount[p] ELSE -Amount[p]
           /\ Move(p, Creator) = IF Kind[p] = "REFUND" THEN -Net(p) ELSE Net(p)
           /\ Key[p] \in Keys
<1>1. Amount[p] \in Nat /\ Fan[p] \in Fans /\ Fan[p] # Creator /\ Key[p] \in Keys
  BY RequestsAssumption, OpeningAssumption
<1>2. (Amount[p] * 20) \div 100 \in Int
  BY <1>1
<1>3. Net(p) \in Int
  BY <1>1, <1>2 DEF Net, PlatformFee
<1>4. -(-Net(p)) = Net(p)
  BY <1>3
<1> QED
  BY <1>1, <1>3, <1>4 DEF Owners, Move

LEMMA WalletRowFacts ==
    /\ \A u \in Owners : WalletRow(u) \in Rows
    /\ \A u, v \in Owners : u # v => WalletRow(u) # WalletRow(v)
    /\ \A u \in Owners, v \in Fans : WalletRow(u) # LotRow(v)
    /\ \A p \in Requests : ReceiptRow(p) \in Rows /\ LotRow(Fan[p]) \in Rows
    /\ \A u \in Owners :
          /\ \A k \in Keys : WalletRow(u) # EntryRow(k)
          /\ \A v \in Fans : WalletRow(u) # OwnedRow(v)
          /\ \A p \in Requests : WalletRow(u) # ReceiptRow(p)
          /\ WalletRow(u) # StockRow
    /\ \A u \in Fans :
          /\ \A k \in Keys : LotRow(u) # EntryRow(k)
          /\ \A v \in Fans : LotRow(u) # OwnedRow(v)
          /\ \A p \in Requests : LotRow(u) # ReceiptRow(p)
          /\ LotRow(u) # StockRow
<1>1. \A p \in Requests : Fan[p] \in Fans
  BY RequestsAssumption
<1> QED
  BY <1>1, OpeningAssumption
  DEF Owners, WalletRow, LotRow, EntryRow, OwnedRow, ReceiptRow, StockRow, Rows

\* A step of p that neither commits nor ends a request well keeps the invariant
\* if p's own writes are as they should be.
LEMMA OwnWork ==
    ASSUME WorkInv, NEW p \in Requests, pc[p] \notin Ended, UNCHANGED store, Locks',
           \A q \in Requests \ {p} : draft'[q] = draft[q],
           NEW l \in (Statements \cup Ended) \ {"done"}, pc' = [pc EXCEPT ![p] = l],
           seen' \in [Requests -> Int],
           l \in InSale => Kind[p] \in SaleKinds, l \in InRefund => Kind[p] = "REFUND",
           Written(p)'
    PROVE  WorkInv'
<1>1. /\ pc' \in [Requests -> Statements \cup Ended]
      /\ pc'[p] = l /\ \A q \in Requests \ {p} : pc'[q] = pc[q]
  BY DEF WorkInv, Labelled
<1>2. Labelled'
  BY <1>1 DEF WorkInv, Labelled
<1>3. StoreTyped'
  BY DEF WorkInv, StoreTyped
<1>4. ASSUME NEW q \in Requests, q # p PROVE Written(q)'
  <2>1. draft'[q] = draft[q] /\ pc'[q] = pc[q] /\ Written(q)
    BY <1>1, <1>4 DEF WorkInv
  <2> QED
    BY <2>1 DEF Written, Moves
<1>5. ASSUME NEW kinds PROVE Done(kinds)' = Done(kinds)
  BY <1>1 DEF Done, Ended
<1>6. BalancesAreDoneWork'
  BY <1>5 DEF WorkInv, BalancesAreDoneWork
<1> QED
  BY <1>2, <1>3, <1>4, <1>6 DEF WorkInv

LEMMA StopWork ==
    ASSUME WorkInv, NEW p \in Requests, pc[p] \notin Ended, NEW o \in {"replayed", "failed"}, Stop(p, o)
    PROVE  WorkInv'
<1>1. /\ DB!Release(p) /\ UNCHANGED <<store, seen>> /\ pc' = [pc EXCEPT ![p] = o] /\ pc'[p] = o
  BY DEF Stop, DB!Rollback, WorkInv, Labelled
<1>2. /\ DOMAIN draft'[p] = {} /\ Locks'
      /\ \A t \in Requests : t # p => draft'[t] = draft[t]
  BY <1>1, ReleaseFacts DEF WorkInv
<1>3. ~Moves(p, Fan[p])' /\ \A u \in Owners : ~Moves(p, u)'
  BY <1>1 DEF Moves, FanMoved, CreatorMoved
<1>4. Written(p)'
  BY <1>2, <1>3 DEF Written
<1>5. seen' \in [Requests -> Int] /\ o \in (Statements \cup Ended) \ {"done"} /\ o \notin InSale \cup InRefund
  BY <1>1 DEF WorkInv, Labelled, Ended, InSale, InRefund
<1> QED
  BY <1>1, <1>2, <1>4, <1>5, OwnWork

\* From one statement to the next, on the same side of the two wallets' updates
SameSide(l, m) ==
    /\ l \in Statements /\ m \in Statements
    /\ l \in FanMoved <=> m \in FanMoved
    /\ l \in CreatorMoved <=> m \in CreatorMoved
    /\ l \in InSale => m \in InSale \cup {"commit"}
    /\ l \in InRefund => m \in InRefund \cup {"commit"}
    /\ l # "commit"

LEMMA SideFacts ==
    ASSUME NEW l, NEW m, SameSide(l, m)
    PROVE  /\ l \in InSale \cup InRefund /\ l \notin Ended /\ m \notin Ended
           /\ m \in (Statements \cup Ended) \ {"done"}
           /\ m \in InSale => l \in InSale
           /\ m \in InRefund => l \in InRefund
BY DEF SameSide, Statements, InSale, InRefund, Ended

LEMMA ReadWork ==
    ASSUME WorkInv, NEW p \in Requests, NEW l, SameSide(pc[p], l), Go(p, l),
           UNCHANGED <<store, draft, holder>>, seen' \in [Requests -> Int]
    PROVE  WorkInv'
<1>1. pc' = [pc EXCEPT ![p] = l] /\ pc'[p] = l
  BY DEF Go, WorkInv, Labelled
<1>2. Locks'
  BY DEF WorkInv, Locks
<1>3. \A u : Moves(p, u)' <=> Moves(p, u)
  BY <1>1 DEF Moves, SameSide
<1>4. Written(p)'
  BY <1>1, <1>3, SideFacts DEF WorkInv, Written
<1>5. (l \in InSale => Kind[p] \in SaleKinds) /\ (l \in InRefund => Kind[p] = "REFUND")
  BY SideFacts DEF WorkInv, Labelled
<1> QED
  BY <1>1, <1>2, <1>4, <1>5, SideFacts, OwnWork

\* A write of a row that is not a wallet
LEMMA RowWork ==
    ASSUME WorkInv, NEW p \in Requests, NEW r \in Rows, NEW v, NEW l, SameSide(pc[p], l),
           \A u \in Owners : r # WalletRow(u),
           \A u \in Fans : r = LotRow(u) => v \in Int,
           Update(p, r, v, l)
    PROVE  WorkInv'
<1>1. DB!Write(p, r, v) /\ UNCHANGED seen /\ pc' = [pc EXCEPT ![p] = l] /\ pc'[p] = l
  BY DEF Update, Go, WorkInv, Labelled
<1>2. /\ store' = store /\ DOMAIN draft'[p] = DOMAIN draft[p] \cup {r} /\ draft'[p][r] = v /\ Locks'
      /\ \A q \in DOMAIN draft[p] : q # r => draft'[p][q] = draft[p][q]
      /\ \A t \in Requests : t # p => draft'[t] = draft[t]
  BY <1>1, WriteFacts DEF WorkInv
<1>3. \A u : Moves(p, u)' <=> Moves(p, u)
  BY <1>1 DEF Moves, SameSide
<1>4. Written(p)'
  <2>1. Written(p)
    BY DEF WorkInv
  <2>2. ASSUME NEW u \in Owners
        PROVE  /\ WalletRow(u) \in DOMAIN draft'[p] <=> WalletRow(u) \in DOMAIN draft[p]
               /\ WalletRow(u) \in DOMAIN draft[p] => draft'[p][WalletRow(u)] = draft[p][WalletRow(u)]
    BY <1>2
  <2>3. ASSUME NEW u \in Fans, LotRow(u) \in DOMAIN draft'[p] PROVE draft'[p][LotRow(u)] \in Int
    BY <1>2, <2>1, <2>3 DEF Written
  <2>4. pc'[p] \notin Ended
    BY <1>1, SideFacts
  <2> QED
    BY <1>2, <1>3, <2>1, <2>2, <2>3, <2>4 DEF Written
<1>5. (l \in InSale => Kind[p] \in SaleKinds) /\ (l \in InRefund => Kind[p] = "REFUND")
  BY SideFacts DEF WorkInv, Labelled
<1>6. seen' \in [Requests -> Int]
  BY <1>1 DEF WorkInv, Labelled
<1> QED
  BY <1>1, <1>2, <1>4, <1>5, <1>6, SideFacts, OwnWork

\* An increment of a wallet: the whole move at once, or a typed balance only
LEMMA WalletWork ==
    ASSUME WorkInv, NEW p \in Requests, NEW u \in {Fan[p], Creator}, NEW b \in Int, NEW t \in Int,
           NEW l \in Statements, pc[p] \in Statements \ {"commit"},
           pc[p] \in InSale => l \in InSale \cup {"commit"},
           pc[p] \in InRefund => l \in InRefund \cup {"commit"},
           \A v \in {Fan[p], Creator} \ {u} : Moves(p, v)' <=> Moves(p, v),
           Moves(p, u)', b = IF Moves(p, u) THEN 0 ELSE Move(p, u),
           Update(p, WalletRow(u), Moved(p, u, b, t), l)
    PROVE  WorkInv'
<1> DEFINE w == WalletRow(u)
           v == Moved(p, u, b, t)
<1>1. DB!Write(p, w, v) /\ UNCHANGED seen /\ pc' = [pc EXCEPT ![p] = l] /\ pc'[p] = l
  BY DEF Update, Go, WorkInv, Labelled
<1>2. u \in Owners /\ w \in Rows /\ Move(p, u) \in Int
  BY RequestFacts, WalletRowFacts
<1>3. /\ store' = store /\ DOMAIN draft'[p] = DOMAIN draft[p] \cup {w} /\ draft'[p][w] = v /\ Locks'
      /\ \A q \in DOMAIN draft[p] : q # w => draft'[p][q] = draft[p][q]
      /\ \A q \in Requests : q # p => draft'[q] = draft[q]
  BY <1>1, <1>2, WriteFacts DEF WorkInv
<1>4. Written(p) /\ store[w] \in Wallet
  BY <1>2 DEF WorkInv, StoreTyped
<1>5. /\ See(p, w) \in Wallet
      /\ See(p, w).balance = store[w].balance + (IF Moves(p, u) THEN Move(p, u) ELSE 0)
  <2>1. CASE Moves(p, u)
    <3>1. See(p, w) = draft[p][w]
      BY <1>2, <1>4, <2>1 DEF Written, See, DB!See
    <3> QED
      BY <1>2, <1>4, <2>1, <3>1 DEF Written
  <2>2. CASE ~Moves(p, u)
    <3>1. See(p, w) = store[w]
      BY <1>2, <1>4, <2>2 DEF Written, See, DB!See
    <3> QED
      BY <1>4, <2>2, <3>1 DEF Wallet
  <2> QED
    BY <2>1, <2>2
<1>6. v \in Wallet /\ v.balance = store[w].balance + Move(p, u)
  <2>1. See(p, w).balance \in Int /\ See(p, w).typed \in Int /\ store[w].balance \in Int
    BY <1>4, <1>5 DEF Wallet
  <2>2. v = [balance |-> See(p, w).balance + b, typed |-> See(p, w).typed + t]
    BY DEF Moved
  <2> QED
    BY <1>2, <1>5, <2>1, <2>2 DEF Wallet
<1>7. Written(p)'
  <2>1. pc'[p] \notin Ended
    BY <1>1 DEF Statements, Ended
  <2>2. ASSUME NEW o \in Owners, o # u
        PROVE  /\ WalletRow(o) # w /\ Moves(p, o)' <=> Moves(p, o)
    <3>1. WalletRow(o) # w
      BY <1>2, <2>2, WalletRowFacts
    <3>2. CASE o \in {Fan[p], Creator}
      BY <2>2, <3>1, <3>2
    <3>3. CASE o \notin {Fan[p], Creator}
      BY <3>1, <3>3 DEF Moves
    <3> QED
      BY <3>2, <3>3
  <2>3. ASSUME NEW o \in Owners
        PROVE  /\ WalletRow(o) \in DOMAIN draft'[p] <=> Moves(p, o)'
               /\ Moves(p, o)' =>
                    /\ draft'[p][WalletRow(o)] \in Wallet
                    /\ draft'[p][WalletRow(o)].balance = store'[WalletRow(o)].balance + Move(p, o)
    <3>1. CASE o = u
      BY <1>3, <1>6, <3>1
    <3>2. CASE o # u
      <4>1. /\ WalletRow(o) \in DOMAIN draft'[p] <=> WalletRow(o) \in DOMAIN draft[p]
            /\ WalletRow(o) \in DOMAIN draft[p] => draft'[p][WalletRow(o)] = draft[p][WalletRow(o)]
        <5>1. WalletRow(o) # w
          BY <1>2, <3>2, WalletRowFacts
        <5> HIDE DEF w, v
        <5> QED
          BY <1>3, <5>1
      <4>2. /\ WalletRow(o) \in DOMAIN draft[p] <=> Moves(p, o)
            /\ Moves(p, o) =>
                 /\ draft[p][WalletRow(o)] \in Wallet
                 /\ draft[p][WalletRow(o)].balance = store[WalletRow(o)].balance + Move(p, o)
        BY <1>4 DEF Written
      <4> QED
        BY <1>3, <2>2, <3>2, <4>1, <4>2
    <3> QED
      BY <3>1, <3>2
  <2>4. ASSUME NEW o \in Fans, LotRow(o) \in DOMAIN draft'[p] PROVE draft'[p][LotRow(o)] \in Int
    BY <1>2, <1>3, <1>4, <2>4, WalletRowFacts DEF Written
  <2> QED
    BY <2>1, <2>3, <2>4 DEF Written
<1>8. /\ (l \in InSale => Kind[p] \in SaleKinds) /\ (l \in InRefund => Kind[p] = "REFUND")
      /\ pc[p] \notin Ended /\ l \in (Statements \cup Ended) \ {"done"}
  <2>1. pc[p] \in InSale \cup InRefund
    BY DEF Statements, InSale, InRefund
  <2>2. pc[p] \notin Ended /\ l \in (Statements \cup Ended) \ {"done"}
    BY DEF Statements, Ended
  <2>3. \A x : x \in InSale => x \notin InRefund \cup {"commit"}
    BY DEF InSale, InRefund
  <2>4. \A x : x \in InRefund => x \notin InSale \cup {"commit"}
    BY DEF InSale, InRefund
  <2>5. (l \in InSale => pc[p] \in InSale) /\ (l \in InRefund => pc[p] \in InRefund)
    BY <2>1, <2>3, <2>4
  <2> QED
    BY <2>2, <2>5 DEF WorkInv, Labelled
<1>9. seen' \in [Requests -> Int]
  BY <1>1 DEF WorkInv, Labelled
<1> QED
  BY <1>1, <1>3, <1>7, <1>8, <1>9, OwnWork

\* The statements of a sale and of a refund
LEMMA ReadsWork ==
    ASSUME WorkInv, NEW p \in Requests,
           Check(p) \/ CheckStock(p) \/ ReadFan(p) \/ ReadLots(p) \/ ReadOriginal(p) \/ ReadDeductions(p)
    PROVE  WorkInv'
<1>1. /\ pc[p] \in {"check", "product", "fan", "lots", "original", "deductions"}
      /\ \/ \E o \in {"replayed", "failed"} : Stop(p, o)
         \/ /\ UNCHANGED <<store, draft, holder>>
            /\ \E l \in {"product", "fan", "debit", "draw", "deductions", "restore"} :
                  SameSide(pc[p], l) /\ Go(p, l)
            /\ seen' = seen \/ seen' = [seen EXCEPT ![p] = See(p, LotRow(Fan[p]))]
  <2>1. CASE Check(p)
    BY <2>1 DEF Check, SameSide, Statements, FanMoved, CreatorMoved, InSale, InRefund
  <2>2. CASE CheckStock(p)
    BY <2>2 DEF CheckStock, SameSide, Statements, FanMoved, CreatorMoved, InSale, InRefund
  <2>3. CASE ReadFan(p)
    BY <2>3 DEF ReadFan, SameSide, Statements, FanMoved, CreatorMoved, InSale, InRefund
  <2>4. CASE ReadLots(p)
    BY <2>4 DEF ReadLots, SameSide, Statements, FanMoved, CreatorMoved, InSale, InRefund
  <2>5. CASE ReadOriginal(p)
    BY <2>5 DEF ReadOriginal, SameSide, Statements, FanMoved, CreatorMoved, InSale, InRefund
  <2>6. CASE ReadDeductions(p)
    BY <2>6 DEF ReadDeductions, SameSide, Statements, FanMoved, CreatorMoved, InSale, InRefund
  <2> QED
    BY <2>1, <2>2, <2>3, <2>4, <2>5, <2>6
<1>2. See(p, LotRow(Fan[p])) \in Int
  BY RequestFacts DEF WorkInv, Written, StoreTyped, See, DB!See
<1>3. seen \in [Requests -> Int] /\ pc[p] \notin Ended
  BY <1>1 DEF WorkInv, Labelled, Ended
<1> QED
  BY <1>1, <1>2, <1>3, StopWork, ReadWork

LEMMA RowsWork ==
    ASSUME WorkInv, NEW p \in Requests,
           \/ TakeStock(p) \/ InsertEntry(p) \/ DrawLots(p) \/ InsertPurchase(p)
           \/ RestoreLots(p) \/ ReverseOriginal(p) \/ InsertReceipt(p)
    PROVE  WorkInv'
<1>1. ASSUME NEW r \in {StockRow, EntryRow(Key[p]), OwnedRow(Fan[p]), ReceiptRow(p)}, NEW v, NEW l,
             SameSide(pc[p], l), Update(p, r, v, l)
      PROVE  WorkInv'
  <2>1. /\ r \in Rows /\ \A u \in Owners : r # WalletRow(u)
        /\ \A u \in Fans : r # LotRow(u)
    BY RequestFacts, RowFacts, WalletRowFacts
  <2> QED
    BY <1>1, <2>1, RowWork
<1>2. ASSUME NEW v \in Int, NEW l, SameSide(pc[p], l), Update(p, LotRow(Fan[p]), v, l)
      PROVE  WorkInv'
  <2>1. LotRow(Fan[p]) \in Rows /\ \A u \in Owners : LotRow(Fan[p]) # WalletRow(u)
    BY RequestFacts, WalletRowFacts
  <2> QED
    BY <1>2, <2>1, RowWork
<1>3. seen[p] - Amount[p] \in Int /\ seen[p] + Amount[p] \in Int
  BY RequestFacts DEF WorkInv, Labelled
<1> USE DEF SameSide, Statements, FanMoved, CreatorMoved, InSale, InRefund
<1>4. CASE TakeStock(p)
  <2>1. SameSide(pc[p], "entry")
    BY <1>4 DEF TakeStock
  <2> QED
    BY <1>1, <1>4, <2>1 DEF TakeStock
<1>5. CASE InsertEntry(p)
  <2>1. SameSide(pc[p], "lots") /\ pc[p] \notin Ended
    BY <1>5 DEF InsertEntry, Ended
  <2>2. Stop(p, "failed") \/ Update(p, EntryRow(Key[p]), "COMPLETED", "lots")
    BY <1>5 DEF InsertEntry
  <2> HIDE DEF SameSide
  <2> QED
    BY <1>1, <2>1, <2>2, StopWork
<1>6. CASE DrawLots(p)
  <2>1. SameSide(pc[p], "typed")
    BY <1>6 DEF DrawLots
  <2> QED
    BY <1>2, <1>3, <1>6, <2>1 DEF DrawLots
<1>7. CASE InsertPurchase(p)
  <2>1. SameSide(pc[p], "commit") /\ pc[p] \notin Ended
    BY <1>7 DEF InsertPurchase, Ended
  <2>2. Stop(p, "failed") \/ Update(p, OwnedRow(Fan[p]), TRUE, "commit")
    BY <1>7 DEF InsertPurchase
  <2> HIDE DEF SameSide
  <2> QED
    BY <1>1, <2>1, <2>2, StopWork
<1>8. CASE RestoreLots(p)
  <2>1. SameSide(pc[p], "repay")
    BY <1>8 DEF RestoreLots
  <2> QED
    BY <1>2, <1>3, <1>8, <2>1 DEF RestoreLots
<1>9. CASE ReverseOriginal(p)
  <2>1. SameSide(pc[p], "receipt")
    BY <1>9 DEF ReverseOriginal
  <2> QED
    BY <1>1, <1>9, <2>1 DEF ReverseOriginal
<1>10. CASE InsertReceipt(p)
  <2>1. SameSide(pc[p], "commit")
    BY <1>10 DEF InsertReceipt
  <2> QED
    BY <1>1, <1>10, <2>1 DEF InsertReceipt
<1> QED
  BY <1>4, <1>5, <1>6, <1>7, <1>8, <1>9, <1>10

LEMMA WalletsWork ==
    ASSUME WorkInv, NEW p \in Requests,
           Debit(p) \/ Credit(p) \/ UpdateTyped(p) \/ RepayFan(p) \/ DebitCreator(p)
    PROVE  WorkInv'
<1> USE RequestFacts DEF Statements, FanMoved, CreatorMoved, InSale, InRefund
<1>1. \A l : pc' = [pc EXCEPT ![p] = l] => pc'[p] = l
  BY DEF WorkInv, Labelled
<1>2. (pc[p] \in InSale => Kind[p] # "REFUND") /\ (pc[p] \in InRefund => Kind[p] = "REFUND")
  BY DEF WorkInv, Labelled, SaleKinds
<1>3. CASE Debit(p)
  <2>0. -Amount[p] \in Int
    OBVIOUS
  <2>1. /\ pc[p] = "debit" /\ pc'[p] = "credit"
        /\ Update(p, WalletRow(Fan[p]), Moved(p, Fan[p], -Amount[p], 0), "credit")
    BY <1>1, <1>3 DEF Debit, Update, Go
  <2>2. /\ ~Moves(p, Fan[p]) /\ Moves(p, Fan[p])' /\ ~Moves(p, Creator) /\ ~Moves(p, Creator)'
        /\ Move(p, Fan[p]) = -Amount[p]
    BY <1>2, <2>1 DEF Moves
  <2> QED
    BY <2>0, <2>1, <2>2, WalletWork
<1>4. CASE Credit(p)
  <2>1. PICK l \in {"stock", "entry"} :
          /\ pc[p] = "credit" /\ pc'[p] = l
          /\ Update(p, WalletRow(Creator), Moved(p, Creator, Net(p), 0), l)
    BY <1>1, <1>4 DEF Credit, Update, Go
  <2>2. /\ Moves(p, Fan[p]) /\ Moves(p, Fan[p])' /\ ~Moves(p, Creator) /\ Moves(p, Creator)'
        /\ Move(p, Creator) = Net(p)
    BY <1>2, <2>1 DEF Moves
  <2> QED
    BY <2>1, <2>2, WalletWork
<1>5. CASE UpdateTyped(p)
  <2>0. -Amount[p] \in Int
    OBVIOUS
  <2>1. PICK l \in {"own", "commit"} :
          /\ pc[p] = "typed" /\ pc'[p] = l
          /\ Update(p, WalletRow(Fan[p]), Moved(p, Fan[p], 0, -Amount[p]), l)
    BY <1>1, <1>5 DEF UpdateTyped, Update, Go
  <2>2. Moves(p, Fan[p]) /\ Moves(p, Fan[p])' /\ Moves(p, Creator) /\ Moves(p, Creator)'
    BY <2>1 DEF Moves
  <2> QED
    BY <2>0, <2>1, <2>2, WalletWork
<1>6. CASE RepayFan(p)
  <2>1. /\ pc[p] = "repay" /\ pc'[p] = "clawback"
        /\ Update(p, WalletRow(Fan[p]), Moved(p, Fan[p], Amount[p], Amount[p]), "clawback")
    BY <1>1, <1>6 DEF RepayFan, Update, Go
  <2>2. /\ ~Moves(p, Fan[p]) /\ Moves(p, Fan[p])' /\ ~Moves(p, Creator) /\ ~Moves(p, Creator)'
        /\ Move(p, Fan[p]) = Amount[p]
    BY <1>2, <2>1 DEF Moves
  <2> QED
    BY <2>1, <2>2, WalletWork
<1>7. CASE DebitCreator(p)
  <2>0. -Net(p) \in Int
    OBVIOUS
  <2>1. /\ pc[p] = "clawback" /\ pc'[p] = "reverse"
        /\ Update(p, WalletRow(Creator), Moved(p, Creator, -Net(p), 0), "reverse")
    BY <1>1, <1>7 DEF DebitCreator, Update, Go
  <2>2. /\ Moves(p, Fan[p]) /\ Moves(p, Fan[p])' /\ ~Moves(p, Creator) /\ Moves(p, Creator)'
        /\ Move(p, Creator) = -Net(p)
    BY <1>2, <2>1 DEF Moves
  <2> QED
    BY <2>0, <2>1, <2>2, WalletWork
<1> QED
  BY <1>3, <1>4, <1>5, <1>6, <1>7

\* The commit counts the request, and publishes what it has moved.
DoneFor(u, kinds) == {q \in Done(kinds) : Fan[q] = u}

LEMMA FinishCounts ==
    ASSUME WorkInv, NEW p \in Requests, Finish(p), NEW kinds
    PROVE  /\ NetOf(Done(kinds)) \in Int
           /\ NetOf(Done(kinds)') = NetOf(Done(kinds)) + (IF Kind[p] \in kinds THEN Net(p) ELSE 0)
           /\ \A u \in Fans :
                /\ Credits(DoneFor(u, kinds)) \in Int
                /\ Credits(DoneFor(u, kinds)') = Credits(DoneFor(u, kinds))
                                    + (IF Kind[p] \in kinds /\ Fan[p] = u THEN Amount[p] ELSE 0)
<1>1. pc[p] = "commit" /\ pc' = [pc EXCEPT ![p] = "done"]
  BY DEF Finish
<1>2. Done(kinds)' = (IF Kind[p] \in kinds THEN Done(kinds) \cup {p} ELSE Done(kinds)) /\ p \notin Done(kinds)
  BY <1>1 DEF Done, WorkInv, Labelled
<1>3. ASSUME NEW S, S \subseteq Requests
      PROVE  /\ IsFiniteSet(S) /\ Credits(S) \in Int /\ NetOf(S) \in Int
             /\ p \notin S => Credits(S \cup {p}) = Credits(S) + Amount[p]
             /\ p \notin S => NetOf(S \cup {p}) = NetOf(S) + Net(p)
  <2> DEFINE nets == [q \in Requests |-> Net(q)]
  <2>1. IsFiniteSet(S)
    BY <1>3, FinitenessAssumption, FS_Subset
  <2>2. \A q \in Requests : Amount[q] \in Int /\ nets[q] \in Int /\ nets[q] = Net(q)
    BY RequestFacts
  <2> HIDE DEF nets
  <2>3. Total(Amount, S) \in Int /\ Total(nets, S) \in Int
    BY <1>3, <2>1, <2>2, TotalIsInt
  <2>4. p \notin S => Total(Amount, S \cup {p}) = Total(Amount, S) + Amount[p]
    BY <1>3, <2>1, <2>2, TotalWith
  <2>5. p \notin S => Total(nets, S \cup {p}) = Total(nets, S) + nets[p]
    BY <1>3, <2>1, <2>2, TotalWith
  <2> QED
    BY <2>1, <2>2, <2>3, <2>4, <2>5 DEF Credits, NetOf, nets
<1>4. Done(kinds) \subseteq Requests
  BY DEF Done
<1>5. NetOf(Done(kinds)) \in Int
  BY <1>3, <1>4
<1>6. NetOf(Done(kinds)') = NetOf(Done(kinds)) + (IF Kind[p] \in kinds THEN Net(p) ELSE 0)
  <2>1. CASE Kind[p] \in kinds
    BY <1>2, <1>3, <1>4, <2>1
  <2>2. CASE Kind[p] \notin kinds
    BY <1>2, <1>5, <2>2
  <2> QED
    BY <2>1, <2>2
<1>7. ASSUME NEW u \in Fans
      PROVE  /\ Credits(DoneFor(u, kinds)) \in Int
             /\ Credits(DoneFor(u, kinds)') = Credits(DoneFor(u, kinds))
                                 + (IF Kind[p] \in kinds /\ Fan[p] = u THEN Amount[p] ELSE 0)
  <2>1. DoneFor(u, kinds) \subseteq Requests /\ p \notin DoneFor(u, kinds)
    BY <1>2, <1>4 DEF DoneFor
  <2>2. Credits(DoneFor(u, kinds)) \in Int
    BY <1>3, <2>1
  <2>3. CASE Kind[p] \in kinds /\ Fan[p] = u
    <3>1. DoneFor(u, kinds)' = DoneFor(u, kinds) \cup {p}
      BY <1>2, <2>3 DEF DoneFor
    <3> QED
      BY <1>3, <2>1, <2>2, <2>3, <3>1
  <2>4. CASE ~(Kind[p] \in kinds /\ Fan[p] = u)
    <3>1. DoneFor(u, kinds)' = DoneFor(u, kinds)
      BY <1>2, <2>4 DEF DoneFor
    <3> QED
      BY <2>2, <2>4, <3>1
  <2> QED
    BY <2>2, <2>3, <2>4
<1> QED
  BY <1>5, <1>6, <1>7

LEMMA FinishWork ==
    ASSUME WorkInv, NEW p \in Requests, Finish(p)
    PROVE  WorkInv'
<1>1. /\ pc[p] = "commit" /\ DB!Release(p) /\ UNCHANGED seen
      /\ store' = [r \in Rows |-> IF r \in DOMAIN draft[p] THEN draft[p][r] ELSE store[r]]
      /\ pc' = [pc EXCEPT ![p] = "done"] /\ pc'[p] = "done"
      /\ \A q \in Requests \ {p} : pc'[q] = pc[q]
  BY DEF Finish, DB!Commit, DB!See, WorkInv, Labelled
<1>2. /\ DOMAIN draft'[p] = {} /\ Locks'
      /\ \A t \in Requests : t # p => draft'[t] = draft[t]
  BY <1>1, ReleaseFacts DEF WorkInv
<1>3. /\ Moves(p, Fan[p]) /\ Moves(p, Creator)
      /\ \A u \in Owners \ {Fan[p], Creator} : ~Moves(p, u)
  BY <1>1 DEF Moves, FanMoved, CreatorMoved
<1>4. Written(p) /\ StoreTyped
  BY DEF WorkInv
<1>5. ASSUME NEW u \in Owners
      PROVE  /\ store'[WalletRow(u)] \in Wallet
             /\ store'[WalletRow(u)].balance
                  = store[WalletRow(u)].balance + (IF u \in {Fan[p], Creator} THEN Move(p, u) ELSE 0)
  <2>1. CASE u \in {Fan[p], Creator}
    <3>1. store'[WalletRow(u)] = draft[p][WalletRow(u)]
      BY <1>1, <1>3, <1>4, <2>1, WalletRowFacts DEF Written
    <3> QED
      BY <1>3, <1>4, <2>1, <3>1 DEF Written
  <2>2. CASE u \notin {Fan[p], Creator}
    <3>1. store'[WalletRow(u)] = store[WalletRow(u)]
      BY <1>1, <1>3, <1>4, <2>2, WalletRowFacts DEF Written
    <3> QED
      BY <1>4, <2>2, <3>1 DEF StoreTyped, Wallet
  <2> QED
    BY <2>1, <2>2
<1>6. StoreTyped'
  <2>1. ASSUME NEW u \in Fans PROVE store'[LotRow(u)] \in Int
    BY <1>1, <1>4, RowFacts DEF Written, StoreTyped
  <2> QED
    BY <1>5, <2>1 DEF StoreTyped
<1>7. Labelled'
  BY <1>1 DEF WorkInv, Labelled, Statements, Ended, InSale, InRefund
<1>8. ASSUME NEW q \in Requests PROVE Written(q)'
  <2>1. CASE q = p
    <3>1. \A u \in Owners : ~Moves(p, u)'
      BY <1>1 DEF Moves, FanMoved, CreatorMoved
    <3> QED
      BY <1>2, <2>1, <3>1 DEF Written
  <2>2. CASE q # p
    <3>1. draft'[q] = draft[q] /\ pc'[q] = pc[q] /\ Written(q) /\ \A u : Moves(q, u)' <=> Moves(q, u)
      BY <1>1, <1>2, <2>2 DEF WorkInv, Moves
    <3>2. ASSUME NEW u \in Owners, Moves(q, u) PROVE store'[WalletRow(u)] = store[WalletRow(u)]
      <4>1. WalletRow(u) \in DOMAIN draft[q]
        BY <3>1, <3>2 DEF Written
      <4>2. WalletRow(u) \notin DOMAIN draft[p]
        BY <2>2, <4>1, Exclusive DEF WorkInv
      <4> QED
        BY <1>1, <4>2, WalletRowFacts
    <3> QED
      BY <3>1, <3>2 DEF Written
  <2> QED
    BY <2>1, <2>2
<1>9. Kind[p] \in SaleKinds \cup {"REFUND"} /\ "REFUND" \notin SaleKinds
  BY RequestsAssumption DEF SaleKinds
<1>10. ASSUME NEW u \in Fans
       PROVE  store'[WalletRow(u)].balance
                = Opening[u] - Credits(DoneFor(u, SaleKinds)') + Credits(DoneFor(u, {"REFUND"})')
  <2>1. store[WalletRow(u)].balance
          = Opening[u] - Credits(DoneFor(u, SaleKinds)) + Credits(DoneFor(u, {"REFUND"}))
    BY DEF WorkInv, BalancesAreDoneWork, DoneFor
  <2>2. u \in Owners /\ u # Creator /\ Opening[u] \in Int
    BY OpeningAssumption DEF Owners
  <2>3. store'[WalletRow(u)].balance
          = store[WalletRow(u)].balance + (IF u = Fan[p] THEN Move(p, u) ELSE 0)
    BY <1>5, <2>2
  <2>4. Move(p, Fan[p]) = (IF Kind[p] = "REFUND" THEN Amount[p] ELSE -Amount[p]) /\ Amount[p] \in Int
    BY RequestFacts
  <2>5. /\ Credits(DoneFor(u, SaleKinds)) \in Int /\ Credits(DoneFor(u, {"REFUND"})) \in Int
        /\ Credits(DoneFor(u, SaleKinds)') = Credits(DoneFor(u, SaleKinds))
              + (IF Kind[p] \in SaleKinds /\ Fan[p] = u THEN Amount[p] ELSE 0)
        /\ Credits(DoneFor(u, {"REFUND"})') = Credits(DoneFor(u, {"REFUND"}))
              + (IF Kind[p] \in {"REFUND"} /\ Fan[p] = u THEN Amount[p] ELSE 0)
    BY FinishCounts
  <2>6. CASE u # Fan[p]
    BY <2>1, <2>2, <2>3, <2>5, <2>6
  <2>7. CASE u = Fan[p] /\ Kind[p] = "REFUND"
    BY <1>9, <2>1, <2>2, <2>3, <2>4, <2>5, <2>7
  <2>8. CASE u = Fan[p] /\ Kind[p] \in SaleKinds
    BY <1>9, <2>1, <2>2, <2>3, <2>4, <2>5, <2>8
  <2> QED
    BY <1>9, <2>6, <2>7, <2>8
<1>11. store'[WalletRow(Creator)].balance = NetOf(Done(SaleKinds)') - NetOf(Done({"REFUND"})')
  <2>1. store[WalletRow(Creator)].balance = NetOf(Done(SaleKinds)) - NetOf(Done({"REFUND"}))
    BY DEF WorkInv, BalancesAreDoneWork
  <2>2. /\ store'[WalletRow(Creator)].balance = store[WalletRow(Creator)].balance + Move(p, Creator)
        /\ Move(p, Creator) = (IF Kind[p] = "REFUND" THEN -Net(p) ELSE Net(p)) /\ Net(p) \in Int
    BY <1>5, RequestFacts
  <2>3. /\ NetOf(Done(SaleKinds)) \in Int /\ NetOf(Done({"REFUND"})) \in Int
        /\ NetOf(Done(SaleKinds)') = NetOf(Done(SaleKinds)) + (IF Kind[p] \in SaleKinds THEN Net(p) ELSE 0)
        /\ NetOf(Done({"REFUND"})') = NetOf(Done({"REFUND"})) + (IF Kind[p] \in {"REFUND"} THEN Net(p) ELSE 0)
    BY FinishCounts
  <2> QED
    BY <1>9, <2>1, <2>2, <2>3
<1>12. BalancesAreDoneWork'
  BY <1>10, <1>11 DEF BalancesAreDoneWork, DoneFor
<1> QED
  BY <1>2, <1>6, <1>7, <1>8, <1>12 DEF WorkInv

LEMMA InitWork == Init => WorkInv
<1> SUFFICES ASSUME Init PROVE WorkInv
  OBVIOUS
<1>1. /\ store = [r \in Rows |-> OpeningRow(r)]
      /\ draft = [t \in Requests |-> DB!NoRows] /\ holder = [r \in Rows |-> Nobody]
      /\ \A p \in Requests : DOMAIN draft[p] = {}
  BY DEF Init, DB!DBInit, DB!NoRows
<1>2. \A p \in Requests : pc[p] = IF Kind[p] = "REFUND" THEN "original" ELSE "check"
  BY DEF Init
<1>3. Labelled
  BY <1>2, RequestsAssumption DEF Init, Labelled, Statements, InSale, InRefund
<1>4. Locks
  BY <1>1, NobodyAssumption DEF Locks
<1>5. /\ \A u \in Fans : /\ store[WalletRow(u)] = [balance |-> Opening[u], typed |-> Opening[u]]
                        /\ store[LotRow(u)] = Opening[u]
      /\ store[WalletRow(Creator)] = [balance |-> 0, typed |-> 0]
  <2>1. /\ \A u \in Fans :
              /\ OpeningRow(WalletRow(u)) = [balance |-> Opening[u], typed |-> Opening[u]]
              /\ OpeningRow(LotRow(u)) = Opening[u]
        /\ OpeningRow(WalletRow(Creator)) = [balance |-> 0, typed |-> 0]
    BY OpeningAssumption DEF OpeningRow, LotRow, WalletRow
  <2> QED
    BY <1>1, <2>1, RowFacts
<1>6. StoreTyped
  <2>1. \A u \in Fans : Opening[u] \in Int
    BY OpeningAssumption
  <2>2. \A b \in Int : [balance |-> b, typed |-> b] \in Wallet
    BY DEF Wallet
  <2>3. \A u \in Fans : store[WalletRow(u)] \in Wallet /\ store[LotRow(u)] \in Int
    BY <1>5, <2>1, <2>2
  <2>4. store[WalletRow(Creator)] \in Wallet
    BY <1>5, <2>2
  <2> QED
    BY <2>3, <2>4 DEF StoreTyped, Owners
<1>7. ASSUME NEW p \in Requests PROVE Written(p)
  <2>1. \A u \in Owners : ~Moves(p, u)
    BY <1>2 DEF Moves, FanMoved, CreatorMoved
  <2> QED
    BY <1>1, <2>1 DEF Written
<1>8. BalancesAreDoneWork
  <2>1. \A kinds : Done(kinds) = {}
    BY <1>2 DEF Done
  <2>2. Credits({}) = 0 /\ NetOf({}) = 0
    BY TotalOfNone DEF Credits, NetOf
  <2>3. ASSUME NEW u \in Fans
        PROVE  store[WalletRow(u)].balance = Opening[u] - Credits(DoneFor(u, SaleKinds))
                                                 + Credits(DoneFor(u, {"REFUND"}))
    <3>1. DoneFor(u, SaleKinds) = {} /\ DoneFor(u, {"REFUND"}) = {}
      BY <2>1 DEF DoneFor
    <3>2. Credits(DoneFor(u, SaleKinds)) = 0 /\ Credits(DoneFor(u, {"REFUND"})) = 0
      BY <2>2, <3>1
    <3>3. store[WalletRow(u)].balance = Opening[u]
      <4>1. store[WalletRow(u)] = [balance |-> Opening[u], typed |-> Opening[u]]
        BY <1>5
      <4> QED
        BY <4>1
    <3>4. Opening[u] \in Int
      BY OpeningAssumption
    <3> QED
      BY <3>2, <3>3, <3>4
  <2>4. store[WalletRow(Creator)].balance = NetOf(Done(SaleKinds)) - NetOf(Done({"REFUND"}))
    BY <1>5, <2>1, <2>2
  <2> QED
    BY <2>3, <2>4 DEF BalancesAreDoneWork, DoneFor
<1> QED
  BY <1>3, <1>4, <1>6, <1>7, <1>8 DEF WorkInv

LEMMA NextWork == WorkInv /\ [Next]_vars => WorkInv'
<1> SUFFICES ASSUME WorkInv, [Next]_vars PROVE WorkInv'
  OBVIOUS
<1>1. ASSUME NEW p \in Requests, Step(p) \/ Timeout(p) PROVE WorkInv'
  <2>1. CASE Victim(p) \/ Timeout(p)
    <3>1. pc[p] \notin Ended
      <4>1. CASE Victim(p)
        <5>1. PICK S \in SUBSET Requests : p \in S /\ \A q \in S : \E r \in Needs(q) : holder[r] \in S \ {q}
          BY <4>1 DEF Victim, Deadlocked
        <5>2. Needs(p) # {}
          BY <5>1
        <5> QED
          BY <5>2 DEF Needs, Ended
      <4> QED
        BY <2>1, <4>1 DEF Timeout, Running
    <3> QED
      BY <2>1, <3>1, StopWork DEF Victim, Timeout
  <2>2. CASE SaleStep(p)
    BY <2>2, ReadsWork, RowsWork, WalletsWork DEF SaleStep
  <2>3. CASE RefundStep(p)
    BY <2>3, ReadsWork, RowsWork, WalletsWork DEF RefundStep
  <2> QED
    BY <1>1, <2>1, <2>2, <2>3, FinishWork DEF Step
<1>2. CASE UNCHANGED vars
  BY <1>2 DEF vars, WorkInv, Labelled, Locks, StoreTyped, Written, Moves, BalancesAreDoneWork, Done
<1> QED
  BY <1>1, <1>2 DEF Next

LEMMA WorkInvariance == Spec => []WorkInv
<1> QED BY InitWork, NextWork, PTL DEF Spec

\* For sales and refunds alike: every request is at one of its statements and holds a
\* lock exactly on the rows it has written; one that has ended holds none.
THEOREM RequestsTyped == Spec => []TypeOK
<1>1. WorkInv => TypeOK
  BY DEF WorkInv, Labelled, Locks, Written, TypeOK
<1> QED BY <1>1, WorkInvariance, PTL

\* Whatever overlaps, deadlocks and times out, refunds among it, the committed balances
\* are the opening ones moved by exactly the requests that were done.
THEOREM NoUpdateIsLost == Spec => []BalancesAreDoneWork
<1>1. WorkInv => BalancesAreDoneWork
  BY DEF WorkInv
<1> QED BY <1>1, WorkInvariance, PTL

-----------------------------------------------------------------------------
(* The unique indexes *)

\* A request that has ended takes no step, and a request takes one step at a time.
LEMMA StepFacts ==
    ASSUME WorkInv, NEW p \in Requests, Step(p) \/ Timeout(p)
    PROVE  /\ pc[p] \notin Ended
           /\ \A q \in Requests \ {p} : pc'[q] = pc[q]
           /\ Finish(p) \/ (UNCHANGED store /\ pc'[p] # "done")
<1>1. pc \in [Requests -> Statements \cup Ended] /\ "done" \notin Statements
  BY DEF WorkInv, Labelled, Statements
<1>2. ASSUME NEW o \in {"replayed", "failed"}, Stop(p, o)
      PROVE  /\ \A q \in Requests \ {p} : pc'[q] = pc[q]
             /\ UNCHANGED store /\ pc'[p] = o
  BY <1>1, <1>2 DEF Stop, DB!Rollback
<1>3. ASSUME NEW l \in Statements, Go(p, l)
      PROVE  (\A q \in Requests \ {p} : pc'[q] = pc[q]) /\ pc'[p] = l
  BY <1>1, <1>3 DEF Go
<1>4. ASSUME NEW r, NEW v, NEW l \in Statements, Update(p, r, v, l)
      PROVE  (\A q \in Requests \ {p} : pc'[q] = pc[q]) /\ UNCHANGED store /\ pc'[p] = l
  BY <1>3, <1>4 DEF Update, DB!Write
<1>5. CASE Check(p) \/ CheckStock(p) \/ ReadFan(p) \/ ReadLots(p) \/ ReadOriginal(p) \/ ReadDeductions(p)
  <2>1. \/ \E o \in {"replayed", "failed"} : Stop(p, o)
        \/ UNCHANGED store /\ \E l \in {"product", "fan", "debit", "draw", "deductions", "restore"} : Go(p, l)
    BY <1>5 DEF Check, CheckStock, ReadFan, ReadLots, ReadOriginal, ReadDeductions
  <2>2. pc[p] \notin Ended
    BY <1>5 DEF Check, CheckStock, ReadFan, ReadLots, ReadOriginal, ReadDeductions, Ended
  <2> QED
    BY <1>1, <1>2, <1>3, <2>1, <2>2 DEF Statements
<1>6. CASE \/ Debit(p) \/ Credit(p) \/ TakeStock(p) \/ DrawLots(p) \/ UpdateTyped(p)
           \/ RestoreLots(p) \/ RepayFan(p) \/ DebitCreator(p) \/ ReverseOriginal(p) \/ InsertReceipt(p)
  <2>1. \E r, v : \E l \in Statements : Update(p, r, v, l)
    BY <1>6 DEF Debit, Credit, TakeStock, DrawLots, UpdateTyped, RestoreLots, RepayFan,
       DebitCreator, ReverseOriginal, InsertReceipt, Statements
  <2>2. pc[p] \notin Ended
    BY <1>6 DEF Debit, Credit, TakeStock, DrawLots, UpdateTyped, RestoreLots, RepayFan,
       DebitCreator, ReverseOriginal, InsertReceipt, Ended
  <2> QED
    BY <1>1, <1>4, <2>1, <2>2
<1>7. CASE InsertEntry(p) \/ InsertPurchase(p)
  <2>1. \/ Stop(p, "failed")
        \/ \E r, v : \E l \in {"lots", "commit"} : Update(p, r, v, l)
    BY <1>7 DEF InsertEntry, InsertPurchase
  <2>2. pc[p] \notin Ended
    BY <1>7 DEF InsertEntry, InsertPurchase, Ended
  <2> QED
    BY <1>1, <1>2, <1>4, <2>1, <2>2 DEF Statements
<1>9. CASE Finish(p)
  BY <1>1, <1>9 DEF Finish, Ended
<1>10. CASE Victim(p)
  <2>1. Needs(p) # {}
    BY <1>10 DEF Victim, Deadlocked
  <2>2. pc[p] \notin Ended
    BY <2>1 DEF Needs, Ended
  <2> QED
    BY <1>2, <1>10, <2>2 DEF Victim
<1>11. CASE Timeout(p)
  BY <1>2, <1>11 DEF Timeout, Running
<1> QED
  BY <1>5, <1>6, <1>7, <1>9, <1>10, <1>11 DEF Step, SaleStep, RefundStep

Entered == {"lots", "draw", "typed", "own", "commit"}

UniqueRows == {EntryRow(k) : k \in Keys} \cup {OwnedRow(u) : u \in Fans}

\* Whoever is past an INSERT behind a unique index holds a row that nobody has
\* committed; whoever is done has committed it.  A refund changes a row that is there.
Claimed(p) ==
    /\ pc[p] \in Entered /\ Kind[p] \in SaleKinds => EntryRow(Key[p]) \in DOMAIN draft[p]
    /\ pc[p] = "commit" /\ Kind[p] = "PPV" => OwnedRow(Fan[p]) \in DOMAIN draft[p]

EntryHeld(p, k) ==
    IF Kind[p] = "REFUND" THEN draft[p][EntryRow(k)] = "REVERSED" /\ store[EntryRow(k)] # "ABSENT"
    ELSE draft[p][EntryRow(k)] = "COMPLETED" /\ store[EntryRow(k)] = "ABSENT"

Once ==
    /\ \A k \in Sold : store[EntryRow(k)] # "ABSENT"
    /\ \A p \in Requests :
          /\ Claimed(p)
          /\ \A k \in Keys : EntryRow(k) \in DOMAIN draft[p] => EntryHeld(p, k)
          /\ \A u \in Fans : OwnedRow(u) \in DOMAIN draft[p] =>
                draft[p][OwnedRow(u)] /\ ~store[OwnedRow(u)]
          /\ pc[p] = "done" /\ Kind[p] \in SaleKinds => store[EntryRow(Key[p])] # "ABSENT"
          /\ pc[p] = "done" /\ Kind[p] = "PPV" => store[OwnedRow(Fan[p])]

LEMMA UniqueRowFacts ==
    /\ \A u \in Fans : WalletRow(u) \notin UniqueRows /\ LotRow(u) \notin UniqueRows
    /\ WalletRow(Creator) \notin UniqueRows /\ StockRow \notin UniqueRows
    /\ \A p \in Requests : ReceiptRow(p) \notin UniqueRows
    /\ \A k \in Keys, u \in Fans : EntryRow(k) # OwnedRow(u)
    /\ \A j, k \in Keys : j # k => EntryRow(j) # EntryRow(k)
    /\ \A u, v \in Fans : u # v => OwnedRow(u) # OwnedRow(v)
BY DEF WalletRow, LotRow, EntryRow, OwnedRow, ReceiptRow, StockRow, UniqueRows

\* Every request is a sale or the refund of a sale that was there.
LEMMA KindFacts ==
    ASSUME NEW p \in Requests
    PROVE  /\ Key[p] \in Keys /\ Fan[p] \in Fans
           /\ Kind[p] \in SaleKinds <=> Kind[p] # "REFUND"
           /\ Kind[p] = "REFUND" => Key[p] \in Sold
BY RequestsAssumption DEF SaleKinds, Sold

\* A step of p that claims no row, and is not behind an INSERT it has not made
LEMMA OnceQuiet ==
    ASSUME Once, NEW p \in Requests, UNCHANGED store,
           \A q \in Requests \ {p} : draft'[q] = draft[q] /\ pc'[q] = pc[q],
           \A r \in UniqueRows : r \in DOMAIN draft'[p] =>
               r \in DOMAIN draft[p] /\ draft'[p][r] = draft[p][r],
           pc'[p] # "done", Claimed(p)'
    PROVE  Once'
<1>1. /\ \A k \in Keys : EntryRow(k) \in UniqueRows
      /\ \A u \in Fans : OwnedRow(u) \in UniqueRows
  BY DEF UniqueRows
<1>2. \A k \in Keys : EntryRow(k) \in DOMAIN draft'[p] => EntryHeld(p, k)'
  BY <1>1 DEF Once, EntryHeld
<1>3. \A u \in Fans : OwnedRow(u) \in DOMAIN draft'[p] => draft'[p][OwnedRow(u)] /\ ~store'[OwnedRow(u)]
  BY <1>1 DEF Once
<1>4. ASSUME NEW q \in Requests, q # p
      PROVE  Claimed(q)' /\ \A k \in Keys : EntryRow(k) \in DOMAIN draft'[q] => EntryHeld(q, k)'
  <2>1. draft'[q] = draft[q] /\ pc'[q] = pc[q]
    BY <1>4
  <2> QED
    BY <2>1 DEF Once, Claimed, EntryHeld
<1> QED
  BY <1>2, <1>3, <1>4 DEF Once

\* A read, or the end of a transaction that commits nothing
LEMMA OnceRead ==
    ASSUME Once, WorkInv, NEW p \in Requests, NEW l \in Statements \ {"commit"}, Go(p, l),
           l \in Entered => pc[p] \in Entered, UNCHANGED <<store, draft, holder>>
    PROVE  Once'
<1>1. pc'[p] = l /\ \A q \in Requests \ {p} : pc'[q] = pc[q]
  BY DEF Go, WorkInv, Labelled
<1>2. pc'[p] # "done" /\ pc'[p] # "commit" /\ (pc'[p] \in Entered => pc[p] \in Entered)
  BY <1>1 DEF Statements
<1>3. Claimed(p)'
  BY <1>2 DEF Once, Claimed
<1> QED
  BY <1>1, <1>2, <1>3, OnceQuiet

LEMMA OnceStop ==
    ASSUME Once, WorkInv, NEW p \in Requests, NEW o \in {"replayed", "failed"}, Stop(p, o)
    PROVE  Once'
<1>1. /\ UNCHANGED store /\ DB!Release(p)
      /\ pc'[p] = o /\ \A q \in Requests \ {p} : pc'[q] = pc[q]
  BY DEF Stop, DB!Rollback, WorkInv, Labelled
<1>2. DOMAIN draft'[p] = {} /\ \A q \in Requests \ {p} : draft'[q] = draft[q]
  BY <1>1, ReleaseFacts DEF WorkInv
<1>3. Claimed(p)'
  BY <1>1 DEF Claimed, Entered
<1> QED
  BY <1>1, <1>2, <1>3, OnceQuiet

\* A write of a row that no unique index guards
LEMMA OnceWrite ==
    ASSUME Once, WorkInv, NEW p \in Requests, NEW r \in Rows \ UniqueRows, NEW v,
           NEW l \in Statements, Update(p, r, v, l),
           Kind[p] \in SaleKinds /\ l \in Entered => pc[p] \in Entered, l = "commit" => Kind[p] # "PPV"
    PROVE  Once'
<1>1. DB!Write(p, r, v) /\ pc'[p] = l /\ \A q \in Requests \ {p} : pc'[q] = pc[q]
  BY DEF Update, Go, WorkInv, Labelled
<1>2. /\ UNCHANGED store /\ DOMAIN draft'[p] = DOMAIN draft[p] \cup {r}
      /\ \A q \in DOMAIN draft[p] : q # r => draft'[p][q] = draft[p][q]
      /\ \A q \in Requests \ {p} : draft'[q] = draft[q]
  BY <1>1, WriteFacts DEF WorkInv
<1>3. pc'[p] # "done"
  BY <1>1 DEF Statements
<1>4. Claimed(p)'
  BY <1>1, <1>2 DEF Once, Claimed
<1> QED
  BY <1>1, <1>2, <1>3, <1>4, OnceQuiet

\* A write of the request's own row of a unique index: the entry, or what a fan owns
LEMMA OnceClaim ==
    ASSUME Once, WorkInv, NEW p \in Requests, NEW r \in UniqueRows, NEW v,
           NEW l \in Statements, Update(p, r, v, l),
           \A k \in Keys : r = EntryRow(k) =>
               /\ v = IF Kind[p] = "REFUND" THEN "REVERSED" ELSE "COMPLETED"
               /\ store[r] = "ABSENT" <=> Kind[p] # "REFUND",
           \A u \in Fans : r = OwnedRow(u) => v /\ ~store[r],
           Kind[p] \in SaleKinds /\ l \in Entered => pc[p] \in Entered \/ r = EntryRow(Key[p]),
           l = "commit" /\ Kind[p] = "PPV" => r = OwnedRow(Fan[p])
    PROVE  Once'
<1>1. DB!Write(p, r, v) /\ pc'[p] = l /\ \A q \in Requests \ {p} : pc'[q] = pc[q]
  BY DEF Update, Go, WorkInv, Labelled
<1>2. r \in Rows
  BY RowFacts DEF UniqueRows
<1>3. /\ UNCHANGED store /\ DOMAIN draft'[p] = DOMAIN draft[p] \cup {r} /\ draft'[p][r] = v
      /\ \A q \in DOMAIN draft[p] : q # r => draft'[p][q] = draft[p][q]
      /\ \A q \in Requests \ {p} : draft'[q] = draft[q]
  BY <1>1, <1>2, WriteFacts DEF WorkInv
<1>4. pc'[p] # "done"
  BY <1>1 DEF Statements
<1>5. Claimed(p)'
  BY <1>1, <1>3 DEF Once, Claimed
<1>6. ASSUME NEW k \in Keys, EntryRow(k) \in DOMAIN draft'[p] PROVE EntryHeld(p, k)'
  <2>1. CASE EntryRow(k) = r
    BY <1>3, <2>1 DEF EntryHeld
  <2>2. CASE EntryRow(k) # r
    BY <1>3, <1>6, <2>2 DEF Once, EntryHeld
  <2> QED
    BY <2>1, <2>2
<1>7. ASSUME NEW u \in Fans, OwnedRow(u) \in DOMAIN draft'[p]
      PROVE  draft'[p][OwnedRow(u)] /\ ~store'[OwnedRow(u)]
  <2>1. CASE OwnedRow(u) = r
    <3>1. v /\ ~store[OwnedRow(u)]
      BY <2>1
    <3> QED
      BY <1>3, <2>1, <3>1
  <2>2. CASE OwnedRow(u) # r
    BY <1>3, <1>7, <2>2 DEF Once
  <2> QED
    BY <2>1, <2>2
<1>8. ASSUME NEW q \in Requests, q # p
      PROVE  Claimed(q)' /\ \A k \in Keys : EntryRow(k) \in DOMAIN draft'[q] => EntryHeld(q, k)'
  <2>1. draft'[q] = draft[q] /\ pc'[q] = pc[q]
    BY <1>1, <1>3, <1>8
  <2> QED
    BY <1>3, <2>1 DEF Once, Claimed, EntryHeld
<1> QED
  BY <1>1, <1>3, <1>4, <1>5, <1>6, <1>7, <1>8 DEF Once

LEMMA OnceInsertEntry ==
    ASSUME Once, WorkInv, NEW p \in Requests, InsertEntry(p)
    PROVE  Once'
<1> DEFINE row == EntryRow(Key[p])
<1>1. CASE Stop(p, "failed")
  BY <1>1, OnceStop
<1>2. CASE See(p, row) = "ABSENT" /\ Update(p, row, "COMPLETED", "lots")
  <2>1. Key[p] \in Keys /\ row \in UniqueRows /\ Kind[p] # "REFUND"
    BY KindFacts DEF UniqueRows, WorkInv, Labelled, InsertEntry, InSale
  <2>2. store[row] = "ABSENT"
    BY <1>2, <2>1 DEF Once, EntryHeld, See, DB!See
  <2>3. \A u \in Fans : row # OwnedRow(u)
    BY <2>1, UniqueRowFacts
  <2> QED
    BY <1>2, <2>1, <2>2, <2>3, OnceClaim DEF Statements
<1> QED
  BY <1>1, <1>2 DEF InsertEntry

LEMMA OnceReverse ==
    ASSUME Once, WorkInv, NEW p \in Requests, ReverseOriginal(p)
    PROVE  Once'
<1> DEFINE row == EntryRow(Key[p])
<1>1. Key[p] \in Keys /\ row \in UniqueRows /\ Kind[p] = "REFUND" /\ Key[p] \in Sold
  BY KindFacts DEF UniqueRows, WorkInv, Labelled, ReverseOriginal, InRefund
<1>2. store[row] # "ABSENT"
  BY <1>1 DEF Once
<1>3. \A u \in Fans : row # OwnedRow(u)
  BY <1>1, UniqueRowFacts
<1>4. Update(p, row, "REVERSED", "receipt") /\ Kind[p] \notin SaleKinds
  BY <1>1, KindFacts DEF ReverseOriginal
<1> QED
  BY <1>1, <1>2, <1>3, <1>4, OnceClaim DEF Statements

LEMMA OnceInsertPurchase ==
    ASSUME Once, WorkInv, NEW p \in Requests, InsertPurchase(p)
    PROVE  Once'
<1> DEFINE row == OwnedRow(Fan[p])
<1>1. CASE Stop(p, "failed")
  BY <1>1, OnceStop
<1>2. CASE ~See(p, row) /\ Update(p, row, TRUE, "commit")
  <2>1. Fan[p] \in Fans /\ row \in UniqueRows /\ pc[p] \in Entered
    BY KindFacts DEF UniqueRows, InsertPurchase, Entered
  <2>2. ~store[row]
    BY <1>2, <2>1 DEF Once, See, DB!See
  <2>3. \A k \in Keys : row # EntryRow(k)
    BY <2>1, UniqueRowFacts
  <2> DEFINE yes == TRUE
  <2>4. Update(p, row, yes, "commit") /\ "commit" \in Statements
    BY <1>2 DEF Statements
  <2>5. yes
    OBVIOUS
  <2>6. \A u \in Fans : row = OwnedRow(u) => yes /\ ~store[row]
    BY <2>2
  <2> HIDE DEF yes
  <2> QED
    BY <2>1, <2>3, <2>4, <2>6, OnceClaim
<1> QED
  BY <1>1, <1>2 DEF InsertPurchase

LEMMA OnceFinish ==
    ASSUME Once, WorkInv, NEW p \in Requests, Finish(p)
    PROVE  Once'
<1>1. /\ pc[p] = "commit" /\ DB!Release(p)
      /\ store' = [r \in Rows |-> IF r \in DOMAIN draft[p] THEN draft[p][r] ELSE store[r]]
      /\ pc'[p] = "done" /\ \A q \in Requests \ {p} : pc'[q] = pc[q]
  BY DEF Finish, DB!Commit, DB!See, WorkInv, Labelled
<1>2. DOMAIN draft'[p] = {} /\ \A q \in Requests \ {p} : draft'[q] = draft[q]
  BY <1>1, ReleaseFacts DEF WorkInv
<1>3. \A q \in Requests : Key[q] \in Keys /\ Fan[q] \in Fans
  BY KindFacts
<1>4. \A q \in Requests \ {p} : \A r \in DOMAIN draft[q] : r \in Rows => store'[r] = store[r]
  BY <1>1, Exclusive DEF WorkInv
<1>5. \A k \in Keys : store[EntryRow(k)] # "ABSENT" \/ EntryRow(k) \in DOMAIN draft[p] =>
         store'[EntryRow(k)] # "ABSENT"
  BY <1>1, RowFacts DEF Once, EntryHeld
<1>6. \A u \in Fans : store[OwnedRow(u)] \/ OwnedRow(u) \in DOMAIN draft[p] =>
         store'[OwnedRow(u)]
  BY <1>1, RowFacts DEF Once
<1>7. ASSUME NEW q \in Requests \ {p}, NEW r \in Rows, r \in DOMAIN draft'[q]
      PROVE  r \in DOMAIN draft[q] /\ draft'[q][r] = draft[q][r] /\ store'[r] = store[r]
  BY <1>2, <1>4, <1>7
<1>8. ASSUME NEW q \in Requests \ {p}
      PROVE  /\ Claimed(q)'
             /\ \A k \in Keys : EntryRow(k) \in DOMAIN draft'[q] => EntryHeld(q, k)'
             /\ \A u \in Fans : OwnedRow(u) \in DOMAIN draft'[q] =>
                   draft'[q][OwnedRow(u)] /\ ~store'[OwnedRow(u)]
  <2>1. Claimed(q)'
    BY <1>1, <1>2 DEF Once, Claimed
  <2>2. \A k \in Keys : EntryRow(k) \in DOMAIN draft'[q] => EntryHeld(q, k)'
    BY <1>7, RowFacts DEF Once, EntryHeld
  <2>3. \A u \in Fans : OwnedRow(u) \in DOMAIN draft'[q] => draft'[q][OwnedRow(u)] /\ ~store'[OwnedRow(u)]
    BY <1>7, RowFacts DEF Once
  <2> QED
    BY <2>1, <2>2, <2>3
<1>9. \A k \in Sold : store'[EntryRow(k)] # "ABSENT"
  BY <1>3, <1>5 DEF Once, Sold
<1>10. /\ Claimed(p)'
       /\ Kind[p] \in SaleKinds => store'[EntryRow(Key[p])] # "ABSENT"
       /\ Kind[p] = "PPV" => store'[OwnedRow(Fan[p])]
  BY <1>1, <1>3, <1>5, <1>6 DEF Once, Claimed, Entered
<1> QED
  BY <1>1, <1>2, <1>3, <1>5, <1>6, <1>8, <1>9, <1>10 DEF Once

LEMMA OnceInit == Init => Once
<1> SUFFICES ASSUME Init PROVE Once
  OBVIOUS
<1>1. \A p \in Requests : pc[p] \in {"check", "original"}
  BY DEF Init
<1>2. \A p \in Requests : DOMAIN draft[p] = {}
  BY DEF Init, DB!DBInit, DB!NoRows
<1>3. ASSUME NEW k \in Sold PROVE store[EntryRow(k)] # "ABSENT"
  <2>1. EntryRow(k) \in Rows
    BY RowFacts, KindFacts DEF Sold
  <2>2. OpeningRow(EntryRow(k)) = "COMPLETED"
    BY <1>3 DEF OpeningRow, EntryRow
  <2> QED
    BY <2>1, <2>2 DEF Init, DB!DBInit
<1> QED
  BY <1>1, <1>2, <1>3 DEF Once, Claimed, Entered

LEMMA OnceNext == WorkInv /\ Once /\ [Next]_vars => Once'
<1> SUFFICES ASSUME WorkInv, Once, [Next]_vars PROVE Once'
  OBVIOUS
<1>1. ASSUME NEW p \in Requests,
             Check(p) \/ CheckStock(p) \/ ReadFan(p) \/ ReadLots(p) \/ ReadOriginal(p) \/ ReadDeductions(p)
      PROVE  Once'
  <2>1. \/ \E o \in {"replayed", "failed"} : Stop(p, o)
        \/ /\ UNCHANGED <<store, draft, holder>>
           /\ \E l \in {"product", "fan", "debit", "draw", "deductions", "restore"} :
                 Go(p, l) /\ (l = "draw" => pc[p] \in Entered)
    BY <1>1 DEF Check, CheckStock, ReadFan, ReadLots, ReadOriginal, ReadDeductions, Entered
  <2> QED
    BY <2>1, OnceStop, OnceRead DEF Statements, Entered
<1>2. ASSUME NEW p \in Requests,
             \/ Debit(p) \/ Credit(p) \/ TakeStock(p) \/ DrawLots(p) \/ UpdateTyped(p)
             \/ RestoreLots(p) \/ RepayFan(p) \/ DebitCreator(p) \/ InsertReceipt(p)
      PROVE  Once'
  <2>1. Fan[p] \in Fans /\ (pc[p] \in InRefund => Kind[p] = "REFUND")
    BY KindFacts DEF WorkInv, Labelled
  <2>2. {WalletRow(Fan[p]), LotRow(Fan[p]), WalletRow(Creator), StockRow, ReceiptRow(p)} \subseteq Rows \ UniqueRows
    BY <2>1, RowFacts, WalletRowFacts, UniqueRowFacts
  <2>3. PICK r \in Rows \ UniqueRows :
           \E v : \E l \in Statements :
              /\ Update(p, r, v, l)
              /\ l \in Entered => pc[p] \in Entered \/ pc[p] = "receipt"
              /\ l = "commit" => Kind[p] # "PPV" \/ pc[p] = "receipt"
    BY <1>2, <2>2 DEF Debit, Credit, TakeStock, DrawLots, UpdateTyped, RestoreLots, RepayFan,
       DebitCreator, InsertReceipt, Statements, Entered
  <2>4. pc[p] = "receipt" => Kind[p] \notin SaleKinds /\ Kind[p] # "PPV"
    BY <2>1, KindFacts DEF InRefund, SaleKinds
  <2> QED
    BY <2>3, <2>4, OnceWrite
<1>3. ASSUME NEW p \in Requests, Victim(p) \/ Timeout(p) PROVE Once'
  BY <1>3, OnceStop DEF Victim, Timeout
<1>4. CASE UNCHANGED vars
  BY <1>4 DEF vars, Once, Claimed, EntryHeld
<1> QED
  BY <1>1, <1>2, <1>3, <1>4, OnceInsertEntry, OnceReverse, OnceInsertPurchase, OnceFinish
  DEF Next, Step, SaleStep, RefundStep

\* No two sales that are done are the same sale.
NoTwins ==
    \A p, q \in Done(SaleKinds) : p # q => ~Serial!SameSale(p, q)

\* What p commits, nobody has committed before.
LEMMA FinishIsNew ==
    ASSUME Once, NEW p \in Requests, Finish(p), Kind[p] \in SaleKinds, NEW q \in Done(SaleKinds)
    PROVE  ~Serial!SameSale(p, q) /\ ~Serial!SameSale(q, p)
<1>1. pc[p] = "commit" /\ Key[p] \in Keys /\ Fan[p] \in Fans /\ Kind[p] # "REFUND"
  BY KindFacts DEF Finish
<1>2. q \in Requests /\ pc[q] = "done" /\ Kind[q] \in SaleKinds
  BY DEF Done
<1>3. store[EntryRow(Key[p])] = "ABSENT"
  BY <1>1 DEF Once, Claimed, EntryHeld, Entered
<1>4. Key[q] # Key[p]
  BY <1>2, <1>3 DEF Once
<1>5. Kind[p] = "PPV" => ~store[OwnedRow(Fan[p])]
  BY <1>1 DEF Once, Claimed
<1>6. Kind[q] = "PPV" => store[OwnedRow(Fan[q])]
  BY <1>2 DEF Once
<1>7. Kind[p] = "PPV" /\ Kind[q] = "PPV" => Fan[p] # Fan[q]
  BY <1>5, <1>6
<1> QED
  BY <1>4, <1>7 DEF Serial!SameSale

LEMMA TwinsNext == WorkInv /\ Once /\ NoTwins /\ [Next]_vars => NoTwins'
<1> SUFFICES ASSUME WorkInv, Once, NoTwins, [Next]_vars PROVE NoTwins'
  OBVIOUS
<1>1. ASSUME NEW p \in Requests, Step(p) \/ Timeout(p) PROVE NoTwins'
  <2>1. \A q \in Requests \ {p} : pc'[q] = pc[q]
    BY <1>1, StepFacts
  <2>2. ASSUME NEW q \in Done(SaleKinds)', q # p PROVE q \in Done(SaleKinds)
    BY <2>1, <2>2 DEF Done
  <2>3. CASE Finish(p)
    <3>1. ASSUME NEW q \in Done(SaleKinds), Kind[p] \in SaleKinds
          PROVE  ~Serial!SameSale(p, q) /\ ~Serial!SameSale(q, p)
      BY <2>3, <3>1, FinishIsNew
    <3>2. p \in Done(SaleKinds)' => Kind[p] \in SaleKinds
      BY DEF Done
    <3> QED
      BY <2>2, <3>1, <3>2 DEF NoTwins, Serial!SameSale
  <2>4. CASE pc'[p] # "done"
    <3>1. p \notin Done(SaleKinds)'
      BY <2>4 DEF Done
    <3> QED
      BY <2>2, <3>1 DEF NoTwins, Serial!SameSale
  <2> QED
    BY <1>1, <2>3, <2>4, StepFacts
<1>2. CASE UNCHANGED vars
  BY <1>2 DEF vars, NoTwins, Done, Serial!SameSale
<1> QED
  BY <1>1, <1>2 DEF Next

OnceInv == WorkInv /\ Once /\ NoTwins

LEMMA OnceInvariance == Spec => []OnceInv
<1>1. Init => OnceInv
  <2> SUFFICES ASSUME Init PROVE OnceInv
    OBVIOUS
  <2>1. Done(SaleKinds) = {}
    BY DEF Init, Done
  <2> QED
    BY <2>1, InitWork, OnceInit DEF OnceInv, NoTwins
<1>2. OnceInv /\ [Next]_vars => OnceInv'
  BY NextWork, OnceNext, TwinsNext DEF OnceInv
<1> QED BY <1>1, <1>2, PTL DEF Spec

\* However sales, retries of them and refunds overlap, a key is charged once, and a
\* content once per fan.
THEOREM ChargesAreOnce == Spec => []ChargedOnce
<1>1. ASSUME NEW S, \A p, q \in S : p = q PROVE Cardinality(S) <= 1
  <2>1. CASE S = {}
    BY <2>1, FS_EmptySet
  <2>2. CASE S # {}
    <3>1. PICK p \in S : S = {p}
      BY <1>1, <2>2
    <3>2. Cardinality({p}) = 1
      BY FS_Singleton
    <3> QED
      BY <3>1, <3>2
  <2> QED
    BY <2>1, <2>2
<1>2. ASSUME OnceInv PROVE ChargedOnce
  <2>1. ASSUME NEW k \in Keys
        PROVE  \A p, q \in {p \in Done(SaleKinds) : Key[p] = k} : p = q
    BY <1>2 DEF OnceInv, NoTwins, Serial!SameSale
  <2>2. ASSUME NEW u \in Fans
        PROVE  \A p, q \in {p \in Done({"PPV"}) : Fan[p] = u} : p = q
    BY <1>2 DEF OnceInv, NoTwins, Done, SaleKinds, Serial!SameSale
  <2> QED
    BY <1>1, <2>1, <2>2 DEF ChargedOnce
<1>3. OnceInv => ChargedOnce
  BY <1>2
<1> QED BY <1>3, OnceInvariance, PTL

-----------------------------------------------------------------------------
(* Refinement *)

spendable == [u \in Fans |-> store[WalletRow(u)].balance]

outcomes == [p \in Requests |-> IF pc[p] = "done" THEN "sold"
                                ELSE IF pc[p] \in Ended THEN "refused" ELSE "open"]

SerialInv == Inv /\ OnceInv

\* The commit of a sale is the sale.
LEMMA FinishSells ==
    ASSUME SalesOnly, SerialInv, NEW p \in Requests, Finish(p)
    PROVE  Serial!Sell(p)
<1>1. Fan[p] \in Fans /\ pc[p] = "commit"
  BY RequestsAssumption DEF Finish
<1>2. pc'[p] = "done" /\ \A q \in Requests \ {p} : pc'[q] = pc[q]
  BY DEF Finish, SerialInv, Inv
<1>3. outcomes[p] = "open"
  BY <1>1 DEF outcomes, Ended
<1>4. outcomes' = [outcomes EXCEPT ![p] = "sold"]
  BY <1>2 DEF outcomes
<1>5. store[WalletRow(Fan[p])].balance = store[LotRow(Fan[p])]
  BY <1>1, BackedFacts DEF SerialInv, Inv
<1>6. /\ store[LotRow(Fan[p])] >= Amount[p]
      /\ store'[WalletRow(Fan[p])].balance = store[LotRow(Fan[p])] - Amount[p]
      /\ \A v \in Fans : v # Fan[p] => store'[WalletRow(v)] = store[WalletRow(v)]
  <2>1. /\ store[LotRow(Fan[p])] >= Amount[p]
        /\ store'[WalletRow(Fan[p])] = [balance |-> store[LotRow(Fan[p])] - Amount[p],
                                        typed |-> store[LotRow(Fan[p])] - Amount[p]]
        /\ \A v \in Fans : v # Fan[p] => store'[WalletRow(v)] = store[WalletRow(v)]
    BY FinishFacts DEF SerialInv
  <2> QED
    BY <2>1
<1>7. spendable[Fan[p]] >= Amount[p]
  BY <1>1, <1>5, <1>6 DEF spendable
<1>8. spendable' = [spendable EXCEPT ![Fan[p]] = @ - Amount[p]]
  BY <1>1, <1>5, <1>6 DEF spendable
<1>9. \A q \in Requests : outcomes[q] = "sold" => ~Serial!SameSale(p, q)
  <2>1. \A q \in Requests : outcomes[q] = "sold" => q \in Done(SaleKinds)
    BY DEF outcomes, Done, SalesOnly
  <2>2. Kind[p] \in SaleKinds
    BY DEF SalesOnly
  <2> QED
    BY <2>1, <2>2, FinishIsNew DEF SerialInv, OnceInv
<1> QED
  BY <1>3, <1>4, <1>7, <1>8, <1>9 DEF Serial!Sell, spendable, outcomes

LEMMA RefinementStep ==
    SalesOnly /\ SerialInv /\ [Next]_vars => [Serial!Next]_(Serial!vars)
<1> SUFFICES ASSUME SalesOnly, SerialInv, [Next]_vars
             PROVE  Serial!Next \/ UNCHANGED Serial!vars
  OBVIOUS
<1>1. ASSUME NEW p \in Requests, Step(p) \/ Timeout(p)
      PROVE  Serial!Next \/ UNCHANGED Serial!vars
  <2>1. /\ pc[p] \notin Ended /\ \A q \in Requests \ {p} : pc'[q] = pc[q]
        /\ Finish(p) \/ (UNCHANGED store /\ pc'[p] # "done")
    BY <1>1, StepFacts DEF SerialInv, OnceInv
  <2>2. CASE Finish(p)
    BY <2>2, FinishSells DEF Serial!Next
  <2>3. CASE UNCHANGED store /\ pc'[p] # "done"
    <3>1. spendable' = spendable
      BY <2>3 DEF spendable
    <3>2. outcomes[p] = "open"
      BY <2>1 DEF outcomes, Ended
    <3>3. CASE pc'[p] \in Ended
      <4>1. outcomes' = [outcomes EXCEPT ![p] = "refused"]
        BY <2>1, <2>3, <3>3 DEF outcomes, Ended
      <4>2. Serial!Refuse(p)
        BY <3>1, <3>2, <4>1 DEF Serial!Refuse, spendable, outcomes
      <4> QED
        BY <4>2 DEF Serial!Next
    <3>4. CASE pc'[p] \notin Ended
      <4>1. outcomes' = outcomes
        BY <2>1, <2>3, <3>4 DEF outcomes, Ended
      <4> QED
        BY <3>1, <4>1 DEF Serial!vars, spendable, outcomes
    <3> QED
      BY <3>3, <3>4
  <2> QED
    BY <2>1, <2>2, <2>3
<1>2. CASE UNCHANGED vars
  BY <1>2 DEF vars, Serial!vars
<1> QED
  BY <1>1, <1>2 DEF Next

\* Overlapping sales implement sales that run one after the other: each step is
\* a stutter, a refusal, or a sale at its commit, on a balance that covers it.
THEOREM SalesAreSerial == SalesOnly => (Spec => SerialSpec)
<1> SUFFICES ASSUME SalesOnly PROVE Spec => SerialSpec
  OBVIOUS
<1>1. Init => Serial!Init
  <2> SUFFICES ASSUME Init PROVE Serial!Init
    OBVIOUS
  <2>1. pc = [p \in Requests |-> "check"]
    BY RequestsAssumption DEF SalesOnly, SaleKinds, Init
  <2>2. outcomes = [p \in Requests |-> "open"]
    BY <2>1 DEF outcomes, Ended
  <2>3. \A u \in Fans : OpeningRow(WalletRow(u)) = [balance |-> Opening[u], typed |-> Opening[u]]
    BY OpeningAssumption DEF OpeningRow, WalletRow
  <2>4. spendable = [u \in Fans |-> Opening[u]]
    BY <2>3, RowFacts DEF spendable, Init, DB!DBInit
  <2> QED
    BY <2>2, <2>4 DEF Serial!Init, spendable, outcomes
<1>2. SerialInv /\ [Next]_vars => [Serial!Next]_(Serial!vars)
  BY RefinementStep
<1> QED
  BY <1>1, <1>2, Invariance, OnceInvariance, PTL DEF Spec, SerialSpec, Serial!Spec, SerialInv
=============================================================================
