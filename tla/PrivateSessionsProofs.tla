------------------------ MODULE PrivateSessionsProofs ------------------------
(***************************************************************************)
(* Proofs about PrivateSessions for any fans, windows, payments, times and *)
(* numbers of holds: held windows never overlap and a charged fan gets a   *)
(* booking; and where only cards are used, a hold is booked once and never *)
(* over somebody else's hold.                                              *)
(***************************************************************************)
EXTENDS PrivateSessions, TLAPS

CardsOnly == Methods = {"FIAT_CARD"}

\* What a step that reserves nothing does to the holds: nothing, and active
\* ones are only let go.
OnlyLetsGo == holds' = holds /\ active' \subseteq active

\* With cards only nothing is ever in flight, and a booked hold is no longer
\* active, so it cannot be booked again.
NothingInFlight == \A p \in Payments : inFlight[p] = Idle
BookedIsGone == \A n \in DOMAIN bookings : bookings[n].hold \notin active

-----------------------------------------------------------------------------
\* Clearing out what has expired, and looking a hold up, only let holds go.
LEMMA LiveFacts ==
    /\ Live \subseteq active
    /\ \A i : AfterGet(i) \subseteq active /\ (Usable(i) => i \in Live)
  BY DEF Live, AfterGet, Usable

\* A reservation adds at most one hold, at the end, which overlaps no live one,
\* and never changes the window of a hold that was there.
LEMMA AcquireFacts ==
    ASSUME TypeOK, NEW f \in Fans, NEW w \in Windows, AcquireHold(f, w)
    PROVE  /\ holds' \in Seq(Held)
           /\ DOMAIN holds \subseteq DOMAIN holds'
           /\ \A i \in DOMAIN holds : holds'[i].window = holds[i].window
           /\ active' \subseteq Live \cup {Len(holds) + 1}
           /\ active' \subseteq DOMAIN holds'
           /\ Len(holds) + 1 \in active' =>
                \A j \in Live : ~Overlap(holds[j].window, holds'[Len(holds) + 1].window)
<1>0. holds \in Seq(Held) /\ now + HoldTicks \in Nat /\ Live \subseteq DOMAIN holds
  BY LiveFacts, TimesAssumption DEF TypeOK
<1>1. CASE Conflicts(w) = {}
  <2>1. holds' = Append(holds, Hold(f, w)) /\ active' = Live \cup {Len(holds) + 1}
    BY <1>1 DEF AcquireHold
  <2>2. Hold(f, w) \in Held /\ Hold(f, w).window = w
    BY <1>0 DEF Hold, Held
  <2>3. /\ holds' \in Seq(Held) /\ Len(holds') = Len(holds) + 1
        /\ holds'[Len(holds) + 1] = Hold(f, w)
        /\ \A i \in DOMAIN holds : holds'[i] = holds[i]
    BY <1>0, <2>1, <2>2
  <2>4. \A j \in Live : ~Overlap(holds[j].window, w)
    BY <1>1 DEF Conflicts
  <2> QED BY <1>0, <2>1, <2>2, <2>3, <2>4
<1>2. CASE Conflicts(w) # {}
  <2> DEFINE i == Min(Conflicts(w))
  <2>1. /\ active' = Live
        /\ holds' = IF holds[i].fan = f
                    THEN [holds EXCEPT ![i] = Hold(f, holds[i].window)] ELSE holds
    BY <1>2 DEF AcquireHold
  <2> HIDE DEF i
  <2>2. i \in DOMAIN holds => /\ Hold(f, holds[i].window) \in Held
                              /\ Hold(f, holds[i].window).window = holds[i].window
    <3> SUFFICES ASSUME i \in DOMAIN holds PROVE holds[i].window \in Windows
      BY <1>0 DEF Hold, Held
    <3>1. holds[i] \in Held
      BY <1>0
    <3> QED BY <3>1 DEF Held
  <2>3. /\ holds' \in Seq(Held) /\ DOMAIN holds' = DOMAIN holds
        /\ \A j \in DOMAIN holds : holds'[j].window = holds[j].window
    <3> DEFINE h == Hold(f, holds[i].window)
    <3>1. CASE holds' = [holds EXCEPT ![i] = h] /\ i \in DOMAIN holds
      <4>1. h \in Held /\ h.window = holds[i].window
        BY <2>2, <3>1
      <4> HIDE DEF h
      <4> QED BY <1>0, <3>1, <4>1
    <3>2. CASE holds' = [holds EXCEPT ![i] = h] /\ i \notin DOMAIN holds
      <4> HIDE DEF h
      <4>1. holds' = holds
        BY <1>0, <3>2
      <4> QED BY <1>0, <4>1
    <3>3. CASE holds' = holds
      BY <1>0, <3>3
    <3> QED BY <2>1, <3>1, <3>2, <3>3
  <2>4. Len(holds) + 1 \notin DOMAIN holds
    BY <1>0
  <2> QED BY <1>0, <2>1, <2>3, <2>4
<1> QED BY <1>1, <1>2

\* A booking is appended, and the hold it came from is let go.
LEMMA ConfirmFacts ==
    ASSUME TypeOK, NEW i \in DOMAIN holds, NEW by \in {"card", "wallet", "nobody"},
           Confirm(i, by)
    PROVE  /\ bookings' = Append(bookings, Booking(i, by))
           /\ Booking(i, by) \in Booked
           /\ bookings' \in Seq(Booked)
           /\ Len(bookings') = Len(bookings) + 1
           /\ DOMAIN bookings' = DOMAIN bookings \cup {Len(bookings) + 1}
           /\ bookings'[Len(bookings) + 1] = Booking(i, by)
           /\ \A n \in DOMAIN bookings : bookings'[n] = bookings[n]
           /\ active' \subseteq active /\ i \notin active'
<1>1. bookings' = Append(bookings, Booking(i, by)) /\ active' = Live \ {i}
  BY DEF Confirm
<1>2. holds[i] \in Held /\ i \in Nat
  BY DEF TypeOK
<1>3. Booking(i, by) \in Booked
  BY <1>2 DEF Booking, Booked, Held
<1> QED BY <1>1, <1>3, LiveFacts DEF TypeOK

\* A reminder changes only what the booking says of reminders.
LEMMA RemindFacts ==
    ASSUME TypeOK, SendReminders \/ \E n \in DOMAIN bookings : RemindNow(n)
    PROVE  /\ bookings' \in Seq(Booked)
           /\ DOMAIN bookings' = DOMAIN bookings /\ Len(bookings') = Len(bookings)
           /\ \A n \in DOMAIN bookings : /\ bookings'[n].hold = bookings[n].hold
                                         /\ bookings'[n].paidBy = bookings[n].paidBy
           /\ UNCHANGED <<now, holds, active, inFlight, tips>>
<1>0. bookings \in Seq(Booked)
  BY DEF TypeOK
<1>1. CASE SendReminders
  <2> DEFINE Marked(n) == IF Due(bookings[n])
                THEN [bookings[n] EXCEPT !.status = "REMINDER_SENT", !.reminded = TRUE]
                ELSE bookings[n]
  <2>1. bookings' = [n \in DOMAIN bookings |-> Marked(n)]
    BY <1>1 DEF SendReminders
  <2>2. \A n \in DOMAIN bookings : /\ Marked(n) \in Booked
                                   /\ Marked(n).hold = bookings[n].hold
                                   /\ Marked(n).paidBy = bookings[n].paidBy
    <3> SUFFICES ASSUME NEW n \in DOMAIN bookings
                 PROVE  /\ Marked(n) \in Booked
                        /\ Marked(n).hold = bookings[n].hold
                        /\ Marked(n).paidBy = bookings[n].paidBy
      OBVIOUS
    <3>1. bookings[n] \in Booked
      BY <1>0
    <3> QED BY <3>1 DEF Booked
  <2> HIDE DEF Marked
  <2>3. bookings' \in Seq(Booked) /\ Len(bookings') = Len(bookings)
    BY <1>0, <2>1, <2>2
  <2> QED BY <1>0, <1>1, <2>1, <2>2, <2>3 DEF SendReminders
<1>2. CASE \E n \in DOMAIN bookings : RemindNow(n)
  <2> PICK n \in DOMAIN bookings : RemindNow(n)
    BY <1>2
  <2>1. bookings' = [bookings EXCEPT ![n].reminded = TRUE] /\ bookings[n] \in Booked
    BY <1>0 DEF RemindNow
  <2>2. [bookings[n] EXCEPT !.reminded = TRUE] \in Booked
    BY <2>1 DEF Booked
  <2> QED BY <1>0, <2>1, <2>2 DEF RemindNow, Booked
<1> QED BY <1>1, <1>2
-----------------------------------------------------------------------------
\* What each disjunct of Next needs of its parameters, by name.
LEMMA NextCases ==
    ASSUME Next
    PROVE  \/ \E f \in Fans, w \in Windows : Reserve(f, w)
           \/ \E i \in DOMAIN holds : ReleaseHold(i)
           \/ \E i \in DOMAIN holds, f \in Fans : PayByCard(f, i)
           \/ \E i \in DOMAIN holds, f \in Fans, p \in Payments, k \in Keys \cup {Fresh} :
                 PayFromWallet(p, f, i, k)
           \/ \E p \in Payments : LedgerPays(p)
           \/ \E p \in Payments : LedgerRefuses(p)
           \/ \E p \in Payments : ConfirmAfterPayment(p)
           \/ LookAtSlots
           \/ SendReminders \/ \E n \in DOMAIN bookings : RemindNow(n)
           \/ Tick
  BY DEF Next

LEMMA InitTyped == Init => TypeOK /\ HoldsDisjoint
<1> SUFFICES ASSUME Init PROVE TypeOK /\ HoldsDisjoint
  OBVIOUS
<1>1. Idle \in Paying /\ Idle.pc = "idle"
  BY DEF Idle, Paying
<1> QED BY <1>1 DEF Init, TypeOK, HoldsDisjoint

\* A payment that starts or moves on keeps its type and its hold.
LEMMA PaymentTyped ==
    ASSUME TypeOK, UNCHANGED <<now, holds, bookings>>, active' \subseteq active,
           NEW p \in Payments, NEW r \in Paying, r.pc # "idle" => r.hold \in DOMAIN holds,
           inFlight' = [inFlight EXCEPT ![p] = r], tips' \in Seq(Tipped)
    PROVE  TypeOK'
<1>1. inFlight' \in [Payments -> Paying]
  BY DEF TypeOK
<1>2. \A q \in Payments : inFlight'[q] = IF q = p THEN r ELSE inFlight[q]
  BY DEF TypeOK
<1> QED BY <1>1, <1>2 DEF TypeOK

LEMMA TypeStep == TypeOK /\ [Next]_vars => TypeOK'
<1> SUFFICES ASSUME TypeOK, [Next]_vars PROVE TypeOK'
  OBVIOUS
<1>1. ASSUME NEW f \in Fans, NEW w \in Windows, Reserve(f, w) PROVE TypeOK'
  <2>1. AcquireHold(f, w) /\ UNCHANGED <<now, bookings, inFlight, tips>>
    BY <1>1 DEF Reserve
  <2>2. holds' \in Seq(Held) /\ DOMAIN holds \subseteq DOMAIN holds' /\ active' \subseteq DOMAIN holds'
    BY <2>1, AcquireFacts
  <2> QED BY <2>1, <2>2 DEF TypeOK
<1>2. ASSUME NEW i \in DOMAIN holds, ReleaseHold(i) PROVE TypeOK'
  BY <1>2 DEF ReleaseHold, TypeOK
<1>3. ASSUME NEW i \in DOMAIN holds, NEW f \in Fans, PayByCard(f, i) PROVE TypeOK'
  <2>1. UNCHANGED <<now, holds, inFlight, tips>>
    BY <1>3 DEF PayByCard
  <2>2. CASE Confirm(i, "card")
    <3>1. /\ bookings' \in Seq(Booked) /\ Booking(i, "card").hold = i
          /\ DOMAIN bookings' = DOMAIN bookings \cup {Len(bookings) + 1}
          /\ bookings'[Len(bookings) + 1] = Booking(i, "card")
          /\ \A n \in DOMAIN bookings : bookings'[n] = bookings[n]
          /\ active' \subseteq active
      BY <2>2, ConfirmFacts DEF Booking
    <3> QED BY <2>1, <3>1 DEF TypeOK
  <2>3. CASE active' = AfterGet(i) /\ UNCHANGED bookings
    BY <2>1, <2>3, LiveFacts DEF TypeOK
  <2> QED BY <1>3, <2>2, <2>3 DEF PayByCard
<1>4. ASSUME NEW i \in DOMAIN holds, NEW f \in Fans, NEW p \in Payments,
             NEW k \in Keys \cup {Fresh}, PayFromWallet(p, f, i, k)
      PROVE  TypeOK'
  <2> DEFINE r == [pc |-> "ledger", hold |-> i, key |-> k, paid |-> FALSE]
  <2>1. UNCHANGED <<now, holds, bookings, tips>> /\ active' \subseteq active
    BY <1>4, LiveFacts DEF PayFromWallet
  <2>2. i \in Nat /\ tips \in Seq(Tipped)
    BY DEF TypeOK
  <2>3. r \in Paying
    BY <2>2 DEF Paying
  <2>4. CASE inFlight' = [inFlight EXCEPT ![p] = r]
    BY <2>1, <2>2, <2>3, <2>4, PaymentTyped
  <2>5. CASE UNCHANGED inFlight
    BY <2>1, <2>5 DEF TypeOK
  <2> QED BY <1>4, <2>4, <2>5 DEF PayFromWallet
<1>5. ASSUME NEW p \in Payments, LedgerPays(p) PROVE TypeOK'
  <2>1. /\ inFlight[p] \in Paying /\ inFlight[p].pc = "ledger"
        /\ inFlight[p].hold \in DOMAIN holds
        /\ UNCHANGED <<now, holds, active, bookings>>
    BY <1>5 DEF LedgerPays, TypeOK
  <2> DEFINE r == [inFlight[p] EXCEPT !.pc = "confirm", !.paid = TRUE]
             t == [fan |-> holds[inFlight[p].hold].fan, key |-> inFlight[p].key,
                   hold |-> inFlight[p].hold]
  <2>2. r \in Paying /\ r.hold = inFlight[p].hold
    BY <2>1 DEF Paying
  <2>3. inFlight' = [inFlight EXCEPT ![p] = r]
    BY <1>5 DEF LedgerPays, TypeOK
  <2>4. t \in Tipped
    <3>1. holds[inFlight[p].hold] \in Held
      BY <2>1 DEF TypeOK
    <3> QED BY <2>1, <3>1 DEF Held, Tipped, Paying
  <2>5. tips' = tips \/ tips' = Append(tips, t)
    BY <1>5 DEF LedgerPays
  <2> HIDE DEF t, r
  <2>6. tips' \in Seq(Tipped)
    <3>1. tips \in Seq(Tipped)
      BY DEF TypeOK
    <3> QED BY <2>4, <2>5, <3>1
  <2> QED BY <2>1, <2>2, <2>3, <2>6, PaymentTyped
<1>6. ASSUME NEW p \in Payments, LedgerRefuses(p) PROVE TypeOK'
  <2>1. /\ inFlight[p] \in Paying /\ inFlight[p].pc = "ledger"
        /\ inFlight[p].hold \in DOMAIN holds /\ tips \in Seq(Tipped)
        /\ UNCHANGED <<now, holds, active, bookings, tips>>
    BY <1>6 DEF LedgerRefuses, TypeOK
  <2> DEFINE r == [inFlight[p] EXCEPT !.pc = "confirm"]
  <2>2. r \in Paying /\ r.hold = inFlight[p].hold
    BY <2>1 DEF Paying
  <2>3. inFlight' = [inFlight EXCEPT ![p] = r]
    BY <1>6 DEF LedgerRefuses, TypeOK
  <2> HIDE DEF r
  <2> QED BY <2>1, <2>2, <2>3, PaymentTyped
<1>7. ASSUME NEW p \in Payments, ConfirmAfterPayment(p) PROVE TypeOK'
  <2> DEFINE i == inFlight[p].hold
             by == IF inFlight[p].paid THEN "wallet" ELSE "nobody"
  <2>1. /\ i \in DOMAIN holds /\ by \in {"card", "wallet", "nobody"} /\ Confirm(i, by)
        /\ inFlight' = [inFlight EXCEPT ![p] = Idle]
        /\ UNCHANGED <<now, holds, tips>>
    BY <1>7 DEF ConfirmAfterPayment, TypeOK
  <2> HIDE DEF i, by
  <2>2. /\ bookings' \in Seq(Booked) /\ Booking(i, by).hold = i
        /\ DOMAIN bookings' = DOMAIN bookings \cup {Len(bookings) + 1}
        /\ bookings'[Len(bookings) + 1] = Booking(i, by)
        /\ \A n \in DOMAIN bookings : bookings'[n] = bookings[n]
        /\ active' \subseteq active
    BY <2>1, ConfirmFacts DEF Booking
  <2>3. Idle \in Paying /\ Idle.pc = "idle"
    BY DEF Idle, Paying
  <2>4. \A q \in Payments : inFlight'[q] = IF q = p THEN Idle ELSE inFlight[q]
    BY <2>1 DEF TypeOK
  <2> QED BY <2>1, <2>2, <2>3, <2>4 DEF TypeOK
<1>8. CASE LookAtSlots
  BY <1>8, LiveFacts DEF LookAtSlots, TypeOK
<1>9. CASE SendReminders \/ \E n \in DOMAIN bookings : RemindNow(n)
  BY <1>9, RemindFacts DEF TypeOK
<1>10. CASE Tick
  BY <1>10 DEF Tick, TypeOK
<1>11. CASE UNCHANGED vars
  BY <1>11 DEF vars, TypeOK
<1> QED BY <1>1, <1>2, <1>3, <1>4, <1>5, <1>6, <1>7, <1>8, <1>9, <1>10, <1>11, NextCases
-----------------------------------------------------------------------------
\* Every step but a reservation leaves the holds alone or lets some go.
LEMMA OthersLetGo ==
    ASSUME TypeOK, [Next]_vars
    PROVE  OnlyLetsGo \/ \E f \in Fans, w \in Windows : Reserve(f, w)
<1>1. ASSUME NEW i \in DOMAIN holds, NEW f \in Fans, PayByCard(f, i) PROVE OnlyLetsGo
  BY <1>1, LiveFacts DEF PayByCard, Confirm, OnlyLetsGo
<1>2. ASSUME NEW p \in Payments, ConfirmAfterPayment(p) PROVE OnlyLetsGo
  BY <1>2, LiveFacts DEF ConfirmAfterPayment, Confirm, OnlyLetsGo
<1>3. ASSUME NEW i \in DOMAIN holds, NEW f \in Fans, NEW p \in Payments,
             NEW k \in Keys \cup {Fresh}, PayFromWallet(p, f, i, k)
      PROVE  OnlyLetsGo
  BY <1>3, LiveFacts DEF PayFromWallet, OnlyLetsGo
<1>4. ASSUME NEW p \in Payments, LedgerPays(p) \/ LedgerRefuses(p) PROVE OnlyLetsGo
  BY <1>4 DEF LedgerPays, LedgerRefuses, OnlyLetsGo
<1>5. ASSUME NEW i \in DOMAIN holds, ReleaseHold(i) PROVE OnlyLetsGo
  BY <1>5 DEF ReleaseHold, OnlyLetsGo
<1>6. CASE SendReminders \/ \E n \in DOMAIN bookings : RemindNow(n)
  BY <1>6, RemindFacts DEF OnlyLetsGo
<1>7. CASE LookAtSlots \/ Tick \/ UNCHANGED vars
  BY <1>7, LiveFacts DEF LookAtSlots, Tick, vars, OnlyLetsGo
<1> QED BY <1>1, <1>2, <1>3, <1>4, <1>5, <1>6, <1>7, NextCases

LEMMA DisjointStep == TypeOK /\ HoldsDisjoint /\ [Next]_vars => HoldsDisjoint'
<1> SUFFICES ASSUME TypeOK, HoldsDisjoint, [Next]_vars PROVE HoldsDisjoint'
  OBVIOUS
<1>1. CASE OnlyLetsGo
  BY <1>1 DEF OnlyLetsGo, HoldsDisjoint
<1>2. ASSUME NEW f \in Fans, NEW w \in Windows, Reserve(f, w) PROVE HoldsDisjoint'
  <2> DEFINE new == Len(holds) + 1
  <2>1. /\ \A i \in DOMAIN holds : holds'[i].window = holds[i].window
        /\ active' \subseteq Live \cup {new}
        /\ new \in active' =>
              \A j \in Live : ~Overlap(holds[j].window, holds'[new].window)
        /\ Live \subseteq active /\ active \subseteq DOMAIN holds
    BY <1>2, AcquireFacts, LiveFacts DEF Reserve, TypeOK
  <2> SUFFICES ASSUME NEW i \in active', NEW j \in active', i # j
               PROVE  ~Overlap(holds'[i].window, holds'[j].window)
    BY DEF HoldsDisjoint
  <2> HIDE DEF new
  <2>2. CASE i \in Live /\ j \in Live
    BY <2>1, <2>2 DEF HoldsDisjoint
  <2>3. CASE i \in Live /\ j = new
    BY <2>1, <2>3
  <2>4. CASE i = new /\ j \in Live
    BY <2>1, <2>4 DEF Overlap
  <2> QED BY <2>1, <2>2, <2>3, <2>4
<1> QED BY <1>1, <1>2, OthersLetGo

\* For any fans, windows, payments and times: every variable keeps its type, and
\* a booking or payment in flight always refers to a hold acquireHold made.
THEOREM SessionsTyped == Spec => []TypeOK
<1>1. Init => TypeOK
  BY InitTyped
<1>2. TypeOK /\ [Next]_vars => TypeOK'
  BY TypeStep
<1> QED BY <1>1, <1>2, PTL DEF Spec

\* For any fans, windows, payments and times: no two active holds of a creator
\* overlap, whatever is reserved, refreshed, released, paid or left to expire.
THEOREM HeldWindowsDisjoint == Spec => []HoldsDisjoint
<1>1. Init => TypeOK /\ HoldsDisjoint
  BY InitTyped
<1>2. TypeOK /\ HoldsDisjoint /\ [Next]_vars => (TypeOK /\ HoldsDisjoint)'
  BY TypeStep, DisjointStep
<1> QED BY <1>1, <1>2, PTL DEF Spec

-----------------------------------------------------------------------------
\* A tip that is accounted for stays so if bookings keep what they say of
\* holds and payers, and no paid payment loses its hold.
LEMMA StillCharged ==
    ASSUME ChargedIsBooked, tips' = tips, DOMAIN bookings \subseteq DOMAIN bookings',
           \A n \in DOMAIN bookings : /\ bookings'[n].hold = bookings[n].hold
                                      /\ bookings'[n].paidBy = bookings[n].paidBy,
           \A q \in Payments : inFlight[q].pc = "confirm" => inFlight'[q] = inFlight[q]
    PROVE  ChargedIsBooked'
  BY DEF ChargedIsBooked

LEMMA ChargedStep == TypeOK /\ ChargedIsBooked /\ [Next]_vars => ChargedIsBooked'
<1> SUFFICES ASSUME TypeOK, ChargedIsBooked, [Next]_vars PROVE ChargedIsBooked'
  OBVIOUS
<1>1. ASSUME NEW f \in Fans, NEW w \in Windows, Reserve(f, w) PROVE ChargedIsBooked'
  BY <1>1 DEF Reserve, ChargedIsBooked
<1>2. ASSUME NEW i \in DOMAIN holds, ReleaseHold(i) PROVE ChargedIsBooked'
  BY <1>2 DEF ReleaseHold, ChargedIsBooked
<1>3. ASSUME NEW i \in DOMAIN holds, NEW f \in Fans, PayByCard(f, i) PROVE ChargedIsBooked'
  <2>1. UNCHANGED <<inFlight, tips>>
    BY <1>3 DEF PayByCard
  <2>2. CASE Confirm(i, "card")
    BY <2>1, <2>2, ConfirmFacts, StillCharged
  <2>3. CASE UNCHANGED bookings
    BY <2>1, <2>3 DEF ChargedIsBooked
  <2> QED BY <1>3, <2>2, <2>3 DEF PayByCard
<1>4. ASSUME NEW i \in DOMAIN holds, NEW f \in Fans, NEW p \in Payments,
             NEW k \in Keys \cup {Fresh}, PayFromWallet(p, f, i, k)
      PROVE  ChargedIsBooked'
  <2>1. UNCHANGED <<bookings, tips>> /\ inFlight[p].pc = "idle"
    BY <1>4 DEF PayFromWallet
  <2>2. \A q \in Payments : q # p => inFlight'[q] = inFlight[q]
    BY <1>4 DEF PayFromWallet, TypeOK
  <2> QED BY <2>1, <2>2, StillCharged
<1>5. ASSUME NEW p \in Payments, LedgerPays(p) PROVE ChargedIsBooked'
  <2> DEFINE i == inFlight[p].hold
             t == [fan |-> holds[i].fan, key |-> inFlight[p].key, hold |-> i]
  <2>1. /\ inFlight[p].pc = "ledger" /\ UNCHANGED bookings
        /\ tips' = tips \/ tips' = Append(tips, t)
        /\ tips \in Seq(Tipped)
    BY <1>5 DEF LedgerPays, TypeOK
  <2>2. /\ inFlight'[p].pc = "confirm" /\ inFlight'[p].paid /\ inFlight'[p].hold = i
        /\ \A q \in Payments : q # p => inFlight'[q] = inFlight[q]
    BY <1>5 DEF LedgerPays, TypeOK, Paying
  <2>3. t.hold = i
    OBVIOUS
  <2> HIDE DEF t, i
  <2>4. \A n \in DOMAIN tips' : tips'[n] = t \/ (n \in DOMAIN tips /\ tips'[n] = tips[n])
    <3>1. CASE tips' = tips
      BY <3>1
    <3>2. CASE tips' = Append(tips, t)
      BY <2>1, <3>2
    <3> QED BY <2>1, <3>1, <3>2
  <2> SUFFICES ASSUME NEW n \in DOMAIN tips'
               PROVE  \/ \E m \in DOMAIN bookings' : /\ bookings'[m].hold = tips'[n].hold
                                                     /\ bookings'[m].paidBy = "wallet"
                      \/ \E q \in Payments : /\ inFlight'[q].pc = "confirm" /\ inFlight'[q].paid
                                             /\ inFlight'[q].hold = tips'[n].hold
    BY DEF ChargedIsBooked
  <2>5. CASE tips'[n] = t
    BY <2>2, <2>3, <2>5
  <2>6. CASE n \in DOMAIN tips /\ tips'[n] = tips[n]
    <3>1. \/ \E m \in DOMAIN bookings : /\ bookings[m].hold = tips[n].hold
                                        /\ bookings[m].paidBy = "wallet"
          \/ \E q \in Payments : /\ inFlight[q].pc = "confirm" /\ inFlight[q].paid
                                 /\ inFlight[q].hold = tips[n].hold
      BY <2>6 DEF ChargedIsBooked
    <3> QED BY <2>1, <2>2, <2>6, <3>1
  <2> QED BY <2>4, <2>5, <2>6
<1>6. ASSUME NEW p \in Payments, LedgerRefuses(p) PROVE ChargedIsBooked'
  <2>1. UNCHANGED <<bookings, tips>> /\ inFlight[p].pc = "ledger"
    BY <1>6 DEF LedgerRefuses
  <2>2. \A q \in Payments : q # p => inFlight'[q] = inFlight[q]
    BY <1>6 DEF LedgerRefuses, TypeOK
  <2> QED BY <2>1, <2>2, StillCharged
<1>7. ASSUME NEW p \in Payments, ConfirmAfterPayment(p) PROVE ChargedIsBooked'
  <2> DEFINE i == inFlight[p].hold
             by == IF inFlight[p].paid THEN "wallet" ELSE "nobody"
  <2>1. /\ i \in DOMAIN holds /\ by \in {"card", "wallet", "nobody"} /\ Confirm(i, by)
        /\ tips' = tips
        /\ \A q \in Payments : q # p => inFlight'[q] = inFlight[q]
        /\ inFlight[p].paid => by = "wallet"
    BY <1>7 DEF ConfirmAfterPayment, TypeOK
  <2>a. i = inFlight[p].hold
    OBVIOUS
  <2> HIDE DEF by, i
  <2>b. Booking(i, by).hold = i /\ Booking(i, by).paidBy = by
    BY DEF Booking
  <2>2. /\ DOMAIN bookings' = DOMAIN bookings \cup {Len(bookings) + 1}
        /\ bookings'[Len(bookings) + 1].hold = i
        /\ bookings'[Len(bookings) + 1].paidBy = by
        /\ \A n \in DOMAIN bookings : bookings'[n] = bookings[n]
    BY <2>1, <2>b, ConfirmFacts
  <2> SUFFICES ASSUME NEW n \in DOMAIN tips
               PROVE  \/ \E m \in DOMAIN bookings' : /\ bookings'[m].hold = tips[n].hold
                                                     /\ bookings'[m].paidBy = "wallet"
                      \/ \E q \in Payments : /\ inFlight'[q].pc = "confirm" /\ inFlight'[q].paid
                                             /\ inFlight'[q].hold = tips[n].hold
    BY <2>1 DEF ChargedIsBooked
  <2>3. CASE \E m \in DOMAIN bookings : bookings[m].hold = tips[n].hold /\ bookings[m].paidBy = "wallet"
    BY <2>2, <2>3
  <2>4. ASSUME NEW q \in Payments, q # p, inFlight[q].pc = "confirm", inFlight[q].paid,
               inFlight[q].hold = tips[n].hold
        PROVE  \E r \in Payments : /\ inFlight'[r].pc = "confirm" /\ inFlight'[r].paid
                                   /\ inFlight'[r].hold = tips[n].hold
    BY <2>1, <2>4
  <2>5. CASE inFlight[p].paid /\ i = tips[n].hold
    BY <2>1, <2>2, <2>5
  <2> QED BY <2>a, <2>3, <2>4, <2>5 DEF ChargedIsBooked
<1>8. CASE LookAtSlots \/ Tick \/ UNCHANGED vars
  BY <1>8 DEF LookAtSlots, Tick, vars, ChargedIsBooked
<1>9. CASE SendReminders \/ \E n \in DOMAIN bookings : RemindNow(n)
  BY <1>9, RemindFacts, StillCharged
<1> QED BY <1>1, <1>2, <1>3, <1>4, <1>5, <1>6, <1>7, <1>8, <1>9, NextCases

\* For any number of payments in flight: a fan whose wallet was charged has a
\* booking, or a payment that will still make it, whatever became of the hold
\* during the payment.
THEOREM ChargedGetBooked == Spec => []ChargedIsBooked
<1>1. Init => TypeOK /\ ChargedIsBooked
  BY InitTyped DEF Init, ChargedIsBooked
<1>2. TypeOK /\ ChargedIsBooked /\ [Next]_vars => (TypeOK /\ ChargedIsBooked)'
  BY TypeStep, ChargedStep
<1> QED BY <1>1, <1>2, PTL DEF Spec
-----------------------------------------------------------------------------
\* Where only cards are used: the invariant, and its step.
CardInv == TypeOK /\ HoldsDisjoint /\ NothingInFlight /\ BookedIsGone /\ BookedOnce

LEMMA CardSteps ==
    ASSUME CardsOnly, TypeOK, NothingInFlight, Next
    PROVE  \/ \E f \in Fans, w \in Windows : Reserve(f, w)
           \/ \E i \in DOMAIN holds, f \in Fans :
                 /\ PayByCard(f, i) /\ Confirm(i, "card")
                 /\ i \in Live /\ holds[i].fan = f
           \/ OnlyLetsGo /\ UNCHANGED bookings
           \/ SendReminders \/ \E n \in DOMAIN bookings : RemindNow(n)
<1>1. ASSUME NEW p \in Payments, LedgerPays(p) \/ LedgerRefuses(p) \/ ConfirmAfterPayment(p)
      PROVE  FALSE
  BY <1>1 DEF NothingInFlight, Idle, LedgerPays, LedgerRefuses, ConfirmAfterPayment
<1>2. ASSUME NEW i \in DOMAIN holds, NEW f \in Fans, NEW p \in Payments,
             NEW k \in Keys \cup {Fresh}, PayFromWallet(p, f, i, k)
      PROVE  FALSE
  BY <1>2 DEF CardsOnly, PayFromWallet
<1>3. ASSUME NEW i \in DOMAIN holds, NEW f \in Fans, PayByCard(f, i)
      PROVE  \/ Confirm(i, "card") /\ i \in Live /\ holds[i].fan = f
             \/ OnlyLetsGo /\ UNCHANGED bookings
  BY <1>3, LiveFacts DEF PayByCard, OnlyLetsGo
<1>4. ASSUME NEW i \in DOMAIN holds, ReleaseHold(i)
      PROVE  OnlyLetsGo /\ UNCHANGED bookings
  BY <1>4 DEF ReleaseHold, OnlyLetsGo
<1>5. CASE LookAtSlots \/ Tick
  BY <1>5, LiveFacts DEF LookAtSlots, Tick, OnlyLetsGo
<1> QED BY <1>1, <1>2, <1>3, <1>4, <1>5, NextCases

LEMMA NothingStep == CardsOnly /\ NothingInFlight /\ [Next]_vars => NothingInFlight'
<1> SUFFICES ASSUME CardsOnly, NothingInFlight, [Next]_vars PROVE NothingInFlight'
  OBVIOUS
<1>1. CASE UNCHANGED inFlight
  BY <1>1 DEF NothingInFlight
<1>2. CASE Next
  <2>1. ASSUME NEW p \in Payments, LedgerPays(p) \/ LedgerRefuses(p) \/ ConfirmAfterPayment(p)
        PROVE  FALSE
    BY <2>1 DEF NothingInFlight, Idle, LedgerPays, LedgerRefuses, ConfirmAfterPayment
  <2>2. ASSUME NEW i \in DOMAIN holds, NEW f \in Fans, NEW p \in Payments,
               NEW k \in Keys \cup {Fresh}, PayFromWallet(p, f, i, k)
        PROVE  FALSE
    BY <2>2 DEF CardsOnly, PayFromWallet
  <2>3. ASSUME NEW i \in DOMAIN holds, NEW f \in Fans, PayByCard(f, i)
        PROVE  UNCHANGED inFlight
    BY <2>3 DEF PayByCard
  <2>4. UNCHANGED inFlight
    BY <1>2, <2>1, <2>2, <2>3, NextCases
       DEF Reserve, ReleaseHold, LookAtSlots, SendReminders, RemindNow, Tick
  <2> QED BY <1>1, <2>4
<1> QED BY <1>1, <1>2 DEF vars

LEMMA CardStep == CardsOnly /\ CardInv /\ [Next]_vars => CardInv'
<1> SUFFICES ASSUME CardsOnly, CardInv, [Next]_vars PROVE CardInv'
  OBVIOUS
<1>1. TypeOK' /\ HoldsDisjoint' /\ NothingInFlight'
  BY TypeStep, DisjointStep, NothingStep DEF CardInv
<1>2. TypeOK /\ NothingInFlight /\ BookedIsGone /\ BookedOnce
  BY DEF CardInv
<1>3. BookedIsGone' /\ BookedOnce'
  <2>1. ASSUME NEW f \in Fans, NEW w \in Windows, Reserve(f, w)
        PROVE  BookedIsGone' /\ BookedOnce'
    <3>1. active' \subseteq Live \cup {Len(holds) + 1} /\ UNCHANGED bookings
      BY <1>2, <2>1, AcquireFacts DEF Reserve
    <3>2. \A n \in DOMAIN bookings : bookings[n].hold \in DOMAIN holds
                                     /\ bookings[n].hold # Len(holds) + 1
      BY <1>2 DEF TypeOK
    <3> QED BY <1>2, <3>1, <3>2, LiveFacts DEF BookedIsGone, BookedOnce
  <2>2. ASSUME NEW i \in DOMAIN holds, Confirm(i, "card"), i \in Live
        PROVE  BookedIsGone' /\ BookedOnce'
    <3>1. Booking(i, "card").hold = i
      BY DEF Booking
    <3>2. /\ DOMAIN bookings' = DOMAIN bookings \cup {Len(bookings) + 1}
          /\ bookings'[Len(bookings) + 1].hold = i
          /\ \A n \in DOMAIN bookings : bookings'[n] = bookings[n]
          /\ active' \subseteq active /\ i \notin active'
      BY <1>2, <2>2, <3>1, ConfirmFacts
    <3>3. \A n \in DOMAIN bookings : bookings[n].hold # i
      BY <1>2, <2>2, LiveFacts DEF BookedIsGone
    <3> QED BY <1>2, <3>2, <3>3 DEF BookedIsGone, BookedOnce
  <2>3. CASE OnlyLetsGo /\ UNCHANGED bookings
    BY <1>2, <2>3 DEF OnlyLetsGo, BookedIsGone, BookedOnce
  <2>4. CASE SendReminders \/ \E n \in DOMAIN bookings : RemindNow(n)
    BY <1>2, <2>4, RemindFacts DEF BookedIsGone, BookedOnce
  <2>5. CASE UNCHANGED vars
    BY <1>2, <2>5 DEF vars, BookedIsGone, BookedOnce
  <2> QED BY <1>2, <2>1, <2>2, <2>3, <2>4, <2>5, CardSteps
<1> QED BY <1>1, <1>3 DEF CardInv

LEMMA InitCard == Init => CardInv
  BY InitTyped DEF Init, CardInv, NothingInFlight, BookedIsGone, BookedOnce

\* For any fans, windows and times, where only cards are used: processPaymentAndConfirm
\* makes at most one booking of a reservation.  Paying from the wallet breaks
\* this: the run twice.
THEOREM CardBookedOnce == CardsOnly => (Spec => []BookedOnce)
<1> SUFFICES ASSUME CardsOnly PROVE Spec => []BookedOnce
  OBVIOUS
<1>1. Init => CardInv
  BY InitCard
<1>2. CardInv /\ [Next]_vars => CardInv'
  BY CardStep
<1>3. CardInv => BookedOnce
  BY DEF CardInv
<1> QED BY <1>1, <1>2, <1>3, PTL DEF Spec

LEMMA CardStepOverHold == CardsOnly /\ CardInv /\ Next => NotOverHold
<1> SUFFICES ASSUME CardsOnly, CardInv, Next,
                    NEW j \in Live, Len(bookings') > Len(bookings),
                    holds[j].fan # bookings'[Len(bookings')].fan
             PROVE  ~Overlap(holds[j].window, bookings'[Len(bookings')].window)
  BY DEF NotOverHold
<1>1. TypeOK /\ NothingInFlight /\ HoldsDisjoint /\ Len(bookings) \in Nat
  BY DEF CardInv, TypeOK
<1>2. ~UNCHANGED bookings
  BY <1>1
<1>3. ~(SendReminders \/ \E n \in DOMAIN bookings : RemindNow(n))
  BY <1>1, RemindFacts
<1>4. PICK i \in DOMAIN holds : Confirm(i, "card") /\ i \in Live
  BY <1>1, <1>2, <1>3, CardSteps DEF Reserve
<1>5. bookings'[Len(bookings')] = Booking(i, "card")
  BY <1>1, <1>4, ConfirmFacts
<1>6. Booking(i, "card").fan = holds[i].fan /\ Booking(i, "card").window = holds[i].window
  BY DEF Booking
<1>7. i # j /\ i \in active /\ j \in active
  BY <1>4, <1>5, <1>6, LiveFacts
<1> QED BY <1>1, <1>5, <1>6, <1>7 DEF HoldsDisjoint

\* For any fans, windows and times, where only cards are used: no booking is
\* made over another fan's live hold.  Paying from the wallet breaks this: the
\* run over_hold.
THEOREM CardNeverOverHold == CardsOnly => (Spec => NoBookingOverHold)
<1> SUFFICES ASSUME CardsOnly PROVE Spec => NoBookingOverHold
  OBVIOUS
<1>1. Init => CardInv
  BY InitCard
<1>2. CardInv /\ [Next]_vars => CardInv'
  BY CardStep
<1>3. CardInv /\ [Next]_vars => [NotOverHold]_vars
  BY CardStepOverHold
<1> QED BY <1>1, <1>2, <1>3, PTL DEF Spec, NoBookingOverHold

=============================================================================
