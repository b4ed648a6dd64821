--------------------------- MODULE PrivateSessions ---------------------------
(***************************************************************************)
(* Private sessions: ReservationLockService keeps a ten minute hold on a   *)
(* time window while its fan checks out, PrivateBookingService takes the   *)
(* payment and turns the hold into a booking.  Both live in the memory of  *)
(* one Node process, so a handler runs alone up to its first await; the    *)
(* only await is the wallet payment, and anything may happen during it.    *)
(*                                                                         *)
(* A hold whose status is no longer ACTIVE is invisible to every operation *)
(* even while the map still has it: active is the set of ACTIVE ones.      *)
(***************************************************************************)
EXTENDS Integers, Sequences, FiniteSets, FiniteSetsExt

CONSTANTS
    Fans,
    Windows,         \* bookable windows, [creator, start, end] in ticks
    Payments,        \* wallet payments that may be in flight at once
    Keys,            \* idempotency keys clients send with a payment
    Fresh,           \* no key sent: the server makes one up
    Methods,         \* payment methods in use
    TicksPerSecond,
    HoldTicks,       \* how long a hold lasts
    RemindAhead,     \* how long before the start a reminder is due
    MaxTime,         \* bound: clock
    MaxHolds,        \* bound: holds ever made
    MaxBookings      \* bound: bookings

ASSUME TimesAssumption ==
    /\ Windows \subseteq [creator : STRING, start : Nat, end : Nat]
    /\ {TicksPerSecond, HoldTicks} \subseteq Nat \ {0}
    /\ {RemindAhead, MaxTime, MaxHolds, MaxBookings} \subseteq Nat
ASSUME MethodsAssumption ==
    Methods \subseteq {"FIAT_CARD", "WALLET_TOKENS"} /\ Fresh \notin Keys

VARIABLES
    now,
    holds,      \* every hold ever made, in order: [fan, window, expires]
    active,     \* the ACTIVE ones in the map
    bookings,   \* PrivateBookingRecords in order
    inFlight,   \* where each wallet payment stands
    tips        \* LIVE_TIP rows the payments made, [fan, key, hold]

vars == <<now, holds, active, bookings, inFlight, tips>>

Overlap(v, w) == v.creator = w.creator /\ v.start < w.end /\ w.start < v.end

Hold(fan, window) == [fan |-> fan, window |-> window, expires |-> now + HoldTicks]

Idle == [pc |-> "idle", hold |-> 0, key |-> Fresh, paid |-> FALSE]

\* The demo booking the store is seeded with came from no hold; it is left out.
Init ==
    /\ now = 0
    /\ holds = <<>>
    /\ active = {}
    /\ bookings = <<>>
    /\ inFlight = [p \in Payments |-> Idle]
    /\ tips = <<>>

-----------------------------------------------------------------------------
(* ReservationLockService *)

\* cleanExpiredHolds
Live == {i \in active : holds[i].expires > now}

\* Wrong on purpose: only the very same window conflicts.
ConflictsExactly(w) == {i \in Live : holds[i].window = w}

Conflicts(w) == {i \in Live : Overlap(holds[i].window, w)}

UsableLapsed(i) == i \in DOMAIN holds   \* wrong on purpose: any hold will do

\* getHold: a hold with less than a whole second left counts as expired.
Usable(i) == i \in Live /\ holds[i].expires - now >= TicksPerSecond

AfterGet(i) == IF Usable(i) THEN Live ELSE Live \ {i}

\* Wrong on purpose: a new hold is promised and never stored.
AcquireUnstored(f, w) ==
    /\ Conflicts(w) = {}
    /\ active' = Live \cup {Len(holds) + 1}
    /\ UNCHANGED holds

\* acquireHold, by way of reserveSlot: the bookings are not looked at, and the
\* first conflicting hold decides.
AcquireHold(f, w) ==
    \/ /\ Conflicts(w) = {}
       /\ Len(holds) < MaxHolds
       /\ holds' = Append(holds, Hold(f, w))
       /\ active' = Live \cup {Len(holds) + 1}
    \/ /\ Conflicts(w) # {}
       /\ LET i == Min(Conflicts(w))
          IN  holds' = IF holds[i].fan = f
                       THEN [holds EXCEPT ![i] = Hold(f, holds[i].window)]
                       ELSE holds
       /\ active' = Live

Reserve(f, w) ==
    /\ AcquireHold(f, w)
    /\ UNCHANGED <<now, bookings, inFlight, tips>>

\* The client gives up its reservation, whatever is being paid.
ReleaseHold(i) ==
    /\ i \in active
    /\ active' = active \ {i}
    /\ UNCHANGED <<now, holds, bookings, inFlight, tips>>

\* Any look at the slots of a day, through isWindowHeld.
LookAtSlots ==
    /\ active' = Live
    /\ UNCHANGED <<now, holds, bookings, inFlight, tips>>

-----------------------------------------------------------------------------
(* PrivateBookingService *)

Booking(i, by) ==
    [hold |-> i, fan |-> holds[i].fan, window |-> holds[i].window, paidBy |-> by,
     status |-> "CONFIRMED", reminded |-> FALSE]

\* confirmHold takes the hold out of the map if it is still usable; the booking
\* is made from the hold read at the start either way.
Confirm(i, by) ==
    /\ Len(bookings) < MaxBookings
    /\ active' = Live \ {i}
    /\ bookings' = Append(bookings, Booking(i, by))

\* A card payment has no await: check, confirm and booking are one step.
PayByCard(f, i) ==
    /\ "FIAT_CARD" \in Methods
    /\ IF Usable(i) /\ holds[i].fan = f
       THEN Confirm(i, "card")
       ELSE active' = AfterGet(i) /\ UNCHANGED bookings
    /\ UNCHANGED <<now, holds, inFlight, tips>>

PayFromWallet(p, f, i, k) ==
    /\ "WALLET_TOKENS" \in Methods
    /\ inFlight[p].pc = "idle"
    /\ active' = AfterGet(i)
    /\ IF Usable(i) /\ holds[i].fan = f
       THEN inFlight' = [inFlight EXCEPT ![p] =
                            [pc |-> "ledger", hold |-> i, key |-> k, paid |-> FALSE]]
       ELSE UNCHANGED inFlight
    /\ UNCHANGED <<now, holds, bookings, tips>>

\* processLiveTip commits, or answers a known key with the old row.
LedgerPays(p) ==
    LET k == inFlight[p].key
        known == k # Fresh /\ \E t \in DOMAIN tips : tips[t].key = k
    IN  /\ inFlight[p].pc = "ledger"
        /\ tips' = IF known THEN tips
                   ELSE Append(tips, [fan |-> holds[inFlight[p].hold].fan, key |-> k,
                                      hold |-> inFlight[p].hold])
        /\ inFlight' = [inFlight EXCEPT ![p].pc = "confirm", ![p].paid = TRUE]
        /\ UNCHANGED <<now, holds, active, bookings>>

\* It throws; the error is logged and the booking goes on.
LedgerRefuses(p) ==
    /\ inFlight[p].pc = "ledger"
    /\ inFlight' = [inFlight EXCEPT ![p].pc = "confirm"]
    /\ UNCHANGED <<now, holds, active, bookings, tips>>

\* Wrong on purpose: a hold that lapsed during the payment fails the booking.
ConfirmStrictly(p) ==
    /\ inFlight[p].pc = "confirm"
    /\ IF Usable(inFlight[p].hold)
       THEN Confirm(inFlight[p].hold, IF inFlight[p].paid THEN "wallet" ELSE "nobody")
       ELSE active' = AfterGet(inFlight[p].hold) /\ UNCHANGED bookings
    /\ inFlight' = [inFlight EXCEPT ![p] = Idle]
    /\ UNCHANGED <<now, holds, tips>>

ConfirmAfterPayment(p) ==
    /\ inFlight[p].pc = "confirm"
    /\ Confirm(inFlight[p].hold, IF inFlight[p].paid THEN "wallet" ELSE "nobody")
    /\ inFlight' = [inFlight EXCEPT ![p] = Idle]
    /\ UNCHANGED <<now, holds, tips>>

-----------------------------------------------------------------------------
(* Reminders *)

Due(b) == /\ b.status = "CONFIRMED" /\ ~b.reminded
          /\ b.window.start - now \in 0 .. RemindAhead

\* checkAndDispatchReminders: all bookings that are due, at once.
SendReminders ==
    /\ bookings' = [n \in DOMAIN bookings |->
          IF Due(bookings[n])
          THEN [bookings[n] EXCEPT !.status = "REMINDER_SENT", !.reminded = TRUE]
          ELSE bookings[n]]
    /\ UNCHANGED <<now, holds, active, inFlight, tips>>

\* triggerImmediateReminder
RemindNow(n) ==
    /\ bookings' = [bookings EXCEPT ![n].reminded = TRUE]
    /\ UNCHANGED <<now, holds, active, inFlight, tips>>

Tick ==
    /\ now < MaxTime
    /\ now' = now + 1
    /\ UNCHANGED <<holds, active, bookings, inFlight, tips>>

Next ==
    \/ \E f \in Fans, w \in Windows : Reserve(f, w)
    \/ \E i \in DOMAIN holds :
          \/ ReleaseHold(i)
          \/ \E f \in Fans : PayByCard(f, i)
          \/ \E f \in Fans, p \in Payments, k \in Keys \cup {Fresh} : PayFromWallet(p, f, i, k)
    \/ \E p \in Payments : LedgerPays(p) \/ LedgerRefuses(p) \/ ConfirmAfterPayment(p)
    \/ LookAtSlots \/ SendReminders
    \/ \E n \in DOMAIN bookings : RemindNow(n)
    \/ Tick

Spec == Init /\ [][Next]_vars

-----------------------------------------------------------------------------
(* Properties *)

Held == [fan : Fans, window : Windows, expires : Nat]
Booked == [hold : Nat, fan : Fans, window : Windows, paidBy : {"card", "wallet", "nobody"},
           status : {"CONFIRMED", "REMINDER_SENT"}, reminded : BOOLEAN]
Paying == [pc : {"idle", "ledger", "confirm"}, hold : Nat, key : Keys \cup {Fresh},
           paid : BOOLEAN]
Tipped == [fan : Fans, key : Keys \cup {Fresh}, hold : Nat]

\* Every variable has its type, and bookings and payments refer to holds that
\* were made.
TypeOK ==
    /\ now \in Nat
    /\ holds \in Seq(Held)
    /\ active \subseteq DOMAIN holds
    /\ bookings \in Seq(Booked)
    /\ \A n \in DOMAIN bookings : bookings[n].hold \in DOMAIN holds
    /\ inFlight \in [Payments -> Paying]
    /\ \A p \in Payments : inFlight[p].pc # "idle" => inFlight[p].hold \in DOMAIN holds
    /\ tips \in Seq(Tipped)

\* No two active holds of a creator overlap, however reservations, releases,
\* refreshes and expiries interleave: a picked slot is nobody else's.
HoldsDisjoint ==
    \A i, j \in active : i # j => ~Overlap(holds[i].window, holds[j].window)

NotOverHold ==
    \A i \in Live :
        Len(bookings') > Len(bookings) /\ holds[i].fan # bookings'[Len(bookings')].fan
        => ~Overlap(holds[i].window, bookings'[Len(bookings')].window)

\* "No other fan can ... double-book the same slot while the hold is active":
\* no booking is made over another fan's hold.
NoBookingOverHold == [][NotOverHold]_vars

\* A reservation becomes at most one booking.
BookedOnce ==
    \A m, n \in DOMAIN bookings : bookings[m].hold = bookings[n].hold => m = n

\* Nobody pays for nothing: every tip a payment made belongs to a booking of
\* the fan, or to a payment that will still make it, also when the hold lapsed
\* or was released while the ledger was at work.
ChargedIsBooked ==
    \A t \in DOMAIN tips :
        \/ \E n \in DOMAIN bookings :
              bookings[n].hold = tips[t].hold /\ bookings[n].paidBy = "wallet"
        \/ \E p \in Payments :
              inFlight[p].pc = "confirm" /\ inFlight[p].paid /\ inFlight[p].hold = tips[t].hold

-----------------------------------------------------------------------------
(* What the code or its documents say and the code does not keep *)

\* No two bookings of a creator overlap.
NoDoubleBooking ==
    \A m, n \in DOMAIN bookings :
        m # n => ~Overlap(bookings[m].window, bookings[n].window)
=============================================================================
