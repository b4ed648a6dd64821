--------------------------- MODULE Subscriptions ---------------------------
(***************************************************************************)
(* The subscription of one fan to one creator: SubscriptionService changes *)
(* its row on calls of the fan and in the batch that a scheduler starts,   *)
(* SubscriptionPaymentService records what was paid.  No handler uses a    *)
(* transaction: each statement is a step.  Time is in days; a call or a    *)
(* batch ends on the day it began, and the last day stands for all that    *)
(* follow.                                                                 *)
(***************************************************************************)
EXTENDS Integers

CONSTANTS
    MaxCalls,      \* bound: calls of the fan, one after another, under new keys
    MaxBatches,    \* bound: calls of the renewal endpoint in a day
    Period,        \* DEFAULT_BILLING_PERIOD_DAYS
    Grace,         \* DEFAULT_GRACE_PERIOD_DAYS
    MaxAttempts,   \* MAX_FAILED_PAYMENT_ATTEMPTS
    MaxTime,       \* bound: days
    MaxTroubles    \* bound: statements that fail and batches that die

Batches == 1 .. MaxBatches

ASSUME DaysAssumption ==
    /\ Period \in Nat \ {0} /\ Grace \in Nat /\ MaxAttempts \in Nat \ {0}
    /\ MaxTime \in Nat /\ MaxTroubles \in Nat

Never == -1

VARIABLES
    sub,         \* the Subscription row
    payments,    \* the SUCCEEDED rows of SubscriptionPayment
    lost,        \* starts of periods whose payment failed in a call of the fan
    call,        \* where the fan's call stands, and what it read
    made,        \* calls made
    batches,     \* where each batch stands, the date it listed, what it read
    ran,         \* the batches started today
    now,
    troubles,
    stale        \* a renewal has read another end than its batch had listed

rows == <<sub, payments>>
callers == <<call, made, lost>>
history == <<troubles, stale>>
vars == <<rows, callers, batches, ran, now, history>>

NoCall == [pc |-> "none", status |-> "NONE", end |-> Never, pausedAt |-> Never]

Idle == [pc |-> "idle", date |-> Never, end |-> Never, attempts |-> 0, grace |-> Never]

\* The fan has subscribed today and paid, and may have paused at once.
Init ==
    /\ \E paused \in BOOLEAN :
          sub = [status |-> IF paused THEN "PAUSED" ELSE "ACTIVE",
                 start |-> 0, end |-> Period, autoRenew |-> TRUE,
                 cancelAtEnd |-> FALSE, isPaused |-> paused, pausedAt |-> IF paused THEN 0 ELSE Never,
                 attempts |-> 0, grace |-> Never]
    /\ payments = {[kind |-> "call", key |-> 0, start |-> 0]} /\ lost = {}
    /\ call = NoCall /\ made = 0
    /\ batches = [b \in Batches |-> Idle]
    /\ ran = {}
    /\ now = 0 /\ troubles = 0 /\ stale = FALSE

\* Something fails: as often as the bound allows.
Trouble == troubles < MaxTroubles /\ troubles' = troubles + 1

NoTrouble == UNCHANGED troubles

-----------------------------------------------------------------------------
(* Calls of the fan *)

\* What each call demands of the row it reads
Open ==
    [subscribe |-> TRUE,
     cancel    |-> TRUE,
     cancelNow |-> TRUE,
     pause     |-> sub.status = "ACTIVE",
     resume    |-> sub.isPaused \/ sub.status = "PAUSED",
     upgrade   |-> TRUE]

\* Of the row it reads, a call keeps what its UPDATE will need.
Read(op) ==
    /\ call.pc = "none" /\ made < MaxCalls /\ Open[op]
    /\ call' = CASE op = "cancel" -> [NoCall EXCEPT !.pc = op, !.status = sub.status]
                 [] op = "resume" ->
                       [NoCall EXCEPT !.pc = op, !.end = sub.end, !.pausedAt = sub.pausedAt]
                 [] OTHER -> [NoCall EXCEPT !.pc = op]
    /\ made' = made + 1
    /\ UNCHANGED <<rows, lost, batches, ran, now, history>>

FreshPeriod(row) ==
    [row EXCEPT !.status = "ACTIVE", !.start = now, !.end = now + Period,
                !.autoRenew = TRUE, !.cancelAtEnd = FALSE, !.isPaused = FALSE]

\* The UPDATE of each call: columns it does not name keep what is in the row by
\* now, those it does may come from the row it read.
Updated(op) ==
    CASE op = "subscribe" ->
            [FreshPeriod(sub) EXCEPT !.pausedAt = Never, !.attempts = 0, !.grace = Never]
      [] op = "upgrade" -> FreshPeriod(sub)
      [] op = "cancel" ->
            [sub EXCEPT !.autoRenew = FALSE, !.cancelAtEnd = TRUE, !.status = call.status]
      [] op = "cancelNow" ->
            [sub EXCEPT !.autoRenew = FALSE, !.cancelAtEnd = FALSE, !.status = "CANCELED"]
      [] op = "pause" -> [sub EXCEPT !.isPaused = TRUE, !.pausedAt = now, !.status = "PAUSED"]
      [] op = "resume" ->
            [sub EXCEPT !.isPaused = FALSE, !.pausedAt = Never, !.status = "ACTIVE",
                        !.end = call.end + (IF call.pausedAt = Never THEN 0
                                            ELSE now - call.pausedAt)]

Change ==
    /\ call.pc \in DOMAIN Open
    /\ sub' = Updated(call.pc)
    /\ call' = IF call.pc \in {"subscribe", "upgrade"} THEN [NoCall EXCEPT !.pc = "pay"] ELSE NoCall
    /\ UNCHANGED <<payments, made, lost, batches, ran, now, history>>

\* recordPayment comes after the row was changed, and may fail.
Pay ==
    /\ call.pc = "pay" /\ call' = NoCall
    /\ \/ /\ payments' = payments \cup {[kind |-> "call", key |-> now, start |-> now]}
          /\ NoTrouble /\ UNCHANGED lost
       \/ Trouble /\ lost' = lost \cup {now} /\ UNCHANGED payments
    /\ UNCHANGED <<sub, made, batches, ran, now, stale>>

-----------------------------------------------------------------------------
(* processDueRenewalsBatch, then expireStalePastDueBatch *)

\* renewalDate and currentPeriodEnd are always written together.
Due(row) ==
    /\ row.end <= now /\ row.autoRenew
    /\ row.status \in {"ACTIVE", "PAST_DUE"} /\ ~row.isPaused

\* The batches of a day start in their order; on the last day, again and again.
\* One that finds nothing due and nothing past due would change nothing.  What it
\* does with a row that is due hangs on the row as it was listed.
List(b) ==
    /\ batches[b].pc = "idle"
    /\ Due(sub) \/ sub.status = "PAST_DUE"
    /\ b \notin ran \/ now = MaxTime
    /\ 1 .. b - 1 \subseteq ran
    /\ ran' = ran \cup {b}
    /\ batches' = [batches EXCEPT ![b] =
          IF Due(sub)
          THEN [Idle EXCEPT !.pc = IF sub.cancelAtEnd THEN "cancel" ELSE "read", !.date = sub.end]
          ELSE [Idle EXCEPT !.pc = "expire"]]
    /\ UNCHANGED <<rows, callers, now, history>>

Goes(b, from, to) ==
    /\ batches[b].pc = from
    /\ batches' = [batches EXCEPT ![b] =
          IF to \in {"expire", "idle"} THEN [Idle EXCEPT !.pc = to] ELSE [@ EXCEPT !.pc = to]]

\* A row that was listed with its end asked for, which is due since a failed renewal
\* turned autoRenew on again, is cancelled whatever has become of it.
CancelDue(b) ==
    /\ Goes(b, "cancel", "expire")
    /\ sub' = [sub EXCEPT !.status = "CANCELED", !.autoRenew = FALSE]
    /\ UNCHANGED <<payments, callers, ran, now, history>>

\* renew reads the row again; what it refuses ends the whole batch.
ReadSub(b) ==
    /\ batches[b].pc = "read"
    /\ batches' = [batches EXCEPT ![b] =
          IF ~sub.autoRenew \/ sub.status \in {"EXPIRED", "CANCELED"} THEN Idle
          ELSE [@ EXCEPT !.pc = "pay", !.end = sub.end,
                         !.attempts = sub.attempts, !.grace = sub.grace]]
    /\ stale' = (stale \/ sub.end # batches[b].date)
    /\ UNCHANGED <<rows, callers, ran, now, troubles>>

\* Wrong on purpose: the key names the day of the attempt.
KeyOfToday(b) == now

\* cron_renew_<subscription>_<renewalDate of the listed row>
RenewalKey(b) == batches[b].date

Recorded(key) == \E p \in payments : p.kind = "renewal" /\ p.key = key

\* Wrong on purpose: a renewal that was paid before needs nothing more.
FindAndLeave(b) ==
    /\ Goes(b, "pay", IF Recorded(RenewalKey(b)) THEN "expire" ELSE "create")
    /\ UNCHANGED <<rows, callers, ran, now, history>>

\* recordPayment finds the key, or does not and goes on to create the row
Find(b) ==
    /\ Goes(b, "pay", IF Recorded(RenewalKey(b)) THEN "update" ELSE "create")
    /\ UNCHANGED <<rows, callers, ran, now, history>>

Renewal(b) == [kind |-> "renewal", key |-> RenewalKey(b), start |-> batches[b].end]

\* Wrong on purpose: a payment that cannot be recorded is none of our concern.
CreateDropsErrors(b) ==
    /\ Goes(b, "create", "update")
    /\ \/ /\ ~Recorded(RenewalKey(b)) /\ NoTrouble
          /\ payments' = payments \cup {Renewal(b)}
       \/ Trouble /\ UNCHANGED payments
    /\ UNCHANGED <<sub, callers, ran, now, stale>>

\* The unique key makes the row fail that another batch has recorded meanwhile.
Create(b) ==
    /\ \/ /\ Goes(b, "create", "update") /\ ~Recorded(RenewalKey(b)) /\ NoTrouble
          /\ payments' = payments \cup {Renewal(b)}
       \/ /\ Goes(b, "create", "fail")
          /\ IF Recorded(RenewalKey(b)) THEN NoTrouble ELSE Trouble
          /\ UNCHANGED payments
    /\ UNCHANGED <<sub, callers, ran, now, stale>>

Update(b) ==
    LET read == batches[b]
    IN  /\ \/ /\ Goes(b, "update", "expire") /\ NoTrouble
              /\ sub' = [sub EXCEPT !.status = "ACTIVE", !.start = read.end,
                                    !.end = read.end + Period,
                                    !.attempts = 0, !.grace = Never]
           \/ Goes(b, "update", "fail") /\ Trouble /\ UNCHANGED sub
        /\ UNCHANGED <<payments, callers, ran, now, stale>>

GraceEnd(row) == IF row.grace = Never THEN now + Grace ELSE row.grace

\* handleRenewalFailure, from the row as it was read
Fail(b) ==
    LET read == batches[b]
        attempts == read.attempts + 1
        expired == attempts >= MaxAttempts \/ now > GraceEnd(read)
    IN  /\ Goes(b, "fail", "expire")
        /\ sub' = [sub EXCEPT !.status = IF expired THEN "EXPIRED" ELSE "PAST_DUE",
                              !.attempts = attempts, !.grace = GraceEnd(read),
                              !.autoRenew = ~expired]
        /\ UNCHANGED <<payments, callers, ran, now, history>>

\* Wrong on purpose: only subscriptions that would renew are looked at.
ExpireRenewing(b) ==
    /\ Goes(b, "expire", "idle")
    /\ sub' = IF sub.status = "PAST_DUE" /\ sub.grace \in 0 .. now - 1 /\ sub.autoRenew
              THEN [sub EXCEPT !.status = "EXPIRED", !.autoRenew = FALSE] ELSE sub
    /\ UNCHANGED <<payments, callers, ran, now, history>>

\* A NULL gracePeriodEndsAt is not before anything.
Expire(b) ==
    /\ Goes(b, "expire", "idle")
    /\ sub' = IF sub.status = "PAST_DUE" /\ sub.grace \in 0 .. now - 1
              THEN [sub EXCEPT !.status = "EXPIRED", !.autoRenew = FALSE] ELSE sub
    /\ UNCHANGED <<payments, callers, ran, now, history>>

\* The process dies, or a statement throws that nothing catches.
Abort(b) ==
    /\ batches[b].pc # "idle" /\ Trouble
    /\ batches' = [batches EXCEPT ![b] = Idle]
    /\ UNCHANGED <<rows, callers, ran, now, stale>>

-----------------------------------------------------------------------------
Tick ==
    /\ now < MaxTime
    /\ call.pc = "none"
    /\ \A b \in Batches : batches[b].pc = "idle"
    /\ now' = now + 1
    /\ ran' = {}
    /\ UNCHANGED <<rows, callers, batches, history>>

BatchStep(b) ==
    CancelDue(b) \/ ReadSub(b) \/ Find(b) \/ Create(b) \/ Update(b) \/ Fail(b) \/ Expire(b)

Next ==
    \/ \E op \in DOMAIN Open : Read(op)
    \/ Change \/ Pay
    \/ \E b \in Batches : List(b) \/ BatchStep(b) \/ Abort(b)
    \/ Tick

Spec == Init /\ [][Next]_vars

\* The scheduler calls the endpoint again and again, what was begun goes on, and
\* time passes.
Fairness ==
    /\ WF_vars(Change \/ Pay)
    /\ \A b \in Batches : WF_vars(List(b)) /\ WF_vars(BatchStep(b))
    /\ WF_vars(Tick)

FairSpec == Spec /\ Fairness

-----------------------------------------------------------------------------
(* Properties *)

\* Nobody gets a period for nothing: the current one is paid, or a call of the fan
\* is still paying or has failed at it, though batches overlap, fail, and die
\* between the payment and the row.  The one exception: a renewal under the key of
\* a date that was listed before another batch or the fan moved the period.
PeriodIsPaid ==
    ~stale =>
        \/ \E p \in payments : p.start = sub.start
        \/ sub.start \in lost
        \/ sub.start = now /\ call.pc = "pay"

\* With the same exception, a renewal is paid once, by however many overlapping,
\* dying and repeated batches.
RenewedOnce ==
    ~stale =>
        \A p, q \in payments :
            p.kind = "renewal" /\ q.kind = "renewal" /\ p.start = q.start => p = q

\* A renewal that was paid is given: when a batch dies or fails after the payment,
\* a later one moves the end past the period paid for, unless the fan has cancelled
\* or paused or the subscription has ended.  Cancelling and ending turn autoRenew off;
\* a renewal that fails after the fan has cancelled turns it on again, and the next
\* batch off.
PaidIsGiven ==
    \A day \in Period .. MaxTime :
        (\E p \in payments : p.kind = "renewal" /\ p.start = day)
            ~> (sub.end >= day + Period \/ ~sub.autoRenew \/ sub.isPaused)

\* A cancel that read the row past due has put that status back over a renewal, which
\* had cleared the grace: no batch lists the row, and none expires it.
Stranded == sub.status = "PAST_DUE" /\ sub.grace = Never /\ ~sub.autoRenew

\* A subscription does not stay past due: it is renewed or cancelled, or it ends at
\* the latest when its grace has run out, also when the fan cancelled meanwhile.  The
\* one exception: a cancel that overlaps the renewal strands it.
PastDueEnds ==
    sub.status = "PAST_DUE" /\ sub.grace < MaxTime
        ~> (sub.status # "PAST_DUE" \/ Stranded)
=============================================================================
