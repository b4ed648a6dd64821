------------------------ MODULE SubscriptionsProofs -------------------------
(***************************************************************************)
(* For any number of calls, overlapping batches, days and failures: unless *)
(* a renewal has read another end than its batch had listed, a renewal is  *)
(* paid once and the current period is paid.                               *)
(*                                                                         *)
(* The argument.  The unique key of a payment names the listed date; as    *)
(* long as that date is the end renew reads, key and start of a renewal    *)
(* agree, so the unique key makes the period unique, and a batch that      *)
(* moves the period moves it to a start its key has paid for.              *)
(***************************************************************************)
EXTENDS Subscriptions, TLAPS

Statuses == {"ACTIVE", "PAUSED", "PAST_DUE", "EXPIRED", "CANCELED"}

Calls == {"subscribe", "cancel", "cancelNow", "pause", "resume", "upgrade"}

Sub == [status : Statuses \cup {"NONE"}, start : Int, end : Int, autoRenew : BOOLEAN,
        cancelAtEnd : BOOLEAN, isPaused : BOOLEAN, pausedAt : Int, attempts : Nat, grace : Int]

Call == [pc : Calls \cup {"none", "pay"}, status : Statuses \cup {"NONE"}, end : Int, pausedAt : Int]

Batch == [pc : {"idle", "cancel", "read", "pay", "create", "update", "fail", "expire"},
          date : Int, end : Int, attempts : Nat, grace : Int]

Payment == [kind : {"call", "renewal"}, key : Int, start : Int]

TypeOK ==
    /\ sub \in Sub /\ call \in Call /\ now \in Nat
    /\ payments \in SUBSET Payment /\ lost \in SUBSET Int
    /\ batches \in [Batches -> Batch]
    /\ stale \in BOOLEAN

\* The unique key of recordPayment
KeysAreUnique ==
    \A p, q \in payments :
        p.kind = "renewal" /\ q.kind = "renewal" /\ p.key = q.key => p = q

\* A batch that is to move the period has found or recorded a payment under its key.
PaidFirst == \A b \in Batches : batches[b].pc = "update" => Recorded(batches[b].date)

\* As long as nothing was stale, the key of a renewal is the start of its period.
KeysAreStarts ==
    ~stale =>
        /\ \A b \in Batches : batches[b].pc \in {"pay", "create", "update", "fail"} =>
              batches[b].end = batches[b].date
        /\ \A p \in payments : p.kind = "renewal" => p.start = p.key

IInv == TypeOK /\ KeysAreUnique /\ PaidFirst /\ KeysAreStarts /\ PeriodIsPaid

-----------------------------------------------------------------------------
LEMMA NeverIsInt == Never \in Int
BY DEF Never

LEMMA InitInv == Init => IInv
<1> SUFFICES ASSUME Init PROVE IInv
  OBVIOUS
<1>1. /\ payments = {[kind |-> "call", key |-> 0, start |-> 0]} /\ lost = {}
      /\ call = NoCall /\ batches = [b \in Batches |-> Idle] /\ now = 0 /\ stale = FALSE
  BY DEF Init
<1>2. sub \in Sub /\ sub.start = 0
  BY DaysAssumption DEF Init, Sub, Statuses, Never
<1>3. NoCall \in Call /\ Idle \in Batch /\ Idle.pc = "idle"
  BY DEF NoCall, Idle, Call, Batch, Never
<1>4. TypeOK
  <2>1. payments \in SUBSET Payment
    BY <1>1 DEF Payment
  <2>2. batches \in [Batches -> Batch]
    BY <1>1, <1>3
  <2> QED
    BY <1>1, <1>2, <1>3, <2>1, <2>2 DEF TypeOK
<1>5. KeysAreUnique /\ PaidFirst /\ KeysAreStarts
  BY <1>1, <1>3 DEF KeysAreUnique, PaidFirst, KeysAreStarts
<1>6. PeriodIsPaid
  BY <1>1, <1>2 DEF PeriodIsPaid
<1> QED
  BY <1>4, <1>5, <1>6 DEF IInv

\* Where a batch goes keeps what it listed and read, or forgets it.
LEMMA GoesFacts ==
    ASSUME TypeOK, NEW b \in Batches, NEW from,
           NEW to \in {"create", "update", "fail", "expire", "idle"}, Goes(b, from, to)
    PROVE  /\ batches[b].pc = from /\ batches[b] \in Batch
           /\ batches' \in [Batches -> Batch] /\ batches'[b].pc = to
           /\ to \in {"create", "update", "fail"} =>
                 batches'[b].date = batches[b].date /\ batches'[b].end = batches[b].end
           /\ \A a \in Batches \ {b} : batches'[a] = batches[a]
<1> DEFINE new == IF to \in {"expire", "idle"} THEN [Idle EXCEPT !.pc = to]
                  ELSE [batches[b] EXCEPT !.pc = to]
<1>1. batches \in [Batches -> Batch] /\ batches[b] \in Batch
  BY DEF TypeOK
<1>2. batches' = [batches EXCEPT ![b] = new]
  BY DEF Goes
<1>3. /\ new \in Batch /\ new.pc = to
      /\ to \in {"create", "update", "fail"} =>
            new.date = batches[b].date /\ new.end = batches[b].end
  BY <1>1 DEF Idle, Batch, Never
<1> HIDE DEF new
<1> QED
  BY <1>1, <1>2, <1>3 DEF Goes

\* A step of batches that records nothing and changes no period
LEMMA BatchOnly ==
    ASSUME IInv, NEW b \in Batches, UNCHANGED <<payments, callers, now, stale>>,
           sub' \in Sub, sub'.start = sub.start,
           batches' \in [Batches -> Batch],
           \A a \in Batches \ {b} : batches'[a] = batches[a],
           batches'[b].pc = "update" => Recorded(batches'[b].date),
           ~stale /\ batches'[b].pc \in {"pay", "create", "update", "fail"} =>
               batches'[b].end = batches'[b].date
    PROVE  IInv'
<1>1. UNCHANGED <<payments, call, lost, now, stale>>
  BY DEF callers
<1>2. TypeOK'
  BY <1>1 DEF IInv, TypeOK
<1>3. KeysAreUnique'
  BY <1>1 DEF IInv, KeysAreUnique
<1>4. PaidFirst'
  BY <1>1 DEF IInv, PaidFirst, Recorded
<1>5. KeysAreStarts'
  BY <1>1 DEF IInv, KeysAreStarts
<1>6. PeriodIsPaid'
  BY <1>1 DEF IInv, PeriodIsPaid
<1> QED
  BY <1>2, <1>3, <1>4, <1>5, <1>6 DEF IInv

LEMMA ListStep == ASSUME IInv, NEW b \in Batches, List(b) PROVE IInv'
<1> DEFINE to == IF sub.cancelAtEnd THEN "cancel" ELSE "read"
           new == IF Due(sub) THEN [Idle EXCEPT !.pc = to, !.date = sub.end]
                  ELSE [Idle EXCEPT !.pc = "expire"]
<1>1. /\ batches' = [batches EXCEPT ![b] = new]
      /\ UNCHANGED <<sub, payments, callers, now, stale>>
  BY DEF List, rows, history
<1>2. new \in Batch /\ new.pc \in {"cancel", "read", "expire"}
  <2>1. sub.end \in Int
    BY DEF IInv, TypeOK, Sub
  <2>2. Idle \in Batch
    BY DEF Idle, Batch, Never
  <2>3. /\ [Idle EXCEPT !.pc = to, !.date = sub.end] \in Batch
        /\ [Idle EXCEPT !.pc = to, !.date = sub.end].pc \in {"cancel", "read"}
    BY <2>1, <2>2 DEF Batch
  <2>4. [Idle EXCEPT !.pc = "expire"] \in Batch /\ [Idle EXCEPT !.pc = "expire"].pc = "expire"
    BY <2>2 DEF Batch
  <2> QED
    BY <2>3, <2>4
<1> HIDE DEF new
<1> QED
  BY <1>1, <1>2, BatchOnly DEF IInv, TypeOK

LEMMA CancelDueStep == ASSUME IInv, NEW b \in Batches, CancelDue(b) PROVE IInv'
<1>1. /\ Goes(b, "cancel", "expire") /\ UNCHANGED <<payments, callers, now, stale>>
      /\ sub' = [sub EXCEPT !.status = "CANCELED", !.autoRenew = FALSE]
  BY DEF CancelDue, history
<1>2. /\ batches' \in [Batches -> Batch] /\ batches'[b].pc = "expire"
      /\ \A a \in Batches \ {b} : batches'[a] = batches[a]
  BY <1>1, GoesFacts DEF IInv
<1>3. sub' \in Sub /\ sub'.start = sub.start
  BY <1>1 DEF IInv, TypeOK, Sub, Statuses
<1> QED
  BY <1>1, <1>2, <1>3, BatchOnly

LEMMA ReadSubStep == ASSUME IInv, NEW b \in Batches, ReadSub(b) PROVE IInv'
<1> DEFINE new == IF ~sub.autoRenew \/ sub.status \in {"EXPIRED", "CANCELED"} THEN Idle
                  ELSE [batches[b] EXCEPT !.pc = "pay", !.end = sub.end,
                                          !.attempts = sub.attempts, !.grace = sub.grace]
<1>1. /\ batches' = [batches EXCEPT ![b] = new]
      /\ stale' = (stale \/ sub.end # batches[b].date)
      /\ UNCHANGED <<sub, payments, call, lost, now>>
  BY DEF ReadSub, rows, callers
<1>2. batches[b] \in Batch /\ sub \in Sub
  BY DEF IInv, TypeOK
<1>3. /\ new \in Batch /\ new.pc \in {"idle", "pay"}
      /\ new.pc = "pay" => new.end = sub.end /\ new.date = batches[b].date
  <2>1. Idle \in Batch /\ Idle.pc = "idle"
    BY DEF Idle, Batch, Never
  <2>2. sub.end \in Int /\ sub.attempts \in Nat /\ sub.grace \in Int
    BY <1>2 DEF Sub
  <2> DEFINE next == [batches[b] EXCEPT !.pc = "pay", !.end = sub.end,
                                        !.attempts = sub.attempts, !.grace = sub.grace]
  <2>3. /\ next \in Batch /\ next.pc = "pay" /\ next.end = sub.end
        /\ next.date = batches[b].date
    BY <1>2, <2>2 DEF Batch
  <2> HIDE DEF next
  <2>4. new = Idle \/ new = next
    BY DEF next
  <2> QED
    BY <2>1, <2>3, <2>4
<1> HIDE DEF new
<1>4. /\ batches'[b] = new /\ \A a \in Batches \ {b} : batches'[a] = batches[a]
      /\ batches' \in [Batches -> Batch]
  BY <1>1, <1>3 DEF IInv, TypeOK
<1>5. TypeOK'
  BY <1>1, <1>4 DEF IInv, TypeOK
<1>6. KeysAreUnique'
  BY <1>1 DEF IInv, KeysAreUnique
<1>7. PaidFirst'
  BY <1>1, <1>3, <1>4 DEF IInv, PaidFirst, Recorded
<1>8. KeysAreStarts'
  BY <1>1, <1>3, <1>4 DEF IInv, KeysAreStarts
<1>9. PeriodIsPaid'
  BY <1>1 DEF IInv, PeriodIsPaid
<1> QED
  BY <1>5, <1>6, <1>7, <1>8, <1>9 DEF IInv

LEMMA FindStep == ASSUME IInv, NEW b \in Batches, Find(b) PROVE IInv'
<1>1. /\ UNCHANGED <<sub, payments, callers, now, stale>>
      /\ Goes(b, "pay", IF Recorded(RenewalKey(b)) THEN "update" ELSE "create")
  BY DEF Find, rows, history
<1>2. CASE Recorded(RenewalKey(b))
  <2>1. Goes(b, "pay", "update")
    BY <1>1, <1>2
  <2>2. Recorded(batches[b].date)
    BY <1>2 DEF RenewalKey
  <2>3. /\ batches[b].pc = "pay" /\ batches' \in [Batches -> Batch]
        /\ batches'[b].date = batches[b].date /\ batches'[b].end = batches[b].end
        /\ \A a \in Batches \ {b} : batches'[a] = batches[a]
    BY <2>1, GoesFacts DEF IInv
  <2>4. ~stale => batches'[b].end = batches'[b].date
    BY <2>3 DEF IInv, KeysAreStarts
  <2> QED
    BY <1>1, <2>2, <2>3, <2>4, BatchOnly DEF IInv, TypeOK
<1>3. CASE ~Recorded(RenewalKey(b))
  <2>1. Goes(b, "pay", "create")
    BY <1>1, <1>3
  <2>2. /\ batches[b].pc = "pay" /\ batches' \in [Batches -> Batch] /\ batches'[b].pc = "create"
        /\ batches'[b].date = batches[b].date /\ batches'[b].end = batches[b].end
        /\ \A a \in Batches \ {b} : batches'[a] = batches[a]
    BY <2>1, GoesFacts DEF IInv
  <2>3. ~stale => batches'[b].end = batches'[b].date
    BY <2>2 DEF IInv, KeysAreStarts
  <2> QED
    BY <1>1, <2>2, <2>3, BatchOnly DEF IInv, TypeOK
<1> QED
  BY <1>2, <1>3

LEMMA CreateStep == ASSUME IInv, NEW b \in Batches, Create(b) PROVE IInv'
<1>1. UNCHANGED <<sub, call, lost, now, stale>>
  BY DEF Create, callers
<1>2. CASE Goes(b, "create", "fail") /\ UNCHANGED payments
  <2>1. /\ batches[b].pc = "create" /\ batches' \in [Batches -> Batch] /\ batches'[b].pc = "fail"
        /\ batches'[b].date = batches[b].date /\ batches'[b].end = batches[b].end
        /\ \A a \in Batches \ {b} : batches'[a] = batches[a]
    BY <1>2, GoesFacts DEF IInv
  <2>2. ~stale => batches'[b].end = batches'[b].date
    BY <2>1 DEF IInv, KeysAreStarts
  <2>3. UNCHANGED callers
    BY DEF Create
  <2> QED
    BY <1>1, <1>2, <2>1, <2>2, <2>3, BatchOnly DEF IInv, TypeOK
<1>3. CASE /\ Goes(b, "create", "update") /\ ~Recorded(RenewalKey(b))
           /\ payments' = payments \cup {Renewal(b)}
  <2>1. /\ batches[b].pc = "create" /\ batches[b] \in Batch
        /\ batches' \in [Batches -> Batch] /\ batches'[b].pc = "update"
        /\ batches'[b].date = batches[b].date /\ batches'[b].end = batches[b].end
        /\ \A a \in Batches \ {b} : batches'[a] = batches[a]
    BY <1>3, GoesFacts DEF IInv
  <2> DEFINE p == Renewal(b)
  <2>2. /\ p \in Payment /\ p.kind = "renewal" /\ p.key = batches[b].date
        /\ p.start = batches[b].end
    BY <2>1 DEF Renewal, RenewalKey, Payment, Batch
  <2>3. payments' = payments \cup {p}
    BY <1>3
  <2>4. \A q \in payments : q.kind = "renewal" => q.key # p.key
    BY <1>3, <2>2 DEF Recorded, RenewalKey
  <2> HIDE DEF p
  <2>5. TypeOK'
    BY <1>1, <2>1, <2>2, <2>3 DEF IInv, TypeOK
  <2>6. KeysAreUnique'
    BY <2>3, <2>4 DEF IInv, KeysAreUnique
  <2>7. PaidFirst'
    BY <2>1, <2>2, <2>3 DEF IInv, PaidFirst, Recorded
  <2>8. KeysAreStarts'
    BY <1>1, <2>1, <2>2, <2>3 DEF IInv, KeysAreStarts
  <2>9. PeriodIsPaid'
    BY <1>1, <2>3 DEF IInv, PeriodIsPaid
  <2> QED
    BY <2>5, <2>6, <2>7, <2>8, <2>9 DEF IInv
<1> QED
  BY <1>2, <1>3 DEF Create

LEMMA UpdateStep == ASSUME IInv, NEW b \in Batches, Update(b) PROVE IInv'
<1>1. UNCHANGED <<payments, callers, call, lost, now, stale>>
  BY DEF Update, callers
<1>2. CASE Goes(b, "update", "fail") /\ UNCHANGED sub
  <2>1. /\ batches[b].pc = "update" /\ batches' \in [Batches -> Batch] /\ batches'[b].pc = "fail"
        /\ batches'[b].date = batches[b].date /\ batches'[b].end = batches[b].end
        /\ \A a \in Batches \ {b} : batches'[a] = batches[a]
    BY <1>2, GoesFacts DEF IInv
  <2>2. ~stale => batches'[b].end = batches'[b].date
    BY <2>1 DEF IInv, KeysAreStarts
  <2> QED
    BY <1>1, <1>2, <2>1, <2>2, BatchOnly DEF IInv, TypeOK
<1>3. CASE /\ Goes(b, "update", "expire")
           /\ sub' = [sub EXCEPT !.status = "ACTIVE", !.start = batches[b].end,
                                 !.end = batches[b].end + Period, !.attempts = 0, !.grace = Never]
  <2>1. /\ batches[b].pc = "update" /\ batches[b] \in Batch
        /\ batches' \in [Batches -> Batch] /\ batches'[b].pc = "expire"
        /\ \A a \in Batches \ {b} : batches'[a] = batches[a]
    BY <1>3, GoesFacts DEF IInv
  <2>2. sub' \in Sub /\ sub'.start = batches[b].end
    <3>1. sub \in Sub /\ batches[b].end \in Int /\ batches[b].end + Period \in Int
      BY <2>1, DaysAssumption DEF IInv, TypeOK, Batch
    <3> QED
      BY <1>3, <3>1, NeverIsInt DEF Sub, Statuses
  <2>3. TypeOK'
    BY <1>1, <2>1, <2>2 DEF IInv, TypeOK
  <2>4. KeysAreUnique'
    BY <1>1 DEF IInv, KeysAreUnique
  <2>5. PaidFirst'
    BY <1>1, <2>1 DEF IInv, PaidFirst, Recorded
  <2>6. KeysAreStarts'
    BY <1>1, <2>1 DEF IInv, KeysAreStarts
\* The key has paid for the date that was listed, which is the end that was read.
  <2>7. PeriodIsPaid'
    <3>1. Recorded(batches[b].date)
      BY <2>1 DEF IInv, PaidFirst
    <3>2. PICK p \in payments : p.kind = "renewal" /\ p.key = batches[b].date
      BY <3>1 DEF Recorded
    <3>3. ~stale => p.start = batches[b].end
      BY <2>1, <3>2 DEF IInv, KeysAreStarts
    <3> QED
      BY <1>1, <2>2, <3>3 DEF PeriodIsPaid
  <2> QED
    BY <2>3, <2>4, <2>5, <2>6, <2>7 DEF IInv
<1> QED
  BY <1>2, <1>3 DEF Update

LEMMA FailStep == ASSUME IInv, NEW b \in Batches, Fail(b) PROVE IInv'
<1> DEFINE attempts == batches[b].attempts + 1
           expired == attempts >= MaxAttempts \/ now > GraceEnd(batches[b])
<1>1. /\ Goes(b, "fail", "expire") /\ UNCHANGED <<payments, callers, now, stale>>
      /\ sub' = [sub EXCEPT !.status = IF expired THEN "EXPIRED" ELSE "PAST_DUE",
                            !.attempts = attempts, !.grace = GraceEnd(batches[b]),
                            !.autoRenew = ~expired]
  BY DEF Fail, history
<1>2. /\ batches[b] \in Batch
      /\ batches' \in [Batches -> Batch] /\ batches'[b].pc = "expire"
      /\ \A a \in Batches \ {b} : batches'[a] = batches[a]
  BY <1>1, GoesFacts DEF IInv
<1>3. attempts \in Nat /\ GraceEnd(batches[b]) \in Int /\ expired \in BOOLEAN
  BY <1>2, DaysAssumption DEF GraceEnd, Batch, IInv, TypeOK
<1> HIDE DEF attempts, expired
<1>4. sub' \in Sub /\ sub'.start = sub.start
  <2>1. PICK status \in {"EXPIRED", "PAST_DUE"}, renew \in BOOLEAN :
           sub' = [sub EXCEPT !.status = status, !.attempts = attempts,
                              !.grace = GraceEnd(batches[b]), !.autoRenew = renew]
    BY <1>1, <1>3
  <2>2. sub \in Sub
    BY DEF IInv, TypeOK
  <2> QED
    BY <1>3, <2>1, <2>2 DEF Sub, Statuses
<1> QED
  BY <1>1, <1>2, <1>4, BatchOnly

LEMMA ExpireStep == ASSUME IInv, NEW b \in Batches, Expire(b) PROVE IInv'
<1>1. /\ Goes(b, "expire", "idle") /\ UNCHANGED <<payments, callers, now, stale>>
      /\ sub' = sub \/ sub' = [sub EXCEPT !.status = "EXPIRED", !.autoRenew = FALSE]
  BY DEF Expire, history
<1>2. /\ batches' \in [Batches -> Batch] /\ batches'[b].pc = "idle"
      /\ \A a \in Batches \ {b} : batches'[a] = batches[a]
  BY <1>1, GoesFacts DEF IInv
<1>3. sub' \in Sub /\ sub'.start = sub.start
  BY <1>1 DEF IInv, TypeOK, Sub, Statuses
<1> QED
  BY <1>1, <1>2, <1>3, BatchOnly

LEMMA AbortStep == ASSUME IInv, NEW b \in Batches, Abort(b) PROVE IInv'
<1>1. batches' = [batches EXCEPT ![b] = Idle] /\ UNCHANGED <<sub, payments, callers, now, stale>>
  BY DEF Abort, rows
<1>2. Idle \in Batch /\ Idle.pc = "idle"
  BY DEF Idle, Batch, Never
<1> QED
  BY <1>1, <1>2, BatchOnly DEF IInv, TypeOK

-----------------------------------------------------------------------------
(* Calls of the fan, and time *)

\* A step of the fan or of time leaves the batches alone.
LEMMA OutsideStep ==
    ASSUME IInv, UNCHANGED <<batches, stale>>, TypeOK', payments \subseteq payments',
           \A p \in payments' \ payments : p.kind = "call",
           PeriodIsPaid'
    PROVE  IInv'
<1>1. KeysAreUnique'
  BY DEF IInv, KeysAreUnique
<1>2. PaidFirst'
  BY DEF IInv, PaidFirst, Recorded
<1>3. KeysAreStarts'
  BY DEF IInv, KeysAreStarts
<1> QED
  BY <1>1, <1>2, <1>3 DEF IInv

LEMMA OpenCalls == DOMAIN Open = Calls
BY DEF Open, Calls

LEMMA ReadStep == ASSUME IInv, NEW op \in DOMAIN Open, Read(op) PROVE IInv'
<1> DEFINE kept == CASE op = "cancel" -> [NoCall EXCEPT !.pc = op, !.status = sub.status]
                     [] op = "resume" ->
                           [NoCall EXCEPT !.pc = op, !.end = sub.end, !.pausedAt = sub.pausedAt]
                     [] OTHER -> [NoCall EXCEPT !.pc = op]
<1>1. /\ UNCHANGED <<sub, payments, lost, batches, now, stale>> /\ call.pc = "none"
      /\ call' = kept
  BY DEF Read, rows, history
<1>2. TypeOK'
  <2>1. NoCall \in Call /\ op \in Calls /\ sub \in Sub
    BY OpenCalls, NeverIsInt DEF NoCall, Call, IInv, TypeOK
  <2>2. kept \in Call
    BY <2>1 DEF Sub, Call
  <2> HIDE DEF kept
  <2> QED
    BY <1>1, <2>2 DEF IInv, TypeOK
<1>3. PeriodIsPaid'
  BY <1>1 DEF IInv, PeriodIsPaid
<1> QED
  BY <1>1, <1>2, <1>3, OutsideStep

LEMMA ChangeStep == ASSUME IInv, Change PROVE IInv'
<1> DEFINE op == call.pc
<1>1. /\ op \in Calls /\ sub' = Updated(op)
      /\ call' = IF op \in {"subscribe", "upgrade"} THEN [NoCall EXCEPT !.pc = "pay"] ELSE NoCall
      /\ UNCHANGED <<payments, lost, batches, now, stale>>
  BY OpenCalls DEF Change, history
<1>2. sub \in Sub /\ call \in Call /\ now \in Nat /\ now + Period \in Int
  BY DaysAssumption DEF IInv, TypeOK
<1> HIDE DEF op
<1>3. CASE op \in {"subscribe", "upgrade"}
  <2>1. call' \in Call /\ call'.pc = "pay"
    BY <1>1, <1>3 DEF NoCall, Call, Never
  <2>2. FreshPeriod(sub) \in Sub /\ FreshPeriod(sub).start = now
    <3> DEFINE end == now + Period
    <3>1. /\ end \in Int /\ now \in Int
          /\ FreshPeriod(sub) = [sub EXCEPT !.status = "ACTIVE", !.start = now, !.end = end,
                                           !.autoRenew = TRUE, !.cancelAtEnd = FALSE,
                                           !.isPaused = FALSE]
      BY <1>2 DEF FreshPeriod
    <3> HIDE DEF end
    <3> QED
      BY <1>2, <3>1 DEF Sub, Statuses
  <2>3. CASE op = "upgrade"
    <3>1. sub' = FreshPeriod(sub)
      BY <1>1, <2>3 DEF Updated
    <3>2. TypeOK' /\ PeriodIsPaid'
      BY <1>1, <2>1, <2>2, <3>1 DEF IInv, TypeOK, PeriodIsPaid
    <3> QED
      BY <1>1, <3>2, OutsideStep
  <2>4. CASE op = "subscribe"
    <3>1. sub' = [FreshPeriod(sub) EXCEPT !.pausedAt = Never, !.attempts = 0, !.grace = Never]
      BY <1>1, <2>4 DEF Updated
    <3>2. sub' \in Sub /\ sub'.start = now
      BY <2>2, <3>1, NeverIsInt DEF Sub
    <3>3. TypeOK' /\ PeriodIsPaid'
      BY <1>1, <2>1, <3>2 DEF IInv, TypeOK, PeriodIsPaid
    <3> QED
      BY <1>1, <3>3, OutsideStep
  <2> QED
    BY <1>3, <2>3, <2>4
<1>4. CASE op \notin {"subscribe", "upgrade"}
  <2>1. call' = NoCall /\ NoCall \in Call
    BY <1>1, <1>4 DEF NoCall, Call, Never
  <2>2. sub' \in Sub /\ sub'.start = sub.start
    <3>1. CASE op = "cancel"
      BY <1>1, <1>2, <3>1 DEF Updated, Sub, Call
    <3>2. CASE op = "cancelNow"
      BY <1>1, <1>2, <3>2 DEF Updated, Sub, Statuses
    <3>3. CASE op = "pause"
      <4>1. sub' = [sub EXCEPT !.isPaused = TRUE, !.pausedAt = now, !.status = "PAUSED"]
        BY <1>1, <3>3 DEF Updated
      <4>2. now \in Int /\ "PAUSED" \in Statuses
        BY <1>2 DEF Statuses
      <4>3. sub' \in Sub
        BY <1>2, <4>1, <4>2 DEF Sub
      <4>4. sub'.start = sub.start
        BY <1>2, <4>1 DEF Sub
      <4> QED
        BY <4>3, <4>4
    <3>4. CASE op = "resume"
      <4> DEFINE end == call.end + (IF call.pausedAt = Never THEN 0 ELSE now - call.pausedAt)
      <4>1. end \in Int
        BY <1>2 DEF Call
      <4>2. sub' = [sub EXCEPT !.isPaused = FALSE, !.pausedAt = Never, !.status = "ACTIVE",
                               !.end = end]
        BY <1>1, <3>4 DEF Updated
      <4> HIDE DEF end
      <4> QED
        BY <1>2, <4>1, <4>2, NeverIsInt DEF Sub, Statuses
    <3> QED
      BY <1>1, <1>4, <3>1, <3>2, <3>3, <3>4 DEF Calls
  <2>3. call.pc # "pay"
    BY <1>1 DEF op, Calls
  <2>4. TypeOK' /\ PeriodIsPaid'
    BY <1>1, <2>1, <2>2, <2>3 DEF IInv, TypeOK, PeriodIsPaid
  <2> QED
    BY <1>1, <2>4, OutsideStep
<1> QED
  BY <1>3, <1>4

LEMMA PayStep == ASSUME IInv, Pay PROVE IInv'
<1> DEFINE p == [kind |-> "call", key |-> now, start |-> now]
<1>1. /\ UNCHANGED <<sub, batches, now, stale>> /\ call' = NoCall
      /\ \/ payments' = payments \cup {p} /\ lost' = lost
         \/ lost' = lost \cup {now} /\ payments' = payments
  BY DEF Pay
<1>2. p \in Payment /\ p.kind = "call" /\ p.start = now /\ now \in Int
  BY DEF Payment, IInv, TypeOK
<1>3. NoCall \in Call
  BY DEF NoCall, Call, Never
<1> HIDE DEF p
<1>4. TypeOK'
  BY <1>1, <1>2, <1>3 DEF IInv, TypeOK
<1>5. PeriodIsPaid'
  BY <1>1, <1>2 DEF IInv, PeriodIsPaid
<1> QED
  BY <1>1, <1>2, <1>4, <1>5, OutsideStep

LEMMA TickStep == ASSUME IInv, Tick PROVE IInv'
<1>1. /\ UNCHANGED <<sub, payments, call, lost, batches, stale>> /\ now' = now + 1
      /\ call.pc = "none"
  BY DEF Tick, rows, callers, history
<1>2. TypeOK'
  BY <1>1 DEF IInv, TypeOK
<1>3. PeriodIsPaid'
  BY <1>1 DEF IInv, PeriodIsPaid
<1> QED
  BY <1>1, <1>2, <1>3, OutsideStep

LEMMA InvStep == ASSUME IInv, [Next]_vars PROVE IInv'
<1>1. CASE UNCHANGED vars
  <2>1. UNCHANGED <<sub, payments, call, lost, batches, now, stale>>
    BY <1>1 DEF vars, rows, callers, history
  <2>2. TypeOK' /\ PeriodIsPaid'
    BY <2>1 DEF IInv, TypeOK, PeriodIsPaid
  <2> QED
    BY <2>1, <2>2, OutsideStep
<1>2. ASSUME NEW b \in Batches, BatchStep(b) PROVE IInv'
  BY <1>2, CancelDueStep, ReadSubStep, FindStep, CreateStep, UpdateStep, FailStep, ExpireStep DEF BatchStep
<1> QED
  BY <1>1, <1>2, ReadStep, ChangeStep, PayStep, ListStep, AbortStep, TickStep DEF Next

LEMMA Invariance == Spec => []IInv
BY InitInv, InvStep, PTL DEF Spec

-----------------------------------------------------------------------------
\* Nobody gets a period for nothing, however batches overlap, fail and die between
\* the payment and the row, unless a renewal was stale.
THEOREM PeriodsArePaid == Spec => []PeriodIsPaid
<1>1. IInv => PeriodIsPaid
  BY DEF IInv
<1> QED
  BY <1>1, Invariance, PTL

\* Unless a renewal was stale, no period is paid twice by renewals.
THEOREM RenewalIsOnce == Spec => []RenewedOnce
<1>1. IInv => RenewedOnce
  BY DEF IInv, KeysAreStarts, KeysAreUnique, RenewedOnce
<1> QED
  BY <1>1, Invariance, PTL
=============================================================================
