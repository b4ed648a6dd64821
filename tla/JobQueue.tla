------------------------------ MODULE JobQueue ------------------------------
(***************************************************************************)
(* Background jobs: JobQueue keeps them in two Redis sorted sets that all  *)
(* processes share, or in the memory of one process while Redis is away;   *)
(* WorkerEngine polls, runs and retries them.  An await is a step          *)
(* boundary.  The delay of a retry is any finite time; the cooldown of an  *)
(* idempotency key does not end while the model looks.                     *)
(***************************************************************************)
EXTENDS Integers, FiniteSets

CONSTANTS
    Sites,         \* web processes: they only enqueue
    Workers,       \* runner processes
    Jobs,          \* calls of enqueue
    From,          \* which process makes the call
    Key,           \* its idempotency key
    NoKey,
    Delayed,       \* the jobs enqueued with a delay
    Score,         \* calculatePriorityScore of the job, less is sooner
    MaxRetries,    \* maxRetries of the job
    Concurrency,   \* executions an engine runs at once
    MaxOutages,    \* bound: times a process loses Redis
    MaxEnds        \* bound: processes that crash or are stopped

Procs == Sites \cup Workers

ASSUME ProcsAssumption == Sites \cap Workers = {} /\ MaxEnds < Cardinality(Workers)
ASSUME JobsAssumption ==
    /\ From \in [Jobs -> Procs] /\ Delayed \subseteq Jobs
    /\ Score \in [Jobs -> Nat] /\ MaxRetries \in [Jobs -> Nat \ {0}]

VARIABLES
    request,   \* what became of each call: new, keyed, stored, duplicate
    redis,     \* the shared sets: ready, delayed, dead, keys
    mem,       \* the same, in the memory of each process
    online,    \* the processes whose redis.status is "ready"
    status,    \* of each process
    poll,      \* where the polling loop of a worker stands
    active,    \* executions whose result an engine waits for
    pops,      \* how often each job was taken to be run
    done,      \* jobs recorded as COMPLETED
    outages

queues == <<redis, mem>>
engine == <<poll, active, pops, done>>
world == <<online, status, outages>>
vars == <<request, queues, engine, world>>

\* The JSON of a job as far as it distinguishes copies: startedAt is new each
\* time the job is taken.
Copy(j) == [job |-> j, tries |-> 0, stamp |-> 0]

Nothing == [ready |-> {}, delayed |-> {}, dead |-> {}, keys |-> {}]

Asleep == [pc |-> "sleep", left |-> {}, item |-> {}]

Init ==
    /\ request = [j \in Jobs |-> "new"]
    /\ redis = Nothing
    /\ mem = [p \in Procs |-> Nothing]
    /\ online = Procs
    /\ status = [p \in Procs |-> "running"]
    /\ poll = [w \in Workers |-> Asleep]
    /\ active = [w \in Workers |-> {}]
    /\ pops = [j \in Jobs |-> 0]
    /\ done = {}
    /\ outages = 0

Alive(p) == status[p] \in {"running", "stopping"}

-----------------------------------------------------------------------------
(* enqueue *)

\* Wrong on purpose: nowhere to put a job while Redis is away.
PutInRedisOnly(p, set, c) ==
    /\ redis' = IF p \in online THEN [redis EXCEPT ![set] = @ \cup {c}] ELSE redis
    /\ UNCHANGED mem

\* enqueueReady, enqueueDelayed and the dead letter list fall back to memory.
Put(p, set, c) ==
    IF p \in online
    THEN redis' = [redis EXCEPT ![set] = @ \cup {c}] /\ UNCHANGED mem
    ELSE mem' = [mem EXCEPT ![p][set] = @ \cup {c}] /\ UNCHANGED redis

\* checkIdempotency: SET NX, or the map of the process.
CheckIdempotency(j) ==
    LET p == From[j]
        known == IF p \in online THEN Key[j] \in redis.keys ELSE Key[j] \in mem[p].keys
    IN  /\ request[j] = "new" /\ Key[j] # NoKey /\ Alive(p)
        /\ IF known THEN UNCHANGED queues ELSE Put(p, "keys", Key[j])
        /\ request' = [request EXCEPT ![j] = IF known THEN "duplicate" ELSE "keyed"]
        /\ UNCHANGED <<engine, world>>

Enqueue(j) ==
    /\ Alive(From[j])
    /\ request[j] = IF Key[j] = NoKey THEN "new" ELSE "keyed"
    /\ Put(From[j], IF j \in Delayed THEN "delayed" ELSE "ready", Copy(j))
    /\ request' = [request EXCEPT ![j] = "stored"]
    /\ UNCHANGED <<engine, world>>

-----------------------------------------------------------------------------
(* dequeue, called by pollAndSpawnWorkers *)

At(w, pc) == Alive(w) /\ poll[w].pc = pc

\* The loop condition, then zrangebyscore: S is what is due by now.
ListDue(w, S) ==
    /\ status[w] = "running" /\ poll[w].pc = "sleep"
    /\ Cardinality(active[w]) < Concurrency
    /\ poll' = [poll EXCEPT ![w] =
          [Asleep EXCEPT !.pc = "promote", !.left = IF w \in online THEN S ELSE {}]]
    /\ UNCHANGED <<request, queues, active, pops, done, world>>

\* A call on a lost connection throws, which ends the promotion.
GiveUpPromoting(w) ==
    /\ poll' = [poll EXCEPT ![w] = [Asleep EXCEPT !.pc = "promote"]]
    /\ UNCHANGED queues

\* zadd of one item to the ready set
PromoteAdd(w) ==
    /\ At(w, "promote")
    /\ \E c \in poll[w].left :
          IF w \in online
          THEN /\ redis' = [redis EXCEPT !.ready = @ \cup {c}]
               /\ poll' = [poll EXCEPT ![w].pc = "added", ![w].item = {c}]
               /\ UNCHANGED mem
          ELSE GiveUpPromoting(w)
    /\ UNCHANGED <<request, active, pops, done, world>>

\* zrem of that item from the delayed set
PromoteRem(w) ==
    /\ At(w, "added")
    /\ IF w \in online
       THEN /\ redis' = [redis EXCEPT !.delayed = @ \ poll[w].item]
            /\ poll' = [poll EXCEPT ![w].pc = "promote", ![w].item = {},
                                    ![w].left = @ \ poll[w].item]
            /\ UNCHANGED mem
       ELSE GiveUpPromoting(w)
    /\ UNCHANGED <<request, active, pops, done, world>>

First(S) == {c \in S : \A d \in S : Score[c.job] <= Score[d.job]}

Taken(c) == [c EXCEPT !.stamp = pops[c.job] + 1]

Run(w, c) ==
    /\ pops' = [pops EXCEPT ![c.job] = @ + 1]
    /\ active' = [active EXCEPT ![w] = @ \cup {Taken(c)}]

\* Wrong on purpose: what is in memory waits until Redis is away again.
PopSharedFirst(w, M) ==
    LET own == mem[w].ready \cup M
    IN  /\ At(w, "promote") /\ poll[w].left = {}
        /\ \/ /\ w \in online /\ UNCHANGED mem
              /\ \/ \E c \in First(redis.ready) :
                       Run(w, c) /\ redis' = [redis EXCEPT !.ready = @ \ {c}]
                 \/ redis.ready = {} /\ UNCHANGED <<redis, pops, active>>
           \/ /\ w \notin online /\ UNCHANGED redis
              /\ mem' = [mem EXCEPT ![w].delayed = @ \ M, ![w].ready = own \ First(own)]
              /\ \/ \E c \in First(own) : Run(w, c)
                 \/ own = {} /\ UNCHANGED <<pops, active>>
        /\ poll' = [poll EXCEPT ![w] = Asleep]
        /\ UNCHANGED <<request, done, world>>

\* Wrong on purpose: the first job is read, and stays to be read by others.
PopReadOnly(w, M) ==
    /\ At(w, "promote") /\ poll[w].left = {} /\ w \in online
    /\ \E c \in First(redis.ready) : Run(w, c)
    /\ poll' = [poll EXCEPT ![w] = Asleep]
    /\ UNCHANGED <<request, queues, done, world>>

\* Promotion in memory (M is due), then zpopmin, then the memory queue; what
\* dequeue returns is run, also when stop was called during the await.
Pop(w, M) ==
    LET own == mem[w].ready \cup M
        shared == IF w \in online THEN First(redis.ready) ELSE {}
        leave(S) == mem' = [mem EXCEPT ![w].delayed = @ \ M, ![w].ready = S]
    IN  /\ At(w, "promote") /\ poll[w].left = {}
        /\ \/ \E c \in shared :
                 Run(w, c) /\ leave(own) /\ redis' = [redis EXCEPT !.ready = @ \ {c}]
           \/ /\ shared = {}
              /\ \E c \in First(own) : Run(w, c) /\ leave(own \ {c}) /\ UNCHANGED redis
           \/ shared = {} /\ own = {} /\ UNCHANGED <<queues, pops, active>>
        /\ poll' = [poll EXCEPT ![w] = Asleep]
        /\ UNCHANGED <<request, done, world>>

-----------------------------------------------------------------------------
(* WorkerEngine.executeJob *)

RecordSuccess(w, c) ==
    /\ Alive(w) /\ c \in active[w]
    /\ active' = [active EXCEPT ![w] = @ \ {c}]
    /\ done' = done \cup {c.job}
    /\ UNCHANGED <<request, queues, poll, pops, world>>

\* recordFailure, when the handler throws, when there is none, and when the timer
\* wins (the handler goes on, but nothing it returns is looked at any more): to
\* the dead letters, or back with a delay.
RecordFailure(w, c) ==
    LET failed == [c EXCEPT !.tries = @ + 1]
    IN  /\ Alive(w) /\ c \in active[w]
        /\ active' = [active EXCEPT ![w] = @ \ {c}]
        /\ Put(w, IF failed.tries >= MaxRetries[c.job] THEN "dead" ELSE "delayed", failed)
        /\ UNCHANGED <<request, poll, pops, done, world>>

-----------------------------------------------------------------------------
(* Shutdown, crashes, and Redis going away *)

Ends == Cardinality({p \in Procs : status[p] # "running"})

Stop(w) ==
    /\ status[w] = "running" /\ Ends < MaxEnds
    /\ status' = [status EXCEPT ![w] = "stopping"]
    /\ UNCHANGED <<request, queues, engine, online, outages>>

\* stop() waits for the executions it found, not for one that a dequeue under way
\* still starts, nor longer than its timer; then the runner exits.
Exit(w) ==
    /\ status[w] = "stopping"
    /\ status' = [status EXCEPT ![w] = "exited"]
    /\ UNCHANGED <<request, queues, engine, online, outages>>

Crash(p) ==
    /\ status[p] = "running" /\ Ends < MaxEnds
    /\ status' = [status EXCEPT ![p] = "crashed"]
    /\ UNCHANGED <<request, queues, engine, online, outages>>

LoseRedis(p) ==
    /\ Alive(p) /\ p \in online /\ outages < MaxOutages
    /\ online' = online \ {p}
    /\ outages' = outages + 1
    /\ UNCHANGED <<request, queues, engine, status>>

Reconnect(p) ==
    /\ p \notin online
    /\ online' = online \cup {p}
    /\ UNCHANGED <<request, queues, engine, status, outages>>

WorkerStep(w) ==
    \/ \E S \in SUBSET redis.delayed : ListDue(w, S)
    \/ PromoteAdd(w) \/ PromoteRem(w)
    \/ \E M \in SUBSET mem[w].delayed : Pop(w, M)
    \/ \E c \in active[w] : RecordSuccess(w, c) \/ RecordFailure(w, c)
    \/ Stop(w) \/ Exit(w)

Next ==
    \/ \E j \in Jobs : CheckIdempotency(j) \/ Enqueue(j)
    \/ \E w \in Workers : WorkerStep(w)
    \/ \E p \in Procs : Crash(p) \/ LoseRedis(p) \/ Reconnect(p)


Spec == Init /\ [][Next]_vars

\* A running process goes on; every delay ends, so a worker that polls again and
\* again finds, time after time, all that waits to be due; Redis comes back; a
\* handler ends or its timer fires; a shutdown ends by its own timer.
Fairness ==
    /\ \A w \in Workers :
          /\ WF_vars(PromoteAdd(w)) /\ WF_vars(PromoteRem(w))
          /\ WF_vars(Exit(w))
          /\ SF_vars(ListDue(w, redis.delayed))
          /\ SF_vars(Pop(w, mem[w].delayed))
          /\ WF_vars(\E c \in active[w] : RecordSuccess(w, c) \/ RecordFailure(w, c))
    /\ \A p \in Procs : WF_vars(Reconnect(p))

FairSpec == Spec /\ Fairness

-----------------------------------------------------------------------------
(* Properties *)

InHand(w) == poll[w].item \cup active[w]

Waiting == redis.ready \cup redis.delayed
           \cup UNION {mem[p].ready \cup mem[p].delayed : p \in Procs}

DeadLetters == redis.dead \cup UNION {mem[p].dead : p \in Procs}

Ended(j) == j \in done \/ \E c \in DeadLetters : c.job = j

\* Every call that was answered left a job behind: it waits in a queue, is in the
\* hands of a process (a dead one too), has completed or is a dead letter; and a
\* call answered as a duplicate has a sibling of which that is true, or which
\* was cut short between taking the key and storing the job.
AnsweredIsKept ==
    LET kept(j) == Ended(j) \/ \E c \in Waiting \cup UNION {InHand(w) : w \in Workers} : c.job = j
    IN  \A j \in Jobs :
          /\ request[j] = "stored" => kept(j)
          /\ request[j] = "duplicate" =>
                \E i \in Jobs \ {j} : /\ Key[i] = Key[j]
                                      /\ \/ request[i] = "keyed"
                                         \/ request[i] = "stored" /\ kept(i)

\* However many workers poll, and whoever of them dies, a job that was not
\* delayed starts its first attempt once.  (Delayed ones, and so retries, can be
\* promoted twice.)
FirstAttemptOnce ==
    \A w \in Workers : \A c \in active[w] :
        c.tries = 0 /\ c.job \notin Delayed => c.stamp = 1

Stranded(j) ==
    \/ \E p \in Procs : /\ p \in Sites \/ ~Alive(p)
                        /\ \E c \in mem[p].ready \cup mem[p].delayed : c.job = j
    \/ \E w \in Workers : ~Alive(w) /\ \E c \in InHand(w) : c.job = j

\* Every stored job completes or becomes a dead letter, through retries,
\* timeouts, doubled promotions and outages of Redis, as long as a worker is
\* left: all a death can strand is what the dead process had in its memory or
\* its hands, and what a web process keeps in its memory while Redis is away.
EveryJobEnds ==
    \A j \in Jobs : request[j] = "stored" ~> (Ended(j) \/ Stranded(j))
=============================================================================
