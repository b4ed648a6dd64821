--------------------------- MODULE JobQueueProofs ---------------------------
(***************************************************************************)
(* For any processes, jobs, keys, outages and deaths: a call that was      *)
(* answered leaves a job behind, and a job that was not delayed starts its *)
(* first attempt once.                                                     *)
(*                                                                         *)
(* The argument.  An attempt gets a new startedAt, later than that of any  *)
(* copy of the job, so the copy a failure puts back is one nobody else can *)
(* be promoting: it can only be removed from the delayed set by a worker   *)
(* that has added it to the ready set.  Copies of an undelayed job that    *)
(* was never tried are in ready sets only, hence never promoted, and in    *)
(* one of them at a time.                                                  *)
(***************************************************************************)
EXTENDS JobQueue, TLAPS

Copies == [job : Jobs, tries : Nat, stamp : Nat]

Sets == [ready : SUBSET Copies, delayed : SUBSET Copies, dead : SUBSET Copies,
         keys : SUBSET {Key[j] : j \in Jobs}]

Poll == [pc : {"sleep", "promote", "added"}, left : SUBSET Copies, item : SUBSET Copies]

TypeOK ==
    /\ request \in [Jobs -> {"new", "keyed", "stored", "duplicate"}]
    /\ redis \in Sets
    /\ mem \in [Procs -> Sets]
    /\ poll \in [Workers -> Poll]
    /\ active \in [Workers -> SUBSET Copies]
    /\ pops \in [Jobs -> Nat]

\* The copies that lie in a queue or are known to a worker that promotes
Lying == Waiting \cup UNION {poll[w].left \cup poll[w].item : w \in Workers}

Running == UNION {active[w] : w \in Workers}

\* A copy is of a job that was stored, and was taken at most as often as the job.
CopiesAreStored ==
    /\ \A c \in Lying \cup Running :
          /\ request[c.job] = "stored" /\ c.stamp <= pops[c.job]
          /\ c.tries > 0 \/ c \in Running => c.stamp > 0
    /\ \A j \in Jobs : request[j] # "stored" => pops[j] = 0

\* startedAt tells an execution from all other copies of its job.
StampsAreUnique ==
    \A w \in Workers : \A c \in active[w] :
        /\ \A d \in Lying : ~(d.job = c.job /\ d.stamp = c.stamp)
        /\ \A v \in Workers : \A d \in active[v] :
              d.job = c.job /\ d.stamp = c.stamp => v = w /\ d = c

\* A stored job has ended, or a copy of it runs or waits where no promotion is
\* about to remove it.
Held == UNION {poll[w].item : w \in Workers}
InMemory == UNION {mem[p].ready \cup mem[p].delayed : p \in Procs}
Safe == redis.ready \cup (redis.delayed \ Held) \cup InMemory \cup Running

StoredIsSafe ==
    \A j \in Jobs : request[j] = "stored" => Ended(j) \/ \E c \in Safe : c.job = j

\* A key was taken by a call that stores its job or is about to.
KeysAreTaken ==
    /\ \A k \in redis.keys \cup UNION {mem[p].keys : p \in Procs} :
          \E i \in Jobs : Key[i] = k /\ request[i] \in {"keyed", "stored"}
    /\ \A j \in Jobs : request[j] = "duplicate" =>
          \E i \in Jobs \ {j} : Key[i] = Key[j] /\ request[i] \in {"keyed", "stored"}

Fresh(c) == c.tries = 0 /\ c.job \notin Delayed

\* Fresh copies lie in ready sets, in one at a time, until their job is first taken.
FreshIsReady ==
    /\ \A c \in redis.delayed : ~Fresh(c)
    /\ \A w \in Workers : \A c \in poll[w].left \cup poll[w].item : ~Fresh(c)
    /\ \A c \in redis.ready : Fresh(c) => pops[c.job] = 0
    /\ \A p \in Procs :
          /\ \A c \in mem[p].delayed : ~Fresh(c)
          /\ \A c \in mem[p].ready : Fresh(c) =>
                /\ pops[c.job] = 0
                /\ c \notin redis.ready /\ \A q \in Procs \ {p} : c \notin mem[q].ready

IInv ==
    /\ TypeOK /\ CopiesAreStored /\ StampsAreUnique /\ StoredIsSafe /\ KeysAreTaken
    /\ FreshIsReady /\ FirstAttemptOnce

-----------------------------------------------------------------------------
(* Steps that move copies, and put new ones in a queue *)

Fields == {"ready", "delayed", "dead", "keys"}

Keys == redis.keys \cup UNION {mem[p].keys : p \in Procs}

LEMMA InitInv == Init => IInv
<1> SUFFICES ASSUME Init PROVE IInv
  OBVIOUS
<1>1. /\ redis = Nothing /\ mem = [p \in Procs |-> Nothing]
      /\ poll = [w \in Workers |-> Asleep] /\ active = [w \in Workers |-> {}]
      /\ request = [j \in Jobs |-> "new"] /\ pops = [j \in Jobs |-> 0]
  BY DEF Init
<1>2. /\ Nothing \in Sets /\ Nothing.ready = {} /\ Nothing.delayed = {} /\ Nothing.keys = {}
      /\ Asleep \in Poll /\ Asleep.left = {} /\ Asleep.item = {}
  BY DEF Nothing, Asleep, Sets, Poll
<1>3. TypeOK
  BY <1>1, <1>2 DEF TypeOK
<1>4. Lying = {} /\ Running = {} /\ Keys = {}
  BY <1>1, <1>2 DEF Lying, Waiting, Running, Keys
<1>5. CopiesAreStored /\ StampsAreUnique /\ StoredIsSafe /\ FirstAttemptOnce
  BY <1>1, <1>4 DEF CopiesAreStored, StampsAreUnique, StoredIsSafe, FirstAttemptOnce
<1>6. KeysAreTaken
  BY <1>1, <1>4 DEF KeysAreTaken, Keys
<1>7. FreshIsReady
  BY <1>1, <1>2 DEF FreshIsReady
<1> QED
  BY <1>3, <1>5, <1>6, <1>7 DEF IInv

\* A step that starts, ends and puts in nothing keeps what holds of all copies.
LEMMA MovedCopies ==
    ASSUME IInv, UNCHANGED <<request, active, pops, done>>,
           Lying' \subseteq Lying, Safe \subseteq Safe', DeadLetters \subseteq DeadLetters',
           Keys' = Keys
    PROVE  CopiesAreStored' /\ StampsAreUnique' /\ StoredIsSafe' /\ KeysAreTaken' /\ FirstAttemptOnce'
<1>1. Running' = Running
  BY DEF Running
<1>2. CopiesAreStored'
  BY <1>1 DEF IInv, CopiesAreStored
<1>3. StampsAreUnique'
  BY DEF IInv, StampsAreUnique
<1>4. StoredIsSafe'
  BY DEF IInv, StoredIsSafe, Ended
<1>5. KeysAreTaken'
  BY DEF IInv, KeysAreTaken, Keys
<1> QED
  BY <1>2, <1>3, <1>4, <1>5 DEF IInv, FirstAttemptOnce

\* Put adds the copy to the set of Redis or to that of the process.
LEMMA PutFacts ==
    ASSUME TypeOK, NEW p \in Procs, NEW set \in {"ready", "delayed", "dead"},
           NEW c \in Copies, Put(p, set, c)
    PROVE  /\ redis' \in Sets /\ mem' \in [Procs -> Sets]
           /\ Keys' = Keys
           /\ c \in redis'[set] \/ c \in mem'[p][set]
           /\ \/ /\ mem' = mem /\ redis'[set] = redis[set] \cup {c}
                 /\ \A f \in Fields \ {set} : redis'[f] = redis[f]
              \/ /\ redis' = redis /\ mem'[p][set] = mem[p][set] \cup {c}
                 /\ \A f \in Fields \ {set} : mem'[p][f] = mem[p][f]
                 /\ \A q \in Procs \ {p} : mem'[q] = mem[q]
<1>1. CASE p \in online
  <2>1. redis' = [redis EXCEPT ![set] = @ \cup {c}] /\ mem' = mem
    BY <1>1 DEF Put
  <2>2. redis \in Sets
    BY DEF TypeOK
  <2>3. redis' \in Sets /\ redis'[set] = redis[set] \cup {c}
    BY <2>1, <2>2 DEF Sets
  <2>4. \A f \in Fields \ {set} : redis'[f] = redis[f]
    BY <2>1, <2>2 DEF Sets, Fields
  <2>5. redis'.keys = redis.keys
    BY <2>4 DEF Fields
  <2> QED
    BY <2>1, <2>3, <2>4, <2>5 DEF TypeOK, Keys
<1>2. CASE p \notin online
  <2>1. mem' = [mem EXCEPT ![p][set] = @ \cup {c}] /\ redis' = redis
    BY <1>2 DEF Put
  <2>2. mem \in [Procs -> Sets] /\ mem[p] \in Sets
    BY DEF TypeOK
  <2>3. /\ mem'[p] = [mem[p] EXCEPT ![set] = @ \cup {c}]
        /\ \A q \in Procs \ {p} : mem'[q] = mem[q]
    BY <2>1, <2>2
  <2>4. mem'[p] \in Sets /\ mem'[p][set] = mem[p][set] \cup {c}
    BY <2>2, <2>3 DEF Sets
  <2>5. \A f \in Fields \ {set} : mem'[p][f] = mem[p][f]
    BY <2>2, <2>3 DEF Sets, Fields
  <2>6. mem' \in [Procs -> Sets]
    BY <2>1, <2>2, <2>3, <2>4
  <2>7. \A q \in Procs : mem'[q].keys = mem[q].keys
    BY <2>3, <2>5 DEF Fields
  <2> QED
    BY <2>1, <2>3, <2>4, <2>5, <2>6, <2>7 DEF TypeOK, Keys
<1> QED
  BY <1>1, <1>2

\* What Put does to the set a name means
LEMMA PutEffect ==
    ASSUME TypeOK, NEW p \in Procs, NEW set \in {"ready", "delayed", "dead"},
           NEW c \in Copies, Put(p, set, c), UNCHANGED poll
    PROVE  /\ Lying \subseteq Lying' /\ Lying' \subseteq Lying \cup {c}
           /\ Waiting' \subseteq Waiting \cup {c}
           /\ DeadLetters \subseteq DeadLetters'
           /\ set = "dead" => c \in DeadLetters' /\ Lying' = Lying
           /\ set # "delayed" => /\ redis'.delayed = redis.delayed
                                 /\ \A q \in Procs : mem'[q].delayed = mem[q].delayed
           /\ set # "ready" => /\ redis'.ready = redis.ready
                               /\ \A q \in Procs : mem'[q].ready = mem[q].ready
           /\ redis.ready \subseteq redis'.ready /\ redis.delayed \subseteq redis'.delayed
           /\ redis'.ready \subseteq redis.ready \cup {c}
           /\ redis'.delayed \subseteq redis.delayed \cup {c}
           /\ \A q \in Procs :
                 /\ mem[q].ready \subseteq mem'[q].ready /\ mem[q].delayed \subseteq mem'[q].delayed
                 /\ mem'[q].ready \subseteq mem[q].ready \cup {c}
                 /\ mem'[q].delayed \subseteq mem[q].delayed \cup {c}
           /\ set = "ready" => \/ c \in redis'.ready /\ \A q \in Procs : mem'[q].ready = mem[q].ready
                               \/ /\ c \in mem'[p].ready /\ redis'.ready = redis.ready
                                  /\ \A q \in Procs \ {p} : mem'[q].ready = mem[q].ready
           /\ set = "delayed" => c \in redis'.delayed \/ c \in mem'[p].delayed
<1>1. CASE set = "ready"
  <2>1. \/ /\ mem' = mem /\ redis'.ready = redis.ready \cup {c}
           /\ redis'.delayed = redis.delayed /\ redis'.dead = redis.dead
        \/ /\ redis' = redis /\ mem'[p].ready = mem[p].ready \cup {c}
           /\ mem'[p].delayed = mem[p].delayed /\ mem'[p].dead = mem[p].dead
           /\ \A q \in Procs \ {p} : mem'[q] = mem[q]
    BY <1>1, PutFacts DEF Fields
  <2> QED
    BY <1>1, <2>1 DEF Lying, Waiting, DeadLetters
<1>2. CASE set = "delayed"
  <2>1. \/ /\ mem' = mem /\ redis'.delayed = redis.delayed \cup {c}
           /\ redis'.ready = redis.ready /\ redis'.dead = redis.dead
        \/ /\ redis' = redis /\ mem'[p].delayed = mem[p].delayed \cup {c}
           /\ mem'[p].ready = mem[p].ready /\ mem'[p].dead = mem[p].dead
           /\ \A q \in Procs \ {p} : mem'[q] = mem[q]
    BY <1>2, PutFacts DEF Fields
  <2> QED
    BY <1>2, <2>1 DEF Lying, Waiting, DeadLetters
<1>3. CASE set = "dead"
  <2>1. \/ /\ mem' = mem /\ redis'.dead = redis.dead \cup {c}
           /\ redis'.ready = redis.ready /\ redis'.delayed = redis.delayed
        \/ /\ redis' = redis /\ mem'[p].dead = mem[p].dead \cup {c}
           /\ mem'[p].ready = mem[p].ready /\ mem'[p].delayed = mem[p].delayed
           /\ \A q \in Procs \ {p} : mem'[q] = mem[q]
    BY <1>3, PutFacts DEF Fields
  <2> QED
    BY <1>3, <2>1 DEF Lying, Waiting, DeadLetters
<1> QED
  BY <1>1, <1>2, <1>3

-----------------------------------------------------------------------------
(* enqueue *)

LEMMA FromIsAProcess == \A j \in Jobs : From[j] \in Procs
BY JobsAssumption

\* A step that leaves copies alone and only moves calls forward
LEMMA AnsweredStep ==
    ASSUME IInv, UNCHANGED <<poll, active, pops, done>>,
           redis' \in Sets, mem' \in [Procs -> Sets],
           \A f \in Fields \ {"keys"} :
               redis'[f] = redis[f] /\ \A p \in Procs : mem'[p][f] = mem[p][f],
           request' \in [Jobs -> {"new", "keyed", "stored", "duplicate"}],
           \A j \in Jobs : request'[j] = "stored" <=> request[j] = "stored"
    PROVE  /\ TypeOK' /\ CopiesAreStored' /\ StampsAreUnique' /\ StoredIsSafe' /\ FreshIsReady'
           /\ FirstAttemptOnce'
<1>1. /\ redis'.ready = redis.ready /\ redis'.delayed = redis.delayed /\ redis'.dead = redis.dead
      /\ \A p \in Procs : /\ mem'[p].ready = mem[p].ready /\ mem'[p].delayed = mem[p].delayed
                          /\ mem'[p].dead = mem[p].dead
  BY DEF Fields
<1>2. Lying' = Lying /\ Running' = Running /\ Safe' = Safe /\ DeadLetters' = DeadLetters
  BY <1>1 DEF Lying, Waiting, Running, Safe, Held, InMemory, DeadLetters
<1>3. TypeOK'
  BY DEF IInv, TypeOK
<1>4. CopiesAreStored'
  <2>1. \A c \in Lying \cup Running : c.job \in Jobs
    BY DEF IInv, TypeOK, Lying, Waiting, Running, Sets, Poll, Copies
  <2> QED
    BY <1>2, <2>1 DEF IInv, CopiesAreStored
<1>5. StampsAreUnique'
  BY <1>2 DEF IInv, StampsAreUnique
<1>6. StoredIsSafe'
  BY <1>2 DEF IInv, StoredIsSafe, Ended
<1>7. FreshIsReady'
  BY <1>1 DEF IInv, FreshIsReady
<1> QED
  BY <1>3, <1>4, <1>5, <1>6, <1>7 DEF IInv, FirstAttemptOnce

LEMMA CheckIdempotencyStep ==
    ASSUME IInv, NEW j \in Jobs, CheckIdempotency(j)
    PROVE  IInv'
<1> DEFINE p == From[j]
           known == IF p \in online THEN Key[j] \in redis.keys ELSE Key[j] \in mem[p].keys
<1>1. /\ p \in Procs /\ request[j] = "new" /\ UNCHANGED <<poll, active, pops, done>>
      /\ IF known THEN redis' = redis /\ mem' = mem ELSE Put(p, "keys", Key[j])
      /\ request' = [request EXCEPT ![j] = IF known THEN "duplicate" ELSE "keyed"]
  BY FromIsAProcess DEF CheckIdempotency, engine, queues
<1> HIDE DEF p
<1>2. /\ redis \in Sets /\ mem \in [Procs -> Sets] /\ mem[p] \in Sets
      /\ request \in [Jobs -> {"new", "keyed", "stored", "duplicate"}]
  BY <1>1 DEF IInv, TypeOK
<1>3. CASE known
  <2>1. /\ redis' = redis /\ mem' = mem /\ request' = [request EXCEPT ![j] = "duplicate"]
        /\ Key[j] \in redis.keys \cup mem[p].keys
    BY <1>1, <1>3
  <2> HIDE DEF known
  <2>2. PICK i \in Jobs : Key[i] = Key[j] /\ request[i] \in {"keyed", "stored"}
    BY <1>1, <2>1 DEF IInv, KeysAreTaken
  <2>3. KeysAreTaken'
    BY <1>1, <1>2, <2>1, <2>2 DEF IInv, KeysAreTaken
  <2> QED
    BY <1>1, <1>2, <2>1, <2>3, AnsweredStep DEF IInv
<1>4. CASE ~known
  <2>1. Put(p, "keys", Key[j]) /\ request' = [request EXCEPT ![j] = "keyed"]
    BY <1>1, <1>4
  <2> HIDE DEF known
  <2>2. /\ redis' \in Sets /\ mem' \in [Procs -> Sets]
        /\ redis'.keys \subseteq redis.keys \cup {Key[j]}
        /\ \A q \in Procs : mem'[q].keys \subseteq mem[q].keys \cup {Key[j]}
        /\ \A f \in Fields \ {"keys"} :
              redis'[f] = redis[f] /\ \A q \in Procs : mem'[q][f] = mem[q][f]
    <3>1. CASE p \in online
      <4>1. redis' = [redis EXCEPT !["keys"] = @ \cup {Key[j]}] /\ mem' = mem
        BY <2>1, <3>1 DEF Put
      <4> QED
        BY <1>2, <4>1 DEF Sets, Fields
    <3>2. CASE p \notin online
      <4>1. mem' = [mem EXCEPT ![p]["keys"] = @ \cup {Key[j]}] /\ redis' = redis
        BY <2>1, <3>2 DEF Put
      <4>2. /\ mem'[p] = [mem[p] EXCEPT !["keys"] = @ \cup {Key[j]}]
            /\ \A q \in Procs \ {p} : mem'[q] = mem[q]
        BY <1>1, <1>2, <4>1
      <4>3. /\ mem'[p] \in Sets /\ mem'[p].keys = mem[p].keys \cup {Key[j]}
            /\ \A f \in Fields \ {"keys"} : mem'[p][f] = mem[p][f]
        BY <1>2, <4>2 DEF Sets, Fields
      <4>4. mem' \in [Procs -> Sets]
        BY <1>1, <1>2, <4>1, <4>2, <4>3
      <4> QED
        BY <1>2, <4>1, <4>2, <4>3, <4>4
    <3> QED
      BY <3>1, <3>2
  <2>3. request'[j] = "keyed" /\ \A i \in Jobs \ {j} : request'[i] = request[i]
    BY <1>2, <2>1
  <2>4. KeysAreTaken'
    <3>1. \A k \in redis'.keys \cup UNION {mem'[q].keys : q \in Procs} :
             k = Key[j] \/ k \in redis.keys \cup UNION {mem[q].keys : q \in Procs}
      BY <2>2
    <3>2. \A i \in Jobs : request[i] \in {"keyed", "stored"} => request'[i] \in {"keyed", "stored"}
      BY <2>3
    <3>3. \A k \in redis'.keys \cup UNION {mem'[q].keys : q \in Procs} :
             \E i \in Jobs : Key[i] = k /\ request'[i] \in {"keyed", "stored"}
      BY <2>3, <3>1, <3>2 DEF IInv, KeysAreTaken
    <3>4. \A i \in Jobs : request'[i] = "duplicate" => request[i] = "duplicate"
      BY <2>3
    <3> QED
      BY <3>2, <3>3, <3>4 DEF IInv, KeysAreTaken
  <2> QED
    BY <1>1, <1>2, <2>1, <2>2, <2>3, <2>4, AnsweredStep DEF IInv
<1> QED
  BY <1>3, <1>4

LEMMA EnqueueStep ==
    ASSUME IInv, NEW j \in Jobs, Enqueue(j)
    PROVE  IInv'
<1> DEFINE p == From[j]
           set == IF j \in Delayed THEN "delayed" ELSE "ready"
           c == Copy(j)
<1>1. /\ p \in Procs /\ request[j] \in {"new", "keyed"} /\ UNCHANGED <<poll, active, pops, done>>
      /\ Put(p, set, c) /\ set \in {"ready", "delayed", "dead"}
      /\ request' = [request EXCEPT ![j] = "stored"]
  BY FromIsAProcess DEF Enqueue, engine
<1>2. /\ c \in Copies /\ c.job = j /\ c.tries = 0 /\ c.stamp = 0
      /\ Fresh(c) <=> set = "ready"
  BY DEF Copy, Copies, Fresh
<1> HIDE DEF p, set, c
<1>3. /\ redis' \in Sets /\ mem' \in [Procs -> Sets] /\ Keys' = Keys
  BY <1>1, <1>2, PutFacts DEF IInv
<1>4. /\ request'[j] = "stored" /\ \A i \in Jobs \ {j} : request'[i] = request[i]
      /\ request' \in [Jobs -> {"new", "keyed", "stored", "duplicate"}]
  BY <1>1 DEF IInv, TypeOK
<1>5. TypeOK'
  BY <1>1, <1>3, <1>4 DEF IInv, TypeOK
<1>6. /\ Lying \subseteq Lying' /\ Lying' \subseteq Lying \cup {c}
      /\ DeadLetters \subseteq DeadLetters' /\ Running' = Running
  BY <1>1, <1>2, PutEffect DEF IInv, Running
<1>7. /\ \A d \in Lying \cup Running : d.job # j /\ d.job \in Jobs
      /\ pops[j] = 0
  BY <1>1 DEF IInv, CopiesAreStored, TypeOK, Lying, Waiting, Running, Sets, Poll, Copies
<1>8. CopiesAreStored'
  <2>1. c \notin Running
    BY <1>2, <1>7
  <2> QED
    BY <1>1, <1>2, <1>4, <1>6, <1>7, <2>1 DEF IInv, CopiesAreStored
<1>9. StampsAreUnique'
  <2>1. \A w \in Workers : \A d \in active[w] : d.job # j
    BY <1>7 DEF Running
  <2> QED
    BY <1>1, <1>2, <1>6, <2>1 DEF IInv, StampsAreUnique
<1>10. StoredIsSafe'
  <2>1. /\ redis.ready \subseteq redis'.ready /\ redis.delayed \subseteq redis'.delayed
        /\ \A q \in Procs :
              mem[q].ready \subseteq mem'[q].ready /\ mem[q].delayed \subseteq mem'[q].delayed
    BY <1>1, <1>2, PutEffect DEF IInv
  <2>2. Safe \subseteq Safe'
    <3>1. InMemory \subseteq InMemory'
      BY <2>1 DEF InMemory
    <3>2. Held' = Held
      BY <1>1 DEF Held
    <3> QED
      BY <1>6, <2>1, <3>1, <3>2 DEF Safe
  <2>3. c \in redis'.ready \cup redis'.delayed \cup InMemory'
    <3>1. CASE set = "ready"
      BY <1>1, <1>2, <3>1, PutEffect DEF IInv, InMemory
    <3>2. CASE set = "delayed"
      BY <1>1, <1>2, <3>2, PutEffect DEF IInv, InMemory
    <3> QED
      BY <3>1, <3>2 DEF set
  <2>4. c \notin Held'
    BY <1>1, <1>2, <1>7 DEF Lying, Held
  <2>5. c \in Safe'
    BY <2>3, <2>4 DEF Safe
  <2> QED
    BY <1>1, <1>2, <1>4, <1>6, <2>2, <2>5 DEF IInv, StoredIsSafe, Ended
<1>11. KeysAreTaken'
  <2>1. \A i \in Jobs : request[i] \in {"keyed", "stored"} => request'[i] \in {"keyed", "stored"}
    BY <1>4
  <2>2. \A i \in Jobs : request'[i] = "duplicate" => request[i] = "duplicate"
    BY <1>4
  <2> QED
    BY <1>3, <2>1, <2>2 DEF IInv, KeysAreTaken, Keys
<1>12. FreshIsReady'
  <2>1. CASE set = "ready"
    <3>1. /\ redis'.delayed = redis.delayed /\ \A q \in Procs : mem'[q].delayed = mem[q].delayed
          /\ redis'.ready \subseteq redis.ready \cup {c}
          /\ \A q \in Procs : mem'[q].ready \subseteq mem[q].ready \cup {c}
          /\ \/ \A q \in Procs : mem'[q].ready = mem[q].ready
             \/ redis'.ready = redis.ready /\ \A q \in Procs \ {p} : mem'[q].ready = mem[q].ready
      BY <1>1, <1>2, <2>1, PutEffect DEF IInv
    <3>2. c \notin redis.ready /\ \A q \in Procs : c \notin mem[q].ready
      BY <1>2, <1>7 DEF Lying, Waiting
    <3>3. \A d \in redis'.ready \cup UNION {mem'[q].ready : q \in Procs} :
             Fresh(d) => pops'[d.job] = 0
      BY <1>1, <1>2, <1>7, <3>1 DEF IInv, FreshIsReady
    <3>4. \A q \in Procs : \A d \in mem'[q].ready :
             Fresh(d) => d \notin redis'.ready /\ \A r \in Procs \ {q} : d \notin mem'[r].ready
      BY <1>1, <3>1, <3>2 DEF IInv, FreshIsReady
    <3> QED
      BY <1>1, <3>1, <3>3, <3>4 DEF IInv, FreshIsReady
  <2>2. CASE set = "delayed"
    <3>1. /\ redis'.ready = redis.ready /\ \A q \in Procs : mem'[q].ready = mem[q].ready
          /\ redis'.delayed \subseteq redis.delayed \cup {c}
          /\ \A q \in Procs : mem'[q].delayed \subseteq mem[q].delayed \cup {c}
      BY <1>1, <1>2, <2>2, PutEffect DEF IInv
    <3>2. ~Fresh(c)
      BY <1>2, <2>2
    <3> QED
      BY <1>1, <3>1, <3>2 DEF IInv, FreshIsReady
  <2> QED
    BY <2>1, <2>2 DEF set
<1> QED
  BY <1>1, <1>5, <1>8, <1>9, <1>10, <1>11, <1>12 DEF IInv, FirstAttemptOnce

-----------------------------------------------------------------------------
(* Promotion *)

\* A worker lists what is due, or drops its list.
LEMMA ListedStep ==
    ASSUME IInv, NEW w \in Workers, UNCHANGED <<request, redis, mem, active, pops, done>>,
           poll' \in [Workers -> Poll], \A v \in Workers \ {w} : poll'[v] = poll[v],
           poll'[w].item = {}, poll'[w].left \subseteq redis.delayed
    PROVE  IInv'
<1>1. Lying' \subseteq Lying
  BY DEF Lying, Waiting
<1>2. Safe \subseteq Safe' /\ DeadLetters \subseteq DeadLetters' /\ Keys' = Keys
  <2>1. Held' \subseteq Held
    BY DEF Held
  <2>2. InMemory' = InMemory
    BY DEF InMemory
  <2>3. Running' = Running
    BY DEF Running
  <2> QED
    BY <2>1, <2>2, <2>3 DEF Safe, DeadLetters, Keys
<1>3. FreshIsReady'
  BY DEF IInv, FreshIsReady
<1> QED
  BY <1>1, <1>2, <1>3, MovedCopies DEF IInv, TypeOK

LEMMA ListDueStep ==
    ASSUME IInv, NEW w \in Workers, NEW S \in SUBSET redis.delayed, ListDue(w, S)
    PROVE  IInv'
<1> DEFINE listed == [Asleep EXCEPT !.pc = "promote", !.left = IF w \in online THEN S ELSE {}]
<1>1. /\ UNCHANGED <<request, redis, mem, active, pops, done>>
      /\ poll' = [poll EXCEPT ![w] = listed]
  BY DEF ListDue, queues
<1>2. listed \in Poll /\ listed.item = {} /\ listed.left \subseteq redis.delayed
  BY DEF Asleep, Poll, IInv, TypeOK, Sets
<1> HIDE DEF listed
<1> QED
  BY <1>1, <1>2, ListedStep DEF IInv, TypeOK

LEMMA GiveUpStep ==
    ASSUME IInv, NEW w \in Workers, GiveUpPromoting(w), UNCHANGED <<request, active, pops, done>>
    PROVE  IInv'
<1> DEFINE listed == [Asleep EXCEPT !.pc = "promote"]
<1>1. UNCHANGED <<redis, mem>> /\ poll' = [poll EXCEPT ![w] = listed]
  BY DEF GiveUpPromoting, queues
<1>2. listed \in Poll /\ listed.item = {} /\ listed.left = {}
  BY DEF Asleep, Poll
<1> HIDE DEF listed
<1> QED
  BY <1>1, <1>2, ListedStep DEF IInv, TypeOK

LEMMA PromoteAddStep ==
    ASSUME IInv, NEW w \in Workers, PromoteAdd(w)
    PROVE  IInv'
<1>1. PICK c \in poll[w].left :
         IF w \in online
         THEN /\ redis' = [redis EXCEPT !.ready = @ \cup {c}]
              /\ poll' = [poll EXCEPT ![w].pc = "added", ![w].item = {c}]
              /\ UNCHANGED mem
         ELSE GiveUpPromoting(w)
  BY DEF PromoteAdd
<1>2. UNCHANGED <<request, active, pops, done>>
  BY DEF PromoteAdd
<1>3. CASE w \in online
  <2>1. /\ redis \in Sets /\ poll \in [Workers -> Poll] /\ poll[w] \in Poll /\ c \in Copies
    BY DEF IInv, TypeOK, Poll
  <2>2. /\ redis' \in Sets /\ redis'.ready = redis.ready \cup {c} /\ redis'.delayed = redis.delayed
        /\ redis'.dead = redis.dead /\ redis'.keys = redis.keys /\ mem' = mem
    BY <1>1, <1>3, <2>1 DEF Sets
  <2>3. /\ poll'[w] \in Poll /\ poll'[w].left = poll[w].left /\ poll'[w].item = {c}
        /\ \A v \in Workers \ {w} : poll'[v] = poll[v]
        /\ poll' \in [Workers -> Poll]
    BY <1>1, <1>3, <2>1 DEF Poll
  <2>4. Lying' \subseteq Lying
    <3>1. redis'.ready \subseteq Lying
      BY <2>2 DEF Lying, Waiting
    <3>2. UNION {poll'[v].left \cup poll'[v].item : v \in Workers} \subseteq Lying
      BY <2>3 DEF Lying
    <3> QED
      BY <2>2, <3>1, <3>2 DEF Lying, Waiting
  <2>5. Safe \subseteq Safe' /\ DeadLetters \subseteq DeadLetters' /\ Keys' = Keys
    <3>1. \A v \in Workers : poll'[v].item \subseteq poll[v].item \cup {c}
      BY <2>3
    <3>2. Running' = Running
      BY <1>2 DEF Running
    <3>3. Held' \subseteq Held \cup {c}
      BY <3>1 DEF Held
    <3>4. InMemory' = InMemory
      BY <2>2 DEF InMemory
    <3>5. Safe \subseteq Safe'
      BY <2>2, <3>2, <3>3, <3>4 DEF Safe
    <3>6. DeadLetters \subseteq DeadLetters' /\ Keys' = Keys
      BY <2>2 DEF DeadLetters, Keys
    <3> QED
      BY <3>5, <3>6
  <2>6. ~Fresh(c)
    BY DEF IInv, FreshIsReady
  <2>7. FreshIsReady'
    BY <1>2, <2>2, <2>3, <2>6 DEF IInv, FreshIsReady
  <2> QED
    BY <1>2, <2>2, <2>3, <2>4, <2>5, <2>7, MovedCopies DEF IInv, TypeOK
<1> QED
  BY <1>1, <1>2, <1>3, GiveUpStep

LEMMA PromoteRemStep ==
    ASSUME IInv, NEW w \in Workers, PromoteRem(w)
    PROVE  IInv'
<1>1. UNCHANGED <<request, active, pops, done>>
  BY DEF PromoteRem
<1>2. CASE w \in online
  <2>1. redis \in Sets /\ poll \in [Workers -> Poll] /\ poll[w] \in Poll
    BY DEF IInv, TypeOK
  <2>2. /\ redis' = [redis EXCEPT !.delayed = @ \ poll[w].item] /\ mem' = mem
        /\ poll' = [poll EXCEPT ![w].pc = "promote", ![w].item = {}, ![w].left = @ \ poll[w].item]
    BY <1>2 DEF PromoteRem
  <2>3. /\ redis' \in Sets /\ redis'.delayed = redis.delayed \ poll[w].item
        /\ redis'.ready = redis.ready /\ redis'.dead = redis.dead /\ redis'.keys = redis.keys
    BY <2>1, <2>2 DEF Sets
  <2>4. /\ poll'[w] \in Poll /\ poll'[w].left \subseteq poll[w].left /\ poll'[w].item = {}
        /\ \A v \in Workers \ {w} : poll'[v] = poll[v]
        /\ poll' \in [Workers -> Poll]
    BY <2>1, <2>2 DEF Poll
  <2>5. Lying' \subseteq Lying
    BY <2>2, <2>3, <2>4 DEF Lying, Waiting
  <2>6. Safe \subseteq Safe' /\ DeadLetters \subseteq DeadLetters' /\ Keys' = Keys
    <3>1. redis.delayed \ Held \subseteq redis'.delayed \ Held'
      BY <2>3, <2>4 DEF Held
    <3>2. Running' = Running /\ InMemory' = InMemory
      BY <1>1, <2>2 DEF Running, InMemory
    <3> QED
      BY <2>2, <2>3, <3>1, <3>2 DEF Safe, DeadLetters, Keys
  <2>7. FreshIsReady'
    BY <1>1, <2>2, <2>3, <2>4 DEF IInv, FreshIsReady
  <2> QED
    BY <1>1, <2>2, <2>3, <2>4, <2>5, <2>6, <2>7, MovedCopies DEF IInv, TypeOK
<1>3. CASE w \notin online
  BY <1>1, <1>3, GiveUpStep DEF PromoteRem
<1> QED
  BY <1>2, <1>3

-----------------------------------------------------------------------------
(* dequeue *)

\* What a pop may do to the queues while c is taken (or nobody, when S is empty)
Emptied(w, S) ==
    /\ redis' \in Sets /\ mem' \in [Procs -> Sets] /\ Keys' = Keys
    /\ redis'.delayed = redis.delayed /\ redis'.dead = redis.dead
    /\ redis'.ready \subseteq redis.ready /\ redis.ready \subseteq redis'.ready \cup S
    /\ \A q \in Procs \ {w} : mem'[q] = mem[q]
    /\ mem'[w].dead = mem[w].dead /\ mem'[w].delayed \subseteq mem[w].delayed
    /\ mem'[w].ready \subseteq mem[w].ready \cup mem[w].delayed
    /\ mem[w].ready \cup mem[w].delayed \subseteq mem'[w].ready \cup mem'[w].delayed \cup S
    /\ \/ S \subseteq redis.ready \ redis'.ready
       \/ S \subseteq (mem[w].ready \cup mem[w].delayed) \ mem'[w].ready
    /\ poll' = [poll EXCEPT ![w] = Asleep]
    /\ UNCHANGED <<request, done>>

LEMMA EmptiedFacts ==
    ASSUME IInv, NEW w \in Workers, NEW S \in SUBSET Copies, Emptied(w, S)
    PROVE  /\ Lying' \subseteq Lying /\ S \subseteq Lying
           /\ Safe \subseteq Safe' \cup Running \cup S
           /\ DeadLetters' = DeadLetters
           /\ poll' \in [Workers -> Poll]
<1>1. w \in Procs
  BY DEF Procs
<1>2. /\ Asleep \in Poll /\ Asleep.left = {} /\ Asleep.item = {}
      /\ poll'[w] = Asleep /\ \A v \in Workers \ {w} : poll'[v] = poll[v]
      /\ poll' \in [Workers -> Poll]
  BY DEF Asleep, Poll, Emptied, IInv, TypeOK
<1>3. S \subseteq Lying
  BY <1>1 DEF Emptied, Lying, Waiting
<1>4. Lying' \subseteq Lying
  <2>1. redis'.ready \cup redis'.delayed \subseteq Lying
    BY DEF Emptied, Lying, Waiting
  <2>2. \A q \in Procs : mem'[q].ready \cup mem'[q].delayed \subseteq mem[q].ready \cup mem[q].delayed
    BY <1>1 DEF Emptied
  <2>3. UNION {mem'[q].ready \cup mem'[q].delayed : q \in Procs} \subseteq Lying
    BY <2>2 DEF Lying, Waiting
  <2>4. UNION {poll'[v].left \cup poll'[v].item : v \in Workers} \subseteq Lying
    BY <1>2 DEF Lying
  <2> QED
    BY <2>1, <2>3, <2>4 DEF Lying, Waiting
<1>5. Safe \subseteq Safe' \cup Running \cup S
  <2>1. redis.ready \subseteq redis'.ready \cup S
    BY DEF Emptied
  <2>2. \A v \in Workers : poll'[v].item \subseteq poll[v].item
    BY <1>2
  <2>3. Held' \subseteq Held
    BY <2>2 DEF Held
  <2>4. \A q \in Procs :
           mem[q].ready \cup mem[q].delayed \subseteq mem'[q].ready \cup mem'[q].delayed \cup S
    BY DEF Emptied
  <2>5. InMemory \subseteq InMemory' \cup S
    BY <2>4 DEF InMemory
  <2>6. redis'.delayed = redis.delayed
    BY DEF Emptied
  <2> QED
    BY <2>1, <2>3, <2>5, <2>6 DEF Safe
<1>6. DeadLetters' = DeadLetters
  <2>1. redis'.dead = redis.dead /\ \A q \in Procs : mem'[q].dead = mem[q].dead
    BY <1>1 DEF Emptied
  <2> QED
    BY <2>1 DEF DeadLetters
<1> QED
  BY <1>2, <1>3, <1>4, <1>5, <1>6

\* A taken copy gets a startedAt of its own.
LEMMA TakeStep ==
    ASSUME IInv, NEW w \in Workers, NEW c \in Copies, Emptied(w, {c}), Run(w, c)
    PROVE  IInv'
<1> DEFINE t == Taken(c)
<1>1. /\ c.job \in Jobs /\ pops[c.job] \in Nat
      /\ t \in Copies /\ t.job = c.job /\ t.tries = c.tries /\ t.stamp = pops[c.job] + 1
  BY DEF Copies, Taken, IInv, TypeOK
<1>2. active' = [active EXCEPT ![w] = @ \cup {t}] /\ pops' = [pops EXCEPT ![c.job] = @ + 1]
  BY DEF Run
<1> HIDE DEF t
<1>3. /\ active'[w] = active[w] \cup {t} /\ \A v \in Workers \ {w} : active'[v] = active[v]
      /\ active' \in [Workers -> SUBSET Copies]
  BY <1>1, <1>2 DEF IInv, TypeOK
<1>4. /\ pops'[c.job] = pops[c.job] + 1 /\ \A j \in Jobs \ {c.job} : pops'[j] = pops[j]
      /\ pops' \in [Jobs -> Nat]
  BY <1>1, <1>2 DEF IInv, TypeOK
<1>5. /\ Lying' \subseteq Lying /\ c \in Lying /\ DeadLetters' = DeadLetters
      /\ poll' \in [Workers -> Poll]
      /\ Running' = Running \cup {t}
  BY <1>3, EmptiedFacts DEF Running
<1>6. /\ request' = request /\ done' = done /\ Keys' = Keys
  BY DEF Emptied
<1>7. TypeOK'
  BY <1>3, <1>4, <1>5, <1>6 DEF IInv, TypeOK, Emptied
<1>8. \A d \in Lying \cup Running :
         /\ d \in Copies /\ d.job \in Jobs /\ d.stamp \in Nat /\ d.tries \in Nat
         /\ request[d.job] = "stored" /\ d.stamp <= pops[d.job]
         /\ d.tries > 0 \/ d \in Running => d.stamp > 0
  BY DEF IInv, TypeOK, CopiesAreStored, Lying, Waiting, Running, Sets, Poll, Copies
<1>9. CopiesAreStored'
  <2>1. \A d \in Lying' \cup Running' :
           /\ request'[d.job] = "stored" /\ d.stamp <= pops'[d.job]
           /\ d.tries > 0 \/ d \in Running' => d.stamp > 0
    <3> TAKE d \in Lying' \cup Running'
    <3>1. CASE d = t
      BY <1>1, <1>4, <1>5, <1>6, <1>8, <3>1
    <3>2. CASE d # t
      <4>1. d \in Lying \cup Running /\ d \in Running' => d \in Running
        BY <1>5, <3>2
      <4>2. pops'[d.job] \in {pops[d.job], pops[d.job] + 1} /\ pops[d.job] \in Nat
        BY <1>4, <1>5, <1>8, <3>2 DEF IInv, TypeOK
      <4>3. d \in Lying \cup Running
        BY <1>5, <3>2
      <4>4. d.stamp <= pops[d.job] /\ d.stamp \in Nat
        BY <1>8, <4>3
      <4>5. d.stamp <= pops'[d.job]
        BY <4>2, <4>4
      <4> QED
        BY <1>5, <1>6, <1>8, <3>2, <4>3, <4>5
    <3> QED
      BY <3>1, <3>2
  <2>2. \A j \in Jobs : request'[j] # "stored" => pops'[j] = 0
    BY <1>4, <1>5, <1>6, <1>8 DEF IInv, CopiesAreStored
  <2> QED
    BY <2>1, <2>2 DEF CopiesAreStored
<1>10. StampsAreUnique'
  <2>1. \A d \in Lying \cup Running : ~(d.job = t.job /\ d.stamp = t.stamp)
    BY <1>1, <1>8
  <2>2. \A v \in Workers : \A d \in active[v] : ~(d.job = t.job /\ d.stamp = t.stamp)
    BY <2>1 DEF Running
  <2> QED
    BY <1>3, <1>5, <2>1, <2>2 DEF IInv, StampsAreUnique
<1>11. StoredIsSafe'
  <2>1. t \in Safe' /\ Safe \subseteq Safe' \cup {c}
    <3>1. Running' \subseteq Safe'
      BY DEF Safe
    <3>2. Safe \subseteq Safe' \cup Running \cup {c}
      BY EmptiedFacts
    <3> QED
      BY <1>5, <3>1, <3>2
  <2> QED
    BY <1>1, <1>5, <1>6, <2>1 DEF IInv, StoredIsSafe, Ended
<1>12. KeysAreTaken'
  BY <1>6 DEF IInv, KeysAreTaken, Keys
<1>13. w \in Procs
  BY DEF Procs
<1>14. /\ Fresh(c) => pops[c.job] = 0 /\ c \notin redis'.ready
       /\ Fresh(c) => \A q \in Procs : c \notin mem'[q].ready
  BY <1>13 DEF IInv, FreshIsReady, Emptied
\* Another fresh copy of the job would be the same copy.
<1>15. ASSUME NEW d \in Lying, Fresh(d), pops[d.job] = 0, d # c
       PROVE  pops'[d.job] = 0
  <2>1. CASE d.job = c.job
    <3>1. d.stamp = 0 /\ d.tries = 0 /\ c.stamp = 0
      BY <1>5, <1>8, <1>15, <2>1 DEF Fresh
    <3>2. c.tries = 0
      BY <1>5, <1>8, <3>1
    <3>3. d = c
      BY <1>8, <2>1, <3>1, <3>2 DEF Copies
    <3> QED
      BY <1>15, <3>3
  <2>2. CASE d.job # c.job
    BY <1>4, <1>8, <1>15, <2>2
  <2> QED
    BY <2>1, <2>2
<1>16. FreshIsReady'
  <2>1. /\ \A d \in redis'.delayed : ~Fresh(d)
        /\ \A q \in Procs : \A d \in mem'[q].delayed : ~Fresh(d)
        /\ \A q \in Procs : \A d \in mem'[q].ready : Fresh(d) => d \in mem[q].ready
    BY <1>13 DEF IInv, FreshIsReady, Emptied
  <2>2. \A v \in Workers : \A d \in poll'[v].left \cup poll'[v].item : ~Fresh(d)
    BY DEF IInv, FreshIsReady, Emptied, Asleep, TypeOK
  <2>3. redis'.ready \subseteq redis.ready /\ redis.ready \subseteq Lying
    BY DEF Emptied, Lying, Waiting
  <2>4. \A q \in Procs : mem[q].ready \subseteq Lying
    BY DEF Lying, Waiting
  <2>5. \A d \in redis'.ready : Fresh(d) => pops'[d.job] = 0
    BY <1>14, <1>15, <2>3 DEF IInv, FreshIsReady
  <2>6. \A q \in Procs : \A d \in mem'[q].ready : Fresh(d) =>
           /\ pops'[d.job] = 0
           /\ d \notin redis'.ready /\ \A r \in Procs \ {q} : d \notin mem'[r].ready
    BY <1>14, <1>15, <2>1, <2>3, <2>4 DEF IInv, FreshIsReady
  <2> QED
    BY <2>1, <2>2, <2>5, <2>6 DEF FreshIsReady
<1>17. FirstAttemptOnce'
  <2>1. t.tries = 0 /\ t.job \notin Delayed => t.stamp = 1
    BY <1>1, <1>14 DEF Fresh
  <2> QED
    BY <1>3, <2>1 DEF IInv, FirstAttemptOnce
<1> QED
  BY <1>7, <1>9, <1>10, <1>11, <1>12, <1>16, <1>17 DEF IInv

\* What a worker leaves in its own memory, where M is due and S is what stays
Leave(w, M, S) == mem' = [mem EXCEPT ![w].delayed = @ \ M, ![w].ready = S]

LEMMA LeaveFacts ==
    ASSUME IInv, NEW w \in Workers, NEW M \in SUBSET mem[w].delayed,
           NEW S \in SUBSET (mem[w].ready \cup M), Leave(w, M, S)
    PROVE  /\ mem' \in [Procs -> Sets] /\ \A q \in Procs \ {w} : mem'[q] = mem[q]
           /\ mem'[w].ready = S /\ mem'[w].delayed = mem[w].delayed \ M
           /\ mem'[w].dead = mem[w].dead /\ mem'[w].keys = mem[w].keys
<1>1. w \in Procs /\ mem \in [Procs -> Sets] /\ mem[w] \in Sets
  BY DEF Procs, IInv, TypeOK
<1>2. S \in SUBSET Copies /\ mem[w].delayed \ M \in SUBSET Copies
  BY <1>1 DEF Sets
<1>3. /\ mem'[w] = [mem[w] EXCEPT !.delayed = @ \ M, !.ready = S]
      /\ \A q \in Procs \ {w} : mem'[q] = mem[q]
  BY <1>1 DEF Leave
<1>4. /\ mem'[w] \in Sets /\ mem'[w].ready = S /\ mem'[w].delayed = mem[w].delayed \ M
      /\ mem'[w].dead = mem[w].dead /\ mem'[w].keys = mem[w].keys
  BY <1>1, <1>2, <1>3 DEF Sets
<1>5. mem' \in [Procs -> Sets]
  BY <1>1, <1>3, <1>4 DEF Leave
<1> QED
  BY <1>3, <1>4, <1>5

LEMMA PopStep ==
    ASSUME IInv, NEW w \in Workers, NEW M \in SUBSET mem[w].delayed, Pop(w, M)
    PROVE  IInv'
<1> DEFINE own == mem[w].ready \cup M
           shared == IF w \in online THEN First(redis.ready) ELSE {}
<1>1. /\ UNCHANGED <<request, done>> /\ poll' = [poll EXCEPT ![w] = Asleep]
      /\ \/ \E c \in shared :
               Run(w, c) /\ Leave(w, M, own) /\ redis' = [redis EXCEPT !.ready = @ \ {c}]
         \/ /\ shared = {}
            /\ \E c \in First(own) : Run(w, c) /\ Leave(w, M, own \ {c}) /\ UNCHANGED redis
         \/ UNCHANGED <<redis, mem, pops, active>>
  BY DEF Pop, Leave, queues
<1>2. /\ redis \in Sets /\ mem[w] \in Sets /\ w \in Procs
      /\ redis.ready \subseteq Copies /\ own \subseteq Copies
      /\ shared \subseteq redis.ready /\ First(own) \subseteq own
  BY DEF IInv, TypeOK, Procs, Sets, First
<1> HIDE DEF shared
<1>3. ASSUME NEW c \in shared, Run(w, c), Leave(w, M, own),
             redis' = [redis EXCEPT !.ready = @ \ {c}]
      PROVE  IInv'
  <2>1. /\ redis' \in Sets /\ redis'.ready = redis.ready \ {c} /\ redis'.delayed = redis.delayed
        /\ redis'.dead = redis.dead /\ redis'.keys = redis.keys
    BY <1>2, <1>3 DEF Sets
  <2>2. /\ mem' \in [Procs -> Sets] /\ \A q \in Procs \ {w} : mem'[q] = mem[q]
        /\ mem'[w].ready = own /\ mem'[w].delayed = mem[w].delayed \ M
        /\ mem'[w].dead = mem[w].dead /\ mem'[w].keys = mem[w].keys
    BY <1>3, LeaveFacts
  <2>3. Keys' = Keys
    <3>1. \A q \in Procs : mem'[q].keys = mem[q].keys
      BY <2>2
    <3> QED
      BY <2>1, <3>1 DEF Keys
  <2>4. Emptied(w, {c})
    BY <1>1, <1>2, <2>1, <2>2, <2>3 DEF Emptied
  <2> QED
    BY <1>2, <1>3, <2>4, TakeStep
<1>4. ASSUME NEW c \in First(own), Run(w, c), Leave(w, M, own \ {c}), UNCHANGED redis
      PROVE  IInv'
  <2>1. /\ mem' \in [Procs -> Sets] /\ \A q \in Procs \ {w} : mem'[q] = mem[q]
        /\ mem'[w].ready = own \ {c} /\ mem'[w].delayed = mem[w].delayed \ M
        /\ mem'[w].dead = mem[w].dead /\ mem'[w].keys = mem[w].keys
    BY <1>4, LeaveFacts
  <2>2. Keys' = Keys
    <3>1. \A q \in Procs : mem'[q].keys = mem[q].keys
      BY <2>1
    <3> QED
      BY <1>4, <3>1 DEF Keys
  <2>3. Emptied(w, {c})
    BY <1>1, <1>2, <1>4, <2>1, <2>2 DEF Emptied
  <2> QED
    BY <1>2, <1>4, <2>3, TakeStep
<1>5. CASE UNCHANGED <<redis, mem, pops, active>>
  <2>1. Asleep \in Poll /\ Asleep.item = {} /\ Asleep.left = {}
    BY DEF Asleep, Poll
  <2> QED
    BY <1>1, <1>5, <2>1, ListedStep DEF IInv, TypeOK
<1> QED
  BY <1>1, <1>3, <1>4, <1>5

-----------------------------------------------------------------------------
(* Results *)

\* An execution ends: without it, what holds of all others still does.
LEMMA EndedExecution ==
    ASSUME IInv, NEW w \in Workers, NEW c \in active[w],
           active' = [active EXCEPT ![w] = @ \ {c}]
    PROVE  /\ c \in Running /\ c \in Copies
           /\ active' \in [Workers -> SUBSET Copies]
           /\ Running \subseteq Running' \cup {c} /\ Running' \subseteq Running
           /\ \A v \in Workers : active'[v] \subseteq active[v]
           /\ \A v \in Workers : \A d \in active'[v] : ~(d.job = c.job /\ d.stamp = c.stamp)
<1>1. active \in [Workers -> SUBSET Copies]
  BY DEF IInv, TypeOK
<1>2. active'[w] = active[w] \ {c} /\ \A v \in Workers \ {w} : active'[v] = active[v]
  BY <1>1
<1>3. \A v \in Workers : \A d \in active'[v] : ~(d.job = c.job /\ d.stamp = c.stamp)
  BY <1>2 DEF IInv, StampsAreUnique
<1> QED
  BY <1>1, <1>2, <1>3 DEF Running

LEMMA RecordSuccessStep ==
    ASSUME IInv, NEW w \in Workers, NEW c \in active[w], RecordSuccess(w, c)
    PROVE  IInv'
<1>1. /\ UNCHANGED <<request, redis, mem, poll, pops>> /\ done' = done \cup {c.job}
      /\ active' = [active EXCEPT ![w] = @ \ {c}]
  BY DEF RecordSuccess, queues
<1>2. /\ active' \in [Workers -> SUBSET Copies]
      /\ Running \subseteq Running' \cup {c} /\ Running' \subseteq Running
      /\ \A v \in Workers : active'[v] \subseteq active[v]
  BY <1>1, EndedExecution
<1>3. Lying' = Lying /\ DeadLetters' = DeadLetters /\ Held' = Held /\ InMemory' = InMemory
  BY <1>1 DEF Lying, Waiting, DeadLetters, Held, InMemory
<1>4. CopiesAreStored'
  BY <1>1, <1>2, <1>3 DEF IInv, CopiesAreStored
<1>5. StampsAreUnique'
  BY <1>2, <1>3 DEF IInv, StampsAreUnique
<1>6. StoredIsSafe'
  <2>1. Safe \subseteq Safe' \cup {c}
    BY <1>1, <1>2, <1>3 DEF Safe
  <2> QED
    BY <1>1, <1>3, <2>1 DEF IInv, StoredIsSafe, Ended
<1>7. KeysAreTaken' /\ FreshIsReady'
  BY <1>1 DEF IInv, KeysAreTaken, FreshIsReady
<1>8. FirstAttemptOnce'
  BY <1>2 DEF IInv, FirstAttemptOnce
<1> QED
  BY <1>1, <1>2, <1>4, <1>5, <1>6, <1>7, <1>8 DEF IInv, TypeOK

LEMMA RecordFailureStep ==
    ASSUME IInv, NEW w \in Workers, NEW c \in active[w], RecordFailure(w, c)
    PROVE  IInv'
<1> DEFINE failed == [c EXCEPT !.tries = @ + 1]
           set == IF failed.tries >= MaxRetries[c.job] THEN "dead" ELSE "delayed"
<1>1. /\ UNCHANGED <<request, poll, pops, done>> /\ Put(w, set, failed)
      /\ set \in {"delayed", "dead"}
      /\ active' = [active EXCEPT ![w] = @ \ {c}]
  BY DEF RecordFailure
<1>2. /\ c \in Running /\ c \in Copies /\ w \in Procs
      /\ active' \in [Workers -> SUBSET Copies]
      /\ Running \subseteq Running' \cup {c} /\ Running' \subseteq Running
      /\ \A v \in Workers : active'[v] \subseteq active[v]
      /\ \A v \in Workers : \A d \in active'[v] : ~(d.job = c.job /\ d.stamp = c.stamp)
  BY <1>1, EndedExecution DEF Procs
<1>3. /\ failed \in Copies /\ failed.job = c.job /\ failed.stamp = c.stamp /\ failed.tries > 0
      /\ ~Fresh(failed)
  BY <1>2 DEF Copies, Fresh
<1> HIDE DEF failed, set
<1>4. /\ redis' \in Sets /\ mem' \in [Procs -> Sets] /\ Keys' = Keys
  BY <1>1, <1>2, <1>3, PutFacts DEF IInv
<1>5. /\ Lying' \subseteq Lying \cup {failed} /\ DeadLetters \subseteq DeadLetters'
      /\ set = "dead" => failed \in DeadLetters'
      /\ set = "delayed" => failed \in redis'.delayed \/ failed \in mem'[w].delayed
      /\ redis'.ready = redis.ready /\ \A q \in Procs : mem'[q].ready = mem[q].ready
      /\ redis.delayed \subseteq redis'.delayed
      /\ redis'.delayed \subseteq redis.delayed \cup {failed}
      /\ \A q \in Procs : /\ mem[q].delayed \subseteq mem'[q].delayed
                          /\ mem'[q].delayed \subseteq mem[q].delayed \cup {failed}
  BY <1>1, <1>2, <1>3, PutEffect DEF IInv
<1>6. \A d \in Lying : ~(d.job = c.job /\ d.stamp = c.stamp)
  BY DEF IInv, StampsAreUnique
<1>7. CopiesAreStored'
  <2>1. request[failed.job] = "stored" /\ failed.stamp <= pops[failed.job] /\ failed.stamp > 0
    BY <1>2, <1>3 DEF IInv, CopiesAreStored
  <2> QED
    BY <1>1, <1>2, <1>5, <2>1 DEF IInv, CopiesAreStored
<1>8. StampsAreUnique'
  BY <1>2, <1>3, <1>5 DEF IInv, StampsAreUnique
<1>9. StoredIsSafe'
  <2>1. Held' = Held /\ InMemory \subseteq InMemory'
    BY <1>1, <1>5 DEF Held, InMemory
  <2>2. Safe \subseteq Safe' \cup {c}
    BY <1>2, <1>5, <2>1 DEF Safe
  <2>3. failed \notin Held
    BY <1>3, <1>6 DEF Lying, Held
  <2>4. failed \in DeadLetters' \/ failed \in redis'.delayed \/ failed \in InMemory'
    BY <1>2, <1>5 DEF set, InMemory
  <2>5. failed \in DeadLetters' \/ failed \in Safe'
    BY <2>1, <2>3, <2>4 DEF Safe
  <2> QED
    BY <1>1, <1>3, <1>5, <2>2, <2>5 DEF IInv, StoredIsSafe, Ended
<1>10. KeysAreTaken'
  BY <1>1, <1>4 DEF IInv, KeysAreTaken, Keys
<1>11. FreshIsReady'
  BY <1>1, <1>3, <1>5 DEF IInv, FreshIsReady
<1>12. FirstAttemptOnce'
  BY <1>2 DEF IInv, FirstAttemptOnce
<1> QED
  BY <1>1, <1>2, <1>4, <1>7, <1>8, <1>9, <1>10, <1>11, <1>12 DEF IInv, TypeOK

-----------------------------------------------------------------------------
(* The invariant *)

\* Deaths, stops and outages leave calls, queues and hands as they are.
LEMMA WorldStep ==
    ASSUME IInv, UNCHANGED <<request, queues, engine>>
    PROVE  IInv'
<1>1. UNCHANGED <<request, redis, mem, poll, active, pops, done>>
  BY DEF queues, engine
<1>2. /\ Lying' = Lying /\ DeadLetters' = DeadLetters /\ Held' = Held /\ InMemory' = InMemory
      /\ Running' = Running /\ Keys' = Keys
  BY <1>1 DEF Lying, Waiting, DeadLetters, Held, InMemory, Running, Keys
<1>3. Safe' = Safe
  BY <1>1, <1>2 DEF Safe
<1>4. TypeOK' /\ FreshIsReady'
  BY <1>1 DEF IInv, TypeOK, FreshIsReady
<1> QED
  BY <1>1, <1>2, <1>3, <1>4, MovedCopies DEF IInv

LEMMA InvStep == ASSUME IInv, [Next]_vars PROVE IInv'
<1>1. ASSUME NEW j \in Jobs, CheckIdempotency(j) \/ Enqueue(j) PROVE IInv'
  BY <1>1, CheckIdempotencyStep, EnqueueStep
<1>2. ASSUME NEW w \in Workers, WorkerStep(w) PROVE IInv'
  <2>1. CASE \E S \in SUBSET redis.delayed : ListDue(w, S)
    BY <2>1, ListDueStep
  <2>2. CASE PromoteAdd(w) \/ PromoteRem(w)
    BY <2>2, PromoteAddStep, PromoteRemStep
  <2>3. CASE \E M \in SUBSET mem[w].delayed : Pop(w, M)
    BY <2>3, PopStep
  <2>4. CASE \E c \in active[w] : RecordSuccess(w, c) \/ RecordFailure(w, c)
    BY <2>4, RecordSuccessStep, RecordFailureStep
  <2>5. CASE Stop(w) \/ Exit(w)
    BY <2>5, WorldStep DEF Stop, Exit
  <2> QED
    BY <1>2, <2>1, <2>2, <2>3, <2>4, <2>5 DEF WorkerStep
<1>3. ASSUME NEW p \in Procs, Crash(p) \/ LoseRedis(p) \/ Reconnect(p) PROVE IInv'
  BY <1>3, WorldStep DEF Crash, LoseRedis, Reconnect
<1>4. CASE UNCHANGED vars
  BY <1>4, WorldStep DEF vars
<1> QED
  BY <1>1, <1>2, <1>3, <1>4 DEF Next

LEMMA Invariance == Spec => []IInv
BY InitInv, InvStep, PTL DEF Spec

-----------------------------------------------------------------------------
\* However many workers poll, lose Redis or die, a job that was enqueued without a
\* delay starts its first attempt once.
THEOREM FirstAttemptIsOnce == Spec => []FirstAttemptOnce
<1>1. IInv => FirstAttemptOnce
  BY DEF IInv
<1> QED
  BY <1>1, Invariance, PTL

\* No job of an answered call is lost between the queues, for any number of
\* processes that promote, pop, retry, lose Redis, crash or stop.
THEOREM NoJobIsLost == Spec => []AnsweredIsKept
<1>1. IInv => AnsweredIsKept
  <2> DEFINE kept(j) == Ended(j) \/ \E c \in Waiting \cup UNION {InHand(w) : w \in Workers} :
                                        c.job = j
  <2> SUFFICES ASSUME IInv, NEW j \in Jobs
               PROVE  /\ request[j] = "stored" => kept(j)
                      /\ request[j] = "duplicate" =>
                            \E i \in Jobs \ {j} : /\ Key[i] = Key[j]
                                                  /\ \/ request[i] = "keyed"
                                                     \/ request[i] = "stored" /\ kept(i)
    BY DEF AnsweredIsKept
  <2>1. InMemory \subseteq Waiting /\ Running \subseteq UNION {InHand(w) : w \in Workers}
    BY DEF InMemory, Waiting, Running, InHand
  <2>2. Safe \subseteq Waiting \cup UNION {InHand(w) : w \in Workers}
    BY <2>1 DEF Safe, Waiting
  <2>3. \A i \in Jobs : request[i] = "stored" => kept(i)
    BY <2>2 DEF IInv, StoredIsSafe
  <2> HIDE DEF kept
  <2>4. request[j] = "duplicate" =>
           \E i \in Jobs \ {j} : Key[i] = Key[j] /\ request[i] \in {"keyed", "stored"}
    BY DEF IInv, KeysAreTaken
  <2> QED
    BY <2>3, <2>4
<1> QED
  BY <1>1, Invariance, PTL
=============================================================================
