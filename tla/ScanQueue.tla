----------------------------- MODULE ScanQueue -----------------------------
(***************************************************************************)
(* Scans: a row per scan in the database, a list of ids in Redis that the  *)
(* scan threads of the workers read destructively, and the requeue a       *)
(* worker does when it starts.  Without Redis the web process runs scans   *)
(* in its own pool, with a bounded number of slots; what was not finished  *)
(* when it died is marked as failed when it is started again.              *)
(***************************************************************************)
EXTENDS WorkerProcess

CONSTANTS
    MaxScan,   \* scans are numbered in the order of their creation
    MaxThread, \* scan threads of a process
    SlotLimit  \* AI_OPTION_SCAN_QUEUE_LIMIT

\* Without Redis there is one process, which has the pool.
ASSUME ScanAssumption ==
    /\ MaxScan \in Nat /\ MaxThread \in Nat \ {0} /\ SlotLimit \in Nat \ {0}
    /\ \A e \in Environment :
        /\ e.scans \in 0..MaxScan /\ e.threads \in 1..MaxThread /\ {e.lossy, e.users} \subseteq BOOLEAN
        /\ e.redis \/ e.nodes \subseteq {Home}

VARIABLES
    scan,    \* status of each row of scan_runs
    posting, \* who is between the insertion of the row and the end of submit_scan
    queue,   \* the list in Redis, or the queue of the pool
    slots,   \* free slots of the pool
    job,     \* what each scan thread does, and with which scan
    lock,    \* holder of the requeue lock
    pending  \* what a starting worker still has to requeue

scanVars == <<scan, posting, queue, slots, job, lock, pending>>

Scan == 1..MaxScan
Thread == 1..MaxThread
Ended == {"succeeded", "failed"}
Idle == [pc |-> "idle", id |-> 0]

ScanTypeOK ==
    /\ scan \in [Scan -> {"none", "queued", "running"} \union Ended]
    /\ posting \in [Scan -> {"none", "web"} \union Node]
    /\ queue \in Seq(Scan)
    /\ slots \in 0..SlotLimit
    /\ job \in [Node -> [Thread -> [pc : {"idle", "popped", "read", "running"}, id : 0..MaxScan]]]
    /\ lock \in Node \union {"none"}
    /\ pending \in [Node -> Seq(Scan)]

ScanInit ==
    /\ scan = [s \in Scan |-> "none"]
    /\ posting = [s \in Scan |-> "none"]
    /\ queue = <<>>
    /\ slots = SlotLimit
    /\ job = [n \in Node |-> [t \in Thread |-> Idle]]
    /\ lock = "none"
    /\ pending = [n \in Node |-> <<>>]

(***************************************************************************)
(* submit_scan: the row first, then the id into the queue.  A caller in a  *)
(* worker may die in between; a push that Redis refuses is not noticed.    *)
(***************************************************************************)
\* The next row; env.scans is a bound.
IsFresh(s) == s <= env.scans /\ scan[s] = "none" /\ \A r \in 1..(s - 1) : scan[r] # "none"

InsertScan(s, who) ==
    /\ IsFresh(s)
    /\ scan' = [scan EXCEPT ![s] = "queued"]
    /\ posting' = [posting EXCEPT ![s] = who]
    /\ UNCHANGED <<queue, slots, job, lock, pending>>

\* A user of the web process, which without Redis is the process that runs the pool.
UserSubmits(s) ==
    /\ env.users /\ (env.redis \/ IsUp(Home))
    /\ InsertScan(s, "web")

Enqueue(s) ==
    /\ posting[s] # "none"
    /\ posting' = [posting EXCEPT ![s] = "none"]
    /\ \/ env.redis /\ queue' = Append(queue, s) /\ UNCHANGED <<scan, slots>>
       \/ env.redis /\ env.lossy /\ UNCHANGED <<queue, scan, slots>>
       \/ ~env.redis /\ slots > 0 /\ slots' = slots - 1 /\ queue' = Append(queue, s) /\ UNCHANGED scan
       \/ ~env.redis /\ slots = 0 /\ scan' = [scan EXCEPT ![s] = "failed"] /\ UNCHANGED <<queue, slots>>
    /\ UNCHANGED <<job, lock, pending>>

(***************************************************************************)
(* A scan thread.  The row is read and then written without a condition.   *)
(***************************************************************************)
(* Mutant of Releases: a slot is given back by threads that took none. *)
ReleasesAlways == slots' = slots + 1

Releases == slots' = IF env.redis THEN slots ELSE slots + 1

Leaves(n, t) == job' = [job EXCEPT ![n][t] = Idle] /\ Releases

Pop(n, t) ==
    /\ IsUp(n) /\ t <= env.threads /\ job[n][t] = Idle
    /\ queue # <<>>
    /\ job' = [job EXCEPT ![n][t] = [pc |-> "popped", id |-> Head(queue)]]
    /\ queue' = Tail(queue)
    /\ UNCHANGED <<scan, posting, slots, lock, pending>>

(* Mutant of ReadScan: a row is run whatever its status is. *)
ReadScanBlindly(n, t) ==
    /\ job[n][t].pc = "popped"
    /\ job' = [job EXCEPT ![n][t].pc = "read"]
    /\ UNCHANGED <<scan, posting, queue, slots, lock, pending>>

ReadScan(n, t) ==
    /\ job[n][t].pc = "popped"
    /\ IF scan[job[n][t].id] \in {"queued", "running"}
       THEN job' = [job EXCEPT ![n][t].pc = "read"] /\ UNCHANGED slots
       ELSE Leaves(n, t)
    /\ UNCHANGED <<scan, posting, queue, lock, pending>>

MarkRunning(n, t) ==
    /\ job[n][t].pc = "read"
    /\ \/ /\ scan' = [scan EXCEPT ![job[n][t].id] = "running"]
          /\ job' = [job EXCEPT ![n][t].pc = "running"]
          /\ UNCHANGED slots
       \/ env.faults /\ Leaves(n, t) /\ UNCHANGED scan
    /\ UNCHANGED <<posting, queue, lock, pending>>

FinishScan(n, t) ==
    /\ job[n][t].pc = "running"
    /\ \/ \E end \in Ended : scan' = [scan EXCEPT ![job[n][t].id] = end]
       \/ env.faults /\ UNCHANGED scan
    /\ Leaves(n, t)
    /\ UNCHANGED <<posting, queue, lock, pending>>

(***************************************************************************)
(* The start of a process.  A worker pushes every row that is queued       *)
(* again, those that are still in the list too, unless another one is at   *)
(* it.  The lock is deleted without a look at its holder.                  *)
(***************************************************************************)
Start(n) ==
    /\ n \in env.nodes /\ node[n] = "down"
    /\ env.quick \/ lock # n
    /\ IF env.redis
       THEN /\ node' = [node EXCEPT ![n] = IF lock = "none" THEN "locked" ELSE "up"]
            /\ lock' = IF lock = "none" THEN n ELSE lock
            /\ UNCHANGED scan
       ELSE /\ node' = [node EXCEPT ![n] = "up"]
            /\ scan' = [s \in Scan |-> IF scan[s] \in {"queued", "running"} THEN "failed" ELSE scan[s]]
            /\ UNCHANGED lock
    /\ UNCHANGED <<env, crashes, posting, queue, slots, job, pending>>

Queued == {s \in Scan : scan[s] = "queued"}

(* Mutant of ListQueued: a worker that starts trusts the list in Redis. *)
ListNothing(n) ==
    /\ node[n] = "locked"
    /\ pending' = [pending EXCEPT ![n] = <<>>]
    /\ node' = [node EXCEPT ![n] = "requeueing"]
    /\ UNCHANGED <<env, crashes, scan, posting, queue, slots, job, lock>>

ListQueued(n) ==
    /\ node[n] = "locked"
    /\ pending' = [pending EXCEPT ![n] = Among([s \in Scan |-> s], Queued)]
    /\ node' = [node EXCEPT ![n] = "requeueing"]
    /\ UNCHANGED <<env, crashes, scan, posting, queue, slots, job, lock>>

Requeue(n) ==
    /\ node[n] = "requeueing" /\ pending[n] # <<>>
    /\ queue' = Append(queue, Head(pending[n]))
    /\ pending' = [pending EXCEPT ![n] = Tail(@)]
    /\ UNCHANGED <<processVars, scan, posting, slots, job, lock>>

Requeued(n) ==
    /\ node[n] = "requeueing" /\ pending[n] = <<>>
    /\ node' = [node EXCEPT ![n] = "up"]
    /\ lock' = "none"
    /\ UNCHANGED <<env, crashes, scan, posting, queue, slots, job, pending>>

\* The lock ends by itself after 30 seconds.
RequeueLockLapses ==
    /\ lock # "none"
    /\ env.slow \/ node[lock] \in {"down", "up"}
    /\ lock' = "none"
    /\ UNCHANGED <<scan, posting, queue, slots, job, pending>>

\* What the death of n takes away: what its threads had popped, and without Redis the pool.
ScansDie(n) ==
    /\ posting' = [s \in Scan |-> IF posting[s] = n \/ ~env.redis THEN "none" ELSE posting[s]]
    /\ job' = [job EXCEPT ![n] = [t \in Thread |-> Idle]]
    /\ pending' = [pending EXCEPT ![n] = <<>>]
    /\ queue' = IF env.redis THEN queue ELSE <<>>
    /\ slots' = IF env.redis THEN slots ELSE SlotLimit
    /\ UNCHANGED <<scan, lock>>

=============================================================================
