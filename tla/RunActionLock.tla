--------------------------- MODULE RunActionLock ---------------------------
(***************************************************************************)
(* The per-run advisory lock of trading_locks.py and the four callers that *)
(* read a trading run, touch the broker and write the run back: the order  *)
(* monitor, the user's flatten and cancel, and the user's risk reset (the  *)
(* one caller that does not take the lock).                                *)
(*                                                                         *)
(* A run is one row of trading_runs with two JSON columns that the callers *)
(* overwrite as a whole.  What a caller holds in memory is therefore       *)
(* "stale" for a column as soon as somebody else has written that column;  *)
(* version numbers are not needed to say so.                               *)
(***************************************************************************)
EXTENDS FiniteSets

CONSTANTS
    Node,          \* worker / API processes, each with its own memory
    Proc,          \* threads that act on the run
    NodeOf,        \* the node a thread lives on
    Role,          \* what a thread does
    Environment,   \* the environments considered, see EnvironmentType
    NoProc         \* nobody

Roles == {"monitor", "flatten", "cancel", "reset"}
Column == {"orders", "instance"}
Copy == {"outer", "inner"}   \* flatten and the cancel nested in it each load the run

(***************************************************************************)
(* What the deployment may do to a holder: "outlived" lets the 120 s TTL   *)
(* lapse while the holder is still working; "flaps" lets redis come and    *)
(* go; "crashes" lets nodes die; "redis" says whether redis is there at    *)
(* the start; "callers" are the threads that call at all.                  *)
(***************************************************************************)
EnvironmentType ==
    [outlived : BOOLEAN, flaps : BOOLEAN, crashes : BOOLEAN, redis : BOOLEAN,
     callers : SUBSET Proc]

ASSUME LockAssumption ==
    /\ NodeOf \in [Proc -> Node]
    /\ Role \in [Proc -> Roles]
    /\ Environment \subseteq EnvironmentType
    /\ NoProc \notin Proc

VARIABLES
    env,       \* the environment of this behaviour, never changes
    redisUp,   \* redis answers
    sees,      \* per node: the answer redis_available() gives (cached 2 s)
    runKey,    \* the redis key of the run exists
    keyBy,     \* who created the key: its value is "1" for everybody, so this
               \* is what redis does not know
    local,     \* per node: owner of the process-local threading.Lock
    pc,        \* per thread: where it is in its call
    holdsKey,  \* per thread: acquired_redis
    stale      \* per thread and copy of the run: columns written by others
               \* since that copy was loaded

vars == <<env, redisUp, sees, runKey, keyBy, local, pc, holdsKey, stale>>

Steps == {"idle", "waiting", "local", "granted", "loaded", "nested",
          "cancelled", "leaving", "unlocking"}

(***************************************************************************)
(* The thread is inside `with run_action_lock(...) as acquired` with       *)
(* acquired = True.                                                        *)
(***************************************************************************)
InSection(p) ==
    /\ Role[p] # "reset"
    /\ pc[p] \in {"granted", "loaded", "nested", "cancelled", "leaving"}

Holds(p) == pc[p] \in {"local", "granted", "loaded", "nested", "cancelled",
                       "leaving", "unlocking"} /\ Role[p] # "reset"

TypeOK ==
    /\ env \in Environment
    /\ redisUp \in BOOLEAN
    /\ sees \in [Node -> BOOLEAN]
    /\ runKey \in BOOLEAN
    /\ keyBy \in Proc \cup {NoProc}
    /\ local \in [Node -> Proc \cup {NoProc}]
    /\ pc \in [Proc -> Steps]
    /\ holdsKey \in [Proc -> BOOLEAN]
    /\ stale \in [Proc -> [Copy -> SUBSET Column]]

Init ==
    /\ env \in Environment
    /\ redisUp = env.redis
    /\ sees = [n \in Node |-> env.redis]
    /\ runKey = FALSE
    /\ keyBy = NoProc
    /\ local = [n \in Node |-> NoProc]
    /\ pc = [p \in Proc |-> "idle"]
    /\ holdsKey = [p \in Proc |-> FALSE]
    /\ stale = [p \in Proc |-> [c \in Copy |-> {}]]

Goto(p, step) == pc' = [pc EXCEPT ![p] = step]

-----------------------------------------------------------------------------
(* Taking the lock *)

Call(p) ==
    /\ p \in env.callers
    /\ Role[p] # "reset"
    /\ pc[p] = "idle"
    /\ Goto(p, "waiting")
    /\ UNCHANGED <<env, redisUp, sees, runKey, keyBy, local, holdsKey, stale>>

(* Mutant of AcquireLocal: the lock is taken without asking who has it. *)
AcquireLocalAnyway(p) ==
    /\ pc[p] = "waiting"
    /\ local' = [local EXCEPT ![NodeOf[p]] = p]
    /\ Goto(p, "local")
    /\ UNCHANGED <<env, redisUp, sees, runKey, keyBy, holdsKey, stale>>

(* Mutant of AcquireLocal: the owner recorded is the process. *)
AcquireForNode(p) ==
    /\ pc[p] = "waiting"
    /\ local[NodeOf[p]] = NoProc
    /\ local' = [local EXCEPT ![NodeOf[p]] = NodeOf[p]]
    /\ Goto(p, "local")
    /\ UNCHANGED <<env, redisUp, sees, runKey, keyBy, holdsKey, stale>>

AcquireLocal(p) ==
    /\ pc[p] = "waiting"
    /\ local[NodeOf[p]] = NoProc
    /\ local' = [local EXCEPT ![NodeOf[p]] = p]
    /\ Goto(p, "local")
    /\ UNCHANGED <<env, redisUp, sees, runKey, keyBy, holdsKey, stale>>

(* local.acquire(timeout=...) gives up: the caller answers "busy". *)
LocalTimeout(p) ==
    /\ pc[p] = "waiting"
    /\ local[NodeOf[p]] # NoProc
    /\ Goto(p, "idle")
    /\ UNCHANGED <<env, redisUp, sees, runKey, keyBy, local, holdsKey, stale>>

(* Mutant of TakeKey: SET without NX. *)
TakeKeyAnyway(p) ==
    /\ pc[p] = "local"
    /\ sees[NodeOf[p]]
    /\ redisUp
    /\ runKey' = TRUE
    /\ keyBy' = p
    /\ holdsKey' = [holdsKey EXCEPT ![p] = TRUE]
    /\ Goto(p, "granted")
    /\ UNCHANGED <<env, redisUp, sees, local, stale>>

(* redis_setnx succeeds *)
TakeKey(p) ==
    /\ pc[p] = "local"
    /\ sees[NodeOf[p]]
    /\ redisUp
    /\ ~runKey
    /\ runKey' = TRUE
    /\ keyBy' = p
    /\ holdsKey' = [holdsKey EXCEPT ![p] = TRUE]
    /\ Goto(p, "granted")
    /\ UNCHANGED <<env, redisUp, sees, local, stale>>

(* Mutant of KeyBusy: the finally block deletes the key whether or not it was
   acquired. *)
KeyBusyDeletes(p) ==
    /\ pc[p] = "local"
    /\ sees[NodeOf[p]]
    /\ runKey \/ ~redisUp
    /\ runKey' = (runKey /\ ~redisUp)
    /\ keyBy' = IF redisUp THEN NoProc ELSE keyBy
    /\ Goto(p, "unlocking")
    /\ UNCHANGED <<env, redisUp, sees, local, holdsKey, stale>>

(* Mutant of KeyBusy: the answer of redis_setnx is ignored. *)
KeyBusyProceeds(p) ==
    /\ pc[p] = "local"
    /\ sees[NodeOf[p]]
    /\ runKey \/ ~redisUp
    /\ Goto(p, "granted")
    /\ UNCHANGED <<env, redisUp, sees, runKey, keyBy, local, holdsKey, stale>>

(* redis_setnx returns False: another node holds the key, or redis went away
   after the availability answer was cached.  The caller answers "busy" and
   the finally block only has the local lock to give back. *)
KeyBusy(p) ==
    /\ pc[p] = "local"
    /\ sees[NodeOf[p]]
    /\ runKey \/ ~redisUp
    /\ Goto(p, "unlocking")
    /\ UNCHANGED <<env, redisUp, sees, runKey, keyBy, local, holdsKey, stale>>

(* redis_available() is False: the process-local lock is all there is *)
LocalOnly(p) ==
    /\ pc[p] = "local"
    /\ ~sees[NodeOf[p]]
    /\ Goto(p, "granted")
    /\ UNCHANGED <<env, redisUp, sees, runKey, keyBy, local, holdsKey, stale>>

-----------------------------------------------------------------------------
(* Working on the run *)

Load(p, copy) == stale' = [stale EXCEPT ![p][copy] = {}]

(* A copy that may still be written back. *)
InUse(p, copy) ==
    IF copy = "inner" THEN pc[p] = "nested"
                      ELSE pc[p] \in {"loaded", "nested", "cancelled"}

(* A write of columns cols makes the copies of everybody else stale; what the
   writer itself wrote is not news to it. *)
Write(p, cols) ==
    stale' = [q \in Proc |-> [c \in Copy |->
                 CASE ~InUse(q, c) -> {}
                   [] q = p -> stale[q][c]
                   [] OTHER -> stale[q][c] \cup cols]]

(* get_trading_run under the lock (monitor), _load_run (flatten) *)
LoadRun(p) ==
    /\ pc[p] = "granted"
    /\ Role[p] \in {"monitor", "flatten"}
    /\ Load(p, "outer")
    /\ Goto(p, "loaded")
    /\ UNCHANGED <<env, redisUp, sees, runKey, keyBy, local, holdsKey>>

(* _cancel_trade_instance_orders_locked loads its own copy of the run, whether
   it is the user's cancel or the first thing a flatten does. *)
LoadForCancel(p) ==
    /\ \/ Role[p] = "cancel" /\ pc[p] = "granted"
       \/ Role[p] = "flatten" /\ pc[p] = "loaded"
    /\ Load(p, "inner")
    /\ Goto(p, "nested")
    /\ UNCHANGED <<env, redisUp, sees, runKey, keyBy, local, holdsKey>>

CancelWrite(p) ==
    /\ pc[p] = "nested"
    /\ Write(p, {"instance"})
    /\ Goto(p, IF Role[p] = "flatten" THEN "cancelled" ELSE "leaving")
    /\ UNCHANGED <<env, redisUp, sees, runKey, keyBy, local, holdsKey>>

FlattenWrite(p) ==
    /\ pc[p] = "cancelled"
    /\ Write(p, Column)
    /\ Goto(p, "leaving")
    /\ UNCHANGED <<env, redisUp, sees, runKey, keyBy, local, holdsKey>>

(* The monitor writes only when an order of the run changed. *)
MonitorWrite(p) ==
    /\ Role[p] = "monitor"
    /\ pc[p] = "loaded"
    /\ Write(p, Column)
    /\ Goto(p, "leaving")
    /\ UNCHANGED <<env, redisUp, sees, runKey, keyBy, local, holdsKey>>

(* Nothing changed, or an exception leaves the with block early. *)
LeaveEarly(p) ==
    /\ Role[p] # "reset"
    /\ pc[p] \in {"granted", "loaded", "nested", "cancelled"}
    /\ Goto(p, "leaving")
    /\ UNCHANGED <<env, redisUp, sees, runKey, keyBy, local, holdsKey, stale>>

(* reset_trade_instance_risk: no lock around its load and its write *)
ResetLoad(p) ==
    /\ p \in env.callers
    /\ Role[p] = "reset"
    /\ pc[p] = "idle"
    /\ Load(p, "outer")
    /\ Goto(p, "loaded")
    /\ UNCHANGED <<env, redisUp, sees, runKey, keyBy, local, holdsKey>>

ResetWrite(p) ==
    /\ Role[p] = "reset"
    /\ pc[p] = "loaded"
    /\ Write(p, Column)
    /\ Goto(p, "idle")
    /\ UNCHANGED <<env, redisUp, sees, runKey, keyBy, local, holdsKey>>

-----------------------------------------------------------------------------
(* Giving the lock back *)

(* redis_del deletes the key whoever created it; it does nothing when redis
   does not answer. *)
DeleteKey(p) ==
    /\ pc[p] = "leaving"
    /\ IF holdsKey[p] /\ redisUp
         THEN runKey' = FALSE /\ keyBy' = NoProc
         ELSE UNCHANGED <<runKey, keyBy>>
    /\ holdsKey' = [holdsKey EXCEPT ![p] = FALSE]
    /\ Goto(p, "unlocking")
    /\ UNCHANGED <<env, redisUp, sees, local, stale>>

(* Mutant of ReleaseLocal: the finally block forgets the local lock. *)
KeepLocal(p) ==
    /\ pc[p] = "unlocking"
    /\ Goto(p, "idle")
    /\ UNCHANGED <<env, redisUp, sees, runKey, keyBy, local, holdsKey, stale>>

ReleaseLocal(p) ==
    /\ pc[p] = "unlocking"
    /\ local' = [local EXCEPT ![NodeOf[p]] = NoProc]
    /\ Goto(p, "idle")
    /\ UNCHANGED <<env, redisUp, sees, runKey, keyBy, holdsKey, stale>>

-----------------------------------------------------------------------------
(* The environment *)

(* The key's TTL passes.  Without "outlived" this only happens to a key whose
   creator is no longer in the section: it crashed, or its redis_del was lost. *)
KeyExpires ==
    /\ runKey
    /\ env.outlived \/ keyBy = NoProc \/ ~holdsKey[keyBy]
    /\ runKey' = FALSE
    /\ keyBy' = NoProc
    /\ UNCHANGED <<env, redisUp, sees, local, pc, holdsKey, stale>>

RedisFlap ==
    /\ env.flaps
    /\ redisUp' = ~redisUp
    /\ UNCHANGED <<env, sees, runKey, keyBy, local, pc, holdsKey, stale>>

(* A call on node n pings redis once the 2 s cache has run out. *)
RefreshAvailability(n) ==
    /\ sees[n] # redisUp
    /\ sees' = [sees EXCEPT ![n] = redisUp]
    /\ UNCHANGED <<env, redisUp, runKey, keyBy, local, pc, holdsKey, stale>>

(* The node dies and comes back: its memory is gone, the redis key is not. *)
Crash(n) ==
    /\ env.crashes
    /\ local' = [local EXCEPT ![n] = NoProc]
    /\ pc' = [p \in Proc |-> IF NodeOf[p] = n THEN "idle" ELSE pc[p]]
    /\ holdsKey' = [p \in Proc |-> NodeOf[p] # n /\ holdsKey[p]]
    /\ UNCHANGED <<env, redisUp, sees, runKey, keyBy, stale>>

Thread(p) ==
    \/ AcquireLocal(p) \/ LocalTimeout(p)
    \/ TakeKey(p) \/ KeyBusy(p) \/ LocalOnly(p)
    \/ LoadRun(p) \/ LoadForCancel(p)
    \/ CancelWrite(p) \/ FlattenWrite(p) \/ MonitorWrite(p) \/ LeaveEarly(p)
    \/ DeleteKey(p) \/ ReleaseLocal(p)
    \/ ResetWrite(p)

Next ==
    \/ \E p \in Proc : Call(p) \/ ResetLoad(p) \/ Thread(p)
    \/ \E n \in Node : RefreshAvailability(n) \/ Crash(n)
    \/ KeyExpires
    \/ RedisFlap

Spec == Init /\ [][Next]_vars

(***************************************************************************)
(* A thread that has begun a call keeps running (the code has no unbounded *)
(* wait: the local acquire has a timeout, broker calls return or raise),   *)
(* and redis expires keys.  Nobody has to begin a call, redis need not     *)
(* recover and nodes need not crash.                                       *)
(***************************************************************************)
Fairness ==
    /\ \A p \in Proc : WF_vars(Thread(p))
    /\ WF_vars(KeyExpires)

FairSpec == Spec /\ Fairness

-----------------------------------------------------------------------------
(* Correctness *)

(* Two threads of the same node are never both inside the lock, whatever redis
   does and whenever the node crashes: the local lock comes first. *)
SameNodeExclusion ==
    \A p, q \in Proc :
        InSection(p) /\ InSection(q) /\ NodeOf[p] = NodeOf[q] => p = q

(* The environment in which redis stays as it is and no holder outlives its
   lease; without redis there is a single node. *)
Orderly ==
    /\ ~env.outlived
    /\ ~env.flaps
    /\ env.redis \/ \A m, n \in Node : m = n

(* In an orderly environment at most one thread, on any node, is inside. *)
MutualExclusion ==
    Orderly => \A p, q \in Proc : InSection(p) /\ InSection(q) => p = q

(* Everybody who calls takes the lock: nobody resets the risk. *)
LockersOnly == \A p \in env.callers : Role[p] # "reset"

(* A write of columns cols from this copy discards what another thread wrote
   to one of them after the copy was loaded. *)
Overwrites(p, copy, cols) == stale[p][copy] \cap cols # {}

(* Among callers that all take the lock, in an orderly environment, no write
   discards what another thread wrote to the same column after the writer had
   loaded the run. *)
NoLostUpdate ==
    [][Orderly /\ LockersOnly => \A p \in Proc :
          /\ CancelWrite(p) => ~Overwrites(p, "inner", {"instance"})
          /\ FlattenWrite(p) \/ MonitorWrite(p) => ~Overwrites(p, "outer", Column)]_vars

(* What the docstring of trading_locks.py says of all four callers, reset
   included: nothing broker-affecting is clobbered. *)
NoCallerClobbers ==
    [][Orderly => \A p \in Proc :
          ResetWrite(p) \/ FlattenWrite(p) \/ MonitorWrite(p)
              => ~Overwrites(p, "outer", Column)]_vars

(* In an orderly environment the lock implements RunLock: the owner is the
   thread inside the section, and it leaves by the finally block or by a crash. *)
Owner ==
    IF Orderly /\ \E p \in Proc : InSection(p)
      THEN CHOOSE p \in Proc : InSection(p)
      ELSE NoProc

Abstract == INSTANCE RunLock WITH owner <- Owner

ImplementsRunLock == Abstract!Spec

(* A redis key that exists is eventually gone, even if its creator crashed or
   its delete was lost, the local lock always comes back, and every call ends:
   "Always yields (never blocks forever)". *)
LockComesBack ==
    /\ runKey ~> ~runKey
    /\ \A n \in Node : local[n] # NoProc ~> local[n] = NoProc
    /\ \A p \in Proc : pc[p] # "idle" ~> pc[p] = "idle"

-----------------------------------------------------------------------------
(* Why the lock excludes: the inductive strengthening of the two exclusion
   invariants.  RunActionLock_proofs proves it. *)

(* Whoever is past the local acquire and not yet past the release is the owner
   of its node's lock; a reset is never there. *)
LocalLockInv ==
    \A p \in Proc :
        /\ Holds(p) => local[NodeOf[p]] = p
        /\ Role[p] = "reset" => pc[p] \in {"idle", "loaded"}

(* With a redis that stays, everybody asks it, and only the creator of the key
   that exists is inside. *)
KeyInv ==
    Orderly /\ env.redis =>
        /\ redisUp /\ \A n \in Node : sees[n]
        /\ \A p \in Proc : InSection(p) => holdsKey[p]
        /\ \A p \in Proc : holdsKey[p] => runKey /\ keyBy = p

LockInv == LocalLockInv /\ KeyInv
=============================================================================
