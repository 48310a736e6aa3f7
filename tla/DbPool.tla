------------------------------- MODULE DbPool -------------------------------
(***************************************************************************)
(* The pool of Postgres connections of one process: a stack of idle        *)
(* connections and a count of those that were made.  A client takes an     *)
(* idle one, creates one while the count allows it, or waits for one that  *)
(* is released.                                                            *)
(***************************************************************************)
EXTENDS WorkerProcess

CONSTANTS
    Client,   \* threads that use the database
    PoolSize  \* AI_OPTION_DB_POOL_SIZE

ASSUME PoolAssumption ==
    /\ IsFiniteSet(Client) /\ PoolSize \in Nat \ {0}
    /\ \A e \in Environment : e.clients \subseteq Client /\ {e.breaks, e.unreachable} \subseteq BOOLEAN

VARIABLES
    idle,    \* the pool, the last one released first: whether each connection is open
    connections, \* _POSTGRES_POOL_CREATED
    client   \* what each client does

poolVars == <<idle, connections, client>>

PoolTypeOK ==
    /\ idle \in Seq({"open", "closed"}) /\ Len(idle) <= PoolSize
    /\ connections \in 0..PoolSize
    /\ client \in [Client -> {"out", "asks", "dropsFirst", "empty", "waits", "drops", "uses", "closes"}]

PoolInit ==
    /\ idle = <<>>
    /\ connections = 0
    /\ client = [c \in Client |-> "out"]

Moves(c, to) == client' = [client EXCEPT ![c] = to]

Receives(c, toDrop) ==
    /\ idle' = Tail(idle)
    /\ Moves(c, IF Head(idle) = "open" THEN "uses" ELSE toDrop)

(***************************************************************************)
(* _acquire_postgres_connection.                                           *)
(***************************************************************************)
TakeIdle(c) ==
    /\ client[c] \in {"out", "asks"} /\ c \in env.clients /\ IsUp(Home)
    /\ IF idle = <<>> THEN Moves(c, "empty") /\ UNCHANGED idle ELSE Receives(c, "dropsFirst")
    /\ UNCHANGED connections

(* Mutant of Forgets: a connection that was closed keeps its place. *)
KeepsPlace == connections' = connections

\* _mark_postgres_connection_closed
Forgets == connections' = IF connections > 0 THEN connections - 1 ELSE 0

\* A client that was given a closed connection goes on to create one, or asks again after a wait.
DropClosed(c) ==
    /\ \/ client[c] = "dropsFirst" /\ Moves(c, "empty")
       \/ client[c] = "drops" /\ Moves(c, "asks")
    /\ Forgets
    /\ UNCHANGED idle

\* Counted and then connected under the lock of the pool; the count stays when that raises.
Create(c) ==
    /\ client[c] = "empty" /\ connections < PoolSize
    /\ connections' = connections + 1
    /\ Moves(c, "uses") \/ (env.unreachable /\ Moves(c, "out"))
    /\ UNCHANGED idle

Wait(c) ==
    /\ client[c] = "empty" /\ connections >= PoolSize
    /\ Moves(c, "waits")
    /\ UNCHANGED <<idle, connections>>

WaitEnds(c) ==
    /\ client[c] = "waits" /\ idle # <<>>
    /\ Receives(c, "drops")
    /\ UNCHANGED connections

\* After 30 seconds.
WaitTimesOut(c) ==
    /\ client[c] = "waits" /\ idle = <<>>
    /\ Moves(c, "out")
    /\ UNCHANGED <<idle, connections>>

(***************************************************************************)
(* __exit__: commit or rollback, and back into the pool.  A connection on  *)
(* which that fails, or for which there is no place, is closed.            *)
(***************************************************************************)
Release(c) ==
    /\ client[c] = "uses"
    /\ \/ IF Len(idle) < PoolSize
          THEN idle' = <<"open">> \o idle /\ Moves(c, "out")
          ELSE Moves(c, "closes") /\ UNCHANGED idle
       \/ env.breaks /\ Moves(c, "closes") /\ UNCHANGED idle
    /\ UNCHANGED connections

Close(c) ==
    /\ client[c] = "closes"
    /\ Forgets
    /\ Moves(c, "out")
    /\ UNCHANGED idle

\* A connection that lies in the pool is found closed.
IdleBreaks ==
    /\ env.breaks
    /\ \E k \in DOMAIN idle : idle' = [idle EXCEPT ![k] = "closed"]
    /\ UNCHANGED <<connections, client>>

PoolDies(n) ==
    IF n = Home
    THEN idle' = <<>> /\ connections' = 0 /\ client' = [c \in Client |-> "out"]
    ELSE UNCHANGED poolVars

=============================================================================
