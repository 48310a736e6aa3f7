--------------------------- MODULE WorkerProcess ---------------------------
(***************************************************************************)
(* The processes that do the work of the background: they start, run       *)
(* their threads and may die at any step.  A supervisor starts a process   *)
(* that has died again.                                                    *)
(*                                                                         *)
(* env is what is chosen once and for all for a deployment: which          *)
(* processes there are and which threads the AI_OPTION_ENABLE_* variables  *)
(* start in them, what the users ask for and what may fail.                *)
(***************************************************************************)
EXTENDS Integers, Sequences, FiniteSets

CONSTANTS
    Node,        \* processes
    Home,        \* the process that runs the threads of which there is one
    Environment  \* the deployments to look at

ASSUME NodeAssumption ==
    /\ IsFiniteSet(Node) /\ Home \in Node /\ "web" \notin Node /\ "none" \notin Node
    /\ \A e \in Environment :
        /\ e.nodes \subseteq Node /\ e.crashes \in Nat
        /\ \A flag \in {"redis", "flaps", "quick", "slow", "faults"} : e[flag] \in BOOLEAN

VARIABLES
    env,     \* the deployment
    node,    \* how far the start of each process is
    crashes  \* processes that have died so far

processVars == <<env, node, crashes>>

ProcessTypeOK ==
    /\ env \in Environment
    /\ node \in [Node -> {"down", "locked", "requeueing", "up"}]
    /\ crashes \in 0..env.crashes

ProcessInit ==
    /\ env \in Environment
    /\ node = [n \in Node |-> "down"]
    /\ crashes = 0

\* What a call of Redis may find; a call that fails is the same as no Redis.
Answers == IF env.redis /\ env.flaps THEN BOOLEAN ELSE {env.redis}

IsUp(n) == node[n] = "up"

\* What of seq is in S, in its order.
Among(seq, S) ==
    LET kept[i \in 0..Len(seq)] ==
          IF i = 0 THEN <<>>
          ELSE IF seq[i] \in S THEN Append(kept[i - 1], seq[i]) ELSE kept[i - 1]
    IN  kept[Len(seq)]

\* Dies(n) is what the death of a process does to the process itself.
Dies(n) ==
    /\ crashes < env.crashes
    /\ node[n] # "down"
    /\ node' = [node EXCEPT ![n] = "down"]
    /\ crashes' = crashes + 1
    /\ UNCHANGED env

=============================================================================
