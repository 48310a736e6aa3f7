---------------------------- MODULE ScheduleSlots ----------------------------
(***************************************************************************)
(* The multi-instance scheduler: on every node a thread ticks, takes a     *)
(* leader lock in redis, and walks the due slots of the day.  A slot is    *)
(* gated against the capital that is left, claimed by a row of             *)
(* trading_schedule_fires, started as a trading run, and marked.  A claim  *)
(* that stays too long is recovered and replayed.                          *)
(*                                                                         *)
(* One owner, one trading day, one schedule profile.  The columns of the   *)
(* session that recalc_schedule_session derives from the rows are not      *)
(* stored here: get_or_create recalculates them on the way of every tick,  *)
(* so a tick reads what the rows say at that moment.                       *)
(***************************************************************************)
EXTENDS Integers, Sequences, FiniteSets, FiniteSetsExt

CONSTANTS
    Node,          \* scheduler processes
    Slot,          \* enabled slots of the profile
    Agenda,        \* the slots in the order of their time of day
    ExitOnly,      \* slots that flatten instead of opening
    Cap,           \* requested capital of a slot
    TotalCapital,
    MaxRetry,      \* bound on the replays of a slot
    MaxCrashes,    \* bound on the crashes of nodes
    Environment,   \* the environments considered
    NoNode

(***************************************************************************)
(* "overrun": a tick may outlast the 55 s leader lock and a claim may turn *)
(* stale under a starter that still works on it.  "redis": there is a      *)
(* leader lock at all.  "drift": the user edits the configuration and      *)
(* back during the day.  "slots" bounds how much of the agenda comes due.  *)
(***************************************************************************)
EnvironmentType ==
    [overrun : BOOLEAN, redis : BOOLEAN, drift : BOOLEAN, slots : 0 .. Len(Agenda)]

ASSUME SlotAssumption ==
    /\ Agenda \in Seq(Slot)
    /\ \A s \in Slot : \E i \in DOMAIN Agenda : Agenda[i] = s
    /\ ExitOnly \subseteq Slot
    /\ Cap \in [Slot -> Nat]
    /\ TotalCapital \in Nat
    /\ MaxRetry \in Nat
    /\ MaxCrashes \in Nat
    /\ Environment \subseteq EnvironmentType
    /\ NoNode \notin Node

Epoch == 0 .. MaxRetry
Statuses == {"none", "claimed", "retrying", "skipped", "fired", "failed"}

VARIABLES
    env,
    config,     \* the configuration the user has saved: "saved" or "edited"
    due,        \* how many slots of the agenda are due
    leader,     \* owner token of the leader lock
    fires,      \* the row of each slot; status "none" is no row
    sessionOf,  \* the configuration the session was created with, or "none"
    live,       \* trading runs being executed: <<slot, epoch, node>>
    starts,     \* history: runs (or exit passes) started per slot
    pc,         \* per node: step of its tick
    at,         \* per node: position in the agenda of the slot at hand
    my,         \* per node: what the tick has read
    crashes

vars == <<env, config, due, leader, fires, sessionOf, live, starts, pc, at, my, crashes>>

Steps == {"idle", "slot", "opened", "recovering", "gate", "claiming",
          "starting", "marking", "leaving"}

(* What a tick remembers: the configuration it loaded, whether it asked for
   the leader lock, the session's configuration and remaining capital, the
   stale slots it selected, whether it has already recovered for this slot,
   and of the slot at hand the status it read, the epoch it claimed and the
   outcome it will mark. *)
MemoryOf(amounts) ==
    [config : {"saved", "edited"}, locks : BOOLEAN,
     session : {"saved", "edited"}, remaining : amounts,
     found : SUBSET Slot, recovered : BOOLEAN,
     read : Statuses, epoch : Epoch, outcome : {"fired", "failed"}]

Fire == [status : Statuses, capital : Nat, retry : Epoch, old : BOOLEAN]

TypeOK ==
    /\ env \in Environment
    /\ config \in {"saved", "edited"}
    /\ due \in 0 .. Len(Agenda)
    /\ leader \in Node \cup {NoNode}
    /\ fires \in [Slot -> Fire]
    /\ sessionOf \in {"none", "saved", "edited"}
    /\ live \subseteq Slot \X Epoch \X Node
    /\ starts \in [Slot -> Nat]
    /\ pc \in [Node -> Steps]
    /\ at \in [Node -> 1 .. Len(Agenda) + 1]
    /\ my \in [Node -> MemoryOf(Nat)]
    /\ crashes \in 0 .. MaxCrashes

NoMemory ==
    [config |-> "saved", locks |-> FALSE, session |-> "saved", remaining |-> 0,
     found |-> {}, recovered |-> FALSE, read |-> "none", epoch |-> 0,
     outcome |-> "fired"]

Init ==
    /\ env \in Environment
    /\ config = "saved"
    /\ due = 0
    /\ leader = NoNode
    /\ fires = [s \in Slot |-> [status |-> "none", capital |-> 0, retry |-> 0, old |-> FALSE]]
    /\ sessionOf = "none"
    /\ live = {}
    /\ starts = [s \in Slot |-> 0]
    /\ pc = [n \in Node |-> "idle"]
    /\ at = [n \in Node |-> 1]
    /\ my = [n \in Node |-> NoMemory]
    /\ crashes = 0

-----------------------------------------------------------------------------
(* Helpers *)

(* recalc_schedule_session: what claimed and fired rows hold *)
Allocated == 
    MapThenSumSet(LAMBDA s : fires[s].capital,
                  {s \in Slot : fires[s].status \in {"claimed", "fired"}})

Remaining == IF Allocated < TotalCapital THEN TotalCapital - Allocated ELSE 0

(* Mutant of CapitalFits: a slot is compared with the total. *)
CapitalFitsTotal(s, remaining) ==
    \/ s \in ExitOnly
    \/ Cap[s] > 0 /\ Cap[s] <= TotalCapital

(* A remaining capital of 0 is falsy, and the gate then compares with the
   total instead (trading_agent.py:663). *)
CapitalFits(s, remaining) ==
    \/ s \in ExitOnly
    \/ Cap[s] > 0 /\ Cap[s] <= (IF remaining = 0 THEN TotalCapital ELSE remaining)

(* evaluate_schedule_slot_gate *)
GatePasses(s, m) == m.session = m.config /\ CapitalFits(s, m.remaining)

SlotAt(n) == Agenda[at[n]]
Working(n, s) == pc[n] \notin {"idle", "leaving"} /\ at[n] <= due /\ SlotAt(n) = s

Goto(n, step) == pc' = [pc EXCEPT ![n] = step]
Remember(n, m) == my' = [my EXCEPT ![n] = m]

NextSlot(n) ==
    /\ at' = [at EXCEPT ![n] = @ + 1]
    /\ Goto(n, "slot")

-----------------------------------------------------------------------------
(* The tick of a node *)

(* _tick and list_enabled_configs *)
BeginTick(n) ==
    /\ pc[n] = "idle"
    /\ env.redis => leader = NoNode
    /\ leader' = IF env.redis THEN n ELSE leader
    /\ at' = [at EXCEPT ![n] = 1]
    /\ Remember(n, [NoMemory EXCEPT !.config = config, !.locks = env.redis])
    /\ Goto(n, "slot")
    /\ UNCHANGED <<env, config, due, fires, sessionOf, live, starts, crashes>>

(* get_or_create_schedule_session: the session keeps the configuration it was
   created with; a tick with another one only marks it degraded. *)
OpenSession(n) ==
    /\ pc[n] = "slot"
    /\ at[n] <= due
    /\ sessionOf' = IF sessionOf = "none" THEN my[n].config ELSE sessionOf
    /\ Remember(n, [my[n] EXCEPT !.session = sessionOf', !.remaining = Remaining])
    /\ Goto(n, IF my[n].recovered THEN "gate" ELSE "opened")
    /\ UNCHANGED <<env, config, due, leader, fires, live, starts, at, crashes>>

(* Mutant of StaleSlots: fired rows are taken for claims without an end, and
   their age is not asked. *)
StartedSlots == {s \in Slot : fires[s].status \in {"claimed", "fired"}}

StaleSlots == {s \in Slot : fires[s].status = "claimed" /\ fires[s].old}

(* recover_stale_schedule_slots, first statement *)
SelectStale(n) ==
    /\ pc[n] = "opened"
    /\ Remember(n, [my[n] EXCEPT !.found = StaleSlots])
    /\ Goto(n, IF StaleSlots = {} THEN "gate" ELSE "recovering")
    /\ UNCHANGED <<env, config, due, leader, fires, sessionOf, live, starts, at, crashes>>

(* Mutant of Released: the claim is renewed instead of released. *)
Renewed(row) == [row EXCEPT !.old = FALSE]

Released(row) == [row EXCEPT !.status = "retrying", !.old = FALSE]

(* recover_stale_schedule_slots, the updates: by key, whatever the status is by
   now.  The session is then opened again. *)
RecoverStale(n) ==
    /\ pc[n] = "recovering"
    /\ fires' = [s \in Slot |-> IF s \in my[n].found THEN Released(fires[s]) ELSE fires[s]]
    /\ Remember(n, [my[n] EXCEPT !.found = {}, !.recovered = TRUE])
    /\ Goto(n, "slot")
    /\ UNCHANGED <<env, config, due, leader, sessionOf, live, starts, at, crashes>>

(* The gate blocks: skip_schedule_slot inserts, unless there is a row. *)
Skip(n) ==
    /\ pc[n] = "gate"
    /\ LET s == SlotAt(n)
       IN  /\ ~GatePasses(s, my[n])
           /\ fires' = IF fires[s].status = "none"
                         THEN [fires EXCEPT ![s].status = "skipped"]
                         ELSE fires
    /\ Remember(n, [my[n] EXCEPT !.recovered = FALSE])
    /\ NextSlot(n)
    /\ UNCHANGED <<env, config, due, leader, sessionOf, live, starts, crashes>>

(* The gate passes: claim_schedule_slot first reads the row. *)
ReadClaim(n) ==
    /\ pc[n] = "gate"
    /\ GatePasses(SlotAt(n), my[n])
    /\ Remember(n, [my[n] EXCEPT !.read = fires[SlotAt(n)].status, !.recovered = FALSE])
    /\ Goto(n, "claiming")
    /\ UNCHANGED <<env, config, due, leader, fires, sessionOf, live, starts, at, crashes>>

RequestedCapital(s) == IF s \in ExitOnly THEN 0 ELSE Cap[s]

(* Mutant of ReplayRow: the replay is not counted. *)
ReplayRowUncounted(n, s) ==
    /\ my[n].read = "retrying"
    /\ fires[s].status = "retrying"
    /\ fires[s].retry < MaxRetry
    /\ fires' = [fires EXCEPT ![s].status = "claimed", ![s].capital = RequestedCapital(s)]

(* The row read was "retrying": a guarded update takes it over. *)
ReplayRow(n, s) ==
    /\ my[n].read = "retrying"
    /\ fires[s].status = "retrying"
    /\ fires[s].retry < MaxRetry
    /\ fires' = [fires EXCEPT ![s] =
                    [status |-> "claimed", capital |-> RequestedCapital(s),
                     retry |-> @.retry + 1, old |-> FALSE]]

(* Mutant of InsertRow: ON CONFLICT DO UPDATE. *)
UpsertRow(n, s) ==
    /\ my[n].read # "retrying"
    /\ fires' = [fires EXCEPT ![s] =
                    [status |-> "claimed", capital |-> RequestedCapital(s),
                     retry |-> 0, old |-> FALSE]]

(* Otherwise an insert that does nothing when a row is there. *)
InsertRow(n, s) ==
    /\ my[n].read # "retrying"
    /\ fires[s].status = "none"
    /\ fires' = [fires EXCEPT ![s] =
                    [status |-> "claimed", capital |-> RequestedCapital(s),
                     retry |-> 0, old |-> FALSE]]

ClaimWon(n) ==
    /\ pc[n] = "claiming"
    /\ LET s == SlotAt(n)
       IN  /\ ReplayRow(n, s) \/ InsertRow(n, s)
           /\ Remember(n, [my[n] EXCEPT !.epoch = fires'[s].retry])
    /\ Goto(n, "starting")
    /\ UNCHANGED <<env, config, due, leader, sessionOf, live, starts, at, crashes>>

ClaimLost(n) ==
    /\ pc[n] = "claiming"
    /\ fires[SlotAt(n)].status # (IF my[n].read = "retrying" THEN "retrying" ELSE "none")
    /\ NextSlot(n)
    /\ UNCHANGED <<env, config, due, leader, fires, sessionOf, live, starts, my, crashes>>

(* start_trading_run creates the run and hands it to the executor of the same
   process; execute_scheduled_exit_slot does its work before it returns. *)
Start(n) ==
    /\ pc[n] = "starting"
    /\ LET s == SlotAt(n)
       IN  /\ starts' = [starts EXCEPT ![s] = @ + 1]
           /\ live' = IF s \in ExitOnly THEN live ELSE live \cup {<<s, my[n].epoch, n>>}
    /\ Remember(n, [my[n] EXCEPT !.outcome = "fired"])
    /\ Goto(n, "marking")
    /\ UNCHANGED <<env, config, due, leader, fires, sessionOf, at, crashes>>

(* The account is not ready, or the start raises; of an exit pass, that some
   close failed. *)
StartFails(n) ==
    /\ pc[n] = "starting"
    /\ Remember(n, [my[n] EXCEPT !.outcome = "failed"])
    /\ Goto(n, "marking")
    /\ UNCHANGED <<env, config, due, leader, fires, sessionOf, live, starts, at, crashes>>

SetOutcome(s, outcome) == [fires EXCEPT ![s].status = outcome, ![s].old = FALSE]

(* mark_schedule_slot_fired by the starter.  A failed start is raised further
   and ends the walk over the agenda; a failed exit pass need not be. *)
Mark(n) ==
    /\ pc[n] = "marking"
    /\ fires' = SetOutcome(SlotAt(n), my[n].outcome)
    /\ \/ /\ my[n].outcome = "fired" \/ SlotAt(n) \in ExitOnly
          /\ NextSlot(n)
       \/ /\ my[n].outcome = "failed"
          /\ Goto(n, "leaving")
          /\ at' = at
    /\ UNCHANGED <<env, config, due, leader, sessionOf, live, starts, my, crashes>>

(* The rest of the agenda is not due. *)
AgendaDone(n) ==
    /\ pc[n] = "slot"
    /\ at[n] > due
    /\ Goto(n, "leaving")
    /\ UNCHANGED <<env, config, due, leader, fires, sessionOf, live, starts, at, my, crashes>>

(* The release compares the token. *)
EndTick(n) ==
    /\ pc[n] = "leaving"
    /\ leader' = IF my[n].locks /\ leader = n THEN NoNode ELSE leader
    /\ Goto(n, "idle")
    /\ at' = [at EXCEPT ![n] = 1]
    /\ Remember(n, NoMemory)
    /\ UNCHANGED <<env, config, due, fires, sessionOf, live, starts, crashes>>

-----------------------------------------------------------------------------
(* Trading runs and the environment *)

(* Mutant of FinishRun: a failed run hands its slot back. *)
FinishRunRequeues(run) ==
    /\ run \in live
    /\ live' = live \ {run}
    /\ \E outcome \in {"fired", "retrying"} : fires' = SetOutcome(run[1], outcome)
    /\ UNCHANGED <<env, config, due, leader, sessionOf, starts, pc, at, my, crashes>>

(* Mutant of FinishRun: the slot gets the status of the run, not its own. *)
FinishRunUnmapped(run) ==
    /\ run \in live
    /\ live' = live \ {run}
    /\ \E outcome \in {"succeeded", "failed"} : fires' = SetOutcome(run[1], outcome)
    /\ UNCHANGED <<env, config, due, leader, sessionOf, starts, pc, at, my, crashes>>

(* _finish_trading_run marks the slot again, with the outcome of the run. *)
FinishRun(run) ==
    /\ run \in live
    /\ live' = live \ {run}
    /\ \E outcome \in {"fired", "failed"} : fires' = SetOutcome(run[1], outcome)
    /\ UNCHANGED <<env, config, due, leader, sessionOf, starts, pc, at, my, crashes>>

(* Time of day reaches the next slot. *)
SlotBecomesDue ==
    /\ due < env.slots
    /\ due' = due + 1
    /\ UNCHANGED <<env, config, leader, fires, sessionOf, live, starts, pc, at, my, crashes>>

(* schedule_replay_after_minutes pass over a claim *)
ClaimAges(s) ==
    /\ fires[s].status = "claimed"
    /\ ~fires[s].old
    /\ fires[s].retry < MaxRetry
    /\ env.overrun \/ \A n \in Node : pc[n] \in {"starting", "marking"} => SlotAt(n) # s
    /\ fires' = [fires EXCEPT ![s].old = TRUE]
    /\ UNCHANGED <<env, config, due, leader, sessionOf, live, starts, pc, at, my, crashes>>

(* The leader lock's TTL passes: over a tick that is still going on only when
   ticks may overrun. *)
LeaderExpires ==
    /\ leader # NoNode
    /\ env.overrun \/ pc[leader] = "idle"
    /\ leader' = NoNode
    /\ UNCHANGED <<env, config, due, fires, sessionOf, live, starts, pc, at, my, crashes>>

EditConfig ==
    /\ env.drift
    /\ config' = IF config = "saved" THEN "edited" ELSE "saved"
    /\ UNCHANGED <<env, due, leader, fires, sessionOf, live, starts, pc, at, my, crashes>>

(* The process dies with its tick and the runs in its executor, and restarts. *)
Crash(n) ==
    /\ crashes < MaxCrashes
    /\ crashes' = crashes + 1
    /\ Goto(n, "idle")
    /\ at' = [at EXCEPT ![n] = 1]
    /\ Remember(n, NoMemory)
    /\ live' = {run \in live : run[3] # n}
    /\ UNCHANGED <<env, config, due, leader, fires, sessionOf, starts>>

TickStep(n) ==
    \/ OpenSession(n) \/ SelectStale(n) \/ RecoverStale(n)
    \/ Skip(n) \/ ReadClaim(n) \/ ClaimWon(n) \/ ClaimLost(n)
    \/ Start(n) \/ StartFails(n) \/ Mark(n)
    \/ AgendaDone(n) \/ EndTick(n)

Next ==
    \/ \E n \in Node : BeginTick(n) \/ TickStep(n) \/ Crash(n)
    \/ \E run \in live : FinishRun(run)
    \/ \E s \in Slot : ClaimAges(s)
    \/ SlotBecomesDue
    \/ LeaderExpires
    \/ EditConfig

Spec == Init /\ [][Next]_vars

(***************************************************************************)
(* Every node ticks every 30 s and a tick that began goes on.  Time passes *)
(* for leases and for claims.  Which node gets the leader lock is left     *)
(* open; runs need not end.                                                *)
(***************************************************************************)
Fairness ==
    /\ \A n \in Node : WF_vars(TickStep(n))
    /\ WF_vars(\E n \in Node : BeginTick(n))
    /\ WF_vars(LeaderExpires)
    /\ \A s \in Slot : WF_vars(ClaimAges(s))

FairSpec == Spec /\ Fairness

-----------------------------------------------------------------------------
(* Correctness *)

Decided == {"skipped", "fired", "failed"}

(* A deployment in which ticks keep within their lease and only the leader
   ticks. *)
Calm == ~env.overrun /\ (env.redis \/ \A m, n \in Node : m = n)

InStart(n) == pc[n] \in {"starting", "marking"}

(* Whatever the leases do, a node that starts a slot has a row to start it by,
   and that row has been claimed as often as the node's claim or more: a newer
   claim may have overtaken it, an older one never comes back. *)
StartersHoldClaims ==
    \A n \in Node :
        InStart(n) => /\ fires[SlotAt(n)].status # "none"
                      /\ my[n].epoch <= fires[SlotAt(n)].retry

(* Whatever the leases do, no two nodes start the same claim of a slot: the
   insert and the guarded update let one of them through. *)
ClaimExclusive ==
    \A m, n \in Node :
        InStart(m) /\ InStart(n) /\ SlotAt(m) = SlotAt(n) /\ my[m].epoch = my[n].epoch
            => m = n

Starting(s) == {n \in Node : pc[n] = "starting" /\ SlotAt(n) = s}

(* Every start of a slot is backed by a claim of its own: starts made and starts
   under way never exceed the replays plus one, and nothing starts without a
   row. *)
StartsBackedByClaims ==
    \A s \in Slot :
        IF fires[s].status = "none"
          THEN starts[s] = 0
          ELSE starts[s] + Cardinality(Starting(s)) <= fires[s].retry + 1

(* In a calm deployment a slot never has two trading runs alive, although a
   crash may make the scheduler start it twice. *)
OneLiveRunPerSlot ==
    Calm => \A r1, r2 \in live : r1[1] = r2[1] => r1 = r2

(* In a calm deployment a claim does not take the claimed and fired slots over
   the session's total capital, if its tick found some capital left: whatever
   ends or is marked between the tick's reading of the session and its claim. *)
CapitalRespectedUntilExhausted ==
    [][Calm => \A n \in Node :
                 0 < my[n].remaining /\ ClaimWon(n) => Allocated' <= TotalCapital]_vars

(* What the gate's "exceeds remaining capital" and its test promise without
   exception: the claimed and fired slots fit into the total capital. *)
CapitalWithinTotal == Calm => Allocated <= TotalCapital

(* A slot that was skipped, fired or failed is not taken up again. *)
StaysDecided(s) == fires[s].status \in Decided => fires'[s].status \in Decided

DecidedStaysDecided == [][Calm => \A s \in Slot : StaysDecided(s)]_vars

(* "fires once" without the restriction to calm deployments *)
SlotsAreNotReopened == [][\A s \in Slot : StaysDecided(s)]_vars

(* A slot that waits for its replay while others hold the capital it needs: its
   row is there, so the gate's skip does nothing and it is not decided. *)
CrowdedOut(s) == fires[s].status = "retrying" /\ ~CapitalFits(s, Remaining)

(* In a calm deployment a due slot is eventually decided, even when its starter
   crashed, as long as the configuration is left alone, except when it is
   crowded out. *)
DueSlotsAreDecided ==
    \A i \in DOMAIN Agenda :
        Calm /\ ~env.drift /\ due >= i
            ~> fires[Agenda[i]].status \in Decided \/ CrowdedOut(Agenda[i])
=============================================================================
