--------------------------- MODULE AutoTradeCycle ---------------------------
(***************************************************************************)
(* The automatic trading loop: the tick of the scheduler of each process   *)
(* under a leader lock, and the cycle of one instance.  A cycle works on   *)
(* the instance as it was listed: it first moves next_run_at on, which is  *)
(* the claim the other processes see, and writes the counters back at the  *)
(* end.                                                                    *)
(*                                                                         *)
(* next is next_run_at as a scheduler sees it: null or past (due), or      *)
(* future.                                                                 *)
(***************************************************************************)
EXTENDS WorkerProcess

CONSTANTS
    Instance, \* auto-trade instances
    OrderCap, \* max_order_cycles_per_session of their preset
    MaxDay    \* bound: days

ASSUME AutoAssumption ==
    /\ IsFiniteSet(Instance) /\ "none" \notin Instance
    /\ OrderCap \in Nat /\ MaxDay \in Nat
    /\ \A e \in Environment :
        /\ e.traders \subseteq Node
        /\ e.instances \subseteq Instance /\ e.wakes \in Nat /\ e.days \in 0..MaxDay
        /\ e.presses \subseteq {"start", "pause", "stop"}

VARIABLES
    row,    \* the rows of auto_trade_instances
    day,    \* the trading day
    leader, \* holder of the leader lock
    tick,   \* what the scheduler of each process does
    wakes,  \* how often the clock or a user has made each instance due
    cycles, \* cycles of each instance
    placed  \* cycles of the day that placed an order

autoVars == <<row, day, leader, tick, wakes, cycles, placed>>

Rows == [status : {"active", "paused", "stopped"}, next : {"null", "future", "past"},
         day : 0..MaxDay, orders : Nat]
Asleep == [pc |-> "idle", batch |-> {}, at |-> "none", next |-> "future", orders |-> 0, placed |-> FALSE]
TickPc == {"idle", "leading", "batch", "claimed", "ran"}

AutoTypeOK ==
    /\ row \in [Instance -> Rows]
    /\ day \in 0..MaxDay
    /\ leader \in Node \union {"none"}
    /\ tick \in [Node -> [pc : TickPc, batch : SUBSET [id : Instance, day : 0..MaxDay, orders : Nat],
                          at : Instance \union {"none"}, next : {"future", "past"},
                          orders : Nat, placed : BOOLEAN]]
    /\ wakes \in [Instance -> Nat]
    /\ cycles \in [Instance -> Nat]
    /\ placed \in [Instance -> Nat]

AutoInit ==
    /\ row = [i \in Instance |-> [status |-> "active", next |-> "future", day |-> 0, orders |-> 0]]
    /\ day = 0
    /\ leader = "none"
    /\ tick = [n \in Node |-> Asleep]
    /\ wakes = [i \in Instance |-> 0]
    /\ cycles = [i \in Instance |-> 0]
    /\ placed = [i \in Instance |-> 0]

IsDue(i) == row[i].status = "active" /\ row[i].next # "future"

(***************************************************************************)
(* The clock, and the user.                                                *)
(***************************************************************************)
\* What was "in an interval" when a cycle claimed it is past for the cycle as well.
IntervalPasses(i) ==
    /\ i \in env.instances /\ row[i].next = "future" /\ wakes[i] < env.wakes
    /\ row' = [row EXCEPT ![i].next = "past"]
    /\ tick' = [n \in Node |-> IF tick[n].at = i THEN [tick[n] EXCEPT !.next = "past"] ELSE tick[n]]
    /\ wakes' = [wakes EXCEPT ![i] = IF row[i].status = "active" THEN @ + 1 ELSE @]
    /\ UNCHANGED <<day, leader, cycles, placed>>

\* No cycle runs over midnight: cycles trade in the session.
NextDay ==
    /\ day < env.days
    /\ \A n \in Node : tick[n].at = "none"
    /\ day' = day + 1
    /\ placed' = [i \in Instance |-> 0]
    /\ UNCHANGED <<row, leader, tick, wakes, cycles>>

UserStarts(i) ==
    /\ i \in env.instances /\ "start" \in env.presses /\ wakes[i] < env.wakes
    /\ row' = [row EXCEPT ![i].status = "active", ![i].next = "null"]
    /\ wakes' = [wakes EXCEPT ![i] = IF IsDue(i) THEN @ ELSE @ + 1]
    /\ UNCHANGED <<day, leader, tick, cycles, placed>>

UserPauses(i) ==
    /\ i \in env.instances /\ "pause" \in env.presses
    /\ row' = [row EXCEPT ![i].status = "paused"]
    /\ UNCHANGED <<day, leader, tick, wakes, cycles, placed>>

UserStops(i) ==
    /\ i \in env.instances /\ "stop" \in env.presses
    /\ row' = [row EXCEPT ![i].status = "stopped", ![i].next = "null"]
    /\ UNCHANGED <<day, leader, tick, wakes, cycles, placed>>

(***************************************************************************)
(* _tick: lead, list what is due, run it one by one, release.              *)
(***************************************************************************)
Lead(n) ==
    /\ IsUp(n) /\ n \in env.traders /\ tick[n].pc = "idle"
    /\ IF env.redis THEN leader = "none" /\ leader' = n ELSE UNCHANGED leader
    /\ tick' = [tick EXCEPT ![n].pc = "leading"]
    /\ UNCHANGED <<row, day, wakes, cycles, placed>>

ListDue(n) ==
    /\ tick[n].pc = "leading"
    /\ tick' = [tick EXCEPT ![n].pc = "batch",
                            ![n].batch = {[id |-> i, day |-> row[i].day, orders |-> row[i].orders] :
                                             i \in {j \in Instance : IsDue(j)}}]
    /\ UNCHANGED <<row, day, leader, wakes, cycles, placed>>

\* Without the token nobody else's lock is released.
EndTick(n) ==
    /\ tick[n].pc = "batch" /\ tick[n].batch = {}
    /\ tick' = [tick EXCEPT ![n] = Asleep]
    /\ leader' = IF leader = n THEN "none" ELSE leader
    /\ UNCHANGED <<row, day, wakes, cycles, placed>>

(* The lock lives 45 seconds and is renewed between two cycles: it may end
   in a cycle that takes longer, and it ends when its process has died. *)
LeaderLapses ==
    /\ leader # "none"
    /\ tick[leader].pc = "idle" \/ (env.slow /\ tick[leader].at # "none")
    /\ leader' = "none"
    /\ UNCHANGED <<row, day, tick, wakes, cycles, placed>>

(***************************************************************************)
(* run_auto_trade_cycle.                                                   *)
(***************************************************************************)
OrdersToday(snapshot) == IF snapshot.day = day THEN snapshot.orders ELSE 0

Claimed(n, snapshot) ==
    [pc |-> "claimed", batch |-> tick[n].batch \ {snapshot}, at |-> snapshot.id, next |-> "future",
     orders |-> OrdersToday(snapshot), placed |-> FALSE]

(* Mutant of Claim: the wake time is only written at the end of the cycle. *)
ClaimAtTheEnd(n, snapshot) ==
    /\ tick[n].pc = "batch" /\ snapshot \in tick[n].batch
    /\ row' = [row EXCEPT ![snapshot.id].day = day, ![snapshot.id].orders = OrdersToday(snapshot)]
    /\ tick' = [tick EXCEPT ![n] = Claimed(n, snapshot)]
    /\ UNCHANGED <<day, leader, wakes, cycles, placed>>

\* The claim, with the counters of the snapshot.
Claim(n, snapshot) ==
    /\ tick[n].pc = "batch" /\ snapshot \in tick[n].batch
    /\ row' = [row EXCEPT ![snapshot.id].next = "future", ![snapshot.id].day = day,
                          ![snapshot.id].orders = OrdersToday(snapshot)]
    /\ tick' = [tick EXCEPT ![n] = Claimed(n, snapshot)]
    /\ UNCHANGED <<day, leader, wakes, cycles, placed>>

Leave(n) == [Asleep EXCEPT !.pc = "batch", !.batch = tick[n].batch]

\* The kill switch is off, or the session is not open.
SitOut(n) ==
    /\ tick[n].pc = "claimed"
    /\ tick' = [tick EXCEPT ![n] = Leave(n)]
    /\ UNCHANGED <<row, day, leader, wakes, cycles, placed>>

(* Mutant of IsCapped: one cycle more than the cap may place orders. *)
IsCappedLate(orders) == orders > OrderCap

IsCapped(orders) == orders >= OrderCap

(* The row of the cycle is written and the run executed.  Past the cap it only
   analyses, as it does after the loss of a day or without a broker; otherwise
   it may place orders. *)
RunCycle(n) ==
    /\ tick[n].pc = "claimed"
    /\ cycles' = [cycles EXCEPT ![tick[n].at] = @ + 1]
    /\ \E places \in BOOLEAN :
        /\ places => ~IsCapped(tick[n].orders)
        /\ tick' = [tick EXCEPT ![n].pc = "ran", ![n].placed = places]
        /\ placed' = [placed EXCEPT ![tick[n].at] = IF places THEN @ + 1 ELSE @]
    /\ UNCHANGED <<row, day, leader, wakes>>

(* What the cycle saw of its instance and of the run goes into the row.  When
   the run is not to be read again its orders are not counted. *)
FinishCycle(n) ==
    /\ tick[n].pc = "ran"
    /\ \E counted \in BOOLEAN :
        /\ counted => tick[n].placed
        /\ env.faults \/ counted = tick[n].placed
        /\ row' = [row EXCEPT ![tick[n].at] =
              [@ EXCEPT !.next = tick[n].next, !.day = day,
                        !.orders = IF counted THEN tick[n].orders + 1 ELSE tick[n].orders]]
    /\ tick' = [tick EXCEPT ![n] = Leave(n)]
    /\ UNCHANGED <<day, leader, wakes, cycles, placed>>

\* The database fails: the exception ends the cycle, the tick goes on with the next instance.
CycleFails(n) ==
    /\ env.faults /\ tick[n].at # "none"
    /\ tick' = [tick EXCEPT ![n] = Leave(n)]
    /\ UNCHANGED <<row, day, leader, wakes, cycles, placed>>

TraderDies(n) ==
    /\ tick' = [tick EXCEPT ![n] = Asleep]
    /\ UNCHANGED <<row, day, leader, wakes, cycles, placed>>

=============================================================================
