---------------------------- MODULE TradeInstance ----------------------------
(***************************************************************************)
(* What a trade instance shows of a single-leg position: its protection,   *)
(* the contracts booked as sold, and its lifecycle.  The first two are     *)
(* calculated from the order record whenever one is written.  So is the    *)
(* lifecycle, but what it has been, and the events of the pass or flatten  *)
(* that writes, have a say in what it becomes.                             *)
(***************************************************************************)
EXTENDS SingleLegExit

VARIABLES
    lifecycle,  \* of the instance in the database
    said        \* what the events of this pass make of it

shownVars == <<lifecycle, said>>

Watching == {"open", "monitoring", "partial_fill", "unprotected"}
Manual == "manual_intervention_required"
Lifecycles == Watching \cup {Manual, "exiting", "closed", "blocked"}

InstanceTypes ==
    /\ TypeOK
    /\ lifecycle \in Lifecycles
    /\ said \in [now : Lifecycles, event : Lifecycles \cup {"none"}]

InstanceTypeOK == InstanceTypes /\ Len(sells) <= MaxSells

(* _all_orders_terminal_without_fill *)
EndedUnfilled(r) == r.filled = 0 /\ r.of = "entry" /\ r.is = "unfilled"

Closed(r) == MapThenSumSet(LAMBDA s : r.closed[s], Source)
ExitPending(r) == MapThenSumSet(LAMBDA s : Max({0, r.submitted[s] - r.closed[s]}), Source)

(* Mutant of ExitInProgress: the status alone tells. *)
ExitInStatus(r) == r.of \in Source /\ r.is \in {"submitted", "partial"}

(* _single_leg_exit_in_progress *)
ExitInProgress(r) == ExitInStatus(r) \/ ExitPending(r) > 0

(* _all_single_leg_positions_closed: a flatten counts when it is submitted, and
   once more when it has filled. *)
AllClosed(r) == r.filled > 0 /\ r.filled <= Closed(r) + r.submitted["flatten"]

-----------------------------------------------------------------------------
(* build_protection_status *)

SoftwareQuantity(r) == IF "stop" \in r.active THEN r.stopQty ELSE 0

(* single_leg_smart_exit_quantity is what was open when the smart exit last
   looked: up to everything while it is armed, and nothing when it is not. *)
SmartQuantities(r) == IF "smart" \in r.active THEN 0 .. r.filled ELSE {0}

(* The broker's answer stays in the record for good. *)
StopUnsupported(r) == ~env.nativeStop /\ r.filled > 0

Unprotected(r, smart) ==
    IF StopUnsupported(r) /\ SoftwareQuantity(r) = 0
      THEN r.filled
      ELSE Max({0, r.filled - r.covered - SoftwareQuantity(r) - smart - ClosedOrPending(r)})

ProtectionState(r, smart) ==
    IF EndedUnfilled(r) THEN "no_position"
    ELSE IF Unprotected(r, smart) > 0 THEN "unprotected"
    ELSE IF r.stops # {} THEN "protected"
    ELSE IF SoftwareQuantity(r) + smart > 0 THEN "software_protected"
    ELSE IF ExitPending(r) > 0 THEN "exiting"
    ELSE IF AllClosed(r) THEN "exited" ELSE "pending"

(* The errors no later look of the monitor takes back: an exit was refused, or
   tried as often as it may be.  That of a flatten is not asked for. *)
Errors(r) ==
    {s \in Software : r.exit[s] = "failed" \/ (r.of = s /\ r.is = "failed")}
        \cup {s \in {"tp"} : \E k \in DOMAIN r.targets : r.targets[k].state = "failed"}

RequiresAttention(r, smart) == Unprotected(r, smart) > 0 \/ Errors(r) # {}

(* lifecycle_from_orders *)
Lifecycle(r, smart) ==
    IF EndedUnfilled(r) THEN "blocked"
    ELSE IF ExitInProgress(r) THEN "exiting"
    ELSE IF AllClosed(r) THEN "closed"
    ELSE IF r.of \in Software /\ r.is = "failed" THEN "manual_intervention_required"
    ELSE CASE ProtectionState(r, smart) = "unprotected" -> "unprotected"
           [] ProtectionState(r, smart) \in {"protected", "software_protected"} -> "monitoring"
           [] OTHER -> IF AwaitsFills(r) THEN "partial_fill" ELSE "open"

(* _close_lots: what the ledger books as sold *)
LotsOfTargets(r) ==
    FoldSeq(LAMBDA t, sum : (IF t.state \in {"filled", "partial"} THEN t.filled ELSE 0) + sum,
            0, r.targets)

ClosedLots(r) ==
    LotsOfTargets(r) + MapThenSumSet(LAMBDA s : r.closed[s], Source \ {"tp"})

-----------------------------------------------------------------------------
(* next_lifecycle_state *)
NextLifecycle(current, requested) ==
    IF \/ current = "closed"
       \/ current \in {Manual, "exiting"} /\ requested \in Watching
      THEN current ELSE requested

(* _append_order_event keeps a list, which is told first; an order has one
   _instance_event, told after it. *)
Hears == said' = [now |-> lifecycle, event |-> "none"] /\ UNCHANGED lifecycle
Tells(state) == said' = [said EXCEPT !.now = NextLifecycle(@, state)] /\ UNCHANGED lifecycle
Notes(state) == said' = [said EXCEPT !.event = state] /\ UNCHANGED lifecycle
OrManual(state) == IF copy'.is = "failed" THEN Manual ELSE state

(* What reconciling a row tells: a fill, when nothing is open any more. *)
RowIs(row, state) ==
    IF row[1] = "tp" THEN copy'.targets[row[2]].state = state ELSE copy'.exit[row[1]] = state
OfRow ==
    IF RowIs(Head(rows), "failed") THEN Manual
    ELSE IF RowIs(Head(rows), "filled") /\ RemainingOpen(copy') = 0 THEN "closed"
    ELSE said.now

(* append_instance_event for each event, then refresh_protection_from_orders *)
Shows ==
    LET told == IF said.event = "none" THEN said.now ELSE NextLifecycle(said.now, said.event)
    IN  /\ \E smart \in SmartQuantities(copy) :
              lifecycle' = IF copy.alert THEN lifecycle
                             ELSE NextLifecycle(told, Lifecycle(copy, smart))
        /\ said' = [now |-> lifecycle', event |-> "none"]

Silent ==
    \/ AttachNotNeeded \/ AttachLook \/ AttachLookFails
    \/ AttachStop \/ AttachUnsupported \/ AttachStopFails
    \/ StopIdle \/ StopWatches \/ TakeProfitIdle \/ TakeProfitCancelsStops
    \/ SmartIdle \/ SmartCancelsStops
    \/ CollectRows \/ ReconcileFails \/ RowsDone
    \/ EscalateCancels \/ EscalateCancelFails \/ EscalateSeesNoFill \/ EscalateCloseFails
    \/ FlattenCancels \/ FlattenLook \/ Broker

Speaking ==
    \/ (BeginPass \/ BeginFlatten \/ FlattenLookFails \/ Crash) /\ Hears
    \/ (StopFires \/ SmartCloses) /\ Notes("exiting")
    \/ (StopFireFails \/ SmartCloseFails) /\ Notes(OrManual("exiting"))
    \/ SmartKeepsStops /\ Notes(OrManual("monitoring"))
    \/ (TakeProfitKeepsStops \/ TakeProfitCloseFails) /\ Tells(OrManual("monitoring"))
    \/ TakeProfitCloses /\ Tells(IF "tp" \in copy'.active THEN "monitoring" ELSE "exiting")
    \/ (ReconcileRow \/ EscalateSeesFill) /\ Tells(OfRow)
    \/ (EscalateCloses \/ FlattenCloses) /\ Tells("exiting")
    \/ FlattenClosesNothing /\ Tells(IF faults' = faults THEN said.now ELSE Manual)
    \/ Persist /\ Shows

(* attach_order_results shows the entry as waiting for its fills. *)
InstanceInit ==
    /\ Init
    /\ lifecycle = Lifecycle(NewRecord, 0)
    /\ said = [now |-> lifecycle, event |-> "none"]

InstanceNext == Speaking \/ (Silent /\ UNCHANGED shownVars)

InstanceSpec == InstanceInit /\ [][InstanceNext]_<<vars, shownVars>> /\ Fairness

-----------------------------------------------------------------------------
(* Correctness *)

(* Contracts the record knows, not sold, not covered, and of no exit that is
   still on its way or has filled without the record knowing. *)
OnItsWay(r) ==
    MapThenSumSet(LAMBDA s : IF r.exit[s] = "failed" THEN 0
                               ELSE Max({0, r.submitted[s] - r.closed[s]}), Source)
Bare(r) == r.filled - Sold > Cover(r) + OnItsWay(r)

(* The user is asked to look at a bare position that no smart exit watches; until
   the user flattens, and, where the broker takes stops, when the stop is one order,
   which is there or not, and there is one target: of two that were sent, the fill
   of the first books both. *)
BareIsShown ==
    /\ Tame /\ (env.nativeStop => env.slices = {} /\ ~env.tiered) /\ "flatten" \notin spent
    /\ rec.filled > 0 /\ "smart" \notin rec.active /\ Bare(rec)
    => RequiresAttention(rec, 0)

(* Until the user flattens, a position that is shown as closed is sold as far as
   the record knows it, or an order for the rest is at work that may be refused;
   but a walk that took its limit away and failed to send it again still counts
   as sent, and the fill of another exit then hides those contracts.  When one
   kind of exit has sold, and with one target, it is sold, booked as sold, and
   nothing is at work any more; a flatten whose calls fail may leave a stop. *)
OneExit(r) == ~env.tiered /\ Cardinality({s \in Source : r.submitted[s] > 0}) <= 1

ClosedIsSold ==
    Tame /\ lifecycle = "closed" =>
        /\ ~env.rejects /\ "flatten" \notin spent /\ (env.adaptive => faults = 0)
             => rec.filled - Sold <= Resting
        /\ OneExit(rec) /\ ("flatten" \in spent => faults = 0)
             => Sold >= rec.filled /\ Resting = 0 /\ ClosedLots(rec) = rec.filled

(* Between two passes, what the instance shows of its order is so: bare contracts
   are shown, what is shown as closed is sold, and nothing is booked that has not
   been sold. *)
ShownAsItIs == pc = "idle" => BareIsShown /\ ClosedIsSold /\ ClosedLots(rec) <= Sold

=============================================================================
