---------------------------- MODULE StrategyExit ----------------------------
(***************************************************************************)
(* How the order monitor watches and closes a strategy position: the pass  *)
(* over its order record (residual leg, reconciliation of the exit orders, *)
(* comparison with the broker's positions, triggers, submission of an exit *)
(* leg by leg) and the user's flatten.                                     *)
(***************************************************************************)
EXTENDS StrategyPosition

(* _strategy_leg_open_quantity *)
OpenQuantity(r, leg) ==
    LET l == r.legs[leg]
    IN  Max({0, l.filled - IF l.status \in {"submitted", "filled"} THEN l.qty ELSE 0})

(* _strategy_leg_remaining_quantity of a leg that is not closed *)
Remaining(r, leg) == Max({0, r.legs[leg].filled - r.legs[leg].done})

(* _strategy_unclosed_exit_legs *)
Unclosed(r) == {leg \in Leg : r.legs[leg].status # "filled" /\ Remaining(r, leg) > 0}

(* _handle_strategy_exit_failure and what the position is told of it.  A leg
   whose exit failed is itself unclosed, so one of the two applies. *)
Failure(r) ==
    IF Unclosed(r) = {"long"}
      THEN [r EXCEPT !.residual = Remaining(r, "long"), !.flat = 0,
                     !.exit = "residual", !.active = FALSE, !.told = FALSE]
      ELSE [r EXCEPT !.told = TRUE, !.exit = "combo", !.active = FALSE]

(* Mutant of ReconcileNeeded: the first leg that is decided ends it. *)
ReconcileUntilFirst(r) ==
    /\ r.exit \in {"submitted", "partial"}
    /\ \A leg \in Leg : r.legs[leg].order # 0 /\ r.legs[leg].status \notin {"filled", "failed"}

(* _strategy_exit_reconcile_needed *)
ReconcileNeeded(r) ==
    /\ r.exit \in {"submitted", "partial"}
    /\ \E leg \in Leg : r.legs[leg].order # 0 /\ r.legs[leg].status \notin {"filled", "failed"}

(* _has_monitorable_order, _has_monitorable_strategy *)
Monitorable(r) == r.active \/ r.residual > 0 \/ ReconcileNeeded(r)

TrackingStep(r) == IF r.active THEN "positions" ELSE "persist"
ReconcileStep(r) == IF ReconcileNeeded(r) THEN "query" ELSE TrackingStep(r)

WithOrders(r) ==
    LET one(leg) == IF r.legs[leg].order # 0 THEN <<leg>> ELSE <<>>
    IN  one("long") \o one("short")

BeginPass ==
    /\ pc = "idle"
    /\ Monitorable(rec)
    /\ copy' = rec
    /\ work' = [NoWork EXCEPT !.todo = WithOrders(rec)]
    /\ Goto(IF rec.residual > 0 THEN "residual" ELSE ReconcileStep(rec))
    /\ UNCHANGED <<env, orders, journal, rec, faults, spent>>

-----------------------------------------------------------------------------
(* The residual leg; how it is sold is modelled in SingleLegExit. *)

(* _try_residual_position_reconcile: flat when two answers say so *)
ResidualFlat == Held("long") = 0 /\ copy.flat = 1

ResidualLook ==
    /\ pc = "residual"
    /\ copy' = IF ResidualFlat
                 THEN [copy EXCEPT !.residual = 0, !.exit = "filled", !.flat = 0,
                         !.legs["long"] =
                           [@ EXCEPT !.status = "filled", !.done = copy.residual,
                                     !.qty = Max({copy.legs["long"].qty, copy.residual})]]
                 ELSE [copy EXCEPT !.flat = IF Held("long") = 0 THEN 1 ELSE 0]
    /\ Goto(IF ResidualFlat THEN TrackingStep(copy) ELSE ReconcileStep(copy))
    /\ UNCHANGED <<env, orders, journal, rec, work, faults, spent>>

ResidualLookFails ==
    /\ pc = "residual"
    /\ Fault("exit")
    /\ Goto(ReconcileStep(copy))
    /\ UNCHANGED <<env, orders, journal, rec, copy, work, spent>>

-----------------------------------------------------------------------------
(* Reconciling the exit orders *)

NextLeg == Head(work.todo)
ExitOrder(leg) == orders[copy.legs[leg].order]

FilledNow(o, qty) == o.state = "filled" \/ o.filled >= qty
WorkDone == [work EXCEPT !.todo = Tail(@)]
AfterLeg == IF Len(work.todo) = 1 THEN "settle" ELSE "query"

LegIsFailed ==
    /\ copy' = [copy EXCEPT !.legs[NextLeg] = [@ EXCEPT !.status = "failed", !.done = 0]]
    /\ work' = [WorkDone EXCEPT !.failed = @ \cup {NextLeg}]

LegIsFilled(n) ==
    /\ copy' = [copy EXCEPT !.legs[NextLeg] = [@ EXCEPT !.status = "filled", !.done = n]]
    /\ work' = [WorkDone EXCEPT !.full = @ \cup {NextLeg}]

LegIsPending == work' = [WorkDone EXCEPT !.sent = @ \cup {NextLeg}]

QueryOver ==
    /\ pc = "query"
    /\ LET o == ExitOrder(NextLeg)
       IN  \/ DeadUnfilled(o) /\ LegIsFailed
           \/ FilledNow(o, copy.legs[NextLeg].qty) /\ LegIsFilled(o.filled)
    /\ Goto(AfterLeg)
    /\ UNCHANGED <<env, orders, journal, rec, faults, spent>>

(* Still at work, or ended with a part of it filled *)
QueryPending ==
    /\ pc = "query"
    /\ LET o == ExitOrder(NextLeg)
       IN  /\ ~DeadUnfilled(o)
           /\ ~FilledNow(o, copy.legs[NextLeg].qty)
           /\ copy' = [copy EXCEPT !.legs[NextLeg].done = o.filled]
    /\ IF copy.legs[NextLeg].resting
         THEN Goto("escalate") /\ work' = work
         ELSE Goto(AfterLeg) /\ LegIsPending
    /\ UNCHANGED <<env, orders, journal, rec, faults, spent>>

QueryFails ==
    /\ pc = "query"
    /\ Fault("exit")
    /\ LegIsPending
    /\ Goto(AfterLeg)
    /\ UNCHANGED <<env, orders, journal, rec, copy, spent>>

(* _escalate_adaptive_strategy_exit *)
EscalateCancels ==
    /\ pc = "escalate"
    /\ Cancelable(copy.legs[NextLeg].order)
    /\ orders' = Cancel({copy.legs[NextLeg].order})
    /\ Goto("look")
    /\ UNCHANGED <<env, journal, rec, copy, work, faults, spent>>

EscalateCancelFails ==
    /\ pc = "escalate"
    /\ \/ ~Cancelable(copy.legs[NextLeg].order) /\ faults' = faults
       \/ Fault("exit")
    /\ LegIsPending
    /\ Goto(AfterLeg)
    /\ UNCHANGED <<env, orders, journal, rec, copy, spent>>

FilledWhenCanceled(l, o) == FilledNow(o, l.qty)

LookSeesFill ==
    /\ pc = "look"
    /\ FilledWhenCanceled(copy.legs[NextLeg], ExitOrder(NextLeg))
    /\ copy' = [copy EXCEPT !.legs[NextLeg] =
                  [@ EXCEPT !.status = "filled", !.done = ExitOrder(NextLeg).filled,
                            !.resting = FALSE]]
    /\ work' = [WorkDone EXCEPT !.full = @ \cup {NextLeg}]
    /\ Goto(AfterLeg)
    /\ UNCHANGED <<env, orders, journal, rec, faults, spent>>

(* Not filled, or the question fails and the exit is sent all the same *)
LookSeesNoFill ==
    /\ pc = "look"
    /\ \/ ~FilledWhenCanceled(copy.legs[NextLeg], ExitOrder(NextLeg)) /\ faults' = faults
       \/ Fault("exit")
    /\ Goto("resend")
    /\ UNCHANGED <<env, orders, journal, rec, copy, work, spent>>

(* Mutant of Limits: the walk goes on for ever. *)
LimitsForEver(leg, cycle) ==
    IF leg = "long" /\ "exit" \in env.limit THEN {TRUE} ELSE {FALSE}

(* adaptive_exit_decision: what was bought may be sold at a limit while the walk
   lasts and the quote can be trusted; what was sold short is covered at market. *)
Limits(leg, cycle) ==
    {FALSE} \cup (IF leg = "long" /\ "exit" \in env.limit /\ cycle < MaxCycles THEN {TRUE} ELSE {})

NextCycle == copy.legs[NextLeg].cycle + 1

Resends ==
    /\ pc = "resend"
    /\ \E limit \in Limits(NextLeg, NextCycle) :
          /\ Submit(NextLeg, "exit", limit, copy.legs[NextLeg].qty)
          /\ copy' = [copy EXCEPT !.legs[NextLeg] =
                        [@ EXCEPT !.order = NewId, !.cycle = NextCycle, !.resting = limit,
                                  !.status = "submitted"]]
    /\ LegIsPending
    /\ Goto(AfterLeg)
    /\ UNCHANGED <<env, journal, rec, faults, spent>>

ResendFails ==
    /\ pc = "resend"
    /\ Fault("exit")
    /\ \E limit \in Limits(NextLeg, NextCycle) :
          SubmitLost(NextLeg, "exit", limit, copy.legs[NextLeg].qty)
    /\ LegIsPending
    /\ Goto(AfterLeg)
    /\ UNCHANGED <<env, journal, rec, copy, spent>>

(* Mutant of Settled: an exit is over when no leg is pending, and one that
   failed is overlooked. *)
SettledWithoutFailures ==
    IF work.sent = {} THEN [copy EXCEPT !.exit = "filled", !.active = FALSE] ELSE copy

Settled ==
    IF work.failed # {} THEN Failure(copy)
    ELSE IF work.sent = {} /\ work.full # {}
      THEN [copy EXCEPT !.exit = "filled", !.active = FALSE]
      ELSE copy

Settle ==
    /\ pc = "settle"
    /\ copy' = Settled
    /\ work' = NoWork
    /\ Goto(TrackingStep(Settled))
    /\ UNCHANGED <<env, orders, journal, rec, faults, spent>>

-----------------------------------------------------------------------------
(* Comparing with the broker's positions *)

Expected == {leg \in Leg : OpenQuantity(copy, leg) > 0}
Present == {leg \in Expected : Held(leg) # 0}

(* _mark_complete_strategy_manual_flat *)
ClosedLeg(leg) ==
    LET n == OpenQuantity(copy, leg)
    IN  [copy.legs[leg] EXCEPT !.status = "filled", !.qty = n, !.done = n]

ManualFlat ==
    [copy EXCEPT !.active = FALSE, !.exit = "filled", !.closed = Units, !.flat = 0, !.mismatch = 0,
                 !.legs = [leg \in Leg |-> IF leg \in Expected THEN ClosedLeg(leg)
                                                            ELSE copy.legs[leg]]]

(* Mutant of FlatIsConfirmed: the answers are miscounted. *)
FlatIsConfirmedLater == copy.flat = 2

FlatIsConfirmed == copy.flat = 1

(* _reconcile_complete_strategy_position: legs that are gone for two passes
   were closed by the user; if only some are, the user has to look.  The pass
   goes on to the triggers either way, unless everything is gone. *)
ComparePositions ==
    /\ pc = "positions"
    /\ copy' = IF Expected = {} THEN copy
                ELSE IF Present = Expected THEN [copy EXCEPT !.flat = 0]
                ELSE IF Present # {}
                  THEN IF copy.mismatch = 0
                         THEN [copy EXCEPT !.mismatch = 1]
                         ELSE [copy EXCEPT !.mismatch = 2, !.active = FALSE, !.told = TRUE]
                ELSE IF FlatIsConfirmed THEN ManualFlat
                ELSE [copy EXCEPT !.flat = 1, !.mismatch = 0]
    /\ Goto(IF Expected # {} /\ Present = {} /\ FlatIsConfirmed THEN "persist" ELSE "quote")
    /\ UNCHANGED <<env, orders, journal, rec, work, faults, spent>>

ComparePositionsFails ==
    /\ pc = "positions"
    /\ Fault("exit")
    /\ Goto("quote")
    /\ UNCHANGED <<env, orders, journal, rec, copy, work, spent>>

-----------------------------------------------------------------------------
(* Triggers: profit and loss, and the rules of the plan, must be seen by two
   passes in a row; the times of the plan only once. *)

Sees(signal) == pc = "quote" /\ signal \in env.signals

NoQuote ==
    /\ Sees("blind")
    /\ Goto("persist")
    /\ UNCHANGED <<env, orders, journal, rec, copy, work, faults, spent>>

Pays(trigger) == Sees(trigger) /\ trigger \in {"stop", "tp1", "tp2"} /\ (trigger = "tp1" => copy.tp1)

(* Nothing, or the first target once more *)
NoTrigger ==
    /\ \/ Sees("quiet")
       \/ Sees("tp1") /\ ~copy.tp1
    /\ copy' = [copy EXCEPT !.pending = "none", !.smart = FALSE]
    /\ Goto("persist")
    /\ UNCHANGED <<env, orders, journal, rec, work, faults, spent>>

FirstSight ==
    /\ \/ \E t \in Trigger :
             Pays(t) /\ copy.pending # t /\ copy' = [copy EXCEPT !.pending = t]
       \/ Sees("smart") /\ ~copy.smart /\ copy' = [copy EXCEPT !.smart = TRUE]
    /\ Goto("persist")
    /\ UNCHANGED <<env, orders, journal, rec, work, faults, spent>>

Confirms(t) ==
    \/ Pays(t) /\ copy.pending = t
    \/ t = "smart" /\ Sees("smart") /\ copy.smart
    \/ t = "time" /\ Sees("time")

Cleared(t) == IF t \in {"smart", "time"} THEN [copy EXCEPT !.smart = FALSE]
                                        ELSE [copy EXCEPT !.pending = "none"]

Partial(t) == t = "tp1" /\ env.tiered

(* _strategy_exit_target_units *)
TargetUnits(r, t) ==
    LET open == IF r.closed < Units THEN Units - r.closed
                ELSE Min({OpenQuantity(r, leg) : leg \in Leg})
    IN  IF Partial(t) THEN Max({1, open \div 2}) ELSE open

(* _exit_ordered_entries: what was sold short is covered first *)
ExitSequence == <<"short", "long">>

TriggerFires ==
    /\ env.auto
    /\ \E t \in Trigger :
          /\ Confirms(t)
          /\ copy' = Cleared(t)
          /\ work' = [NoWork EXCEPT !.todo = ExitSequence, !.trigger = t,
                                    !.amount = TargetUnits(copy, t)]
    /\ Goto("exit")
    /\ UNCHANGED <<env, orders, journal, rec, faults, spent>>

Seen(r, t) == [r EXCEPT !.tp1 = @ /\ t # "tp1"]

(* Without auto execution the user is told, and all but the first of two
   targets end the tracking. *)
TriggerIsAnnounced ==
    /\ ~env.auto
    /\ \E t \in Trigger :
          /\ Confirms(t)
          /\ copy' = Seen([Cleared(t) EXCEPT !.told = TRUE, !.active = @ /\ Partial(t)], t)
    /\ Goto("persist")
    /\ UNCHANGED <<env, orders, journal, rec, work, faults, spent>>

-----------------------------------------------------------------------------
(* Sending an exit, leg by leg: _submit_strategy_auto_exit *)

CloseQuantity == Min({OpenQuantity(copy, NextLeg), work.amount})

(* Mutant of HoldsHedge: a failed cover does not keep the long leg. *)
NeverHoldsHedge == FALSE

HoldsHedge == NextLeg = "long" /\ "short" \in work.failed

LegIsDeferred ==
    /\ pc = "exit" /\ work.todo # <<>>
    /\ HoldsHedge
    /\ copy' = [copy EXCEPT !.legs[NextLeg].status = "deferred"]
    /\ work' = WorkDone
    /\ UNCHANGED <<env, orders, journal, rec, pc, faults, spent>>

LegHasNothingOpen ==
    /\ pc = "exit" /\ work.todo # <<>>
    /\ ~HoldsHedge
    /\ CloseQuantity = 0
    /\ work' = WorkDone
    /\ UNCHANGED <<env, orders, journal, rec, copy, pc, faults, spent>>

Sends == pc = "exit" /\ work.todo # <<>> /\ ~HoldsHedge /\ CloseQuantity > 0

ExitKey == <<NextLeg, work.trigger>>
Noted == Recalled(ExitKey, "exit")

ExitLegFails ==
    /\ copy' = [copy EXCEPT !.legs[NextLeg].status = "failed"]
    /\ work' = [WorkDone EXCEPT !.failed = @ \cup {NextLeg}]
    /\ Goto("exit")

SendIsRefused ==
    /\ Sends
    /\ \E noted \in Noted :
          \/ Unresolved(noted) /\ faults' = faults
          \/ noted.state = "after" /\ Fault("exit")
    /\ ExitLegFails
    /\ UNCHANGED <<env, orders, journal, rec, spent>>

SendExit ==
    /\ Sends
    /\ \E noted \in Noted : MaySubmit(noted)
    /\ \E limit \in Limits(NextLeg, copy.legs[NextLeg].cycle) :
          Submit(NextLeg, "exit", limit, CloseQuantity)
    /\ NotesBefore(ExitKey, "exit")
    /\ work' = [work EXCEPT !.order = NewId]
    /\ Goto("sent")
    /\ UNCHANGED <<env, rec, copy, faults, spent>>

SendFails ==
    /\ Sends
    /\ \E noted \in Noted : MaySubmit(noted)
    /\ Fault("exit")
    /\ \E limit \in Limits(NextLeg, copy.legs[NextLeg].cycle) :
          SubmitLost(NextLeg, "exit", limit, CloseQuantity)
    /\ NotesBefore(ExitKey, "exit")
    /\ ExitLegFails
    /\ UNCHANGED <<env, rec, spent>>

NoteSent ==
    /\ pc = "sent"
    /\ Notes(ExitKey, "exit", [state |-> "after", order |-> work.order])
    /\ Goto("await")
    /\ UNCHANGED <<env, orders, rec, copy, work, faults, spent>>

(* What the record makes of the answer about an order: n is what it says has
   filled, qty what it was sent for. *)
Answered(id, n, over, dead, qty, resting) ==
    LET status == IF dead THEN "failed" ELSE IF over THEN "filled" ELSE "submitted"
    IN  /\ copy' = [copy EXCEPT !.legs[NextLeg] =
                      [@ EXCEPT !.order = id, !.qty = copy.legs[NextLeg].qty + qty, !.done = n,
                                !.status = status, !.resting = resting]]
        /\ work' = [WorkDone EXCEPT
                      !.failed = IF dead THEN @ \cup {NextLeg} ELSE @,
                      !.sent = IF dead THEN @ ELSE @ \cup {NextLeg},
                      !.full = IF over /\ ~dead THEN @ \cup {NextLeg} ELSE @]
        /\ Goto("exit")

TakeOver ==
    /\ Sends
    /\ \E noted \in Noted :
          /\ TakenOver(noted)
          /\ LET o == orders[noted.order]
             IN  Answered(noted.order, o.filled, FilledNow(o, CloseQuantity), FALSE,
                          CloseQuantity, FALSE)
    /\ UNCHANGED <<env, orders, journal, rec, faults, spent>>

AwaitEnds ==
    /\ pc = "await"
    /\ LET o == orders[work.order]
       IN  \/ /\ WaitIsOver(o)
             /\ Answered(work.order, o.filled, FilledNow(o, o.qty), DeadUnfilled(o), o.qty, o.limit)
          \/ /\ "exit" \in env.slow                  \* "detail_unavailable"
             /\ Answered(work.order, 0, FALSE, FALSE, o.qty, o.limit)
    /\ UNCHANGED <<env, orders, journal, rec, faults, spent>>

(* _handle_strategy_exit_trigger and _sync_strategy_order_exit, after the legs *)
Concluded ==
    LET t == work.trigger
        all == Cardinality(work.full) >= Cardinality(work.sent)
    IN  IF work.failed # {} THEN Failure(copy)
        ELSE IF work.sent = {}
          THEN [copy EXCEPT !.active = TRUE, !.exit = "nothing"]
          ELSE [copy EXCEPT !.active = ~all,
                            !.exit = IF Partial(t) THEN "partial"
                                     ELSE IF all THEN "filled" ELSE "submitted",
                            !.closed = IF Partial(t) THEN @ + work.amount ELSE @]

Conclude ==
    /\ pc = "exit" /\ work.todo = <<>>
    /\ copy' = Seen(Concluded, work.trigger)
    /\ Goto("persist")
    /\ UNCHANGED <<env, orders, journal, rec, work, faults, spent>>

-----------------------------------------------------------------------------
(* The user's flatten *)

BeginFlatten ==
    /\ env.flatten /\ "flatten" \notin spent
    /\ pc = "idle"
    /\ rec # NoRecord
    /\ spent' = spent \cup {"flatten"}
    /\ copy' = rec
    /\ Goto("cancel")
    /\ UNCHANGED <<env, orders, journal, rec, work, faults>>

(* _known_order_refs: entries that are not recorded as filled, and exits *)
KnownOrders ==
    UNION {{copy.legs[leg].order} \cup (IF copy.legs[leg].filled < Units THEN {copy.legs[leg].entry}
                                                                       ELSE {}) : leg \in Leg} \ {0}

FlattenCancels ==
    /\ pc = "cancel"
    /\ \/ orders' = Cancel(KnownOrders) /\ faults' = faults
       \/ Fault("exit") /\ \E i \in KnownOrders : orders' = Cancel(KnownOrders \ {i})
    /\ Goto("flatten")
    /\ UNCHANGED <<env, journal, rec, copy, work, spent>>

(* _desired_strategy_close_legs: an exit counts whatever became of it *)
Desired(leg) ==
    LET l == copy.legs[leg]
    IN  Max({0, l.filled - IF l.qty # 0 THEN l.qty ELSE l.done})

ToFlatten == SelectSeq(ExecutionSequence, LAMBDA leg : Desired(leg) > 0)

AbsHeld(leg) == Max({Held(leg), -Held(leg)})

(* positions(), and the residual leg, which has a quantity of its own *)
FlattenResidual ==
    /\ pc = "flatten"
    /\ LET n == Min({AbsHeld("long"), copy.residual})
       IN  \/ /\ n = 0 /\ UNCHANGED <<orders, copy, faults>>
          \/ /\ n > 0 /\ faults' = faults
             /\ Submit("long", "exit", FALSE, n)
             /\ copy' = [copy EXCEPT !.residual = 0]
          \/ /\ n > 0 /\ Fault("exit") /\ copy' = copy
             /\ SubmitLost("long", "exit", FALSE, n)
    /\ work' = [work EXCEPT !.todo = ToFlatten]
    /\ Goto("flattenLegs")
    /\ UNCHANGED <<env, journal, rec, spent>>

(* The exception leaves the flatten; nothing is saved. *)
FlattenLookFails ==
    /\ pc = "flatten"
    /\ Fault("exit")
    /\ copy' = rec
    /\ Goto("idle")
    /\ UNCHANGED <<env, orders, journal, rec, work, spent>>

(* _mark_strategy_leg_flattened *)
FlattenLeg ==
    /\ pc = "flattenLegs" /\ work.todo # <<>>
    /\ Submit(NextLeg, "exit", FALSE, Desired(NextLeg))
    /\ copy' = [copy EXCEPT !.exit = "submitted",
                  !.legs[NextLeg] = [@ EXCEPT !.order = NewId, !.qty = @ + Desired(NextLeg),
                                              !.status = "submitted"]]
    /\ work' = WorkDone
    /\ UNCHANGED <<env, journal, rec, pc, faults, spent>>

FlattenLegFails ==
    /\ pc = "flattenLegs" /\ work.todo # <<>>
    /\ Fault("exit")
    /\ SubmitLost(NextLeg, "exit", FALSE, Desired(NextLeg))
    /\ work' = WorkDone
    /\ UNCHANGED <<env, journal, rec, copy, pc, spent>>

FlattenEnds ==
    /\ pc = "flattenLegs" /\ work.todo = <<>>
    /\ Goto("persist")
    /\ UNCHANGED <<env, orders, journal, rec, copy, work, faults, spent>>

-----------------------------------------------------------------------------

Pass ==
    \/ ResidualLook \/ ResidualLookFails
    \/ QueryOver \/ QueryPending \/ QueryFails
    \/ EscalateCancels \/ EscalateCancelFails \/ LookSeesFill \/ LookSeesNoFill
    \/ Resends \/ ResendFails \/ Settle
    \/ ComparePositions \/ ComparePositionsFails
    \/ NoQuote \/ NoTrigger \/ FirstSight \/ TriggerFires \/ TriggerIsAnnounced
    \/ LegIsDeferred \/ LegHasNothingOpen \/ SendIsRefused \/ SendExit \/ SendFails
    \/ NoteSent \/ TakeOver \/ AwaitEnds \/ Conclude

Flatten ==
    \/ FlattenCancels \/ FlattenResidual \/ FlattenLookFails
    \/ FlattenLeg \/ FlattenLegFails \/ FlattenEnds

=============================================================================
