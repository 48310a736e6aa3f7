---------------------------- MODULE StrategyEntry ----------------------------
(***************************************************************************)
(* How the trading agent opens a strategy: leg by leg, what is bought      *)
(* first; a priced leg that does not fill is canceled and sent again at    *)
(* another price.  When a leg does not fill completely, shorts that did    *)
(* fill are bought back, and what stays open becomes a residual: a single  *)
(* long leg is tracked on its own, anything else is left to the user.      *)
(***************************************************************************)
EXTENDS StrategyPosition

EntryLeg == Head(work.todo)
EntryOrder == orders[work.order]
EntryKey == <<EntryLeg, "entry">>        \* the same for all the attempts of a leg
EntryNoted == Recalled(EntryKey, "entry")
Priced == "entry" \in env.limit

(* No units, no backing, or the net price gate: nothing is sent. *)
EntryBlocked ==
    /\ env.gates
    /\ pc = "entry"
    /\ work.todo = ExecutionSequence /\ work.tries = 0
    /\ Goto("persist")
    /\ UNCHANGED <<env, orders, journal, rec, copy, work, faults, spent>>

(* _strategy_inter_leg_net_recheck finds the price of the rest breached. *)
RecheckBreaches ==
    /\ env.gates
    /\ pc = "entry"
    /\ work.todo = <<"short">> /\ work.tries = 0
    /\ Goto("unwind")
    /\ UNCHANGED <<env, orders, journal, rec, copy, work, faults, spent>>

(* The rows before and after the submission, or, of a journal that forgets,
   those that are written *)
EntrySubmits ==
    /\ pc = "entry"
    /\ \E noted \in EntryNoted : MaySubmit(noted)
    /\ Submit(EntryLeg, "entry", Priced, Units)
    /\ \/ Notes(EntryKey, "entry", [state |-> "after", order |-> NewId])
       \/ "entry" \in env.forgets /\ NotesBefore(EntryKey, "entry")
    /\ work' = [work EXCEPT !.order = NewId]
    /\ Goto("entryWait")
    /\ UNCHANGED <<env, rec, copy, faults, spent>>

(* An exception on the way makes a leg record without an order: the attempt
   before is not resolved, or a question or the wait raises. *)
EntryFails ==
    /\ \/ /\ pc = "entry"
          /\ \E noted \in EntryNoted :
                \/ Unresolved(noted) /\ faults' = faults
                \/ noted.state = "after" /\ Fault("entry")
       \/ pc = "entryWait" /\ Fault("entry")
    /\ Goto("unwind")
    /\ UNCHANGED <<env, orders, journal, rec, copy, work, spent>>

EntrySubmitFails ==
    /\ pc = "entry"
    /\ \E noted \in EntryNoted : MaySubmit(noted)
    /\ Fault("entry")
    /\ SubmitLost(EntryLeg, "entry", Priced, Units)
    /\ NotesBefore(EntryKey, "entry")
    /\ Goto("unwind")
    /\ UNCHANGED <<env, rec, copy, work, spent>>

Opened(id, filled) ==
    [copy EXCEPT !.legs[EntryLeg] = [@ EXCEPT !.filled = filled, !.entry = id]]

(* The order whose fill is looked at: at once one that is taken over, else the
   one that was sent, when the wait is over *)
EntryAnswered(id) ==
    \/ pc = "entry" /\ \E noted \in EntryNoted : TakenOver(noted) /\ id = noted.order
    \/ pc = "entryWait" /\ WaitIsOver(EntryOrder) /\ id = work.order

EntryLegFilled ==
    /\ \E id \in DOMAIN orders :
          /\ EntryAnswered(id)
          /\ orders[id].filled = Units
          /\ copy' = Opened(id, Units)
    /\ work' = [NoWork EXCEPT !.todo = Tail(work.todo)]
    /\ Goto(IF Len(work.todo) = 1 THEN "opened" ELSE "entry")
    /\ UNCHANGED <<env, orders, journal, rec, faults, spent>>

(* The rest of the order is neither waited for nor canceled. *)
EntryLegPartlyFilled ==
    /\ \E id \in DOMAIN orders :
          /\ EntryAnswered(id)
          /\ orders[id].filled \in 1 .. Units - 1
          /\ copy' = Opened(id, orders[id].filled)
    /\ Goto("unwind")
    /\ UNCHANGED <<env, orders, journal, rec, work, faults, spent>>

EntryLegUnfilled ==
    /\ \E id \in DOMAIN orders :
          /\ EntryAnswered(id)
          /\ orders[id].filled = 0
          /\ work' = [work EXCEPT !.order = id]
    /\ Goto("entryCancel")
    /\ UNCHANGED <<env, orders, journal, rec, copy, faults, spent>>

(* _cancel_order_safely: whether the cancel went through is not looked at. *)
EntryCancels ==
    /\ pc = "entryCancel"
    /\ \/ orders' = Cancel({work.order}) /\ faults' = faults
       \/ orders' = orders /\ Fault("entry")
    /\ \/ /\ Priced /\ work.tries + 1 < Attempts
          /\ work' = [work EXCEPT !.tries = @ + 1]
          /\ copy' = copy
          /\ Goto("entry")
       \/ /\ copy' = Opened(work.order, 0)         \* no more attempts, or no quote
          /\ work' = work
          /\ Goto("unwind")
    /\ UNCHANGED <<env, journal, rec, spent>>

(* Every leg is filled: submitted, and tracked from now on. *)
EntryComplete ==
    /\ pc = "opened"
    /\ copy' = [copy EXCEPT !.active = TRUE]
    /\ Goto("persist")
    /\ UNCHANGED <<env, orders, journal, rec, work, faults, spent>>

-----------------------------------------------------------------------------
(* Unwinding, and what is left *)

(* By default only what was sold short is closed at once. *)
UnwindTargets == {leg \in {"short"} : copy.legs[leg].filled > 0}

Unwinds ==
    /\ pc = "unwind"
    /\ \E leg \in UnwindTargets :
          /\ Submit(leg, "exit", FALSE, copy.legs[leg].filled)
          /\ work' = [NoWork EXCEPT !.todo = <<leg>>, !.order = NewId]
    /\ Goto("unwindWait")
    /\ UNCHANGED <<env, journal, rec, copy, faults, spent>>

(* Mutant of UnwoundLeg: a close counts when it was sent. *)
UnwoundWhenSent(l, o) == [l EXCEPT !.status = "filled", !.qty = o.qty, !.done = o.qty]

UnwoundLeg(l, o) ==
    IF o.filled = o.qty THEN [l EXCEPT !.status = "filled", !.qty = o.filled, !.done = o.filled]
                        ELSE l

(* _strategy_residual_legs *)
ResidualOf(r, leg) ==
    LET l == r.legs[leg]
    IN  l.filled - (IF l.status = "filled" THEN l.done ELSE 0)

ResidualLegs(r) == {leg \in Leg : ResidualOf(r, leg) > 0}

(* _apply_entry_residual_tracking *)
WithResidual(r) ==
    CASE ResidualLegs(r) = {} -> r
      [] ResidualLegs(r) = {"long"} -> [r EXCEPT !.residual = ResidualOf(r, "long")]
      [] OTHER -> [r EXCEPT !.told = TRUE]

UnwindEnds ==
    /\ pc = "unwindWait"
    /\ \/ /\ WaitIsOver(EntryOrder)
          /\ copy' = WithResidual([copy EXCEPT !.legs[EntryLeg] = UnwoundLeg(@, EntryOrder)])
          /\ faults' = faults
       \/ /\ Fault("entry")
          /\ copy' = WithResidual(copy)
    /\ Goto("persist")
    /\ UNCHANGED <<env, orders, journal, rec, work, spent>>

NothingUnwound ==
    /\ pc = "unwind"
    /\ \/ /\ UnwindTargets = {}
          /\ UNCHANGED <<orders, faults>>
       \/ /\ Fault("entry")
          /\ \E leg \in UnwindTargets : SubmitLost(leg, "exit", FALSE, copy.legs[leg].filled)
    /\ copy' = WithResidual(copy)
    /\ Goto("persist")
    /\ UNCHANGED <<env, journal, rec, work, spent>>

EntryNext ==
    \/ EntryBlocked \/ RecheckBreaches
    \/ EntrySubmits \/ EntryFails \/ EntrySubmitFails
    \/ EntryLegFilled \/ EntryLegPartlyFilled \/ EntryLegUnfilled \/ EntryCancels
    \/ EntryComplete \/ Unwinds \/ UnwindEnds \/ NothingUnwound

=============================================================================
