---------------------------- MODULE SingleLegExit ----------------------------
(***************************************************************************)
(* How one single-leg option position is protected and closed: the order   *)
(* monitor's pass over one order record (attach broker stops to entry      *)
(* fills, software stop, tiered take profit, smart exit, reconciliation of *)
(* the exit orders, escalation of a resting take-profit limit), the user's *)
(* flatten, and the broker on whose side orders fill at any moment.        *)
(*                                                                         *)
(* A pass works on a copy of the record and writes it back at its end, so  *)
(* a crash in between loses what the pass knew, not what the broker did.   *)
(* Pass and flatten exclude each other by the lock of RunActionLock.       *)
(***************************************************************************)
EXTENDS Integers, Sequences, FiniteSets, FiniteSetsExt, SequencesExt

CONSTANTS
    Qty,           \* contracts the entry order asks for
    Confirm,       \* consecutive breaches before the software stop fires
    MaxRetries,    \* attempts of _schedule_retry
    MaxCycles,     \* length of the adaptive walk
    Outage,        \* passes without a quote after which the user is alerted
    MaxFaults,     \* bound on the broker calls that fail
    MaxSells,      \* bound on the closing orders, checked by InstanceTypeOK
    Environment    \* the environments considered

(***************************************************************************)
(* "nativeStop": the broker takes stop orders.  "tiered": two take-profit  *)
(* targets.  "adaptive": exits begin as resting limits.  "smart": the plan *)
(* has exit conditions.  "slices": orders may fill in parts.  "rejects":   *)
(* exit orders may be refused.  "crash": the monitor may die once.         *)
(* "lost": a failed broker call may have been executed.  "late": a cancel  *)
(* is a request that the order may outrun.  "reserves": the sellable       *)
(* quantity the broker reports leaves out what working orders hold.        *)
(* "flatten": the user may flatten.  "outage": the quote may be missing in  *)
(* as many passes in a row as it takes for the alert; else it never is.    *)
(***************************************************************************)
EnvironmentType ==
    [nativeStop : BOOLEAN, tiered : BOOLEAN, adaptive : BOOLEAN, smart : BOOLEAN,
     slices : SUBSET {"entry", "exit"}, rejects : BOOLEAN, crash : BOOLEAN,
     lost : BOOLEAN, late : BOOLEAN, reserves : BOOLEAN, flatten : BOOLEAN,
     outage : BOOLEAN]

ASSUME ExitAssumption ==
    /\ Qty \in Nat \ {0}
    /\ Confirm \in Nat \ {0}
    /\ MaxRetries \in Nat \ {0}
    /\ MaxCycles \in Nat
    /\ Outage \in Nat \ {0}
    /\ MaxFaults \in Nat
    /\ MaxSells \in Nat
    /\ Environment \subseteq EnvironmentType

Source == {"stop", "tp", "smart", "flatten"}
Software == {"stop", "tp", "smart"}

VARIABLES
    env,
    entry,      \* the entry order at the broker
    sells,      \* the closing orders at the broker, in order of submission
    rec,        \* the order record in the database
    copy,       \* the copy the pass (or flatten) works on
    pc,         \* where the pass or flatten is
    quote,      \* the option's price as this pass sees it
    rows,       \* exit orders the pass has still to reconcile
    seen,       \* what the last broker query answered
    canceled,   \* this handler has just taken the broker stops away
    faults,     \* broker calls that failed
    spent       \* what happens at most once and has happened

vars == <<env, entry, sells, rec, copy, pc, quote, rows, seen, canceled, faults, spent>>

Steps == {"idle", "attach", "attachStop", "stop", "tp", "tpClose", "smart",
          "smartClose", "rows", "reconcile", "escalate", "escalateLook",
          "escalateClose", "persist",
          "flattenCancel", "flattenLook", "flattenClose"}

(* below the stop, above the next target, between them, or not available *)
Quotes == {"low", "high", "between", "none"}

SellOrder ==
    [kind : {"stop", "limit", "market", "buy"}, qty : 1 .. Qty, filled : 0 .. Qty,
     state : {"working", "canceling", "filled", "canceled", "rejected"}]

Target ==
    [qty : 1 .. Qty, state : {"pending", "submitted", "partial", "filled", "failed", "skipped"},
     order : Nat, resting : BOOLEAN, cycle : Nat, filled : 0 .. Qty]

Record ==
    [of : Source \cup {"entry"},                 \* the status, split in two
     is : {"pending", "partial", "attached", "unsupported", "unfilled",
           "submitted", "filled", "failed", "retry"},
     filled : 0 .. Qty,                          \* entry_filled_quantity
     covered : 0 .. Qty,                         \* covered_quantity
     stops : SUBSET Nat,                         \* stop_orders
     active : SUBSET Software,                   \* software_..._active
     stopQty : 0 .. Qty, breach : 0 .. Confirm,
     outage : [{"stop", "tp"} -> 0 .. Outage],    \* ..._quote_outage_cycles
     alerted : SUBSET {"stop", "tp"},             \* ..._quote_outage_alerted
     alert : BOOLEAN,                             \* _instance_event is the alert
     retries : [Software -> 0 .. MaxRetries],
     order : [Source -> Nat],                    \* software_stop_order, ...
     submitted : [Source -> 0 .. Qty],
     closed : [Source -> 0 .. Qty],
     exit : [Source -> {"none", "partial", "filled", "failed"}],
     targets : Seq(Target)]

TypeOK ==
    /\ env \in Environment
    /\ entry \in [filled : 0 .. Qty, working : BOOLEAN]
    /\ sells \in Seq(SellOrder)
    /\ rec \in Record /\ copy \in Record
    /\ pc \in Steps
    /\ quote \in Quotes
    /\ rows \in Seq(Source \X Nat)
    /\ seen \in [filled : Int, over : BOOLEAN]
    /\ canceled \in BOOLEAN
    /\ faults \in 0 .. MaxFaults
    /\ spent \subseteq {"crash", "flatten"}

NewRecord ==
    [of |-> "entry", is |-> "pending", filled |-> 0, covered |-> 0, stops |-> {},
     active |-> IF env.smart THEN {"smart"} ELSE {},
     stopQty |-> 0, breach |-> 0,
     outage |-> [s \in {"stop", "tp"} |-> 0], alerted |-> {}, alert |-> FALSE,
     retries |-> [s \in Software |-> 0],
     order |-> [s \in Source |-> 0],
     submitted |-> [s \in Source |-> 0],
     closed |-> [s \in Source |-> 0],
     exit |-> [s \in Source |-> "none"],
     targets |-> <<>>]

NothingSeen == [filled |-> 0, over |-> FALSE]

(* _submit_orders leaves an entry order that has not filled yet; the records it
   leaves for an entry that filled at once are those of the first passes below. *)
Init ==
    /\ env \in Environment
    /\ entry = [filled |-> 0, working |-> TRUE]
    /\ sells = <<>>
    /\ rec = NewRecord /\ copy = NewRecord
    /\ pc = "idle"
    /\ quote = "none"
    /\ rows = <<>>
    /\ seen = NothingSeen
    /\ canceled = FALSE
    /\ faults = 0
    /\ spent = {}

-----------------------------------------------------------------------------
(* Quantities *)

(* _closed_or_pending_close_quantity *)
ClosedOrPending(r) ==
    MapThenSumSet(LAMBDA s : Max({r.closed[s], r.submitted[s]}), Source)

(* Mutant of RemainingOpen: only what has been reported filled counts. *)
RemainingOpenByFills(r) ==
    Max({0, (IF r.filled = 0 THEN Qty ELSE r.filled)
              - MapThenSumSet(LAMBDA s : r.closed[s], Source)})

(* _remaining_open_quantity, where no recorded fill counts as a full one *)
RemainingOpen(r) ==
    Max({0, (IF r.filled = 0 THEN Qty ELSE r.filled) - ClosedOrPending(r)})

Sold == FoldSeq(LAMBDA o, sum : (IF o.kind = "buy" THEN -o.filled ELSE o.filled) + sum, 0, sells)
Alive(o) == o.state \in {"working", "canceling"}
Unfilled(o) == IF Alive(o) /\ o.kind # "buy" THEN o.qty - o.filled ELSE 0
Resting == FoldSeq(LAMBDA o, sum : Unfilled(o) + sum, 0, sells)
Position == entry.filled - Sold

PendingQty(targets) ==
    FoldSeq(LAMBDA t, sum : (IF t.state = "pending" THEN t.qty ELSE 0) + sum, 0, targets)

Activate(r, s, on) == [r EXCEPT !.active = IF on THEN @ \cup {s} ELSE @ \ {s}]
Status(r, of, is) == [r EXCEPT !.of = of, !.is = is]

ArmStop(r, qty) == [Activate(r, "stop", TRUE) EXCEPT !.stopQty = qty]

(* _arm_software_take_profit: only once, for what is filled by then *)
NewTarget(qty) ==
    [qty |-> qty, state |-> "pending", order |-> 0, resting |-> FALSE, cycle |-> 0,
     filled |-> 0]

ArmTakeProfit(r) ==
    IF "tp" \in r.active /\ r.targets # <<>>
      THEN r
      ELSE [Activate(r, "tp", TRUE) EXCEPT !.targets =
              IF env.tiered /\ r.filled >= 2
                THEN <<NewTarget(r.filled \div 2), NewTarget(r.filled - r.filled \div 2)>>
                ELSE <<NewTarget(r.filled)>>]

(* Mutant of Retry: attempts are counted and never given up. *)
RetryForever(r, s) == Status(Activate([r EXCEPT !.retries[s] = @ + 1], s, TRUE), s, "retry")

(* _schedule_retry and what every handler makes of its answer *)
Retry(r, s) ==
    LET n == Min({r.retries[s] + 1, MaxRetries})
        again == n < MaxRetries
    IN  Status(Activate([r EXCEPT !.retries[s] = n], s, again), s,
               IF again THEN "retry" ELSE "failed")

(* _note_protection_quote_outage and _clear_protection_quote_outage, whenever a
   protection asks for its quote; the alert is raised once per outage. *)
NoQuote(r, s) ==
    LET n == Min({r.outage[s] + 1, Outage})
        alerts == n = Outage /\ s \notin r.alerted
    IN  [r EXCEPT !.outage[s] = n,
                  !.alerted = IF alerts THEN @ \cup {s} ELSE @,
                  !.alert = @ \/ alerts]

AsksQuote(r, s) ==
    IF ~env.outage THEN r
    ELSE IF quote = "none" THEN NoQuote(r, s)
    ELSE [r EXCEPT !.outage[s] = 0, !.alerted = @ \ {s}]

AwaitsFills(r) == r.of = "entry" /\ r.is \in {"pending", "partial"}

(* _has_monitorable_order *)
Monitorable(r) ==
    \/ AwaitsFills(r)
    \/ r.active \cap {"stop", "tp"} # {}
    \/ "smart" \in r.active /\ r.filled > 0
    \/ r.of \in Source /\ r.is \in {"submitted", "partial"}

-----------------------------------------------------------------------------
(* The broker *)

Submit(kind, qty) ==
    sells' = Append(sells, [kind |-> kind, qty |-> qty, filled |-> 0, state |-> "working"])
NewId == Len(sells) + 1

Amounts(open, what) == IF what \in env.slices THEN 1 .. open ELSE {open}

EntryFills ==
    /\ entry.working
    /\ \E k \in Amounts(Qty - entry.filled, "entry") :
          entry' = [filled |-> entry.filled + k, working |-> entry.filled + k < Qty]
    /\ UNCHANGED <<env, sells, rec, copy, pc, quote, rows, seen, canceled, faults, spent>>

(* The broker ends the entry order: canceled, rejected or expired. *)
EntryEnds ==
    /\ entry.working
    /\ entry' = [entry EXCEPT !.working = FALSE]
    /\ UNCHANGED <<env, sells, rec, copy, pc, quote, rows, seen, canceled, faults, spent>>

SellFills(i) ==
    /\ Alive(sells[i])
    /\ \E k \in Amounts(sells[i].qty - sells[i].filled, "exit") :
          sells' = [sells EXCEPT ![i].filled = @ + k,
                       ![i].state = IF sells[i].filled + k = sells[i].qty THEN "filled" ELSE @]
    /\ UNCHANGED <<env, entry, rec, copy, pc, quote, rows, seen, canceled, faults, spent>>

SellRejected(i) ==
    /\ env.rejects
    /\ sells[i].state = "working"
    /\ sells[i].kind # "stop"
    /\ sells' = [sells EXCEPT ![i].state = IF sells[i].filled = 0 THEN "rejected" ELSE "canceled"]
    /\ UNCHANGED <<env, entry, rec, copy, pc, quote, rows, seen, canceled, faults, spent>>

(* Canceling takes what is left of a working order, at once or as a request; it
   raises for one that is filled, canceled or rejected. *)
Cancelable(i) == sells[i].state = "working"
Cancel(ids) ==
    [i \in DOMAIN sells |->
        IF i \in ids /\ Cancelable(i)
          THEN [sells[i] EXCEPT !.state = IF env.late THEN "canceling" ELSE "canceled"]
          ELSE sells[i]]

CancelTakesEffect(i) ==
    /\ sells[i].state = "canceling"
    /\ sells' = [sells EXCEPT ![i].state = "canceled"]
    /\ UNCHANGED <<env, entry, rec, copy, pc, quote, rows, seen, canceled, faults, spent>>

Fault == faults < MaxFaults /\ faults' = faults + 1

-----------------------------------------------------------------------------
(* The monitor's pass: beginning, and attaching broker stops *)

Continue(step) == pc' = step

BeginPass ==
    /\ pc = "idle"
    /\ Monitorable(rec)
    /\ copy' = rec
    /\ quote' \in Quotes
    /\ Continue("attach")
    /\ UNCHANGED <<env, entry, sells, rec, rows, seen, canceled, faults, spent>>

WaitsForFills == AwaitsFills(copy)

AttachNotNeeded ==
    /\ pc = "attach"
    /\ ~WaitsForFills
    /\ Continue("stop")
    /\ UNCHANGED <<env, entry, sells, rec, copy, quote, rows, seen, canceled, faults, spent>>

(* Mutant of HasNewFills: fills are compared with the fills already recorded. *)
HasUnrecordedFills == entry.filled > copy.filled

(* current_filled > covered *)
HasNewFills == entry.filled > copy.covered

(* _try_attach_stop asks the broker what has filled *)
AttachLook ==
    /\ pc = "attach"
    /\ WaitsForFills
    /\ \/ /\ HasNewFills
          /\ copy' = [copy EXCEPT !.filled = Max({copy.filled, entry.filled})]
          /\ seen' = [filled |-> entry.filled, over |-> ~entry.working]
          /\ Continue("attachStop")
       \/ /\ ~HasNewFills
          /\ copy' = IF entry.filled = 0 /\ ~entry.working
                       THEN Status(copy, "entry", "unfilled") ELSE copy
          /\ seen' = seen
          /\ Continue("stop")
    /\ UNCHANGED <<env, entry, sells, rec, quote, rows, canceled, faults, spent>>

AttachLookFails ==
    /\ pc = "attach"
    /\ WaitsForFills
    /\ Fault
    /\ Continue("stop")
    /\ UNCHANGED <<env, entry, sells, rec, copy, quote, rows, seen, canceled, spent>>

Uncovered == seen.filled - copy.covered

AttachStop ==
    /\ pc = "attachStop"
    /\ env.nativeStop
    /\ Submit("stop", Uncovered)
    /\ LET r == ArmTakeProfit([copy EXCEPT !.stops = @ \cup {NewId}, !.covered = @ + Uncovered])
       IN  copy' = Status(r, "entry", IF r.covered >= Qty \/ seen.over THEN "attached" ELSE "partial")
    /\ Continue("stop")
    /\ UNCHANGED <<env, entry, rec, quote, rows, seen, canceled, faults, spent>>

(* The broker has no stop orders: software protection for what is filled. *)
AttachUnsupported ==
    /\ pc = "attachStop"
    /\ ~env.nativeStop
    /\ copy' = Status(ArmTakeProfit(ArmStop(copy, copy.filled)), "entry", "unsupported")
    /\ Continue("stop")
    /\ UNCHANGED <<env, entry, sells, rec, quote, rows, seen, canceled, faults, spent>>

(* The call fails; what the broker made of it is not known. *)
SubmitLost(kind, qty) == sells' = sells \/ (env.lost /\ Submit(kind, qty))

AttachStopFails ==
    /\ pc = "attachStop"
    /\ env.nativeStop
    /\ Fault
    /\ SubmitLost("stop", Uncovered)
    /\ Continue("stop")
    /\ UNCHANGED <<env, entry, rec, copy, quote, rows, seen, canceled, spent>>

-----------------------------------------------------------------------------
(* Software stop.  What _try_software_stop and _try_software_take_profit do for
   a protection that is armed with nothing to sell has no action here:
   ArmedProtectionHasContracts says that it does not happen. *)

(* _retry_waiting: the delay after a failed attempt is still running *)
MayWait(s) == copy.retries[s] \in 1 .. MaxRetries - 1

StopQuantity == Min({copy.stopQty, RemainingOpen(copy)})

(* Not active, or waiting for a retry *)
StopIdle ==
    /\ pc = "stop"
    /\ "stop" \notin copy.active \/ MayWait("stop")
    /\ Continue("tp")
    /\ UNCHANGED <<env, entry, sells, rec, copy, quote, rows, seen, canceled, faults, spent>>

StopWatches ==
    /\ pc = "stop"
    /\ "stop" \in copy.active
    /\ StopQuantity > 0
    /\ quote = "low" => copy.breach + 1 < Confirm
    /\ copy' = [AsksQuote(copy, "stop") EXCEPT
                            !.stopQty = StopQuantity,
                            !.breach = CASE quote = "low" -> @ + 1
                                         [] quote = "none" -> @
                                         [] OTHER -> 0]
    /\ Continue("tp")
    /\ UNCHANGED <<env, entry, sells, rec, quote, rows, seen, canceled, faults, spent>>

Breached ==
    /\ pc = "stop"
    /\ "stop" \in copy.active
    /\ StopQuantity > 0
    /\ quote = "low"
    /\ copy.breach + 1 >= Confirm

(* Each submission records order, quantity and status of its source. *)
Submitted(r, s, qty) ==
    Status([r EXCEPT !.order[s] = NewId, !.submitted[s] = qty], s, "submitted")

WithoutRest(r, s) == IF RemainingOpen(r) = 0 THEN [r EXCEPT !.active = @ \ s] ELSE r

StopFires ==
    /\ Breached
    /\ Submit("market", StopQuantity)
    /\ LET r == Submitted(Activate([AsksQuote(copy, "stop") EXCEPT !.breach = 0, !.stopQty = 0],
                                   "stop", FALSE),
                          "stop", StopQuantity)
       IN  copy' = WithoutRest(r, {"tp", "smart"})
    /\ Continue("persist")
    /\ UNCHANGED <<env, entry, rec, quote, rows, seen, canceled, faults, spent>>

StopFireFails ==
    /\ Breached
    /\ Fault
    /\ SubmitLost("market", StopQuantity)
    /\ copy' = Retry([AsksQuote(copy, "stop") EXCEPT !.breach = 0, !.stopQty = StopQuantity], "stop")
    /\ Continue("persist")
    /\ UNCHANGED <<env, entry, rec, quote, rows, seen, canceled, spent>>

-----------------------------------------------------------------------------
(* Taking the broker's stops away before an exit is sent *)

StopsCanBeCanceled == \A i \in copy.stops : Cancelable(i)

TakeStopsAway(r) ==
    /\ StopsCanBeCanceled
    /\ sells' = Cancel(copy.stops)
    /\ canceled' = (copy.stops # {})
    /\ copy' = IF r.stops = {} THEN r ELSE [r EXCEPT !.stops = {}, !.covered = 0]
    /\ faults' = faults

(* One of them raises: filled meanwhile, canceled before, or the call failed.
   Those that could be canceled are gone at the broker, not in the record. *)
StopsStay(r, s) ==
    /\ copy.stops # {}
    /\ \/ ~StopsCanBeCanceled /\ sells' = Cancel(copy.stops) /\ faults' = faults
       \/ /\ Fault
          /\ \E i \in copy.stops : sells' = Cancel(copy.stops \ {i})
    /\ copy' = Retry(r, s)
    /\ canceled' = FALSE

-----------------------------------------------------------------------------
(* Software take profit *)

Pending(r) == {k \in DOMAIN r.targets : r.targets[k].state = "pending"}
NextTarget == Min(Pending(copy))
CloseQuantity == Min({copy.targets[NextTarget].qty, RemainingOpen(copy)})

TakeProfitIdle ==
    /\ pc = "tp"
    /\ \/ ("tp" \notin copy.active \/ MayWait("tp")) /\ copy' = copy
       \/ /\ "tp" \in copy.active /\ Pending(copy) # {} /\ quote # "high"
          /\ copy' = AsksQuote(copy, "tp")
    /\ Continue("smart")
    /\ UNCHANGED <<env, entry, sells, rec, quote, rows, seen, canceled, faults, spent>>

TargetHit ==
    /\ "tp" \in copy.active
    /\ Pending(copy) # {}
    /\ quote = "high"
    /\ CloseQuantity > 0

TakeProfitCancelsStops ==
    /\ pc = "tp"
    /\ TargetHit
    /\ TakeStopsAway(AsksQuote(copy, "tp"))
    /\ Continue("tpClose")
    /\ UNCHANGED <<env, entry, rec, quote, rows, seen, spent>>

(* Only the attempt that is the last one ends the pass for this order. *)
TakeProfitKeepsStops ==
    /\ pc = "tp"
    /\ TargetHit
    /\ StopsStay(AsksQuote(copy, "tp"), "tp")
    /\ Continue(IF copy'.is = "failed" THEN "persist" ELSE "smart")
    /\ UNCHANGED <<env, entry, rec, quote, rows, seen, spent>>

(* adaptive_exit_decision: a limit while the walk lasts and the quote can be
   trusted, else market *)
CloseKinds(cycle) == {"market"} \cup (IF env.adaptive /\ cycle < MaxCycles THEN {"limit"} ELSE {})

TargetSent(r, k, kind) ==
    [r EXCEPT !.targets[k] =
        [@ EXCEPT !.state = "submitted", !.order = NewId, !.resting = (kind = "limit")]]

(* Mutant of StopForTheRest: the broker stops are not replaced. *)
NoStopForTheRest(r, sold) == r

(* What the target sells is taken off the software stop; without one, a new one
   takes the place of the broker stops for what is left. *)
StopForTheRest(r, sold) ==
    IF "stop" \in r.active
      THEN LET qty == Max({0, r.stopQty - sold})
           IN  Activate([r EXCEPT !.stopQty = qty], "stop", qty > 0)
      ELSE IF RemainingOpen(r) > 0 THEN ArmStop(r, RemainingOpen(r)) ELSE r

TakeProfitCloses ==
    /\ pc = "tpClose"
    /\ \E kind \in CloseKinds(0) :
         /\ Submit(kind, CloseQuantity)
         /\ \E r \in {Submitted(TargetSent(copy, NextTarget, kind), "tp",
                                copy.submitted["tp"] + CloseQuantity)} :
            \E kept \in {StopForTheRest(Activate(r, "tp", Pending(r) # {}), CloseQuantity)} :
               copy' = WithoutRest(kept, {"smart"})
    /\ canceled' = FALSE
    /\ Continue("persist")
    /\ UNCHANGED <<env, entry, rec, quote, rows, seen, faults, spent>>

(* A close that cannot be sent leaves the software stop in place of the broker
   stops that were taken away. *)
TakeProfitCloseFails ==
    /\ pc = "tpClose"
    /\ Fault
    /\ \E kind \in CloseKinds(0) : SubmitLost(kind, CloseQuantity)
    /\ LET r == Retry(copy, "tp")
       IN  /\ copy' = IF canceled /\ RemainingOpen(r) > 0 THEN ArmStop(r, RemainingOpen(r)) ELSE r
           /\ Continue(IF r.is = "failed" THEN "persist" ELSE "smart")
    /\ canceled' = FALSE
    /\ UNCHANGED <<env, entry, rec, quote, rows, seen, spent>>

-----------------------------------------------------------------------------
(* Smart exit of a single leg *)

SmartActive ==
    /\ "smart" \in copy.active
    /\ copy.filled > 0
    /\ ~(copy.of \in {"smart", "stop", "flatten"} /\ copy.is = "submitted")

(* Not active, waiting, nothing open (then it is switched off), or none of the
   plan's conditions is confirmed *)
SmartIdle ==
    /\ pc = "smart"
    /\ copy' = IF SmartActive /\ RemainingOpen(copy) = 0
                 THEN Activate(copy, "smart", FALSE) ELSE copy
    /\ Continue("rows")
    /\ UNCHANGED <<env, entry, sells, rec, quote, rows, seen, canceled, faults, spent>>

(* Its own event takes the place of the alert. *)
NoAlert(r) == [r EXCEPT !.alert = FALSE]

SmartCancelsStops ==
    /\ pc = "smart"
    /\ SmartActive /\ RemainingOpen(copy) > 0
    /\ TakeStopsAway(copy)
    /\ Continue("smartClose")
    /\ UNCHANGED <<env, entry, rec, quote, rows, seen, spent>>

SmartKeepsStops ==
    /\ pc = "smart"
    /\ SmartActive /\ RemainingOpen(copy) > 0
    /\ StopsStay(NoAlert(copy), "smart")
    /\ Continue("rows")
    /\ UNCHANGED <<env, entry, rec, quote, rows, seen, spent>>

SmartCloses ==
    /\ pc = "smartClose"
    /\ Submit("market", RemainingOpen(copy))
    /\ LET r == Submitted(NoAlert(copy), "smart", RemainingOpen(copy))
       IN  copy' = [r EXCEPT !.active = {}, !.stopQty = IF "stop" \in r.active THEN 0 ELSE @]
    /\ canceled' = FALSE
    /\ Continue("rows")
    /\ UNCHANGED <<env, entry, rec, quote, rows, seen, faults, spent>>

SmartCloseFails ==
    /\ pc = "smartClose"
    /\ Fault
    /\ SubmitLost("market", RemainingOpen(copy))
    /\ copy' = Retry(NoAlert(copy), "smart")
    /\ canceled' = FALSE
    /\ Continue("rows")
    /\ UNCHANGED <<env, entry, rec, quote, rows, seen, spent>>

-----------------------------------------------------------------------------
(* Reconciling exit orders *)

(* Mutant of RowsOf: take-profit orders are not looked at. *)
RowsWithoutTargets(r) ==
    LET one(s) == IF r.order[s] # 0 /\ r.exit[s] # "filled" THEN <<<<s, 0>>>> ELSE <<>>
    IN  one("stop") \o one("smart") \o one("flatten")

(* _single_leg_exit_reconcile_orders, of at most two targets *)
RowsOf(r) ==
    LET one(s) == IF r.order[s] # 0 /\ r.exit[s] # "filled" THEN <<<<s, 0>>>> ELSE <<>>
        target(k) == IF k \in DOMAIN r.targets /\ r.targets[k].state = "submitted"
                       THEN <<<<"tp", k>>>> ELSE <<>>
    IN  one("stop") \o one("smart") \o one("flatten") \o target(1) \o target(2)

CollectRows ==
    /\ pc = "rows"
    /\ rows' = RowsOf(copy)
    /\ Continue("reconcile")
    /\ UNCHANGED <<env, entry, sells, rec, copy, quote, seen, canceled, faults, spent>>

OrderOf(row) == IF row[1] = "tp" THEN copy.targets[row[2]].order ELSE copy.order[row[1]]
QtyOf(row) ==
    IF row[1] = "tp" THEN copy.targets[row[2]].qty
    ELSE IF copy.submitted[row[1]] # 0 THEN copy.submitted[row[1]] ELSE copy.closed[row[1]]

Outcome(r, row, is) ==
    IF row[1] = "tp" THEN [r EXCEPT !.targets[row[2]].state = is, !.exit["tp"] = is]
                     ELSE [r EXCEPT !.exit[row[1]] = is]

Books(r, row, n) ==
    IF row[1] = "tp" THEN [r EXCEPT !.targets[row[2]].filled = n] ELSE r

MarkFilled(row, n) ==
    LET s == row[1]
        total == IF s = "tp" THEN copy.submitted["tp"] - QtyOf(row) + n ELSE n
        r == Books(Outcome([copy EXCEPT !.closed[s] = Max({@, total})], row, "filled"), row, n)
    IN  IF RemainingOpen(r) = 0
          THEN [Status(r, s, "filled") EXCEPT !.active = {}] ELSE r

MarkFailed(row) ==
    LET s == row[1]
        closed == IF s = "tp" THEN Max({0, copy.closed["tp"] - QtyOf(row)}) ELSE 0
        r == Outcome([copy EXCEPT !.closed[s] = closed], row, "failed")
    IN  [Status(r, s, "failed") EXCEPT !.active = {}]

MarkPartial(row, n) ==
    LET s == row[1]
        closed == IF s = "tp" THEN Max({0, copy.closed["tp"] - QtyOf(row) + n}) ELSE n
        r == Books(Outcome([copy EXCEPT !.closed[s] = closed], row, "partial"), row, n)
    IN  Status(r, s, "partial")

Rest(row) == row[1] = "tp" /\ copy.targets[row[2]].resting

ReconcileRow ==
    /\ pc = "reconcile"
    /\ rows # <<>>
    /\ LET row == Head(rows)
           o == sells[OrderOf(row)]
           over == o.state = "filled" \/ (QtyOf(row) > 0 /\ o.filled >= QtyOf(row))
           ended == ~over /\ o.state \in {"canceled", "rejected"}
           walks == ~over /\ ~ended /\ o.filled = 0 /\ Rest(row)
       IN  /\ copy' = CASE over -> MarkFilled(row, IF o.filled = 0 THEN QtyOf(row) ELSE o.filled)
                        [] ended -> MarkFailed(row)
                        [] ~over /\ ~ended /\ o.filled > 0 -> MarkPartial(row, o.filled)
                        [] OTHER -> copy
           /\ rows' = IF walks THEN rows ELSE Tail(rows)
           /\ Continue(IF walks THEN "escalate" ELSE "reconcile")
    /\ UNCHANGED <<env, entry, sells, rec, quote, seen, canceled, faults, spent>>

ReconcileFails ==
    /\ pc = "reconcile"
    /\ rows # <<>>
    /\ Fault
    /\ rows' = Tail(rows)
    /\ UNCHANGED <<env, entry, sells, rec, copy, pc, quote, seen, canceled, spent>>

NextRow == rows' = Tail(rows) /\ Continue("reconcile")

(* _escalate_adaptive_take_profit: cancel the resting limit, ask whether it
   has filled after all, and if not send the target's quantity again one step
   further along the walk. *)
EscalateCancels ==
    /\ pc = "escalate"
    /\ Cancelable(OrderOf(Head(rows)))
    /\ sells' = Cancel({OrderOf(Head(rows))})
    /\ Continue("escalateLook")
    /\ UNCHANGED <<env, entry, rec, copy, quote, rows, seen, canceled, faults, spent>>

(* A cancel that raises leaves the order resting for this pass. *)
EscalateCancelFails ==
    /\ pc = "escalate"
    /\ \/ ~Cancelable(OrderOf(Head(rows))) /\ faults' = faults
       \/ Fault
    /\ NextRow
    /\ UNCHANGED <<env, entry, sells, rec, copy, quote, seen, canceled, spent>>

FilledWhenCanceled(row) == sells[OrderOf(row)].filled >= QtyOf(row)

EscalateSeesFill ==
    /\ pc = "escalateLook"
    /\ FilledWhenCanceled(Head(rows))
    /\ copy' = MarkFilled(Head(rows), sells[OrderOf(Head(rows))].filled)
    /\ NextRow
    /\ UNCHANGED <<env, entry, sells, rec, quote, seen, canceled, faults, spent>>

(* Not filled, or the question fails and the close is sent all the same *)
EscalateSeesNoFill ==
    /\ pc = "escalateLook"
    /\ \/ ~FilledWhenCanceled(Head(rows)) /\ faults' = faults
       \/ Fault
    /\ Continue("escalateClose")
    /\ UNCHANGED <<env, entry, sells, rec, copy, quote, rows, seen, canceled, spent>>

NextCycle(row) == copy.targets[row[2]].cycle + 1

SentAgain(target, id, rests) ==
    [target EXCEPT !.order = id, !.cycle = @ + 1, !.resting = rests]

EscalateCloses ==
    /\ pc = "escalateClose"
    /\ LET row == Head(rows)
       IN  \E kind \in CloseKinds(NextCycle(row)) :
             /\ Submit(kind, QtyOf(row))
             /\ copy' = [copy EXCEPT !.targets[row[2]] = SentAgain(@, NewId, kind = "limit"),
                                     !.order["tp"] = NewId]
    /\ NextRow
    /\ UNCHANGED <<env, entry, rec, quote, seen, canceled, faults, spent>>

EscalateCloseFails ==
    /\ pc = "escalateClose"
    /\ Fault
    /\ \E kind \in CloseKinds(NextCycle(Head(rows))) : SubmitLost(kind, QtyOf(Head(rows)))
    /\ NextRow
    /\ UNCHANGED <<env, entry, rec, copy, quote, seen, canceled, spent>>

RowsDone ==
    /\ pc = "reconcile"
    /\ rows = <<>>
    /\ Continue("persist")
    /\ UNCHANGED <<env, entry, sells, rec, copy, quote, rows, seen, canceled, faults, spent>>

(* The events go into the instance and the whole record is written
   (mark_trading_run).  append_instance_event knows no field "event", which is
   what the alert of an outage calls its type: it raises, and nothing is written. *)
Persist ==
    /\ pc = "persist"
    /\ IF copy.alert THEN copy' = rec /\ rec' = rec
                     ELSE rec' = copy /\ copy' = copy
    /\ rows' = <<>>
    /\ seen' = NothingSeen
    /\ quote' = "none"
    /\ Continue("idle")
    /\ UNCHANGED <<env, entry, sells, canceled, faults, spent>>

-----------------------------------------------------------------------------
(* The user's flatten *)

BeginFlatten ==
    /\ env.flatten /\ "flatten" \notin spent
    /\ pc = "idle"
    /\ spent' = spent \cup {"flatten"}
    /\ copy' = rec
    /\ Continue("flattenCancel")
    /\ UNCHANGED <<env, entry, sells, rec, quote, rows, seen, canceled, faults>>

(* _known_order_refs: the entry unless the record has it filled, the stops, and
   of every software exit the order it submitted last *)
KnownSells == copy.stops \cup ({copy.order[s] : s \in Software} \ {0})

CancelEntry == entry' = [entry EXCEPT !.working = @ /\ copy.filled = Qty]

(* What cannot be canceled is counted and otherwise ignored. *)
FlattenCancels ==
    /\ pc = "flattenCancel"
    /\ \/ CancelEntry /\ sells' = Cancel(KnownSells) /\ faults' = faults
       \/ Fault /\ CancelEntry /\ \E i \in KnownSells : sells' = Cancel(KnownSells \ {i})
       \/ Fault /\ entry' = entry /\ sells' = Cancel(KnownSells)
    /\ Continue("flattenLook")
    /\ UNCHANGED <<env, rec, copy, quote, rows, seen, canceled, spent>>

(* positions(): what the account can still sell *)
FlattenLook ==
    /\ pc = "flattenLook"
    /\ LET available == IF env.reserves THEN Max({0, Position - Resting}) ELSE Position
       IN  seen' = [filled |-> IF Position > 0 THEN available ELSE Position, over |-> FALSE]
    /\ Continue("flattenClose")
    /\ UNCHANGED <<env, entry, sells, rec, copy, quote, rows, canceled, faults, spent>>

(* The exception leaves the flatten; nothing is saved. *)
FlattenLookFails ==
    /\ pc = "flattenLook"
    /\ Fault
    /\ copy' = rec
    /\ Continue("idle")
    /\ UNCHANGED <<env, entry, sells, rec, quote, rows, seen, canceled, spent>>

Desired == Max({0, copy.filled - ClosedOrPending(copy)})
FlattenQuantity == Min({Max({seen.filled, -seen.filled}), Desired})

FlattenCloses ==
    /\ pc = "flattenClose"
    /\ FlattenQuantity > 0
    /\ Submit(IF seen.filled > 0 THEN "market" ELSE "buy", FlattenQuantity)
    /\ LET r == Submitted(copy, "flatten", copy.submitted["flatten"] + FlattenQuantity)
       IN  copy' = [r EXCEPT !.active = {}, !.stopQty = 0]
    /\ Continue("persist")
    /\ UNCHANGED <<env, entry, rec, quote, rows, seen, canceled, faults, spent>>

(* No quantity to close, or the order is refused *)
FlattenClosesNothing ==
    /\ pc = "flattenClose"
    /\ \/ FlattenQuantity = 0 /\ faults' = faults /\ sells' = sells
       \/ FlattenQuantity > 0 /\ Fault
            /\ SubmitLost(IF seen.filled > 0 THEN "market" ELSE "buy", FlattenQuantity)
    /\ Continue("persist")
    /\ UNCHANGED <<env, entry, rec, copy, quote, rows, seen, canceled, spent>>

-----------------------------------------------------------------------------
(* The process dies between two steps: the copy is lost. *)
Crash ==
    /\ env.crash /\ "crash" \notin spent
    /\ pc # "idle"
    /\ spent' = spent \cup {"crash"}
    /\ copy' = rec
    /\ rows' = <<>>
    /\ seen' = NothingSeen
    /\ quote' = "none"
    /\ canceled' = FALSE
    /\ Continue("idle")
    /\ UNCHANGED <<env, entry, sells, rec, faults>>

Working ==
    \/ AttachNotNeeded \/ AttachLook \/ AttachLookFails
    \/ AttachStop \/ AttachUnsupported \/ AttachStopFails
    \/ StopIdle \/ StopWatches \/ StopFires \/ StopFireFails
    \/ TakeProfitIdle \/ TakeProfitCancelsStops \/ TakeProfitKeepsStops
    \/ TakeProfitCloses \/ TakeProfitCloseFails
    \/ SmartIdle \/ SmartCancelsStops \/ SmartKeepsStops \/ SmartCloses \/ SmartCloseFails
    \/ CollectRows \/ ReconcileRow \/ ReconcileFails
    \/ EscalateCancels \/ EscalateCancelFails \/ EscalateSeesFill \/ EscalateSeesNoFill
    \/ EscalateCloses \/ EscalateCloseFails
    \/ RowsDone \/ Persist
    \/ FlattenCancels \/ FlattenLook \/ FlattenLookFails \/ FlattenCloses \/ FlattenClosesNothing

Broker ==
    \/ EntryFills \/ EntryEnds
    \/ \E i \in DOMAIN sells : SellFills(i) \/ SellRejected(i) \/ CancelTakesEffect(i)

Next == BeginPass \/ Working \/ BeginFlatten \/ Crash \/ Broker

Spec == Init /\ [][Next]_vars

(***************************************************************************)
(* The monitor thread passes every few seconds and its steps return; at    *)
(* the broker, market orders and requested cancels come to an end.         *)
(* Nothing makes a limit or a stop order fill, a price move or a user act. *)
(***************************************************************************)
BrokerDecides ==
    \E i \in DOMAIN sells :
        \/ sells[i].kind \in {"market", "buy"} /\ (SellFills(i) \/ SellRejected(i))
        \/ sells[i].state = "canceling" /\ (SellFills(i) \/ CancelTakesEffect(i))

Fairness == WF_vars(BeginPass) /\ WF_vars(Working) /\ WF_vars(BrokerDecides)

FairSpec == Spec /\ Fairness

-----------------------------------------------------------------------------
(* Correctness *)

(* Broker and process behave: exits fill as a whole, a cancel that is accepted
   is a cancel, sellable quantities are net of working orders, no call that
   failed was executed, quotes come back, the process does not die. *)
Tame ==
    /\ "exit" \notin env.slices
    /\ env.reserves
    /\ ~env.late /\ ~env.lost /\ ~env.crash /\ ~env.outage

(* Nothing is sold that is not held, even if everything that rests fills; and
   between two passes what exits have sold or may still sell is in the record,
   so that no later pass takes it for open. *)
Counts(o) == o.kind \in {"limit", "market"} /\ o.state \in {"working", "filled"}
Exiting == FoldSeq(LAMBDA o, sum : (IF Counts(o) THEN o.qty ELSE 0) + sum, 0, sells)

NeverOverclosed ==
    Tame => /\ Sold + Resting <= entry.filled
            /\ pc = "idle" => Exiting <= ClosedOrPending(rec)

(* The same as the escalation's docstring has it, with exits in parts. *)
NeverShort == Position >= 0

(* Until the user flattens, between two passes, every contract the record knows
   to be open is covered by a broker stop (at work, or filled and not known to
   be) or by the software stop, unless the monitor still waits to attach one, a
   take profit or smart exit that took the stops away waits for its retry, or
   an exit failed and the user has been told.  And when a pass evaluates an
   armed software stop or take profit, there are contracts left to sell: no
   other exit has taken them all. *)
StopsAtWork(r) == {i \in r.stops : sells[i].state \in {"working", "filled"}}
Cover(r) ==
    MapThenSumSet(LAMBDA i : sells[i].qty, StopsAtWork(r))
        + (IF "stop" \in r.active THEN r.stopQty ELSE 0)

Waits(r) ==
    \/ AwaitsFills(r)
    \/ r.of \in {"tp", "smart"} /\ r.is = "retry"

GivenUp(r) == r.is = "failed" \/ \E s \in Source : r.exit[s] = "failed"

ArmedProtectionHasContracts ==
    /\ pc = "stop" /\ "stop" \in copy.active => StopQuantity > 0
    /\ pc = "tp" /\ "tp" \in copy.active => Pending(copy) # {} /\ CloseQuantity > 0

OpenContractsAreCovered ==
    /\ Tame /\ "flatten" \notin spent /\ pc = "idle" /\ rec.filled > 0
        => RemainingOpen(rec) <= Cover(rec) \/ Waits(rec) \/ GivenUp(rec)
    /\ ArmedProtectionHasContracts

(* A take-profit close that was sent is not left without an answer: the target
   is filled or failed, or at least its order is. *)
Unresolved(k) ==
    /\ k \in DOMAIN rec.targets
    /\ rec.targets[k].state \in {"submitted", "partial"}
    /\ sells[rec.targets[k].order].state \notin {"filled", "rejected"}

TargetsAreResolved == \A k \in 1 .. 2 : Unresolved(k) ~> ~Unresolved(k)

(* It does so for a single target whose orders fill as a whole. *)
SingleTargetIsResolved ==
    ~env.tiered /\ "exit" \notin env.slices /\ Unresolved(1) ~> ~Unresolved(1)

(* While the monitor waits for fills, whatever is filled gets its stop, even
   when a call fails or the process dies: the next pass attaches it. *)
FillsGetTheirStop ==
    AwaitsFills(rec) /\ entry.filled > rec.covered
        ~> ~AwaitsFills(rec) \/ entry.filled <= rec.covered

(* When a protection has been without a quote for so many passes that the order
   is flagged for manual attention, the flag reaches the record, or a pass has a
   quote again. *)
OutageIsFlagged ==
    copy.alert ~> rec.alerted # {} \/ \A s \in {"stop", "tp"} : rec.outage[s] = 0

=============================================================================
