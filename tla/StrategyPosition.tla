-------------------------- MODULE StrategyPosition --------------------------
(***************************************************************************)
(* A strategy position of two legs, bought "long" and sold "short", one    *)
(* contract each per unit: its record in the database, the orders at the   *)
(* broker, and the one handler that works on a copy of the record at a     *)
(* time.  The handlers are in StrategyEntry and StrategyExit.              *)
(***************************************************************************)
EXTENDS Integers, Sequences, FiniteSets, FiniteSetsExt, SequencesExt

CONSTANTS
    Units,         \* units the entry asks for
    Attempts,      \* attempts of a priced entry leg
    MaxCycles,     \* length of the walk of a priced exit
    MaxFaults,     \* bound on the broker calls that fail
    MaxOrders,     \* bound on the orders, checked by TypeOK
    Environment    \* the environments considered

Leg == {"long", "short"}
Part == {"entry", "exit"}
Trigger == {"stop", "smart", "time", "tp1", "tp2"}
Purpose == Trigger \cup {"entry"}
Signal == Trigger \cup {"quiet", "blind"}

(***************************************************************************)
(* In which parts orders are limits, may fill in parts, may outlast the    *)
(* wait for their fill (or the wait raises), may be refused; in which      *)
(* parts the process may die (once), a call may fail, a call that failed   *)
(* may have been executed and a cancel is a request that the order may     *)
(* outrun; in which parts the order journal may forget: a row is not       *)
(* written, cannot be read or is older than the 900 s it is asked for.     *)
(* "gates": a price gate may end the entry.  "tiered": the first profit    *)
(* target closes half.  "auto": exits are sent, not only announced.        *)
(* "manual": the user may close the position at the broker.  "flatten":    *)
(* the user may flatten.  "signals": what a pass may see in the quotes.    *)
(***************************************************************************)
EnvironmentType ==
    [limit : SUBSET Part, slices : SUBSET Part, slow : SUBSET Part, rejects : SUBSET Part,
     crash : SUBSET Part, faults : SUBSET Part, lost : SUBSET Part, late : SUBSET Part,
     forgets : SUBSET Part, gates : BOOLEAN, tiered : BOOLEAN, auto : BOOLEAN,
     manual : BOOLEAN, flatten : BOOLEAN, signals : SUBSET Signal]

ASSUME StrategyAssumption ==
    /\ Units \in Nat \ {0}
    /\ Attempts \in Nat \ {0}
    /\ MaxCycles \in Nat
    /\ MaxFaults \in Nat
    /\ MaxOrders \in Nat
    /\ Environment \subseteq EnvironmentType

VARIABLES
    env,
    orders,     \* the orders at the broker, in order of submission
    journal,    \* per leg and purpose, the last entry of the order journal
    rec,        \* the order record and its position, in the database
    copy,       \* the copy a handler works on
    pc,         \* where that handler is
    work,       \* the legs it goes through and what came of them
    faults,     \* broker calls that failed
    spent       \* what happens at most once and has happened

vars == <<env, orders, journal, rec, copy, pc, work, faults, spent>>

EntrySteps == {"entry", "entryWait", "entryCancel", "unwind", "unwindWait", "opened"}
ExitSteps == {"residual", "query", "escalate", "look", "resend", "settle", "positions",
              "quote", "exit", "sent", "await"}
FlattenSteps == {"cancel", "flatten", "flattenLegs"}
Steps == {"idle", "persist"} \cup EntrySteps \cup ExitSteps \cup FlattenSteps

Order ==
    [leg : Leg, part : Part \cup {"user"}, limit : BOOLEAN, qty : 1 .. Units,
     filled : 0 .. Units, state : {"working", "canceling", "filled", "canceled", "rejected"}]

LegRecord ==
    [filled : 0 .. Units,                  \* filled_quantity
     entry : Nat,                          \* entry_order
     status : {"none", "submitted", "filled", "failed", "deferred"},
     qty : 0 .. 2 * Units,                 \* strategy_exit_quantity
     done : 0 .. 2 * Units,                \* strategy_exit_filled_quantity
     order : Nat,                          \* strategy_exit_order
     resting : BOOLEAN, cycle : 0 .. MaxCycles + 1]

Record ==
    [legs : [Leg -> LegRecord],
     exit : {"none", "submitted", "partial", "filled", "nothing", "residual", "combo"},
     active : BOOLEAN,                     \* risk_tracking_active of the position
     residual : 0 .. Units,                \* residual_leg_quantity while it is tracked
     told : BOOLEAN,                       \* the user has been told to act
     closed : 0 .. 2 * Units,              \* strategy_exit_closed_units
     pending : Trigger \cup {"none"},      \* pending_pnl_trigger, seen once
     smart : BOOLEAN,                      \* pending_smart_exit_trigger, seen once
     tp1 : BOOLEAN,                        \* take_profit_1_status is "pending"
     flat : 0 .. 1, mismatch : 0 .. 2]     \* consecutive answers of positions()

Work ==
    [todo : Seq(Leg), order : Nat, tries : 0 .. Attempts,
     trigger : Trigger \cup {"none"}, amount : 0 .. 2 * Units,
     sent : SUBSET Leg, full : SUBSET Leg, failed : SUBSET Leg]

Entry == [state : {"none", "before", "after"}, order : Nat]
Nothing == [state |-> "none", order |-> 0]

TypeOK ==
    /\ env \in Environment
    /\ orders \in Seq(Order) /\ Len(orders) <= MaxOrders
    /\ journal \in [Leg \X Purpose -> Entry]
    /\ rec \in Record /\ copy \in Record
    /\ pc \in Steps
    /\ work \in Work
    /\ faults \in 0 .. MaxFaults
    /\ spent \subseteq {"crash", "manual", "flatten"}

NoLeg ==
    [filled |-> 0, entry |-> 0, status |-> "none", qty |-> 0, done |-> 0, order |-> 0,
     resting |-> FALSE, cycle |-> 0]

NoRecord ==
    [legs |-> [leg \in Leg |-> NoLeg], exit |-> "none", active |-> FALSE, residual |-> 0,
     told |-> FALSE, closed |-> 0, pending |-> "none", smart |-> FALSE, tp1 |-> TRUE,
     flat |-> 0, mismatch |-> 0]

NoWork ==
    [todo |-> <<>>, order |-> 0, tries |-> 0, trigger |-> "none", amount |-> 0,
     sent |-> {}, full |-> {}, failed |-> {}]

(* _strategy_execution_sequence: what is bought comes first *)
ExecutionSequence == <<"long", "short">>

Init ==
    /\ env \in Environment
    /\ orders = <<>>
    /\ journal = [key \in Leg \X Purpose |-> Nothing]
    /\ rec = NoRecord /\ copy = NoRecord
    /\ pc = "entry"
    /\ work = [NoWork EXCEPT !.todo = ExecutionSequence]
    /\ faults = 0
    /\ spent = {}

-----------------------------------------------------------------------------
(* The broker *)

Alive(o) == o.state \in {"working", "canceling"}
Dead(o) == o.state \in {"canceled", "rejected"}

(* _is_terminal_unfilled_status and nothing filled *)
DeadUnfilled(o) == Dead(o) /\ o.filled = 0

Sum(amount(_), leg) ==
    FoldSeq(LAMBDA o, sum : (IF o.leg = leg THEN amount(o) ELSE 0) + sum, 0, orders)

Bought(o) == IF o.part = "entry" THEN o.filled ELSE -o.filled
Held(leg) == Sum(Bought, leg)

NewId == Len(orders) + 1
Submit(leg, part, limit, qty) ==
    orders' = Append(orders, [leg |-> leg, part |-> part, limit |-> limit, qty |-> qty,
                              filled |-> 0, state |-> "working"])

(* The call fails; what the broker made of it is not known. *)
SubmitLost(leg, part, limit, qty) ==
    orders' = orders \/ (part \in env.lost /\ Submit(leg, part, limit, qty))

Fault(part) == part \in env.faults /\ faults < MaxFaults /\ faults' = faults + 1

Amounts(o) == IF o.part \in env.slices THEN 1 .. o.qty - o.filled ELSE {o.qty - o.filled}

Fills(i) ==
    /\ Alive(orders[i])
    /\ \E k \in Amounts(orders[i]) :
          orders' = [orders EXCEPT ![i].filled = @ + k,
                        ![i].state = IF orders[i].filled + k = orders[i].qty THEN "filled" ELSE @]
    /\ UNCHANGED <<env, journal, rec, copy, pc, work, faults, spent>>

IsRejected(i) ==
    /\ orders[i].part \in env.rejects
    /\ orders[i].state = "working"
    /\ orders' = [orders EXCEPT ![i].state = IF orders[i].filled = 0 THEN "rejected" ELSE "canceled"]
    /\ UNCHANGED <<env, journal, rec, copy, pc, work, faults, spent>>

Cancelable(i) == orders[i].state = "working"

(* A cancel takes what is left of a working order, at once or as a request; it
   raises for any other. *)
Cancel(ids) ==
    [i \in DOMAIN orders |->
        IF i \in ids /\ Cancelable(i)
          THEN [orders[i] EXCEPT !.state =
                  IF orders[i].part \in env.late THEN "canceling" ELSE "canceled"]
          ELSE orders[i]]

CancelTakesEffect(i) ==
    /\ orders[i].state = "canceling"
    /\ orders' = [orders EXCEPT ![i].state = "canceled"]
    /\ UNCHANGED <<env, journal, rec, copy, pc, work, faults, spent>>

(* wait_for_order_fill returns: the order is decided, or may outlast the wait *)
WaitIsOver(o) == ~Alive(o) \/ o.limit \/ o.part \in env.slow

(* The user closes at the broker whatever is held. *)
UserCloses ==
    /\ env.manual /\ "manual" \notin spent
    /\ rec.active
    /\ \A leg \in Leg : Held(leg) > 0
    /\ spent' = spent \cup {"manual"}
    /\ orders' = orders \o [k \in 1 .. 2 |->
                    LET leg == ExecutionSequence[k]
                    IN  [leg |-> leg, part |-> "user", limit |-> FALSE, qty |-> Held(leg),
                         filled |-> Held(leg), state |-> "filled"]]
    /\ UNCHANGED <<env, journal, rec, copy, pc, work, faults>>

Broker ==
    \/ \E i \in DOMAIN orders : Fills(i) \/ IsRejected(i) \/ CancelTakesEffect(i)
    \/ UserCloses

(* At the broker, market orders and requested cancels come to an end; nothing
   makes a limit order fill. *)
BrokerDecides ==
    \E i \in DOMAIN orders :
        \/ ~orders[i].limit /\ (Fills(i) \/ IsRejected(i))
        \/ orders[i].state = "canceling" /\ (Fills(i) \/ CancelTakesEffect(i))

-----------------------------------------------------------------------------
(* The order journal *)

(* find_recent_order_journal *)
Recalled(key, part) == {journal[key]} \cup (IF part \in env.forgets THEN {Nothing} ELSE {})

(* record_order_journal swallows what goes wrong. *)
Notes(key, part, entry) ==
    \/ journal' = [journal EXCEPT ![key] = entry]
    \/ part \in env.forgets /\ journal' = journal

NotesBefore(key, part) == Notes(key, part, [journal[key] EXCEPT !.state = "before"])

(* A submission whose end is not known is not repeated: this raises. *)
Unresolved(noted) == noted.state = "before"

(* Mutant of TakenOver: what the journal knows to be sent is sent again. *)
NeverTakenOver(noted) == FALSE

(* One whose order lives or has filled is taken over. *)
TakenOver(noted) == noted.state = "after" /\ ~DeadUnfilled(orders[noted.order])

MaySubmit(noted) == ~Unresolved(noted) /\ ~TakenOver(noted)

-----------------------------------------------------------------------------
(* What every handler ends with, or does not *)

Goto(step) == pc' = step

(* mark_trading_run with the whole record *)
Persist ==
    /\ pc = "persist"
    /\ rec' = copy
    /\ work' = NoWork
    /\ Goto("idle")
    /\ UNCHANGED <<env, orders, journal, copy, faults, spent>>

(* The process dies between two steps: the copy is lost.  A run whose entry was
   interrupted is never taken up again. *)
Crash ==
    /\ (IF rec = NoRecord THEN "entry" ELSE "exit") \in env.crash
    /\ pc # "idle"
    /\ "crash" \notin spent
    /\ spent' = spent \cup {"crash"}
    /\ copy' = rec
    /\ work' = NoWork
    /\ Goto("idle")
    /\ UNCHANGED <<env, orders, journal, rec, faults>>

=============================================================================
