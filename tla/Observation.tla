---------------------------- MODULE Observation ----------------------------
(***************************************************************************)
(* The observation scheduler: a trigger that is checked when it is due and *)
(* a scan loop that runs when it is due.  Both submit scans (ScanQueue)    *)
(* and both raise alerts (NotificationOutbox).  A user may check the       *)
(* trigger through the API while the scheduler does.                       *)
(***************************************************************************)
EXTENDS ScanQueue, NotificationOutbox

CONSTANTS
    Symbol,      \* symbols of the scan loop
    AiBudget,    \* max_ai_scans_per_day of the scan loop
    AlertBudget  \* max_alerts_per_day of the scan loop

ASSUME ObservationAssumption ==
    /\ IsFiniteSet(Symbol) /\ AiBudget \in Nat /\ AlertBudget \in Nat
    /\ {"monitor", "looper"} \subseteq Sender
    /\ \A e \in Environment :
        /\ e.trigger \in {"none", "price", "rescan"} /\ e.loop \in {"none", "alerts", "digest"}
        /\ e.times \in 0..MaxEvent /\ e.symbols \subseteq Symbol

VARIABLES
    trigger, \* the row of scan_triggers
    check,   \* what each checker of the trigger does
    loop,    \* whether the row of scan_loop_instances is due, and what its items say of today
    round,   \* what the runner of the scan loop does
    asked,   \* scans the loop has submitted today
    alerted  \* alerts it has raised today

observationVars == <<trigger, check, loop, round, asked, alerted>>

Checker == {"monitor", "web"}

NoCheck == [pc |-> "idle", scan |-> 0]
NoRound == [pc |-> "idle", alerts |-> 0, select |-> {}, raise |-> {}, scanned |-> {}, scan |-> 0, digest |-> FALSE]

ObservationTypeOK ==
    /\ trigger \in [enabled : BOOLEAN, count : Nat, due : BOOLEAN, cooling : BOOLEAN, rescan : 0..MaxScan]
    /\ check \in [Checker -> [pc : {"idle", "submitted", "dispatched"}, scan : 0..MaxScan]]
    /\ loop \in [due : BOOLEAN, scans : Nat, alerts : Nat]
    /\ round \in [pc : {"idle", "select", "alert"}, alerts : Nat,
                  select : SUBSET Symbol, raise : SUBSET Symbol, scanned : SUBSET Symbol,
                  scan : 0..MaxScan, digest : BOOLEAN]
    /\ asked \in Nat /\ alerted \in Nat

ObservationInit ==
    /\ trigger = [enabled |-> env.trigger # "none", count |-> 0, due |-> FALSE, cooling |-> FALSE, rescan |-> 0]
    /\ check = [c \in Checker |-> NoCheck]
    /\ loop = [due |-> FALSE, scans |-> 0, alerts |-> 0]
    /\ round = NoRound
    /\ asked = 0 /\ alerted = 0

loopVars == <<loop, round, asked, alerted>>
Acts(x) == sending[x] = Quiet /\ (IF x = "web" THEN env.users ELSE IsUp(Home))
By(x) == IF x = "web" THEN "web" ELSE Home

(***************************************************************************)
(* check_scan_trigger.  The trigger is read once, at the beginning.        *)
(***************************************************************************)
TriggerGetsDue ==
    /\ trigger.enabled /\ ~trigger.due
    /\ trigger' = [trigger EXCEPT !.due = TRUE]
    /\ UNCHANGED <<check, loopVars>>

CooldownEnds ==
    /\ trigger.cooling
    /\ trigger' = [trigger EXCEPT !.cooling = FALSE]
    /\ UNCHANGED <<check, loopVars>>

IsChecked(c) == Acts(c) /\ check[c] = NoCheck /\ trigger.enabled /\ trigger.due

\* The max_trigger_count of the trigger.
IsMaxedOut == trigger.count >= env.times

GetsMaxedOut(c) ==
    /\ IsChecked(c) /\ IsMaxedOut
    /\ trigger' = [trigger EXCEPT !.enabled = FALSE]
    /\ UNCHANGED <<check, loopVars, scanVars, outboxVars>>

\* No match, or the market is closed.
PriceIsQuiet(c) ==
    /\ IsChecked(c) /\ ~IsMaxedOut /\ env.trigger = "price"
    /\ trigger' = [trigger EXCEPT !.due = FALSE]
    /\ UNCHANGED <<check, loopVars, scanVars, outboxVars>>

\* A match: suppressed in the cooldown, otherwise an alert for the next count.
Matches(c) ==
    IF trigger.cooling
    THEN /\ trigger' = [trigger EXCEPT !.due = FALSE, !.rescan = 0]
         /\ UNCHANGED <<check, outboxVars>>
    ELSE /\ CreateAndDispatch(c, trigger.count + 1)
         /\ check' = [check EXCEPT ![c] = [@ EXCEPT !.pc = "dispatched"]]
         /\ UNCHANGED trigger

PriceMatches(c) ==
    /\ IsChecked(c) /\ ~IsMaxedOut /\ env.trigger = "price"
    /\ Matches(c)
    /\ UNCHANGED <<loopVars, scanVars>>

\* A rescan trigger without a scan submits one and remembers it afterwards.
AskForRescan(c) ==
    /\ IsChecked(c) /\ ~IsMaxedOut /\ env.trigger = "rescan" /\ trigger.rescan = 0
    /\ \E s \in Scan : InsertScan(s, By(c)) /\ check' = [check EXCEPT ![c] = [@ EXCEPT !.pc = "submitted", !.scan = s]]
    /\ UNCHANGED <<trigger, loopVars, outboxVars>>

RememberRescan(c) ==
    /\ check[c].pc = "submitted" /\ posting[check[c].scan] = "none"
    /\ trigger' = [trigger EXCEPT !.rescan = check[c].scan, !.due = FALSE]
    /\ check' = [check EXCEPT ![c] = NoCheck]
    /\ UNCHANGED <<loopVars, scanVars, outboxVars>>

LooksAtRescan(c) == IsChecked(c) /\ ~IsMaxedOut /\ env.trigger = "rescan" /\ trigger.rescan # 0

RescanIsPending(c) ==
    /\ LooksAtRescan(c) /\ scan[trigger.rescan] \in {"queued", "running"}
    /\ trigger' = [trigger EXCEPT !.due = FALSE]
    /\ UNCHANGED <<check, loopVars, scanVars, outboxVars>>

(* Mutant of RescanIsDropped: a failed scan is waited for like one that runs. *)
RescanIsKept(c) ==
    /\ LooksAtRescan(c) /\ scan[trigger.rescan] \in Ended
    /\ trigger' = [trigger EXCEPT !.due = FALSE,
                                  !.rescan = IF scan[trigger.rescan] = "failed" THEN @ ELSE 0]
    /\ UNCHANGED <<check, loopVars, scanVars, outboxVars>>

\* The scan has failed, has no score or a score below the threshold.
RescanIsDropped(c) ==
    /\ LooksAtRescan(c) /\ scan[trigger.rescan] \in Ended
    /\ trigger' = [trigger EXCEPT !.due = FALSE, !.rescan = 0]
    /\ UNCHANGED <<check, loopVars, scanVars, outboxVars>>

RescanMatches(c) ==
    /\ LooksAtRescan(c) /\ scan[trigger.rescan] = "succeeded"
    /\ Matches(c)
    /\ UNCHANGED <<loopVars, scanVars>>

\* After the inline delivery; the count is added to in the database.
CountTrigger(c) ==
    /\ Acts(c) /\ check[c].pc = "dispatched"
    /\ \/ trigger' = [trigger EXCEPT !.count = @ + 1, !.due = FALSE, !.cooling = TRUE, !.rescan = 0]
       \/ (env.faults \/ env.prune) /\ UNCHANGED trigger
    /\ check' = [check EXCEPT ![c] = NoCheck]
    /\ UNCHANGED <<loopVars, scanVars, outboxVars>>

(***************************************************************************)
(* run_scan_loop_instance.  What is left of the budgets of the day is      *)
(* computed from the items of earlier rounds, before the symbols are       *)
(* evaluated; the items of this round are written symbol by symbol.        *)
(***************************************************************************)
LoopGetsDue ==
    /\ env.loop # "none" /\ ~loop.due
    /\ loop' = [loop EXCEPT !.due = TRUE]
    /\ UNCHANGED <<trigger, check, round, asked, alerted>>

Left(budget, used) == IF used < budget THEN budget - used ELSE 0

IsRoundStart ==
    /\ Acts("looper") /\ round = NoRound
    /\ loop.due

MarketIsClosed ==
    /\ IsRoundStart
    /\ loop' = [loop EXCEPT !.due = FALSE]
    /\ UNCHANGED <<trigger, check, round, asked, alerted, scanVars, outboxVars>>

(* Every policy selects among what the rules matched, at most what the budget
   leaves. *)
Selections == {select \in SUBSET env.symbols : Cardinality(select) <= Left(AiBudget, loop.scans)}

StartRound ==
    /\ IsRoundStart
    /\ \E select \in Selections, raise \in SUBSET env.symbols :
        round' = [NoRound EXCEPT !.pc = "select", !.select = select, !.raise = raise,
                                 !.alerts = Left(AlertBudget, loop.alerts)]
    /\ UNCHANGED <<trigger, check, loop, asked, alerted, scanVars, outboxVars>>

Submitted == round.scan # 0 => posting[round.scan] = "none"

SubmitLoopScan ==
    /\ Acts("looper") /\ round.pc = "select" /\ Submitted
    /\ \E symbol \in round.select, s \in Scan :
        /\ InsertScan(s, Home)
        /\ round' = [round EXCEPT !.select = @ \ {symbol}, !.scanned = @ \union {symbol}, !.scan = s]
    /\ asked' = asked + 1
    /\ UNCHANGED <<trigger, check, loop, alerted, outboxVars>>

SelectionIsDone ==
    /\ Acts("looper") /\ round.pc = "select" /\ round.select = {} /\ Submitted
    /\ round' = [round EXCEPT !.pc = "alert", !.scan = 0]
    /\ UNCHANGED <<trigger, check, loop, asked, alerted, scanVars, outboxVars>>

(* Mutant of Recorded: the items forget which of them were scanned. *)
RecordedWithoutScans(symbol, raised) ==
    [loop EXCEPT !.alerts = IF raised THEN @ + 1 ELSE @]

(* _insert_loop_item: the row that the usage of the day is counted from. *)
Recorded(symbol, raised) ==
    [loop EXCEPT !.scans = IF symbol \in round.scanned THEN @ + 1 ELSE @,
                 !.alerts = IF raised THEN @ + 1 ELSE @]

(* The key of an alert of the loop holds the id of the round: no earlier event
   has it.  There are as many as there are keys left (a bound). *)
RaisesAlert ==
    /\ env.times + alerted + 1 \in Key
    /\ CreateAndDispatch("looper", env.times + alerted + 1)
    /\ alerted' = alerted + 1

(* One symbol: an alert of its own while the budget lasts, a place in the
   digest, or an item that only says what was seen. *)
NextSymbol(symbol) ==
    /\ Acts("looper") /\ round.pc = "alert"
    /\ symbol \in round.raise \union round.scanned
    /\ LET raised == symbol \in round.raise /\ round.alerts > 0
       IN  /\ loop' = Recorded(symbol, raised)
           /\ IF raised /\ env.loop = "alerts" THEN RaisesAlert ELSE UNCHANGED <<outboxVars, alerted>>
           /\ round' = [round EXCEPT !.raise = @ \ {symbol}, !.scanned = @ \ {symbol},
                                     !.alerts = IF raised /\ env.loop = "alerts" THEN @ - 1 ELSE @,
                                     !.digest = @ \/ (raised /\ env.loop = "digest")]
    /\ UNCHANGED <<trigger, check, asked, scanVars>>

SymbolsAreDone ==
    Acts("looper") /\ round.pc = "alert" /\ round.raise = {} /\ round.scanned = {}

SendDigest ==
    /\ SymbolsAreDone /\ round.digest
    /\ RaisesAlert
    /\ round' = [round EXCEPT !.digest = FALSE]
    /\ UNCHANGED <<trigger, check, loop, asked, scanVars>>

EndRound ==
    /\ SymbolsAreDone /\ ~round.digest
    /\ round' = NoRound
    /\ loop' = [loop EXCEPT !.due = FALSE]
    /\ UNCHANGED <<trigger, check, asked, alerted, scanVars, outboxVars>>

\* An exception leaves the instance due: the next tick begins again.
RoundFails ==
    /\ env.faults /\ Acts("looper") /\ round.pc # "idle" /\ Submitted
    /\ round' = NoRound
    /\ UNCHANGED <<trigger, check, loop, asked, alerted, scanVars, outboxVars>>

\* What the death of Home takes away: the check and the round in progress.
ObservationDies(n) ==
    /\ check' = IF n = Home THEN [check EXCEPT !["monitor"] = NoCheck] ELSE check
    /\ round' = IF n = Home THEN NoRound ELSE round
    /\ UNCHANGED <<trigger, loop, asked, alerted>>

=============================================================================
