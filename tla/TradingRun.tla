----------------------------- MODULE TradingRun -----------------------------
(***************************************************************************)
(* The scheduler of the single-instance mode, which starts a trading run   *)
(* once a day, and the run in the executor of its process: it selects      *)
(* contracts and buys them one after the other, each in a few attempts     *)
(* with a journal of what was sent.  What came of it is written at the     *)
(* end.                                                                    *)
(***************************************************************************)
EXTENDS WorkerProcess

CONSTANTS
    Wanted,      \* contracts of an entry order
    RunAttempts, \* attempts of a limit order
    MaxPicks,    \* bound: entries of a run
    MaxStarted   \* bound: runs of the day

(***************************************************************************)
(* "slices": entry orders fill in parts.  "late": a cancel is a request    *)
(* that the order may outrun.  "refuses": orders may be refused.  "stops": *)
(* the broker takes stop orders.  "forgets": rows of the journal are lost. *)
(***************************************************************************)
ASSUME TradingRunAssumption ==
    /\ Wanted \in Nat \ {0} /\ RunAttempts \in Nat \ {0}
    /\ MaxPicks \in Nat /\ MaxStarted \in Nat /\ "lost" \notin Node
    /\ \A e \in Environment :
        /\ e.schedulers \subseteq Node /\ e.picks \in 1..MaxPicks /\ e.runs \in 0..MaxStarted
        /\ e.broker \subseteq {"slices", "late", "refuses", "stops", "forgets"}

VARIABLES
    ranToday,   \* last_run_date_et is today
    scheduler,  \* who may release the lock of the scheduler, "lost" when nobody can
    scheduling, \* what the scheduler of each process does
    run,        \* the runs: their rows, and how far the thread is that executes each
    buys        \* the entry orders at the broker, in order of submission

runVars == <<ranToday, scheduler, scheduling, run, buys>>

RunId == 1..MaxStarted
Pick == 1..MaxPicks
BuyId == 1..(MaxStarted * MaxPicks * RunAttempts)

Buy == [run : RunId, pick : Pick, filled : 0..Wanted,
        state : {"working", "canceling", "filled", "canceled", "rejected"}]
EntryRecord == [is : {"none", "failed", "terminal", "pending", "partial", "stopped", "soft"},
                order : Nat, guarded : 0..Wanted]
RunPc == {"none", "queued", "begins", "selects", "looks", "submits", "waits", "cancels", "protects",
          "finishes", "raised", "forced", "over"}

RunTypeOK ==
    /\ ranToday \in BOOLEAN
    /\ scheduler \in Node \union {"none", "lost"}
    /\ scheduling \in [Node -> {"idle", "leads", "due", "started", "ends"}]
    /\ run \in [RunId ->
          [on : Node \union {"none"}, pc : RunPc,
           status : {"none", "queued", "running", "succeeded", "failed"}, saved : BOOLEAN,
           records : [Pick -> EntryRecord], pick : 0..MaxPicks, tries : 0..RunAttempts,
           order : Nat, seen : 0..Wanted, dead : BOOLEAN,
           journal : [is : {"none", "before", "after"}, order : Nat]]]
    /\ buys \in Seq(Buy) /\ Len(buys) \in {0} \union BuyId

Unwritten == [is |-> "none", order |-> 0]
NoEntry == [is |-> "none", order |-> 0, guarded |-> 0]
NoRun ==
    [on |-> "none", pc |-> "none", status |-> "none", saved |-> FALSE,
     records |-> [p \in Pick |-> NoEntry], pick |-> 0, tries |-> 0,
     order |-> 0, seen |-> 0, dead |-> FALSE, journal |-> Unwritten]

RunInit ==
    /\ ranToday = FALSE
    /\ scheduler = "none"
    /\ scheduling = [n \in Node |-> "idle"]
    /\ run = [r \in RunId |-> NoRun]
    /\ buys = <<>>

(***************************************************************************)
(* _tick, on a trading day at the time of the run.                         *)
(***************************************************************************)
Schedules(n, to) == scheduling' = [scheduling EXCEPT ![n] = to]

LeadSchedule(n) ==
    /\ IsUp(n) /\ n \in env.schedulers /\ scheduling[n] = "idle"
    /\ \E up \in Answers : IF up THEN scheduler = "none" /\ scheduler' = n ELSE UNCHANGED scheduler
    /\ Schedules(n, "leads")
    /\ UNCHANGED <<ranToday, run, buys>>

ReadConfig(n) ==
    /\ scheduling[n] = "leads"
    /\ Schedules(n, IF ranToday THEN "ends" ELSE "due")
    /\ UNCHANGED <<ranToday, scheduler, run, buys>>

\* Blockers, or an account that is not ready: another tick will try again.
StartIsBlocked(n) ==
    /\ scheduling[n] = "due"
    /\ Schedules(n, "ends")
    /\ UNCHANGED <<ranToday, scheduler, run, buys>>

StartRun(n) ==
    /\ scheduling[n] = "due"
    /\ \E r \in 1..env.runs :
        /\ \A s \in RunId : run[s].pc = "none" <=> s >= r
        /\ run' = [run EXCEPT ![r].on = n, ![r].pc = "queued", ![r].status = "queued"]
    /\ Schedules(n, "started")
    /\ UNCHANGED <<ranToday, scheduler, buys>>

SetLastRunDate(n) ==
    /\ scheduling[n] = "started"
    /\ ranToday' = TRUE \/ (env.faults /\ UNCHANGED ranToday)
    /\ Schedules(n, "ends")
    /\ UNCHANGED <<scheduler, run, buys>>

\* The lock is released with the token.
EndSchedule(n) ==
    /\ scheduling[n] = "ends"
    /\ \E up \in Answers :
          scheduler' = IF scheduler # n THEN scheduler ELSE IF up THEN "none" ELSE "lost"
    /\ Schedules(n, "idle")
    /\ UNCHANGED <<ranToday, run, buys>>

\* After 55 seconds, which a tick over many configurations may outlast.
SchedulerLapses ==
    /\ scheduler # "none"
    /\ env.slow \/ scheduler = "lost"
    /\ scheduler' = "none"
    /\ UNCHANGED <<ranToday, scheduling, run, buys>>

-----------------------------------------------------------------------------
(***************************************************************************)
(* execute_trading_run.                                                    *)
(***************************************************************************)
RunAt(r, pc) == run[r].pc = pc
RunGoes(r, pc) == run' = [run EXCEPT ![r].pc = pc]

(* Without Redis a run refuses to run.  With Redis it takes its own lock, and
   is left as it is when that cannot be had. *)
TakeUp(r) ==
    /\ RunAt(r, "queued")
    /\ \/ TRUE \in Answers /\ RunGoes(r, "begins")
       \/ env.flaps /\ RunGoes(r, "over")
       \/ /\ FALSE \in Answers
          /\ \E status \in {"failed"} \union (IF env.faults THEN {"queued"} ELSE {}) :
                run' = [run EXCEPT ![r].pc = "over", ![r].status = status]
    /\ UNCHANGED <<ranToday, scheduler, scheduling, buys>>

BeginRun(r) ==
    /\ RunAt(r, "begins")
    /\ \/ run' = [run EXCEPT ![r].pc = "selects", ![r].status = "running"]
       \/ env.faults /\ RunGoes(r, "raised")
    /\ UNCHANGED <<ranToday, scheduler, scheduling, buys>>

\* Scan, ranking, gates and risk breakers choose what to buy, or nothing; or one of them raises.
Select(r) ==
    /\ RunAt(r, "selects")
    /\ \/ run' = [run EXCEPT ![r].pc = "looks", ![r].pick = 1]
       \/ RunGoes(r, "finishes")
       \/ env.faults /\ RunGoes(r, "raised")
    /\ UNCHANGED <<ranToday, scheduler, scheduling, buys>>

(***************************************************************************)
(* _submit_orders: one entry after the other.                              *)
(***************************************************************************)
Living(k) == buys[k].state \in {"working", "canceling"}
DeadOrder(k) == buys[k].state \in {"canceled", "rejected"}

\* An exception ends the entry, and not the others.
Enter(r, entry) ==
    LET done == [run[r] EXCEPT !.records[run[r].pick] = entry, !.tries = 0, !.order = 0,
                               !.seen = 0, !.dead = FALSE, !.journal = Unwritten]
    IN  IF run[r].pick < env.picks THEN [done EXCEPT !.pc = "looks", !.pick = @ + 1]
                                   ELSE [done EXCEPT !.pc = "finishes"]

EntryIs(r, is, order, guarded) ==
    run' = [run EXCEPT ![r] = Enter(r, [is |-> is, order |-> order, guarded |-> guarded])]

EntryFailed(r) == EntryIs(r, "failed", 0, 0)

(* Mutant of TakesOver: an order that rests is not taken over, as its cancel was sent. *)
TakesOverFilled(journal) == journal.is = "after" /\ buys[journal.order].filled > 0

\* The last attempt's order is still there, or has filled after all.
TakesOver(journal) ==
    journal.is = "after" /\ ~(DeadOrder(journal.order) /\ buys[journal.order].filled = 0)

Sees(r, k) ==
    run' = [run EXCEPT ![r].order = k, ![r].seen = buys[k].filled, ![r].dead = DeadOrder(k),
                       ![r].pc = IF buys[k].filled > 0 THEN "protects" ELSE "cancels"]

\* No quote to be trusted, or too little money for one contract.
SkipBuy(r) ==
    /\ RunAt(r, "looks") /\ run[r].tries = 0
    /\ EntryFailed(r)
    /\ UNCHANGED <<ranToday, scheduler, scheduling, buys>>

(* _reconcile_recent_strategy_submission: all attempts of an entry have one key,
   so an attempt finds the one before in the journal. *)
LookIntoJournal(r) ==
    /\ RunAt(r, "looks")
    /\ LET journal == run[r].journal
       IN  \/ journal.is = "before" /\ EntryFailed(r)
           \/ env.faults /\ journal.is = "after" /\ EntryFailed(r)
           \/ TakesOver(journal) /\ Sees(r, journal.order)
           \/ journal.is # "before" /\ ~TakesOver(journal) /\ RunGoes(r, "submits")
    /\ UNCHANGED <<ranToday, scheduler, scheduling, buys>>

Before(r) == [run[r].journal EXCEPT !.is = "before"]
NewBuy(r) == [run |-> r, pick |-> run[r].pick, filled |-> 0, state |-> "working"]

SubmitBuy(r) ==
    /\ RunAt(r, "submits")
    /\ buys' = Append(buys, NewBuy(r))
    /\ \E journal \in {[is |-> "after", order |-> Len(buys) + 1]} \union
                      (IF "forgets" \in env.broker THEN {run[r].journal, Before(r)} ELSE {}) :
          run' = [run EXCEPT ![r].pc = "waits", ![r].order = Len(buys) + 1, ![r].journal = journal]
    /\ UNCHANGED <<ranToday, scheduler, scheduling>>

\* A call that raises may have been executed.
SubmitRaises(r) ==
    /\ RunAt(r, "submits")
    /\ env.faults \/ "refuses" \in env.broker
    /\ EntryFailed(r)
    /\ UNCHANGED buys \/ (env.faults /\ buys' = Append(buys, NewBuy(r)))
    /\ UNCHANGED <<ranToday, scheduler, scheduling>>

\* It is filled, or it has ended, or the seconds to wait have passed.
WaitForFill(r) ==
    /\ RunAt(r, "waits")
    /\ \/ Sees(r, run[r].order)
       \/ env.faults /\ EntryFailed(r)
    /\ UNCHANGED <<ranToday, scheduler, scheduling, buys>>

(* Mutant of UnfilledIs: what was canceled is taken for ended. *)
UnfilledIsOver(r) == "terminal"

\* What the wait has seen decides; whether the cancel went through is not looked at.
UnfilledIs(r) == IF run[r].dead THEN "terminal" ELSE "pending"

CancelBuy(r) ==
    /\ RunAt(r, "cancels")
    /\ \/ buys' = [buys EXCEPT ![run[r].order].state =
              IF @ # "working" THEN @ ELSE IF "late" \in env.broker THEN "canceling" ELSE "canceled"]
       \/ env.faults /\ UNCHANGED buys
    /\ \/ /\ run[r].tries + 1 < RunAttempts
          /\ run' = [run EXCEPT ![r].pc = "looks", ![r].tries = @ + 1]
       \/ EntryIs(r, UnfilledIs(r), run[r].order, 0)    \* a market order, the last attempt, or no quote
    /\ UNCHANGED <<ranToday, scheduler, scheduling>>

(* A stop at the broker for what has filled; the monitor waits for the rest.
   Where that is refused or fails, a software stop for what has filled. *)
ProtectBuy(r) ==
    /\ RunAt(r, "protects")
    /\ \/ /\ "stops" \in env.broker
          /\ EntryIs(r, IF run[r].seen < Wanted THEN "partial" ELSE "stopped", run[r].order, run[r].seen)
       \/ /\ "stops" \notin env.broker \/ env.faults
          /\ EntryIs(r, "soft", run[r].order, run[r].seen)
    /\ UNCHANGED <<ranToday, scheduler, scheduling, buys>>

(***************************************************************************)
(* The end: the orders are written with the outcome.  When that fails, the *)
(* failure is written without them, and when that fails as well, once more *)
(* if the row says that the run is running.                                *)
(***************************************************************************)
Outcomes(r) ==
    IF run[r].pick = 0 THEN {"succeeded", "failed"}
    ELSE IF \E p \in Pick : run[r].records[p].is \in {"pending", "partial", "stopped", "soft"}
         THEN {"succeeded"} ELSE {"failed"}

FinishRun(r) ==
    /\ RunAt(r, "finishes")
    /\ \/ \E status \in Outcomes(r) :
             run' = [run EXCEPT ![r].pc = "over", ![r].status = status, ![r].saved = TRUE]
       \/ env.faults /\ RunGoes(r, "raised")
    /\ UNCHANGED <<ranToday, scheduler, scheduling, buys>>

RunFails(r) ==
    /\ RunAt(r, "raised")
    /\ \/ run' = [run EXCEPT ![r].pc = "over", ![r].status = "failed"]
       \/ env.faults /\ RunGoes(r, "forced")
    /\ UNCHANGED <<ranToday, scheduler, scheduling, buys>>

ForceFinish(r) ==
    /\ RunAt(r, "forced")
    /\ \E forced \in BOOLEAN :
        /\ forced => run[r].status = "running"
        /\ run' = [run EXCEPT ![r].pc = "over", ![r].status = IF forced THEN "failed" ELSE @]
    /\ UNCHANGED <<ranToday, scheduler, scheduling, buys>>

-----------------------------------------------------------------------------
(* The broker *)

BuyFills(k) ==
    /\ Living(k)
    /\ \E filled \in IF "slices" \in env.broker THEN buys[k].filled + 1 .. Wanted ELSE {Wanted} :
          buys' = [buys EXCEPT ![k].filled = filled,
                               ![k].state = IF filled = Wanted THEN "filled" ELSE @]
    /\ UNCHANGED <<ranToday, scheduler, scheduling, run>>

BuyIsRefused(k) ==
    /\ "refuses" \in env.broker /\ buys[k].state = "working"
    /\ buys' = [buys EXCEPT ![k].state = IF buys[k].filled = 0 THEN "rejected" ELSE "canceled"]
    /\ UNCHANGED <<ranToday, scheduler, scheduling, run>>

BuyIsCanceled(k) ==
    /\ buys[k].state = "canceling"
    /\ buys' = [buys EXCEPT ![k].state = "canceled"]
    /\ UNCHANGED <<ranToday, scheduler, scheduling, run>>

RunsDie(n) ==
    /\ scheduler' = IF scheduler = n THEN "lost" ELSE scheduler
    /\ scheduling' = [scheduling EXCEPT ![n] = "idle"]
    /\ run' = [r \in RunId |-> IF run[r].on = n THEN [run[r] EXCEPT !.pc = "over"] ELSE run[r]]
    /\ UNCHANGED <<ranToday, buys>>

=============================================================================
