---------------------------- MODULE Worker_proofs ----------------------------
(***************************************************************************)
(* Proofs about the daily run and the automatic trading loop inside        *)
(* Worker, for any number of processes, instances, runs, entries and       *)
(* attempts, any cap, any number of days, any presses of the users, any    *)
(* broker and any failures.  An entry of the daily run never has two       *)
(* orders that have bought something or may still, as long as the journal  *)
(* keeps its rows, and no two runs buy on a day on which nothing fails; an *)
(* instance runs no cycle that nothing made due, and the cycles of a day   *)
(* place no more orders than the cap allows.  At the end, the types of the *)
(* whole worker, with what WorkerShared_proofs shows of its other parts.   *)
(***************************************************************************)
EXTENDS WorkerShared_proofs, Sums

-----------------------------------------------------------------------------
(* Steps: what they are for the daily run. *)

\* Nothing runs before the first step.
LEMMA InitialRun == Init => ProcessInit /\ RunInit
BY DEF Init

\* A step is one of the daily run, leaves it alone, or is the death of a process.
LEMMA RunCases ==
    [Next]_vars => \/ TradingNext
                   \/ UNCHANGED <<env, crashes, runVars>>
                   \/ \E n \in Node : Dies(n) /\ RunsDie(n)
<1> SUFFICES ASSUME [Next]_vars, ~TradingNext
             PROVE  \/ UNCHANGED <<env, crashes, runVars>>
                    \/ \E n \in Node : Dies(n) /\ RunsDie(n)
  OBVIOUS
<1>1. CASE StartNext
  BY <1>1 DEF StartNext, Start, ListQueued, Requeue, Requeued, processVars
<1>2. CASE ScanNext \/ OutboxNext \/ ObservationNext \/ ReviewNext \/ AutoNext \/ PoolNext \/ CacheNext
  BY <1>2 DEF ScanNext, OutboxNext, ObservationNext, ReviewNext, AutoNext, PoolNext, CacheNext, processVars
<1>3. CASE TimeNext
  BY <1>3 DEF TimeNext, processVars
<1>4. ASSUME NEW n \in Node, Crash(n) PROVE \E m \in Node : Dies(m) /\ RunsDie(m)
  BY <1>4 DEF Crash
<1>5. CASE UNCHANGED vars
  BY <1>5 DEF vars, processVars
<1>. QED
  BY <1>1, <1>2, <1>3, <1>4, <1>5 DEF Next

-----------------------------------------------------------------------------
(* Types, with what they need: the order a run looks at was submitted. *)

RunRow ==
    [on : Node \union {"none"}, pc : RunPc,
     status : {"none", "queued", "running", "succeeded", "failed"}, saved : BOOLEAN,
     records : [Pick -> EntryRecord], pick : 0..MaxPicks, tries : 0..RunAttempts,
     order : Nat, seen : 0..Wanted, dead : BOOLEAN,
     journal : [is : {"none", "before", "after"}, order : Nat]]

Buying(pc) == pc \in {"looks", "submits", "waits", "cancels", "protects"}
NotYet(pc) == pc \in {"none", "queued", "begins", "selects"}
OrderIsOut(pc) == pc \in {"waits", "cancels", "protects"}

RowIsSound(it, submitted) ==
    /\ Buying(it.pc) => it.pick # 0 /\ it.pick <= env.picks /\ it.tries < RunAttempts
    /\ OrderIsOut(it.pc) => it.order \in submitted
    /\ it.journal.is = "after" => it.journal.order \in submitted
    /\ NotYet(it.pc) => it.pick = 0 /\ it.tries = 0 /\ it.journal.is = "none"

RunTypes ==
    /\ env \in Environment /\ crashes \in 0..env.crashes
    /\ ranToday \in BOOLEAN
    /\ scheduler \in Node \union {"none", "lost"}
    /\ scheduling \in [Node -> {"idle", "leads", "due", "started", "ends"}]
    /\ run \in [RunId -> RunRow]
    /\ buys \in Seq(Buy)
    /\ \A r \in RunId : RowIsSound(run[r], DOMAIN buys)

LEMMA EnvFacts ==
    ASSUME env \in Environment
    PROVE  /\ env.crashes \in Nat /\ env.picks \in 1..MaxPicks /\ env.runs \in 0..MaxStarted
           /\ env.schedulers \subseteq Node
           /\ \A flag \in {"redis", "flaps", "quick", "slow", "faults"} : env[flag] \in BOOLEAN
BY NodeAssumption, TradingRunAssumption DEF NodeAssumption, TradingRunAssumption

LEMMA RunTypesInit == Init => RunTypes
<1> SUFFICES ASSUME Init PROVE RunTypes
  OBVIOUS
<1>0. ProcessInit /\ RunInit /\ env \in Environment
  BY InitialRun DEF ProcessInit
<1>1. env.crashes \in Nat
  BY <1>0, EnvFacts
<1>2. 0 \in 0..MaxPicks /\ 0 \in 0..RunAttempts /\ 0 \in 0..Wanted
  BY TradingRunAssumption DEF TradingRunAssumption
<1>3. NoEntry \in EntryRecord
  BY <1>2 DEF NoEntry, EntryRecord
<1>4. NoRun \in RunRow
  BY <1>2, <1>3 DEF NoRun, RunRow, RunPc, Unwritten
<1>5. RowIsSound(NoRun, DOMAIN buys)
  BY DEF RowIsSound, NoRun, Buying, NotYet, OrderIsOut, Unwritten
<1>6. run = [r \in RunId |-> NoRun] /\ \A r \in RunId : run[r] = NoRun
  BY <1>0 DEF RunInit
<1>7. crashes \in 0..env.crashes
  BY <1>0, <1>1 DEF ProcessInit
<1>8. scheduling \in [Node -> {"idle", "leads", "due", "started", "ends"}] /\ buys \in Seq(Buy)
  BY <1>0 DEF RunInit
<1>9. run \in [RunId -> RunRow] /\ \A r \in RunId : RowIsSound(run[r], DOMAIN buys)
  BY <1>4, <1>5, <1>6
<1>. QED
  BY <1>0, <1>7, <1>8, <1>9 DEF RunTypes, RunInit

\* A run that is done with an entry goes on to the next one, with a new journal, or to its end.
LEMMA EnterIs ==
    ASSUME RunTypes, NEW r \in RunId, Buying(run[r].pc), NEW entry \in EntryRecord
    PROVE  /\ Enter(r, entry) \in RunRow
           /\ Enter(r, entry).journal = Unwritten
           /\ Enter(r, entry).tries = 0 /\ Enter(r, entry).on = run[r].on
           /\ \/ /\ Enter(r, entry).pc = "looks" /\ Enter(r, entry).pick = run[r].pick + 1
                 /\ Enter(r, entry).pick <= env.picks
              \/ Enter(r, entry).pc = "finishes" /\ Enter(r, entry).pick = run[r].pick
<1> DEFINE old == run[r]
           records == [old.records EXCEPT ![old.pick] = entry]
           done == [old EXCEPT !.records = records, !.tries = 0, !.order = 0,
                               !.seen = 0, !.dead = FALSE, !.journal = Unwritten]
<1>1. old \in RunRow /\ RowIsSound(old, DOMAIN buys) /\ env.picks \in 1..MaxPicks
  BY EnvFacts DEF RunTypes
<1>2. Wanted \in Nat /\ RunAttempts \in Nat /\ MaxPicks \in Nat
  BY TradingRunAssumption DEF TradingRunAssumption
<1>3. old.pick \in Nat /\ old.pick # 0 /\ old.pick <= env.picks
  BY <1>1, <1>2 DEF RowIsSound, RunRow
<1>4. records \in [Pick -> EntryRecord]
  BY <1>1 DEF RunRow
<1>5. Enter(r, entry) = IF old.pick < env.picks THEN [done EXCEPT !.pc = "looks", !.pick = @ + 1]
                                                ELSE [done EXCEPT !.pc = "finishes"]
  BY DEF Enter
<1> HIDE DEF old, records
<1>6. done \in RunRow /\ done.pick = old.pick /\ done.journal = Unwritten /\ done.tries = 0 /\ done.on = old.on
  <2>1. 0 \in 0..RunAttempts /\ 0 \in 0..Wanted /\ 0 \in Nat
    BY <1>2
  <2>2. Unwritten \in [is : {"none", "before", "after"}, order : Nat]
    BY DEF Unwritten
  <2>3. [old EXCEPT !.records = records, !.tries = 0, !.order = 0] \in RunRow
    BY ONLY <1>1, <1>4, <2>1 DEF RunRow
  <2>4. done = [[old EXCEPT !.records = records, !.tries = 0, !.order = 0]
                   EXCEPT !.seen = 0, !.dead = FALSE, !.journal = Unwritten]
    OBVIOUS
  <2>5. done \in RunRow
    BY ONLY <2>1, <2>2, <2>3, <2>4 DEF RunRow
  <2>. QED
    BY ONLY <1>1, <2>5 DEF RunRow
<1> HIDE DEF done
<1>7. CASE old.pick < env.picks
  <2>1. Enter(r, entry) = [done EXCEPT !.pc = "looks", !.pick = old.pick + 1]
    BY <1>5, <1>6, <1>7
  <2>2. old.pick + 1 \in 0..MaxPicks /\ old.pick + 1 <= env.picks
    BY <1>1, <1>2, <1>3, <1>7
  <2>3. /\ [done EXCEPT !.pc = "looks", !.pick = old.pick + 1] \in RunRow
        /\ [done EXCEPT !.pc = "looks", !.pick = old.pick + 1].pc = "looks"
        /\ [done EXCEPT !.pc = "looks", !.pick = old.pick + 1].pick = old.pick + 1
        /\ [done EXCEPT !.pc = "looks", !.pick = old.pick + 1].journal = Unwritten
        /\ [done EXCEPT !.pc = "looks", !.pick = old.pick + 1].tries = 0
        /\ [done EXCEPT !.pc = "looks", !.pick = old.pick + 1].on = old.on
    BY ONLY <1>6, <2>2 DEF RunRow, RunPc
  <2>. QED
    BY <2>1, <2>2, <2>3 DEF old
<1>8. CASE ~(old.pick < env.picks)
  <2>1. Enter(r, entry) = [done EXCEPT !.pc = "finishes"]
    BY <1>5, <1>8
  <2>2. /\ [done EXCEPT !.pc = "finishes"] \in RunRow
        /\ [done EXCEPT !.pc = "finishes"].pc = "finishes"
        /\ [done EXCEPT !.pc = "finishes"].pick = old.pick
        /\ [done EXCEPT !.pc = "finishes"].journal = Unwritten
        /\ [done EXCEPT !.pc = "finishes"].tries = 0
        /\ [done EXCEPT !.pc = "finishes"].on = old.on
    BY ONLY <1>6 DEF RunRow, RunPc
  <2>. QED
    BY <2>1, <2>2 DEF old
<1>. QED
  BY <1>7, <1>8

\* What a step of a run has to keep for the types.
LEMMA TypesFollow ==
    ASSUME RunTypes, NEW r \in RunId, NEW new \in RunRow,
           run' = [run EXCEPT ![r] = new],
           UNCHANGED <<env, crashes, ranToday, scheduler, scheduling>>,
           buys' \in Seq(Buy), DOMAIN buys \subseteq DOMAIN buys',
           RowIsSound(new, DOMAIN buys')
    PROVE  RunTypes'
<1>1. run' \in [RunId -> RunRow] /\ run'[r] = new /\ \A s \in RunId \ {r} : run'[s] = run[s]
  BY DEF RunTypes
<1>2. ASSUME NEW s \in RunId PROVE RowIsSound(run[s], DOMAIN buys)'
  <2>1. CASE s = r
    BY <1>1, <2>1 DEF RowIsSound
  <2>2. CASE s # r
    BY <1>1, <2>2 DEF RowIsSound, RunTypes
  <2>. QED
    BY <2>1, <2>2
<1>. QED
  BY <1>1, <1>2 DEF RunTypes

\* New orders go to the end; the others are changed by nobody but the broker.
LEMMA SubmissionAdds ==
    ASSUME RunTypes, NEW r \in RunId, Buying(run[r].pc), buys' = Append(buys, NewBuy(r))
    PROVE  /\ buys' \in Seq(Buy) /\ DOMAIN buys \subseteq DOMAIN buys'
           /\ DOMAIN buys' = DOMAIN buys \union {Len(buys) + 1} /\ Len(buys) + 1 \notin DOMAIN buys
           /\ buys'[Len(buys) + 1] = NewBuy(r) /\ \A k \in DOMAIN buys : buys'[k] = buys[k]
<1>1. NewBuy(r) \in Buy
  <2>1. run[r].pick \in Pick /\ 0 \in 0..Wanted
    BY TradingRunAssumption DEF RunTypes, RunRow, RowIsSound, TradingRunAssumption, Pick
  <2>. QED
    BY <2>1 DEF NewBuy, Buy
<1>2. buys \in Seq(Buy) /\ Len(buys) \in Nat /\ DOMAIN buys = 1..Len(buys)
  BY DEF RunTypes
<1> HIDE DEF NewBuy, Buy
<1>. QED
  BY <1>1, <1>2

(***************************************************************************)
(* The steps of a run, by what they do to its row and to the orders.       *)
(***************************************************************************)
KeepsEntry(old, new) == new.pick = old.pick /\ new.tries = old.tries /\ new.journal = old.journal

\* Before it buys, and after.
IsOutside(old, new) ==
    /\ ~Buying(old.pc) /\ ~Buying(new.pc) /\ old.pc \notin {"none", "over"} /\ new.pc # "none"
    /\ KeepsEntry(old, new) /\ (NotYet(new.pc) => NotYet(old.pc))
    /\ old.pc = "queued" => new.pc = "over" \/ TRUE \in Answers
    /\ buys' = buys

IsFirst(old, new) ==
    /\ old.pc = "selects" /\ new.pc = "looks" /\ new.pick = 1
    /\ new.tries = old.tries /\ new.journal = old.journal
    /\ buys' = buys

\* The entry is done, as EnterIs has it.
IsDone(old, new) ==
    /\ Buying(old.pc)
    /\ new.journal = Unwritten /\ new.tries = 0
    /\ \/ new.pc = "looks" /\ new.pick = old.pick + 1 /\ new.pick <= env.picks
       \/ new.pc = "finishes" /\ new.pick = old.pick

\* A look at an order: the last attempt's, or the one that was waited for.
IsLook(old, new) ==
    /\ KeepsEntry(old, new) /\ new.pc \in {"protects", "cancels"}
    /\ \/ old.pc = "looks" /\ TakesOver(old.journal) /\ new.order = old.journal.order
       \/ old.pc = "waits" /\ new.order = old.order
    /\ buys' = buys

IsGoAhead(old, new) ==
    /\ KeepsEntry(old, new) /\ new.pc = "submits"
    /\ old.pc = "looks" /\ old.journal.is # "before" /\ ~TakesOver(old.journal)
    /\ buys' = buys

IsSubmission(old, new) ==
    /\ old.pc = "submits" /\ new.pc = "waits" /\ new.pick = old.pick /\ new.tries = old.tries
    /\ new.order = Len(buys) + 1
    /\ \/ new.journal = [is |-> "after", order |-> Len(buys) + 1]
       \/ /\ "forgets" \in env.broker
          /\ new.journal = old.journal \/ new.journal = [old.journal EXCEPT !.is = "before"]

CancelOf(k) ==
    [buys EXCEPT ![k].state =
        IF @ # "working" THEN @ ELSE IF "late" \in env.broker THEN "canceling" ELSE "canceled"]

IsAnotherTry(old, new) ==
    /\ old.pc = "cancels" /\ new.pc = "looks" /\ new.pick = old.pick /\ new.journal = old.journal
    /\ old.tries + 1 < RunAttempts /\ new.tries = old.tries + 1

RunStepKind(r, new) ==
    \/ IsOutside(run[r], new) \/ IsFirst(run[r], new) \/ IsLook(run[r], new) \/ IsGoAhead(run[r], new)
    \/ IsDone(run[r], new) /\ buys' = buys
    \/ IsDone(run[r], new) /\ run[r].pc = "submits" /\ buys' = Append(buys, NewBuy(r))
    \/ IsSubmission(run[r], new) /\ buys' = Append(buys, NewBuy(r))
    \/ /\ IsDone(run[r], new) \/ IsAnotherTry(run[r], new)
       /\ run[r].pc = "cancels" /\ buys' \in {buys, CancelOf(run[r].order)}

RunMoves(r) ==
    \E new \in RunRow :
        /\ run' = [run EXCEPT ![r] = new] /\ new.on = run[r].on
        /\ UNCHANGED <<ranToday, scheduler, scheduling>>
        /\ RunStepKind(r, new)

LEMMA RunMovesIf ==
    ASSUME NEW r \in RunId, NEW new \in RunRow,
           run' = [run EXCEPT ![r] = new], new.on = run[r].on,
           UNCHANGED <<ranToday, scheduler, scheduling>>, RunStepKind(r, new)
    PROVE  RunMoves(r)
BY DEF RunMoves

LEMMA EntryIsDone ==
    ASSUME RunTypes, NEW r \in RunId, Buying(run[r].pc), NEW entry \in EntryRecord
    PROVE  /\ Enter(r, entry) \in RunRow /\ Enter(r, entry).on = run[r].on
           /\ IsDone(run[r], Enter(r, entry))
BY EnterIs DEF IsDone

LEMMA EntryFailedIsDone ==
    ASSUME RunTypes, NEW r \in RunId, Buying(run[r].pc), EntryFailed(r),
           UNCHANGED <<ranToday, scheduler, scheduling>>,
           buys' = buys \/ (run[r].pc = "submits" /\ buys' = Append(buys, NewBuy(r)))
    PROVE  RunMoves(r)
<1> DEFINE entry == [is |-> "failed", order |-> 0, guarded |-> 0]
           new == Enter(r, entry)
<1>1. entry \in EntryRecord
  BY TradingRunAssumption DEF EntryRecord, TradingRunAssumption
<1>2. run' = [run EXCEPT ![r] = new]
  BY DEF EntryFailed, EntryIs
<1> HIDE DEF entry
<1>3. new \in RunRow /\ new.on = run[r].on /\ IsDone(run[r], new)
  BY <1>1, EntryIsDone
<1> HIDE DEF new
<1>4. RunStepKind(r, new)
  BY <1>3 DEF RunStepKind
<1>. QED
  BY <1>2, <1>3, <1>4, RunMovesIf

\* Every step of a run is of one of these kinds.
LEMMA RunStepIs ==
    ASSUME RunTypes, NEW r \in RunId, RunStep(r), env' = env
    PROVE  RunMoves(r)
<1> DEFINE old == run[r]
<1>0. old \in RunRow /\ run \in [RunId -> RunRow] /\ RowIsSound(old, DOMAIN buys)
  BY DEF RunTypes
<1> DEFINE Status == {"none", "queued", "running", "succeeded", "failed"}
           New(pc, status, saved) == [old EXCEPT !.pc = pc, !.status = status, !.saved = saved]
           Outside(pc) == /\ ~Buying(old.pc) /\ ~Buying(pc) /\ old.pc \notin {"none", "over"} /\ pc # "none"
                          /\ NotYet(pc) => NotYet(old.pc)
                          /\ old.pc = "queued" => pc = "over" \/ TRUE \in Answers
<1>a. ASSUME NEW pc \in RunPc, NEW status \in Status, NEW saved \in BOOLEAN
      PROVE  New(pc, status, saved) \in RunRow
  BY ONLY <1>0, <1>a DEF RunRow
<1>b. ASSUME NEW pc \in RunPc, NEW status \in Status, NEW saved \in BOOLEAN,
             run' = [run EXCEPT ![r] = New(pc, status, saved)],
             UNCHANGED <<ranToday, scheduler, scheduling, buys>>, Outside(pc)
      PROVE  RunMoves(r)
  <2> DEFINE new == New(pc, status, saved)
  <2>1. new \in RunRow
    BY <1>a
  <2>2. new.on = old.on /\ KeepsEntry(old, new) /\ new.pc = pc
    BY ONLY <1>0 DEF KeepsEntry, RunRow
  <2>3. IsOutside(old, new)
    BY <1>b, <2>2 DEF IsOutside
  <2> HIDE DEF new
  <2>4. RunStepKind(r, new)
    BY <2>3 DEF RunStepKind
  <2>. QED
    BY <1>b, <2>1, <2>2, <2>4, RunMovesIf DEF new
<1>c. ASSUME NEW pc, NEW status, NEW saved
      PROVE  /\ [run EXCEPT ![r].pc = pc, ![r].status = status, ![r].saved = saved]
                  = [run EXCEPT ![r] = New(pc, status, saved)]
             /\ [run EXCEPT ![r].pc = pc, ![r].status = status]
                  = [run EXCEPT ![r] = New(pc, status, old.saved)]
             /\ [run EXCEPT ![r].pc = pc] = [run EXCEPT ![r] = New(pc, old.status, old.saved)]
  <2>1. /\ [old EXCEPT !.pc = pc] = [old EXCEPT !.pc = pc, !.status = old.status, !.saved = old.saved]
        /\ [old EXCEPT !.pc = pc, !.status = status] = [old EXCEPT !.pc = pc, !.status = status, !.saved = old.saved]
    BY ONLY <1>0 DEF RunRow
  <2>2. /\ [run EXCEPT ![r].pc = pc] = [run EXCEPT ![r] = [old EXCEPT !.pc = pc]]
        /\ [run EXCEPT ![r].pc = pc, ![r].status = status] = [run EXCEPT ![r] = [old EXCEPT !.pc = pc, !.status = status]]
        /\ [run EXCEPT ![r].pc = pc, ![r].status = status, ![r].saved = saved]
              = [run EXCEPT ![r] = [old EXCEPT !.pc = pc, !.status = status, !.saved = saved]]
    <3>1. run \in [RunId -> RunRow] /\ old = run[r]
      BY <1>0
    <3> HIDE DEF old
    <3>. QED
      BY ONLY <3>1
  <2>. QED
    BY ONLY <2>1, <2>2
<1>d. /\ old.pc \in RunPc /\ old.saved \in BOOLEAN /\ old.status \in Status
  BY ONLY <1>0 DEF RunRow
<1>e. ASSUME NEW pc \in RunPc, RunGoes(r, pc), Outside(pc), UNCHANGED <<ranToday, scheduler, scheduling, buys>>
      PROVE  RunMoves(r)
  <2>1. run' = [run EXCEPT ![r] = New(pc, old.status, old.saved)]
    BY <1>c, <1>e DEF RunGoes
  <2> HIDE DEF New, Outside, old
  <2>. QED
    BY <1>b, <1>d, <1>e, <2>1
<1>f. ASSUME NEW pc \in RunPc, NEW status \in Status, Outside(pc),
             run' = [run EXCEPT ![r].pc = pc, ![r].status = status],
             UNCHANGED <<ranToday, scheduler, scheduling, buys>>
      PROVE  RunMoves(r)
  <2>1. run' = [run EXCEPT ![r] = New(pc, status, old.saved)]
    BY <1>c, <1>f
  <2> HIDE DEF New, Outside, old
  <2>. QED
    BY <1>b, <1>d, <1>f, <2>1
<1>g. ASSUME NEW pc \in RunPc, NEW status \in Status, NEW saved \in BOOLEAN, Outside(pc),
             run' = [run EXCEPT ![r].pc = pc, ![r].status = status, ![r].saved = saved],
             UNCHANGED <<ranToday, scheduler, scheduling, buys>>
      PROVE  RunMoves(r)
  <2>1. run' = [run EXCEPT ![r] = New(pc, status, saved)]
    BY <1>c, <1>g
  <2> HIDE DEF New, Outside, old
  <2>. QED
    BY <1>b, <1>g, <2>1
<1> HIDE DEF New
<1> USE DEF RunAt, Buying, NotYet, RunPc
<1>1. CASE TakeUp(r)
  <2>0. UNCHANGED <<ranToday, scheduler, scheduling, buys>> /\ old.pc = "queued"
    BY <1>1 DEF TakeUp
  <2>1. CASE TRUE \in Answers /\ RunGoes(r, "begins")
    BY <2>0, <2>1, <1>e
  <2>2. CASE RunGoes(r, "over")
    BY <2>0, <2>2, <1>e
  <2>3. ASSUME NEW status \in Status, run' = [run EXCEPT ![r].pc = "over", ![r].status = status]
        PROVE  RunMoves(r)
    BY <2>0, <2>3, <1>f
  <2>. QED
    BY <1>1, <2>1, <2>2, <2>3 DEF TakeUp
<1>2. CASE BeginRun(r)
  <2>1. CASE run' = [run EXCEPT ![r].pc = "selects", ![r].status = "running"]
    BY <1>2, <2>1, <1>f DEF BeginRun
  <2>. QED
    BY <1>2, <2>1, <1>e DEF BeginRun
<1>4. CASE SkipBuy(r) \/ SubmitRaises(r)
  BY <1>4, EntryFailedIsDone DEF SkipBuy, SubmitRaises
<1>10. CASE FinishRun(r)
  <2>1. Outcomes(r) \subseteq Status
    BY DEF Outcomes
  <2>2. ASSUME NEW status \in Status, run' = [run EXCEPT ![r].pc = "over", ![r].status = status, ![r].saved = TRUE]
        PROVE  RunMoves(r)
    BY <1>10, <2>2, <1>g DEF FinishRun
  <2>. QED
    BY <1>10, <2>1, <2>2, <1>e DEF FinishRun
<1>11. CASE RunFails(r)
  <2>1. CASE run' = [run EXCEPT ![r].pc = "over", ![r].status = "failed"]
    BY <1>11, <2>1, <1>f DEF RunFails
  <2>. QED
    BY <1>11, <2>1, <1>e DEF RunFails
<1>12. CASE ForceFinish(r)
  <2>1. PICK status \in Status : run' = [run EXCEPT ![r].pc = "over", ![r].status = status]
    <3>1. PICK forced \in BOOLEAN :
             run' = [run EXCEPT ![r].pc = "over", ![r].status = IF forced THEN "failed" ELSE old.status]
      BY <1>12, <1>0 DEF ForceFinish
    <3>. QED
      BY <3>1, <1>d
  <2>. QED
    BY <1>12, <2>1, <1>f DEF ForceFinish
<1>3. CASE Select(r)
  <2>1. CASE run' = [run EXCEPT ![r].pc = "looks", ![r].pick = 1]
    <3> DEFINE new == [old EXCEPT !.pc = "looks", !.pick = 1]
    <3>1. run' = [run EXCEPT ![r] = new]
      BY <1>0, <2>1
    <3>2. 1 \in 0..MaxPicks
      BY EnvFacts, TradingRunAssumption DEF TradingRunAssumption, RunTypes
    <3>3. new \in RunRow /\ new.on = old.on /\ new.pc = "looks" /\ new.pick = 1
          /\ new.tries = old.tries /\ new.journal = old.journal
      BY ONLY <1>0, <3>2 DEF RunRow, RunPc
    <3> HIDE DEF new
    <3>4. IsFirst(old, new)
      BY <1>3, <3>3 DEF IsFirst, Select
    <3>. QED
      BY <1>3, <3>1, <3>3, <3>4, RunMovesIf DEF Select, RunStepKind
  <2>. QED
    BY <1>3, <2>1, <1>e DEF Select
<1>h. ASSUME NEW k \in DOMAIN buys, Sees(r, k), UNCHANGED <<ranToday, scheduler, scheduling, buys>>,
             \/ old.pc = "looks" /\ TakesOver(old.journal) /\ k = old.journal.order
             \/ old.pc = "waits" /\ k = old.order
      PROVE  RunMoves(r)
  <2> DEFINE pc == IF buys[k].filled > 0 THEN "protects" ELSE "cancels"
             new == [old EXCEPT !.order = k, !.seen = buys[k].filled, !.dead = DeadOrder(k), !.pc = pc]
  <2>1. run' = [run EXCEPT ![r] = new]
    BY <1>0, <1>h DEF Sees
  <2>2. k \in Nat /\ buys[k].filled \in 0..Wanted /\ DeadOrder(k) \in BOOLEAN
    <3>1. buys \in Seq(Buy) /\ k \in 1..Len(buys) /\ buys[k] \in Buy
      BY <1>h DEF RunTypes
    <3>2. k \in Nat /\ buys[k].filled \in 0..Wanted
      BY <3>1 DEF Buy
    <3>3. DeadOrder(k) \in BOOLEAN
      BY DEF DeadOrder
    <3>. QED
      BY <3>2, <3>3
  <2>3. pc \in {"protects", "cancels"}
    OBVIOUS
  <2> HIDE DEF pc
  <2>4. new \in RunRow /\ new.on = old.on /\ new.pc = pc /\ new.order = k /\ KeepsEntry(old, new)
    BY ONLY <1>0, <2>2, <2>3 DEF RunRow, RunPc, KeepsEntry
  <2> HIDE DEF new
  <2>5. IsLook(old, new)
    BY <1>h, <2>3, <2>4 DEF IsLook
  <2>. QED
    BY <1>h, <2>1, <2>4, <2>5, RunMovesIf DEF RunStepKind
<1>5. CASE LookIntoJournal(r)
  <2>0. old.pc = "looks" /\ UNCHANGED <<ranToday, scheduler, scheduling, buys>>
    BY <1>5 DEF LookIntoJournal
  <2>1. CASE EntryFailed(r)
    BY <2>0, <2>1, EntryFailedIsDone
  <2>2. CASE TakesOver(old.journal) /\ Sees(r, old.journal.order)
    <3>1. old.journal.order \in DOMAIN buys
      BY <1>0, <2>2 DEF TakesOver, RowIsSound
    <3>. QED
      BY <2>0, <2>2, <3>1, <1>h
  <2>3. CASE old.journal.is # "before" /\ ~TakesOver(old.journal) /\ RunGoes(r, "submits")
    <3> DEFINE new == [old EXCEPT !.pc = "submits"]
    <3>1. run' = [run EXCEPT ![r] = new]
      BY <1>0, <2>3 DEF RunGoes
    <3>2. new \in RunRow /\ new.on = old.on /\ new.pc = "submits" /\ KeepsEntry(old, new)
      BY ONLY <1>0 DEF RunRow, RunPc, KeepsEntry
    <3> HIDE DEF new
    <3>3. IsGoAhead(old, new)
      BY <2>0, <2>3, <3>2 DEF IsGoAhead
    <3>. QED
      BY <2>0, <3>1, <3>2, <3>3, RunMovesIf DEF RunStepKind
  <2>. QED
    BY <1>5, <2>1, <2>2, <2>3 DEF LookIntoJournal
<1>6. CASE SubmitBuy(r)
  <2> DEFINE new(journal) == [old EXCEPT !.pc = "waits", !.order = Len(buys) + 1, !.journal = journal]
             Journal == [is : {"none", "before", "after"}, order : Nat]
  <2>1. PICK journal \in {[is |-> "after", order |-> Len(buys) + 1]} \union
                         (IF "forgets" \in env.broker THEN {old.journal, Before(r)} ELSE {}) :
           run' = [run EXCEPT ![r].pc = "waits", ![r].order = Len(buys) + 1, ![r].journal = journal]
    BY <1>6 DEF SubmitBuy
  <2>2. run' = [run EXCEPT ![r] = new(journal)]
    BY <1>0, <2>1
  <2>3. Len(buys) + 1 \in Nat /\ old.journal \in Journal
    BY <1>0 DEF RunTypes, RunRow
  <2>4. Before(r) = [old.journal EXCEPT !.is = "before"] /\ Before(r) \in Journal
    BY <2>3 DEF Before
  <2>5. /\ journal \in Journal
        /\ \/ journal = [is |-> "after", order |-> Len(buys) + 1]
           \/ /\ "forgets" \in env.broker
              /\ journal = old.journal \/ journal = [old.journal EXCEPT !.is = "before"]
    BY <2>1, <2>3, <2>4
  <2>6. /\ new(journal) \in RunRow /\ new(journal).on = old.on /\ new(journal).pc = "waits"
        /\ new(journal).order = Len(buys) + 1 /\ new(journal).journal = journal
        /\ new(journal).pick = old.pick /\ new(journal).tries = old.tries
    BY ONLY <1>0, <2>3, <2>5 DEF RunRow, RunPc
  <2> HIDE DEF new
  <2>7. IsSubmission(old, new(journal))
    BY <1>6, <2>5, <2>6 DEF IsSubmission, SubmitBuy
  <2>. QED
    BY <1>6, <2>2, <2>6, <2>7, RunMovesIf DEF RunStepKind, SubmitBuy
<1>7. CASE WaitForFill(r)
  <2>1. old.pc = "waits" /\ UNCHANGED <<ranToday, scheduler, scheduling, buys>>
    BY <1>7 DEF WaitForFill
  <2>2. old.order \in DOMAIN buys
    BY <1>0, <2>1 DEF RowIsSound, OrderIsOut
  <2>. QED
    BY <1>7, <2>1, <2>2, <1>h, EntryFailedIsDone DEF WaitForFill
<1>i. ASSUME NEW is \in {"terminal", "pending", "partial", "stopped", "soft"}, NEW guarded \in 0..Wanted,
             Buying(old.pc), EntryIs(r, is, old.order, guarded),
             UNCHANGED <<ranToday, scheduler, scheduling>>,
             buys' = buys \/ (old.pc = "cancels" /\ buys' \in {buys, CancelOf(old.order)})
      PROVE  RunMoves(r)
  <2> DEFINE entry == [is |-> is, order |-> old.order, guarded |-> guarded]
             new == Enter(r, entry)
  <2>1. entry \in EntryRecord
    BY <1>0, <1>i DEF EntryRecord, RunRow
  <2>2. run' = [run EXCEPT ![r] = new]
    BY <1>i DEF EntryIs
  <2> HIDE DEF entry
  <2>3. new \in RunRow /\ new.on = old.on /\ IsDone(old, new)
    BY <1>i, <2>1, EntryIsDone
  <2> HIDE DEF new
  <2>4. RunStepKind(r, new)
    BY <1>i, <2>3 DEF RunStepKind
  <2>. QED
    BY <1>i, <2>2, <2>3, <2>4, RunMovesIf
<1>8. CASE CancelBuy(r)
  <2>1. old.pc = "cancels" /\ UNCHANGED <<ranToday, scheduler, scheduling>>
        /\ buys' \in {buys, CancelOf(old.order)}
    BY <1>8 DEF CancelBuy, CancelOf
  <2>2. CASE old.tries + 1 < RunAttempts /\ run' = [run EXCEPT ![r].pc = "looks", ![r].tries = @ + 1]
    <3> DEFINE new == [old EXCEPT !.pc = "looks", !.tries = old.tries + 1]
    <3>1. run' = [run EXCEPT ![r] = new]
      BY <1>0, <2>2
    <3>2. old.tries + 1 \in 0..RunAttempts
      BY <1>0, <2>2, TradingRunAssumption DEF TradingRunAssumption, RunRow
    <3>3. new \in RunRow /\ new.on = old.on /\ new.pc = "looks" /\ new.pick = old.pick
          /\ new.tries = old.tries + 1 /\ new.journal = old.journal
      BY ONLY <1>0, <3>2 DEF RunRow, RunPc
    <3> HIDE DEF new
    <3>4. IsAnotherTry(old, new)
      BY <2>1, <2>2, <3>3 DEF IsAnotherTry
    <3>. QED
      BY <2>1, <3>1, <3>3, <3>4, RunMovesIf DEF RunStepKind
  <2>3. CASE EntryIs(r, UnfilledIs(r), old.order, 0)
    <3>1. UnfilledIs(r) \in {"terminal", "pending"} /\ 0 \in 0..Wanted
      BY TradingRunAssumption DEF TradingRunAssumption, UnfilledIs
    <3>. QED
      BY <2>1, <2>3, <3>1, <1>i
  <2>. QED
    BY <1>8, <2>2, <2>3 DEF CancelBuy
<1>9. CASE ProtectBuy(r)
  <2>1. old.seen \in 0..Wanted
    BY ONLY <1>0 DEF RunRow
  <2>. QED
    BY <1>9, <2>1, <1>i DEF ProtectBuy
<1>. QED
  BY <1>1, <1>2, <1>3, <1>4, <1>5, <1>6, <1>7, <1>8, <1>9, <1>10, <1>11, <1>12 DEF RunStep

-----------------------------------------------------------------------------
(* What is already submitted: nothing brings a dead order back. *)

Fades ==
    /\ buys' \in Seq(Buy) /\ DOMAIN buys' = DOMAIN buys
    /\ \A k \in DOMAIN buys :
        /\ buys'[k].run = buys[k].run /\ buys'[k].pick = buys[k].pick
        /\ Exposed(k)' => Exposed(k)

LEMMA OneOrderFades ==
    ASSUME RunTypes, NEW k \in DOMAIN buys, NEW new \in Buy, buys' = [buys EXCEPT ![k] = new],
           new.run = buys[k].run, new.pick = buys[k].pick,
           new.state \in {"working", "canceling"} \/ new.filled > 0 => Exposed(k)
    PROVE  Fades
<1>1. buys \in Seq(Buy) /\ Len(buys) \in Nat /\ DOMAIN buys = 1..Len(buys)
  BY DEF RunTypes
<1>2. buys' \in Seq(Buy) /\ DOMAIN buys' = DOMAIN buys
  BY <1>1
<1>3. buys'[k] = new /\ \A l \in DOMAIN buys \ {k} : buys'[l] = buys[l]
  BY <1>1
<1>. QED
  BY <1>2, <1>3 DEF Fades, Exposed, Living

LEMMA NothingFades == RunTypes /\ buys' = buys => Fades
BY DEF Fades, RunTypes, Exposed, Living

LEMMA CancelFades ==
    ASSUME RunTypes, NEW k \in DOMAIN buys, buys' \in {buys, CancelOf(k)}
    PROVE  Fades
<1> DEFINE state == IF buys[k].state # "working" THEN buys[k].state
                    ELSE IF "late" \in env.broker THEN "canceling" ELSE "canceled"
           new == [buys[k] EXCEPT !.state = state]
<1>0. buys[k] \in Buy
  BY DEF RunTypes
<1>1. CASE buys' = CancelOf(k)
  <2>1. buys' = [buys EXCEPT ![k] = new]
    BY <1>1 DEF CancelOf
  <2>2. state \in {"working", "canceling", "filled", "canceled", "rejected"}
    BY <1>0 DEF Buy
  <2>3. state \in {"working", "canceling"} => Living(k)
    BY DEF Living
  <2> HIDE DEF state
  <2>4. new \in Buy /\ new.run = buys[k].run /\ new.pick = buys[k].pick
        /\ new.state = state /\ new.filled = buys[k].filled
    BY ONLY <1>0, <2>2 DEF Buy
  <2> HIDE DEF new
  <2>5. new.state \in {"working", "canceling"} \/ new.filled > 0 => Exposed(k)
    BY <2>3, <2>4 DEF Exposed
  <2>. QED
    BY <2>1, <2>4, <2>5, OneOrderFades
<1>. QED
  BY <1>1, NothingFades

LEMMA BrokerFades ==
    ASSUME RunTypes, NEW k \in DOMAIN buys, BuyFills(k) \/ BuyIsRefused(k) \/ BuyIsCanceled(k)
    PROVE  Fades /\ UNCHANGED <<ranToday, scheduler, scheduling, run>>
<1>0. buys[k] \in Buy /\ Wanted \in Nat /\ buys[k].filled \in 0..Wanted
  <2>1. buys[k] \in Buy /\ Wanted \in Nat
    BY TradingRunAssumption DEF RunTypes, TradingRunAssumption
  <2>. QED
    BY <2>1 DEF Buy
<1>1. CASE BuyFills(k)
  <2>1. PICK filled \in IF "slices" \in env.broker THEN buys[k].filled + 1 .. Wanted ELSE {Wanted} :
           buys' = [buys EXCEPT ![k].filled = filled,
                                ![k].state = IF filled = Wanted THEN "filled" ELSE @]
    BY <1>1 DEF BuyFills
  <2> DEFINE state == IF filled = Wanted THEN "filled" ELSE buys[k].state
             new == [buys[k] EXCEPT !.filled = filled, !.state = state]
  <2>2. buys' = [buys EXCEPT ![k] = new]
    <3>1. buys \in Seq(Buy) /\ Len(buys) \in Nat /\ k \in 1..Len(buys)
      BY DEF RunTypes
    <3>. QED
      BY <2>1, <3>1
  <2>3. filled \in 0..Wanted
    BY <1>0, <2>1
  <2>4. state \in {"working", "canceling", "filled", "canceled", "rejected"}
    BY <1>0 DEF Buy
  <2> HIDE DEF state
  <2>5. new \in Buy /\ new.run = buys[k].run /\ new.pick = buys[k].pick
    BY ONLY <1>0, <2>3, <2>4 DEF Buy
  <2> HIDE DEF new
  <2>6. Exposed(k)
    BY <1>1 DEF BuyFills, Exposed
  <2>. QED
    BY <1>1, <2>2, <2>5, <2>6, OneOrderFades DEF BuyFills
<1>2. ASSUME NEW state \in {"canceled", "rejected"}, buys' = [buys EXCEPT ![k].state = state]
      PROVE  Fades
  <2> DEFINE new == [buys[k] EXCEPT !.state = state]
  <2>1. buys' = [buys EXCEPT ![k] = new]
    BY <1>2
  <2>2. new \in Buy /\ new.run = buys[k].run /\ new.pick = buys[k].pick
        /\ new.state = state /\ new.filled = buys[k].filled
    BY ONLY <1>0, <1>2 DEF Buy
  <2> HIDE DEF new
  <2>3. ~(new.state \in {"working", "canceling"}) /\ (new.filled > 0 => Exposed(k))
    BY <1>2, <2>2 DEF Exposed
  <2>. QED
    BY <2>1, <2>2, <2>3, OneOrderFades
<1>3. CASE BuyIsRefused(k)
  <2>1. PICK state \in {"canceled", "rejected"} : buys' = [buys EXCEPT ![k].state = state]
    BY <1>3 DEF BuyIsRefused
  <2>. QED
    BY <1>2, <1>3, <2>1 DEF BuyIsRefused
<1>. QED
  BY <1>1, <1>2, <1>3 DEF BuyIsCanceled, BuyFills

-----------------------------------------------------------------------------
(* The types hold. *)

\* The kinds of step keep what a row needs.
LEMMA KindIsSound ==
    ASSUME RunTypes, NEW r \in RunId, NEW new \in RunRow, RunStepKind(r, new)
    PROVE  /\ buys' \in Seq(Buy) /\ DOMAIN buys \subseteq DOMAIN buys'
           /\ RowIsSound(new, DOMAIN buys')
<1> DEFINE old == run[r]
<1>0. /\ old \in RunRow /\ RowIsSound(old, DOMAIN buys) /\ buys \in Seq(Buy)
      /\ RunAttempts \in Nat \ {0} /\ env.picks \in 1..MaxPicks
  BY EnvFacts, TradingRunAssumption DEF RunTypes, TradingRunAssumption
<1>00. old.pick \in Nat /\ old.tries \in Nat /\ new.pick \in Nat /\ new.tries \in Nat /\ env.picks \in Nat
  <2>1. \A it \in RunRow : it.pick \in Nat /\ it.tries \in Nat
    BY TradingRunAssumption DEF RunRow, TradingRunAssumption
  <2>. QED
    BY <1>0, <2>1, TradingRunAssumption DEF TradingRunAssumption
<1>1. CASE buys' = buys /\ IsOutside(old, new)
  BY <1>0, <1>1 DEF IsOutside, KeepsEntry, RowIsSound, Buying, OrderIsOut, NotYet
<1>6. CASE buys' = buys /\ IsFirst(old, new)
  <2>1. old.tries = 0 /\ old.journal.is = "none" /\ new.pc = "looks" /\ new.pick = 1
        /\ new.tries = old.tries /\ new.journal = old.journal
    BY <1>0, <1>6 DEF IsFirst, RowIsSound, NotYet
  <2>. QED
    BY <1>0, <1>00, <1>6, <2>1 DEF RowIsSound, Buying, OrderIsOut, NotYet
<1>2. CASE buys' = buys /\ (IsLook(old, new) \/ IsGoAhead(old, new))
  BY <1>0, <1>00, <1>2 DEF IsLook, IsGoAhead, TakesOver, KeepsEntry, RowIsSound, Buying, OrderIsOut, NotYet
<1>3. CASE IsDone(old, new)
  <2>1. RowIsSound(new, DOMAIN buys')
    BY <1>0, <1>00, <1>3 DEF IsDone, RowIsSound, Buying, OrderIsOut, NotYet, Unwritten
  <2>2. CASE buys' = Append(buys, NewBuy(r))
    BY <1>3, <2>1, <2>2, SubmissionAdds DEF IsDone
  <2>3. CASE old.pc = "cancels" /\ buys' \in {buys, CancelOf(old.order)}
    <3>1. old.order \in DOMAIN buys
      BY <1>0, <2>3 DEF RowIsSound, OrderIsOut
    <3>. QED
      BY <2>1, <2>3, <3>1, CancelFades DEF Fades
  <2>4. CASE buys' = buys
    BY <1>0, <2>1, <2>4
  <2>. QED
    BY <1>3, <2>2, <2>3, <2>4 DEF RunStepKind, IsOutside, IsFirst, IsLook, IsGoAhead, IsSubmission
<1>4. CASE IsSubmission(old, new) /\ buys' = Append(buys, NewBuy(r))
  <2>0. /\ new.pc = "waits" /\ new.pick = old.pick /\ new.tries = old.tries
        /\ new.order = Len(buys) + 1 /\ old.pc = "submits"
    BY <1>4 DEF IsSubmission
  <2>1. /\ buys' \in Seq(Buy) /\ DOMAIN buys \subseteq DOMAIN buys'
        /\ Len(buys) + 1 \in DOMAIN buys'
    BY <1>4, <2>0, SubmissionAdds DEF Buying
  <2>2. new.journal.is = "after" => new.journal.order \in DOMAIN buys'
    <3>1. CASE new.journal = [is |-> "after", order |-> Len(buys) + 1]
      BY <2>1, <3>1
    <3>2. CASE new.journal = old.journal
      BY <1>0, <2>1, <3>2 DEF RowIsSound
    <3>3. CASE new.journal = [old.journal EXCEPT !.is = "before"]
      <4>1. old.journal \in [is : {"none", "before", "after"}, order : Nat]
        BY <1>0 DEF RunRow
      <4>. QED
        BY <3>3, <4>1
    <3>. QED
      BY <1>4, <3>1, <3>2, <3>3 DEF IsSubmission
  <2>. QED
    BY <1>0, <2>0, <2>1, <2>2 DEF RowIsSound, Buying, OrderIsOut, NotYet
<1>5. CASE IsAnotherTry(old, new) /\ old.pc = "cancels" /\ buys' \in {buys, CancelOf(old.order)}
  <2>1. old.order \in DOMAIN buys
    BY <1>0, <1>5 DEF RowIsSound, OrderIsOut
  <2>2. buys' \in Seq(Buy) /\ DOMAIN buys' = DOMAIN buys
    BY <1>5, <2>1, CancelFades DEF Fades
  <2>. QED
    BY <1>0, <1>00, <1>5, <2>2 DEF IsAnotherTry, RowIsSound, Buying, OrderIsOut, NotYet
<1>. QED
  BY <1>1, <1>2, <1>3, <1>4, <1>5, <1>6 DEF RunStepKind, IsOutside, IsFirst, IsLook, IsGoAhead

LEMMA RunTypesStep == RunTypes /\ [Next]_vars => RunTypes'
<1> SUFFICES ASSUME RunTypes, [Next]_vars PROVE RunTypes'
  OBVIOUS
<1> USE DEF Buying, OrderIsOut, NotYet
<1>1. CASE UNCHANGED <<env, crashes, runVars>>
  BY <1>1 DEF RunTypes, runVars, RowIsSound
<1>2. ASSUME NEW n \in Node, Dies(n), RunsDie(n) PROVE RunTypes'
  <2>1. env' = env /\ crashes' \in 0..env.crashes
    BY <1>2, EnvFacts DEF Dies, RunTypes
  <2>2. ASSUME NEW r \in RunId PROVE run'[r] \in RunRow /\ RowIsSound(run[r], DOMAIN buys)'
    <3> DEFINE old == run[r]
               new == [old EXCEPT !.pc = "over"]
    <3>1. old \in RunRow /\ RowIsSound(old, DOMAIN buys) /\ buys' = buys /\ run'[r] \in {old, new}
      BY <1>2 DEF RunTypes, RunsDie
    <3>2. new \in RunRow /\ new.pc = "over" /\ new.journal = old.journal
      BY ONLY <3>1 DEF RunRow, RunPc
    <3>3. RowIsSound(new, DOMAIN buys)
      BY <3>1, <3>2 DEF RowIsSound
    <3> HIDE DEF old, new
    <3>. QED
      BY <2>1, <3>1, <3>2, <3>3 DEF RowIsSound
  <2>3. run' \in [RunId -> RunRow] /\ \A r \in RunId : RowIsSound(run[r], DOMAIN buys)'
    BY <1>2, <2>2 DEF RunsDie
  <2>. QED
    BY <1>2, <2>1, <2>3 DEF RunTypes, RunsDie
<1>3. CASE TradingNext
  <2>0. env' = env /\ crashes' = crashes
    BY <1>3 DEF TradingNext, processVars
  <2>1. ASSUME NEW n \in Node, ScheduleStep(n) PROVE RunTypes'
    <3>1. CASE StartRun(n)
      <4>1. PICK r \in 1..env.runs :
              run' = [run EXCEPT ![r].on = n, ![r].pc = "queued", ![r].status = "queued"]
              /\ \A s \in RunId : run[s].pc = "none" <=> s >= r
        BY <3>1 DEF StartRun
      <4>2. r \in RunId
        BY EnvFacts, TradingRunAssumption DEF RunTypes, RunId, TradingRunAssumption
      <4> DEFINE old == run[r]
                 new == [old EXCEPT !.on = n, !.pc = "queued", !.status = "queued"]
      <4>3. old \in RunRow /\ RowIsSound(old, DOMAIN buys) /\ run \in [RunId -> RunRow] /\ old.pc = "none"
        BY <4>1, <4>2, TradingRunAssumption DEF RunTypes, RunId, TradingRunAssumption
      <4>4. run' = [run EXCEPT ![r] = new]
        BY <4>1, <4>2, <4>3
      <4>5. new \in RunRow /\ new.pc = "queued" /\ new.pick = old.pick /\ new.tries = old.tries
            /\ new.journal = old.journal
        BY ONLY <4>3 DEF RunRow, RunPc
      <4>6. RowIsSound(new, DOMAIN buys)
        BY <4>3, <4>5 DEF RowIsSound
      <4> HIDE DEF old, new
      <4>7. run' \in [RunId -> RunRow] /\ \A s \in RunId : RowIsSound(run'[s], DOMAIN buys)
        BY <4>2, <4>3, <4>4, <4>5, <4>6 DEF RunTypes
      <4>8. scheduling' \in [Node -> {"idle", "leads", "due", "started", "ends"}]
            /\ UNCHANGED <<ranToday, scheduler, buys>>
        BY <3>1 DEF StartRun, Schedules, RunTypes
      <4>. QED
        BY <2>0, <4>7, <4>8 DEF RunTypes, RowIsSound
    <3>2. CASE LeadSchedule(n) \/ ReadConfig(n) \/ StartIsBlocked(n) \/ SetLastRunDate(n) \/ EndSchedule(n)
      <4>1. scheduling' \in [Node -> {"idle", "leads", "due", "started", "ends"}]
        BY <3>2 DEF LeadSchedule, ReadConfig, StartIsBlocked, SetLastRunDate, EndSchedule, Schedules, RunTypes
      <4>2. scheduler' \in Node \union {"none", "lost"} /\ ranToday' \in BOOLEAN
        BY <3>2 DEF LeadSchedule, ReadConfig, StartIsBlocked, SetLastRunDate, EndSchedule, RunTypes
      <4>3. UNCHANGED <<run, buys>>
        BY <3>2 DEF LeadSchedule, ReadConfig, StartIsBlocked, SetLastRunDate, EndSchedule
      <4>. QED
        BY <2>0, <4>1, <4>2, <4>3 DEF RunTypes, RowIsSound
    <3>. QED
      BY <2>1, <3>1, <3>2 DEF ScheduleStep
  <2>2. ASSUME NEW r \in RunId, RunStep(r) PROVE RunTypes'
    <3>1. PICK new \in RunRow :
            /\ run' = [run EXCEPT ![r] = new]
            /\ UNCHANGED <<ranToday, scheduler, scheduling>>
            /\ RunStepKind(r, new)
      BY <2>0, <2>2, RunStepIs DEF RunMoves
    <3>2. /\ buys' \in Seq(Buy) /\ DOMAIN buys \subseteq DOMAIN buys'
          /\ RowIsSound(new, DOMAIN buys')
      BY <3>1, KindIsSound
    <3>. QED
      BY <2>0, <3>1, <3>2, TypesFollow
  <2>3. CASE SchedulerLapses
    BY <2>0, <2>3 DEF SchedulerLapses, RunTypes, RowIsSound
  <2>4. ASSUME NEW k \in DOMAIN buys, BuyFills(k) \/ BuyIsRefused(k) \/ BuyIsCanceled(k) PROVE RunTypes'
    BY <2>0, <2>4, BrokerFades DEF Fades, RunTypes, RowIsSound
  <2>. QED
    BY <1>3, <2>1, <2>2, <2>3, <2>4 DEF TradingNext
<1>. QED
  BY <1>1, <1>2, <1>3, RunCases

LEMMA RunTypesHold == Spec => []RunTypes
BY RunTypesInit, RunTypesStep, PTL DEF Spec

-----------------------------------------------------------------------------
(***************************************************************************)
(* The number of orders.  An entry has as many as its attempts, so a run   *)
(* has submitted no more than the entries behind it allow, the attempts of *)
(* the entry it is at, and the order it waits for.                         *)
(***************************************************************************)
Room(p) == p * RunAttempts

Used(it) ==
    IF NotYet(it.pc) THEN 0
    ELSE IF OrderIsOut(it.pc) THEN Room(it.pick - 1) + it.tries + 1
    ELSE IF Buying(it.pc) THEN Room(it.pick - 1) + it.tries
    ELSE Room(MaxPicks)

UsedIn(rows) == SumOf([r \in RunId |-> Used(rows[r])], RunId)

LEMMA RoomFacts ==
    ASSUME NEW p \in Nat
    PROVE  /\ Room(p) \in Nat /\ Room(0) = 0 /\ Room(p + 1) = Room(p) + RunAttempts
           /\ \A q \in Nat : p <= q => Room(p) <= Room(q)
<1>1. RunAttempts \in Nat
  BY TradingRunAssumption DEF TradingRunAssumption
<1>2. ASSUME NEW a \in Nat PROVE p * a \in Nat /\ 0 * a = 0 /\ (p + 1) * a = p * a + a
  OBVIOUS
<1>3. ASSUME NEW q \in Nat, p <= q PROVE Room(p) <= Room(q)
  <2>1. \A a \in Nat, d \in Nat : (p + d) * a = p * a + d * a /\ d * a \in Nat /\ p * a \in Nat
    OBVIOUS
  <2>2. PICK d \in Nat : q = p + d
    <3>1. q - p \in Nat /\ q = p + (q - p)
      BY <1>3
    <3>. QED
      BY <3>1
  <2>. QED
    BY <1>1, <2>1, <2>2 DEF Room
<1>. QED
  BY <1>1, <1>2, <1>3 DEF Room

LEMMA UsedIs ==
    ASSUME NEW it \in RunRow, NEW submitted, RowIsSound(it, submitted), env.picks \in 1..MaxPicks
    PROVE  Used(it) \in Nat /\ Used(it) <= Room(MaxPicks)
<1>1. MaxPicks \in Nat /\ RunAttempts \in Nat /\ RunAttempts # 0
  BY TradingRunAssumption DEF TradingRunAssumption
<1>2. it.pick \in 0..MaxPicks /\ it.tries \in 0..RunAttempts
  BY DEF RunRow
<1>3. Room(MaxPicks) \in Nat
  BY <1>1, RoomFacts
<1>4. CASE NotYet(it.pc) \/ ~Buying(it.pc)
  BY <1>3, <1>4 DEF Used, OrderIsOut, Buying
<1>5. CASE Buying(it.pc)
  <2>1. it.pick - 1 \in Nat /\ it.pick \in Nat /\ it.tries \in Nat /\ it.tries < RunAttempts
    BY <1>1, <1>2, <1>5 DEF RowIsSound
  <2>2. Room(it.pick - 1) \in Nat /\ Room(it.pick) = Room(it.pick - 1) + RunAttempts
    <3>1. (it.pick - 1) + 1 = it.pick
      BY <2>1
    <3>. QED
      BY <2>1, <3>1, RoomFacts
  <2>3. Room(it.pick) <= Room(MaxPicks)
    <3>1. it.pick <= MaxPicks
      BY <1>1, <1>2
    <3>. QED
      BY <1>1, <2>1, <3>1, RoomFacts
  <2>4. ~NotYet(it.pc)
    BY <1>5 DEF NotYet, Buying
  <2>. QED
    BY <1>1, <1>3, <1>5, <2>1, <2>2, <2>3, <2>4 DEF Used
<1>. QED
  BY <1>4, <1>5

\* A step of a run uses what it submits, and gives nothing back.
LEMMA UsedGrows ==
    ASSUME RunTypes, NEW r \in RunId, NEW new \in RunRow, RunStepKind(r, new)
    PROVE  /\ Len(buys') \in Nat
           /\ Len(buys') - Len(buys) <= Used(new) - Used(run[r])
<1> DEFINE old == run[r]
<1>1. /\ old \in RunRow /\ RowIsSound(old, DOMAIN buys) /\ env.picks \in 1..MaxPicks /\ buys \in Seq(Buy)
  BY EnvFacts DEF RunTypes
<1>2. MaxPicks \in Nat /\ RunAttempts \in Nat /\ RunAttempts # 0
  BY TradingRunAssumption DEF TradingRunAssumption
<1>3. /\ old.pick \in Nat /\ old.tries \in Nat /\ new.pick \in Nat /\ new.tries \in Nat
      /\ old.pick <= MaxPicks
  BY <1>1, <1>2 DEF RunRow
<1>4. Buying(old.pc) => old.pick - 1 \in Nat /\ old.tries < RunAttempts
  BY <1>1, <1>3 DEF RowIsSound
<1>5. Used(old) \in Nat /\ Used(old) <= Room(MaxPicks)
  BY <1>1, UsedIs
<1>6. Len(buys) \in Nat
  BY <1>1
<1>7. Buying(old.pc) =>
         /\ Room(old.pick - 1) \in Nat /\ Room(old.pick) \in Nat
         /\ Room(old.pick) = Room(old.pick - 1) + RunAttempts
         /\ Room(old.pick) <= Room(MaxPicks)
  <2>1. (old.pick - 1) + 1 = old.pick
    BY <1>3
  <2>. QED
    BY <1>2, <1>3, <1>4, <2>1, RoomFacts
<1>8. Room(MaxPicks) \in Nat /\ Room(0) = 0
  BY <1>2, RoomFacts
<1>9. /\ Buying(old.pc) => ~NotYet(old.pc)
      /\ OrderIsOut(old.pc) <=> old.pc \in {"waits", "cancels", "protects"}
  BY DEF Buying, NotYet, OrderIsOut
<1>10. IsDone(old, new) =>
          /\ Used(new) = Room(old.pick) \/ Used(new) = Room(MaxPicks)
          /\ Used(old) <= Room(old.pick)
          /\ old.pc = "submits" => Used(old) + 1 <= Room(old.pick)
  <2> SUFFICES ASSUME IsDone(old, new)
               PROVE  /\ Used(new) = Room(old.pick) \/ Used(new) = Room(MaxPicks)
                      /\ Used(old) <= Room(old.pick)
                      /\ old.pc = "submits" => Used(old) + 1 <= Room(old.pick)
    OBVIOUS
  <2>1. Used(new) = Room(old.pick) \/ Used(new) = Room(MaxPicks)
    <3>1. CASE new.pc = "finishes"
      BY <3>1 DEF Used, NotYet, Buying, OrderIsOut
    <3>2. CASE new.pc = "looks" /\ new.pick = old.pick + 1 /\ new.tries = 0
      <4>1. new.pick - 1 = old.pick /\ Room(old.pick) + 0 = Room(old.pick)
        BY <1>3, <1>7, <3>2 DEF IsDone
      <4>. QED
        BY <3>2, <4>1 DEF Used, NotYet, Buying, OrderIsOut
    <3>. QED
      BY <3>1, <3>2 DEF IsDone
  <2>2. Buying(old.pc)
    BY DEF IsDone
  <2>3. Used(old) \in {Room(old.pick - 1) + old.tries, Room(old.pick - 1) + old.tries + 1}
    BY <1>9, <2>2 DEF Used
  <2>4. old.pc = "submits" => Used(old) = Room(old.pick - 1) + old.tries
    BY <1>9, <2>2 DEF Used
  <2> HIDE DEF old
  <2>. QED
    BY ONLY <1>2, <1>3, <1>4, <1>7, <2>1, <2>2, <2>3, <2>4
<1>11. CASE buys' = buys
  <2>1. CASE IsOutside(old, new)
    <3>1. Used(new) = Room(MaxPicks) \/ (Used(new) = 0 /\ Used(old) = 0)
      BY <2>1 DEF IsOutside, Used, NotYet, Buying, OrderIsOut
    <3>. QED
      BY <1>5, <1>6, <1>8, <1>11, <3>1
  <2>2. CASE IsFirst(old, new)
    <3>1. Used(old) = 0 /\ Used(new) = Room(new.pick - 1) + new.tries /\ new.pick = 1 /\ new.pick - 1 = 0
      BY <2>2 DEF IsFirst, Used, NotYet, Buying, OrderIsOut
    <3>. QED
      BY <1>3, <1>5, <1>6, <1>8, <1>11, <3>1
  <2>3. CASE IsLook(old, new) \/ IsGoAhead(old, new)
    <3>1. Used(new) = Used(old) \/ Used(new) = Used(old) + 1
      BY <2>3 DEF IsLook, IsGoAhead, KeepsEntry, Used, NotYet, Buying, OrderIsOut
    <3>. QED
      BY <1>5, <1>6, <1>11, <3>1
  <2>4. CASE IsDone(old, new)
    <3>1. Room(old.pick) \in Nat /\ Room(old.pick) <= Room(MaxPicks)
      BY <1>7, <2>4 DEF IsDone
    <3>. QED
      BY <1>5, <1>6, <1>8, <1>10, <1>11, <2>4, <3>1
  <2>5. CASE IsAnotherTry(old, new) /\ old.pc = "cancels"
    <3>1. Used(new) = Room(old.pick - 1) + (old.tries + 1) /\ Used(old) = Room(old.pick - 1) + old.tries + 1
      BY <2>5 DEF IsAnotherTry, Used, NotYet, Buying, OrderIsOut
    <3>2. Room(old.pick - 1) \in Nat
      BY <1>7, <2>5 DEF Buying
    <3>. QED
      BY <1>3, <1>5, <1>6, <1>11, <3>1, <3>2
  <2>6. ~(buys' = Append(buys, NewBuy(r)))
    BY <1>1, <1>6, <1>11
  <2>. QED
    BY <1>11, <2>1, <2>2, <2>3, <2>4, <2>5, <2>6 DEF RunStepKind
<1>12. CASE buys' = Append(buys, NewBuy(r)) /\ old.pc = "submits"
  <2>1. Len(buys') = Len(buys) + 1
    BY <1>1, <1>12
  <2>2. CASE IsDone(old, new)
    <3>1. Room(old.pick) \in Nat /\ Room(old.pick) <= Room(MaxPicks)
      BY <1>7, <2>2 DEF IsDone
    <3>. QED
      BY <1>5, <1>6, <1>8, <1>10, <1>12, <2>1, <2>2, <3>1
  <2>3. CASE IsSubmission(old, new)
    <3>1. Used(new) = Room(old.pick - 1) + old.tries + 1 /\ Used(old) = Room(old.pick - 1) + old.tries
      BY <2>3 DEF IsSubmission, Used, NotYet, Buying, OrderIsOut
    <3>2. Room(old.pick - 1) \in Nat
      BY <1>7, <1>12 DEF Buying
    <3>. QED
      BY <1>3, <1>5, <1>6, <2>1, <3>1, <3>2
  <2>4. buys' # buys
    BY <1>1, <1>6, <1>12
  <2>5. IsDone(old, new) \/ IsSubmission(old, new)
    BY <1>12, <2>4 DEF RunStepKind, IsOutside, IsFirst, IsLook, IsGoAhead
  <2>. QED
    BY <2>2, <2>3, <2>5
<1>13. CASE /\ IsDone(old, new) \/ IsAnotherTry(old, new)
            /\ old.pc = "cancels" /\ buys' = CancelOf(old.order)
  <2>1. Len(buys') = Len(buys)
    BY <1>1, <1>13 DEF CancelOf
  <2>2. CASE IsDone(old, new)
    <3>1. Room(old.pick) \in Nat /\ Room(old.pick) <= Room(MaxPicks)
      BY <1>7, <2>2 DEF IsDone
    <3>. QED
      BY <1>5, <1>6, <1>8, <1>10, <2>1, <2>2, <3>1
  <2>3. CASE IsAnotherTry(old, new)
    <3>1. Used(new) = Room(old.pick - 1) + (old.tries + 1) /\ Used(old) = Room(old.pick - 1) + old.tries + 1
      BY <1>13, <2>3 DEF IsAnotherTry, Used, NotYet, Buying, OrderIsOut
    <3>2. Room(old.pick - 1) \in Nat
      BY <1>7, <1>13 DEF Buying
    <3>. QED
      BY <1>3, <1>5, <1>6, <2>1, <3>1, <3>2
  <2>. QED
    BY <1>13, <2>2, <2>3
<1>14. \/ buys' = buys
       \/ buys' = Append(buys, NewBuy(r)) /\ old.pc = "submits"
       \/ /\ IsDone(old, new) \/ IsAnotherTry(old, new)
          /\ old.pc = "cancels" /\ buys' = CancelOf(old.order)
  BY DEF RunStepKind, IsOutside, IsFirst, IsLook, IsGoAhead, IsSubmission
<1>. QED
  BY <1>11, <1>12, <1>13, <1>14

Bounded(rows) == \A r \in RunId : Used(rows[r]) \in Nat /\ Used(rows[r]) <= Room(MaxPicks)

\* All runs together use a number of orders, of which one run and the others have their shares.
UsedBut(rows, r) == SumOf([s \in RunId |-> Used(rows[s])], RunId \ {r})

LEMMA RunIdIsFinite == IsFiniteSet(RunId) /\ Cardinality(RunId) = MaxStarted
<1>1. MaxStarted \in Nat /\ MaxStarted \in Int /\ 1 \in Int
  BY TradingRunAssumption DEF TradingRunAssumption
<1>2. /\ IsFiniteSet(1..MaxStarted)
      /\ Cardinality(1..MaxStarted) = IF 1 <= MaxStarted THEN MaxStarted - 1 + 1 ELSE 0
  BY <1>1, FS_Interval
<1>. QED
  BY <1>1, <1>2 DEF RunId

LEMMA UsedIsBounded ==
    ASSUME NEW rows, Bounded(rows)
    PROVE  UsedIn(rows) \in Nat /\ UsedIn(rows) <= MaxStarted * Room(MaxPicks)
<1> DEFINE f == [s \in RunId |-> Used(rows[s])]
<1>1. MaxPicks \in Nat /\ Room(MaxPicks) \in Nat
  BY TradingRunAssumption, RoomFacts DEF TradingRunAssumption
<1>2. \A s \in RunId : f[s] \in Nat /\ f[s] <= Room(MaxPicks)
  BY DEF Bounded
<1> HIDE DEF f
<1>3. SumOf(f, RunId) \in Nat
  BY <1>2, RunIdIsFinite, SumType
<1>4. SumOf(f, RunId) <= Cardinality(RunId) * Room(MaxPicks)
  BY <1>1, <1>2, RunIdIsFinite, SumBound
<1>. QED
  BY <1>3, <1>4, RunIdIsFinite DEF UsedIn, f

LEMMA UsedByOne ==
    ASSUME NEW rows, Bounded(rows), NEW r \in RunId
    PROVE  UsedBut(rows, r) \in Nat /\ UsedIn(rows) = Used(rows[r]) + UsedBut(rows, r)
<1> DEFINE f == [s \in RunId |-> Used(rows[s])]
<1>1. f[r] = Used(rows[r])
  OBVIOUS
<1>2. \A s \in RunId : f[s] \in Nat /\ f[s] \in Int
  BY DEF Bounded
<1> HIDE DEF f
<1>3. IsFiniteSet(RunId \ {r})
  BY RunIdIsFinite, FS_RemoveElement
<1>4. SumOf(f, RunId \ {r}) \in Nat
  BY <1>2, <1>3, SumType
<1>5. SumOf(f, RunId) = f[r] + SumOf(f, RunId \ {r})
  BY <1>2, RunIdIsFinite, SumWithout
<1>. QED
  BY <1>1, <1>4, <1>5 DEF UsedIn, UsedBut, f

LEMMA RunRowsAreBounded ==
    ASSUME RunTypes
    PROVE  Bounded(run)
<1>1. ASSUME NEW r \in RunId PROVE Used(run[r]) \in Nat /\ Used(run[r]) <= Room(MaxPicks)
  <2>1. run[r] \in RunRow /\ RowIsSound(run[r], DOMAIN buys) /\ env.picks \in 1..MaxPicks
    BY EnvFacts DEF RunTypes
  <2>. QED
    BY <2>1, UsedIs
<1>. QED
  BY <1>1 DEF Bounded

OrdersFit == Len(buys) <= UsedIn(run)

OrdersFitInv == Bounded(run) /\ OrdersFit

LEMMA BoundedHolds == Spec => []Bounded(run)
BY RunTypesHold, RunRowsAreBounded, PTL

\* A run that goes on as UsedGrows has it.
LEMMA OrdersFitGrows ==
    ASSUME OrdersFitInv, NEW rows, Bounded(rows), NEW r \in RunId, NEW size \in Nat, Len(buys) \in Nat,
           \A s \in RunId \ {r} : rows[s] = run[s],
           size - Len(buys) <= Used(rows[r]) - Used(run[r])
    PROVE  size <= UsedIn(rows)
<1>1. UsedBut(rows, r) = UsedBut(run, r)
  <2> DEFINE f == [s \in RunId |-> Used(run[s])]
             g == [s \in RunId |-> Used(rows[s])]
  <2>1. \A s \in RunId \ {r} : g[s] = f[s]
    OBVIOUS
  <2>2. IsFiniteSet(RunId \ {r})
    BY RunIdIsFinite, FS_RemoveElement
  <2> HIDE DEF f, g
  <2>3. SumOf(g, RunId \ {r}) = SumOf(f, RunId \ {r})
    BY <2>1, <2>2, SumSame
  <2>. QED
    BY <2>3 DEF UsedBut, f, g
<1>2. UsedBut(run, r) \in Nat /\ UsedIn(run) = Used(run[r]) + UsedBut(run, r)
  BY UsedByOne DEF OrdersFitInv
<1>3. UsedBut(rows, r) \in Nat /\ UsedIn(rows) = Used(rows[r]) + UsedBut(rows, r)
  BY UsedByOne
<1>4. Used(run[r]) \in Nat /\ Used(rows[r]) \in Nat /\ Len(buys) <= UsedIn(run)
  BY DEF OrdersFitInv, OrdersFit, Bounded
<1>. QED
  BY <1>1, <1>2, <1>3, <1>4

LEMMA OrdersFitKeeps ==
    ASSUME OrdersFitInv, NEW rows, Bounded(rows),
           \A s \in RunId : Used(run[s]) <= Used(rows[s])
    PROVE  UsedIn(run) <= UsedIn(rows)
<1> DEFINE f == [s \in RunId |-> Used(run[s])]
           g == [s \in RunId |-> Used(rows[s])]
<1>1. \A s \in RunId : f[s] \in Nat /\ g[s] \in Nat /\ f[s] <= g[s]
  BY DEF OrdersFitInv, Bounded
<1> HIDE DEF f, g
<1>2. SumOf(f, RunId) <= SumOf(g, RunId)
  BY <1>1, RunIdIsFinite, SumGrows
<1>. QED
  BY <1>2 DEF UsedIn, f, g

LEMMA OrdersFitInit == Init => OrdersFit
<1> SUFFICES ASSUME Init PROVE OrdersFit
  OBVIOUS
<1>1. buys = <<>> /\ Len(buys) = 0
  BY InitialRun DEF RunInit
<1>2. UsedIn(run) \in Nat
  BY RunTypesInit, RunRowsAreBounded, UsedIsBounded
<1>. QED
  BY <1>1, <1>2 DEF OrdersFit

LEMMA OrdersFitStep == RunTypes /\ Bounded(run)' /\ OrdersFit /\ [Next]_vars => OrdersFit'
<1> SUFFICES ASSUME RunTypes, Bounded(run)', OrdersFit, [Next]_vars PROVE OrdersFit'
  OBVIOUS
<1>a. OrdersFitInv
  BY RunRowsAreBounded DEF OrdersFitInv
<1>b. Bounded(run')
  OBVIOUS
<1>c. Len(buys) \in Nat /\ UsedIn(run) \in Nat /\ Len(buys) <= UsedIn(run)
  BY RunRowsAreBounded, UsedIsBounded DEF RunTypes, OrdersFit
<1>d. UsedIn(run') \in Nat
  BY <1>b, UsedIsBounded
<1>1. ASSUME run' = run \/ \A s \in RunId : Used(run[s]) <= Used(run'[s]), Len(buys') = Len(buys)
      PROVE  OrdersFit'
  <2>1. UsedIn(run) <= UsedIn(run')
    <3>1. CASE run' = run
      BY <1>c, <3>1
    <3>. QED
      BY <1>a, <1>b, <1>1, <3>1, OrdersFitKeeps
  <2>. QED
    BY <1>c, <1>d, <1>1, <2>1 DEF OrdersFit
<1>2. CASE UNCHANGED <<env, crashes, runVars>>
  BY <1>1, <1>2 DEF runVars
<1>3. ASSUME NEW n \in Node, Dies(n), RunsDie(n) PROVE OrdersFit'
  <2>1. ASSUME NEW s \in RunId PROVE Used(run[s]) <= Used(run'[s])
    <3> DEFINE old == run[s]
               new == [old EXCEPT !.pc = "over"]
    <3>1. old \in RunRow /\ run'[s] \in {old, new}
      BY <1>3 DEF RunTypes, RunsDie
    <3>2. new.pc = "over"
      BY ONLY <3>1 DEF RunRow
    <3>3. Used(new) = Room(MaxPicks)
      BY <3>2 DEF Used, NotYet, OrderIsOut, Buying
    <3>4. Used(old) \in Nat /\ Used(old) <= Room(MaxPicks)
      BY <1>a DEF OrdersFitInv, Bounded
    <3> HIDE DEF old, new
    <3>. QED
      BY <3>1, <3>3, <3>4 DEF old
  <2>. QED
    BY <1>1, <1>3, <2>1 DEF RunsDie
<1>4. CASE TradingNext
  <2>0. env' = env
    BY <1>4 DEF TradingNext, processVars
  <2>1. ASSUME NEW n \in Node, ScheduleStep(n) PROVE OrdersFit'
    <3>1. CASE StartRun(n)
      <4>1. PICK r \in 1..env.runs :
              run' = [run EXCEPT ![r].on = n, ![r].pc = "queued", ![r].status = "queued"]
              /\ \A s \in RunId : run[s].pc = "none" <=> s >= r
        BY <3>1 DEF StartRun
      <4>2. r \in RunId /\ run[r].pc = "none"
        BY <4>1, EnvFacts, TradingRunAssumption DEF RunTypes, RunId, TradingRunAssumption
      <4>3. /\ run[r] \in RunRow /\ run'[r].pc = "queued"
            /\ \A s \in RunId \ {r} : run'[s] = run[s]
        <5>1. run \in [RunId -> RunRow]
          BY DEF RunTypes
        <5>2. run'[r] = [run[r] EXCEPT !.on = n, !.pc = "queued", !.status = "queued"]
          BY <4>1, <4>2, <5>1
        <5>. QED
          BY <4>1, <4>2, <5>1, <5>2 DEF RunRow
      <4>4. Used(run[r]) = 0 /\ Used(run'[r]) = 0
        BY <4>2, <4>3 DEF Used, NotYet
      <4>5. \A s \in RunId : Used(run[s]) <= Used(run'[s])
        <5>1. \A s \in RunId : Used(run[s]) \in Nat
          BY <1>a DEF OrdersFitInv, Bounded
        <5>. QED
          BY <4>3, <4>4, <5>1
      <4>. QED
        BY <1>1, <3>1, <4>5 DEF StartRun
    <3>2. CASE ~StartRun(n)
      BY <1>1, <2>1, <3>2 DEF ScheduleStep, LeadSchedule, ReadConfig, StartIsBlocked, SetLastRunDate, EndSchedule
    <3>. QED
      BY <3>1, <3>2
  <2>2. ASSUME NEW r \in RunId, RunStep(r) PROVE OrdersFit'
    <3>1. PICK new \in RunRow : run' = [run EXCEPT ![r] = new] /\ RunStepKind(r, new)
      BY <2>0, <2>2, RunStepIs DEF RunMoves
    <3>2. Len(buys') \in Nat /\ Len(buys') - Len(buys) <= Used(new) - Used(run[r])
      BY <3>1, UsedGrows
    <3>3. run'[r] = new /\ \A s \in RunId \ {r} : run'[s] = run[s]
      BY <3>1 DEF RunTypes
    <3>4. Len(buys') <= UsedIn(run')
      BY <1>a, <1>b, <1>c, <3>2, <3>3, OrdersFitGrows
    <3>. QED
      BY <3>4 DEF OrdersFit
  <2>3. CASE SchedulerLapses
    BY <1>1, <2>3 DEF SchedulerLapses
  <2>4. ASSUME NEW k \in DOMAIN buys, BuyFills(k) \/ BuyIsRefused(k) \/ BuyIsCanceled(k) PROVE OrdersFit'
    <3>1. Fades /\ run' = run
      BY <2>4, BrokerFades
    <3>2. Len(buys') = Len(buys)
      BY <3>1 DEF Fades, RunTypes
    <3>. QED
      BY <1>1, <3>1, <3>2
  <2>. QED
    BY <1>4, <2>1, <2>2, <2>3, <2>4 DEF TradingNext
<1>. QED
  BY <1>2, <1>3, <1>4, RunCases

\* The types of the daily run: its orders fit into the bound on their number.
LEMMA RunTypeHolds == Spec => []RunTypeOK
<1>1. Spec => []OrdersFit
  BY RunTypesHold, BoundedHolds, OrdersFitInit, OrdersFitStep, PTL DEF Spec
<1>2. ASSUME RunTypes, OrdersFit PROVE RunTypeOK
  <2>1. /\ ranToday \in BOOLEAN
        /\ scheduler \in Node \union {"none", "lost"}
        /\ scheduling \in [Node -> {"idle", "leads", "due", "started", "ends"}]
        /\ run \in [RunId -> RunRow]
        /\ buys \in Seq(Buy)
    BY <1>2 DEF RunTypes
  <2>2. Len(buys) \in {0} \union BuyId
    <3>1. Len(buys) \in Nat /\ UsedIn(run) \in Nat /\ Len(buys) <= UsedIn(run)
      BY <1>2, <2>1, RunRowsAreBounded, UsedIsBounded DEF OrdersFit
    <3>2. UsedIn(run) <= MaxStarted * Room(MaxPicks)
      BY <1>2, RunRowsAreBounded, UsedIsBounded
    <3>3. \A a \in Nat, b \in Nat, c \in Nat : a * (b * c) = (a * b) * c /\ a * b * c \in Nat
      OBVIOUS
    <3>4. MaxStarted * Room(MaxPicks) = MaxStarted * MaxPicks * RunAttempts /\ MaxStarted * Room(MaxPicks) \in Nat
      BY <3>3, TradingRunAssumption DEF TradingRunAssumption, Room
    <3>5. Len(buys) <= MaxStarted * Room(MaxPicks)
      BY <3>1, <3>2, <3>4
    <3> DEFINE most == MaxStarted * MaxPicks * RunAttempts
    <3>6. most \in Nat /\ Len(buys) <= most
      BY <3>4, <3>5
    <3> HIDE DEF most
    <3>7. Len(buys) \in {0} \union (1..most)
      BY <3>1, <3>6
    <3>. QED
      BY <3>7 DEF BuyId, most
  <2>. QED
    BY <2>1, <2>2 DEF RunTypeOK, RunRow
<1>. QED
  BY <1>1, <1>2, RunTypesHold, PTL

-----------------------------------------------------------------------------
(***************************************************************************)
(* One order for an entry.  The journal of the entry a run is at names the *)
(* only order of the entry that has bought something or may still; when    *)
(* the run is about to submit there is none; and no entry that is to come  *)
(* has an order.                                                           *)
(***************************************************************************)
IsFor(k, r, pick) == buys[k].run = r /\ buys[k].pick = pick

JournalIsTrue(r, it) ==
    Buying(it.pc) =>
        /\ it.journal.is # "before"
        /\ it.journal.is = "none" => \A k \in DOMAIN buys : ~IsFor(k, r, it.pick)
        /\ it.journal.is = "after" =>
              \A k \in DOMAIN buys : IsFor(k, r, it.pick) /\ Exposed(k) => k = it.journal.order
        /\ it.pc = "submits" => \A k \in DOMAIN buys : IsFor(k, r, it.pick) => ~Exposed(k)
        /\ OrderIsOut(it.pc) => it.journal.is = "after" /\ it.order = it.journal.order

BoughtSoFar == \A k \in DOMAIN buys : buys[k].pick <= run[buys[k].run].pick

OneExposedOrder ==
    \A k, l \in DOMAIN buys :
        Exposed(k) /\ Exposed(l) /\ buys[k].run = buys[l].run /\ buys[k].pick = buys[l].pick => k = l

PlanInv ==
    "forgets" \notin env.broker =>
        BoughtSoFar /\ OneExposedOrder /\ \A r \in RunId : JournalIsTrue(r, run[r])

LEMMA BuyFacts ==
    ASSUME RunTypes, NEW k \in DOMAIN buys
    PROVE  /\ buys[k].run \in RunId /\ buys[k].pick \in Nat /\ buys[k].pick # 0
           /\ run[buys[k].run].pick \in Nat
<1>1. buys[k] \in Buy
  BY DEF RunTypes
<1>2. \A it \in RunRow : it.pick \in Nat
  BY TradingRunAssumption DEF RunRow, TradingRunAssumption
<1>3. \A it \in Buy : it.run \in RunId /\ it.pick \in Nat /\ it.pick # 0
  BY TradingRunAssumption DEF Buy, Pick, TradingRunAssumption
<1>. QED
  BY <1>1, <1>2, <1>3 DEF RunTypes

\* A step of a run over orders that fade.
LEMMA PlanFades ==
    ASSUME RunTypes, PlanInv, "forgets" \notin env.broker, env' = env, Fades,
           NEW r \in RunId, NEW new \in RunRow, run' = [run EXCEPT ![r] = new],
           new.pick >= run[r].pick, JournalIsTrue(r, new)
    PROVE  PlanInv'
<1>0. /\ run \in [RunId -> RunRow] /\ run'[r] = new /\ \A s \in RunId \ {r} : run'[s] = run[s]
      /\ BoughtSoFar /\ OneExposedOrder /\ \A s \in RunId : JournalIsTrue(s, run[s])
  BY DEF RunTypes, PlanInv
<1>1. BoughtSoFar'
  <2> SUFFICES ASSUME NEW k \in DOMAIN buys PROVE buys'[k].pick <= run'[buys'[k].run].pick
    BY DEF BoughtSoFar, Fades
  <2>1. buys'[k].run = buys[k].run /\ buys'[k].pick = buys[k].pick
    BY DEF Fades
  <2>2. new.pick \in Nat /\ buys[k].pick <= run[buys[k].run].pick
    BY <1>0, TradingRunAssumption DEF RunRow, TradingRunAssumption, BoughtSoFar
  <2>3. CASE buys[k].run = r
    BY <1>0, <2>1, <2>2, <2>3, BuyFacts
  <2>4. CASE buys[k].run # r
    BY <1>0, <2>1, <2>2, <2>4, BuyFacts
  <2>. QED
    BY <2>3, <2>4
<1>2. OneExposedOrder'
  BY <1>0 DEF OneExposedOrder, Fades
<1>3. ASSUME NEW s \in RunId, NEW it, JournalIsTrue(s, it) PROVE JournalIsTrue(s, it)'
  BY <1>3 DEF JournalIsTrue, IsFor, Fades
<1>4. ASSUME NEW s \in RunId PROVE JournalIsTrue(s, run[s])'
  <2>1. CASE s = r
    BY <1>0, <1>3, <2>1 DEF JournalIsTrue, IsFor, Fades
  <2>2. CASE s # r
    BY <1>0, <2>2 DEF JournalIsTrue, IsFor, Fades
  <2>. QED
    BY <2>1, <2>2
<1>. QED
  BY <1>1, <1>2, <1>4 DEF PlanInv

\* A run submits an order, in an entry that has none that counts.
LEMMA PlanGrows ==
    ASSUME RunTypes, PlanInv, "forgets" \notin env.broker, env' = env,
           NEW r \in RunId, NEW new \in RunRow, run' = [run EXCEPT ![r] = new],
           new.pick >= run[r].pick, run[r].pc = "submits", buys' = Append(buys, NewBuy(r)),
           \/ new.pick = run[r].pick /\ new.pc = "waits" /\ new.order = Len(buys) + 1
              /\ new.journal = [is |-> "after", order |-> Len(buys) + 1]
           \/ new.pick > run[r].pick /\ new.pc = "looks" /\ new.journal = Unwritten
           \/ ~Buying(new.pc)
    PROVE  PlanInv'
<1> DEFINE last == Len(buys) + 1
<1>0. /\ run \in [RunId -> RunRow] /\ run'[r] = new /\ \A s \in RunId \ {r} : run'[s] = run[s]
      /\ BoughtSoFar /\ OneExposedOrder /\ \A s \in RunId : JournalIsTrue(s, run[s])
  BY DEF RunTypes, PlanInv
<1>1. /\ DOMAIN buys' = DOMAIN buys \union {last} /\ last \notin DOMAIN buys
      /\ buys'[last] = NewBuy(r) /\ \A k \in DOMAIN buys : buys'[k] = buys[k]
  BY SubmissionAdds DEF Buying
<1> HIDE DEF last
<1>2. buys'[last].run = r /\ buys'[last].pick = run[r].pick
  BY <1>1 DEF NewBuy
<1>3. \A k \in DOMAIN buys : IsFor(k, r, run[r].pick) => ~Exposed(k)
  BY <1>0 DEF JournalIsTrue, Buying
<1>4. \A k \in DOMAIN buys : Exposed(k)' <=> Exposed(k)
  BY <1>1 DEF Exposed, Living
<1>5. new.pick \in Nat /\ run[r].pick \in Nat
  BY <1>0, TradingRunAssumption DEF RunRow, TradingRunAssumption
<1>6. BoughtSoFar'
  <2> SUFFICES ASSUME NEW k \in DOMAIN buys' PROVE buys'[k].pick <= run'[buys'[k].run].pick
    BY DEF BoughtSoFar
  <2>1. CASE k = last
    BY <1>0, <1>2, <1>5, <2>1
  <2>2. CASE k \in DOMAIN buys /\ buys[k].run = r
    BY <1>0, <1>1, <1>5, <2>2, BuyFacts DEF BoughtSoFar
  <2>3. CASE k \in DOMAIN buys /\ buys[k].run # r
    BY <1>0, <1>1, <2>3, BuyFacts DEF BoughtSoFar
  <2>. QED
    BY <1>1, <2>1, <2>2, <2>3
<1>7. OneExposedOrder'
  <2> SUFFICES ASSUME NEW k \in DOMAIN buys', NEW l \in DOMAIN buys', Exposed(k)', Exposed(l)',
                      buys'[k].run = buys'[l].run, buys'[k].pick = buys'[l].pick
               PROVE  k = l
    BY DEF OneExposedOrder
  <2>1. CASE k \in DOMAIN buys /\ l \in DOMAIN buys
    BY <1>0, <1>1, <1>4, <2>1 DEF OneExposedOrder
  <2>2. CASE k \in DOMAIN buys /\ l = last
    BY <1>1, <1>2, <1>3, <1>4, <2>2 DEF IsFor
  <2>3. CASE k = last /\ l \in DOMAIN buys
    BY <1>1, <1>2, <1>3, <1>4, <2>3 DEF IsFor
  <2>. QED
    BY <1>1, <2>1, <2>2, <2>3
<1>8. ASSUME NEW s \in RunId PROVE JournalIsTrue(s, run[s])'
  <2>1. CASE s # r
    BY <1>0, <1>1, <1>2, <1>4, <2>1 DEF JournalIsTrue, IsFor
  <2>2. CASE s = r /\ new.pc = "waits" /\ new.pick = run[r].pick /\ new.order = Len(buys) + 1
                   /\ new.journal = [is |-> "after", order |-> Len(buys) + 1]
    BY <1>0, <1>1, <1>3, <1>4, <2>2 DEF JournalIsTrue, IsFor, last, Buying, OrderIsOut
  <2>3. CASE s = r /\ new.pc = "looks" /\ new.pick > run[r].pick /\ new.journal = Unwritten
    <3>1. \A k \in DOMAIN buys' : ~IsFor(k, r, new.pick)'
      BY <1>0, <1>1, <1>2, <1>5, <2>3, BuyFacts DEF IsFor, BoughtSoFar
    <3>. QED
      BY <1>0, <2>3, <3>1 DEF JournalIsTrue, Unwritten, Buying, OrderIsOut, IsFor
  <2>4. CASE s = r /\ ~Buying(new.pc)
    BY <1>0, <2>4 DEF JournalIsTrue
  <2>. QED
    BY <2>1, <2>2, <2>3, <2>4
<1>. QED
  BY <1>6, <1>7, <1>8 DEF PlanInv

LEMMA PlanInit == Init => PlanInv
<1> SUFFICES ASSUME Init PROVE PlanInv
  OBVIOUS
<1>1. DOMAIN buys = {} /\ run = [r \in RunId |-> NoRun]
  BY InitialRun DEF RunInit
<1>2. \A r \in RunId : ~Buying(run[r].pc)
  BY <1>1 DEF NoRun, Buying
<1>. QED
  BY <1>1, <1>2 DEF PlanInv, BoughtSoFar, OneExposedOrder, JournalIsTrue

\* Rows change outside of their entries, and no order does.
LEMMA PlanOutside ==
    ASSUME RunTypes, PlanInv, env' = env, buys' = buys,
           \A r \in RunId : run'[r].pick = run[r].pick /\ (run'[r] = run[r] \/ ~Buying(run'[r].pc))
    PROVE  PlanInv'
<1>1. \A k \in DOMAIN buys : buys[k].run \in RunId
  BY BuyFacts
<1>2. \A k \in DOMAIN buys : Exposed(k)' <=> Exposed(k)
  BY DEF Exposed, Living
<1>3. BoughtSoFar => BoughtSoFar'
  BY <1>1 DEF BoughtSoFar
<1>4. OneExposedOrder => OneExposedOrder'
  BY <1>2 DEF OneExposedOrder
<1>5. ASSUME NEW r \in RunId, JournalIsTrue(r, run[r]) PROVE JournalIsTrue(r, run[r])'
  BY <1>2, <1>5 DEF JournalIsTrue, IsFor
<1>. QED
  BY <1>3, <1>4, <1>5 DEF PlanInv

LEMMA PlanRunStep ==
    ASSUME RunTypes, PlanInv, "forgets" \notin env.broker, env' = env, NEW r \in RunId,
           RunStep(r)
    PROVE  PlanInv'
<1> DEFINE old == run[r]
<1>1. PICK new \in RunRow : run' = [run EXCEPT ![r] = new] /\ RunStepKind(r, new)
  BY RunStepIs DEF RunMoves
<1>2. /\ old \in RunRow /\ RowIsSound(old, DOMAIN buys)
      /\ BoughtSoFar /\ JournalIsTrue(r, old)
  BY DEF RunTypes, PlanInv
<1>3. old.pick \in Nat /\ new.pick \in Nat
  BY <1>2, TradingRunAssumption DEF RunRow, TradingRunAssumption
<1>4. ASSUME Fades, new.pick >= old.pick, JournalIsTrue(r, new) PROVE PlanInv'
  BY <1>1, <1>4, PlanFades
<1> USE DEF Buying, OrderIsOut, NotYet
<1>5. CASE IsOutside(old, new)
  <2>1. new.pick = old.pick /\ ~Buying(new.pc) /\ buys' = buys
    BY <1>5 DEF IsOutside, KeepsEntry
  <2>2. JournalIsTrue(r, new)
    BY <2>1 DEF JournalIsTrue
  <2>. QED
    BY <1>3, <1>4, <2>1, <2>2, NothingFades
<1>6. CASE IsFirst(old, new)
  <2>1. old.pick = 0 /\ new.pick = 1 /\ new.pc = "looks" /\ new.journal.is = "none" /\ buys' = buys
    BY <1>2, <1>6 DEF IsFirst, RowIsSound
  <2>2. \A k \in DOMAIN buys : ~IsFor(k, r, new.pick)
    BY <1>2, <2>1, BuyFacts DEF BoughtSoFar, IsFor
  <2>3. JournalIsTrue(r, new)
    BY <2>1, <2>2 DEF JournalIsTrue
  <2>. QED
    BY <1>3, <1>4, <2>1, <2>3, NothingFades
<1>7. CASE IsLook(old, new)
  <2>1. new.pick = old.pick /\ new.journal = old.journal /\ buys' = buys
    BY <1>7 DEF IsLook, KeepsEntry
  <2>2. JournalIsTrue(r, new)
    BY <1>2, <1>7, <2>1 DEF IsLook, JournalIsTrue, TakesOver
  <2>. QED
    BY <1>3, <1>4, <2>1, <2>2, NothingFades
<1>8. CASE IsGoAhead(old, new)
  <2>1. /\ new.pick = old.pick /\ new.journal = old.journal /\ buys' = buys /\ new.pc = "submits"
        /\ old.pc = "looks" /\ old.journal.is # "before" /\ ~TakesOver(old.journal)
    BY <1>8 DEF IsGoAhead, KeepsEntry
  <2>2. old.journal.is \in {"none", "before", "after"}
    <3>1. \A it \in RunRow : it.journal.is \in {"none", "before", "after"}
      BY DEF RunRow
    <3>. QED
      BY <1>2, <3>1
  <2>3. ASSUME NEW k \in DOMAIN buys, IsFor(k, r, old.pick) PROVE ~Exposed(k)
    <3>1. CASE old.journal.is = "none"
      BY <1>2, <2>1, <2>3, <3>1 DEF JournalIsTrue
    <3>2. CASE old.journal.is = "after"
      <4>1. Exposed(k) => k = old.journal.order
        BY <1>2, <2>1, <2>3, <3>2 DEF JournalIsTrue
      <4>2. ~Exposed(old.journal.order)
        BY <2>1, <3>2 DEF TakesOver, DeadOrder, Exposed, Living
      <4>. QED
        BY <4>1, <4>2
    <3>. QED
      BY <2>1, <2>2, <3>1, <3>2
  <2>4. JournalIsTrue(r, new)
    BY <1>2, <2>1, <2>3 DEF JournalIsTrue
  <2>. QED
    BY <1>3, <1>4, <2>1, <2>4, NothingFades
<1>9. CASE IsDone(old, new)
  <2>1. /\ Buying(old.pc) /\ new.journal = Unwritten
        /\ \/ new.pc = "looks" /\ new.pick = old.pick + 1
           \/ new.pc = "finishes" /\ new.pick = old.pick
    BY <1>9 DEF IsDone
  <2>2. new.pick >= old.pick
    BY <1>3, <2>1
  <2>3. JournalIsTrue(r, new)
    <3>1. CASE new.pc = "looks" /\ new.pick = old.pick + 1
      <4>1. \A k \in DOMAIN buys : ~IsFor(k, r, new.pick)
        BY <1>2, <1>3, <3>1, BuyFacts DEF BoughtSoFar, IsFor
      <4>. QED
        BY <2>1, <3>1, <4>1 DEF JournalIsTrue, Unwritten
    <3>. QED
      BY <2>1, <3>1 DEF JournalIsTrue
  <2>4. CASE old.pc = "submits" /\ buys' = Append(buys, NewBuy(r))
    <3>1. new.pc = "looks" => new.pick > old.pick
      BY <1>3, <2>1
    <3>2. (new.pick > old.pick /\ new.pc = "looks" /\ new.journal = Unwritten) \/ ~Buying(new.pc)
      BY <2>1, <3>1
    <3>3. run' = [run EXCEPT ![r] = new]
      BY <1>1
    <3> HIDE DEF Buying
    <3>. QED
      BY <2>2, <2>4, <3>2, <3>3, PlanGrows
  <2>5. CASE old.pc = "cancels" /\ buys' \in {buys, CancelOf(old.order)}
    <3>1. old.order \in DOMAIN buys
      BY <1>2, <2>5 DEF RowIsSound
    <3>. QED
      BY <1>4, <2>2, <2>3, <2>5, <3>1, CancelFades
  <2>6. CASE buys' = buys
    BY <1>4, <2>2, <2>3, <2>6, NothingFades
  <2>. QED
    BY <1>1, <1>9, <2>4, <2>5, <2>6 DEF RunStepKind, IsOutside, IsFirst, IsLook, IsGoAhead, IsSubmission
<1>10. CASE IsSubmission(old, new) /\ buys' = Append(buys, NewBuy(r))
  <2>1. /\ old.pc = "submits" /\ new.pc = "waits" /\ new.pick = old.pick /\ new.order = Len(buys) + 1
        /\ new.journal = [is |-> "after", order |-> Len(buys) + 1]
    BY <1>10 DEF IsSubmission
  <2>. QED
    <3>1. new.pick >= old.pick
      BY <1>3, <2>1
    <3>2. run' = [run EXCEPT ![r] = new] /\ buys' = Append(buys, NewBuy(r))
      BY <1>1, <1>10
    <3>. QED
      BY <2>1, <3>1, <3>2, PlanGrows
<1>11. CASE IsAnotherTry(old, new) /\ buys' \in {buys, CancelOf(old.order)}
  <2>1. /\ old.pc = "cancels" /\ new.pc = "looks" /\ new.pick = old.pick /\ new.journal = old.journal
    BY <1>11 DEF IsAnotherTry
  <2>2. old.order \in DOMAIN buys
    BY <1>2, <2>1 DEF RowIsSound
  <2>3. JournalIsTrue(r, new)
    BY <1>2, <2>1 DEF JournalIsTrue
  <2>. QED
    BY <1>3, <1>4, <1>11, <2>1, <2>2, <2>3, CancelFades
<1>. QED
  BY <1>1, <1>5, <1>6, <1>7, <1>8, <1>9, <1>10, <1>11 DEF RunStepKind

LEMMA PlanStep == RunTypes /\ PlanInv /\ [Next]_vars => PlanInv'
<1> SUFFICES ASSUME RunTypes, PlanInv, [Next]_vars PROVE PlanInv'
  OBVIOUS
<1>0. \A n \in Node : Dies(n) => env' = env
  BY DEF Dies
<1>1. CASE UNCHANGED <<env, crashes, runVars>>
  BY <1>1, PlanOutside DEF runVars
<1>2. ASSUME NEW n \in Node, Dies(n), RunsDie(n) PROVE PlanInv'
  <2>1. \A it \in RunRow : [it EXCEPT !.pc = "over"].pick = it.pick /\ [it EXCEPT !.pc = "over"].pc = "over"
    BY DEF RunRow
  <2>2. \A r \in RunId : run[r] \in RunRow /\ run'[r] \in {run[r], [run[r] EXCEPT !.pc = "over"]}
    BY <1>2 DEF RunTypes, RunsDie
  <2>3. \A r \in RunId : run'[r].pick = run[r].pick /\ (run'[r] = run[r] \/ ~Buying(run'[r].pc))
    BY <2>1, <2>2 DEF Buying
  <2>. QED
    BY <1>0, <1>2, <2>3, PlanOutside DEF RunsDie
<1>3. CASE TradingNext
  <2>0. env' = env
    BY <1>3 DEF TradingNext, processVars
  <2>1. ASSUME NEW n \in Node, StartRun(n) PROVE PlanInv'
    <3>1. PICK r \in 1..env.runs :
            run' = [run EXCEPT ![r].on = n, ![r].pc = "queued", ![r].status = "queued"]
      BY <2>1 DEF StartRun
    <3>2. r \in RunId
      BY EnvFacts, TradingRunAssumption DEF RunTypes, RunId, TradingRunAssumption
    <3>3. run' = [run EXCEPT ![r] = [run[r] EXCEPT !.on = n, !.pc = "queued", !.status = "queued"]]
          /\ run \in [RunId -> RunRow]
      BY <3>1, <3>2 DEF RunTypes
    <3>4. \A it \in RunRow : /\ [it EXCEPT !.on = n, !.pc = "queued", !.status = "queued"].pick = it.pick
                             /\ [it EXCEPT !.on = n, !.pc = "queued", !.status = "queued"].pc = "queued"
      BY DEF RunRow
    <3>5. \A s \in RunId : run'[s].pick = run[s].pick /\ (run'[s] = run[s] \/ ~Buying(run'[s].pc))
      BY <3>2, <3>3, <3>4 DEF Buying
    <3>. QED
      BY <2>0, <2>1, <3>5, PlanOutside DEF StartRun
  <2>2. ASSUME NEW n \in Node, ScheduleStep(n), ~StartRun(n) PROVE PlanInv'
    <3>1. UNCHANGED <<run, buys>>
      BY <2>2 DEF ScheduleStep, LeadSchedule, ReadConfig, StartIsBlocked, SetLastRunDate, EndSchedule
    <3>. QED
      BY <2>0, <3>1, PlanOutside
  <2>3. ASSUME NEW r \in RunId, RunStep(r) PROVE PlanInv'
    BY <2>0, <2>3, PlanRunStep DEF PlanInv
  <2>4. CASE SchedulerLapses
    BY <2>0, <2>4, PlanOutside DEF SchedulerLapses
  <2>5. ASSUME NEW k \in DOMAIN buys, BuyFills(k) \/ BuyIsRefused(k) \/ BuyIsCanceled(k) PROVE PlanInv'
    <3>1. Fades /\ run' = run
      BY <2>5, BrokerFades
    <3>2. BoughtSoFar => BoughtSoFar'
      BY <3>1 DEF BoughtSoFar, Fades
    <3>3. OneExposedOrder => OneExposedOrder'
      BY <3>1 DEF OneExposedOrder, Fades
    <3>4. ASSUME NEW r \in RunId, JournalIsTrue(r, run[r]) PROVE JournalIsTrue(r, run[r])'
      BY <3>1, <3>4 DEF JournalIsTrue, IsFor, Fades
    <3>. QED
      BY <2>0, <3>2, <3>3, <3>4 DEF PlanInv
  <2>. QED
    BY <1>3, <2>1, <2>2, <2>3, <2>4, <2>5 DEF TradingNext
<1>. QED
  BY <1>1, <1>2, <1>3, RunCases

-----------------------------------------------------------------------------
(***************************************************************************)
(* One run a day, when nothing fails: the lock of the scheduler is held    *)
(* until the date of the run is written.  Without Redis, where nobody      *)
(* holds a lock, no run gets to buy.                                       *)
(***************************************************************************)
Begun(r) == run[r].pc # "none"

OneRunADay ==
    /\ scheduler # "lost"
    /\ \A n \in Node : scheduling[n] # "idle" => scheduler = n
    /\ \A n \in Node : scheduling[n] = "due" => ~ranToday
    /\ (\E r \in RunId : Begun(r)) => ranToday \/ \E n \in Node : scheduling[n] = "started"
    /\ \A r, s \in RunId : Begun(r) /\ Begun(s) => r = s

NoRunBuys == \A r \in RunId : run[r].pc \in {"none", "queued", "over"} /\ run[r].pick = 0

DailyInv == NothingFails => IF env.redis THEN OneRunADay ELSE NoRunBuys

LEMMA DailyInit == Init => DailyInv
<1> SUFFICES ASSUME Init PROVE DailyInv
  OBVIOUS
<1>1. RunInit
  BY InitialRun
<1>2. \A r \in RunId : run[r].pc = "none" /\ run[r].pick = 0
  BY <1>1 DEF RunInit, NoRun
<1>3. scheduler = "none" /\ \A n \in Node : scheduling[n] = "idle"
  BY <1>1 DEF RunInit
<1>. QED
  BY <1>2, <1>3 DEF DailyInv, OneRunADay, NoRunBuys, Begun

LEMMA DailySchedule ==
    ASSUME RunTypes, NothingFails, env.redis, OneRunADay, NEW n \in Node, ScheduleStep(n)
    PROVE  OneRunADay'
<1>0. env.flaps = FALSE /\ env.faults = FALSE /\ Answers = {TRUE}
  BY EnvFacts DEF RunTypes, NothingFails, Answers
<1>1. scheduling \in [Node -> {"idle", "leads", "due", "started", "ends"}] /\ run \in [RunId -> RunRow]
      /\ ranToday \in BOOLEAN /\ "none" \notin Node
  BY NodeAssumption DEF RunTypes, NodeAssumption
<1> USE DEF Schedules
<1>2. CASE LeadSchedule(n)
  <2>1. scheduler = "none" /\ scheduler' = n /\ UNCHANGED <<ranToday, run>>
        /\ scheduling' = [scheduling EXCEPT ![n] = "leads"] /\ scheduling[n] = "idle"
    BY <1>0, <1>2 DEF LeadSchedule
  <2>2. \A m \in Node : scheduling[m] = "idle"
    BY <1>1, <2>1 DEF OneRunADay
  <2>3. scheduler' # "lost"
    BY <2>1, TradingRunAssumption DEF TradingRunAssumption
  <2>. QED
    BY <1>1, <2>1, <2>2, <2>3 DEF OneRunADay, Begun
<1>3. CASE ReadConfig(n)
  BY <1>1, <1>3 DEF ReadConfig, OneRunADay, Begun
<1>4. CASE StartIsBlocked(n)
  BY <1>1, <1>4 DEF StartIsBlocked, OneRunADay, Begun
<1>5. CASE StartRun(n)
  <2>1. PICK r \in 1..env.runs :
          /\ \A s \in RunId : run[s].pc = "none" <=> s >= r
          /\ run' = [run EXCEPT ![r].on = n, ![r].pc = "queued", ![r].status = "queued"]
    BY <1>5 DEF StartRun
  <2>2. scheduling[n] = "due" /\ scheduling' = [scheduling EXCEPT ![n] = "started"]
        /\ UNCHANGED <<ranToday, scheduler>>
    BY <1>5 DEF StartRun
  <2>3. scheduler = n /\ ~ranToday /\ \A m \in Node : scheduling[m] = "started" => m = n
    BY <2>2 DEF OneRunADay
  <2>4. \A s \in RunId : ~Begun(s)
    BY <2>2, <2>3 DEF OneRunADay
  <2>5. ASSUME NEW s \in RunId, s # r PROVE run'[s] = run[s]
    BY <1>1, <2>1, <2>5
  <2>6. \A s, t \in RunId : Begun(s)' /\ Begun(t)' => s = t
    BY <2>4, <2>5 DEF Begun
  <2>7. scheduling'[n] = "started"
    BY <1>1, <2>2
  <2>8. \A m \in Node : scheduling'[m] # "idle" => scheduler' = m
    BY <1>1, <2>2, <2>3 DEF OneRunADay
  <2>9. \A m \in Node : scheduling'[m] = "due" => ~ranToday'
    BY <2>2, <2>3
  <2>. QED
    BY <2>2, <2>6, <2>7, <2>8, <2>9 DEF OneRunADay
<1>6. CASE SetLastRunDate(n)
  BY <1>0, <1>1, <1>6 DEF SetLastRunDate, OneRunADay, Begun
<1>7. CASE EndSchedule(n)
  BY <1>0, <1>1, <1>7 DEF EndSchedule, OneRunADay, Begun
<1>. QED
  BY <1>2, <1>3, <1>4, <1>5, <1>6, <1>7 DEF ScheduleStep

LEMMA DailyStep == RunTypes /\ DailyInv /\ [Next]_vars => DailyInv'
<1> SUFFICES ASSUME RunTypes, DailyInv, [Next]_vars, NothingFails' PROVE (IF env.redis THEN OneRunADay ELSE NoRunBuys)'
  BY DEF DailyInv
<1>0. env' = env /\ NothingFails
  <2>1. CASE UNCHANGED <<env, crashes, runVars>>
    BY <2>1 DEF NothingFails
  <2>2. CASE TradingNext
    BY <2>2 DEF TradingNext, processVars, NothingFails
  <2>3. ASSUME NEW n \in Node, Dies(n) PROVE env' = env /\ NothingFails
    BY <2>3 DEF Dies, NothingFails
  <2>. QED
    BY <2>1, <2>2, <2>3, RunCases
<1>1. CASE UNCHANGED <<env, crashes, runVars>>
  BY <1>0, <1>1 DEF DailyInv, runVars, OneRunADay, NoRunBuys, Begun
<1>2. ASSUME NEW n \in Node, Dies(n) PROVE FALSE
  BY <1>0, <1>2 DEF RunTypes, NothingFails, Dies
<1>3. CASE TradingNext
  <2>1. CASE env.redis
    <3>1. OneRunADay
      BY <1>0, <2>1 DEF DailyInv
    <3>2. ASSUME NEW n \in Node, ScheduleStep(n) PROVE OneRunADay'
      BY <1>0, <2>1, <3>1, <3>2, DailySchedule
    <3>3. ASSUME NEW r \in RunId, RunStep(r) PROVE OneRunADay'
      <4>1. PICK new \in RunRow : /\ run' = [run EXCEPT ![r] = new] /\ RunStepKind(r, new)
                                  /\ UNCHANGED <<ranToday, scheduler, scheduling>>
        BY <1>0, <3>3, RunStepIs DEF RunMoves
      <4>2. run[r].pc # "none" /\ new.pc # "none"
        BY <4>1 DEF RunStepKind, IsOutside, IsFirst, IsLook, IsGoAhead, IsDone, IsSubmission, IsAnotherTry, Buying
      <4>3. \A s \in RunId : Begun(s)' <=> Begun(s)
        BY <4>1, <4>2 DEF Begun, RunTypes
      <4>. QED
        BY <3>1, <4>1, <4>3 DEF OneRunADay
    <3>4. ASSUME SchedulerLapses PROVE OneRunADay'
      BY <1>0, <3>1, <3>4, EnvFacts DEF SchedulerLapses, OneRunADay, NothingFails, RunTypes
    <3>5. ASSUME NEW k \in DOMAIN buys, BuyFills(k) \/ BuyIsRefused(k) \/ BuyIsCanceled(k) PROVE OneRunADay'
      BY <3>1, <3>5, BrokerFades DEF OneRunADay, Begun
    <3>. QED
      BY <1>0, <1>3, <2>1, <3>2, <3>3, <3>4, <3>5 DEF TradingNext
  <2>2. CASE ~env.redis
    <3>1. NoRunBuys /\ Answers = {FALSE} /\ ~env.flaps
      BY <1>0, <2>2, EnvFacts DEF DailyInv, Answers, NothingFails, RunTypes
    <3>2. ASSUME NEW n \in Node, StartRun(n) PROVE NoRunBuys'
      <4>1. PICK r \in 1..env.runs :
              run' = [run EXCEPT ![r].on = n, ![r].pc = "queued", ![r].status = "queued"]
        BY <3>2 DEF StartRun
      <4>2. r \in RunId
        BY EnvFacts, TradingRunAssumption DEF RunTypes, RunId, TradingRunAssumption
      <4>3. run' = [run EXCEPT ![r] = [run[r] EXCEPT !.on = n, !.pc = "queued", !.status = "queued"]]
            /\ run \in [RunId -> RunRow]
        BY <4>1, <4>2 DEF RunTypes
      <4>4. \A it \in RunRow : /\ [it EXCEPT !.on = n, !.pc = "queued", !.status = "queued"].pick = it.pick
                               /\ [it EXCEPT !.on = n, !.pc = "queued", !.status = "queued"].pc = "queued"
        BY DEF RunRow
      <4>. QED
        BY <3>1, <4>2, <4>3, <4>4 DEF NoRunBuys
    <3>3. ASSUME NEW n \in Node, ScheduleStep(n), ~StartRun(n) PROVE NoRunBuys'
      <4>1. UNCHANGED <<run, buys>>
        BY <3>3 DEF ScheduleStep, LeadSchedule, ReadConfig, StartIsBlocked, SetLastRunDate, EndSchedule
      <4>. QED
        BY <3>1, <4>1 DEF NoRunBuys
    <3>4. ASSUME NEW r \in RunId, RunStep(r) PROVE NoRunBuys'
      <4>1. PICK new \in RunRow : run' = [run EXCEPT ![r] = new] /\ RunStepKind(r, new)
        BY <1>0, <3>4, RunStepIs DEF RunMoves
      <4>2. run[r].pc \in {"none", "queued", "over"} /\ run[r].pick = 0
        BY <3>1 DEF NoRunBuys
      <4>3. new.pc = "over" /\ new.pick = 0
        BY <3>1, <4>1, <4>2 DEF RunStepKind, IsOutside, IsFirst, IsLook, IsGoAhead, IsDone, IsSubmission,
                                IsAnotherTry, Buying, KeepsEntry
      <4>. QED
        BY <3>1, <4>1, <4>3 DEF NoRunBuys, RunTypes
    <3>5. ASSUME SchedulerLapses PROVE NoRunBuys'
      BY <3>1, <3>5 DEF SchedulerLapses, NoRunBuys
    <3>6. ASSUME NEW k \in DOMAIN buys, BuyFills(k) \/ BuyIsRefused(k) \/ BuyIsCanceled(k) PROVE NoRunBuys'
      BY <3>1, <3>6, BrokerFades DEF NoRunBuys
    <3>. QED
      BY <1>0, <1>3, <2>2, <3>2, <3>3, <3>4, <3>5, <3>6 DEF TradingNext
  <2>. QED
    BY <2>1, <2>2
<1>. QED
  BY <1>1, <1>2, <1>3, RunCases

(***************************************************************************)
(* A daily run never has two orders for one of its entries that have       *)
(* bought something or may still, whatever raises, comes late or dies,     *)
(* while the journal keeps its rows; nor do two runs on one day, when      *)
(* nothing fails.                                                          *)
(***************************************************************************)
THEOREM BoughtWithinPlanHolds == Spec => []BoughtWithinPlan
<1>1. RunTypes /\ PlanInv /\ DailyInv => BoughtWithinPlan
  <2> SUFFICES ASSUME RunTypes, PlanInv, DailyInv, "forgets" \notin env.broker,
                      NEW k \in DOMAIN buys, NEW l \in DOMAIN buys,
                      Exposed(k), Exposed(l), buys[k].pick = buys[l].pick,
                      NothingFails \/ buys[k].run = buys[l].run
               PROVE  k = l
    BY DEF BoughtWithinPlan
  <2>1. OneExposedOrder /\ BoughtSoFar
    BY DEF PlanInv
  <2>2. CASE buys[k].run = buys[l].run
    BY <2>1, <2>2 DEF OneExposedOrder
  <2>3. CASE NothingFails
    <3>1. ASSUME NEW m \in DOMAIN buys PROVE Begun(buys[m].run) /\ run[buys[m].run].pick # 0
      <4>1. /\ buys[m].run \in RunId /\ buys[m].pick \in Nat /\ buys[m].pick # 0
            /\ run[buys[m].run].pick \in Nat /\ buys[m].pick <= run[buys[m].run].pick
        BY <2>1, BuyFacts DEF BoughtSoFar
      <4>2. run[buys[m].run].pick # 0
        BY <4>1
      <4>. QED
        BY <4>1, <4>2 DEF RunTypes, RowIsSound, NotYet, Begun
    <3>2. env.redis
      BY <2>3, <3>1, BuyFacts DEF DailyInv, NoRunBuys
    <3>3. buys[k].run = buys[l].run
      BY <2>3, <3>1, <3>2, BuyFacts DEF DailyInv, OneRunADay
    <3>. QED
      BY <2>2, <3>3
  <2>. QED
    BY <2>2, <2>3
<1>2. Spec => []PlanInv
  BY RunTypesHold, PlanInit, PlanStep, PTL DEF Spec
<1>3. Spec => []DailyInv
  BY RunTypesHold, DailyInit, DailyStep, PTL DEF Spec
<1>. QED
  BY <1>1, <1>2, <1>3, RunTypesHold, PTL

-----------------------------------------------------------------------------
(* Steps: what they are for the trading loop. *)

LEMMA InitialTrades == Init => env \in Environment /\ crashes = 0 /\ AutoInit
BY DEF Init, ProcessInit

LEMMA StepCases ==
    [Next]_vars => \/ AutoNext
                   \/ UNCHANGED <<env, crashes, autoVars>>
                   \/ \E n \in Node : Dies(n) /\ TraderDies(n)
<1> SUFFICES ASSUME [Next]_vars, ~AutoNext
             PROVE  \/ UNCHANGED <<env, crashes, autoVars>>
                    \/ \E n \in Node : Dies(n) /\ TraderDies(n)
  OBVIOUS
<1>1. CASE StartNext
  BY <1>1 DEF StartNext, Start, ListQueued, Requeue, Requeued, processVars
<1>2. CASE ScanNext \/ OutboxNext \/ ObservationNext \/ ReviewNext \/ TradingNext \/ PoolNext \/ CacheNext
  BY <1>2 DEF ScanNext, OutboxNext, ObservationNext, ReviewNext, TradingNext, PoolNext, CacheNext, processVars
<1>3. CASE TimeNext
  BY <1>3 DEF TimeNext, processVars
<1>4. ASSUME NEW n \in Node, Crash(n) PROVE \E m \in Node : Dies(m) /\ TraderDies(m)
  BY <1>4 DEF Crash
<1>5. CASE UNCHANGED vars
  BY <1>5 DEF vars, processVars
<1>. QED
  BY <1>1, <1>2, <1>3, <1>4, <1>5 DEF Next

-----------------------------------------------------------------------------
(* Types. *)

Snapshot == [id : Instance, day : 0..MaxDay, orders : Nat]

TradeTypes == env \in Environment /\ AutoTypeOK

LEMMA OrdersTodayType ==
    ASSUME day \in 0..MaxDay, NEW snapshot \in Snapshot
    PROVE  OrdersToday(snapshot) \in Nat
BY DEF OrdersToday, Snapshot

LEMMA Increment ==
    ASSUME NEW f \in [Instance -> Nat], NEW x
    PROVE  [f EXCEPT ![x] = @ + 1] \in [Instance -> Nat]
<1>1. ASSUME NEW i \in Instance PROVE [f EXCEPT ![x] = @ + 1][i] \in Nat
  BY <1>1
<1>. QED
  BY <1>1

LEMMA TradeTypesInit == Init => TradeTypes
<1> SUFFICES ASSUME Init PROVE TradeTypes
  OBVIOUS
<1>1. env \in Environment /\ AutoInit
  BY InitialTrades
<1>2. 0 \in 0..MaxDay
  BY AutoAssumption DEF AutoAssumption
<1>3. Asleep \in [pc : TickPc, batch : SUBSET Snapshot, at : Instance \union {"none"},
                  next : {"future", "past"}, orders : Nat, placed : BOOLEAN]
  BY DEF Asleep, TickPc
<1>4. row \in [Instance -> Rows]
  BY <1>1, <1>2 DEF AutoInit, Rows
<1>. QED
  BY <1>1, <1>2, <1>3, <1>4 DEF TradeTypes, AutoTypeOK, AutoInit, Snapshot

LEMMA TradeTypesStep == TradeTypes /\ [Next]_vars => TradeTypes'
<1> SUFFICES ASSUME TradeTypes, [Next]_vars PROVE TradeTypes'
  OBVIOUS
<1> DEFINE Tick == [pc : TickPc, batch : SUBSET Snapshot, at : Instance \union {"none"},
                    next : {"future", "past"}, orders : Nat, placed : BOOLEAN]
<1>0. /\ row \in [Instance -> Rows] /\ day \in 0..MaxDay /\ leader \in Node \union {"none"}
      /\ tick \in [Node -> Tick]
      /\ wakes \in [Instance -> Nat] /\ cycles \in [Instance -> Nat] /\ placed \in [Instance -> Nat]
      /\ env \in Environment
  BY DEF TradeTypes, AutoTypeOK, Snapshot
<1>1. SUFFICES /\ row' \in [Instance -> Rows] /\ day' \in 0..MaxDay /\ leader' \in Node \union {"none"}
               /\ tick' \in [Node -> Tick]
               /\ wakes' \in [Instance -> Nat] /\ cycles' \in [Instance -> Nat]
               /\ placed' \in [Instance -> Nat]
               /\ env' \in Environment
  BY DEF TradeTypes, AutoTypeOK, Snapshot
<1>2. Asleep \in Tick /\ \A n \in Node : Leave(n) \in Tick
  BY <1>0 DEF Asleep, Leave, TickPc
<1> HIDE DEF Tick
<1>3. CASE UNCHANGED <<env, crashes, autoVars>>
  BY <1>0, <1>3 DEF autoVars
<1>4. ASSUME NEW n \in Node, Dies(n), TraderDies(n) PROVE <1>1!1
  BY <1>0, <1>2, <1>4 DEF Dies, TraderDies
<1>5. CASE AutoNext
  <2>0. env' = env
    BY <1>5 DEF AutoNext, processVars
  <2>1. ASSUME NEW i \in Instance, IntervalPasses(i) PROVE <1>1!1
    <3>1. \A n \in Node : [tick[n] EXCEPT !.next = "past"] \in Tick
      BY <1>0 DEF Tick
    <3>. QED
      BY <1>0, <2>0, <2>1, <3>1 DEF IntervalPasses, Rows
  <2>2. ASSUME NEW i \in Instance, UserStarts(i) \/ UserPauses(i) \/ UserStops(i) PROVE <1>1!1
    BY <1>0, <2>0, <2>2 DEF UserStarts, UserPauses, UserStops, Rows
  <2>3. CASE NextDay
    <3>1. env.days \in 0..MaxDay
      BY <1>0, AutoAssumption DEF AutoAssumption
    <3>. QED
      BY <1>0, <2>0, <2>3, <3>1, AutoAssumption DEF NextDay, AutoAssumption
  <2>4. CASE LeaderLapses
    BY <1>0, <2>0, <2>4 DEF LeaderLapses
  <2>5. ASSUME NEW n \in Node, TickStep(n) PROVE <1>1!1
    <3>1. CASE Lead(n)
      BY <1>0, <2>0, <3>1 DEF Lead, Tick, TickPc
    <3>2. CASE ListDue(n)
      <4>1. {[id |-> i, day |-> row[i].day, orders |-> row[i].orders] :
                i \in {j \in Instance : IsDue(j)}} \in SUBSET Snapshot
        BY <1>0 DEF Snapshot, Rows
      <4>2. tick' = [tick EXCEPT ![n] = [tick[n] EXCEPT !.pc = "batch", !.batch =
                       {[id |-> i, day |-> row[i].day, orders |-> row[i].orders] :
                           i \in {j \in Instance : IsDue(j)}}]]
        BY <1>0, <3>2, Zenon DEF ListDue
      <4>3. tick' \in [Node -> Tick]
        <5> DEFINE Due == {[id |-> i, day |-> row[i].day, orders |-> row[i].orders] :
                             i \in {j \in Instance : IsDue(j)}}
        <5>1. Due \in SUBSET Snapshot /\ tick[n] \in Tick
          BY <1>0, <4>1
        <5>2. tick' = [tick EXCEPT ![n] = [tick[n] EXCEPT !.pc = "batch", !.batch = Due]]
          BY <4>2
        <5> HIDE DEF Due
        <5>3. [tick[n] EXCEPT !.pc = "batch", !.batch = Due] \in Tick
          BY ONLY <5>1 DEF Tick, TickPc
        <5>4. tick \in [Node -> Tick]
          BY <1>0
        <5>. QED
          BY ONLY <5>2, <5>3, <5>4
      <4>. QED
        BY <1>0, <2>0, <3>2, <4>3 DEF ListDue
    <3>3. CASE EndTick(n)
      BY <1>0, <1>2, <2>0, <3>3 DEF EndTick
    <3>4. ASSUME NEW snapshot \in tick[n].batch, Claim(n, snapshot) PROVE <1>1!1
      <4>1. snapshot \in Snapshot
        BY <1>0 DEF Tick
      <4>2. OrdersToday(snapshot) \in Nat
        BY <1>0, <4>1, OrdersTodayType
      <4>3. row' \in [Instance -> Rows]
        <5>1. row' = [row EXCEPT ![snapshot.id] =
                       [row[snapshot.id] EXCEPT !.next = "future", !.day = day, !.orders = OrdersToday(snapshot)]]
          BY <1>0, <3>4, <4>1 DEF Claim, Snapshot
        <5>. QED
          BY <1>0, <4>1, <4>2, <5>1 DEF Rows, Snapshot
      <4>4. tick' \in [Node -> Tick]
        <5>1. tick' = [tick EXCEPT ![n] = Claimed(n, snapshot)]
          BY <3>4, Zenon DEF Claim
        <5>2. Claimed(n, snapshot) \in Tick
          BY <1>0, <4>1, <4>2 DEF Claimed, Tick, TickPc, Snapshot
        <5>. QED
          BY <1>0, <5>1, <5>2
      <4>. QED
        BY <1>0, <2>0, <3>4, <4>3, <4>4 DEF Claim
    <3>5. CASE SitOut(n) \/ CycleFails(n)
      <4>1. tick' = [tick EXCEPT ![n] = Leave(n)] /\ UNCHANGED <<row, day, leader, wakes, cycles, placed>>
        BY <3>5 DEF SitOut, CycleFails
      <4>. QED
        BY <1>0, <1>2, <2>0, <4>1
    <3>6. CASE RunCycle(n)
      <4>1. tick' \in [Node -> Tick]
        <5>1. PICK places \in BOOLEAN : tick' = [tick EXCEPT ![n] = [tick[n] EXCEPT !.pc = "ran", !.placed = places]]
          BY <1>0, <3>6 DEF RunCycle
        <5>2. [tick[n] EXCEPT !.pc = "ran", !.placed = places] \in Tick
          <6>1. tick[n] \in Tick /\ places \in BOOLEAN
            BY <1>0
          <6>. QED
            BY ONLY <6>1 DEF Tick, TickPc
        <5>3. tick \in [Node -> Tick]
          BY <1>0
        <5>. QED
          BY ONLY <5>1, <5>2, <5>3
      <4>2. cycles' \in [Instance -> Nat] /\ placed' \in [Instance -> Nat]
        <5>1. PICK places \in BOOLEAN :
                 /\ cycles' = [cycles EXCEPT ![tick[n].at] = @ + 1]
                 /\ placed' = [placed EXCEPT ![tick[n].at] = IF places THEN @ + 1 ELSE @]
          BY <3>6, Zenon DEF RunCycle
        <5>2. placed' = [placed EXCEPT ![tick[n].at] = @ + 1] \/ placed' = placed
          <6>1. CASE places
            BY <5>1, <6>1
          <6>2. CASE ~places
            BY <1>0, <5>1, <6>2
          <6>. QED
            BY <6>1, <6>2
        <5>. QED
          BY <1>0, <5>1, <5>2, Increment
      <4>. QED
        BY <1>0, <2>0, <3>6, <4>1, <4>2 DEF RunCycle
    <3>7. CASE FinishCycle(n)
      <4>1. tick[n].next \in {"future", "past"} /\ tick[n].orders \in Nat /\ tick[n].orders + 1 \in Nat
        BY <1>0 DEF Tick
      <4>2. row' \in [Instance -> Rows]
        <5>1. PICK orders \in Nat :
                 row' = [row EXCEPT ![tick[n].at] =
                          [row[tick[n].at] EXCEPT !.next = tick[n].next, !.day = day, !.orders = orders]]
          BY <3>7, <4>1 DEF FinishCycle
        <5>. QED
          BY <1>0, <4>1, <5>1 DEF Rows
      <4>. QED
        BY <1>0, <1>2, <2>0, <3>7, <4>2 DEF FinishCycle
    <3>. QED
      BY <2>5, <3>1, <3>2, <3>3, <3>4, <3>5, <3>6, <3>7 DEF TickStep
  <2>. QED
    BY <1>5, <2>1, <2>2, <2>3, <2>4, <2>5 DEF AutoNext
<1>. QED
  BY <1>3, <1>4, <1>5, StepCases

(* The rows, the locks and what the schedulers know keep their types, in
   deployments of any size and over any number of deaths of processes. *)
THEOREM TradeTypesHold == Spec => []AutoTypeOK
<1>1. Spec => []TradeTypes
  BY TradeTypesInit, TradeTypesStep, PTL DEF Spec
<1>2. TradeTypes => AutoTypeOK
  BY DEF TradeTypes
<1>. QED
  BY <1>1, <1>2, PTL

-----------------------------------------------------------------------------
(* Shape of what a scheduler knows: only traders do anything, a cycle has an
   instance, and a batch has an instance at most once. *)

TickShape ==
    \A n \in Node :
        /\ n \notin env.traders => tick[n] = Asleep
        /\ tick[n].at # "none" <=> tick[n].pc \in {"claimed", "ran"}
        /\ tick[n].pc \in {"idle", "leading"} => tick[n].batch = {}
        /\ \A s, z \in tick[n].batch : s.id = z.id => s = z
        /\ \A s \in tick[n].batch : s.id # tick[n].at

ShapeInv == TradeTypes /\ TickShape

LEMMA TickFields ==
    ASSUME TradeTypes, NEW n \in Node
    PROVE  /\ tick[n] \in [pc : TickPc, batch : SUBSET Snapshot, at : Instance \union {"none"},
                           next : {"future", "past"}, orders : Nat, placed : BOOLEAN]
           /\ tick[n].pc \in TickPc
           /\ tick[n].batch \subseteq Snapshot
           /\ tick[n].at \in Instance \union {"none"}
           /\ tick[n].next \in {"future", "past"}
           /\ tick[n].orders \in Nat
           /\ tick[n].placed \in BOOLEAN
BY DEF TradeTypes, AutoTypeOK, Snapshot

LEMMA ShapeInit == Init => TickShape
BY InitialTrades DEF AutoInit, TickShape, Asleep

LEMMA ShapeStep == TradeTypes /\ TickShape /\ [Next]_vars => TickShape'
<1> SUFFICES ASSUME TradeTypes, TickShape, [Next]_vars PROVE TickShape'
  OBVIOUS
<1>0. DOMAIN tick = Node /\ "none" \notin Instance
  BY AutoAssumption DEF TradeTypes, AutoTypeOK, AutoAssumption
<1> DEFINE Shaped(n, t) ==
      /\ n \notin env.traders => t = Asleep
      /\ t.at # "none" <=> t.pc \in {"claimed", "ran"}
      /\ t.pc \in {"idle", "leading"} => t.batch = {}
      /\ \A s, z \in t.batch : s.id = z.id => s = z
      /\ \A s \in t.batch : s.id # t.at
<1>1. \A n \in Node : Shaped(n, tick[n]) /\ Shaped(n, Asleep)
  BY DEF TickShape, Asleep
<1>2. SUFFICES env' = env /\ \A n \in Node : Shaped(n, tick'[n])
  BY DEF TickShape
<1> HIDE DEF Shaped
<1>3. CASE UNCHANGED <<env, crashes, autoVars>>
  BY <1>1, <1>3 DEF autoVars
<1>4. ASSUME NEW n \in Node, Dies(n), TraderDies(n) PROVE <1>2!1
  BY <1>0, <1>1, <1>4 DEF Dies, TraderDies
<1>5. CASE AutoNext
  <2>0. env' = env
    BY <1>5 DEF AutoNext, processVars
  <2>1. ASSUME NEW i \in Instance, IntervalPasses(i) PROVE <1>2!1
    <3>1. ASSUME NEW n \in Node PROVE Shaped(n, tick'[n])
      <4>1. CASE tick[n].at = i
        <5>1. tick'[n] = [tick[n] EXCEPT !.next = "past"]
          BY <2>1, <4>1 DEF IntervalPasses
        <5>2. tick[n] # Asleep
          BY <1>0, <4>1 DEF Asleep
        <5>. QED
          BY <1>1, <5>1, <5>2, TickFields DEF Shaped
      <4>2. CASE tick[n].at # i
        BY <1>1, <2>1, <4>2 DEF IntervalPasses
      <4>. QED
        BY <4>1, <4>2
    <3>. QED
      BY <2>0, <3>1
  <2>2. CASE \/ NextDay \/ LeaderLapses
             \/ \E i \in Instance : UserStarts(i) \/ UserPauses(i) \/ UserStops(i)
    BY <1>1, <2>0, <2>2 DEF NextDay, LeaderLapses, UserStarts, UserPauses, UserStops
  <2>3. ASSUME NEW n \in Node, TickStep(n) PROVE <1>2!1
    <3>1. (\A m \in Node \ {n} : tick'[m] = tick[m]) /\ Shaped(n, tick'[n]) => <1>2!1
      BY <1>1, <2>0
    <3>2. CASE Lead(n)
      BY <1>0, <1>1, <3>1, <3>2, TickFields DEF Lead, Shaped
    <3>3. CASE ListDue(n)
      <4>1. tick'[n].pc = "batch" /\ tick'[n].at = tick[n].at
            /\ tick'[n].batch = {[id |-> i, day |-> row[i].day, orders |-> row[i].orders] :
                                    i \in {j \in Instance : IsDue(j)}}
        BY <1>0, <3>3, TickFields DEF ListDue
      <4>2. tick[n] # Asleep
        BY <3>3 DEF ListDue, Asleep
      <4>3. tick[n].at = "none" /\ n \in env.traders
        BY <1>1, <3>3, <4>2 DEF ListDue, Shaped
      <4>4. /\ \A s, z \in tick'[n].batch : s.id = z.id => s = z
            /\ \A s \in tick'[n].batch : s.id \in Instance
        BY <4>1
      <4>5. Shaped(n, tick'[n])
        BY <1>0, <4>1, <4>3, <4>4 DEF Shaped
      <4>. QED
        BY <1>0, <3>1, <3>3, <4>5 DEF ListDue
    <3>4. CASE EndTick(n)
      BY <1>0, <1>1, <3>1, <3>4 DEF EndTick
    <3>5. ASSUME NEW snapshot \in tick[n].batch, Claim(n, snapshot) PROVE <1>2!1
      <4>1. snapshot.id \in Instance
        BY TickFields DEF Snapshot
      <4>2. tick'[n].pc = "claimed" /\ tick'[n].at = snapshot.id
            /\ tick'[n].batch = tick[n].batch \ {snapshot}
        <5>1. tick' = [tick EXCEPT ![n] = Claimed(n, snapshot)]
          BY <3>5, Zenon DEF Claim
        <5>. QED
          BY <1>0, <5>1, TickFields DEF Claimed
      <4>3. tick[n] # Asleep
        BY <3>5 DEF Claim, Asleep
      <4>4. Shaped(n, tick'[n])
        BY <1>0, <1>1, <4>1, <4>2, <4>3 DEF Shaped
      <4>. QED
        BY <1>0, <3>1, <3>5, <4>4 DEF Claim
    <3>6. CASE SitOut(n) \/ CycleFails(n) \/ FinishCycle(n)
      <4>1. tick'[n].pc = "batch" /\ tick'[n].at = "none" /\ tick'[n].batch = tick[n].batch
        <5>1. tick'[n] = Leave(n)
          BY <1>0, <3>6, Zenon DEF SitOut, CycleFails, FinishCycle
        <5>. QED
          BY <5>1 DEF Leave, Asleep
      <4>2. tick[n] # Asleep
        <5>1. tick[n].pc = "claimed" \/ tick[n].pc = "ran" \/ tick[n].at # "none"
          BY <3>6 DEF SitOut, CycleFails, FinishCycle
        <5>2. Asleep.pc = "idle" /\ Asleep.at = "none"
          BY DEF Asleep
        <5>. QED
          BY <5>1, <5>2
      <4>3. \A s \in tick[n].batch : s.id \in Instance
        BY TickFields DEF Snapshot
      <4>4. Shaped(n, tick'[n])
        BY <1>0, <1>1, <4>1, <4>2, <4>3 DEF Shaped
      <4>. QED
        BY <1>0, <3>1, <3>6, <4>4 DEF SitOut, CycleFails, FinishCycle
    <3>7. CASE RunCycle(n)
      <4>1. tick'[n].pc = "ran" /\ tick'[n].at = tick[n].at /\ tick'[n].batch = tick[n].batch
        BY <1>0, <3>7, TickFields DEF RunCycle
      <4>2. tick[n] # Asleep /\ tick[n].pc = "claimed"
        BY <3>7 DEF RunCycle, Asleep
      <4>3. Shaped(n, tick'[n])
        BY <1>1, <4>1, <4>2 DEF Shaped
      <4>. QED
        BY <1>0, <3>1, <3>7, <4>3 DEF RunCycle
    <3>. QED
      BY <2>3, <3>2, <3>3, <3>4, <3>5, <3>6, <3>7 DEF TickStep
  <2>. QED
    BY <1>5, <2>1, <2>2, <2>3 DEF AutoNext
<1>. QED
  BY <1>3, <1>4, <1>5, StepCases

LEMMA ShapeHolds == Spec => []ShapeInv
<1>1. Init => ShapeInv
  BY TradeTypesInit, ShapeInit DEF ShapeInv
<1>2. ShapeInv /\ [Next]_vars => ShapeInv'
  BY TradeTypesStep, ShapeStep DEF ShapeInv
<1>. QED
  BY <1>1, <1>2, PTL DEF Spec

\* With one trader, everybody else is asleep while it does something.
LEMMA TheOthersSleep ==
    ASSUME ShapeInv, OneTrader, NEW n \in Node, n \in env.traders, NEW m \in Node, m # n
    PROVE  tick[m] = Asleep
<1>1. env.traders \subseteq Node /\ IsFiniteSet(env.traders)
  BY NodeAssumption, AutoAssumption, FS_Subset DEF ShapeInv, TradeTypes, NodeAssumption, AutoAssumption
<1>2. ASSUME m \in env.traders PROVE FALSE
  <2>1. {n, m} \subseteq env.traders
    BY <1>2
  <2>2. Cardinality({n, m}) <= Cardinality(env.traders)
    BY <1>1, <2>1, FS_Subset
  <2>3. Cardinality({n}) = 1 /\ IsFiniteSet({n}) /\ Cardinality({n} \union {m}) = Cardinality({n}) + 1
    BY FS_Singleton, FS_AddElement
  <2>4. {n} \union {m} = {n, m} /\ Cardinality(env.traders) \in Nat
    BY <1>1, FS_CardinalityType
  <2>. QED
    BY <2>2, <2>3, <2>4 DEF OneTrader
<1>. QED
  BY <1>2 DEF ShapeInv, TickShape

LEMMA Solo ==
    ASSUME ShapeInv, OneTrader, NEW n \in Node, TickStep(n), NEW m \in Node, m # n
    PROVE  tick'[m] = tick[m] /\ tick[m].pc = "idle" /\ tick[m].at = "none" /\ tick[m].batch = {}
<1>0. DOMAIN tick = Node
  BY DEF ShapeInv, TradeTypes, AutoTypeOK
<1>1. n \in env.traders
  <2>1. CASE Lead(n)
    BY <2>1 DEF Lead
  <2>2. CASE ~Lead(n)
    <3>1. tick[n].pc # "idle" \/ tick[n].at # "none"
      BY <2>2 DEF TickStep, ListDue, EndTick, Claim, SitOut, RunCycle, FinishCycle, CycleFails
    <3>2. tick[n] # Asleep
      BY <3>1 DEF Asleep
    <3>. QED
      BY <3>2 DEF ShapeInv, TickShape
  <2>. QED
    BY <2>1, <2>2
<1>2. tick[m] = Asleep
  BY <1>1, TheOthersSleep
<1>3. tick'[m] = tick[m]
  <2>1. CASE Lead(n) \/ ListDue(n) \/ EndTick(n) \/ SitOut(n) \/ CycleFails(n)
    BY <1>0, <2>1 DEF Lead, ListDue, EndTick, SitOut, CycleFails
  <2>2. CASE RunCycle(n) \/ FinishCycle(n)
    BY <1>0, <2>2 DEF RunCycle, FinishCycle
  <2>3. ASSUME NEW snapshot \in tick[n].batch, Claim(n, snapshot) PROVE tick'[m] = tick[m]
    BY <1>0, <2>3 DEF Claim
  <2>. QED
    BY <2>1, <2>2, <2>3 DEF TickStep
<1>. QED
  BY <1>2, <1>3 DEF Asleep

-----------------------------------------------------------------------------
(* One cycle for each time an instance becomes due.  A wake that has not been
   spent on a cycle is seen in one of three places: the row is due, the
   instance is in a batch, or it is claimed and its cycle has not begun. *)

Waits(i) == IsDue(i) \/ \E n \in Node : \E s \in tick[n].batch : s.id = i

IsClaimed(i) == \E n \in Node : tick[n].pc = "claimed" /\ tick[n].at = i

Spent(i) == cycles[i] + (IF Waits(i) THEN 1 ELSE 0) + (IF IsClaimed(i) THEN 1 ELSE 0)

\* A cycle whose wake time has passed leaves a row behind that is past as well.
PastInTheRow ==
    \A n \in Node : tick[n].at # "none" /\ tick[n].next = "past" => row[tick[n].at].next # "future"

WakeInv == OneTrader => PastInTheRow /\ \A i \in Instance : Spent(i) <= wakes[i]

LEMMA WakeInit == Init => WakeInv
<1> SUFFICES ASSUME Init PROVE WakeInv
  OBVIOUS
<1>1. AutoInit
  BY InitialTrades
<1>2. \A n \in Node : tick[n].pc = "idle" /\ tick[n].at = "none" /\ tick[n].batch = {}
  BY <1>1 DEF AutoInit, Asleep
<1>3. PastInTheRow
  BY <1>2 DEF PastInTheRow
<1>4. ASSUME NEW i \in Instance PROVE Spent(i) <= wakes[i]
  <2>1. ~Waits(i) /\ ~IsClaimed(i)
    BY <1>1, <1>2 DEF AutoInit, Waits, IsDue, IsClaimed
  <2>. QED
    BY <1>1, <2>1 DEF AutoInit, Spent
<1>. QED
  BY <1>3, <1>4 DEF WakeInv

\* A step after which i waits, or is claimed, only if it was before.
LEMMA NoNewWake ==
    ASSUME TradeTypes, TradeTypes', NEW i \in Instance,
           cycles'[i] = cycles[i], Waits(i)' => Waits(i), IsClaimed(i)' => IsClaimed(i),
           wakes'[i] = wakes[i], Spent(i) <= wakes[i]
    PROVE  Spent(i)' <= wakes'[i]
<1>1. cycles[i] \in Nat /\ wakes[i] \in Nat
  BY DEF TradeTypes, AutoTypeOK
<1>. QED
  BY <1>1 DEF Spent

\* A step that wakes i.
LEMMA NewWake ==
    ASSUME TradeTypes, TradeTypes', NEW i \in Instance,
           cycles'[i] = cycles[i], IsClaimed(i)' => IsClaimed(i),
           wakes'[i] = wakes[i] + 1, Spent(i) <= wakes[i]
    PROVE  Spent(i)' <= wakes'[i]
<1>1. cycles[i] \in Nat /\ wakes[i] \in Nat
  BY DEF TradeTypes, AutoTypeOK
<1>. QED
  BY <1>1 DEF Spent

\* The clock and the users change no scheduler's batch or claim.
LEMMA WakeClock ==
    ASSUME TradeTypes, TradeTypes', OneTrader, WakeInv,
           NEW i \in Instance, IntervalPasses(i) \/ UserStarts(i) \/ UserPauses(i) \/ UserStops(i)
    PROVE  PastInTheRow' /\ \A j \in Instance : Spent(j)' <= wakes'[j]
<1> DEFINE Same(n) == tick'[n].pc = tick[n].pc /\ tick'[n].at = tick[n].at /\ tick'[n].batch = tick[n].batch
<1>0. row \in [Instance -> Rows] /\ wakes \in [Instance -> Nat] /\ "none" \notin Instance
  BY AutoAssumption DEF TradeTypes, AutoTypeOK, AutoAssumption
<1>1. \A j \in Instance : Spent(j) <= wakes[j]
  BY DEF WakeInv
<1>2. ASSUME NEW n \in Node
      PROVE  Same(n) /\ (tick'[n] = tick[n] \/ (IntervalPasses(i) /\ tick[n].at = i))
  <2>1. tick[n] \in [pc : TickPc, batch : SUBSET Snapshot, at : Instance \union {"none"},
                     next : {"future", "past"}, orders : Nat, placed : BOOLEAN]
    BY TickFields
  <2>2. CASE IntervalPasses(i)
    <3>1. tick'[n] = IF tick[n].at = i THEN [tick[n] EXCEPT !.next = "past"] ELSE tick[n]
      BY <2>2 DEF IntervalPasses
    <3>. QED
      BY <2>1, <2>2, <3>1
  <2>3. CASE UserStarts(i) \/ UserPauses(i) \/ UserStops(i)
    BY <2>3 DEF UserStarts, UserPauses, UserStops
  <2>. QED
    BY <2>2, <2>3
<1>3. \A j \in Instance : (IsClaimed(j)' <=> IsClaimed(j)) /\ cycles'[j] = cycles[j]
  BY <1>2 DEF IsClaimed, IntervalPasses, UserStarts, UserPauses, UserStops
<1>4. ASSUME NEW j \in Instance, j # i PROVE Spent(j)' <= wakes'[j]
  <2>1. row'[j] = row[j] /\ wakes'[j] = wakes[j]
    BY <1>0, <1>4 DEF IntervalPasses, UserStarts, UserPauses, UserStops
  <2>2. Waits(j)' => Waits(j)
    BY <1>2, <2>1 DEF Waits, IsDue
  <2>. QED
    BY <1>1, <1>3, <2>1, <2>2, NoNewWake
<1>5. Spent(i)' <= wakes'[i]
  <2>1. CASE wakes'[i] = wakes[i] + 1
    BY <1>1, <1>3, <2>1, NewWake
  <2>2. CASE wakes'[i] # wakes[i] + 1
    <3>1. IsDue(i)' => IsDue(i)
      <4>1. CASE IntervalPasses(i)
        BY <1>0, <2>2, <4>1 DEF IntervalPasses, IsDue, Rows
      <4>2. CASE UserStarts(i)
        BY <1>0, <2>2, <4>2 DEF UserStarts
      <4>3. CASE UserPauses(i) \/ UserStops(i)
        BY <1>0, <4>3 DEF UserPauses, UserStops, IsDue, Rows
      <4>. QED
        BY <4>1, <4>2, <4>3
    <3>2. wakes'[i] = wakes[i]
      BY <1>0, <2>2 DEF IntervalPasses, UserStarts, UserPauses, UserStops
    <3>3. Waits(i)' => Waits(i)
      BY <1>2, <3>1 DEF Waits
    <3>. QED
      BY <1>1, <1>3, <3>2, <3>3, NoNewWake
  <2>. QED
    BY <2>1, <2>2
<1>6. ASSUME NEW n \in Node, tick'[n].at # "none", tick'[n].next = "past"
      PROVE  row'[tick'[n].at].next # "future"
  <2>1. tick[n].at \in Instance /\ tick'[n].at = tick[n].at
    BY <1>2, <1>6, TickFields
  <2>2. CASE tick[n].at = i
    <3>1. row'[i].next = row[i].next \/ row'[i].next # "future"
      BY <1>0 DEF IntervalPasses, UserStarts, UserPauses, UserStops, Rows
    <3>2. CASE IntervalPasses(i)
      BY <1>0, <2>1, <2>2, <3>2 DEF IntervalPasses, Rows
    <3>3. CASE ~IntervalPasses(i)
      BY <1>2, <1>6, <2>1, <2>2, <3>1, <3>3 DEF WakeInv, PastInTheRow
    <3>. QED
      BY <3>2, <3>3
  <2>3. CASE tick[n].at # i
    <3>1. row'[tick[n].at] = row[tick[n].at] /\ tick'[n] = tick[n]
      BY <1>0, <1>2, <2>1, <2>3 DEF IntervalPasses, UserStarts, UserPauses, UserStops
    <3>. QED
      BY <1>6, <2>1, <3>1 DEF WakeInv, PastInTheRow
  <2>. QED
    BY <2>2, <2>3
<1>. QED
  BY <1>4, <1>5, <1>6 DEF PastInTheRow

\* With one trader, whoever ends up not claiming anything leaves nobody who does.
LEMMA WakeTick ==
    ASSUME ShapeInv, ShapeInv', OneTrader, WakeInv, env' = env, NEW n \in Node, TickStep(n)
    PROVE  PastInTheRow' /\ \A j \in Instance : Spent(j)' <= wakes'[j]
<1> USE DEF ShapeInv
<1>0. /\ row \in [Instance -> Rows] /\ wakes \in [Instance -> Nat] /\ cycles \in [Instance -> Nat]
      /\ DOMAIN tick = Node /\ "none" \notin Instance
  BY AutoAssumption DEF TradeTypes, AutoTypeOK, AutoAssumption
<1>1. /\ \A j \in Instance : Spent(j) <= wakes[j]
      /\ \A m \in Node : tick[m].at # "none" /\ tick[m].next = "past" => row[tick[m].at].next # "future"
  BY DEF WakeInv, PastInTheRow
<1>3. ASSUME NEW m \in Node, m # n
      PROVE  tick'[m] = tick[m] /\ tick[m].pc = "idle" /\ tick[m].at = "none" /\ tick[m].batch = {}
  BY <1>3, Solo
<1>4. \A j \in Instance :
        /\ Waits(j) <=> IsDue(j) \/ \E s \in tick[n].batch : s.id = j
        /\ Waits(j)' <=> IsDue(j)' \/ \E s \in tick'[n].batch : s.id = j
        /\ IsClaimed(j) <=> tick[n].pc = "claimed" /\ tick[n].at = j
        /\ IsClaimed(j)' <=> tick'[n].pc = "claimed" /\ tick'[n].at = j
  BY <1>3 DEF Waits, IsClaimed
<1>5. ASSUME tick'[n].at # "none" /\ tick'[n].next = "past" => row'[tick'[n].at].next # "future"
      PROVE  PastInTheRow'
  BY <1>3, <1>5 DEF PastInTheRow
<1>6. CASE Lead(n) \/ EndTick(n)
  <2>1. tick'[n].batch = {} /\ tick'[n].at = "none" /\ row' = row /\ wakes' = wakes /\ cycles' = cycles
    <3>1. CASE Lead(n)
      BY <1>0, <3>1, TickFields DEF Lead, TickShape
    <3>2. CASE EndTick(n)
      BY <1>0, <3>2 DEF EndTick, Asleep
    <3>. QED
      BY <1>6, <3>1, <3>2
  <2>2. \A j \in Instance : ~IsClaimed(j)' /\ (Waits(j)' => Waits(j))
    BY <1>0, <1>4, <2>1 DEF IsDue
  <2>. QED
    BY <1>1, <1>5, <2>1, <2>2, NoNewWake
<1>7. CASE ListDue(n)
  <2>1. /\ tick'[n].pc = "batch" /\ row' = row /\ wakes' = wakes /\ cycles' = cycles
        /\ tick'[n].batch = {[id |-> i, day |-> row[i].day, orders |-> row[i].orders] :
                                i \in {j \in Instance : IsDue(j)}}
    BY <1>0, <1>7, TickFields DEF ListDue
  <2>2. \A s \in tick'[n].batch : IsDue(s.id)
    BY <2>1
  <2>3. tick'[n].at = "none"
    BY <2>1 DEF TickShape
  <2>4. \A j \in Instance : ~IsClaimed(j)' /\ (Waits(j)' => Waits(j))
    BY <1>4, <2>1, <2>2 DEF IsDue
  <2>. QED
    BY <1>1, <1>5, <2>1, <2>3, <2>4, NoNewWake
<1>8. ASSUME NEW snapshot \in tick[n].batch, Claim(n, snapshot)
      PROVE  PastInTheRow' /\ \A j \in Instance : Spent(j)' <= wakes'[j]
  <2>1. snapshot.id \in Instance
    BY TickFields DEF Snapshot
  <2>2. tick'[n] = Claimed(n, snapshot)
    BY <1>0, <1>8 DEF Claim
  <2>3. /\ tick'[n].pc = "claimed" /\ tick'[n].at = snapshot.id /\ tick'[n].next = "future"
        /\ tick'[n].batch = tick[n].batch \ {snapshot} /\ tick[n].pc = "batch"
        /\ wakes' = wakes /\ cycles' = cycles
    BY <1>8, <2>2 DEF Claim, Claimed
  <2>4. row'[snapshot.id].next = "future" /\ \A j \in Instance : j # snapshot.id => row'[j] = row[j]
    BY <1>0, <1>8, <2>1 DEF Claim, Rows
  <2>5. Spent(snapshot.id)' <= wakes'[snapshot.id]
    <3>1. ~Waits(snapshot.id)'
      BY <1>4, <2>1, <2>3, <2>4 DEF IsDue, TickShape
    <3>2. Waits(snapshot.id)
      BY <1>4, <1>8, <2>1
    <3>. QED
      BY <1>0, <1>1, <1>4, <2>1, <2>3, <3>1, <3>2 DEF Spent
  <2>6. ASSUME NEW j \in Instance, j # snapshot.id PROVE Spent(j)' <= wakes'[j]
    <3>1. (Waits(j)' => Waits(j)) /\ ~IsClaimed(j)'
      BY <1>4, <2>3, <2>4, <2>6 DEF IsDue
    <3>. QED
      BY <1>1, <2>3, <3>1, NoNewWake
  <2>. QED
    BY <1>5, <2>3, <2>5, <2>6
<1>9. CASE SitOut(n) \/ CycleFails(n) \/ FinishCycle(n)
  <2>1. tick'[n] = Leave(n) /\ wakes' = wakes /\ cycles' = cycles
    BY <1>0, <1>9 DEF SitOut, CycleFails, FinishCycle
  <2>2. tick'[n].pc = "batch" /\ tick'[n].at = "none" /\ tick'[n].batch = tick[n].batch
    BY <2>1 DEF Leave, Asleep
  <2>3. ASSUME NEW j \in Instance PROVE IsDue(j)' => IsDue(j)
    <3>1. CASE row' = row
      BY <3>1 DEF IsDue
    <3>2. CASE FinishCycle(n)
      <4>1. tick[n].at \in Instance
        BY <3>2, TickFields DEF FinishCycle, TickShape
      <4>2. PICK orders \in Nat :
               row' = [row EXCEPT ![tick[n].at] =
                        [row[tick[n].at] EXCEPT !.next = tick[n].next, !.day = day, !.orders = orders]]
        <5>1. tick[n].orders \in Nat /\ tick[n].orders + 1 \in Nat
          BY TickFields
        <5>. QED
          BY <3>2, <5>1 DEF FinishCycle
      <4>3. CASE j # tick[n].at
        BY <1>0, <4>2, <4>3 DEF IsDue
      <4>4. CASE j = tick[n].at
        <5>1. row'[j].status = row[j].status /\ row'[j].next = tick[n].next
          BY <1>0, <4>1, <4>2, <4>4 DEF Rows
        <5>2. tick[n].next = "past" => row[j].next # "future"
          BY <1>1, <4>1, <4>4, <1>0
        <5>. QED
          BY <5>1, <5>2, TickFields DEF IsDue
      <4>. QED
        BY <4>3, <4>4
    <3>. QED
      BY <1>9, <3>1, <3>2 DEF SitOut, CycleFails
  <2>4. \A j \in Instance : ~IsClaimed(j)' /\ (Waits(j)' => Waits(j))
    BY <1>4, <2>2, <2>3
  <2>. QED
    BY <1>1, <1>5, <2>1, <2>2, <2>4, NoNewWake
<1>10. CASE RunCycle(n)
  <2>1. /\ tick'[n].pc = "ran" /\ tick'[n].at = tick[n].at /\ tick'[n].batch = tick[n].batch
        /\ tick'[n].next = tick[n].next
    BY <1>0, <1>10, TickFields DEF RunCycle
  <2>2. row' = row /\ wakes' = wakes /\ tick[n].pc = "claimed"
    BY <1>10 DEF RunCycle
  <2>3. PICK i \in Instance : tick[n].at = i
    BY <2>2, TickFields DEF TickShape
  <2>4. cycles'[i] = cycles[i] + 1 /\ \A j \in Instance : j # i => cycles'[j] = cycles[j]
    BY <1>0, <1>10, <2>3 DEF RunCycle
  <2>5. \A j \in Instance : ~IsClaimed(j)' /\ (Waits(j)' <=> Waits(j))
    BY <1>4, <2>1, <2>2 DEF IsDue
  <2>6. IsClaimed(i)
    BY <1>4, <2>2, <2>3
  <2>7. Spent(i)' <= wakes'[i]
    BY <1>0, <1>1, <2>2, <2>4, <2>5, <2>6 DEF Spent
  <2>8. ASSUME NEW j \in Instance, j # i PROVE Spent(j)' <= wakes'[j]
    BY <1>1, <2>2, <2>4, <2>5, <2>8, NoNewWake
  <2>. QED
    BY <1>1, <1>5, <2>1, <2>2, <2>7, <2>8
<1>. QED
  BY <1>6, <1>7, <1>8, <1>9, <1>10 DEF TickStep

LEMMA WakeStep == ShapeInv /\ ShapeInv' /\ WakeInv /\ [Next]_vars => WakeInv'
<1> SUFFICES ASSUME ShapeInv, ShapeInv', WakeInv, [Next]_vars, OneTrader'
             PROVE  PastInTheRow' /\ \A j \in Instance : Spent(j)' <= wakes'[j]
  BY DEF WakeInv
<1>0. env' = env /\ OneTrader /\ TradeTypes /\ TradeTypes'
  BY StepCases DEF ShapeInv, OneTrader, AutoNext, Dies, processVars
<1>1. PastInTheRow /\ \A j \in Instance : Spent(j) <= wakes[j]
  BY <1>0 DEF WakeInv
<1>2. ASSUME UNCHANGED <<row, wakes, cycles>>,
             \A n \in Node : tick'[n] = tick[n] \/ tick'[n] = Asleep
      PROVE  PastInTheRow' /\ \A j \in Instance : Spent(j)' <= wakes'[j]
  <2>1. Asleep.pc = "idle" /\ Asleep.at = "none" /\ Asleep.batch = {}
    BY DEF Asleep
  <2>2. \A j \in Instance : (Waits(j)' => Waits(j)) /\ (IsClaimed(j)' => IsClaimed(j))
    BY <1>2, <2>1 DEF Waits, IsClaimed, IsDue
  <2>3. PastInTheRow'
    BY <1>1, <1>2, <2>1 DEF PastInTheRow
  <2>. QED
    BY <1>0, <1>1, <1>2, <2>2, <2>3, NoNewWake
<1>3. CASE UNCHANGED <<env, crashes, autoVars>>
  BY <1>2, <1>3 DEF autoVars
<1>4. ASSUME NEW n \in Node, Dies(n), TraderDies(n)
      PROVE  PastInTheRow' /\ \A j \in Instance : Spent(j)' <= wakes'[j]
  BY <1>0, <1>2, <1>4 DEF TraderDies, TradeTypes, AutoTypeOK
<1>5. CASE AutoNext
  <2>1. ASSUME NEW i \in Instance, IntervalPasses(i) \/ UserStarts(i) \/ UserPauses(i) \/ UserStops(i)
        PROVE  PastInTheRow' /\ \A j \in Instance : Spent(j)' <= wakes'[j]
    BY <1>0, <2>1, WakeClock
  <2>2. CASE NextDay \/ LeaderLapses
    BY <1>2, <2>2 DEF NextDay, LeaderLapses
  <2>3. ASSUME NEW n \in Node, TickStep(n)
        PROVE  PastInTheRow' /\ \A j \in Instance : Spent(j)' <= wakes'[j]
    BY <1>0, <2>3, WakeTick
  <2>. QED
    BY <1>5, <2>1, <2>2, <2>3 DEF AutoNext
<1>. QED
  BY <1>3, <1>4, <1>5, StepCases

(* With one process that trades, an instance runs at most one cycle for each
   time it became due, over any number of instances, deaths of the process and
   presses of the users. *)
THEOREM OneCyclePerWakeHolds == Spec => []OneCyclePerWake
<1>1. Init => WakeInv
  BY WakeInit
<1>2. ShapeInv /\ ShapeInv' /\ WakeInv /\ [Next]_vars => WakeInv'
  BY WakeStep
<1>3. ShapeInv /\ WakeInv => OneCyclePerWake
  <2> SUFFICES ASSUME ShapeInv, WakeInv, OneTrader, NEW i \in Instance PROVE cycles[i] <= wakes[i]
    BY DEF OneCyclePerWake
  <2>1. cycles[i] \in Nat /\ wakes[i] \in Nat
    BY DEF ShapeInv, TradeTypes, AutoTypeOK
  <2>. QED
    BY <2>1 DEF WakeInv, Spent
<1>. QED
  BY <1>1, <1>2, <1>3, ShapeHolds, PTL DEF Spec

-----------------------------------------------------------------------------
(* The counters of the row tell how many cycles of the day have placed orders:
   with what is in a batch the row agrees, and a cycle that has placed has not
   counted it yet. *)

RowOrders(i) == IF row[i].day = day THEN row[i].orders ELSE 0

PlacedNow(i) == \E n \in Node : tick[n].at = i /\ tick[n].pc = "ran" /\ tick[n].placed

BatchAgrees ==
    \A n \in Node : \A s \in tick[n].batch : s.day = row[s.id].day /\ s.orders = row[s.id].orders

CycleAgrees ==
    \A n \in Node : tick[n].at # "none" =>
        /\ row[tick[n].at].day = day /\ row[tick[n].at].orders = tick[n].orders
        /\ tick[n].placed => tick[n].pc = "ran" /\ tick[n].orders < OrderCap

DaysArePast == \A i \in Instance : row[i].day <= day

OrdersCounted ==
    /\ BatchAgrees /\ CycleAgrees /\ DaysArePast
    /\ \A i \in Instance :
        /\ placed[i] = RowOrders(i) + (IF PlacedNow(i) THEN 1 ELSE 0)
        /\ placed[i] <= OrderCap

OrdersInv ==
    /\ crashes \in Nat
    /\ OneTrader /\ ~env.faults /\ crashes = 0 => OrdersCounted

LEMMA CountInit == Init => OrdersInv
<1> SUFFICES ASSUME Init PROVE OrdersInv
  OBVIOUS
<1>1. AutoInit /\ crashes = 0
  BY InitialTrades
<1>2. \A n \in Node : tick[n].pc = "idle" /\ tick[n].at = "none" /\ tick[n].batch = {}
  BY <1>1 DEF AutoInit, Asleep
<1>3. BatchAgrees /\ CycleAgrees
  BY <1>2 DEF BatchAgrees, CycleAgrees
<1>4. DaysArePast
  BY <1>1 DEF AutoInit, DaysArePast
<1>5. ASSUME NEW i \in Instance
      PROVE  placed[i] = RowOrders(i) + (IF PlacedNow(i) THEN 1 ELSE 0) /\ placed[i] <= OrderCap
  <2>1. ~PlacedNow(i) /\ placed[i] = 0 /\ RowOrders(i) = 0
    BY <1>1, <1>2 DEF AutoInit, PlacedNow, RowOrders
  <2>. QED
    BY <2>1, AutoAssumption DEF AutoAssumption
<1>. QED
  BY <1>1, <1>3, <1>4, <1>5 DEF OrdersInv, OrdersCounted

\* A step that leaves the counters of the rows, and what the schedulers know of them, alone.
LEMMA CountStutter ==
    ASSUME TradeTypes, OrdersCounted, UNCHANGED <<day, placed>>,
           \A i \in Instance : row'[i].day = row[i].day /\ row'[i].orders = row[i].orders,
           \A n \in Node : /\ tick'[n].pc = tick[n].pc /\ tick'[n].at = tick[n].at
                           /\ tick'[n].batch = tick[n].batch
                           /\ tick'[n].orders = tick[n].orders /\ tick'[n].placed = tick[n].placed
    PROVE  OrdersCounted'
<1>1. \A n \in Node : tick[n].batch \subseteq Snapshot /\ tick[n].at \in Instance \union {"none"}
  BY TickFields
<1>2. BatchAgrees'
  BY <1>1 DEF OrdersCounted, BatchAgrees, Snapshot
<1>3. CycleAgrees'
  BY <1>1 DEF OrdersCounted, CycleAgrees
<1>4. \A i \in Instance : (PlacedNow(i)' <=> PlacedNow(i)) /\ RowOrders(i)' = RowOrders(i)
  BY DEF PlacedNow, RowOrders
<1>. QED
  BY <1>2, <1>3, <1>4 DEF OrdersCounted, DaysArePast

LEMMA CountClock ==
    ASSUME TradeTypes, TradeTypes', OrdersCounted,
           NEW i \in Instance, IntervalPasses(i) \/ UserStarts(i) \/ UserPauses(i) \/ UserStops(i)
    PROVE  OrdersCounted'
<1>0. row \in [Instance -> Rows]
  BY DEF TradeTypes, AutoTypeOK
<1>1. \A j \in Instance : row'[j].day = row[j].day /\ row'[j].orders = row[j].orders
  BY <1>0 DEF IntervalPasses, UserStarts, UserPauses, UserStops, Rows
<1>2. ASSUME NEW n \in Node
      PROVE  /\ tick'[n].pc = tick[n].pc /\ tick'[n].at = tick[n].at
             /\ tick'[n].batch = tick[n].batch
             /\ tick'[n].orders = tick[n].orders /\ tick'[n].placed = tick[n].placed
  <2>1. tick[n] \in [pc : TickPc, batch : SUBSET Snapshot, at : Instance \union {"none"},
                     next : {"future", "past"}, orders : Nat, placed : BOOLEAN]
    BY TickFields
  <2>2. tick'[n] = [tick[n] EXCEPT !.next = "past"] \/ tick'[n] = tick[n]
    BY DEF IntervalPasses, UserStarts, UserPauses, UserStops
  <2>. QED
    BY <2>1, <2>2
<1>3. UNCHANGED <<day, placed>>
  BY DEF IntervalPasses, UserStarts, UserPauses, UserStops
<1>. QED
  BY <1>1, <1>2, <1>3, CountStutter

LEMMA CountMidnight ==
    ASSUME TradeTypes, TradeTypes', OrdersCounted, NextDay
    PROVE  OrdersCounted'
<1>0. row \in [Instance -> Rows] /\ day \in Nat /\ day' = day + 1 /\ row' = row /\ tick' = tick
  BY DEF TradeTypes, AutoTypeOK, NextDay
<1>1. \A n \in Node : tick[n].at = "none"
  BY DEF NextDay
<1>2. BatchAgrees' /\ CycleAgrees'
  BY <1>0, <1>1 DEF OrdersCounted, BatchAgrees, CycleAgrees
<1>3. \A i \in Instance : row'[i].day \in Nat /\ row'[i].day <= day
  BY <1>0 DEF OrdersCounted, DaysArePast, Rows
<1>4. DaysArePast'
  BY <1>0, <1>3 DEF DaysArePast
<1>5. ASSUME NEW i \in Instance
      PROVE  /\ placed'[i] = RowOrders(i)' + (IF PlacedNow(i)' THEN 1 ELSE 0)
             /\ placed'[i] <= OrderCap
  <2>1. placed'[i] = 0
    BY DEF NextDay
  <2>2. ~PlacedNow(i)'
    BY <1>0, <1>1, AutoAssumption DEF PlacedNow, AutoAssumption
  <2>3. RowOrders(i)' = 0
    BY <1>0, <1>3 DEF RowOrders
  <2>. QED
    BY <2>1, <2>2, <2>3, AutoAssumption DEF AutoAssumption
<1>. QED
  BY <1>2, <1>4, <1>5 DEF OrdersCounted

LEMMA CountTick ==
    ASSUME ShapeInv, ShapeInv', OneTrader, ~env.faults, OrdersCounted, NEW n \in Node, TickStep(n)
    PROVE  OrdersCounted'
<1> USE DEF ShapeInv
<1>0. /\ row \in [Instance -> Rows] /\ placed \in [Instance -> Nat]
      /\ DOMAIN tick = Node /\ "none" \notin Instance /\ day \in Nat
  BY AutoAssumption DEF TradeTypes, AutoTypeOK, AutoAssumption
<1>1. /\ \A s \in tick[n].batch : s.day = row[s.id].day /\ s.orders = row[s.id].orders
      /\ tick[n].at # "none" =>
            /\ row[tick[n].at].day = day /\ row[tick[n].at].orders = tick[n].orders
            /\ tick[n].placed => tick[n].pc = "ran" /\ tick[n].orders < OrderCap
      /\ \A j \in Instance : /\ row[j].day <= day
                             /\ placed[j] = RowOrders(j) + (IF PlacedNow(j) THEN 1 ELSE 0)
                             /\ placed[j] <= OrderCap
  BY DEF OrdersCounted, BatchAgrees, CycleAgrees, DaysArePast
<1>2. \A s \in tick[n].batch : s \in Snapshot /\ s.id \in Instance
  BY TickFields DEF Snapshot
<1>3. ASSUME NEW m \in Node, m # n
      PROVE  tick'[m] = tick[m] /\ tick[m].pc = "idle" /\ tick[m].at = "none" /\ tick[m].batch = {}
  BY <1>3, Solo
<1>4. \A j \in Instance :
        /\ PlacedNow(j) <=> tick[n].at = j /\ tick[n].pc = "ran" /\ tick[n].placed
        /\ PlacedNow(j)' <=> tick'[n].at = j /\ tick'[n].pc = "ran" /\ tick'[n].placed
  BY <1>0, <1>3 DEF PlacedNow
<1>5. ASSUME /\ \A s \in tick'[n].batch : s.day = row'[s.id].day /\ s.orders = row'[s.id].orders
             /\ tick'[n].at # "none" =>
                  /\ row'[tick'[n].at].day = day' /\ row'[tick'[n].at].orders = tick'[n].orders
                  /\ tick'[n].placed => tick'[n].pc = "ran" /\ tick'[n].orders < OrderCap
      PROVE  BatchAgrees' /\ CycleAgrees'
  BY <1>3, <1>5 DEF BatchAgrees, CycleAgrees
\* A step that changes no row, and after which n has no cycle, or has not had one before.
<1>6. ASSUME UNCHANGED <<row, day, placed>>, \A j \in Instance : ~PlacedNow(j) /\ ~PlacedNow(j)'
      PROVE  /\ DaysArePast'
             /\ \A j \in Instance :
                  /\ placed'[j] = RowOrders(j)' + (IF PlacedNow(j)' THEN 1 ELSE 0)
                  /\ placed'[j] <= OrderCap
  BY <1>1, <1>6 DEF RowOrders, DaysArePast
<1>7. CASE Lead(n) \/ EndTick(n)
  <2>1. tick'[n].batch = {} /\ tick'[n].at = "none" /\ tick[n].at = "none" /\ UNCHANGED <<row, day, placed>>
    <3>1. CASE Lead(n)
      BY <1>0, <3>1, TickFields DEF Lead, TickShape
    <3>2. CASE EndTick(n)
      BY <1>0, <3>2 DEF EndTick, Asleep, TickShape
    <3>. QED
      BY <1>7, <3>1, <3>2
  <2>2. \A j \in Instance : ~PlacedNow(j) /\ ~PlacedNow(j)'
    BY <1>0, <1>4, <2>1
  <2>. QED
    BY <1>5, <1>6, <2>1, <2>2 DEF OrdersCounted
<1>8. CASE ListDue(n)
  <2>1. /\ tick'[n].pc = "batch" /\ UNCHANGED <<row, day, placed>> /\ tick[n].pc = "leading"
        /\ tick'[n].batch = {[id |-> i, day |-> row[i].day, orders |-> row[i].orders] :
                                i \in {j \in Instance : IsDue(j)}}
    BY <1>0, <1>8, TickFields DEF ListDue
  <2>2. \A s \in tick'[n].batch : s.day = row[s.id].day /\ s.orders = row[s.id].orders
    BY <2>1
  <2>3. tick'[n].at = "none"
    BY <2>1 DEF TickShape
  <2>4. \A j \in Instance : ~PlacedNow(j) /\ ~PlacedNow(j)'
    BY <1>4, <2>1
  <2>. QED
    BY <1>5, <1>6, <2>1, <2>2, <2>3, <2>4 DEF OrdersCounted
<1>9. ASSUME NEW snapshot \in tick[n].batch, Claim(n, snapshot) PROVE OrdersCounted'
  <2>1. PICK i \in Instance : snapshot.id = i
    BY <1>2
  <2>2. tick'[n] = Claimed(n, snapshot)
    BY <1>0, <1>9 DEF Claim
  <2>3. /\ tick'[n].pc = "claimed" /\ tick'[n].at = i /\ tick'[n].placed = FALSE
        /\ tick'[n].orders = OrdersToday(snapshot)
        /\ tick'[n].batch = tick[n].batch \ {snapshot} /\ tick[n].pc = "batch"
        /\ day' = day /\ placed' = placed
    BY <1>9, <2>1, <2>2 DEF Claim, Claimed
  <2>4. /\ row'[i].day = day /\ row'[i].orders = OrdersToday(snapshot)
        /\ \A j \in Instance : j # i => row'[j] = row[j]
    <3>1. row' = [row EXCEPT ![i] = [row[i] EXCEPT !.next = "future", !.day = day,
                                                   !.orders = OrdersToday(snapshot)]]
      BY <1>0, <1>9, <2>1 DEF Claim
    <3>. QED
      BY <1>0, <3>1 DEF Rows
  <2>5. OrdersToday(snapshot) = RowOrders(i)
    BY <1>1, <1>9, <2>1 DEF OrdersToday, RowOrders
  <2>6. \A j \in Instance : ~PlacedNow(j) /\ ~PlacedNow(j)'
    BY <1>4, <2>3
  <2>7. \A j \in Instance : RowOrders(j)' = RowOrders(j)
    BY <2>3, <2>4, <2>5 DEF RowOrders
  <2>8. DaysArePast'
    BY <1>0, <1>1, <2>3, <2>4 DEF DaysArePast
  <2>9. \A s \in tick'[n].batch : s.id \in Instance /\ s.id # i
    BY <1>2, <1>9, <2>1, <2>3 DEF TickShape
  <2>10. \A s \in tick'[n].batch : s.day = row'[s.id].day /\ s.orders = row'[s.id].orders
    BY <1>1, <2>3, <2>4, <2>9
  <2>11. BatchAgrees' /\ CycleAgrees'
    BY <1>5, <2>3, <2>4, <2>10
  <2>. QED
    BY <1>1, <2>3, <2>6, <2>7, <2>8, <2>11 DEF OrdersCounted
<1>10. CASE SitOut(n)
  <2>1. tick'[n] = Leave(n) /\ UNCHANGED <<row, day, placed>> /\ tick[n].pc = "claimed"
    BY <1>0, <1>10 DEF SitOut
  <2>2. tick'[n].pc = "batch" /\ tick'[n].at = "none" /\ tick'[n].batch = tick[n].batch
    BY <2>1 DEF Leave, Asleep
  <2>3. \A j \in Instance : ~PlacedNow(j) /\ ~PlacedNow(j)'
    BY <1>4, <2>1, <2>2
  <2>4. BatchAgrees' /\ CycleAgrees'
    BY <1>1, <1>5, <2>1, <2>2
  <2>. QED
    BY <1>6, <2>1, <2>3, <2>4 DEF OrdersCounted
<1>11. CASE RunCycle(n)
  <2>1. PICK i \in Instance : tick[n].at = i
    BY <1>11, TickFields DEF RunCycle, TickShape
  <2>2. PICK places \in BOOLEAN :
           /\ places => ~IsCapped(tick[n].orders)
           /\ tick' = [tick EXCEPT ![n] = [tick[n] EXCEPT !.pc = "ran", !.placed = places]]
           /\ placed' = [placed EXCEPT ![i] = IF places THEN placed[i] + 1 ELSE placed[i]]
    BY <1>0, <1>11, <2>1 DEF RunCycle
  <2>3. UNCHANGED <<row, day>> /\ tick[n].pc = "claimed"
    BY <1>11 DEF RunCycle
  <2>4. /\ tick'[n].pc = "ran" /\ tick'[n].at = i /\ tick'[n].placed = places
        /\ tick'[n].batch = tick[n].batch /\ tick'[n].orders = tick[n].orders /\ tick[n].orders \in Nat
    BY <1>0, <2>1, <2>2, TickFields
  <2>5. places => tick[n].orders < OrderCap
    BY <2>2, <2>4, AutoAssumption DEF IsCapped, AutoAssumption
  <2>6. \A j \in Instance : ~PlacedNow(j) /\ (PlacedNow(j)' <=> j = i /\ places)
    BY <1>4, <2>3, <2>4
  <2>7. \A j \in Instance : RowOrders(j)' = RowOrders(j)
    BY <2>3 DEF RowOrders
  <2>8. BatchAgrees' /\ CycleAgrees'
    BY <1>0, <1>1, <1>5, <2>1, <2>3, <2>4, <2>5
  <2>9. DaysArePast'
    BY <1>1, <2>3 DEF DaysArePast
  <2>10. RowOrders(i) = tick[n].orders
    BY <1>0, <1>1, <2>1 DEF RowOrders
  <2>11. ASSUME NEW j \in Instance
         PROVE  /\ placed'[j] = RowOrders(j)' + (IF PlacedNow(j)' THEN 1 ELSE 0)
                /\ placed'[j] <= OrderCap
    <3>1. placed[j] = RowOrders(j) /\ placed[j] <= OrderCap /\ placed[j] \in Nat
      <4>1. RowOrders(j) \in Nat
        BY <1>0 DEF RowOrders, Rows
      <4>. QED
        BY <1>0, <1>1, <2>6, <4>1
    <3>2. CASE j = i /\ places
      <4>1. placed'[j] = placed[j] + 1
        BY <1>0, <2>2, <3>2
      <4>. QED
        BY <2>4, <2>5, <2>6, <2>7, <2>10, <3>1, <3>2, <4>1, AutoAssumption DEF AutoAssumption
    <3>3. CASE ~(j = i /\ places)
      <4>1. placed'[j] = placed[j] /\ ~PlacedNow(j)'
        BY <1>0, <2>2, <2>6, <3>3
      <4>. QED
        BY <2>7, <3>1, <4>1
    <3>. QED
      BY <3>2, <3>3
  <2>. QED
    BY <2>8, <2>9, <2>11 DEF OrdersCounted
<1>12. CASE FinishCycle(n)
  <2>1. PICK i \in Instance : tick[n].at = i
    BY <1>12, TickFields DEF FinishCycle, TickShape
  <2>2. tick'[n] = Leave(n) /\ UNCHANGED <<day, placed>> /\ tick[n].pc = "ran"
    BY <1>0, <1>12 DEF FinishCycle
  <2>3. tick'[n].pc = "batch" /\ tick'[n].at = "none" /\ tick'[n].batch = tick[n].batch
    BY <2>2 DEF Leave, Asleep
  <2>4. row' = [row EXCEPT ![i] =
                  [row[i] EXCEPT !.next = tick[n].next, !.day = day,
                                 !.orders = IF tick[n].placed THEN tick[n].orders + 1 ELSE tick[n].orders]]
    BY <1>12, <2>1 DEF FinishCycle
  <2>5. /\ row'[i].day = day
        /\ row'[i].orders = IF tick[n].placed THEN tick[n].orders + 1 ELSE tick[n].orders
        /\ \A j \in Instance : j # i => row'[j] = row[j]
    BY <1>0, <2>4 DEF Rows
  <2>6. \A s \in tick'[n].batch : s.id \in Instance /\ s.id # i
    BY <1>2, <2>1, <2>3 DEF TickShape
  <2>7. BatchAgrees' /\ CycleAgrees'
    BY <1>1, <1>5, <2>3, <2>5, <2>6
  <2>8. DaysArePast'
    BY <1>0, <1>1, <2>2, <2>5 DEF DaysArePast
  <2>9. \A j \in Instance : ~PlacedNow(j)' /\ (PlacedNow(j) <=> j = i /\ tick[n].placed)
    BY <1>4, <2>1, <2>2, <2>3
  <2>10. tick[n].orders = row[i].orders /\ row[i].day = day /\ row[i].orders \in Nat
    BY <1>0, <1>1, <2>1 DEF Rows
  <2>11. ASSUME NEW j \in Instance
         PROVE  /\ placed'[j] = RowOrders(j)' + (IF PlacedNow(j)' THEN 1 ELSE 0)
                /\ placed'[j] <= OrderCap
    <3>1. CASE j = i
      <4>1. RowOrders(j)' = (IF tick[n].placed THEN tick[n].orders + 1 ELSE tick[n].orders)
        BY <2>2, <2>5, <3>1 DEF RowOrders
      <4>2. placed[j] = tick[n].orders + (IF tick[n].placed THEN 1 ELSE 0) /\ placed[j] <= OrderCap
        BY <1>1, <2>9, <2>10, <3>1 DEF RowOrders
      <4>. QED
        BY <2>2, <2>9, <2>10, <4>1, <4>2
    <3>2. CASE j # i
      <4>1. RowOrders(j)' = RowOrders(j) /\ ~PlacedNow(j) /\ ~PlacedNow(j)'
        BY <2>2, <2>5, <2>9, <3>2 DEF RowOrders
      <4>. QED
        BY <1>1, <2>2, <4>1
    <3>. QED
      BY <3>1, <3>2
  <2>. QED
    BY <2>7, <2>8, <2>11 DEF OrdersCounted
<1>13. CASE CycleFails(n)
  BY <1>13 DEF CycleFails
<1>. QED
  BY <1>7, <1>8, <1>9, <1>10, <1>11, <1>12, <1>13 DEF TickStep

LEMMA CountStep == ShapeInv /\ ShapeInv' /\ OrdersInv /\ [Next]_vars => OrdersInv'
<1> SUFFICES ASSUME ShapeInv, ShapeInv', OrdersInv, [Next]_vars PROVE OrdersInv'
  OBVIOUS
<1>0. TradeTypes /\ TradeTypes' /\ crashes \in Nat
  BY DEF ShapeInv, OrdersInv
<1>1. CASE UNCHANGED <<env, crashes, autoVars>>
  <2>1. ASSUME OrdersCounted PROVE OrdersCounted'
    BY <1>0, <1>1, <2>1, CountStutter DEF autoVars
  <2>. QED
    BY <1>1, <2>1 DEF OrdersInv, OneTrader
<1>2. ASSUME NEW n \in Node, Dies(n), TraderDies(n) PROVE OrdersInv'
  <2>1. crashes' = crashes + 1
    BY <1>2 DEF Dies
  <2>. QED
    BY <1>0, <2>1 DEF OrdersInv
<1>3. CASE AutoNext
  <2>0. env' = env /\ crashes' = crashes
    BY <1>3 DEF AutoNext, processVars
  <2>1. SUFFICES ASSUME OneTrader, ~env.faults, OrdersCounted PROVE OrdersCounted'
    BY <2>0 DEF OrdersInv, OneTrader
  <2>2. ASSUME NEW i \in Instance, IntervalPasses(i) \/ UserStarts(i) \/ UserPauses(i) \/ UserStops(i)
        PROVE  OrdersCounted'
    BY <1>0, <2>1, <2>2, CountClock
  <2>3. CASE NextDay
    BY <1>0, <2>1, <2>3, CountMidnight
  <2>4. CASE LeaderLapses
    BY <1>0, <2>1, <2>4, CountStutter DEF LeaderLapses
  <2>5. ASSUME NEW n \in Node, TickStep(n) PROVE OrdersCounted'
    BY <2>1, <2>5, CountTick
  <2>. QED
    BY <1>3, <2>2, <2>3, <2>4, <2>5 DEF AutoNext
<1>. QED
  BY <1>1, <1>2, <1>3, StepCases

(* With one process that trades, when every cycle gets to its end, the cycles
   of a day that place orders are no more than the cap, for any cap and over
   any number of days. *)
THEOREM OrdersWithinCapHolds == Spec => []OrdersWithinCap
<1>1. Init => OrdersInv
  BY CountInit
<1>2. ShapeInv /\ ShapeInv' /\ OrdersInv /\ [Next]_vars => OrdersInv'
  BY CountStep
<1>3. OrdersInv => OrdersWithinCap
  BY DEF OrdersInv, OrdersCounted, OrdersWithinCap
<1>. QED
  BY <1>1, <1>2, <1>3, ShapeHolds, PTL DEF Spec

-----------------------------------------------------------------------------
(***************************************************************************)
(* The types of the whole worker, from those of its parts.                 *)
(***************************************************************************)

(* Every part of the worker keeps its type, in deployments of any size and  *)
(* over any failures: no event, run, entry or contract is counted beyond    *)
(* its bound, and the orders of a run are no more than its entries and      *)
(* their attempts (_submit_orders).                                         *)
THEOREM WorkerTypesHold == Spec => []TypeOK
<1>1. Spec => [](PoolTypeOK /\ PoolIsSound)
  BY PoolStarts, PoolStepKeeps, PTL DEF Spec
<1>2. ReviewTypes => ReviewTypeOK
  BY DEF ReviewTypes, ReviewTypeOK, ReviewRow, ReviewerRow, ReviewerPc
<1>3. AlertTypes => OutboxTypeOK /\ ObservationTypeOK
  BY DEF AlertTypes, OutboxTypes
<1>4. CacheTypes => CacheTypeOK
  BY DEF CacheTypes
<1>5. /\ ProcessTypeOK /\ ScanTypeOK /\ OutboxTypeOK
      /\ ObservationTypeOK /\ ReviewTypeOK /\ AutoTypeOK
      /\ RunTypeOK /\ PoolTypeOK /\ CacheTypeOK
      => TypeOK
  BY DEF TypeOK
<1>. QED
  BY <1>1, <1>2, <1>3, <1>4, <1>5, ScanTypeHolds, AlertTypesHold, ReviewInvHolds, TradeTypesHold,
     RunTypeHolds, CacheTypesHold, PTL

=============================================================================
