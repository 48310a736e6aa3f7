------------------------ MODULE ScheduleSlots_proofs ------------------------
(***************************************************************************)
(* Proofs about ScheduleSlots for any number of scheduler nodes and slots, *)
(* any agenda, capital and bounds, and any environment: a claim of a slot  *)
(* is started by one node, and starts are backed by claims.  No lease is   *)
(* needed for either, only the insert that does nothing on a conflict and  *)
(* the guarded update of a retrying row.                                   *)
(***************************************************************************)
EXTENDS ScheduleSlots, Sums, FiniteSetTheorems, TLAPS

-----------------------------------------------------------------------------
(* Types.  The remaining capital a tick has read is a sum over the rows; that
   the sum is a number plays no part here and is proved further down. *)

InAgenda(n) == pc[n] \notin {"idle", "slot", "leaving"}

Shape ==
  /\ env \in EnvironmentType
  /\ config \in {"saved", "edited"}
  /\ sessionOf \in {"none", "saved", "edited"}
  /\ due \in 0 .. Len(Agenda)
  /\ fires \in [Slot -> Fire]
  /\ starts \in [Slot -> Nat]
  /\ pc \in [Node -> Steps]
  /\ at \in [Node -> 1 .. Len(Agenda) + 1]
  /\ \E amounts : my \in [Node -> MemoryOf(amounts)]
  /\ live \subseteq Slot \X Epoch \X Node
  /\ \A n \in Node : InAgenda(n) => at[n] <= due

(* A tick that is at a slot is at one of the agenda. *)
LEMMA SlotAtHand ==
  ASSUME Shape, NEW n \in Node, InAgenda(n)
  PROVE  SlotAt(n) \in Slot /\ at[n] + 1 \in 1 .. Len(Agenda) + 1
<1>1. Agenda \in Seq(Slot) /\ Len(Agenda) \in Nat
  BY SlotAssumption DEF SlotAssumption
<1>2. at[n] \in 1 .. Len(Agenda)
  BY <1>1 DEF Shape
<1>. QED
  BY <1>1, <1>2 DEF SlotAt

LEMMA NoMemoryForm == NoMemory \in MemoryOf({0})
BY SlotAssumption DEF SlotAssumption, NoMemory, MemoryOf, Statuses, Epoch

LEMMA ShapeInit == Init => Shape
<1> SUFFICES ASSUME Init PROVE Shape
  OBVIOUS
<1> USE SlotAssumption DEF SlotAssumption, Init
<1>1. fires \in [Slot -> Fire]
  BY DEF Fire, Statuses, Epoch
<1>2. my \in [Node -> MemoryOf({0})]
  BY NoMemoryForm
<1>3. pc \in [Node -> Steps] /\ at \in [Node -> 1 .. Len(Agenda) + 1]
  BY DEF Steps
<1>. QED
  BY <1>1, <1>2, <1>3 DEF Shape, InAgenda, EnvironmentType

(* What a step of the tick of n leaves as it is: the memory of the others. *)
Alone(n) ==
  \A m \in Node \ {n} : pc'[m] = pc[m] /\ at'[m] = at[m] /\ my'[m] = my[m]

LEMMA StepsAlone ==
  ASSUME Shape, NEW n \in Node, BeginTick(n) \/ TickStep(n) \/ Crash(n)
  PROVE  Alone(n)
BY DEF Shape, Alone, BeginTick, TickStep, Crash, OpenSession, SelectStale, RecoverStale,
       Skip, ReadClaim, ClaimWon, ClaimLost, Start, StartFails, Mark, AgendaDone,
       EndTick, Goto, Remember, NextSlot

(* The memory of a tick keeps its form. *)
Remembers == \E amounts : my \in [Node -> MemoryOf(amounts)]

LEMMA RememberedForm ==
  ASSUME Shape, NEW n \in Node, NEW amount, NEW m \in MemoryOf({amount}),
         my' = [my EXCEPT ![n] = m]
  PROVE  Remembers'
<1>1. PICK amounts : my \in [Node -> MemoryOf(amounts)]
  BY DEF Shape
<1>2. m \in MemoryOf(amounts \cup {amount}) /\ my \in [Node -> MemoryOf(amounts \cup {amount})]
  BY <1>1 DEF MemoryOf
<1>3. my' \in [Node -> MemoryOf(amounts \cup {amount})]
  BY <1>2
<1>. QED
  BY <1>3 DEF Remembers

LEMMA MemoryForm ==
  ASSUME Shape, NEW n \in Node
  PROVE  my[n] \in MemoryOf({my[n].remaining}) /\ n \in DOMAIN my
BY DEF Shape, MemoryOf

LEMMA TickRemembers ==
  ASSUME Shape, (fires \in [Slot -> Fire])', NEW n \in Node, BeginTick(n) \/ TickStep(n) \/ Crash(n)
  PROVE  Remembers'
<1>1. my[n] \in MemoryOf({my[n].remaining}) /\ n \in DOMAIN my
  BY MemoryForm
<1>2. my' = my => Remembers'
  BY DEF Shape, Remembers
<1> USE DEF MemoryOf, Remember, Goto
<1>3. CASE BeginTick(n)
  <2>1. [NoMemory EXCEPT !.config = config, !.locks = env.redis] \in MemoryOf({0})
    BY NoMemoryForm DEF Shape, EnvironmentType
  <2>. QED
    BY <1>3, <2>1, RememberedForm DEF BeginTick
<1>4. CASE OpenSession(n)
  <2>1. [my[n] EXCEPT !.session = sessionOf', !.remaining = Remaining] \in MemoryOf({Remaining})
    BY <1>1, <1>4 DEF Shape, OpenSession
  <2>. QED
    BY <1>4, <2>1, RememberedForm DEF OpenSession
<1>5. CASE SelectStale(n)
  <2>1. [my[n] EXCEPT !.found = StaleSlots] \in MemoryOf({my[n].remaining})
    BY <1>1 DEF StaleSlots
  <2>. QED
    BY <1>5, <2>1, RememberedForm DEF SelectStale
<1>6. CASE RecoverStale(n)
  <2>1. [my[n] EXCEPT !.found = {}, !.recovered = TRUE] \in MemoryOf({my[n].remaining})
    BY <1>1
  <2>. QED
    BY <1>6, <2>1, RememberedForm DEF RecoverStale
<1>7. CASE Skip(n)
  <2>1. [my[n] EXCEPT !.recovered = FALSE] \in MemoryOf({my[n].remaining})
    BY <1>1
  <2>. QED
    BY <1>7, <2>1, RememberedForm DEF Skip
<1>8. CASE ReadClaim(n)
  <2>1. SlotAt(n) \in Slot
    BY <1>8, SlotAtHand DEF ReadClaim, InAgenda
  <2>2. [my[n] EXCEPT !.read = fires[SlotAt(n)].status, !.recovered = FALSE]
           \in MemoryOf({my[n].remaining})
    BY <1>1, <2>1 DEF Shape, Fire
  <2>. QED
    BY <1>8, <2>2, RememberedForm DEF ReadClaim
<1>9. CASE ClaimWon(n)
  <2>1. SlotAt(n) \in Slot
    BY <1>9, SlotAtHand DEF ClaimWon, InAgenda
  <2>2. [my[n] EXCEPT !.epoch = fires'[SlotAt(n)].retry] \in MemoryOf({my[n].remaining})
    BY <1>1, <2>1 DEF Fire
  <2>. QED
    BY <1>9, <2>2, RememberedForm DEF ClaimWon
<1>10. CASE Start(n) \/ StartFails(n)
  <2>1. PICK outcome \in {"fired", "failed"} : Remember(n, [my[n] EXCEPT !.outcome = outcome])
    BY <1>10 DEF Start, StartFails
  <2>2. [my[n] EXCEPT !.outcome = outcome] \in MemoryOf({my[n].remaining})
    BY <1>1
  <2>. QED
    BY <2>1, <2>2, RememberedForm
<1>11. CASE EndTick(n) \/ Crash(n)
  BY <1>11, NoMemoryForm, RememberedForm DEF EndTick, Crash
<1>12. CASE ClaimLost(n) \/ Mark(n) \/ AgendaDone(n)
  BY <1>2, <1>12 DEF ClaimLost, Mark, AgendaDone
<1>. QED
  BY <1>3, <1>4, <1>5, <1>6, <1>7, <1>8, <1>9, <1>10, <1>11, <1>12 DEF TickStep

(* Setting the outcome of a slot leaves the counts and the other rows alone. *)
LEMMA OutcomeForm ==
  ASSUME Shape, NEW s \in Slot, NEW outcome \in {"fired", "failed"}
  PROVE  /\ SetOutcome(s, outcome) \in [Slot -> Fire]
         /\ \A t \in Slot :
               /\ SetOutcome(s, outcome)[t].retry = fires[t].retry
               /\ SetOutcome(s, outcome)[t].status = IF t = s THEN outcome ELSE fires[t].status
<1>1. fires \in [Slot -> Fire] /\ outcome \in Statuses
  BY DEF Shape, Statuses
<1> DEFINE half == [fires EXCEPT ![s].status = outcome]
<1>2. /\ half \in [Slot -> Fire]
      /\ \A t \in Slot : /\ half[t].retry = fires[t].retry
                         /\ half[t].status = IF t = s THEN outcome ELSE fires[t].status
  BY <1>1 DEF Fire
<1> HIDE DEF half
<1>3. SetOutcome(s, outcome) = [half EXCEPT ![s].old = FALSE]
  BY <1>1 DEF half, SetOutcome, Fire
<1>. QED
  BY <1>2, <1>3 DEF Fire

LEMMA ReleasedForm ==
  ASSUME NEW row \in Fire
  PROVE  /\ Released(row) \in Fire
         /\ Released(row).retry = row.retry /\ Released(row).status = "retrying"
BY DEF Released, Fire, Statuses

(* A row keeps its form whatever is written to it. *)
LEMMA TickFires ==
  ASSUME Shape, NEW n \in Node, BeginTick(n) \/ TickStep(n) \/ Crash(n)
  PROVE  (fires \in [Slot -> Fire])'
<1>1. fires \in [Slot -> Fire]
  BY DEF Shape
<1>2. CASE RecoverStale(n)
  <2>1. \A s \in Slot : fires[s] \in Fire /\ Released(fires[s]) \in Fire
    BY <1>1, ReleasedForm
  <2>. QED
    BY <1>2, <2>1 DEF RecoverStale
<1>3. CASE Skip(n)
  <2>1. SlotAt(n) \in Slot
    BY <1>3, SlotAtHand DEF Skip, InAgenda
  <2>. QED
    BY <1>1, <1>3, <2>1 DEF Skip, Fire, Statuses
<1>4. CASE ClaimWon(n)
  <2>1. RequestedCapital(SlotAt(n)) \in Nat
    BY <1>4, SlotAtHand, SlotAssumption DEF SlotAssumption, ClaimWon, InAgenda, RequestedCapital
  <2>2. SlotAt(n) \in Slot
    BY <1>4, SlotAtHand DEF ClaimWon, InAgenda
  <2>3. CASE ReplayRow(n, SlotAt(n))
    BY <1>1, <2>1, <2>2, <2>3, SlotAssumption
       DEF SlotAssumption, ReplayRow, Fire, Statuses, Epoch
  <2>4. CASE InsertRow(n, SlotAt(n))
    BY <1>1, <2>1, <2>2, <2>4, SlotAssumption
       DEF SlotAssumption, InsertRow, Fire, Statuses, Epoch
  <2>. QED
    BY <1>4, <2>3, <2>4 DEF ClaimWon
<1>5. CASE Mark(n)
  <2>1. SlotAt(n) \in Slot
    BY <1>5, SlotAtHand DEF Mark, InAgenda
  <2>2. my[n].outcome \in {"fired", "failed"}
    BY DEF Shape, MemoryOf
  <2>. QED
    BY <1>5, <2>1, <2>2, OutcomeForm DEF Mark
<1>6. CASE UNCHANGED fires
  BY <1>1, <1>6
<1>. QED
  BY <1>2, <1>3, <1>4, <1>5, <1>6
     DEF TickStep, BeginTick, OpenSession, SelectStale, ReadClaim, ClaimLost, Start,
         StartFails, AgendaDone, EndTick, Crash

(* Where a tick is: at a slot that is due, or between slots. *)
LEMMA TickPlace ==
  ASSUME Shape, NEW n \in Node, BeginTick(n) \/ TickStep(n) \/ Crash(n)
  PROVE  /\ (pc \in [Node -> Steps])' /\ (at \in [Node -> 1 .. Len(Agenda) + 1])'
         /\ \A m \in Node : InAgenda(m)' => at'[m] <= due
<1> USE SlotAssumption DEF SlotAssumption, Goto, Steps
<1>1. /\ pc \in [Node -> Steps] /\ at \in [Node -> 1 .. Len(Agenda) + 1]
      /\ \A m \in Node : InAgenda(m) => at[m] <= due
  BY DEF Shape
<1>2. CASE BeginTick(n) \/ AgendaDone(n) \/ EndTick(n) \/ Crash(n)
  <2>1. \E step \in {"idle", "slot", "leaving"} : Goto(n, step)
    BY <1>2 DEF BeginTick, AgendaDone, EndTick, Crash
  <2>2. at' = at \/ at' = [at EXCEPT ![n] = 1]
    BY <1>2 DEF BeginTick, AgendaDone, EndTick, Crash
  <2>3. 1 \in 1 .. Len(Agenda) + 1
    OBVIOUS
  <2>. QED
    BY <1>1, <2>1, <2>2, <2>3 DEF InAgenda
<1>3. CASE OpenSession(n)
  BY <1>1, <1>3 DEF OpenSession, InAgenda
<1>4. CASE SelectStale(n) \/ RecoverStale(n) \/ ReadClaim(n)
           \/ ClaimWon(n) \/ Start(n) \/ StartFails(n)
  <2>1. InAgenda(n) /\ at' = at /\ \E step \in Steps : Goto(n, step)
    BY <1>4 DEF SelectStale, RecoverStale, ReadClaim, ClaimWon, Start, StartFails, InAgenda
  <2>. QED
    BY <1>1, <2>1 DEF InAgenda
<1>5. CASE Skip(n) \/ ClaimLost(n) \/ Mark(n)
  <2>1. at[n] + 1 \in 1 .. Len(Agenda) + 1
    BY <1>5, SlotAtHand DEF Skip, ClaimLost, Mark, InAgenda
  <2>2. \/ NextSlot(n)
        \/ Goto(n, "leaving") /\ at' = at
    BY <1>5 DEF Skip, ClaimLost, Mark
  <2>. QED
    BY <1>1, <2>1, <2>2 DEF NextSlot, InAgenda
<1>. QED
  BY <1>2, <1>3, <1>4, <1>5 DEF TickStep

LEMMA TickShape ==
  ASSUME Shape, NEW n \in Node, BeginTick(n) \/ TickStep(n) \/ Crash(n)
  PROVE  Shape'
<1>1. (fires \in [Slot -> Fire])' /\ Remembers'
  BY TickFires, TickRemembers
<1>2. /\ (pc \in [Node -> Steps])' /\ (at \in [Node -> 1 .. Len(Agenda) + 1])'
      /\ \A m \in Node : InAgenda(m)' => at'[m] <= due
  BY TickPlace
<1>3. env' = env /\ config' = config /\ due' = due
  BY DEF TickStep, BeginTick, OpenSession, SelectStale, RecoverStale, Skip, ReadClaim,
         ClaimWon, ClaimLost, Start, StartFails, Mark, AgendaDone, EndTick, Crash
<1>4. (sessionOf \in {"none", "saved", "edited"})'
  <2>1. my[n].config \in {"saved", "edited"}
    BY DEF Shape, MemoryOf
  <2>. QED
    BY <2>1
       DEF Shape, TickStep, BeginTick, OpenSession, SelectStale, RecoverStale, Skip,
           ReadClaim, ClaimWon, ClaimLost, Start, StartFails, Mark, AgendaDone,
           EndTick, Crash
<1>5. (starts \in [Slot -> Nat])' /\ (live \subseteq Slot \X Epoch \X Node)'
  <2>1. starts \in [Slot -> Nat] /\ live \subseteq Slot \X Epoch \X Node
    BY DEF Shape
  <2>2. my[n].epoch \in Epoch
    BY DEF Shape, MemoryOf
  <2>3. CASE Start(n)
    <3>1. SlotAt(n) \in Slot
      BY <2>3, SlotAtHand DEF Start, InAgenda
    <3>. QED
      BY <2>1, <2>2, <2>3, <3>1 DEF Start
  <2>4. CASE Crash(n)
    BY <2>1, <2>4 DEF Crash
  <2>5. CASE UNCHANGED <<starts, live>>
    BY <2>1, <2>5
  <2>. QED
    BY <2>3, <2>4, <2>5
       DEF TickStep, BeginTick, OpenSession, SelectStale, RecoverStale, Skip,
           ReadClaim, ClaimWon, ClaimLost, StartFails, Mark, AgendaDone, EndTick
<1>. QED
  BY <1>1, <1>2, <1>3, <1>4, <1>5 DEF Shape, Remembers

(* The steps that are no node's: a run ends, time passes, the user edits. *)
Outside ==
  \/ \E run \in live : FinishRun(run)
  \/ \E s \in Slot : ClaimAges(s)
  \/ SlotBecomesDue \/ LeaderExpires \/ EditConfig

(* They leave the ticks alone, and of the rows their claims. *)
LEMMA OutsideSteps ==
  ASSUME Shape, Outside
  PROVE  /\ UNCHANGED <<env, starts, pc, at, my, sessionOf>>
         /\ config' \in {"saved", "edited"}
         /\ due' \in 0 .. Len(Agenda) /\ due <= due'
         /\ live' \subseteq live
         /\ (fires \in [Slot -> Fire])'
         /\ \A s \in Slot : /\ fires'[s].retry = fires[s].retry
                            /\ fires'[s].status = "none" => fires[s].status = "none"
<1> DEFINE Kept ==
      /\ (fires \in [Slot -> Fire])'
      /\ \A s \in Slot : /\ fires'[s].retry = fires[s].retry
                         /\ fires'[s].status = "none" => fires[s].status = "none"
<1>0. fires \in [Slot -> Fire] /\ live \subseteq Slot \X Epoch \X Node
  BY DEF Shape
<1>1. ASSUME NEW run \in live, FinishRun(run) PROVE Kept
  <2>1. run[1] \in Slot
    BY <1>0, <1>1
  <2>2. PICK outcome \in {"fired", "failed"} : fires' = SetOutcome(run[1], outcome)
    BY <1>1 DEF FinishRun
  <2>3. SetOutcome(run[1], outcome) \in [Slot -> Fire]
    BY <2>1, OutcomeForm
  <2>4. \A t \in Slot :
           /\ SetOutcome(run[1], outcome)[t].retry = fires[t].retry
           /\ SetOutcome(run[1], outcome)[t].status
                = IF t = run[1] THEN outcome ELSE fires[t].status
    BY <2>1, OutcomeForm
  <2>. QED
    BY <2>2, <2>3, <2>4
<1>2. ASSUME NEW s \in Slot, ClaimAges(s) PROVE Kept
  BY <1>0, <1>2 DEF ClaimAges, Fire
<1>3. ASSUME SlotBecomesDue PROVE due' \in 0 .. Len(Agenda) /\ due <= due'
  BY <1>3, SlotAssumption DEF SlotAssumption, SlotBecomesDue, EnvironmentType, Shape
<1>4. UNCHANGED <<env, starts, pc, at, my, sessionOf>> /\ live' \subseteq live
  BY DEF Outside, FinishRun, ClaimAges, SlotBecomesDue, LeaderExpires, EditConfig
<1>5. config' \in {"saved", "edited"}
  BY DEF Shape, Outside, FinishRun, ClaimAges, SlotBecomesDue, LeaderExpires, EditConfig
<1>6. due' = due \/ SlotBecomesDue
  BY DEF Outside, FinishRun, ClaimAges, LeaderExpires, EditConfig
<1>7. \/ fires' = fires
      \/ \E run \in live : FinishRun(run)
      \/ \E s \in Slot : ClaimAges(s)
  BY DEF Outside, SlotBecomesDue, LeaderExpires, EditConfig
<1>. QED
  <2>1. Kept
    BY <1>0, <1>1, <1>2, <1>7
  <2>2. due' \in 0 .. Len(Agenda) /\ due <= due'
    BY <1>3, <1>6, SlotAssumption DEF SlotAssumption, Shape
  <2>. QED
    BY <1>4, <1>5, <2>1, <2>2

LEMMA ShapeStep == Shape /\ [Next]_vars => Shape'
<1> SUFFICES ASSUME Shape, [Next]_vars PROVE Shape'
  OBVIOUS
<1>1. ASSUME NEW n \in Node, BeginTick(n) \/ TickStep(n) \/ Crash(n) PROVE Shape'
  BY <1>1, TickShape
<1>2. CASE Outside
  <2>1. \A n \in Node : InAgenda(n)' => at'[n] <= due'
    <3>1. /\ pc' = pc /\ at' = at /\ due <= due' /\ due' \in 0 .. Len(Agenda)
      BY <1>2, OutsideSteps
    <3>2. \A n \in Node : at[n] \in 1 .. Len(Agenda) + 1
      BY DEF Shape
    <3>3. Len(Agenda) \in Nat /\ due \in 0 .. Len(Agenda)
      BY SlotAssumption DEF SlotAssumption, Shape
    <3>4. \A n \in Node : InAgenda(n) => at[n] <= due
      BY DEF Shape
    <3>. QED
      BY <3>1, <3>2, <3>3, <3>4 DEF InAgenda
  <2>. QED
    BY <1>2, <2>1, OutsideSteps DEF Shape
<1>3. CASE UNCHANGED vars
  BY <1>3 DEF vars, Shape, InAgenda
<1>. QED
  BY <1>1, <1>2, <1>3 DEF Next, Outside

LEMMA ShapeInvariant == Spec => []Shape
<1>1. Init => Shape
  BY ShapeInit
<1>2. Shape /\ [Next]_vars => Shape'
  BY ShapeStep
<1>. QED
  BY <1>1, <1>2, PTL DEF Spec

-----------------------------------------------------------------------------
(* Claims *)

(* A row that is there stays, and its count of replays never goes back. *)
RowsGrow ==
  \A s \in Slot :
      fires[s].status # "none" =>
          fires'[s].status # "none" /\ fires[s].retry <= fires'[s].retry

(* A claim that is won is newer than whatever the row had before. *)
LEMMA ClaimIsNewer ==
  ASSUME Shape, NEW n \in Node, ClaimWon(n)
  PROVE  /\ SlotAt(n) \in Slot
         /\ fires'[SlotAt(n)].status = "claimed"
         /\ my'[n].epoch = fires'[SlotAt(n)].retry
         /\ \/ fires[SlotAt(n)].status = "none" /\ fires'[SlotAt(n)].retry = 0
            \/ fires'[SlotAt(n)].retry = fires[SlotAt(n)].retry + 1
         /\ \A s \in Slot \ {SlotAt(n)} : fires'[s] = fires[s]
<1>1. SlotAt(n) \in Slot
  BY SlotAtHand DEF ClaimWon, InAgenda
<1>2. fires \in [Slot -> Fire]
  BY DEF Shape
<1>3. my[n] \in MemoryOf({my[n].remaining}) /\ n \in DOMAIN my
  BY MemoryForm
<1>4. my'[n].epoch = fires'[SlotAt(n)].retry
  BY <1>3 DEF ClaimWon, Remember, MemoryOf
<1>5. CASE ReplayRow(n, SlotAt(n))
  BY <1>1, <1>2, <1>4, <1>5 DEF ReplayRow
<1>6. CASE InsertRow(n, SlotAt(n))
  BY <1>1, <1>2, <1>4, <1>6 DEF InsertRow
<1>. QED
  BY <1>5, <1>6 DEF ClaimWon

LEMMA TickRowsGrow ==
  ASSUME Shape, NEW n \in Node, BeginTick(n) \/ TickStep(n) \/ Crash(n)
  PROVE  RowsGrow
<1>1. /\ fires \in [Slot -> Fire]
      /\ \A s \in Slot : fires[s] \in Fire /\ fires[s].retry \in Int
  BY SlotAssumption DEF SlotAssumption, Shape, Fire, Epoch
<1>2. CASE RecoverStale(n)
  <2>1. \A s \in Slot : Released(fires[s]).retry = fires[s].retry
                         /\ Released(fires[s]).status # "none"
    BY <1>1, ReleasedForm
  <2>. QED
    BY <1>1, <1>2, <2>1 DEF RecoverStale, RowsGrow
<1>3. CASE Skip(n)
  <2>1. SlotAt(n) \in Slot
    BY <1>3, SlotAtHand DEF Skip, InAgenda
  <2>2. \/ fires' = fires
        \/ fires' = [fires EXCEPT ![SlotAt(n)].status = "skipped"]
    BY <1>3 DEF Skip
  <2>. QED
    BY <1>1, <2>1, <2>2 DEF RowsGrow, Fire
<1>4. CASE ClaimWon(n)
  BY <1>1, <1>4, ClaimIsNewer DEF RowsGrow
<1>5. CASE Mark(n)
  <2>1. SlotAt(n) \in Slot
    BY <1>5, SlotAtHand DEF Mark, InAgenda
  <2>2. my[n].outcome \in {"fired", "failed"}
    BY DEF Shape, MemoryOf
  <2>3. \A t \in Slot :
           /\ SetOutcome(SlotAt(n), my[n].outcome)[t].retry = fires[t].retry
           /\ SetOutcome(SlotAt(n), my[n].outcome)[t].status
                = IF t = SlotAt(n) THEN my[n].outcome ELSE fires[t].status
    BY <2>1, <2>2, OutcomeForm
  <2>. QED
    BY <1>1, <1>5, <2>2, <2>3 DEF Mark, RowsGrow
<1>6. CASE UNCHANGED fires
  BY <1>1, <1>6 DEF RowsGrow
<1>. QED
  BY <1>2, <1>3, <1>4, <1>5, <1>6
     DEF TickStep, BeginTick, OpenSession, SelectStale, ReadClaim, ClaimLost, Start,
         StartFails, AgendaDone, EndTick, Crash

(* Who is starting a slot after a step was starting it before, by the same claim,
   or has just won the claim. *)
KeepsClaim(m) == InStart(m) /\ SlotAt(m)' = SlotAt(m) /\ my'[m].epoch = my[m].epoch

LEMMA StartersKept ==
  ASSUME Shape, NEW n \in Node, BeginTick(n) \/ TickStep(n) \/ Crash(n),
         NEW m \in Node, InStart(m)'
  PROVE  KeepsClaim(m) \/ (m = n /\ ClaimWon(n))
<1>1. CASE m # n
  BY <1>1, StepsAlone DEF Alone, KeepsClaim, InStart, SlotAt
<1>2. CASE m = n
  <2>1. pc \in [Node -> Steps]
    BY DEF Shape
  <2>2. CASE Start(n) \/ StartFails(n)
    <3>1. my[n] \in MemoryOf({my[n].remaining}) /\ n \in DOMAIN my
      BY MemoryForm
    <3>2. PICK outcome : my' = [my EXCEPT ![n] = [my[n] EXCEPT !.outcome = outcome]]
      BY <2>2 DEF Start, StartFails, Remember
    <3>3. my'[n].epoch = my[n].epoch
      BY <3>1, <3>2 DEF MemoryOf
    <3>. QED
      BY <1>2, <2>2, <3>3 DEF Start, StartFails, KeepsClaim, InStart, SlotAt
  <2>3. CASE ~(Start(n) \/ StartFails(n) \/ ClaimWon(n))
    BY <1>2, <2>1, <2>3
       DEF InStart, TickStep, BeginTick, OpenSession, SelectStale, RecoverStale, Skip,
           ReadClaim, ClaimLost, Mark, AgendaDone, EndTick, Crash, Goto, NextSlot
  <2>. QED
    BY <1>2, <2>2, <2>3
<1>. QED
  BY <1>1, <1>2

LEMMA OutsideKept ==
  ASSUME Shape, Outside \/ UNCHANGED vars
  PROVE  /\ \A m \in Node : InStart(m)' => KeepsClaim(m)
         /\ \A m \in Node : SlotAt(m)' = SlotAt(m) /\ pc'[m] = pc[m]
         /\ starts' = starts
         /\ RowsGrow
         /\ \A s \in Slot : /\ fires'[s].retry = fires[s].retry
                            /\ fires'[s].status = "none" => fires[s].status = "none"
<1>1. \A s \in Slot : fires[s].retry \in Int
  BY SlotAssumption DEF SlotAssumption, Shape, Fire, Epoch
<1>2. /\ UNCHANGED <<starts, pc, at, my>>
      /\ \A s \in Slot : /\ fires'[s].retry = fires[s].retry
                         /\ fires'[s].status = "none" => fires[s].status = "none"
  BY OutsideSteps DEF vars
<1>. QED
  BY <1>1, <1>2 DEF KeepsClaim, InStart, SlotAt, RowsGrow

(* A step of the tick of n, or one from outside. *)
LEMMA StartersAnyStep ==
  ASSUME Shape, [Next]_vars
  PROVE  /\ RowsGrow
         /\ \A m \in Node : InStart(m)' => KeepsClaim(m) \/ ClaimWon(m)
         /\ \A m, n \in Node : ClaimWon(m) /\ InStart(n)' /\ ~KeepsClaim(n) => m = n
<1>1. ASSUME NEW n \in Node, BeginTick(n) \/ TickStep(n) \/ Crash(n)
      PROVE  /\ RowsGrow
             /\ \A m \in Node : InStart(m)' => KeepsClaim(m) \/ (m = n /\ ClaimWon(n))
  BY <1>1, TickRowsGrow, StartersKept
<1>2. ASSUME NEW m \in Node, NEW n \in Node, ClaimWon(m), InStart(n)', ~KeepsClaim(n)
      PROVE  m = n
  BY <1>2, StartersKept DEF TickStep
<1>3. CASE Outside \/ UNCHANGED vars
  BY <1>2, <1>3, OutsideKept
<1>. QED
  BY <1>1, <1>2, <1>3 DEF Next, Outside

(* What the claims are compared by, before and after a step. *)
Numbered ==
  /\ \A n \in Node : my[n].epoch \in Nat /\ (InAgenda(n) => SlotAt(n) \in Slot)
  /\ \A s \in Slot : fires[s].retry \in Nat /\ starts[s] \in Nat

LEMMA ShapeNumbers == Shape => Numbered
<1> SUFFICES ASSUME Shape PROVE Numbered
  OBVIOUS
<1>1. \A n \in Node : my[n].epoch \in Epoch
  BY DEF Shape, MemoryOf
<1>2. \A s \in Slot : fires[s].retry \in Epoch /\ starts[s] \in Nat
  BY DEF Shape, Fire
<1>3. Epoch \subseteq Nat
  BY DEF Epoch
<1>4. \A n \in Node : InAgenda(n) => SlotAt(n) \in Slot
  BY SlotAtHand
<1>5. \A n \in Node : my[n].epoch \in Nat
  BY <1>1, <1>3
<1>6. \A s \in Slot : fires[s].retry \in Nat /\ starts[s] \in Nat
  BY <1>2, <1>3
<1>. QED
  BY <1>4, <1>5, <1>6 DEF Numbered

LEMMA StartersStep ==
  ASSUME Shape, Shape', StartersHoldClaims, [Next]_vars
  PROVE  StartersHoldClaims'
<1> SUFFICES ASSUME NEW m \in Node, InStart(m)'
             PROVE  /\ fires'[SlotAt(m)'].status # "none"
                    /\ my'[m].epoch <= fires'[SlotAt(m)'].retry
  BY DEF StartersHoldClaims
<1>0. Numbered /\ Numbered'
  BY ShapeNumbers, PTL
<1>1. SlotAt(m)' \in Slot
  BY <1>0 DEF Numbered, InStart, InAgenda
<1>2. my[m].epoch \in Nat /\ \A s \in Slot : fires[s].retry \in Nat /\ fires'[s].retry \in Nat
  BY <1>0 DEF Numbered
<1>3. CASE KeepsClaim(m)
  BY <1>1, <1>2, <1>3, StartersAnyStep DEF KeepsClaim, StartersHoldClaims, RowsGrow
<1>4. CASE ClaimWon(m)
  <2>1. SlotAt(m)' = SlotAt(m)
    BY <1>4 DEF ClaimWon, SlotAt
  <2>. QED
    BY <1>1, <1>2, <1>4, <2>1, ClaimIsNewer
<1>. QED
  BY <1>3, <1>4, StartersAnyStep

(* Whatever the leases do, a node that starts a slot has a row to start it by,
   claimed as often as the node's claim or more. *)
THEOREM ClaimsBeforeStarts == Spec => []StartersHoldClaims
<1>1. Init => StartersHoldClaims
  BY DEF Init, StartersHoldClaims, InStart
<1>2. Shape /\ Shape' /\ StartersHoldClaims /\ [Next]_vars => StartersHoldClaims'
  BY StartersStep
<1>. QED
  BY <1>1, <1>2, ShapeInvariant, PTL DEF Spec

LEMMA ExclusiveStep ==
  ASSUME Shape, Shape', StartersHoldClaims, ClaimExclusive, [Next]_vars
  PROVE  ClaimExclusive'
<1> SUFFICES ASSUME NEW m \in Node, NEW n \in Node, InStart(m)', InStart(n)',
                    SlotAt(m)' = SlotAt(n)', my'[m].epoch = my'[n].epoch
             PROVE  m = n
  BY DEF ClaimExclusive
<1>1. ASSUME NEW k \in Node, NEW l \in Node, KeepsClaim(k), ClaimWon(l),
             SlotAt(k)' = SlotAt(l)'
      PROVE  my'[k].epoch # my'[l].epoch
  <2>1. SlotAt(l) \in Slot /\ SlotAt(l)' = SlotAt(l) /\ SlotAt(k) = SlotAt(l)
    BY <1>1, ClaimIsNewer DEF ClaimWon, SlotAt, KeepsClaim
  <2>2. my[k].epoch \in Nat /\ fires[SlotAt(l)].retry \in Nat
    BY <2>1, ShapeNumbers DEF Numbered
  <2>3. /\ fires[SlotAt(l)].status # "none"
        /\ my[k].epoch <= fires[SlotAt(l)].retry
    BY <1>1, <2>1 DEF StartersHoldClaims, KeepsClaim
  <2>. QED
    BY <1>1, <2>1, <2>2, <2>3, ClaimIsNewer DEF KeepsClaim
<1>2. CASE KeepsClaim(m) /\ KeepsClaim(n)
  BY <1>2 DEF ClaimExclusive, KeepsClaim
<1>3. CASE KeepsClaim(m) /\ ~KeepsClaim(n)
  BY <1>1, <1>3, StartersAnyStep
<1>4. CASE ~KeepsClaim(m) /\ KeepsClaim(n)
  BY <1>1, <1>4, StartersAnyStep
<1>5. CASE ~KeepsClaim(m) /\ ~KeepsClaim(n)
  BY <1>5, StartersAnyStep
<1>. QED
  BY <1>2, <1>3, <1>4, <1>5

(* Whatever the leases do, no two nodes start the same claim of a slot. *)
THEOREM ClaimsAreExclusive == Spec => []ClaimExclusive
<1>1. Init => ClaimExclusive
  BY DEF Init, ClaimExclusive, InStart
<1>2. /\ Shape /\ Shape' /\ StartersHoldClaims /\ ClaimExclusive /\ [Next]_vars
      => ClaimExclusive'
  BY ExclusiveStep
<1>. QED
  BY <1>1, <1>2, ShapeInvariant, ClaimsBeforeStarts, PTL DEF Spec

-----------------------------------------------------------------------------
(* Starts *)

(* The starts under way are finitely many, which a count of them needs. *)
StartsCounted ==
  /\ StartsBackedByClaims
  /\ \A s \in Slot : IsFiniteSet(Starting(s))

LEMMA StartingByTick ==
  ASSUME Shape, NEW n \in Node, BeginTick(n) \/ TickStep(n) \/ Crash(n), NEW s \in Slot
  PROVE  \/ /\ Start(n) /\ SlotAt(n) = s /\ n \in Starting(s)
            /\ Starting(s)' = Starting(s) \ {n} /\ starts'[s] = starts[s] + 1
         \/ /\ ClaimWon(n) /\ SlotAt(n) = s
            /\ Starting(s)' = Starting(s) \cup {n} /\ starts'[s] = starts[s]
         \/ Starting(s)' \in {Starting(s), Starting(s) \ {n}} /\ starts'[s] = starts[s]
<1>1. /\ pc \in [Node -> Steps] /\ starts \in [Slot -> Nat]
      /\ Alone(n)
  BY StepsAlone DEF Shape
<1>2. Starting(s)' \ {n} = Starting(s) \ {n}
  BY <1>1 DEF Alone, Starting, SlotAt
<1>3. CASE Start(n)
  <2>1. SlotAt(n) \in Slot
    BY <1>3, SlotAtHand DEF Start, InAgenda
  <2>2. n \notin Starting(s)'
    BY <1>1, <1>3 DEF Start, Starting, Goto
  <2>3. starts'[s] = IF SlotAt(n) = s THEN starts[s] + 1 ELSE starts[s]
    BY <1>1, <1>3, <2>1 DEF Start
  <2>4. SlotAt(n) = s <=> n \in Starting(s)
    BY <1>3 DEF Start, Starting
  <2>. QED
    BY <1>2, <1>3, <2>2, <2>3, <2>4
<1>4. CASE ClaimWon(n)
  <2>1. starts' = starts /\ n \notin Starting(s) /\ SlotAt(n)' = SlotAt(n)
    BY <1>4 DEF ClaimWon, Starting, SlotAt
  <2>2. n \in Starting(s)' <=> SlotAt(n) = s
    BY <1>1, <1>4, <2>1 DEF ClaimWon, Starting, Goto
  <2>. QED
    BY <1>2, <1>4, <2>1, <2>2
<1>5. CASE ~Start(n) /\ ~ClaimWon(n)
  <2>1. starts' = starts
    BY <1>5
       DEF TickStep, BeginTick, OpenSession, SelectStale, RecoverStale, Skip, ReadClaim,
           ClaimLost, StartFails, Mark, AgendaDone, EndTick, Crash
  <2>2. n \notin Starting(s)'
    BY <1>1, <1>5
       DEF Starting, TickStep, BeginTick, OpenSession, SelectStale, RecoverStale, Skip,
           ReadClaim, ClaimLost, StartFails, Mark, AgendaDone, EndTick, Crash, Goto,
           NextSlot
  <2>. QED
    BY <1>2, <2>1, <2>2
<1>. QED
  BY <1>3, <1>4, <1>5

LEMMA OneMore ==
  ASSUME NEW S, NEW x, IsFiniteSet(S)
  PROVE  /\ IsFiniteSet(S \cup {x}) /\ Cardinality(S \cup {x}) \in Nat
         /\ Cardinality(S \cup {x}) <= Cardinality(S) + 1
<1>1. Cardinality(S) \in Nat
  BY FS_CardinalityType
<1>2. IsFiniteSet(S \cup {x})
  BY FS_AddElement
<1>3. Cardinality(S \cup {x}) = IF x \in S THEN Cardinality(S) ELSE Cardinality(S) + 1
  BY FS_AddElement
<1>. QED
  BY <1>1, <1>2, <1>3

LEMMA OneLess ==
  ASSUME NEW S, NEW x, IsFiniteSet(S)
  PROVE  /\ IsFiniteSet(S \ {x}) /\ Cardinality(S \ {x}) \in Nat
         /\ Cardinality(S \ {x}) <= Cardinality(S)
         /\ x \in S => Cardinality(S \ {x}) = Cardinality(S) - 1
<1>1. IsFiniteSet(S \ {x})
  BY FS_RemoveElement
<1>2. Cardinality(S \ {x}) \in Nat
  BY <1>1, FS_CardinalityType
<1>3. Cardinality(S \ {x}) = IF x \in S THEN Cardinality(S) - 1 ELSE Cardinality(S)
  BY FS_RemoveElement
<1>. QED
  BY <1>1, <1>2, <1>3, FS_CardinalityType

LEMMA CountStep ==
  ASSUME Shape, Shape', StartersHoldClaims, StartsCounted, [Next]_vars
  PROVE  StartsCounted'
<1> SUFFICES ASSUME NEW s \in Slot
             PROVE  /\ IsFiniteSet(Starting(s)')
                    /\ IF fires'[s].status = "none"
                         THEN starts'[s] = 0
                         ELSE starts'[s] + Cardinality(Starting(s)') <= fires'[s].retry + 1
  BY DEF StartsCounted, StartsBackedByClaims
<1> DEFINE Counted ==
      /\ IsFiniteSet(Starting(s)')
      /\ IF fires'[s].status = "none"
           THEN starts'[s] = 0
           ELSE starts'[s] + Cardinality(Starting(s)') <= fires'[s].retry + 1
<1>1. /\ IsFiniteSet(Starting(s)) /\ Cardinality(Starting(s)) \in Nat
      /\ IF fires[s].status = "none"
           THEN starts[s] = 0
           ELSE starts[s] + Cardinality(Starting(s)) <= fires[s].retry + 1
  BY FS_CardinalityType DEF StartsCounted, StartsBackedByClaims
<1>2. /\ starts[s] \in Nat /\ fires[s].retry \in Nat /\ fires'[s].retry \in Nat
  <2>1. Numbered /\ Numbered'
    BY ShapeNumbers, PTL
  <2>. QED
    BY <2>1 DEF Numbered, Shape
<1>3. Starting(s) # {} => fires[s].status # "none"
  BY DEF StartersHoldClaims, Starting, InStart
<1>4. RowsGrow
  BY StartersAnyStep
<1>5. ASSUME starts'[s] = starts[s], IsFiniteSet(Starting(s)'),
             Cardinality(Starting(s)') \in Nat,
             Cardinality(Starting(s)') <= Cardinality(Starting(s))
      PROVE  Counted
  <2>1. CASE fires[s].status = "none" /\ fires'[s].status # "none"
    <3>1. starts[s] = 0 /\ Cardinality(Starting(s)) = 0
      BY <1>1, <1>3, <2>1, FS_EmptySet
    <3>. QED
      BY <1>2, <1>5, <3>1
  <2>2. CASE fires[s].status # "none"
    BY <1>1, <1>2, <1>4, <1>5, <2>2 DEF RowsGrow
  <2>3. CASE fires[s].status = "none" /\ fires'[s].status = "none"
    BY <1>1, <1>5, <2>3
  <2>. QED
    BY <2>1, <2>2, <2>3
<1>6. ASSUME NEW n \in Node, BeginTick(n) \/ TickStep(n) \/ Crash(n)
      PROVE  Counted
  <2>1. CASE /\ Start(n) /\ SlotAt(n) = s /\ n \in Starting(s)
             /\ Starting(s)' = Starting(s) \ {n} /\ starts'[s] = starts[s] + 1
    <3>1. /\ IsFiniteSet(Starting(s)')
          /\ Cardinality(Starting(s)') = Cardinality(Starting(s)) - 1
      BY <1>1, <2>1, OneLess
    <3>. QED
      BY <1>1, <1>2, <1>3, <1>4, <2>1, <3>1 DEF RowsGrow
  <2>2. CASE /\ ClaimWon(n) /\ SlotAt(n) = s
             /\ Starting(s)' = Starting(s) \cup {n} /\ starts'[s] = starts[s]
    <3>1. /\ IsFiniteSet(Starting(s)') /\ Cardinality(Starting(s)') \in Nat
          /\ Cardinality(Starting(s)') <= Cardinality(Starting(s)) + 1
      <4>1. /\ IsFiniteSet(Starting(s) \cup {n})
            /\ Cardinality(Starting(s) \cup {n}) \in Nat
            /\ Cardinality(Starting(s) \cup {n}) <= Cardinality(Starting(s)) + 1
        BY <1>1, OneMore
      <4>. QED
        BY <2>2, <4>1
    <3>2. /\ fires'[s].status = "claimed"
          /\ \/ fires[s].status = "none" /\ fires'[s].retry = 0
             \/ fires'[s].retry = fires[s].retry + 1
      BY <2>2, ClaimIsNewer
    <3>3. fires[s].status = "none" => starts[s] = 0 /\ Cardinality(Starting(s)) = 0
      BY <1>1, <1>3, FS_EmptySet
    <3>. QED
      BY <1>1, <1>2, <2>2, <3>1, <3>2, <3>3
  <2>3. CASE Starting(s)' \in {Starting(s), Starting(s) \ {n}} /\ starts'[s] = starts[s]
    <3>1. /\ IsFiniteSet(Starting(s) \ {n}) /\ Cardinality(Starting(s) \ {n}) \in Nat
          /\ Cardinality(Starting(s) \ {n}) <= Cardinality(Starting(s))
      BY <1>1, OneLess
    <3>2. /\ IsFiniteSet(Starting(s)') /\ Cardinality(Starting(s)') \in Nat
          /\ Cardinality(Starting(s)') <= Cardinality(Starting(s))
      BY <1>1, <2>3, <3>1
    <3>. QED
      BY <1>5, <2>3, <3>2
  <2>. QED
    BY <1>6, <2>1, <2>2, <2>3, StartingByTick
<1>7. CASE Outside \/ UNCHANGED vars
  <2>1. Starting(s)' = Starting(s)
    BY <1>7, OutsideKept DEF Starting
  <2>2. starts' = starts
    BY <1>7, OutsideKept
  <2>. QED
    BY <1>1, <1>5, <2>1, <2>2
<1>. QED
  BY <1>6, <1>7 DEF Next, Outside

(* Starts made and starts under way never exceed the claims of a slot. *)
THEOREM StartsAreBacked == Spec => []StartsBackedByClaims
<1>1. Init => StartsCounted
  <2> SUFFICES ASSUME Init PROVE StartsCounted
    OBVIOUS
  <2>1. \A s \in Slot : Starting(s) = {}
    BY DEF Init, Starting
  <2>. QED
    BY <2>1, FS_EmptySet DEF Init, StartsCounted, StartsBackedByClaims
<1>2. /\ Shape /\ Shape' /\ StartersHoldClaims /\ StartsCounted /\ [Next]_vars
      => StartsCounted'
  BY CountStep
<1>3. StartsCounted => StartsBackedByClaims
  BY DEF StartsCounted
<1>. QED
  BY <1>1, <1>2, <1>3, ShapeInvariant, ClaimsBeforeStarts, PTL DEF Spec

(***************************************************************************)
(* A calm deployment: ticks keep within their lease and only the leader    *)
(* ticks.  A slot then has one run alive at a time, a decided slot stays   *)
(* decided, and claims respect the capital their tick has found left.      *)
(* What the rows hold is a sum over the slots, so the type of a tick's     *)
(* memory is proved here too, from the facts about sums in module Sums.    *)
(***************************************************************************)

(* What recalc_schedule_session adds up, and the same as a sum of a function. *)
Counted(rows) == {s \in Slot : rows[s].status \in {"claimed", "fired"}}

Capitals(rows) == [s \in Slot |-> rows[s].capital]

SumOfRows(rows, T) == MapThenSumSet(LAMBDA s : rows[s].capital, T)

LEMMA AllocatedRows ==
  /\ Allocated = SumOfRows(fires, Counted(fires))
  /\ Allocated' = SumOfRows(fires', Counted(fires'))
<1>1. Allocated = SumOfRows(fires, Counted(fires))
  BY DEF Allocated, Counted, SumOfRows
<1>2. Allocated' = SumOfRows(fires', Counted(fires'))
  BY DEF Allocated, Counted, SumOfRows, MapThenSumSet, MapThenFoldSet
<1>. QED
  BY <1>1, <1>2, Zenon DEF SumOfRows, Counted

(* An agenda is a finite sequence, so there are finitely many slots. *)
LEMMA SlotsFinite == IsFiniteSet(Slot)
<1>1. Agenda \in [1 .. Len(Agenda) -> Slot] /\ Len(Agenda) \in Nat
  BY SlotAssumption DEF SlotAssumption
<1>2. Agenda \in Surjection(1 .. Len(Agenda), Slot)
  BY <1>1, SlotAssumption DEF SlotAssumption, Surjection
<1>. QED
  BY <1>1, <1>2, FS_NatSurjection DEF ExistsSurjection

(* Adding up a field of the rows is adding up the function of its values. *)
LEMMA SumOfRowsForm ==
  ASSUME NEW rows, NEW T \in SUBSET Slot
  PROVE  SumOfRows(rows, T) = SumOf(Capitals(rows), T)
<1> DEFINE AddedRow(g, U) == IF U = {} THEN 0 ELSE rows[Taken(U)].capital + g[U \ {Taken(U)}]
<1>0. IsFiniteSet(T)
  BY SlotsFinite, FS_Subset
<1>1. SumOfRows(rows, T) = (CHOOSE g : g = [U \in SUBSET T |-> AddedRow(g, U)])[T]
  BY DEF SumOfRows, MapThenSumSet, MapThenFoldSet, Taken
<1>2. ASSUME NEW g, NEW U \in SUBSET T PROVE AddedRow(g, U) = Added(Capitals(rows), g, U)
  <2>1. U # {} => Taken(U) \in Slot
    BY TakenFromSet
  <2>. QED
    BY <2>1 DEF Added, Capitals
<1> HIDE DEF AddedRow
<1>3. ASSUME NEW g
      PROVE  g = [U \in SUBSET T |-> AddedRow(g, U)] <=> IsSum(Capitals(rows), g, T)
  <2>1. [U \in SUBSET T |-> AddedRow(g, U)] = [U \in SUBSET T |-> Added(Capitals(rows), g, U)]
    BY <1>2
  <2>. QED
    BY <2>1 DEF IsSum
<1>4. \E g : g = [U \in SUBSET T |-> AddedRow(g, U)]
  BY <1>0, <1>3, SumExists
<1> DEFINE all == CHOOSE g : g = [U \in SUBSET T |-> AddedRow(g, U)]
<1>5. IsSum(Capitals(rows), all, T)
  BY <1>3, <1>4
<1> HIDE DEF all
<1>6. SumOfRows(rows, T) = all[T] /\ T \in SUBSET T
  BY <1>1 DEF all
<1>. QED
  BY <1>0, <1>5, <1>6, SumOfIs

-----------------------------------------------------------------------------
(* Capital *)

LEMMA AllocatedType == Shape => Allocated \in Nat
<1> SUFFICES ASSUME Shape PROVE Allocated \in Nat
  OBVIOUS
<1>1. \A s \in Slot : Capitals(fires)[s] \in Nat
  BY DEF Shape, Fire, Capitals
<1>2. Counted(fires) \in SUBSET Slot /\ IsFiniteSet(Counted(fires))
  BY SlotsFinite, FS_Subset DEF Counted
<1>3. Allocated = SumOf(Capitals(fires), Counted(fires))
  BY <1>2, AllocatedRows, SumOfRowsForm
<1>4. SumOf(Capitals(fires), Counted(fires)) \in Nat
  BY <1>1, <1>2, SumType
<1>. QED
  BY <1>3, <1>4

(* Fewer rows that count, with the capital they had, hold no more capital. *)
LEMMA AllocatedShrinks ==
  ASSUME Shape, (fires \in [Slot -> Fire])',
         \A s \in Counted(fires') : s \in Counted(fires) /\ fires'[s].capital = fires[s].capital
  PROVE  Allocated' <= Allocated
<1>1. \A s \in Slot : Capitals(fires)[s] \in Nat /\ Capitals(fires')[s] \in Nat
  BY DEF Shape, Fire, Capitals
<1>2. /\ Counted(fires) \in SUBSET Slot /\ IsFiniteSet(Counted(fires))
      /\ Counted(fires') \in SUBSET Slot /\ Counted(fires') \in SUBSET Counted(fires)
  BY SlotsFinite, FS_Subset DEF Counted
<1>3. /\ Allocated = SumOf(Capitals(fires), Counted(fires))
      /\ Allocated' = SumOf(Capitals(fires'), Counted(fires'))
  BY <1>2, AllocatedRows, SumOfRowsForm
<1>4. \A s \in Counted(fires') : Capitals(fires')[s] = Capitals(fires)[s]
  BY <1>2 DEF Capitals
<1>5. \A s \in Counted(fires') :
         Capitals(fires')[s] \in Nat /\ Capitals(fires')[s] <= Capitals(fires)[s]
  BY <1>1, <1>2, <1>4
<1>6. SumOf(Capitals(fires'), Counted(fires')) <= SumOf(Capitals(fires), Counted(fires))
  BY <1>1, <1>2, <1>5, SumGrows
<1>. QED
  BY <1>3, <1>6

(* A claim that is won adds what the slot requests. *)
LEMMA AllocatedByClaim ==
  ASSUME Shape, NEW n \in Node, ClaimWon(n)
  PROVE  /\ RequestedCapital(SlotAt(n)) \in Nat
         /\ Allocated' = Allocated + RequestedCapital(SlotAt(n))
<1> DEFINE s == SlotAt(n)
<1>1. s \in Slot /\ RequestedCapital(s) \in Nat /\ fires \in [Slot -> Fire]
  BY SlotAtHand, SlotAssumption
     DEF SlotAssumption, ClaimWon, InAgenda, RequestedCapital, Shape
<1>2. /\ fires[s].status \in {"none", "retrying"}
      /\ fires'[s].status = "claimed" /\ fires'[s].capital = RequestedCapital(s)
      /\ \A t \in Slot \ {s} : fires'[t] = fires[t]
  BY <1>1 DEF ClaimWon, ReplayRow, InsertRow
<1> HIDE DEF s
<1>3. s \notin Counted(fires) /\ Counted(fires') = Counted(fires) \cup {s}
  BY <1>1, <1>2 DEF Counted
<1>4. /\ Counted(fires) \in SUBSET Slot /\ IsFiniteSet(Counted(fires))
      /\ Counted(fires') \in SUBSET Slot
  BY <1>1, <1>3, SlotsFinite, FS_Subset DEF Counted
<1>5. /\ Allocated = SumOf(Capitals(fires), Counted(fires))
      /\ Allocated' = SumOf(Capitals(fires'), Counted(fires'))
  BY <1>4, AllocatedRows, SumOfRowsForm
<1>6. /\ \A t \in Counted(fires) : Capitals(fires')[t] = Capitals(fires)[t]
      /\ \A t \in Counted(fires) \cup {s} : Capitals(fires')[t] \in Int
      /\ Capitals(fires')[s] = RequestedCapital(s)
  BY <1>1, <1>2, <1>3, <1>4 DEF Capitals, Fire
<1>7. SumOf(Capitals(fires'), Counted(fires) \cup {s})
        = SumOf(Capitals(fires'), Counted(fires)) + Capitals(fires')[s]
  BY <1>3, <1>4, <1>6, SumWith
<1>8. SumOf(Capitals(fires'), Counted(fires)) = SumOf(Capitals(fires), Counted(fires))
  BY <1>4, <1>6, SumSame
<1>9. Allocated' = Allocated + RequestedCapital(s)
  BY <1>3, <1>5, <1>6, <1>7, <1>8
<1>. QED
  BY <1>1, <1>9 DEF s

(* The type invariant: what a tick remembers as remaining is a number because
   the sum over the rows is one. *)
LEMMA RememberedAmount ==
  ASSUME Shape, NEW n \in Node, BeginTick(n) \/ TickStep(n) \/ Crash(n)
  PROVE  my'[n].remaining \in {0, my[n].remaining, Remaining}
<1>1. my[n] \in MemoryOf({my[n].remaining}) /\ n \in DOMAIN my
  BY MemoryForm
<1> USE <1>1 DEF Remember, MemoryOf, NoMemory
<1>2. CASE BeginTick(n)
  <2>1. [NoMemory EXCEPT !.config = config, !.locks = env.redis].remaining = 0
    BY ONLY DEF NoMemory
  <2>2. my' = [my EXCEPT ![n] = [NoMemory EXCEPT !.config = config, !.locks = env.redis]]
    BY ONLY <1>2 DEF BeginTick, Remember
  <2>. QED
    BY ONLY <1>1, <2>1, <2>2
<1>7. CASE EndTick(n) \/ Crash(n)
  BY <1>7 DEF EndTick, Crash
<1>3. CASE OpenSession(n)
  BY <1>3 DEF OpenSession
<1>4. CASE SelectStale(n) \/ RecoverStale(n) \/ Skip(n) \/ ReadClaim(n) \/ ClaimWon(n)
  BY <1>4 DEF SelectStale, RecoverStale, Skip, ReadClaim, ClaimWon
<1>5. CASE Start(n) \/ StartFails(n)
  BY <1>5 DEF Start, StartFails
<1>6. CASE ClaimLost(n) \/ Mark(n) \/ AgendaDone(n)
  BY <1>6 DEF ClaimLost, Mark, AgendaDone
<1>. QED
  BY <1>2, <1>3, <1>4, <1>5, <1>6, <1>7 DEF TickStep

LEMMA RemainingType == Shape => Remaining \in Nat
BY AllocatedType, SlotAssumption DEF SlotAssumption, Remaining

(* What TypeOK says beyond Shape. *)
Amounts ==
  /\ env \in Environment
  /\ leader \in Node \cup {NoNode}
  /\ crashes \in 0 .. MaxCrashes
  /\ \A n \in Node : my[n].remaining \in Nat

LEMMA AmountsStep ==
  ASSUME Shape, Amounts, [Next]_vars
  PROVE  Amounts'
<1>1. ASSUME NEW n \in Node, BeginTick(n) \/ TickStep(n) \/ Crash(n)
      PROVE  Amounts'
  <2>1. /\ env' = env
        /\ leader' \in {leader, n, NoNode}
        /\ crashes' = crashes \/ Crash(n)
    BY <1>1 DEF TickStep, BeginTick, OpenSession, SelectStale, RecoverStale, Skip, ReadClaim,
         ClaimWon, ClaimLost, Start, StartFails, Mark, AgendaDone, EndTick, Crash
  <2>2. Crash(n) => crashes' \in 0 .. MaxCrashes
    BY SlotAssumption DEF SlotAssumption, Crash, Amounts
  <2>3. \A m \in Node : my'[m].remaining \in Nat
    BY <1>1, StepsAlone, RememberedAmount, RemainingType DEF Alone, Amounts
  <2>. QED
    BY <2>1, <2>2, <2>3 DEF Amounts
<1>2. CASE Outside \/ UNCHANGED vars
  <2>1. /\ env' = env /\ my' = my /\ crashes' = crashes /\ leader' \in {leader, NoNode}
    BY <1>2, OutsideSteps
       DEF Outside, FinishRun, ClaimAges, SlotBecomesDue, LeaderExpires, EditConfig, vars
  <2>. QED
    BY <2>1 DEF Amounts
<1>. QED
  BY <1>1, <1>2 DEF Next, Outside

LEMMA AmountsInit == Init => Amounts
BY SlotAssumption DEF SlotAssumption, Init, Amounts, NoMemory

(* The variables keep their types. *)
THEOREM TypesOK == Spec => []TypeOK
<1>1. Init => Amounts
  BY AmountsInit
<1>2. Shape /\ Amounts /\ [Next]_vars => Amounts'
  BY AmountsStep
<1>3. Shape /\ Amounts => TypeOK
  BY DEF Shape, Amounts, TypeOK, MemoryOf
<1>. QED
  BY <1>1, <1>2, <1>3, ShapeInvariant, PTL DEF Spec

-----------------------------------------------------------------------------
(* Calm deployments *)

(* Where there is a leader lock, a tick that is going on holds it. *)
OneTicker ==
  env.redis => \A n \in Node : pc[n] # "idle" => leader = n /\ my[n].locks

(* What a tick is about to release is still a claim that nobody works on. *)
FoundStale ==
  \A n \in Node : pc[n] = "recovering" =>
      \A s \in my[n].found : fires[s].status = "claimed" /\ fires[s].old

(* A tick about to start a slot has the claim, and it is young. *)
StarterHolds ==
  \A n \in Node : pc[n] = "starting" =>
      fires[SlotAt(n)].status = "claimed" /\ ~fires[SlotAt(n)].old

(* The row of a run that is alive is fired, or the starter has yet to mark it. *)
BeingMarked(run) ==
  /\ fires[run[1]].status = "claimed" /\ ~fires[run[1]].old
  /\ pc[run[3]] = "marking" /\ SlotAt(run[3]) = run[1]

LiveRowsFired ==
  \A run \in live : fires[run[1]].status = "fired" \/ BeingMarked(run)

OneRunPerSlot == \A r1, r2 \in live : r1[1] = r2[1] => r1 = r2

(* A start that failed has left no run. *)
FailedLeavesNoRun ==
  \A n \in Node : pc[n] = "marking" /\ my[n].outcome = "failed" =>
      \A run \in live : run[1] # SlotAt(n)

CalmState ==
  /\ OneTicker /\ FoundStale /\ StarterHolds
  /\ LiveRowsFired /\ OneRunPerSlot /\ FailedLeavesNoRun

CalmInv == Calm => CalmState

(* The steps of a node other than a crash. *)
Ticks(n) == BeginTick(n) \/ TickStep(n)

(* While one node takes a step of its tick, the others do nothing. *)
LEMMA OthersIdle ==
  ASSUME Shape, Calm, OneTicker, NEW n \in Node, Ticks(n), NEW m \in Node, m # n
  PROVE  pc[m] = "idle" /\ pc'[m] = "idle"
<1>1. pc[m] = "idle"
  <2>1. CASE ~env.redis
    BY <2>1 DEF Calm
  <2>2. CASE env.redis /\ pc[n] # "idle"
    BY <2>2 DEF OneTicker
  <2>3. CASE env.redis /\ pc[n] = "idle"
    <3>1. leader = NoNode
      BY <2>3
         DEF Ticks, BeginTick, TickStep, OpenSession, SelectStale, RecoverStale, Skip, ReadClaim,
             ClaimWon, ClaimLost, Start, StartFails, Mark, AgendaDone, EndTick
    <3>. QED
      BY <2>3, <3>1, SlotAssumption DEF SlotAssumption, OneTicker
  <2>. QED
    BY <2>1, <2>2, <2>3
<1>. QED
  BY <1>1, StepsAlone DEF Ticks, Alone

(* The lock stays with the tick: it is taken at its beginning, released at its
   end, and expires only over an idle node. *)
LEMMA TickKeepsLock ==
  ASSUME Shape, Calm, OneTicker, NEW n \in Node, Ticks(n)
  PROVE  OneTicker'
<1> SUFFICES ASSUME env'.redis, pc'[n] # "idle" PROVE leader' = n /\ my'[n].locks
  BY OthersIdle DEF OneTicker
<1>0. env' = env /\ pc \in [Node -> Steps] /\ my[n] \in MemoryOf({my[n].remaining}) /\ n \in DOMAIN my
  BY MemoryForm
     DEF Shape, Ticks, BeginTick, TickStep, OpenSession, SelectStale, RecoverStale, Skip,
         ReadClaim, ClaimWon, ClaimLost, Start, StartFails, Mark, AgendaDone, EndTick
<1>1. CASE BeginTick(n)
  <2>1. [NoMemory EXCEPT !.config = config, !.locks = env.redis].locks = env.redis
    BY ONLY DEF NoMemory
  <2>2. my' = [my EXCEPT ![n] = [NoMemory EXCEPT !.config = config, !.locks = env.redis]]
    BY ONLY <1>1 DEF BeginTick, Remember
  <2>3. my'[n].locks = env.redis
    BY ONLY <1>0, <2>1, <2>2
  <2>. QED
    BY <1>0, <1>1, <2>3 DEF BeginTick
<1>2. CASE pc[n] # "idle"
  <2>1. leader = n /\ my[n].locks
    BY <1>0, <1>2 DEF OneTicker
  <2>2. ~EndTick(n) /\ ~BeginTick(n)
    BY <1>0, <1>2 DEF EndTick, BeginTick, Goto
  <2>3. leader' = leader
    BY <2>2
       DEF Ticks, TickStep, OpenSession, SelectStale, RecoverStale, Skip, ReadClaim,
           ClaimWon, ClaimLost, Start, StartFails, Mark, AgendaDone
  <2>4. my'[n].locks = my[n].locks
    <3> USE <1>0 DEF Remember, MemoryOf
    <3>1. CASE OpenSession(n)
      BY <3>1 DEF OpenSession
    <3>2. CASE SelectStale(n) \/ RecoverStale(n) \/ Skip(n) \/ ReadClaim(n) \/ ClaimWon(n)
      BY <3>2 DEF SelectStale, RecoverStale, Skip, ReadClaim, ClaimWon
    <3>3. CASE Start(n) \/ StartFails(n)
      BY <3>3 DEF Start, StartFails
    <3>4. CASE ClaimLost(n) \/ Mark(n) \/ AgendaDone(n)
      BY <3>4 DEF ClaimLost, Mark, AgendaDone
    <3>. QED
      BY <2>2, <3>1, <3>2, <3>3, <3>4 DEF Ticks, TickStep
  <2>. QED
    BY <2>1, <2>3, <2>4
<1>3. CASE ~BeginTick(n) /\ pc[n] = "idle"
  BY <1>3
     DEF Ticks, TickStep, OpenSession, SelectStale, RecoverStale, Skip, ReadClaim,
         ClaimWon, ClaimLost, Start, StartFails, Mark, AgendaDone, EndTick
<1>. QED
  BY <1>1, <1>2, <1>3

(* What a step of a tick does to a row. *)
LEMMA TickRows ==
  ASSUME Shape, CalmState, NEW n \in Node, Ticks(n), ~Mark(n), NEW s \in Slot
  PROVE  \/ fires'[s] = fires[s]
         \/ /\ RecoverStale(n) /\ fires[s].status = "claimed" /\ fires'[s].status = "retrying"
         \/ /\ Skip(n) /\ fires[s].status = "none" /\ fires'[s].status = "skipped"
         \/ /\ ClaimWon(n) /\ s = SlotAt(n) /\ fires[s].status \in {"none", "retrying"}
            /\ fires'[s].status = "claimed" /\ ~fires'[s].old
<1>0. fires \in [Slot -> Fire]
  BY DEF Shape
<1>1. CASE RecoverStale(n)
  <2>1. fires[s] \in Fire
    BY <1>0
  <2>2. Released(fires[s]).status = "retrying"
    BY <2>1, ReleasedForm
  <2>3. fires'[s] = IF s \in my[n].found THEN Released(fires[s]) ELSE fires[s]
    BY <1>1 DEF RecoverStale
  <2>4. s \in my[n].found => fires[s].status = "claimed"
    BY <1>1 DEF RecoverStale, CalmState, FoundStale
  <2>. QED
    BY <1>1, <2>2, <2>3, <2>4
<1>2. CASE Skip(n)
  <2>1. SlotAt(n) \in Slot
    BY <1>2, SlotAtHand DEF Skip, InAgenda
  <2>. QED
    BY <1>0, <1>2, <2>1 DEF Skip, Fire
<1>3. CASE ClaimWon(n)
  <2>1. SlotAt(n) \in Slot
    BY <1>3, SlotAtHand DEF ClaimWon, InAgenda
  <2>2. CASE ReplayRow(n, SlotAt(n))
    BY <1>0, <1>3, <2>1, <2>2 DEF ReplayRow
  <2>3. CASE InsertRow(n, SlotAt(n))
    BY <1>0, <1>3, <2>1, <2>3 DEF InsertRow
  <2>. QED
    BY <1>3, <2>2, <2>3 DEF ClaimWon
<1>4. CASE UNCHANGED fires
  BY <1>4
<1>. QED
  BY <1>1, <1>2, <1>3, <1>4
     DEF Ticks, TickStep, BeginTick, OpenSession, SelectStale, ReadClaim, ClaimLost, Start,
         StartFails, AgendaDone, EndTick

(* In the middle of a tick the runs alive belong to fired slots, except that of
   the slot about to be marked. *)
LEMMA LiveRowsOfTick ==
  ASSUME Shape, Calm, CalmState, NEW n \in Node, Ticks(n), NEW run \in live
  PROVE  /\ run[1] \in Slot /\ run[3] \in Node
         /\ \/ fires[run[1]].status = "fired"
            \/ /\ fires[run[1]].status = "claimed" /\ ~fires[run[1]].old
               /\ run[3] = n /\ pc[n] = "marking" /\ SlotAt(n) = run[1]
<1>1. run[1] \in Slot /\ run[3] \in Node
  BY DEF Shape
<1>2. run[3] # n => pc[run[3]] = "idle"
  BY <1>1, OthersIdle DEF CalmState
<1>. QED
  BY <1>1, <1>2 DEF CalmState, LiveRowsFired, BeingMarked

(* Outside the marking of a slot, a fired row stays fired through a tick. *)
LEMMA TickKeepsRuns ==
  ASSUME Shape, Calm, CalmState, NEW n \in Node, Ticks(n), pc[n] # "marking", live' = live
  PROVE  /\ \A run \in live' : fires'[run[1]].status = "fired"
         /\ LiveRowsFired' /\ OneRunPerSlot'
<1>0. ~Mark(n)
  BY DEF Mark
<1>1. \A run \in live : run[1] \in Slot /\ fires[run[1]].status = "fired"
  BY LiveRowsOfTick
<1>2. \A run \in live' : fires'[run[1]].status = "fired"
  BY <1>0, <1>1, TickRows
<1>. QED
  BY <1>2 DEF LiveRowsFired, OneRunPerSlot, CalmState

(* The steps of a tick, one case per action. *)
LEMMA TickCalm ==
  ASSUME Shape, Calm, CalmState, NEW n \in Node, Ticks(n)
  PROVE  CalmState'
<1>0. /\ pc \in [Node -> Steps] /\ n \in DOMAIN my /\ my[n] \in MemoryOf({my[n].remaining})
      /\ \A m \in Node \ {n} : pc[m] = "idle" /\ pc'[m] = "idle"
  BY MemoryForm, OthersIdle DEF Shape, CalmState
<1>1. OneTicker'
  BY TickKeepsLock DEF CalmState
<1> DEFINE Rest == FoundStale' /\ StarterHolds' /\ LiveRowsFired' /\ OneRunPerSlot'
                     /\ FailedLeavesNoRun'
<1> SUFFICES Rest
  BY <1>1 DEF CalmState
<1>2. ASSUME pc'[n] \notin {"recovering", "starting", "marking"}
      PROVE  FoundStale' /\ StarterHolds' /\ FailedLeavesNoRun'
  BY <1>0, <1>2 DEF FoundStale, StarterHolds, FailedLeavesNoRun
<1>3. CASE BeginTick(n) \/ OpenSession(n) \/ RecoverStale(n) \/ Skip(n) \/ ReadClaim(n)
           \/ ClaimLost(n) \/ AgendaDone(n) \/ EndTick(n)
  <2>1. pc'[n] \notin {"recovering", "starting", "marking"} /\ pc[n] # "marking" /\ live' = live
    BY <1>0, <1>3
       DEF BeginTick, OpenSession, RecoverStale, Skip, ReadClaim, ClaimLost, AgendaDone,
           EndTick, Goto, NextSlot
  <2>. QED
    BY <1>2, <2>1, TickKeepsRuns
<1>4. CASE SelectStale(n)
  <2>1. pc'[n] \notin {"starting", "marking"} /\ pc[n] # "marking" /\ live' = live /\ fires' = fires
    BY <1>0, <1>4 DEF SelectStale, Goto
  <2>2. StarterHolds' /\ FailedLeavesNoRun'
    BY <1>0, <2>1 DEF StarterHolds, FailedLeavesNoRun
  <2>3. my'[n].found = StaleSlots
    BY <1>0, <1>4 DEF SelectStale, Remember, MemoryOf
  <2>4. FoundStale'
    BY <1>0, <2>1, <2>3 DEF FoundStale, StaleSlots
  <2>. QED
    BY <2>1, <2>2, <2>4, TickKeepsRuns
<1>5. CASE ClaimWon(n)
  <2>1. pc'[n] = "starting" /\ pc[n] # "marking" /\ live' = live /\ SlotAt(n)' = SlotAt(n)
    BY <1>0, <1>5 DEF ClaimWon, Goto, SlotAt
  <2>2. SlotAt(n) \in Slot
    BY <1>5, ClaimIsNewer
  <2>3. fires'[SlotAt(n)].status = "claimed" /\ ~fires'[SlotAt(n)].old
    <3>1. CASE ReplayRow(n, SlotAt(n))
      BY <2>2, <3>1 DEF ReplayRow, Shape
    <3>2. CASE InsertRow(n, SlotAt(n))
      BY <2>2, <3>2 DEF InsertRow, Shape
    <3>. QED
      BY <1>5, <3>1, <3>2 DEF ClaimWon
  <2>4. StarterHolds' /\ FoundStale' /\ FailedLeavesNoRun'
    BY <1>0, <2>1, <2>3 DEF StarterHolds, FoundStale, FailedLeavesNoRun
  <2>. QED
    BY <2>1, <2>4, TickKeepsRuns
<1>6. CASE Start(n) \/ StartFails(n)
  <2>1. /\ pc[n] = "starting" /\ pc'[n] = "marking" /\ SlotAt(n)' = SlotAt(n) /\ fires' = fires
        /\ SlotAt(n) \in Slot
    BY <1>0, <1>6, SlotAtHand DEF Start, StartFails, Goto, SlotAt, InAgenda
  <2>2. fires[SlotAt(n)].status = "claimed" /\ ~fires[SlotAt(n)].old
    BY <2>1 DEF CalmState, StarterHolds
  <2>3. \A run \in live : fires[run[1]].status = "fired" /\ run[1] # SlotAt(n)
    BY <2>1, <2>2, LiveRowsOfTick
  <2>4. FoundStale' /\ StarterHolds'
    BY <1>0, <2>1 DEF FoundStale, StarterHolds
  <2>5. \A run \in live' :
           \/ run \in live
           \/ run = <<SlotAt(n), my[n].epoch, n>> /\ run[1] = SlotAt(n) /\ run[3] = n
    <3> DEFINE new == <<SlotAt(n), my[n].epoch, n>>
    <3>1. live' \subseteq live \cup {new}
      BY <1>6 DEF Start, StartFails
    <3>2. new[1] = SlotAt(n) /\ new[3] = n
      OBVIOUS
    <3> HIDE DEF new
    <3>3. \A run \in live' : run \in live \/ (run = new /\ run[1] = SlotAt(n) /\ run[3] = n)
      BY <3>1, <3>2
    <3>. QED
      BY <3>3 DEF new
  <2>6. LiveRowsFired'
    BY <2>1, <2>2, <2>3, <2>5 DEF LiveRowsFired, BeingMarked
  <2>7. OneRunPerSlot'
    BY <2>3, <2>5 DEF OneRunPerSlot, CalmState
  <2>8. FailedLeavesNoRun'
    <3>1. CASE Start(n)
      <4>1. my'[n].outcome = "fired"
        BY <1>0, <3>1 DEF Start, Remember, MemoryOf
      <4>. QED
        BY <1>0, <4>1 DEF FailedLeavesNoRun
    <3>2. CASE StartFails(n)
      <4>1. live' = live
        BY <3>2 DEF StartFails
      <4>. QED
        BY <1>0, <2>1, <2>3, <4>1 DEF FailedLeavesNoRun
    <3>. QED
      BY <1>6, <3>1, <3>2
  <2>. QED
    BY <2>4, <2>6, <2>7, <2>8
<1>7. CASE Mark(n)
  <2>1. /\ pc[n] = "marking" /\ pc'[n] \notin {"recovering", "starting", "marking"}
        /\ live' = live /\ SlotAt(n) \in Slot
    BY <1>0, <1>7, SlotAtHand DEF Mark, Goto, NextSlot, InAgenda
  <2>2. my[n].outcome \in {"fired", "failed"}
    BY <1>0 DEF MemoryOf
  <2>3. \A t \in Slot : fires'[t].status = IF t = SlotAt(n) THEN my[n].outcome ELSE fires[t].status
    BY <1>7, <2>1, <2>2, OutcomeForm DEF Mark
  <2>4. \A run \in live : run[1] = SlotAt(n) => my[n].outcome = "fired"
    BY <2>1, <2>2 DEF CalmState, FailedLeavesNoRun
  <2>5. \A run \in live : run[1] # SlotAt(n) => run[1] \in Slot /\ fires[run[1]].status = "fired"
    BY LiveRowsOfTick
  <2>6. \A run \in live' : fires'[run[1]].status = "fired"
    BY <2>1, <2>3, <2>4, <2>5
  <2>. QED
    BY <1>2, <2>1, <2>6 DEF LiveRowsFired, OneRunPerSlot, CalmState
<1>. QED
  BY <1>3, <1>4, <1>5, <1>6, <1>7 DEF Ticks, TickStep

LEMMA CrashCalm ==
  ASSUME Shape, CalmState, NEW n \in Node, Crash(n)
  PROVE  CalmState'
<1>1. /\ pc'[n] = "idle" /\ Alone(n) /\ fires' = fires /\ leader' = leader /\ env' = env
      /\ live' = {run \in live : run[3] # n}
  BY StepsAlone DEF Shape, Crash, Goto
<1>2. \A m \in Node \ {n} : pc'[m] = pc[m] /\ my'[m] = my[m] /\ SlotAt(m)' = SlotAt(m)
  BY <1>1 DEF Alone, SlotAt
<1>3. \A run \in live' : run \in live /\ run[3] \in Node \ {n}
  BY <1>1 DEF Shape
<1>4. OneTicker' /\ FoundStale' /\ StarterHolds' /\ FailedLeavesNoRun'
  BY <1>1, <1>2, <1>3
     DEF CalmState, OneTicker, FoundStale, StarterHolds, FailedLeavesNoRun
<1>5. LiveRowsFired'
  BY <1>1, <1>2, <1>3 DEF CalmState, LiveRowsFired, BeingMarked
<1>6. OneRunPerSlot'
  BY <1>3 DEF CalmState, OneRunPerSlot
<1>. QED
  BY <1>4, <1>5, <1>6 DEF CalmState

(* The steps from outside a tick: a run that ends, a claim that ages, the clock,
   the lease and the user. *)
LEMMA OutsideCalm ==
  ASSUME Shape, Calm, CalmState, Outside
  PROVE  CalmState'
<1>0. /\ UNCHANGED <<env, pc, at, my>> /\ live' \subseteq live
      /\ \A n \in Node : SlotAt(n)' = SlotAt(n)
      /\ \A run \in live : run[1] \in Slot /\ run[3] \in Node
      /\ fires \in [Slot -> Fire]
  BY OutsideSteps DEF Shape, SlotAt
<1>1. OneTicker'
  <2>1. leader' = leader \/ (leader \in {leader} /\ LeaderExpires)
    BY DEF Outside, FinishRun, ClaimAges, SlotBecomesDue, EditConfig
  <2>2. LeaderExpires => pc[leader] = "idle"
    BY DEF LeaderExpires, Calm
  <2>. QED
    BY <1>0, <2>1, <2>2 DEF CalmState, OneTicker
<1>2. OneRunPerSlot' /\ (FailedLeavesNoRun)'
  BY <1>0 DEF CalmState, OneRunPerSlot, FailedLeavesNoRun
<1>3. ASSUME NEW run \in live, FinishRun(run)
      PROVE  FoundStale' /\ StarterHolds' /\ LiveRowsFired'
  <2>1. PICK outcome \in {"fired", "failed"} : fires' = SetOutcome(run[1], outcome)
    BY <1>3 DEF FinishRun
  <2>2. \A t \in Slot : t # run[1] => fires'[t] = fires[t]
    BY <1>0, <2>1 DEF SetOutcome
  <2>3. fires[run[1]].status = "fired" \/ BeingMarked(run)
    BY DEF CalmState, LiveRowsFired
  <2>4. \A n \in Node : pc[n] = "recovering" => run[1] \notin my[n].found
    BY <2>3 DEF CalmState, FoundStale, BeingMarked
  <2>5. FoundStale'
    <3> SUFFICES ASSUME NEW n \in Node, pc[n] = "recovering", NEW s \in my[n].found
                 PROVE  fires'[s].status = "claimed" /\ fires'[s].old
      BY <1>0 DEF FoundStale
    <3>1. s \in Slot /\ s # run[1]
      BY <2>4 DEF Shape, MemoryOf
    <3>. QED
      BY <2>2, <3>1 DEF CalmState, FoundStale
  <2>6. \A n \in Node : pc[n] = "starting" => SlotAt(n) \in Slot /\ SlotAt(n) # run[1]
    <3> SUFFICES ASSUME NEW n \in Node, pc[n] = "starting"
                 PROVE  SlotAt(n) \in Slot /\ SlotAt(n) # run[1]
      OBVIOUS
    <3>1. SlotAt(n) \in Slot
      BY SlotAtHand DEF InAgenda
    <3>2. run[3] \in Node /\ (pc[run[3]] = "marking" => n # run[3] /\ pc[run[3]] # "idle")
      BY <1>0
    <3>3. pc[run[3]] # "marking"
      <4>1. CASE env.redis
        BY <3>2, <4>1 DEF CalmState, OneTicker
      <4>2. CASE ~env.redis
        BY <3>2, <4>2 DEF Calm
      <4>. QED
        BY <4>1, <4>2
    <3>. QED
      BY <2>3, <3>1, <3>3 DEF CalmState, StarterHolds, BeingMarked
  <2>7. StarterHolds'
    BY <1>0, <2>2, <2>6 DEF CalmState, StarterHolds
  <2>8. \A r \in live' : r \in live /\ r[1] \in Slot /\ r[1] # run[1]
    BY <1>0, <1>3 DEF FinishRun, CalmState, OneRunPerSlot
  <2>9. LiveRowsFired'
    BY <1>0, <2>2, <2>8 DEF CalmState, LiveRowsFired, BeingMarked
  <2>. QED
    BY <2>5, <2>7, <2>9
<1>4. ASSUME NEW s \in Slot, ClaimAges(s)
      PROVE  FoundStale' /\ StarterHolds' /\ LiveRowsFired'
  <2>1. /\ \A t \in Slot : fires'[t].status = fires[t].status /\ (fires[t].old => fires'[t].old)
        /\ \A t \in Slot \ {s} : fires'[t] = fires[t]
    BY <1>0, <1>4 DEF ClaimAges, Fire
  <2>2. \A n \in Node : pc[n] \in {"starting", "marking"} => SlotAt(n) # s /\ SlotAt(n) \in Slot
    BY <1>4, SlotAtHand DEF ClaimAges, Calm, InAgenda
  <2>3. \A n \in Node : \A t \in my[n].found : t \in Slot
    BY DEF Shape, MemoryOf
  <2>4. FoundStale'
    BY <1>0, <2>1, <2>3 DEF CalmState, FoundStale
  <2>5. StarterHolds'
    BY <1>0, <2>1, <2>2 DEF CalmState, StarterHolds
  <2>6. LiveRowsFired'
    BY <1>0, <2>1, <2>2 DEF CalmState, LiveRowsFired, BeingMarked
  <2>. QED
    BY <2>4, <2>5, <2>6
<1>5. ASSUME fires' = fires PROVE FoundStale' /\ StarterHolds' /\ LiveRowsFired'
  <2>1. FoundStale'
    BY <1>0, <1>5 DEF CalmState, FoundStale
  <2>2. StarterHolds'
    BY <1>0, <1>5 DEF CalmState, StarterHolds
  <2>3. LiveRowsFired'
    BY <1>0, <1>5 DEF CalmState, LiveRowsFired, BeingMarked
  <2>. QED
    BY <2>1, <2>2, <2>3
<1>6. FoundStale' /\ StarterHolds' /\ LiveRowsFired'
  <2>1. \/ fires' = fires
        \/ \E run \in live : FinishRun(run)
        \/ \E s \in Slot : ClaimAges(s)
    BY DEF Outside, SlotBecomesDue, LeaderExpires, EditConfig
  <2>. QED
    BY <1>3, <1>4, <1>5, <2>1
<1>. QED
  BY <1>1, <1>2, <1>6 DEF CalmState

LEMMA CalmStep ==
  ASSUME Shape, CalmInv, [Next]_vars
  PROVE  CalmInv'
<1> SUFFICES ASSUME Calm' PROVE CalmState'
  BY DEF CalmInv
<1>1. env' = env
  BY DEF Next, TickStep, BeginTick, OpenSession, SelectStale, RecoverStale, Skip, ReadClaim,
         ClaimWon, ClaimLost, Start, StartFails, Mark, AgendaDone, EndTick, Crash,
         FinishRun, ClaimAges, SlotBecomesDue, LeaderExpires, EditConfig, vars
<1>2. Calm /\ CalmState
  BY <1>1 DEF Calm, CalmInv
<1>3. CASE UNCHANGED vars
  <2>1. \A n \in Node : SlotAt(n)' = SlotAt(n)
    BY <1>3 DEF vars, SlotAt
  <2>2. OneTicker' /\ FoundStale' /\ StarterHolds' /\ FailedLeavesNoRun' /\ OneRunPerSlot'
    BY <1>2, <1>3, <2>1
       DEF vars, CalmState, OneTicker, FoundStale, StarterHolds, FailedLeavesNoRun, OneRunPerSlot
  <2>3. LiveRowsFired'
    <3>1. \A run \in live : run[3] \in Node
      BY DEF Shape
    <3>. QED
      BY <1>2, <1>3, <2>1, <3>1 DEF vars, CalmState, LiveRowsFired, BeingMarked
  <2>. QED
    BY <2>2, <2>3 DEF CalmState
<1>4. CASE Outside
  BY <1>2, <1>4, OutsideCalm
<1>5. ASSUME NEW n \in Node, Ticks(n) \/ Crash(n) PROVE CalmState'
  BY <1>2, <1>5, TickCalm, CrashCalm
<1>. QED
  BY <1>3, <1>4, <1>5 DEF Next, Outside, Ticks

LEMMA CalmInvariant == Spec => []CalmInv
<1>1. Init => CalmInv
  BY DEF Init, CalmInv, CalmState, OneTicker, FoundStale, StarterHolds, LiveRowsFired,
         OneRunPerSlot, FailedLeavesNoRun
<1>2. Shape /\ CalmInv /\ [Next]_vars => CalmInv'
  BY CalmStep
<1>. QED
  BY <1>1, <1>2, ShapeInvariant, PTL DEF Spec

(* In a calm deployment a slot never has two trading runs alive. *)
THEOREM OneLiveRun == Spec => []OneLiveRunPerSlot
<1>1. CalmInv => OneLiveRunPerSlot
  BY DEF CalmInv, CalmState, OneRunPerSlot, OneLiveRunPerSlot
<1>. QED
  BY <1>1, CalmInvariant, PTL

(* In a calm deployment a decided slot is not taken up again by any step. *)
LEMMA DecidedStep ==
  ASSUME Shape, CalmInv, [Next]_vars, Calm, NEW s \in Slot
  PROVE  StaysDecided(s)
<1>0. CalmState /\ fires \in [Slot -> Fire]
  BY DEF CalmInv, Shape
<1>1. ASSUME NEW n \in Node, Ticks(n), ~Mark(n) PROVE StaysDecided(s)
  BY <1>0, <1>1, TickRows DEF StaysDecided, Decided
<1>2. ASSUME NEW n \in Node, Mark(n) PROVE StaysDecided(s)
  <2>1. SlotAt(n) \in Slot
    BY <1>2, SlotAtHand DEF Mark, InAgenda
  <2>2. my[n].outcome \in {"fired", "failed"}
    BY DEF Shape, MemoryOf
  <2>3. \A t \in Slot : fires'[t].status = IF t = SlotAt(n) THEN my[n].outcome ELSE fires[t].status
    BY <1>2, <2>1, <2>2, OutcomeForm DEF Mark
  <2>. QED
    BY <2>2, <2>3 DEF StaysDecided, Decided
<1>3. ASSUME NEW run \in live, FinishRun(run) PROVE StaysDecided(s)
  <2>1. run[1] \in Slot
    BY DEF Shape
  <2>2. PICK outcome \in {"fired", "failed"} : fires' = SetOutcome(run[1], outcome)
    BY <1>3 DEF FinishRun
  <2>3. \A t \in Slot : SetOutcome(run[1], outcome)[t].status
                          = IF t = run[1] THEN outcome ELSE fires[t].status
    BY <2>1, OutcomeForm
  <2>. QED
    BY <2>2, <2>3 DEF StaysDecided, Decided
<1>4. ASSUME NEW t \in Slot, ClaimAges(t) PROVE StaysDecided(s)
  BY <1>0, <1>4 DEF ClaimAges, Fire, StaysDecided
<1>5. CASE fires' = fires
  BY <1>5 DEF StaysDecided
<1>6. \/ fires' = fires
      \/ \E n \in Node : Ticks(n)
      \/ \E run \in live : FinishRun(run)
      \/ \E t \in Slot : ClaimAges(t)
  BY DEF Next, Ticks, Crash, SlotBecomesDue, LeaderExpires, EditConfig, vars
<1>. QED
  BY <1>1, <1>2, <1>3, <1>4, <1>5, <1>6

(* A slot that was skipped, fired or failed stays decided. *)
THEOREM DecidedSlotsStay == Spec => DecidedStaysDecided
<1>1. Shape /\ CalmInv /\ [Next]_vars => [Calm => \A s \in Slot : StaysDecided(s)]_vars
  BY DecidedStep
<1>. QED
  BY <1>1, ShapeInvariant, CalmInvariant, PTL DEF Spec, DecidedStaysDecided

-----------------------------------------------------------------------------
(* Arithmetic that the provers do not find for a primed operator. *)
LEMMA LessLeavesRoom ==
  \A a, b, left, total \in Nat : b <= a /\ a + left <= total => b + left <= total
OBVIOUS

(* The capital a tick has found left is still left when it claims. *)

Gated(n) ==
  pc[n] \in {"opened", "gate", "claiming"} /\ 0 < my[n].remaining =>
      /\ Allocated + my[n].remaining <= TotalCapital
      /\ pc[n] = "claiming" => CapitalFits(SlotAt(n), my[n].remaining)

GatedInv == Calm => \A n \in Node : Gated(n)

(* Steps that are not a claim leave no more capital allocated, except the
   marking of a slot. *)
LEMMA NoMoreAllocated ==
  ASSUME Shape, Shape', Calm, CalmState, [Next]_vars,
         \A n \in Node : ~ClaimWon(n) /\ ~Mark(n)
  PROVE  Allocated' <= Allocated
<1>0. fires \in [Slot -> Fire] /\ fires' \in [Slot -> Fire]
  BY DEF Shape
<1> SUFFICES ASSUME NEW s \in Slot, fires'[s].status \in {"claimed", "fired"}
             PROVE  /\ fires[s].status \in {"claimed", "fired"}
                    /\ fires'[s].capital = fires[s].capital
  BY <1>0, AllocatedShrinks DEF Counted
<1>1. ASSUME NEW n \in Node, Ticks(n) PROVE fires'[s] = fires[s]
  BY <1>1, TickRows
<1>2. ASSUME NEW run \in live, FinishRun(run)
      PROVE  /\ fires[s].status \in {"claimed", "fired"}
             /\ fires'[s].capital = fires[s].capital
  <2>1. run[1] \in Slot
    BY DEF Shape
  <2>2. PICK outcome \in {"fired", "failed"} : fires' = SetOutcome(run[1], outcome)
    BY <1>2 DEF FinishRun
  <2>3. \A t \in Slot : SetOutcome(run[1], outcome)[t].status
                          = IF t = run[1] THEN outcome ELSE fires[t].status
    BY <2>1, OutcomeForm
  <2>4. SetOutcome(run[1], outcome)[s].capital = fires[s].capital
    BY <1>0, <2>1 DEF SetOutcome, Fire
  <2>5. fires[run[1]].status \in {"fired", "claimed"}
    BY DEF CalmState, LiveRowsFired, BeingMarked
  <2>. QED
    BY <2>2, <2>3, <2>4, <2>5
<1>3. ASSUME NEW t \in Slot, ClaimAges(t)
      PROVE  fires'[s].status = fires[s].status /\ fires'[s].capital = fires[s].capital
  BY <1>0, <1>3 DEF ClaimAges, Fire
<1>4. \/ fires' = fires
      \/ \E n \in Node : Ticks(n)
      \/ \E run \in live : FinishRun(run)
      \/ \E t \in Slot : ClaimAges(t)
  BY DEF Next, Ticks, Crash, SlotBecomesDue, LeaderExpires, EditConfig, vars
<1>. QED
  BY <1>1, <1>2, <1>3, <1>4

LEMMA GatedStep ==
  ASSUME Shape, Shape', Amounts, CalmInv, GatedInv, [Next]_vars
  PROVE  GatedInv'
<1> SUFFICES ASSUME Calm', NEW n \in Node PROVE Gated(n)'
  BY DEF GatedInv
<1>1. env' = env
  BY DEF Next, TickStep, BeginTick, OpenSession, SelectStale, RecoverStale, Skip, ReadClaim,
         ClaimWon, ClaimLost, Start, StartFails, Mark, AgendaDone, EndTick, Crash,
         FinishRun, ClaimAges, SlotBecomesDue, LeaderExpires, EditConfig, vars
<1>2. Calm /\ CalmState /\ Gated(n)
  BY <1>1 DEF Calm, CalmInv, GatedInv
<1>3. /\ Allocated \in Nat /\ Allocated' \in Nat /\ my[n].remaining \in Nat /\ TotalCapital \in Nat
      /\ pc \in [Node -> Steps] /\ my[n] \in MemoryOf({my[n].remaining}) /\ n \in DOMAIN my
  <2>1. Allocated \in Nat /\ (Allocated \in Nat)'
    BY AllocatedType, PTL
  <2>2. pc \in [Node -> Steps]
    BY DEF Shape
  <2>. QED
    BY <2>1, <2>2, SlotAssumption, MemoryForm DEF SlotAssumption, Amounts
<1>4. ASSUME pc'[n] \notin {"opened", "gate", "claiming"} PROVE Gated(n)'
  BY <1>4 DEF Gated
<1>5. ASSUME pc'[n] = pc[n], my'[n] = my[n], SlotAt(n)' = SlotAt(n),
             \A m \in Node : ~ClaimWon(m) /\ ~Mark(m)
      PROVE  Gated(n)'
  <2>1. Allocated' <= Allocated
    BY <1>2, <1>5, NoMoreAllocated
  <2>. QED
    BY <1>2, <1>3, <1>5, <2>1 DEF Gated, CapitalFits
<1>6. ASSUME NEW m \in Node, m # n, Ticks(m) PROVE Gated(n)'
  <2>1. pc'[n] = "idle"
    BY <1>2, <1>6, OthersIdle DEF CalmState
  <2>. QED
    BY <1>4, <2>1
<1>7. ASSUME Ticks(n) PROVE Gated(n)'
  <2>1. CASE BeginTick(n) \/ RecoverStale(n) \/ Skip(n) \/ ClaimWon(n) \/ ClaimLost(n)
             \/ Start(n) \/ StartFails(n) \/ Mark(n) \/ AgendaDone(n) \/ EndTick(n)
    <3>1. pc'[n] \notin {"opened", "gate", "claiming"}
      BY <1>3, <2>1
         DEF BeginTick, RecoverStale, Skip, ClaimWon, ClaimLost, Start, StartFails, Mark,
             AgendaDone, EndTick, Goto, NextSlot
    <3>. QED
      BY <1>4, <3>1
  <2>2. CASE OpenSession(n) \/ SelectStale(n) \/ ReadClaim(n)
    <3>1. Allocated' <= Allocated
      <4>1. \A m \in Node : ~ClaimWon(m) /\ ~Mark(m)
        <5>1. pc[n] \in {"slot", "opened", "gate"}
          BY <2>2 DEF OpenSession, SelectStale, ReadClaim
        <5>2. \A m \in Node \ {n} : pc[m] = "idle"
          BY <1>2, <1>7, OthersIdle DEF CalmState
        <5>. QED
          BY <5>1, <5>2 DEF ClaimWon, Mark
      <4>. QED
        BY <1>2, <4>1, NoMoreAllocated
    <3>2. CASE OpenSession(n)
      <4>1. my'[n].remaining = Remaining /\ pc'[n] # "claiming"
        BY <1>3, <3>2 DEF OpenSession, Remember, Goto, MemoryOf
      <4>2. 0 < Remaining => Allocated + Remaining <= TotalCapital
        BY <1>3 DEF Remaining
      <4>3. Remaining \in Nat
        BY RemainingType
      <4>4. 0 < Remaining => Allocated' + Remaining <= TotalCapital
        BY <1>3, <3>1, <4>2, <4>3, LessLeavesRoom
      <4>. QED
        BY <4>1, <4>4 DEF Gated
    <3>3. CASE SelectStale(n)
      <4>1. my'[n].remaining = my[n].remaining /\ pc'[n] # "claiming" /\ pc[n] = "opened"
        BY <1>3, <3>3 DEF SelectStale, Remember, Goto, MemoryOf
      <4>. QED
        BY <1>2, <1>3, <3>1, <4>1 DEF Gated
    <3>4. CASE ReadClaim(n)
      <4>1. /\ my'[n].remaining = my[n].remaining /\ pc[n] = "gate"
            /\ SlotAt(n)' = SlotAt(n) /\ GatePasses(SlotAt(n), my[n])
        BY <1>3, <3>4 DEF ReadClaim, Remember, MemoryOf, SlotAt
      <4>. QED
        BY <1>2, <1>3, <3>1, <4>1 DEF Gated, GatePasses, CapitalFits
    <3>. QED
      BY <2>2, <3>2, <3>3, <3>4
  <2>. QED
    BY <1>7, <2>1, <2>2 DEF Ticks, TickStep
<1>8. ASSUME NEW m \in Node, Crash(m) PROVE Gated(n)'
  <2>1. CASE m = n
    BY <1>3, <1>4, <1>8, <2>1 DEF Crash, Goto
  <2>2. CASE m # n
    <3>1. pc'[n] = pc[n] /\ my'[n] = my[n] /\ SlotAt(n)' = SlotAt(n)
      BY <1>8, <2>2, StepsAlone DEF Alone, SlotAt
    <3>2. Allocated' <= Allocated
      BY <1>3, <1>8, AllocatedShrinks DEF Crash, Counted, Shape
    <3>. QED
      BY <1>2, <1>3, <3>1, <3>2 DEF Gated, CapitalFits
  <2>. QED
    BY <2>1, <2>2
<1>9. CASE Outside \/ UNCHANGED vars
  <2>1. pc' = pc /\ my' = my /\ SlotAt(n)' = SlotAt(n)
    BY <1>9, OutsideSteps DEF vars, SlotAt
  <2>2. \A m \in Node : ~ClaimWon(m) /\ ~Mark(m)
    <3>1. \A m \in Node : pc'[m] = pc[m] /\ pc[m] \in Steps
      BY <1>3, <2>1
    <3>. QED
      BY <1>3, <2>1, <3>1 DEF ClaimWon, Mark, Goto, NextSlot
  <2>. QED
    BY <1>5, <2>1, <2>2
<1>. QED
  BY <1>6, <1>7, <1>8, <1>9 DEF Next, Outside, Ticks

LEMMA GatedInvariant == Spec => []GatedInv
<1>1. Init => GatedInv
  BY DEF Init, GatedInv, Gated
<1>2. Shape /\ Shape' /\ Amounts /\ CalmInv /\ GatedInv /\ [Next]_vars => GatedInv'
  BY GatedStep
<1>3. Init => Amounts
  BY AmountsInit
<1>4. Shape /\ Amounts /\ [Next]_vars => Amounts'
  BY AmountsStep
<1>. QED
  BY <1>1, <1>2, <1>3, <1>4, ShapeInvariant, CalmInvariant, PTL DEF Spec

(* In a calm deployment a claim by a tick that found capital left keeps the
   claimed and fired slots within the total capital. *)
THEOREM CapitalIsRespected == Spec => CapitalRespectedUntilExhausted
<1>1. ASSUME Shape, Amounts, GatedInv, Calm, NEW n \in Node, 0 < my[n].remaining, ClaimWon(n)
      PROVE  Allocated' <= TotalCapital
  <2>1. /\ Allocated + my[n].remaining <= TotalCapital
        /\ CapitalFits(SlotAt(n), my[n].remaining)
    BY <1>1 DEF GatedInv, Gated, ClaimWon
  <2>2. /\ RequestedCapital(SlotAt(n)) \in Nat
        /\ Allocated' = Allocated + RequestedCapital(SlotAt(n))
    BY <1>1, AllocatedByClaim
  <2>3. Allocated \in Nat /\ my[n].remaining \in Nat /\ TotalCapital \in Nat
    BY <1>1, AllocatedType, SlotAssumption DEF SlotAssumption, Amounts
  <2>4. RequestedCapital(SlotAt(n)) <= my[n].remaining
    BY <1>1, <2>1, <2>2, <2>3 DEF CapitalFits, RequestedCapital
  <2>. QED
    BY <2>1, <2>2, <2>3, <2>4
<1>2. Shape /\ Amounts /\ GatedInv /\ [Next]_vars
      => [Calm => \A n \in Node :
                    0 < my[n].remaining /\ ClaimWon(n) => Allocated' <= TotalCapital]_vars
  BY <1>1
<1>3. Init => Amounts
  BY AmountsInit
<1>4. Shape /\ Amounts /\ [Next]_vars => Amounts'
  BY AmountsStep
<1>. QED
  BY <1>2, <1>3, <1>4, ShapeInvariant, GatedInvariant, PTL
     DEF Spec, CapitalRespectedUntilExhausted
=============================================================================
