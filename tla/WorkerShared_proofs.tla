------------------------- MODULE WorkerShared_proofs -------------------------
(***************************************************************************)
(* Proofs about what the threads of Worker share.  First the alerts, for   *)
(* any number of events, symbols and deaths, any budget and any order of   *)
(* the threads: an alert is delivered at most once by each thread in each  *)
(* of its lives, and the scan loop stays within its budgets of the day.    *)
(* Then the cache, for any number of processes and callers; the            *)
(* connection pool, for any number of clients and any size; the scans, for *)
(* any number of threads and slots; and the rows of the reviews, for any   *)
(* number of runs.                                                         *)
(***************************************************************************)
EXTENDS Worker, FiniteSetTheorems, WellFoundedInduction, TLAPS

-----------------------------------------------------------------------------
(* What of a sequence is kept, is a sequence of the same kind. *)

LEMMA LeastNumber ==
  ASSUME NEW B, B \subseteq Nat, B # {}
  PROVE  \E m \in B : \A k \in B : m <= k
<1>1. PICK m \in B : \A k \in B : <<k, m>> \notin OpToRel(<, Nat)
  BY NatLessThanWellFounded, WFMin
<1>2. \A k \in B : ~(k < m)
  BY <1>1, Zenon DEF OpToRel
<1>. QED
  BY <1>2

KeptOf(f, seq, S, i) ==
    IF i = 0 THEN <<>> ELSE IF seq[i] \in S THEN Append(f[i - 1], seq[i]) ELSE f[i - 1]
IsKept(f, seq, S, n) == f = [i \in 0..n |-> KeptOf(f, seq, S, i)]

LEMMA KeptExists ==
  ASSUME NEW seq, NEW S, NEW n \in Nat
  PROVE  \E f : IsKept(f, seq, S, n)
<1> DEFINE Bad == {m \in Nat : ~ \E f : IsKept(f, seq, S, m)}
<1> SUFFICES ASSUME Bad # {} PROVE FALSE
  OBVIOUS
<1>1. PICK m \in Bad : \A k \in Bad : m <= k
  BY LeastNumber
<1>2. m # 0
  <2>1. IsKept([i \in 0..0 |-> <<>>], seq, S, 0)
    BY DEF IsKept, KeptOf
  <2>. QED
    BY <2>1
<1>3. PICK f : IsKept(f, seq, S, m - 1)
  BY <1>1, <1>2
<1> DEFINE g == [i \in 0..m |-> KeptOf(f, seq, S, i)]
<1>4. \A i \in 0..(m - 1) : g[i] = f[i]
  BY <1>1, <1>3 DEF IsKept
<1>5. \A i \in 0..m : KeptOf(f, seq, S, i) = KeptOf(g, seq, S, i)
  <2> TAKE i \in 0..m
  <2>1. i # 0 => g[i - 1] = f[i - 1]
    BY <1>1, <1>4
  <2> HIDE DEF g
  <2>. QED
    BY <2>1 DEF KeptOf
<1>6. g = [i \in 0..m |-> KeptOf(g, seq, S, i)]
  BY <1>5
<1>. QED
  BY <1>1, <1>6 DEF IsKept

LEMMA KeptType ==
  ASSUME NEW K, NEW seq \in Seq(K), NEW S, NEW f, IsKept(f, seq, S, Len(seq)), NEW j \in 0..Len(seq)
  PROVE  f[j] \in Seq(K)
<1> DEFINE Bad == {m \in 0..Len(seq) : f[m] \notin Seq(K)}
<1> SUFFICES ASSUME Bad # {} PROVE FALSE
  OBVIOUS
<1>0. Len(seq) \in Nat /\ \A m \in 1..Len(seq) : seq[m] \in K
  OBVIOUS
<1>1. PICK m \in Bad : \A k \in Bad : m <= k
  <2>1. Bad \subseteq Nat
    BY <1>0
  <2> HIDE DEF Bad
  <2>. QED
    BY <2>1, LeastNumber
<1>2. f[m] = KeptOf(f, seq, S, m)
  BY <1>1 DEF IsKept
<1>3. CASE m = 0
  <2>1. f[m] = <<>>
    BY <1>2, <1>3 DEF KeptOf
  <2>2. <<>> \in Seq(K)
    OBVIOUS
  <2>. QED
    BY <1>1, <2>1, <2>2
<1>4. CASE m # 0
  <2>1. m - 1 \in 0..Len(seq) /\ m - 1 \notin Bad /\ seq[m] \in K
    BY <1>0, <1>1, <1>4
  <2>2. f[m - 1] \in Seq(K)
    BY <2>1
  <2>3. Append(f[m - 1], seq[m]) \in Seq(K)
    BY <2>1, <2>2
  <2>. QED
    BY <1>1, <1>2, <1>4, <2>2, <2>3 DEF KeptOf
<1>. QED
  BY <1>3, <1>4

LEMMA AmongType ==
  ASSUME NEW K, NEW seq \in Seq(K), NEW S
  PROVE  Among(seq, S) \in Seq(K)
<1> DEFINE f == CHOOSE g : IsKept(g, seq, S, Len(seq))
<1>0. Len(seq) \in Nat
  OBVIOUS
<1>1. Among(seq, S) = f[Len(seq)]
  BY Zenon DEF Among, IsKept, KeptOf
<1>2. IsKept(f, seq, S, Len(seq))
  <2>1. \E g : IsKept(g, seq, S, Len(seq))
    BY <1>0, KeptExists
  <2>. QED
    BY <2>1
<1> HIDE DEF f
<1>. QED
  BY <1>1, <1>2, KeptType

-----------------------------------------------------------------------------
(* Steps: what they are for the observation. *)

LEMMA AlertCases ==
    [Next]_vars => \/ TimeNext \/ ObservationNext \/ OutboxNext
                   \/ UNCHANGED <<env, crashes, outboxVars, observationVars>>
                   \/ \E n \in Node : Dies(n) /\ SendersDie(n) /\ ObservationDies(n)
<1> SUFFICES ASSUME [Next]_vars, ~TimeNext, ~ObservationNext, ~OutboxNext
             PROVE  \/ UNCHANGED <<env, crashes, outboxVars, observationVars>>
                    \/ \E n \in Node : Dies(n) /\ SendersDie(n) /\ ObservationDies(n)
  OBVIOUS
<1>1. CASE StartNext
  BY <1>1 DEF StartNext, Start, ListQueued, Requeue, Requeued, processVars
<1>2. CASE ScanNext \/ ReviewNext \/ AutoNext \/ TradingNext \/ PoolNext \/ CacheNext
  BY <1>2 DEF ScanNext, ReviewNext, AutoNext, TradingNext, PoolNext, CacheNext, processVars
<1>3. ASSUME NEW n \in Node, Crash(n)
      PROVE  \E m \in Node : Dies(m) /\ SendersDie(m) /\ ObservationDies(m)
  BY <1>3 DEF Crash
<1>4. CASE UNCHANGED vars
  BY <1>4 DEF vars, processVars
<1>. QED
  BY <1>1, <1>2, <1>3, <1>4 DEF Next

-----------------------------------------------------------------------------
(* Types, and who sends has a key in hand. *)

EventRow == [status : {"none", "queued", "sent", "failed"}, attempts : 0..MaxAttempts, old : BOOLEAN]
SendingRow == [pc : {"idle", "read", "deliver", "accepted", "refused"}, key : 0..MaxEvent]

KeyInHand == \A x \in Sender : sending[x].pc # "idle" => sending[x].key # 0

OutboxTypes == OutboxTypeOK /\ KeyInHand

AlertTypes ==
    /\ env \in Environment /\ crashes \in Nat
    /\ OutboxTypes /\ ObservationTypeOK

LEMMA AlertFacts ==
    /\ MaxEvent \in Nat /\ MaxAttempts \in Nat \ {0} /\ MaxDelivered \in Nat /\ MaxScan \in Nat
    /\ AiBudget \in Nat /\ AlertBudget \in Nat /\ IsFiniteSet(Symbol)
    /\ {"notifier", "web", "monitor", "looper"} \subseteq Sender
    /\ \A k \in Key : k \in 0..MaxEvent /\ k # 0
    /\ \A k \in 0..MaxEvent : k # 0 => k \in Key
BY OutboxAssumption, ObservationAssumption, ScanAssumption
   DEF OutboxAssumption, ObservationAssumption, ScanAssumption, Key

LEMMA AlertEnv ==
    ASSUME env \in Environment
    PROVE  /\ env.times \in 0..MaxEvent /\ env.symbols \subseteq Symbol /\ env.crashes \in Nat
           /\ \A flag \in {"redis", "flaps", "quick", "slow", "faults"} : env[flag] \in BOOLEAN
           /\ {env.refuses, env.channel, env.prune, env.users} \subseteq BOOLEAN
BY NodeAssumption, ScanAssumption, OutboxAssumption, ObservationAssumption
   DEF NodeAssumption, ScanAssumption, OutboxAssumption, ObservationAssumption

\* The fields of the types, for the steps that need no more.
LEMMA OutboxFields ==
    ASSUME OutboxTypes
    PROVE  /\ event \in [Key -> EventRow] /\ created \in Seq(Key)
           /\ sending \in [Sender -> SendingRow] /\ todo \in Seq(Key)
           /\ delivered \in [Key -> 0..MaxDelivered]
           /\ \A x \in Sender : sending[x].pc # "idle" => sending[x].key \in Key
<1>1. /\ event \in [Key -> EventRow] /\ created \in Seq(Key)
      /\ sending \in [Sender -> SendingRow] /\ todo \in Seq(Key)
      /\ delivered \in [Key -> 0..MaxDelivered]
  BY DEF OutboxTypes, OutboxTypeOK, EventRow, SendingRow
<1>2. \A it \in SendingRow : it.key \in 0..MaxEvent
  BY DEF SendingRow
<1>. QED
  BY <1>1, <1>2, AlertFacts DEF OutboxTypes, KeyInHand

LEMMA OutboxFollows ==
    ASSUME event' \in [Key -> EventRow], created' \in Seq(Key),
           sending' \in [Sender -> SendingRow], todo' \in Seq(Key),
           delivered' \in [Key -> 0..MaxDelivered], KeyInHand'
    PROVE  OutboxTypes'
BY DEF OutboxTypes, OutboxTypeOK, EventRow, SendingRow

LEMMA QuietType == Quiet \in SendingRow /\ Quiet.pc = "idle"
BY AlertFacts DEF Quiet, SendingRow

\* A sender takes something else in hand.
LEMMA SenderMoves ==
    ASSUME OutboxTypes, NEW x \in Sender, NEW it \in SendingRow, it.pc # "idle" => it.key # 0,
           sending' = [sending EXCEPT ![x] = it]
    PROVE  sending' \in [Sender -> SendingRow] /\ KeyInHand'
<1>1. sending \in [Sender -> SendingRow]
  BY OutboxFields
<1>. QED
  BY <1>1 DEF OutboxTypes, KeyInHand

LEMMA SenderGoes ==
    ASSUME OutboxTypes, NEW x \in Sender, sending[x].pc # "idle",
           NEW pc \in {"read", "deliver", "accepted", "refused"}, sending' = [sending EXCEPT ![x].pc = pc]
    PROVE  /\ sending' \in [Sender -> SendingRow] /\ KeyInHand'
           /\ sending'[x].pc = pc /\ sending'[x].key = sending[x].key
           /\ \A y \in Sender \ {x} : sending'[y] = sending[y]
<1> DEFINE it == [sending[x] EXCEPT !.pc = pc]
<1>1. sending \in [Sender -> SendingRow] /\ sending[x] \in SendingRow /\ sending[x].key # 0
  BY OutboxFields DEF OutboxTypes, KeyInHand
<1>2. sending' = [sending EXCEPT ![x] = it]
  BY <1>1
<1>3. it \in SendingRow /\ it.pc = pc /\ it.key = sending[x].key
  BY ONLY <1>1 DEF SendingRow
<1> HIDE DEF it
<1>4. sending'[x] = it /\ \A y \in Sender \ {x} : sending'[y] = sending[y]
  BY <1>1, <1>2
<1>. QED
  BY <1>1, <1>2, <1>3, <1>4, SenderMoves

\* An event is raised, and sent at once where there is a channel.
LEMMA CreateKeeps ==
    ASSUME OutboxTypes, NEW x \in Sender, NEW k \in Key, CreateAndDispatch(x, k)
    PROVE  OutboxTypes'
<1>1. event \in [Key -> EventRow] /\ created \in Seq(Key) /\ sending \in [Sender -> SendingRow]
      /\ todo' \in Seq(Key) /\ delivered' \in [Key -> 0..MaxDelivered]
  BY OutboxFields DEF CreateAndDispatch
<1>2. created' \in Seq(Key)
  BY <1>1 DEF CreateAndDispatch
<1>3. event' \in [Key -> EventRow]
  <2>1. [event[k] EXCEPT !.status = "queued"] \in EventRow
    BY <1>1 DEF EventRow
  <2>2. event' = event \/ event' = [event EXCEPT ![k] = [event[k] EXCEPT !.status = "queued"]]
    BY <1>1 DEF CreateAndDispatch
  <2>. QED
    BY <1>1, <2>1, <2>2
<1>4. sending' \in [Sender -> SendingRow] /\ KeyInHand'
  <2> DEFINE it == [pc |-> "read", key |-> k]
  <2>1. it \in SendingRow /\ it.key # 0
    BY AlertFacts DEF SendingRow
  <2>2. CASE sending' = sending
    BY <1>1, <2>2 DEF OutboxTypes, KeyInHand
  <2>3. CASE sending' = [sending EXCEPT ![x] = it]
    BY <2>1, <2>3, SenderMoves
  <2>. QED
    BY <2>2, <2>3 DEF CreateAndDispatch
<1>. QED
  BY <1>1, <1>2, <1>3, <1>4, OutboxFollows

LEMMA MarkedType ==
    ASSUME OutboxTypes, NEW k \in Key, NEW status \in {"sent", "failed"}
    PROVE  Marked(k, status) \in [Key -> EventRow]
<1>1. event \in [Key -> EventRow]
  BY OutboxFields
<1>2. event[k].attempts \in 0..MaxAttempts
  BY <1>1 DEF EventRow
<1>3. MoreAttempts(k) \in 0..MaxAttempts
  BY <1>2, AlertFacts DEF MoreAttempts
<1> DEFINE it == [event[k] EXCEPT !.status = status, !.attempts = MoreAttempts(k)]
<1>4. it \in EventRow
  BY ONLY <1>1, <1>3 DEF EventRow
<1>5. Marked(k, status) = event \/ Marked(k, status) = [event EXCEPT ![k] = it]
  BY <1>1 DEF Marked
<1> HIDE DEF it
<1>. QED
  BY <1>1, <1>4, <1>5

LEMMA FirstType ==
    ASSUME NEW K, NEW seq \in Seq(K), NEW n \in Nat
    PROVE  First(seq, n) \in Seq(K)
<1>1. Len(seq) \in Nat /\ \A i \in 1..Len(seq) : seq[i] \in K
  OBVIOUS
<1>2. PICK m \in 0..Len(seq) : First(seq, n) = SubSeq(seq, 1, m)
  BY <1>1 DEF First
<1>. QED
  BY <1>1, <1>2

LEMMA OutboxStep ==
    ASSUME OutboxTypes,
           \/ \E x \in Sender : SendStep(x)
           \/ ListPending \/ SendNext \/ Prune \/ \E k \in Key : GetsOld(k)
    PROVE  OutboxTypes'
<1>0. /\ event \in [Key -> EventRow] /\ created \in Seq(Key)
      /\ sending \in [Sender -> SendingRow] /\ todo \in Seq(Key)
      /\ delivered \in [Key -> 0..MaxDelivered] /\ KeyInHand
      /\ \A x \in Sender : sending[x].pc # "idle" => sending[x].key \in Key
  BY OutboxFields DEF OutboxTypes
<1>q. Quiet \in SendingRow /\ Quiet.pc = "idle"
  BY QuietType
<1>s. sending' = sending => sending' \in [Sender -> SendingRow] /\ KeyInHand'
  BY <1>0 DEF KeyInHand
<1>1. ASSUME NEW x \in Sender, ReadEvent(x) PROVE OutboxTypes'
  <2>1. UNCHANGED <<event, created, todo, delivered>> /\ sending[x].pc = "read"
    BY <1>1 DEF ReadEvent
  <2>2. sending' \in [Sender -> SendingRow] /\ KeyInHand'
    <3>1. CASE sending' = [sending EXCEPT ![x] = Quiet]
      BY <1>q, <3>1, SenderMoves
    <3>2. CASE sending' = [sending EXCEPT ![x].pc = "deliver"]
      BY <2>1, <3>2, SenderGoes
    <3>. QED
      BY <1>1, <3>1, <3>2 DEF ReadEvent
  <2>. QED
    BY <1>0, <2>1, <2>2, OutboxFollows
<1>2. ASSUME NEW x \in Sender, Deliver(x) PROVE OutboxTypes'
  <2>1. UNCHANGED <<event, created, todo>> /\ sending[x].pc = "deliver" /\ sending[x].key \in Key
    BY <1>0, <1>2 DEF Deliver
  <2>2. sending' \in [Sender -> SendingRow] /\ KeyInHand'
    BY <1>2, <2>1, SenderGoes DEF Deliver
  <2>3. delivered' \in [Key -> 0..MaxDelivered]
    <3> DEFINE k == sending[x].key
    <3>1. delivered[k] \in 0..MaxDelivered
      BY <1>0, <2>1
    <3>2. delivered' = delivered \/ delivered' = [delivered EXCEPT ![k] =
             IF delivered[k] < MaxDelivered THEN delivered[k] + 1 ELSE delivered[k]]
      BY <1>2 DEF Deliver
    <3>3. (IF delivered[k] < MaxDelivered THEN delivered[k] + 1 ELSE delivered[k]) \in 0..MaxDelivered
      BY <3>1, AlertFacts
    <3>. QED
      BY <1>0, <3>2, <3>3
  <2>. QED
    BY <1>0, <2>1, <2>2, <2>3, OutboxFollows
<1>3. ASSUME NEW x \in Sender, MarkSent(x) \/ MarkFailed(x) PROVE OutboxTypes'
  <2>1. UNCHANGED <<created, todo, delivered>> /\ sending[x].key \in Key /\ sending[x].pc # "idle"
    BY <1>0, <1>3 DEF MarkSent, MarkFailed
  <2>2. sending' \in [Sender -> SendingRow] /\ KeyInHand'
    <3>1. CASE sending' = [sending EXCEPT ![x] = Quiet]
      BY <1>q, <3>1, SenderMoves
    <3>2. CASE sending' = [sending EXCEPT ![x].pc = "refused"]
      BY <2>1, <3>2, SenderGoes
    <3>. QED
      BY <1>3, <3>1, <3>2 DEF MarkSent, MarkFailed
  <2>3. event' \in [Key -> EventRow]
    BY <1>0, <1>3, <2>1, MarkedType DEF MarkSent, MarkFailed
  <2>. QED
    BY <1>0, <2>1, <2>2, <2>3, OutboxFollows
<1>4. CASE ListPending
  <2>1. Unsent \in Seq(Key) /\ Window \in Nat /\ Batch \in Nat
    BY <1>0, AmongType, OutboxAssumption DEF Unsent, OutboxAssumption
  <2>2. First(Unsent, Window) \in Seq(Key)
    BY <2>1, FirstType
  <2>3. Among(First(Unsent, Window), {k \in Key : IsPending(k)}) \in Seq(Key)
    BY <2>2, AmongType
  <2>4. todo' \in Seq(Key)
    BY <1>4, <2>1, <2>3, FirstType DEF ListPending
  <2>. QED
    BY <1>0, <1>4, <1>s, <2>4, OutboxFollows DEF ListPending
<1>5. CASE SendNext
  <2> DEFINE it == [pc |-> "read", key |-> Head(todo)]
  <2>1. Head(todo) \in Key /\ Tail(todo) \in Seq(Key)
    BY <1>0, <1>5 DEF SendNext
  <2>2. it \in SendingRow /\ it.key # 0
    BY <2>1, AlertFacts DEF SendingRow
  <2>3. sending' = [sending EXCEPT !["notifier"] = it]
    BY <1>5 DEF SendNext
  <2> HIDE DEF it
  <2>4. sending' \in [Sender -> SendingRow] /\ KeyInHand'
    BY <2>2, <2>3, SenderMoves, AlertFacts
  <2>. QED
    BY <1>0, <1>5, <2>1, <2>4, OutboxFollows DEF SendNext
<1>6. CASE Prune
  <2>1. Head(created) \in Key /\ Tail(created) \in Seq(Key)
    BY <1>0, <1>6 DEF Prune
  <2>2. NoEvent \in EventRow
    BY AlertFacts DEF NoEvent, EventRow
  <2>3. event' \in [Key -> EventRow]
    BY <1>0, <1>6, <2>2 DEF Prune
  <2>. QED
    BY <1>0, <1>6, <1>s, <2>1, <2>3, OutboxFollows DEF Prune
<1>7. ASSUME NEW k \in Key, GetsOld(k) PROVE OutboxTypes'
  <2>1. [event[k] EXCEPT !.old = TRUE] \in EventRow
    BY <1>0 DEF EventRow
  <2>2. event' = [event EXCEPT ![k] = [event[k] EXCEPT !.old = TRUE]]
    BY <1>0, <1>7 DEF GetsOld
  <2>3. event' \in [Key -> EventRow]
    BY <1>0, <2>1, <2>2
  <2>. QED
    BY <1>0, <1>7, <1>s, <2>3, OutboxFollows DEF GetsOld
<1>. QED
  BY <1>1, <1>2, <1>3, <1>4, <1>5, <1>6, <1>7 DEF SendStep

LEMMA SendersDieType ==
    ASSUME OutboxTypes, NEW n \in Node, SendersDie(n)
    PROVE  OutboxTypes'
<1>1. sending' \in [Sender -> SendingRow] /\ KeyInHand'
  BY OutboxFields, QuietType DEF SendersDie, OutboxTypes, KeyInHand
<1>2. todo' \in Seq(Key)
  BY OutboxFields DEF SendersDie
<1>. QED
  BY <1>1, <1>2, OutboxFields, OutboxFollows DEF SendersDie

TriggerRow == [enabled : BOOLEAN, count : Nat, due : BOOLEAN, cooling : BOOLEAN, rescan : 0..MaxScan]
CheckRow == [pc : {"idle", "submitted", "dispatched"}, scan : 0..MaxScan]
LoopRow == [due : BOOLEAN, scans : Nat, alerts : Nat]
RoundRow == [pc : {"idle", "select", "alert"}, alerts : Nat,
             select : SUBSET Symbol, raise : SUBSET Symbol, scanned : SUBSET Symbol,
             scan : 0..MaxScan, digest : BOOLEAN]

LEMMA ObservationFields ==
    ObservationTypeOK <=>
        /\ trigger \in TriggerRow /\ check \in [Checker -> CheckRow]
        /\ loop \in LoopRow /\ round \in RoundRow /\ asked \in Nat /\ alerted \in Nat
BY DEF ObservationTypeOK, TriggerRow, CheckRow, LoopRow, RoundRow

LEMMA NoRoundType == NoRound \in RoundRow /\ NoRound.pc = "idle"
BY AlertFacts DEF NoRound, RoundRow

LEMMA NoCheckType == NoCheck \in CheckRow
BY AlertFacts DEF NoCheck, CheckRow

\* What the fields of the row of the trigger may become.
LEMMA TriggerChanges ==
    ASSUME NEW it \in TriggerRow
    PROVE  /\ \A flag \in BOOLEAN : /\ [it EXCEPT !.due = flag] \in TriggerRow
                                    /\ [it EXCEPT !.cooling = flag] \in TriggerRow
                                    /\ [it EXCEPT !.enabled = flag] \in TriggerRow
           /\ \A s \in 0..MaxScan : /\ [it EXCEPT !.due = FALSE, !.rescan = s] \in TriggerRow
                                    /\ [it EXCEPT !.rescan = s, !.due = FALSE] \in TriggerRow
           /\ [it EXCEPT !.count = @ + 1, !.due = FALSE, !.cooling = TRUE, !.rescan = 0] \in TriggerRow
<1>1. \A flag \in BOOLEAN : /\ [it EXCEPT !.due = flag] \in TriggerRow
                            /\ [it EXCEPT !.cooling = flag] \in TriggerRow
                            /\ [it EXCEPT !.enabled = flag] \in TriggerRow
  BY DEF TriggerRow
<1>2. \A s \in 0..MaxScan : /\ [it EXCEPT !.due = FALSE, !.rescan = s] \in TriggerRow
                            /\ [it EXCEPT !.rescan = s, !.due = FALSE] \in TriggerRow
  BY DEF TriggerRow
<1>3. it.count + 1 \in Nat /\ 0 \in 0..MaxScan
  BY AlertFacts DEF TriggerRow
<1>4. [it EXCEPT !.count = it.count + 1, !.due = FALSE, !.cooling = TRUE, !.rescan = 0] \in TriggerRow
  BY <1>3 DEF TriggerRow
<1>. QED
  BY <1>1, <1>2, <1>4

\* A check moves on.
LEMMA CheckMoves ==
    ASSUME check \in [Checker -> CheckRow], NEW c \in Checker, NEW pc \in {"submitted", "dispatched"},
           NEW s \in 0..MaxScan
    PROVE  /\ [check EXCEPT ![c] = NoCheck] \in [Checker -> CheckRow]
           /\ [check EXCEPT ![c] = [@ EXCEPT !.pc = pc]] \in [Checker -> CheckRow]
           /\ [check EXCEPT ![c] = [@ EXCEPT !.pc = pc, !.scan = s]] \in [Checker -> CheckRow]
<1>1. [check[c] EXCEPT !.pc = pc] \in CheckRow /\ [check[c] EXCEPT !.pc = pc, !.scan = s] \in CheckRow
  BY DEF CheckRow
<1>2. [check EXCEPT ![c] = NoCheck] \in [Checker -> CheckRow]
  BY NoCheckType
<1>3. /\ [check EXCEPT ![c] = [check[c] EXCEPT !.pc = pc]] \in [Checker -> CheckRow]
      /\ [check EXCEPT ![c] = [check[c] EXCEPT !.pc = pc, !.scan = s]] \in [Checker -> CheckRow]
  BY <1>1
<1>. QED
  BY <1>2, <1>3

LEMMA MatchesTypes ==
    ASSUME AlertTypes, NEW c \in Checker, ~IsMaxedOut, Matches(c)
    PROVE  trigger' \in TriggerRow /\ check' \in [Checker -> CheckRow] /\ OutboxTypes'
<1>0. trigger \in TriggerRow /\ check \in [Checker -> CheckRow] /\ 0 \in 0..MaxScan
  BY ObservationFields, AlertFacts DEF AlertTypes
<1>1. CASE trigger.cooling
  <2>1. trigger' = [trigger EXCEPT !.due = FALSE, !.rescan = 0] /\ UNCHANGED <<check, outboxVars>>
    BY <1>1 DEF Matches
  <2>2. OutboxTypes'
    BY <2>1 DEF outboxVars, AlertTypes, OutboxTypes, OutboxTypeOK, KeyInHand
  <2>. QED
    BY <1>0, <2>1, <2>2, TriggerChanges
<1>2. CASE ~trigger.cooling
  <2>1. /\ CreateAndDispatch(c, trigger.count + 1) /\ UNCHANGED trigger
        /\ check' = [check EXCEPT ![c] = [@ EXCEPT !.pc = "dispatched"]]
    BY <1>2 DEF Matches
  <2>2. trigger.count + 1 \in Key
    BY <1>0, AlertFacts, AlertEnv DEF AlertTypes, TriggerRow, IsMaxedOut, Key
  <2>3. c \in Sender
    BY AlertFacts DEF Checker
  <2>. QED
    BY <1>0, <2>1, <2>2, <2>3, CreateKeeps, CheckMoves DEF AlertTypes
<1>. QED
  BY <1>1, <1>2

LEMMA CheckTypes ==
    ASSUME AlertTypes, NEW c \in Checker, CheckStep(c)
    PROVE  OutboxTypes' /\ ObservationTypeOK'
<1>0. /\ trigger \in TriggerRow /\ check \in [Checker -> CheckRow] /\ 0 \in 0..MaxScan
      /\ loop \in LoopRow /\ round \in RoundRow /\ asked \in Nat /\ alerted \in Nat
      /\ OutboxTypes
  BY ObservationFields, AlertFacts DEF AlertTypes
<1>o. UNCHANGED outboxVars => OutboxTypes'
  BY <1>0 DEF outboxVars, OutboxTypes, OutboxTypeOK, KeyInHand
<1>f. ASSUME UNCHANGED loopVars, trigger' \in TriggerRow, check' \in [Checker -> CheckRow]
      PROVE  ObservationTypeOK'
  BY <1>0, <1>f DEF loopVars, ObservationTypeOK, TriggerRow, CheckRow, LoopRow, RoundRow
<1>1. CASE GetsMaxedOut(c) \/ PriceIsQuiet(c) \/ RescanIsPending(c) \/ RescanIsDropped(c)
  BY <1>0, <1>1, <1>o, <1>f, TriggerChanges DEF GetsMaxedOut, PriceIsQuiet, RescanIsPending, RescanIsDropped
<1>2. CASE PriceMatches(c) \/ RescanMatches(c)
  BY <1>2, <1>f, MatchesTypes DEF PriceMatches, RescanMatches, LooksAtRescan
<1>3. CASE AskForRescan(c)
  <2>1. PICK s \in Scan : check' = [check EXCEPT ![c] = [@ EXCEPT !.pc = "submitted", !.scan = s]]
    BY <1>3 DEF AskForRescan
  <2>2. s \in 0..MaxScan
    BY AlertFacts DEF Scan
  <2>3. check' \in [Checker -> CheckRow]
    BY <1>0, <2>1, <2>2, CheckMoves
  <2>. QED
    BY <1>0, <1>3, <1>o, <1>f, <2>3 DEF AskForRescan
<1>4. CASE RememberRescan(c)
  <2>1. check[c].scan \in 0..MaxScan
    BY <1>0 DEF CheckRow
  <2>2. trigger' \in TriggerRow /\ check' \in [Checker -> CheckRow]
    BY <1>0, <1>4, <2>1, TriggerChanges, CheckMoves DEF RememberRescan
  <2>. QED
    BY <1>4, <1>o, <1>f, <2>2 DEF RememberRescan
<1>5. CASE CountTrigger(c)
  <2>1. trigger' \in TriggerRow /\ check' \in [Checker -> CheckRow]
    BY <1>0, <1>5, TriggerChanges, CheckMoves DEF CountTrigger
  <2>. QED
    BY <1>5, <1>o, <1>f, <2>1 DEF CountTrigger
<1>. QED
  BY <1>1, <1>2, <1>3, <1>4, <1>5 DEF CheckStep

\* The loop runs only in its own thread, which sends nothing meanwhile.
LEMMA RaisesTypes ==
    ASSUME AlertTypes, RaisesAlert
    PROVE  OutboxTypes' /\ alerted' \in Nat
<1>1. CreateAndDispatch("looper", env.times + alerted + 1) /\ env.times + alerted + 1 \in Key
  BY DEF RaisesAlert
<1>2. alerted \in Nat
  BY ObservationFields DEF AlertTypes
<1>. QED
  BY <1>1, <1>2, CreateKeeps, AlertFacts DEF AlertTypes, RaisesAlert

LEMMA LeftIs == ASSUME NEW b \in Nat, NEW u \in Nat
                PROVE  Left(b, u) \in Nat /\ Left(b, u) <= b /\ (u <= b => u + Left(b, u) = b)
BY DEF Left

LEMMA RoundTypes ==
    ASSUME AlertTypes, RoundStep
    PROVE  OutboxTypes' /\ ObservationTypeOK'
<1>0. /\ trigger \in TriggerRow /\ check \in [Checker -> CheckRow] /\ 0 \in 0..MaxScan
      /\ loop \in LoopRow /\ round \in RoundRow /\ asked \in Nat /\ alerted \in Nat
      /\ OutboxTypes /\ env.symbols \subseteq Symbol
  BY ObservationFields, AlertFacts, AlertEnv DEF AlertTypes
<1>o. UNCHANGED outboxVars => OutboxTypes'
  BY <1>0 DEF outboxVars, OutboxTypes, OutboxTypeOK, KeyInHand
<1>n. NoRound \in RoundRow
  BY NoRoundType
<1>f. ASSUME UNCHANGED <<trigger, check>>, loop' \in LoopRow, round' \in RoundRow,
             asked' \in Nat, alerted' \in Nat
      PROVE  ObservationTypeOK'
  BY <1>0, <1>f DEF ObservationTypeOK, TriggerRow, CheckRow, LoopRow, RoundRow
<1>d. [loop EXCEPT !.due = FALSE] \in LoopRow
  BY <1>0 DEF LoopRow
<1>1. CASE MarketIsClosed \/ EndRound \/ RoundFails
  BY <1>0, <1>1, <1>o, <1>n, <1>f, <1>d DEF MarketIsClosed, EndRound, RoundFails
<1>2. CASE StartRound
  <2>1. PICK select \in Selections, raise \in SUBSET env.symbols :
          round' = [NoRound EXCEPT !.pc = "select", !.select = select, !.raise = raise,
                                   !.alerts = Left(AlertBudget, loop.alerts)]
    BY <1>2 DEF StartRound
  <2>2. Left(AlertBudget, loop.alerts) \in Nat
    BY <1>0, AlertFacts, LeftIs DEF LoopRow
  <2>3. select \in SUBSET Symbol /\ raise \in SUBSET Symbol
    BY <1>0 DEF Selections
  <2>4. round' \in RoundRow
    BY ONLY <1>n, <2>1, <2>2, <2>3 DEF RoundRow
  <2>. QED
    BY <1>0, <1>2, <1>o, <1>f, <2>4 DEF StartRound
<1>3. CASE SubmitLoopScan
  <2>1. PICK symbol \in round.select, s \in Scan :
          round' = [round EXCEPT !.select = round.select \ {symbol}, !.scanned = round.scanned \union {symbol}, !.scan = s]
    BY <1>3 DEF SubmitLoopScan
  <2>2. s \in 0..MaxScan
    BY AlertFacts DEF Scan
  <2>3. round.select \ {symbol} \in SUBSET Symbol /\ round.scanned \union {symbol} \in SUBSET Symbol
    BY <1>0 DEF RoundRow
  <2>4. round' \in RoundRow
    BY ONLY <1>0, <2>1, <2>2, <2>3 DEF RoundRow
  <2>. QED
    BY <1>0, <1>3, <1>o, <1>f, <2>4 DEF SubmitLoopScan
<1>4. CASE SelectionIsDone
  <2>1. [round EXCEPT !.pc = "alert", !.scan = 0] \in RoundRow
    BY ONLY <1>0 DEF RoundRow
  <2>. QED
    BY <1>0, <1>4, <1>o, <1>f, <2>1 DEF SelectionIsDone
<1>5. ASSUME NEW symbol \in Symbol, NextSymbol(symbol)
      PROVE  OutboxTypes' /\ ObservationTypeOK'
  <2> DEFINE raised == symbol \in round.raise /\ round.alerts > 0
             budget == IF raised /\ env.loop = "alerts" THEN round.alerts - 1 ELSE round.alerts
             digest == round.digest \/ (raised /\ env.loop = "digest")
  <2>1. /\ loop' = Recorded(symbol, raised)
        /\ IF raised /\ env.loop = "alerts" THEN RaisesAlert ELSE UNCHANGED <<outboxVars, alerted>>
        /\ round' = [round EXCEPT !.raise = round.raise \ {symbol}, !.scanned = round.scanned \ {symbol},
                                  !.alerts = budget, !.digest = digest]
        /\ UNCHANGED <<trigger, check, asked, scanVars>>
    BY <1>5 DEF NextSymbol
  <2>2. round.alerts \in Nat /\ round.digest \in BOOLEAN /\ round.raise \ {symbol} \in SUBSET Symbol
        /\ round.scanned \ {symbol} \in SUBSET Symbol /\ loop.scans \in Nat /\ loop.alerts \in Nat
    BY <1>0 DEF RoundRow, LoopRow
  <2>3. budget \in Nat /\ digest \in BOOLEAN
    BY <2>2
  <2>4. OutboxTypes' /\ alerted' \in Nat
    BY <1>0, <1>o, <2>1, RaisesTypes
  <2>5. Recorded(symbol, raised) \in LoopRow
    <3> DEFINE scans == IF symbol \in round.scanned THEN loop.scans + 1 ELSE loop.scans
               alerts == IF raised THEN loop.alerts + 1 ELSE loop.alerts
    <3>1. scans \in Nat /\ alerts \in Nat
      BY <2>2
    <3>2. Recorded(symbol, raised) = [loop EXCEPT !.scans = scans, !.alerts = alerts]
      BY <1>0 DEF Recorded, LoopRow
    <3> HIDE DEF raised, scans, alerts
    <3>3. [loop EXCEPT !.scans = scans, !.alerts = alerts] \in LoopRow
      BY ONLY <1>0, <3>1 DEF LoopRow
    <3>. QED
      BY <3>2, <3>3
  <2> HIDE DEF raised, budget, digest
  <2>6. round' \in RoundRow
    BY ONLY <1>0, <2>1, <2>2, <2>3 DEF RoundRow
  <2>. QED
    BY <1>0, <1>f, <2>1, <2>4, <2>5, <2>6
<1>6. CASE SendDigest
  <2>1. [round EXCEPT !.digest = FALSE] \in RoundRow
    BY ONLY <1>0 DEF RoundRow
  <2>. QED
    BY <1>0, <1>6, <1>f, <2>1, RaisesTypes DEF SendDigest
<1>. QED
  BY <1>1, <1>2, <1>3, <1>4, <1>5, <1>6 DEF RoundStep

LEMMA AlertTypesInit == Init => AlertTypes
<1> SUFFICES ASSUME Init PROVE AlertTypes
  OBVIOUS
<1>1. env \in Environment /\ crashes \in Nat
  BY DEF Init, ProcessInit
<1>2. OutboxTypes
  BY <1>1, AlertFacts DEF Init, OutboxInit, OutboxTypes, OutboxTypeOK, KeyInHand, NoEvent, Quiet
<1>3. ObservationTypeOK
  BY <1>1, AlertFacts, NoRoundType, NoCheckType
     DEF Init, ObservationInit, ObservationTypeOK, CheckRow, RoundRow
<1>. QED
  BY <1>1, <1>2, <1>3 DEF AlertTypes

LEMMA AlertTypesStep == AlertTypes /\ [Next]_vars => AlertTypes'
<1> SUFFICES ASSUME AlertTypes, [Next]_vars PROVE AlertTypes'
  OBVIOUS
<1>0. /\ trigger \in TriggerRow /\ check \in [Checker -> CheckRow] /\ 0 \in 0..MaxScan
      /\ loop \in LoopRow /\ round \in RoundRow /\ asked \in Nat /\ alerted \in Nat
      /\ OutboxTypes /\ ObservationTypeOK /\ env \in Environment /\ crashes \in Nat
  BY ObservationFields, AlertFacts DEF AlertTypes
<1>o. UNCHANGED outboxVars => OutboxTypes'
  BY <1>0 DEF outboxVars, OutboxTypes, OutboxTypeOK, KeyInHand
<1>b. UNCHANGED observationVars => ObservationTypeOK'
  BY <1>0 DEF observationVars, ObservationTypeOK
<1>1. CASE TimeNext
  <2>1. loop' \in LoopRow /\ trigger' \in TriggerRow /\ UNCHANGED <<check, round, asked, alerted>>
    <3>1. [loop EXCEPT !.due = TRUE] \in LoopRow
      BY <1>0 DEF LoopRow
    <3>. QED
      BY <1>0, <1>1, <3>1, TriggerChanges DEF TimeNext, TriggerGetsDue, CooldownEnds, LoopGetsDue, loopVars
  <2>2. ObservationTypeOK'
    BY <1>0, <2>1 DEF ObservationTypeOK, TriggerRow, CheckRow, LoopRow, RoundRow
  <2>. QED
    BY <1>0, <1>1, <1>o, <2>2 DEF TimeNext, processVars, AlertTypes
<1>2. CASE ObservationNext
  BY <1>0, <1>2, CheckTypes, RoundTypes DEF ObservationNext, processVars, AlertTypes
<1>3. CASE OutboxNext
  BY <1>0, <1>3, <1>b, OutboxStep DEF OutboxNext, processVars, AlertTypes
<1>4. CASE UNCHANGED <<env, crashes, outboxVars, observationVars>>
  BY <1>0, <1>4, <1>o, <1>b DEF AlertTypes
<1>5. ASSUME NEW n \in Node, Dies(n), SendersDie(n), ObservationDies(n) PROVE AlertTypes'
  <2>1. OutboxTypes'
    BY <1>0, <1>5, SendersDieType
  <2>2. [check EXCEPT !["monitor"] = NoCheck] \in [Checker -> CheckRow]
    BY <1>0, NoCheckType
  <2>3. check' \in [Checker -> CheckRow] /\ round' \in RoundRow /\ UNCHANGED <<trigger, loop, asked, alerted>>
    BY <1>0, <1>5, <2>2, NoRoundType DEF ObservationDies
  <2>4. ObservationTypeOK'
    BY <1>0, <2>3 DEF ObservationTypeOK, TriggerRow, CheckRow, LoopRow, RoundRow
  <2>. QED
    BY <1>0, <1>5, <2>1, <2>4 DEF AlertTypes, Dies
<1>. QED
  BY <1>1, <1>2, <1>3, <1>4, <1>5, AlertCases

LEMMA AlertTypesHold == Spec => []AlertTypes
BY AlertTypesInit, AlertTypesStep, PTL DEF Spec

-----------------------------------------------------------------------------
(* The budgets of the day.  What a round has submitted and not yet recorded *)
(* is in round.scanned; what it may still submit, in round.select; a digest *)
(* that is owed has been recorded already.                                  *)

Steady == ~env.faults /\ crashes = 0

ScansAreCounted ==
    /\ asked <= AiBudget
    /\ asked <= loop.scans + Cardinality(round.scanned)
    /\ round.select \intersect round.scanned = {}
    /\ round.pc = "select" => asked + Cardinality(round.select) <= AiBudget
    /\ round.pc = "idle" => round = NoRound

AlertsAreCounted ==
    /\ alerted <= AlertBudget
    /\ env.loop = "alerts" => /\ alerted = loop.alerts /\ ~round.digest
                              /\ round.pc # "idle" => alerted + round.alerts <= AlertBudget
    /\ env.loop # "alerts" => alerted + (IF round.digest THEN 1 ELSE 0) <= loop.alerts
    /\ round.raise # {} /\ round.alerts > 0 => alerted < AlertBudget
    /\ round.digest => alerted < AlertBudget

BudgetInv == Steady => ScansAreCounted /\ AlertsAreCounted

\* The sets of a round are finite.
LEMMA SizesInRound ==
    ASSUME round \in RoundRow
    PROVE  /\ Cardinality(round.select) \in Nat /\ Cardinality(round.scanned) \in Nat
           /\ \A symbol \in round.select : Cardinality(round.select \ {symbol}) = Cardinality(round.select) - 1
           /\ \A symbol \in round.scanned : Cardinality(round.scanned \ {symbol}) = Cardinality(round.scanned) - 1
           /\ \A symbol : symbol \notin round.scanned =>
                 /\ Cardinality(round.scanned \union {symbol}) = Cardinality(round.scanned) + 1
                 /\ round.scanned \ {symbol} = round.scanned
<1>1. round.select \in SUBSET Symbol /\ round.scanned \in SUBSET Symbol
  BY DEF RoundRow
<1>2. IsFiniteSet(round.select) /\ IsFiniteSet(round.scanned)
  BY <1>1, AlertFacts, FS_Subset
<1>3. Cardinality(round.select) \in Nat /\ Cardinality(round.scanned) \in Nat
  BY <1>2, FS_CardinalityType
<1>4. ASSUME NEW S, IsFiniteSet(S), NEW x
      PROVE  /\ x \in S => Cardinality(S \ {x}) = Cardinality(S) - 1
             /\ x \notin S => Cardinality(S \union {x}) = Cardinality(S) + 1
  BY <1>4, FS_RemoveElement, FS_AddElement
<1>5. \A symbol : symbol \notin round.scanned => round.scanned \ {symbol} = round.scanned
  OBVIOUS
<1>. QED
  BY <1>2, <1>3, <1>4, <1>5

LEMMA ScansAreCountedStep ==
    ASSUME AlertTypes, ScansAreCounted, RoundStep, ~RoundFails
    PROVE  ScansAreCounted'
<1>0. /\ loop \in LoopRow /\ round \in RoundRow /\ asked \in Nat /\ AiBudget \in Nat
  BY ObservationFields, AlertFacts DEF AlertTypes
<1>1. loop.scans \in Nat
  BY <1>0 DEF LoopRow
<1>2. /\ Cardinality(round.select) \in Nat /\ Cardinality(round.scanned) \in Nat
      /\ \A symbol \in round.select : Cardinality(round.select \ {symbol}) = Cardinality(round.select) - 1
      /\ \A symbol \in round.scanned : Cardinality(round.scanned \ {symbol}) = Cardinality(round.scanned) - 1
      /\ \A symbol : symbol \notin round.scanned =>
            /\ Cardinality(round.scanned \union {symbol}) = Cardinality(round.scanned) + 1
            /\ round.scanned \ {symbol} = round.scanned
  BY <1>0, SizesInRound
<1>n. NoRound.pc = "idle" /\ NoRound.select = {} /\ NoRound.scanned = {} /\ Cardinality({}) = 0
  BY FS_EmptySet DEF NoRound
<1>d. [loop EXCEPT !.due = FALSE].scans = loop.scans
  BY <1>0 DEF LoopRow
<1>3. CASE MarketIsClosed
  BY <1>3, <1>d DEF MarketIsClosed, ScansAreCounted
<1>4. CASE EndRound
  <2>1. round.scanned = {} /\ round' = NoRound /\ loop'.scans = loop.scans /\ asked' = asked
    BY <1>4, <1>d DEF EndRound, SymbolsAreDone
  <2>. QED
    BY <1>n, <2>1 DEF ScansAreCounted
<1>5. CASE StartRound
  <2>1. PICK select \in Selections, raise \in SUBSET env.symbols :
          round' = [NoRound EXCEPT !.pc = "select", !.select = select, !.raise = raise,
                                   !.alerts = Left(AlertBudget, loop.alerts)]
    BY <1>5 DEF StartRound
  <2>2. /\ round'.pc = "select" /\ round'.select = select /\ round'.scanned = {}
        /\ asked' = asked /\ loop' = loop
    BY <1>5, <2>1 DEF StartRound, NoRound
  <2>3. asked <= loop.scans
    BY <1>5, <1>n, <1>0, <1>1 DEF StartRound, IsRoundStart, ScansAreCounted
  <2>4. Cardinality(select) \in Nat /\ Cardinality(select) <= Left(AiBudget, loop.scans)
    <3>1. select \in SUBSET Symbol
      BY AlertEnv DEF Selections, AlertTypes
    <3>. QED
      BY <3>1, AlertFacts, FS_Subset, FS_CardinalityType DEF Selections
  <2>5. asked + Cardinality(select) <= AiBudget
    BY <1>0, <1>1, <2>3, <2>4 DEF Left, ScansAreCounted
  <2>. QED
    BY <1>0, <1>1, <1>n, <2>2, <2>3, <2>5 DEF ScansAreCounted
<1>6. CASE SubmitLoopScan
  <2>1. PICK symbol \in round.select, s \in Scan :
          round' = [round EXCEPT !.select = round.select \ {symbol}, !.scanned = round.scanned \union {symbol}, !.scan = s]
    BY <1>6 DEF SubmitLoopScan
  <2>2. /\ round'.pc = "select" /\ round.pc = "select" /\ round'.select = round.select \ {symbol}
        /\ round'.scanned = round.scanned \union {symbol} /\ asked' = asked + 1 /\ loop' = loop
    BY <1>0, <1>6, <2>1 DEF SubmitLoopScan, RoundRow
  <2>3. symbol \notin round.scanned
    BY DEF ScansAreCounted
  <2>4. /\ Cardinality(round'.select) = Cardinality(round.select) - 1
        /\ Cardinality(round'.scanned) = Cardinality(round.scanned) + 1
    BY <1>2, <2>2, <2>3
  <2>5. /\ asked + Cardinality(round.select) <= AiBudget
        /\ asked <= loop.scans + Cardinality(round.scanned)
        /\ Cardinality(round.select) - 1 \in Nat
    <3>1. Cardinality(round.select \ {symbol}) \in Nat
      <4>1. round.select \ {symbol} \in SUBSET Symbol
        BY <1>0 DEF RoundRow
      <4>. QED
        BY <4>1, AlertFacts, FS_Subset, FS_CardinalityType
    <3>. QED
      BY <1>2, <2>2, <3>1 DEF ScansAreCounted
  <2>6. /\ asked' <= AiBudget /\ asked' <= loop'.scans + Cardinality(round'.scanned)
        /\ asked' + Cardinality(round'.select) <= AiBudget
    BY <1>0, <1>1, <1>2, <2>2, <2>4, <2>5
  <2>7. round'.select \intersect round'.scanned = {}
    BY <2>2 DEF ScansAreCounted
  <2>. QED
    BY <2>2, <2>6, <2>7 DEF ScansAreCounted
<1>7. CASE SelectionIsDone
  <2>1. round'.pc = "alert" /\ round'.select = round.select /\ round'.scanned = round.scanned
    BY <1>0, <1>7 DEF SelectionIsDone, RoundRow
  <2>. QED
    BY <1>7, <2>1 DEF SelectionIsDone, ScansAreCounted
<1>8. ASSUME NEW symbol \in Symbol, NextSymbol(symbol) PROVE ScansAreCounted'
  <2>1. /\ round'.pc = round.pc /\ round.pc = "alert"
        /\ round'.select = round.select /\ round'.scanned = round.scanned \ {symbol}
        /\ asked' = asked
    BY <1>0, <1>8 DEF NextSymbol, RoundRow
  <2>2. loop'.scans = IF symbol \in round.scanned THEN loop.scans + 1 ELSE loop.scans
    BY <1>0, <1>8 DEF NextSymbol, Recorded, LoopRow
  <2>3. asked <= loop.scans + Cardinality(round.scanned)
    BY DEF ScansAreCounted
  <2>4. asked' <= loop'.scans + Cardinality(round'.scanned)
    <3>1. CASE symbol \in round.scanned
      <4>1. Cardinality(round'.scanned) = Cardinality(round.scanned) - 1 /\ loop'.scans = loop.scans + 1
        BY <1>2, <2>1, <2>2, <3>1
      <4>. QED
        BY <1>0, <1>1, <1>2, <2>1, <2>3, <4>1
    <3>2. CASE symbol \notin round.scanned
      BY <1>2, <2>1, <2>2, <2>3, <3>2
    <3>. QED
      BY <3>1, <3>2
  <2>. QED
    BY <2>1, <2>4 DEF ScansAreCounted
<1>9. CASE SendDigest
  <2>1. round'.pc = round.pc /\ round'.select = round.select /\ round'.scanned = round.scanned
        /\ round.pc = "alert" /\ loop' = loop /\ asked' = asked
    BY <1>0, <1>9 DEF SendDigest, SymbolsAreDone, RoundRow
  <2>. QED
    BY <2>1 DEF ScansAreCounted
<1>. QED
  BY <1>3, <1>4, <1>5, <1>6, <1>7, <1>8, <1>9 DEF RoundStep

LEMMA AlertsAreCountedStep ==
    ASSUME AlertTypes, ScansAreCounted, AlertsAreCounted, RoundStep, ~RoundFails, env' = env
    PROVE  AlertsAreCounted'
<1>0. /\ loop \in LoopRow /\ round \in RoundRow /\ alerted \in Nat /\ AlertBudget \in Nat
  BY ObservationFields, AlertFacts DEF AlertTypes
<1>1. loop.alerts \in Nat /\ round.alerts \in Nat /\ round.digest \in BOOLEAN
  BY <1>0 DEF LoopRow, RoundRow
<1>n. NoRound.pc = "idle" /\ NoRound.alerts = 0 /\ NoRound.raise = {} /\ NoRound.digest = FALSE
  BY DEF NoRound
<1>d. [loop EXCEPT !.due = FALSE].alerts = loop.alerts
  BY <1>0 DEF LoopRow
<1>3. CASE MarketIsClosed
  BY <1>3, <1>d DEF MarketIsClosed, AlertsAreCounted
<1>4. CASE EndRound
  <2>1. ~round.digest /\ round' = NoRound /\ loop'.alerts = loop.alerts /\ alerted' = alerted
    BY <1>4, <1>d DEF EndRound, SymbolsAreDone
  <2>. QED
    BY <1>n, <2>1 DEF AlertsAreCounted
<1>5. CASE StartRound
  <2>1. PICK select \in Selections, raise \in SUBSET env.symbols :
          round' = [NoRound EXCEPT !.pc = "select", !.select = select, !.raise = raise,
                                   !.alerts = Left(AlertBudget, loop.alerts)]
    BY <1>5 DEF StartRound
  <2>2. /\ round'.pc = "select" /\ round'.alerts = Left(AlertBudget, loop.alerts) /\ round'.digest = FALSE
        /\ alerted' = alerted /\ loop' = loop
    BY <1>5, <2>1 DEF StartRound, NoRound
  <2>3. alerted <= loop.alerts /\ alerted <= AlertBudget
    BY <1>5, <1>n, <1>0, <1>1 DEF StartRound, IsRoundStart, AlertsAreCounted
  <2>4. (env.loop = "alerts" => alerted = loop.alerts) /\ (env.loop # "alerts" => alerted + 0 <= loop.alerts)
    BY <1>0, <1>1, <2>3 DEF AlertsAreCounted
  <2>5. alerted = loop.alerts => alerted + Left(AlertBudget, loop.alerts) <= AlertBudget
    BY <1>0, <1>1, <2>3 DEF Left
  <2>6. Left(AlertBudget, loop.alerts) > 0 => alerted < AlertBudget
    BY <1>0, <1>1, <2>3 DEF Left
  <2>. QED
    BY <2>2, <2>3, <2>4, <2>5, <2>6 DEF AlertsAreCounted
<1>6. CASE SubmitLoopScan
  <2>1. /\ round'.pc = round.pc /\ round'.alerts = round.alerts /\ round'.digest = round.digest
        /\ round'.raise = round.raise /\ alerted' = alerted /\ loop' = loop
    BY <1>0, <1>6 DEF SubmitLoopScan, RoundRow
  <2>. QED
    BY <2>1 DEF AlertsAreCounted
<1>7. CASE SelectionIsDone
  <2>1. /\ round'.alerts = round.alerts /\ round'.digest = round.digest
        /\ round'.raise = round.raise /\ alerted' = alerted /\ loop' = loop
        /\ round.pc = "select"
    BY <1>0, <1>7 DEF SelectionIsDone, RoundRow
  <2>. QED
    BY <2>1 DEF AlertsAreCounted
<1>8. ASSUME NEW symbol \in Symbol, NextSymbol(symbol) PROVE AlertsAreCounted'
  <2> DEFINE raised == symbol \in round.raise /\ round.alerts > 0
  <2>1. /\ round'.pc = round.pc /\ round.pc = "alert"
        /\ round'.raise = round.raise \ {symbol}
        /\ round'.alerts = IF raised /\ env.loop = "alerts" THEN round.alerts - 1 ELSE round.alerts
        /\ round'.digest = (round.digest \/ (raised /\ env.loop = "digest"))
    BY <1>0, <1>8 DEF NextSymbol, RoundRow
  <2>2. loop'.alerts = IF raised THEN loop.alerts + 1 ELSE loop.alerts
    BY <1>0, <1>8 DEF NextSymbol, Recorded, LoopRow
  <2>3. alerted' = IF raised /\ env.loop = "alerts" THEN alerted + 1 ELSE alerted
    BY <1>8 DEF NextSymbol, RaisesAlert
  <2>4. raised => alerted < AlertBudget
    BY DEF AlertsAreCounted
  <2>p. raised => round.alerts > 0
    OBVIOUS
  <2>r. round'.raise # {} => round.raise # {}
    BY <2>1
  <2> HIDE DEF raised
  <2>5. CASE env.loop = "alerts"
    <3>1. alerted = loop.alerts /\ ~round.digest /\ alerted + round.alerts <= AlertBudget
      BY <2>1, <2>5 DEF AlertsAreCounted
    <3>2. alerted' = loop'.alerts /\ ~round'.digest
      BY <2>1, <2>2, <2>3, <2>5, <3>1
    <3>3. alerted' + round'.alerts <= AlertBudget /\ alerted' <= AlertBudget
      BY <1>0, <1>1, <2>1, <2>3, <2>5, <2>p, <3>1
    <3>4. round'.alerts > 0 => alerted' < AlertBudget
      BY <1>0, <1>1, <2>1, <2>3, <2>5, <2>p, <3>1
    <3>. QED
      BY <1>0, <2>5, <3>2, <3>3, <3>4 DEF AlertsAreCounted
  <2>6. CASE env.loop # "alerts"
    <3>1. alerted' = alerted /\ round'.alerts = round.alerts
      BY <2>1, <2>3, <2>6
    <3>2. alerted + (IF round.digest THEN 1 ELSE 0) <= loop.alerts /\ alerted <= AlertBudget
      BY <2>6 DEF AlertsAreCounted
    <3>3. alerted + (IF round'.digest THEN 1 ELSE 0) <= loop'.alerts
      BY <1>0, <1>1, <2>1, <2>2, <3>2
    <3>4. round'.digest => alerted < AlertBudget
      BY <2>1, <2>4 DEF AlertsAreCounted
    <3>5. round'.raise # {} /\ round'.alerts > 0 => alerted < AlertBudget
      BY <2>r, <3>1 DEF AlertsAreCounted
    <3>. QED
      BY <2>6, <3>1, <3>2, <3>3, <3>4, <3>5 DEF AlertsAreCounted
  <2>. QED
    BY <2>5, <2>6
<1>9. CASE SendDigest
  <2>1. round'.alerts = round.alerts /\ round'.raise = {} /\ round'.digest = FALSE /\ round.digest
        /\ loop' = loop /\ alerted' = alerted + 1
    BY <1>0, <1>9 DEF SendDigest, SymbolsAreDone, RaisesAlert, RoundRow
  <2>2. env.loop # "alerts" /\ alerted + 1 <= loop.alerts /\ alerted < AlertBudget
    BY <2>1 DEF AlertsAreCounted
  <2>. QED
    BY <1>0, <1>1, <2>1, <2>2 DEF AlertsAreCounted
<1>. QED
  BY <1>3, <1>4, <1>5, <1>6, <1>7, <1>8, <1>9 DEF RoundStep

LEMMA BudgetInvInit == Init => BudgetInv
<1> SUFFICES ASSUME Init PROVE ScansAreCounted /\ AlertsAreCounted
  BY DEF BudgetInv
<1>1. /\ round = NoRound /\ asked = 0 /\ alerted = 0 /\ loop.scans = 0 /\ loop.alerts = 0
  BY DEF Init, ObservationInit
<1>2. /\ NoRound.pc = "idle" /\ NoRound.alerts = 0 /\ NoRound.raise = {} /\ NoRound.digest = FALSE
      /\ NoRound.select = {} /\ NoRound.scanned = {} /\ Cardinality({}) = 0
  BY FS_EmptySet DEF NoRound
<1>. QED
  BY <1>1, <1>2, AlertFacts DEF ScansAreCounted, AlertsAreCounted

LEMMA BudgetInvStep == AlertTypes /\ BudgetInv /\ [Next]_vars => BudgetInv'
<1> SUFFICES ASSUME AlertTypes, BudgetInv, [Next]_vars, Steady'
             PROVE  ScansAreCounted' /\ AlertsAreCounted'
  BY DEF BudgetInv
<1>0. loop \in LoopRow
  BY ObservationFields DEF AlertTypes
<1>k. ASSUME UNCHANGED <<env, crashes>> PROVE ScansAreCounted /\ AlertsAreCounted
  BY <1>k DEF BudgetInv, Steady
<1>1. ASSUME UNCHANGED <<env, crashes, observationVars>> PROVE ScansAreCounted' /\ AlertsAreCounted'
  BY <1>1, <1>k DEF observationVars, ScansAreCounted, AlertsAreCounted
<1>2. CASE TimeNext
  <2>1. UNCHANGED <<env, crashes, round, asked, alerted>> /\ loop'.scans = loop.scans /\ loop'.alerts = loop.alerts
    <3>1. [loop EXCEPT !.due = TRUE].scans = loop.scans /\ [loop EXCEPT !.due = TRUE].alerts = loop.alerts
      BY <1>0 DEF LoopRow
    <3>. QED
      BY <1>2, <3>1 DEF TimeNext, processVars, TriggerGetsDue, CooldownEnds, LoopGetsDue, loopVars
  <2>. QED
    BY <1>k, <2>1 DEF ScansAreCounted, AlertsAreCounted
<1>3. CASE ObservationNext
  <2>1. UNCHANGED <<env, crashes>>
    BY <1>3 DEF ObservationNext, processVars
  <2>2. ASSUME NEW c \in Checker, CheckStep(c) PROVE UNCHANGED loopVars
    BY <2>2 DEF CheckStep, GetsMaxedOut, PriceIsQuiet, PriceMatches, AskForRescan, RememberRescan,
                RescanIsPending, RescanIsDropped, RescanMatches, CountTrigger
  <2>3. ASSUME UNCHANGED loopVars PROVE ScansAreCounted' /\ AlertsAreCounted'
    BY <1>k, <2>1, <2>3 DEF loopVars, ScansAreCounted, AlertsAreCounted
  <2>4. ASSUME RoundStep PROVE ScansAreCounted' /\ AlertsAreCounted'
    <3>1. ~RoundFails
      BY <2>1 DEF RoundFails, Steady
    <3>. QED
      BY <1>k, <2>1, <2>4, <3>1, ScansAreCountedStep, AlertsAreCountedStep
  <2>. QED
    BY <1>3, <2>2, <2>3, <2>4 DEF ObservationNext
<1>4. CASE OutboxNext
  BY <1>1, <1>4 DEF OutboxNext, processVars
<1>5. ASSUME NEW n \in Node, Dies(n) PROVE FALSE
  BY <1>5 DEF Dies, Steady, AlertTypes
<1>. QED
  BY <1>1, <1>2, <1>3, <1>4, <1>5, AlertCases

(* The scan loop stays within its budgets of the day, for scans and for
   alerts, whatever the rounds select, raise and record, as long as no round is
   cut off by an exception or a death: run_scan_loop_instance counts what
   earlier rounds have written. *)
THEOREM BudgetHolds == Spec => []BudgetIsKept
<1>1. BudgetInv => BudgetIsKept
  BY DEF BudgetInv, Steady, ScansAreCounted, AlertsAreCounted, BudgetIsKept
<1>. QED
  BY <1>1, BudgetInvInit, BudgetInvStep, AlertTypesHold, PTL DEF Spec

-----------------------------------------------------------------------------
(* Deliveries, where the channel refuses nothing, no call fails and nothing *)
(* is pruned.  First what a step is for the senders.                        *)

Tame == ~env.refuses /\ ~env.faults /\ ~env.prune

\* The thread of Home that raises the events of a key.
Author(k) == IF k <= env.times THEN "monitor" ELSE "looper"
MayHave(x, k) == x \in {"notifier", Author(k), "web"} /\ (x = "web" => env.users)

OthersWait(x) == \A y \in Sender \ {x} : sending'[y] = sending[y]
Rise ==
    \A k \in Key :
        \/ event'[k].status = event[k].status
        \/ event[k].status = "none" /\ event'[k].status = "queued"
Advances(x, from, to) ==
    /\ sending[x].pc = from /\ sending'[x].pc = to /\ sending'[x].key = sending[x].key
    /\ OthersWait(x)

Rests == sending' = sending /\ Rise /\ delivered' = delivered
Takes(x, k) ==
    /\ sending[x].pc = "idle" /\ sending'[x].pc = "read" /\ sending'[x].key = k /\ OthersWait(x)
    /\ MayHave(x, k) /\ Rise /\ delivered' = delivered
Looks(x) ==
    /\ Advances(x, "read", "deliver") /\ event[sending[x].key].status \notin {"none", "sent"}
    /\ Rise /\ delivered' = delivered
Drops(x) ==
    /\ sending[x].pc = "read" /\ sending'[x].pc = "idle" /\ OthersWait(x)
    /\ Rise /\ delivered' = delivered
Delivers(x) ==
    /\ env.channel /\ Advances(x, "deliver", "accepted") /\ Rise
    /\ \A k \in Key : IF k = sending[x].key THEN delivered'[k] <= delivered[k] + 1
                      ELSE delivered'[k] = delivered[k]
IsRefused(x) ==
    /\ ~env.channel /\ Advances(x, "deliver", "refused") /\ Rise /\ delivered' = delivered
Marks(x) ==
    /\ sending[x].pc \in {"accepted", "refused"} /\ sending'[x].pc = "idle" /\ OthersWait(x)
    /\ \A k \in Key :
          IF k = sending[x].key /\ event[k].status # "none"
          THEN event'[k].status = IF sending[x].pc = "accepted" THEN "sent" ELSE "failed"
          ELSE event'[k].status = event[k].status
    /\ delivered' = delivered

Sends ==
    \/ Rests
    \/ \E x \in Sender : Looks(x) \/ Drops(x) \/ Delivers(x) \/ IsRefused(x) \/ Marks(x)
    \/ \E x \in Sender, k \in Key : Takes(x, k)

LEMMA Raising ==
    ASSUME AlertTypes, NEW x \in Sender, NEW k \in Key, sending[x] = Quiet, MayHave(x, k), CreateAndDispatch(x, k)
    PROVE  Sends
<1>0. event \in [Key -> EventRow] /\ sending \in [Sender -> SendingRow]
  BY OutboxFields DEF AlertTypes
<1>1. Rise
  <2>1. event' = event \/ event' = [event EXCEPT ![k] = [event[k] EXCEPT !.status = "queued"]]
    BY <1>0 DEF CreateAndDispatch
  <2>2. event' = event => Rise
    BY DEF Rise
  <2>3. ASSUME event' # event PROVE Rise
    <3>1. [event[k] EXCEPT !.status = "queued"].status = "queued"
      BY <1>0 DEF EventRow
    <3>2. event[k].status = "none" /\ event'[k].status = "queued" /\ \A j \in Key \ {k} : event'[j] = event[j]
      BY <1>0, <2>1, <2>3, <3>1 DEF CreateAndDispatch
    <3>. QED
      BY <3>2 DEF Rise
  <2>. QED
    BY <2>2, <2>3
<1>2. delivered' = delivered
  BY DEF CreateAndDispatch
<1>3. CASE sending' = sending
  BY <1>1, <1>2, <1>3 DEF Rests, Sends
<1>4. CASE sending' = [sending EXCEPT ![x] = [pc |-> "read", key |-> k]]
  <2>1. sending[x].pc = "idle" /\ sending'[x].pc = "read" /\ sending'[x].key = k
    BY <1>0, <1>4, QuietType
  <2>2. OthersWait(x)
    BY <1>0, <1>4 DEF OthersWait
  <2>3. Takes(x, k)
    BY <1>1, <1>2, <2>1, <2>2 DEF Takes
  <2>. QED
    BY <2>3 DEF Sends
<1>. QED
  BY <1>3, <1>4 DEF CreateAndDispatch

LEMMA ObservationSends ==
    ASSUME AlertTypes, ObservationNext
    PROVE  Sends
<1>0. event \in [Key -> EventRow] /\ sending \in [Sender -> SendingRow] /\ trigger \in TriggerRow
      /\ alerted \in Nat /\ env.times \in Nat
  BY OutboxFields, ObservationFields, AlertEnv, AlertFacts DEF AlertTypes
<1>u. ASSUME UNCHANGED outboxVars PROVE Sends
  BY <1>u DEF outboxVars, Sends, Rests, Rise
<1>1. ASSUME NEW c \in Checker, CheckStep(c) PROVE Sends
  <2>1. CASE UNCHANGED outboxVars
    BY <1>u, <2>1
  <2>2. ASSUME IsChecked(c), ~IsMaxedOut, Matches(c) PROVE Sends
    <3>1. CASE trigger.cooling
      BY <1>u, <2>2, <3>1 DEF Matches
    <3>2. CASE ~trigger.cooling
      <4>1. CreateAndDispatch(c, trigger.count + 1) /\ sending[c] = Quiet /\ (c = "web" => env.users)
        BY <2>2, <3>2 DEF Matches, IsChecked, Acts
      <4>2. trigger.count + 1 \in Key /\ trigger.count + 1 <= env.times
        <5>1. trigger.count \in Nat
          BY <1>0 DEF TriggerRow
        <5>. QED
          BY <1>0, <2>2, <5>1, AlertFacts, AlertEnv DEF AlertTypes, IsMaxedOut, Key
      <4>3. c \in Sender /\ MayHave(c, trigger.count + 1)
        BY <4>1, <4>2, AlertFacts DEF Checker, MayHave, Author
      <4>. QED
        BY <4>1, <4>2, <4>3, Raising
    <3>. QED
      BY <3>1, <3>2
  <2>. QED
    BY <1>1, <2>1, <2>2 DEF CheckStep, GetsMaxedOut, PriceIsQuiet, PriceMatches, AskForRescan, RememberRescan,
          RescanIsPending, RescanIsDropped, RescanMatches, CountTrigger, LooksAtRescan
<1>2. ASSUME RoundStep PROVE Sends
  <2>1. CASE UNCHANGED outboxVars
    BY <1>u, <2>1
  <2>2. ASSUME RaisesAlert, Acts("looper") PROVE Sends
    <3>1. MayHave("looper", env.times + alerted + 1)
      BY <1>0 DEF MayHave, Author
    <3>. QED
      BY <2>2, <3>1, Raising, AlertFacts DEF RaisesAlert, Acts
  <2>3. ASSUME NEW symbol \in Symbol, NextSymbol(symbol)
        PROVE  UNCHANGED outboxVars \/ (RaisesAlert /\ Acts("looper"))
    BY <2>3 DEF NextSymbol
  <2>. QED
    BY <1>2, <2>1, <2>2, <2>3 DEF RoundStep, MarketIsClosed, StartRound, SubmitLoopScan, SelectionIsDone,
          SendDigest, SymbolsAreDone, EndRound, RoundFails
<1>. QED
  BY <1>1, <1>2 DEF ObservationNext

LEMMA OutboxSends ==
    ASSUME AlertTypes, Tame, OutboxNext
    PROVE  Sends
<1>0. /\ event \in [Key -> EventRow] /\ created \in Seq(Key)
      /\ sending \in [Sender -> SendingRow] /\ todo \in Seq(Key)
      /\ delivered \in [Key -> 0..MaxDelivered]
      /\ \A x \in Sender : sending[x].pc # "idle" => sending[x].key \in Key
      /\ OutboxTypes
  BY OutboxFields DEF AlertTypes
<1>q. Quiet.pc = "idle"
  BY QuietType
<1>r. ASSUME event' = event PROVE Rise
  BY <1>r DEF Rise
<1>s. ASSUME UNCHANGED <<event, sending, delivered>> PROVE Sends
  BY <1>r, <1>s DEF Sends, Rests
<1>w. ASSUME NEW x \in Sender, sending' = [sending EXCEPT ![x] = Quiet]
      PROVE  sending'[x].pc = "idle" /\ OthersWait(x)
  BY <1>0, <1>q, <1>w DEF OthersWait
<1>1. ASSUME NEW x \in Sender, ReadEvent(x) PROVE Sends
  <2>1. event' = event /\ delivered' = delivered /\ sending[x].pc = "read"
    BY <1>1 DEF ReadEvent
  <2>2. CASE event[sending[x].key].status \in {"none", "sent"}
    <3>1. Drops(x)
      BY <1>1, <1>r, <1>w, <2>1, <2>2 DEF ReadEvent, Drops
    <3>. QED
      BY <3>1 DEF Sends
  <2>3. CASE event[sending[x].key].status \notin {"none", "sent"}
    <3>1. Advances(x, "read", "deliver")
      BY <1>0, <1>1, <2>1, <2>3, SenderGoes DEF ReadEvent, Advances, OthersWait
    <3>2. Looks(x)
      BY <1>r, <2>1, <2>3, <3>1 DEF Looks
    <3>. QED
      BY <3>2 DEF Sends
  <2>. QED
    BY <2>2, <2>3
<1>2. ASSUME NEW x \in Sender, Deliver(x) PROVE Sends
  <2>1. event' = event /\ sending[x].pc = "deliver" /\ sending[x].key \in Key
    BY <1>0, <1>2 DEF Deliver
  <2>2. CASE /\ env.channel
             /\ delivered' = [delivered EXCEPT ![sending[x].key] = IF @ < MaxDelivered THEN @ + 1 ELSE @]
             /\ sending' = [sending EXCEPT ![x].pc = "accepted"]
    <3>1. Advances(x, "deliver", "accepted")
      BY <1>0, <2>1, <2>2, SenderGoes DEF Advances, OthersWait
    <3>2. \A k \in Key : IF k = sending[x].key THEN delivered'[k] <= delivered[k] + 1
                         ELSE delivered'[k] = delivered[k]
      BY <1>0, <2>1, <2>2
    <3>3. Delivers(x)
      BY <1>r, <2>1, <2>2, <3>1, <3>2 DEF Delivers
    <3>. QED
      BY <3>3 DEF Sends
  <2>3. CASE ~env.channel /\ delivered' = delivered /\ sending' = [sending EXCEPT ![x].pc = "refused"]
    <3>1. Advances(x, "deliver", "refused")
      BY <1>0, <2>1, <2>3, SenderGoes DEF Advances, OthersWait
    <3>2. IsRefused(x)
      BY <1>r, <2>1, <2>3, <3>1 DEF IsRefused
    <3>. QED
      BY <3>2 DEF Sends
  <2>. QED
    BY <1>2, <2>2, <2>3 DEF Deliver, Tame
<1>3. ASSUME NEW x \in Sender, MarkSent(x) \/ MarkFailed(x) PROVE Sends
  <2> DEFINE status == IF sending[x].pc = "accepted" THEN "sent" ELSE "failed"
             k == sending[x].key
  <2>1. /\ sending[x].pc \in {"accepted", "refused"} /\ event' = Marked(k, status)
        /\ sending' = [sending EXCEPT ![x] = Quiet] /\ delivered' = delivered
    BY <1>3 DEF MarkSent, MarkFailed, Tame
  <2>2. k \in Key
    BY <1>0, <2>1
  <2> HIDE DEF status, k
  <2>3. CASE event[k].status = "none"
    <3>1. event' = event
      BY <2>1, <2>3 DEF Marked
    <3>2. Marks(x)
      BY <1>w, <2>1, <2>3, <3>1 DEF Marks, k
    <3>. QED
      BY <3>2 DEF Sends
  <2>4. CASE event[k].status # "none"
    <3> DEFINE it == [event[k] EXCEPT !.status = status, !.attempts = MoreAttempts(k)]
    <3>1. it.status = status
      BY <1>0, <2>2 DEF EventRow
    <3>2. event' = [event EXCEPT ![k] = it]
      BY <1>0, <2>1, <2>2, <2>4 DEF Marked
    <3> HIDE DEF it
    <3>3. event'[k].status = status /\ \A j \in Key \ {k} : event'[j] = event[j]
      BY <1>0, <2>2, <3>1, <3>2
    <3>4. Marks(x)
      BY <1>w, <2>1, <2>4, <3>3 DEF Marks, k, status
    <3>. QED
      BY <3>4 DEF Sends
  <2>. QED
    BY <2>3, <2>4
<1>4. CASE ListPending
  BY <1>4, <1>s DEF ListPending
<1>5. CASE SendNext
  <2>1. Head(todo) \in Key
    BY <1>0, <1>5 DEF SendNext
  <2>2. /\ sending["notifier"].pc = "idle" /\ sending'["notifier"].pc = "read"
        /\ sending'["notifier"].key = Head(todo) /\ OthersWait("notifier")
    BY <1>0, <1>5, <1>q, AlertFacts DEF SendNext, OthersWait
  <2>3. Takes("notifier", Head(todo))
    BY <1>5, <1>r, <2>2 DEF SendNext, Takes, MayHave
  <2>. QED
    BY <2>1, <2>3, AlertFacts DEF Sends
<1>6. CASE Prune
  BY <1>6 DEF Prune, Tame
<1>7. ASSUME NEW k \in Key, GetsOld(k) PROVE Sends
  <2>1. [event[k] EXCEPT !.old = TRUE].status = event[k].status
    BY <1>0 DEF EventRow
  <2>2. event' = [event EXCEPT ![k] = [event[k] EXCEPT !.old = TRUE]]
    BY <1>0, <1>7 DEF GetsOld
  <2>3. \A j \in Key : event'[j].status = event[j].status
    BY <1>0, <2>1, <2>2
  <2>. QED
    BY <1>7, <2>3 DEF GetsOld, Sends, Rests, Rise
<1>. QED
  BY <1>1, <1>2, <1>3, <1>4, <1>5, <1>6, <1>7 DEF OutboxNext, SendStep

LEMMA SendingCases ==
    ASSUME AlertTypes, Tame, [Next]_vars
    PROVE  /\ env' = env
           /\ \/ Sends /\ crashes' = crashes
              \/ \E n \in Node : SendersDie(n) /\ crashes' = crashes + 1
<1>1. CASE TimeNext
  BY <1>1 DEF TimeNext, processVars, outboxVars, Sends, Rests, Rise
<1>2. CASE ObservationNext
  BY <1>2, ObservationSends DEF ObservationNext, processVars
<1>3. CASE OutboxNext
  BY <1>3, OutboxSends DEF OutboxNext, processVars
<1>4. CASE UNCHANGED <<env, crashes, outboxVars, observationVars>>
  BY <1>4 DEF outboxVars, Sends, Rests, Rise
<1>5. ASSUME NEW n \in Node, Dies(n), SendersDie(n)
      PROVE  env' = env /\ crashes' = crashes + 1
  BY <1>5 DEF Dies
<1>. QED
  BY <1>1, <1>2, <1>3, <1>4, <1>5, AlertCases

(* Who has an event in hand: the notification worker, the thread that raised
   it, or a user who did; and only those at the channel have found a row. *)
InGoodHands(x) ==
    sending[x].pc # "idle" =>
        /\ MayHave(x, sending[x].key)
        /\ sending[x].pc \in {"deliver", "accepted"} => event[sending[x].key].status # "none"
        /\ env.channel => sending[x].pc # "refused"

HandsInv ==
    Tame => /\ \A x \in Sender : InGoodHands(x)
            /\ env.channel => \A k \in Key : event[k].status # "failed"
            /\ ~env.channel => \A k \in Key : delivered[k] = 0

LEMMA HandsInvInit == Init => HandsInv
<1> SUFFICES ASSUME Init PROVE HandsInv
  OBVIOUS
<1>1. /\ \A x \in Sender : sending[x] = Quiet
      /\ \A k \in Key : delivered[k] = 0 /\ event[k] = NoEvent
  BY DEF Init, OutboxInit
<1>. QED
  BY <1>1 DEF HandsInv, InGoodHands, Quiet, NoEvent

LEMMA HandsInvStep == AlertTypes /\ HandsInv /\ [Next]_vars => HandsInv'
<1> SUFFICES ASSUME AlertTypes, HandsInv, [Next]_vars, Tame'
             PROVE  /\ \A x \in Sender : InGoodHands(x)'
                    /\ env.channel' => \A k \in Key : event'[k].status # "failed"
                    /\ ~env.channel' => \A k \in Key : delivered'[k] = 0
  BY DEF HandsInv
<1>e. env' = env
  <2>1. env' = env
    BY AlertCases DEF TimeNext, ObservationNext, OutboxNext, Dies, processVars
  <2>. QED
    BY <2>1
<1>t. /\ Tame /\ \A x \in Sender : InGoodHands(x)
      /\ env.channel => \A k \in Key : event[k].status # "failed"
      /\ ~env.channel => \A k \in Key : delivered[k] = 0
  BY <1>e DEF HandsInv, Tame
<1>0. /\ event \in [Key -> EventRow] /\ sending \in [Sender -> SendingRow]
      /\ delivered \in [Key -> 0..MaxDelivered]
      /\ \A x \in Sender : sending[x].pc # "idle" => sending[x].key \in Key
  BY OutboxFields DEF AlertTypes
<1>m. \A x, k : MayHave(x, k)' = MayHave(x, k)
  BY <1>e DEF MayHave, Author
\* A sender that does nothing keeps what it has.
<1>w. ASSUME NEW x \in Sender, sending'[x] = sending[x],
             \A k \in Key : event[k].status # "none" => event'[k].status # "none"
      PROVE  InGoodHands(x)'
  <2>1. InGoodHands(x) /\ (sending[x].pc # "idle" => sending[x].key \in Key)
    BY <1>0, <1>t
  <2>. QED
    BY <1>e, <1>w, <1>m, <2>1 DEF InGoodHands
<1>i. ASSUME NEW x \in Sender, sending'[x].pc = "idle" PROVE InGoodHands(x)'
  BY <1>i DEF InGoodHands
<1>r. ASSUME Rise
      PROVE  /\ \A k \in Key : event[k].status # "none" => event'[k].status # "none"
             /\ env.channel' => \A k \in Key : event'[k].status # "failed"
  BY <1>r, <1>e, <1>t DEF Rise
<1>1. CASE Rests
  BY <1>1, <1>e, <1>t, <1>r, <1>w DEF Rests
<1>2. ASSUME NEW x \in Sender, NEW k \in Key, Takes(x, k)
      PROVE  /\ \A y \in Sender : InGoodHands(y)'
             /\ env.channel' => \A j \in Key : event'[j].status # "failed"
             /\ ~env.channel' => \A j \in Key : delivered'[j] = 0
  <2>1. InGoodHands(x)'
    BY <1>2, <1>m DEF Takes, InGoodHands
  <2>2. \A y \in Sender \ {x} : InGoodHands(y)'
    BY <1>2, <1>r, <1>w DEF Takes, OthersWait
  <2>. QED
    BY <1>2, <1>e, <1>t, <1>r, <2>1, <2>2 DEF Takes
<1>3. ASSUME NEW x \in Sender, Looks(x) \/ Drops(x) \/ Delivers(x) \/ IsRefused(x)
      PROVE  /\ \A y \in Sender : InGoodHands(y)'
             /\ env.channel' => \A j \in Key : event'[j].status # "failed"
             /\ ~env.channel' => \A j \in Key : delivered'[j] = 0
  <2>0. Rise /\ OthersWait(x) /\ sending[x].pc # "idle"
    BY <1>3 DEF Looks, Drops, Delivers, IsRefused, Advances
  <2>1. InGoodHands(x) /\ sending[x].key \in Key
    BY <1>0, <1>t, <2>0
  <2>2. ASSUME Drops(x) PROVE InGoodHands(x)'
    BY <1>i, <2>2 DEF Drops
  <2>3. ASSUME Looks(x) PROVE InGoodHands(x)'
    BY <1>e, <1>m, <1>r, <2>0, <2>1, <2>3 DEF Looks, Advances, InGoodHands
  <2>4. ASSUME Delivers(x) PROVE InGoodHands(x)'
    BY <1>e, <1>m, <1>r, <2>0, <2>1, <2>4 DEF Delivers, Advances, InGoodHands
  <2>5. ASSUME IsRefused(x) PROVE InGoodHands(x)'
    BY <1>e, <1>m, <1>r, <2>0, <2>1, <2>5 DEF IsRefused, Advances, InGoodHands
  <2>6. \A y \in Sender \ {x} : InGoodHands(y)'
    BY <1>r, <1>w, <2>0 DEF OthersWait
  <2>7. ~env.channel' => \A j \in Key : delivered'[j] = 0
    BY <1>3, <1>e, <1>t DEF Looks, Drops, Delivers, IsRefused
  <2>8. InGoodHands(x)'
    BY <1>3, <1>i, <2>2, <2>3, <2>4, <2>5 DEF Drops
  <2>. QED
    BY <1>r, <2>0, <2>6, <2>7, <2>8
<1>4. ASSUME NEW x \in Sender, Marks(x)
      PROVE  /\ \A y \in Sender : InGoodHands(y)'
             /\ env.channel' => \A j \in Key : event'[j].status # "failed"
             /\ ~env.channel' => \A j \in Key : delivered'[j] = 0
  <2>1. \A k \in Key : event[k].status # "none" => event'[k].status # "none"
    BY <1>4 DEF Marks
  <2>2. \A y \in Sender \ {x} : InGoodHands(y)'
    BY <1>4, <1>w, <2>1 DEF Marks, OthersWait
  <2>3. InGoodHands(x)'
    BY <1>4, <1>i DEF Marks
  <2>4. env.channel' => \A j \in Key : event'[j].status # "failed"
    <3>1. env.channel => sending[x].pc = "accepted"
      BY <1>4, <1>t DEF Marks, InGoodHands
    <3>. QED
      BY <1>4, <1>e, <1>t, <3>1 DEF Marks
  <2>. QED
    BY <1>4, <1>e, <1>t, <2>2, <2>3, <2>4 DEF Marks
<1>5. ASSUME NEW n \in Node, SendersDie(n)
      PROVE  /\ \A y \in Sender : InGoodHands(y)'
             /\ env.channel' => \A j \in Key : event'[j].status # "failed"
             /\ ~env.channel' => \A j \in Key : delivered'[j] = 0
  <2>1. event' = event /\ delivered' = delivered
    BY <1>5 DEF SendersDie
  <2>2. \A y \in Sender : sending'[y] = sending[y] \/ sending'[y].pc = "idle"
    BY <1>5, QuietType DEF SendersDie
  <2>3. \A y \in Sender : InGoodHands(y)'
    BY <1>i, <1>w, <2>1, <2>2
  <2>. QED
    BY <1>e, <1>t, <2>1, <2>3
<1>. QED
  BY <1>1, <1>2, <1>3, <1>4, <1>5, <1>t, SendingCases DEF Sends

-----------------------------------------------------------------------------
(* How many have an event at one point of its delivery. *)

Bit(x, pc, k) == IF sending[x].pc = pc /\ sending[x].key = k THEN 1 ELSE 0
AtOf(pc, k) == Bit("notifier", pc, k) + Bit(Author(k), pc, k) + Bit("web", pc, k)
UserBit == IF env.users THEN 1 ELSE 0

LEMMA BitsAre ==
    ASSUME NEW k
    PROVE  /\ \A x, pc : Bit(x, pc, k) \in 0..1
           /\ \A x : Bit(x, "deliver", k) + Bit(x, "accepted", k) <= 1
           /\ Author(k) \in {"monitor", "looper"}
           /\ UserBit \in 0..1
BY DEF Bit, Author, UserBit

\* One sender moves: the count moves with it.
LEMMA CountMoves ==
    ASSUME env' = env, NEW x \in Sender, OthersWait(x), NEW k, NEW pc, MayHave(x, k)
    PROVE  AtOf(pc, k)' + Bit(x, pc, k) = AtOf(pc, k) + Bit(x, pc, k)'
<1>1. \A y \in Sender \ {x} : Bit(y, pc, k)' = Bit(y, pc, k)
  BY DEF OthersWait, Bit
<1>2. Author(k)' = Author(k) /\ Author(k) \in {"monitor", "looper"}
  BY DEF Author
<1>3. \A y : Bit(y, pc, k) \in {0, 1} /\ Bit(y, pc, k)' \in {0, 1}
  BY DEF Bit
<1>4. {"notifier", Author(k), "web"} \subseteq Sender
  BY <1>2, AlertFacts
<1>5. AtOf(pc, k)' = Bit("notifier", pc, k)' + Bit(Author(k), pc, k)' + Bit("web", pc, k)'
  BY <1>2 DEF AtOf, Bit
<1>6. CASE x = "notifier"
  BY <1>1, <1>2, <1>3, <1>4, <1>5, <1>6 DEF AtOf
<1>7. CASE x = Author(k)
  BY <1>1, <1>2, <1>3, <1>4, <1>5, <1>7 DEF AtOf
<1>8. CASE x = "web"
  BY <1>1, <1>2, <1>3, <1>4, <1>5, <1>8 DEF AtOf
<1>. QED
  BY <1>6, <1>7, <1>8 DEF MayHave

\* Another event: no count moves.
LEMMA CountStays ==
    ASSUME env' = env, NEW x \in Sender, OthersWait(x), NEW k, NEW pc,
           Bit(x, pc, k) = 0, Bit(x, pc, k)' = 0
    PROVE  AtOf(pc, k)' = AtOf(pc, k)
<1>1. \A y \in Sender : Bit(y, pc, k)' = Bit(y, pc, k)
  BY DEF OthersWait, Bit
<1>2. Author(k)' = Author(k) /\ Author(k) \in {"monitor", "looper"}
  BY DEF Author
<1>3. {"notifier", Author(k), "web"} \subseteq Sender
  BY <1>2, AlertFacts
<1>4. AtOf(pc, k)' = Bit("notifier", pc, k)' + Bit(Author(k), pc, k)' + Bit("web", pc, k)'
  BY <1>2 DEF AtOf, Bit
<1>5. /\ Bit("notifier", pc, k)' = Bit("notifier", pc, k) /\ Bit("web", pc, k)' = Bit("web", pc, k)
      /\ Bit(Author(k), pc, k)' = Bit(Author(k), pc, k)
  BY <1>2, <1>3 DEF OthersWait, Bit
<1>6. AtOf(pc, k) = Bit("notifier", pc, k) + Bit(Author(k), pc, k) + Bit("web", pc, k)
  BY DEF AtOf
<1>. QED
  BY <1>2, <1>4, <1>5, <1>6

LEMMA AtOfType == ASSUME NEW k, NEW pc PROVE AtOf(pc, k) \in Nat
BY DEF AtOf, Bit

(* Each of the three threads that may have an event is at one point of its
   delivery, and the third only where there are users. *)
LEMMA AtMostThree ==
    ASSUME HandsInv, Tame, NEW k
    PROVE  AtOf("deliver", k) + AtOf("accepted", k) <= 2 + UserBit
<1>1. Bit("web", "deliver", k) + Bit("web", "accepted", k) <= UserBit
  <2>1. CASE env.users
    BY <2>1 DEF Bit, UserBit
  <2>2. CASE ~env.users
    <3>1. sending["web"].pc = "idle"
      BY <2>2, AlertFacts DEF HandsInv, InGoodHands, MayHave
    <3>. QED
      BY <3>1 DEF Bit, UserBit
  <2>. QED
    BY <2>1, <2>2
<1>2. \A x : Bit(x, "deliver", k) + Bit(x, "accepted", k) <= 1
  BY BitsAre
<1>3. \A x, pc : Bit(x, pc, k) \in Nat
  BY DEF Bit
<1>4. /\ Bit("notifier", "deliver", k) + Bit("notifier", "accepted", k) <= 1
      /\ Bit(Author(k), "deliver", k) + Bit(Author(k), "accepted", k) <= 1
      /\ UserBit \in Nat
  BY <1>2 DEF UserBit
<1>. QED
  BY <1>1, <1>3, <1>4 DEF AtOf

(* Once an event is sent, who is at the channel with it can still deliver it;
   nobody else will.  Before that, every delivery is in the hands of a thread
   that has yet to note it, or of one that died with it. *)
Counted(k) ==
    IF event[k].status = "sent"
    THEN delivered[k] + AtOf("deliver", k) <= 2 * (1 + crashes) + UserBit
    ELSE delivered[k] <= 2 * crashes + AtOf("accepted", k)

CountInv == Tame /\ env.channel => \A k \in Key : Counted(k)

LEMMA CountInvInit == Init => CountInv
<1> SUFFICES ASSUME Init, NEW k \in Key PROVE Counted(k)
  BY DEF CountInv
<1>1. delivered[k] = 0 /\ event[k].status = "none" /\ crashes = 0
  BY DEF Init, OutboxInit, ProcessInit, NoEvent
<1>. QED
  BY <1>1, AtOfType DEF Counted

LEMMA CountedStays ==
    ASSUME AlertTypes, NEW k \in Key, Counted(k), env' = env, crashes' = crashes,
           AtOf("deliver", k)' = AtOf("deliver", k), AtOf("accepted", k)' = AtOf("accepted", k),
           delivered'[k] = delivered[k],
           event'[k].status = "sent" <=> event[k].status = "sent"
    PROVE  Counted(k)'
BY DEF Counted, UserBit

LEMMA CountInvStep == AlertTypes /\ HandsInv /\ CountInv /\ [Next]_vars => CountInv'
<1> SUFFICES ASSUME AlertTypes, HandsInv, CountInv, [Next]_vars, Tame', env.channel', NEW k \in Key
             PROVE  Counted(k)'
  BY DEF CountInv
<1>e. env' = env
  BY AlertCases DEF TimeNext, ObservationNext, OutboxNext, Dies, processVars
<1>t. Tame /\ env.channel /\ Counted(k) /\ \A x \in Sender : InGoodHands(x)
  BY <1>e DEF CountInv, HandsInv, Tame
<1>0. /\ delivered[k] \in Nat /\ crashes \in Nat /\ UserBit \in Nat /\ UserBit' = UserBit
      /\ \A x \in Sender : sending[x].pc # "idle" => sending[x].key \in Key
  <2>1. delivered[k] \in 0..MaxDelivered
    BY OutboxFields DEF AlertTypes
  <2>. QED
    BY <1>e, <2>1, OutboxFields, AlertFacts DEF AlertTypes, UserBit
<1>a. /\ AtOf("deliver", k) \in Nat /\ AtOf("accepted", k) \in Nat
      /\ AtOf("deliver", k)' \in Nat /\ AtOf("accepted", k)' \in Nat
  BY AtOfType DEF AtOf, Bit
<1>r. Rise => (event'[k].status = "sent" <=> event[k].status = "sent")
  BY DEF Rise
\* A sender that is at neither point of the delivery of k, before or after.
<1>s. ASSUME NEW x \in Sender, OthersWait(x), NEW pc \in {"deliver", "accepted"},
             sending[x].pc # pc \/ sending[x].key # k, sending'[x].pc # pc \/ sending'[x].key # k
      PROVE  AtOf(pc, k)' = AtOf(pc, k)
  <2>1. Bit(x, pc, k) = 0 /\ Bit(x, pc, k)' = 0
    BY <1>s DEF Bit
  <2>. QED
    BY <1>e, <1>s, <2>1, CountStays
<1>1. ASSUME Rests, crashes' = crashes PROVE Counted(k)'
  <2>1. AtOf("deliver", k)' = AtOf("deliver", k) /\ AtOf("accepted", k)' = AtOf("accepted", k)
    BY <1>1, <1>e DEF Rests, AtOf, Bit, Author
  <2>. QED
    BY <1>1, <1>e, <1>t, <1>r, <2>1, CountedStays DEF Rests
<1>2. ASSUME NEW x \in Sender, Drops(x) \/ \E j \in Key : Takes(x, j), crashes' = crashes PROVE Counted(k)'
  <2>1. OthersWait(x) /\ Rise /\ delivered' = delivered /\ sending[x].pc \notin {"deliver", "accepted"}
        /\ sending'[x].pc \notin {"deliver", "accepted"}
    BY <1>2 DEF Drops, Takes
  <2>2. AtOf("deliver", k)' = AtOf("deliver", k) /\ AtOf("accepted", k)' = AtOf("accepted", k)
    BY <1>s, <2>1
  <2>. QED
    BY <1>2, <1>e, <1>t, <1>r, <2>1, <2>2, CountedStays
<1>3. ASSUME NEW x \in Sender, Looks(x), crashes' = crashes PROVE Counted(k)'
  <2>1. OthersWait(x) /\ Rise /\ delivered' = delivered /\ sending[x].pc = "read" /\ sending'[x].pc = "deliver"
        /\ sending'[x].key = sending[x].key /\ event[sending[x].key].status # "sent"
    BY <1>3 DEF Looks, Advances
  <2>2. AtOf("accepted", k)' = AtOf("accepted", k)
    BY <1>s, <2>1
  <2>3. CASE k = sending[x].key
    <3>1. event[k].status # "sent" /\ event'[k].status # "sent"
      BY <1>r, <2>1, <2>3
    <3>. QED
      BY <1>3, <1>t, <2>1, <2>2, <3>1 DEF Counted
  <2>4. CASE k # sending[x].key
    <3>1. AtOf("deliver", k)' = AtOf("deliver", k)
      BY <1>s, <2>1, <2>4
    <3>. QED
      BY <1>3, <1>e, <1>t, <1>r, <2>1, <2>2, <3>1, CountedStays
  <2>. QED
    BY <2>3, <2>4
<1>4. ASSUME NEW x \in Sender, Delivers(x), crashes' = crashes PROVE Counted(k)'
  <2>1. /\ OthersWait(x) /\ Rise /\ sending[x].pc = "deliver" /\ sending'[x].pc = "accepted"
        /\ sending'[x].key = sending[x].key /\ sending[x].key \in Key
    BY <1>0, <1>4 DEF Delivers, Advances
  <2>2. CASE k # sending[x].key
    <3>1. AtOf("deliver", k)' = AtOf("deliver", k) /\ AtOf("accepted", k)' = AtOf("accepted", k)
      BY <1>s, <2>1, <2>2
    <3>2. delivered'[k] = delivered[k]
      BY <1>4, <2>2 DEF Delivers
    <3>. QED
      BY <1>4, <1>e, <1>t, <1>r, <2>1, <3>1, <3>2, CountedStays
  <2>3. CASE k = sending[x].key
    <3>1. MayHave(x, k)
      BY <1>t, <2>1, <2>3 DEF InGoodHands
    <3>2. /\ Bit(x, "deliver", k) = 1 /\ Bit(x, "deliver", k)' = 0
          /\ Bit(x, "accepted", k) = 0 /\ Bit(x, "accepted", k)' = 1
      BY <2>1, <2>3 DEF Bit
    <3>3. /\ AtOf("deliver", k)' + 1 = AtOf("deliver", k) + 0
          /\ AtOf("accepted", k)' + 0 = AtOf("accepted", k) + 1
      BY <1>e, <2>1, <3>1, <3>2, CountMoves
    <3>4. delivered'[k] <= delivered[k] + 1
      BY <1>4, <2>3 DEF Delivers
    <3>5. delivered'[k] \in Nat
      <4>1. AlertTypes'
        BY AlertTypesStep
      <4>2. delivered'[k] \in 0..MaxDelivered
        BY <4>1 DEF AlertTypes, OutboxTypes, OutboxTypeOK
      <4>. QED
        BY <4>2, AlertFacts
    <3>. QED
      BY <1>0, <1>4, <1>a, <1>t, <1>r, <2>1, <3>3, <3>4, <3>5 DEF Counted
  <2>. QED
    BY <2>2, <2>3
<1>5. ASSUME NEW x \in Sender, Marks(x), crashes' = crashes PROVE Counted(k)'
  <2>1. /\ OthersWait(x) /\ delivered' = delivered /\ sending[x].pc = "accepted" /\ sending'[x].pc = "idle"
        /\ sending[x].key \in Key
    BY <1>0, <1>5, <1>t DEF Marks, InGoodHands
  <2>2. AtOf("deliver", k)' = AtOf("deliver", k)
    BY <1>s, <2>1
  <2>3. CASE k # sending[x].key
    <3>1. AtOf("accepted", k)' = AtOf("accepted", k)
      BY <1>s, <2>1, <2>3
    <3>2. event'[k].status = event[k].status
      BY <1>5, <2>3 DEF Marks
    <3>. QED
      BY <1>5, <1>e, <1>t, <2>1, <2>2, <3>1, <3>2, CountedStays
  <2>4. CASE k = sending[x].key
    <3>1. event'[k].status = "sent"
      BY <1>5, <1>t, <2>1, <2>4 DEF Marks, InGoodHands
    <3>2. AtOf("deliver", k) + AtOf("accepted", k) <= 2 + UserBit
      BY <1>t, AtMostThree
    <3>3. delivered[k] + AtOf("deliver", k) <= 2 * (1 + crashes) + UserBit
      BY <1>0, <1>a, <1>t, <3>2 DEF Counted
    <3>. QED
      BY <1>0, <1>5, <2>1, <2>2, <3>1, <3>3 DEF Counted
  <2>. QED
    BY <2>3, <2>4
<1>6. ASSUME NEW n \in Node, SendersDie(n), crashes' = crashes + 1 PROVE Counted(k)'
  <2>1. event' = event /\ delivered' = delivered
    BY <1>6 DEF SendersDie
  <2>2. \A x \in Sender : sending'[x] = sending[x] \/ (sending'[x].pc = "idle" /\ x # "web")
    BY <1>6, QuietType DEF SendersDie
  <2>3. \A x \in Sender, pc \in {"deliver", "accepted"} : Bit(x, pc, k)' <= Bit(x, pc, k)
    BY <2>2 DEF Bit
  <2>4. \A pc \in {"deliver", "accepted"} : Bit("web", pc, k)' = Bit("web", pc, k)
    BY <2>2, AlertFacts DEF Bit
  <2>5. Author(k)' = Author(k) /\ {"notifier", Author(k), "web"} \subseteq Sender
    BY <1>e, AlertFacts DEF Author
  <2>6. \A pc \in {"deliver", "accepted"} :
          AtOf(pc, k)' <= AtOf(pc, k) /\ AtOf(pc, k) <= AtOf(pc, k)' + 2
    <3> TAKE pc \in {"deliver", "accepted"}
    <3>1. AtOf(pc, k)' = Bit("notifier", pc, k)' + Bit(Author(k), pc, k)' + Bit("web", pc, k)'
      BY DEF AtOf
    <3>2. Bit(Author(k), pc, k)' <= Bit(Author(k), pc, k)
      BY <2>2, <2>5 DEF Bit
    <3>3. Bit("notifier", pc, k)' <= Bit("notifier", pc, k)
      BY <2>3, <2>5
    <3>4. /\ Bit("notifier", pc, k)' \in 0..1 /\ Bit(Author(k), pc, k)' \in 0..1 /\ Bit("web", pc, k)' \in 0..1
          /\ Bit("notifier", pc, k) \in 0..1 /\ Bit(Author(k), pc, k) \in 0..1 /\ Bit("web", pc, k) \in 0..1
      BY DEF Bit
    <3>. QED
      BY <2>4, <3>1, <3>2, <3>3, <3>4 DEF AtOf
  <2>7. AtOf("deliver", k)' <= AtOf("deliver", k) /\ AtOf("accepted", k) <= AtOf("accepted", k)' + 2
    BY <2>6
  <2>8. CASE event[k].status = "sent"
    <3>1. delivered[k] + AtOf("deliver", k) <= 2 * (1 + crashes) + UserBit
      BY <1>t, <2>8 DEF Counted
    <3>2. delivered'[k] + AtOf("deliver", k)' <= 2 * (1 + crashes') + UserBit'
      BY <1>0, <1>6, <1>a, <2>1, <2>7, <3>1
    <3>. QED
      BY <2>1, <2>8, <3>2 DEF Counted
  <2>9. CASE event[k].status # "sent"
    <3>1. delivered[k] <= 2 * crashes + AtOf("accepted", k)
      BY <1>t, <2>9 DEF Counted
    <3>2. delivered'[k] <= 2 * crashes' + AtOf("accepted", k)'
      BY <1>0, <1>6, <1>a, <2>1, <2>7, <3>1
    <3>. QED
      BY <2>1, <2>9, <3>2 DEF Counted
  <2>. QED
    BY <2>8, <2>9
<1>. QED
  BY <1>1, <1>2, <1>3, <1>4, <1>5, <1>6, <1>t, SendingCases DEF Sends, IsRefused

(* An alert is delivered at most once by each thread that may have it in hand,
   in each of its lives, where the channel refuses nothing, no call fails and
   nothing is pruned: create_notification_event gives every thread that raises
   the alert the one event of its key, and send_notification_event does not
   send again what it finds sent. *)
THEOREM DeliveredOnce == Spec => []DeliveredOncePerSender
<1>1. AlertTypes /\ HandsInv /\ CountInv => DeliveredOncePerSender
  <2> SUFFICES ASSUME AlertTypes, HandsInv, CountInv, Tame, NEW k \in Key
               PROVE  delivered[k] <= 2 * (1 + crashes) + UserBit
    BY DEF DeliveredOncePerSender, Tame, UserBit
  <2>0. delivered[k] \in Nat /\ crashes \in Nat /\ UserBit \in Nat /\ env.channel \in BOOLEAN
    <3>1. delivered[k] \in 0..MaxDelivered
      BY OutboxFields DEF AlertTypes
    <3>. QED
      BY <3>1, AlertFacts, AlertEnv DEF AlertTypes, UserBit
  <2>1. CASE ~env.channel
    BY <2>0, <2>1 DEF HandsInv
  <2>2. CASE env.channel
    <3>1. Counted(k)
      BY <2>2 DEF CountInv
    <3>2. AtOf("deliver", k) + AtOf("accepted", k) <= 2 + UserBit
      BY AtMostThree
    <3>3. AtOf("deliver", k) \in Nat /\ AtOf("accepted", k) \in Nat
      BY AtOfType
    <3>. QED
      BY <2>0, <3>1, <3>2, <3>3 DEF Counted
  <2>. QED
    BY <2>0, <2>1, <2>2
<1>. QED
  BY <1>1, HandsInvInit, HandsInvStep, CountInvInit, CountInvStep, AlertTypesHold, PTL DEF Spec

-----------------------------------------------------------------------------
(* Steps: what they are for the cache. *)

LEMMA CacheCases ==
    [Next]_vars => \/ CacheNext
                   \/ UNCHANGED <<env, crashes, cacheVars>>
                   \/ \E n \in Node : Dies(n) /\ CacheDies(n)
<1> SUFFICES ASSUME [Next]_vars, ~CacheNext
             PROVE  \/ UNCHANGED <<env, crashes, cacheVars>>
                    \/ \E n \in Node : Dies(n) /\ CacheDies(n)
  OBVIOUS
<1>1. CASE StartNext
  BY <1>1 DEF StartNext, Start, ListQueued, Requeue, Requeued, processVars
<1>2. CASE ScanNext \/ OutboxNext \/ ObservationNext \/ TimeNext
  BY <1>2 DEF ScanNext, OutboxNext, ObservationNext, TimeNext, processVars
<1>3. CASE ReviewNext \/ AutoNext \/ TradingNext \/ PoolNext
  BY <1>3 DEF ReviewNext, AutoNext, TradingNext, PoolNext, processVars
<1>4. ASSUME NEW n \in Node, Crash(n) PROVE \E m \in Node : Dies(m) /\ CacheDies(m)
  BY <1>4 DEF Crash
<1>5. CASE UNCHANGED vars
  BY <1>5 DEF vars, processVars
<1>. QED
  BY <1>1, <1>2, <1>3, <1>4, <1>5 DEF Next

-----------------------------------------------------------------------------
(* Types. *)

CacheTypes == env \in Environment /\ crashes \in Nat /\ CacheTypeOK

LEMMA AskerFacts ==
    /\ \A a \in Asker : NodeOf(a) \in Node /\ a # NoOne
    /\ \A n \in Node : Refresher(n) \in Asker /\ NodeOf(Refresher(n)) = n
BY NodeAssumption DEF NodeAssumption, Asker, NodeOf, Refresher, NoOne

LEMMA CacheTypesInit == Init => CacheTypes
<1> SUFFICES ASSUME Init PROVE CacheTypes
  OBVIOUS
<1>1. NoCall \in [pc : CallPc, leads : BOOLEAN]
  BY DEF NoCall, CallPc
<1>. QED
  BY <1>1 DEF Init, ProcessInit, CacheInit, CacheTypes, CacheTypeOK

LEMMA CacheTypesStep == CacheTypes /\ [Next]_vars => CacheTypes'
<1> SUFFICES ASSUME CacheTypes, [Next]_vars PROVE CacheTypes'
  OBVIOUS
<1> DEFINE Call == [pc : CallPc, leads : BOOLEAN]
<1>0. /\ env \in Environment /\ crashes \in Nat
      /\ item \in [Node -> {"none", "fresh", "stale"}] /\ shared \in BOOLEAN
      /\ guard \in Asker \union {NoOne} /\ flight \in [Node -> BOOLEAN] /\ call \in [Asker -> Call]
      /\ NoCall \in Call
  BY DEF CacheTypes, CacheTypeOK, NoCall, CallPc
<1>1. SUFFICES /\ env' \in Environment /\ crashes' \in Nat
               /\ item' \in [Node -> {"none", "fresh", "stale"}] /\ shared' \in BOOLEAN
               /\ guard' \in Asker \union {NoOne} /\ flight' \in [Node -> BOOLEAN]
               /\ call' \in [Asker -> Call]
  BY DEF CacheTypes, CacheTypeOK
<1>2. CASE UNCHANGED <<env, crashes, cacheVars>>
  BY <1>0, <1>2 DEF cacheVars
<1>3. ASSUME NEW n \in Node, Dies(n), CacheDies(n) PROVE <1>1!1
  <2>1. call' \in [Asker -> Call]
    BY <1>0, <1>3 DEF CacheDies
  <2>2. env' = env /\ crashes' = crashes + 1
    BY <1>3 DEF Dies
  <2>. QED
    BY <1>0, <1>3, <2>1, <2>2 DEF CacheDies
<1>4. CASE CacheNext
  <2>0. env' = env /\ crashes' = crashes
    BY <1>4 DEF CacheNext, processVars
  <2>1. ASSUME NEW a \in Asker, NEW pc \in CallPc, Goes(a, pc) PROVE call' \in [Asker -> Call]
    BY <1>0, <2>1 DEF Goes
  <2>2. ASSUME NEW a \in Asker, Returns(a) PROVE call' \in [Asker -> Call]
    BY <1>0, <2>2 DEF Returns
  <2>a. {"again", "missed", "waits", "woken", "alone", "elect", "polls",
         "calls", "shares", "unlocks", "lands"} \subseteq CallPc
    BY DEF CallPc
  <2>3. ASSUME NEW a \in Asker, LookUp(a) \/ LookAgain(a) \/ WaitIsOver(a) \/ Wake(a) \/ AskAlone(a)
        PROVE <1>1!1
    <3>1. call' \in [Asker -> Call]
      BY <2>1, <2>2, <2>a, <2>3 DEF LookUp, LookAgain, WaitIsOver, Wake, AskAlone
    <3>. QED
      BY <1>0, <2>0, <2>3, <3>1 DEF LookUp, LookAgain, WaitIsOver, Wake, AskAlone
  <2>4. ASSUME NEW a \in Asker, Join(a) PROVE <1>1!1
    <3>1. call' \in [Asker -> Call]
      BY <2>1, <2>2, <2>a, <2>4 DEF Join
    <3>. QED
      BY <1>0, <2>0, <2>4, <3>1 DEF Join
  <2>5. ASSUME NEW a \in Asker, Elect(a) PROVE <1>1!1
    <3>1. [call EXCEPT ![a] = [pc |-> "calls", leads |-> TRUE]] \in [Asker -> Call]
      BY <1>0 DEF CallPc
    <3>2. call' \in [Asker -> Call]
      BY <2>1, <2>a, <2>5, <3>1 DEF Elect
    <3>. QED
      BY <1>0, <2>0, <2>5, <3>2 DEF Elect
  <2>6. ASSUME NEW a \in Asker, Poll(a) \/ PollIsOver(a) \/ Ask(a) \/ Unlock(a) \/ Share(a) PROVE <1>1!1
    <3>1. call' \in [Asker -> Call]
      BY <2>1, <2>a, <2>6 DEF Poll, PollIsOver, Ask, Unlock, Share
    <3>2. item' \in [Node -> {"none", "fresh", "stale"}]
      BY <1>0, <2>6 DEF Poll, PollIsOver, Ask, Unlock, Share
    <3>3. guard' \in Asker \union {NoOne} /\ flight' \in [Node -> BOOLEAN]
      BY <1>0, <2>6 DEF Poll, PollIsOver, Ask, Unlock, Share
    <3>4. shared' \in BOOLEAN
      BY <1>0, <2>6 DEF Poll, PollIsOver, Ask, Unlock, Share
    <3>. QED
      BY <1>0, <2>0, <3>1, <3>2, <3>3, <3>4
  <2>7. ASSUME NEW a \in Asker, Land(a) PROVE <1>1!1
    <3>1. CASE a = Refresher(NodeOf(a))
      BY <1>0, <2>0, <2>2, <2>7, <3>1 DEF Land
    <3>2. CASE a # Refresher(NodeOf(a))
      <4>1. call' \in [Asker -> Call]
        BY <1>0, <2>7, <3>2 DEF Land, CallPc
      <4>. QED
        BY <1>0, <2>0, <2>7, <3>2, <4>1 DEF Land
    <3>. QED
      BY <3>1, <3>2
  <2>8. ASSUME NEW n \in Node, ServeStale(n) \/ Expire(n) \/ Evict(n) PROVE <1>1!1
    <3>1. call' \in [Asker -> Call]
      BY <1>0, <2>1, <2>a, <2>8, AskerFacts DEF ServeStale, Expire, Evict
    <3>2. item' \in [Node -> {"none", "fresh", "stale"}]
      BY <1>0, <2>8 DEF ServeStale, Expire, Evict
    <3>. QED
      BY <1>0, <2>0, <2>8, <3>1, <3>2 DEF ServeStale, Expire, Evict
  <2>9. CASE SharedExpires \/ GuardLapses
    BY <1>0, <2>0, <2>9 DEF SharedExpires, GuardLapses
  <2>. QED
    BY <1>4, <2>3, <2>4, <2>5, <2>6, <2>7, <2>8, <2>9 DEF CacheNext, CacheStep
<1>. QED
  BY <1>2, <1>3, <1>4, CacheCases

LEMMA CacheTypesHold == Spec => []CacheTypes
BY CacheTypesInit, CacheTypesStep, PTL DEF Spec

(* What a step does to the place of one caller, and of the others. *)
LEMMA GoesPc ==
    ASSUME CacheTypes, NEW a \in Asker, NEW pc, Goes(a, pc)
    PROVE  /\ call'[a].pc = pc /\ call'[a].leads = call[a].leads
           /\ \A b \in Asker : b # a => call'[b] = call[b]
BY DEF CacheTypes, CacheTypeOK, Goes

LEMMA ReturnsPc ==
    ASSUME CacheTypes, NEW a \in Asker, Returns(a)
    PROVE  /\ call'[a].pc = "out" /\ call'[a].leads = FALSE
           /\ \A b \in Asker : b # a => call'[b] = call[b]
BY DEF CacheTypes, CacheTypeOK, Returns, NoCall

-----------------------------------------------------------------------------
(* Flights.  A refresh has no flight, and so must not get to the place where
   one is joined. *)

FlightInv ==
    /\ EveryFlightIsLed
    /\ \A n \in Node : call[Refresher(n)].pc \notin {"again", "missed"}

Led == {"elect", "polls"} \union Asking

LEMMA FlightInit == Init => FlightInv
BY AskerFacts DEF Init, CacheInit, FlightInv, EveryFlightIsLed, IsLeader, Asking, At, NoCall

LEMMA LookUpIsNoRefresh ==
    ASSUME CacheTypes, NEW a \in Asker, LookUp(a), NEW n \in Node
    PROVE  a # Refresher(n)
<1>1. a \in Node \X Caller /\ "refresh" \notin Caller
  BY CacheAssumption DEF CacheAssumption, CacheTypes, LookUp
<1>. QED
  BY <1>1 DEF Refresher

(* Nothing happens to a flight when a caller moves among the places of a leader
   or among the others, and begins no wait. *)
LEMMA MoveKeepsFlights ==
    ASSUME CacheTypes, FlightInv, flight' = flight, NEW a \in Asker,
           \A b \in Asker : b # a => call'[b] = call[b],
           (call'[a].pc \in Led <=> call[a].pc \in Led) \/ a = Refresher(NodeOf(a)),
           call'[a].pc # "waits",
           \A n \in Node : a = Refresher(n) => call'[a].pc \notin {"again", "missed"}
    PROVE  FlightInv'
<1>1. ASSUME NEW b \in Asker, NEW n \in Node PROVE IsLeader(b, n)' <=> IsLeader(b, n)
  BY <1>1, AskerFacts DEF IsLeader, Led, Asking
<1>2. \A b \in Asker : call'[b].pc = "waits" => call[b].pc = "waits"
  OBVIOUS
<1>3. EveryFlightIsLed'
  BY <1>1, <1>2 DEF FlightInv, EveryFlightIsLed, At
<1>4. \A n \in Node : call'[Refresher(n)].pc \notin {"again", "missed"}
  BY AskerFacts DEF FlightInv
<1>. QED
  BY <1>3, <1>4 DEF FlightInv

LEMMA FlightStep == CacheTypes /\ FlightInv /\ [Next]_vars => FlightInv'
<1> SUFFICES ASSUME CacheTypes, FlightInv, [Next]_vars PROVE FlightInv'
  OBVIOUS
<1>1. CASE UNCHANGED <<flight, call>>
  BY <1>1 DEF FlightInv, EveryFlightIsLed, IsLeader, At
<1>2. ASSUME NEW n \in Node, CacheDies(n) PROVE FlightInv'
  <2>1. \A b \in Asker : call'[b] = IF NodeOf(b) = n THEN NoCall ELSE call[b]
    BY <1>2 DEF CacheDies
  <2>2. \A m \in Node : flight'[m] = IF m = n THEN FALSE ELSE flight[m]
    BY <1>2 DEF CacheDies, CacheTypes, CacheTypeOK
  <2>3. ASSUME NEW m \in Node, NEW b \in Asker PROVE IsLeader(b, m)' <=> m # n /\ IsLeader(b, m)
    BY <2>1 DEF IsLeader, NoCall, Asking
  <2>4. ASSUME NEW b \in Asker, call'[b].pc = "waits" PROVE NodeOf(b) # n /\ call[b].pc = "waits"
    BY <2>1, <2>4 DEF NoCall
  <2>5. EveryFlightIsLed'
    BY <2>2, <2>3, <2>4 DEF FlightInv, EveryFlightIsLed, At
  <2>6. \A m \in Node : call'[Refresher(m)].pc \notin {"again", "missed"}
    BY <2>1, AskerFacts DEF FlightInv, NoCall
  <2>. QED
    BY <2>5, <2>6 DEF FlightInv
<1>3. ASSUME NEW a \in Asker, LookUp(a) PROVE FlightInv'
  <2>1. PICK pc \in {"again", "missed"} : Goes(a, pc)
    BY <1>3 DEF LookUp
  <2>. QED
    BY <1>3, <2>1, GoesPc, LookUpIsNoRefresh, MoveKeepsFlights DEF LookUp, At, Led, Asking
<1>4. ASSUME NEW a \in Asker, LookAgain(a) \/ Wake(a) \/ WaitIsOver(a) \/ AskAlone(a) PROVE FlightInv'
  <2>1. call[a].pc \notin Led /\ flight' = flight
    BY <1>4 DEF LookAgain, Wake, WaitIsOver, AskAlone, At, Led, Asking
  <2>2. Returns(a) \/ Goes(a, "woken") \/ Goes(a, "alone") \/ (call[a].pc = "again" /\ Goes(a, "missed"))
    BY <1>4 DEF LookAgain, Wake, WaitIsOver, AskAlone, At
  <2>3. \A n \in Node : a = Refresher(n) => call[a].pc # "again"
    BY DEF FlightInv
  <2>4. /\ call'[a].pc \in {"out", "woken", "alone", "missed"}
        /\ \A b \in Asker : b # a => call'[b] = call[b]
        /\ \A n \in Node : a = Refresher(n) => call'[a].pc # "missed"
    <3>1. CASE Returns(a)
      BY <3>1, ReturnsPc
    <3>2. CASE Goes(a, "woken") \/ Goes(a, "alone")
      <4>1. PICK pc \in {"woken", "alone"} : Goes(a, pc)
        BY <3>2
      <4>. QED
        BY <4>1, GoesPc
    <3>3. CASE call[a].pc = "again" /\ Goes(a, "missed")
      BY <2>3, <3>3, GoesPc
    <3>. QED
      BY <2>2, <3>1, <3>2, <3>3
  <2>5. call'[a].pc \notin Led /\ call'[a].pc \notin {"waits", "again"}
    BY <2>4 DEF Led, Asking
  <2>. QED
    BY <2>1, <2>4, <2>5, MoveKeepsFlights
<1>5. ASSUME NEW a \in Asker, Join(a) PROVE FlightInv'
  <2> DEFINE n == NodeOf(a)
  <2>0. n \in Node /\ call[a].pc = "missed" /\ \A m \in Node : a # Refresher(m)
    BY <1>5, AskerFacts DEF Join, At, FlightInv
  <2>1. CASE Returns(a) /\ flight' = flight
    BY <2>0, <2>1, ReturnsPc, MoveKeepsFlights DEF Led, Asking
  <2>2. CASE flight[n] /\ Goes(a, "waits") /\ flight' = flight
    <3>1. ASSUME NEW b \in Asker, NEW m \in Node PROVE IsLeader(b, m)' <=> IsLeader(b, m)
      BY <2>0, <2>2, GoesPc DEF IsLeader, Asking
    <3>2. \A b \in Asker : call'[b].pc = "waits" => b = a \/ call[b].pc = "waits"
      BY <2>2, GoesPc
    <3>3. EveryFlightIsLed'
      BY <2>2, <3>1, <3>2 DEF FlightInv, EveryFlightIsLed, At
    <3>4. \A m \in Node : call'[Refresher(m)].pc \notin {"again", "missed"}
      BY <2>0, <2>2, GoesPc, AskerFacts DEF FlightInv
    <3>. QED
      BY <3>3, <3>4 DEF FlightInv
  <2>3. CASE ~flight[n] /\ Goes(a, "elect") /\ flight' = [flight EXCEPT ![n] = TRUE]
    <3>1. ASSUME NEW b \in Asker, NEW m \in Node
          PROVE  IsLeader(b, m)' <=> IsLeader(b, m) \/ (b = a /\ m = n)
      BY <2>0, <2>3, GoesPc DEF IsLeader, Asking
    <3>2. \A b \in Asker : ~IsLeader(b, n)
      BY <2>0, <2>3 DEF FlightInv, EveryFlightIsLed
    <3>3. \A b \in Asker : call'[b].pc = "waits" => call[b].pc = "waits"
      BY <2>3, GoesPc
    <3>4. \A m \in Node : flight'[m] = IF m = n THEN TRUE ELSE flight[m]
      BY <2>3 DEF CacheTypes, CacheTypeOK
    <3>5. ASSUME NEW m \in Node
          PROVE  /\ flight'[m] <=> \E b \in Asker : IsLeader(b, m)'
                 /\ \A b, c \in Asker : IsLeader(b, m)' /\ IsLeader(c, m)' => b = c
                 /\ \A b \in Asker : NodeOf(b) = m /\ call'[b].pc = "waits" => flight'[m]
      <4>1. CASE m = n
        BY <3>1, <3>2, <3>4, <4>1
      <4>2. CASE m # n
        BY <3>1, <3>3, <3>4, <4>2 DEF FlightInv, EveryFlightIsLed, At
      <4>. QED
        BY <4>1, <4>2
    <3>7. EveryFlightIsLed'
      BY <3>5 DEF EveryFlightIsLed, At
    <3>6. \A m \in Node : call'[Refresher(m)].pc \notin {"again", "missed"}
      BY <2>0, <2>3, GoesPc, AskerFacts DEF FlightInv
    <3>. QED
      BY <3>6, <3>7 DEF FlightInv
  <2>. QED
    BY <1>5, <2>1, <2>2, <2>3 DEF Join
<1>6. ASSUME NEW a \in Asker, Elect(a) PROVE FlightInv'
  <2>0. call[a].pc = "elect" /\ flight' = flight
    BY <1>6 DEF Elect, At
  <2>1. CASE call' = [call EXCEPT ![a] = [pc |-> "calls", leads |-> TRUE]]
    <3>1. call'[a].pc = "calls" /\ \A b \in Asker : b # a => call'[b] = call[b]
      BY <2>1 DEF CacheTypes, CacheTypeOK
    <3>. QED
      BY <2>0, <3>1, MoveKeepsFlights DEF Led, Asking
  <2>2. CASE Goes(a, "calls") \/ Goes(a, "lands") \/ Goes(a, "polls")
    BY <2>0, <2>2, GoesPc, MoveKeepsFlights DEF Led, Asking
  <2>. QED
    BY <1>6, <2>1, <2>2 DEF Elect
<1>7. ASSUME NEW a \in Asker, Poll(a) \/ PollIsOver(a) \/ Ask(a) \/ Share(a) \/ Unlock(a)
      PROVE FlightInv'
  <2>1. call[a].pc \in Led /\ flight' = flight
    BY <1>7 DEF Poll, PollIsOver, Ask, Share, Unlock, At, Led, Asking
  <2>2. PICK pc \in Asking : Goes(a, pc)
    BY <1>7 DEF Poll, PollIsOver, Ask, Share, Unlock, Asking
  <2>. QED
    BY <2>1, <2>2, GoesPc, MoveKeepsFlights DEF Led, Asking
<1>8. ASSUME NEW a \in Asker, Land(a) PROVE FlightInv'
  <2> DEFINE n == NodeOf(a)
  <2>0. n \in Node /\ call[a].pc = "lands"
    BY <1>8, AskerFacts DEF Land, At
  <2>1. CASE a = Refresher(n)
    BY <1>8, <2>0, <2>1, ReturnsPc, MoveKeepsFlights DEF Land
  <2>2. CASE a # Refresher(n)
    <3>1. \A b \in Asker : b # a /\ ~(call[b].pc = "waits" /\ NodeOf(b) = n) => call'[b] = call[b]
      BY <1>8, <2>2 DEF Land, At
    <3>2. \A b \in Asker : b # a /\ call[b].pc = "waits" /\ NodeOf(b) = n => call'[b].pc = "woken"
      BY <1>8, <2>2 DEF Land, At, CacheTypes, CacheTypeOK
    <3>3. call'[a].pc = "out"
      BY <1>8, <2>2 DEF Land, NoCall
    <3>4. \A m \in Node : flight'[m] = IF m = n THEN FALSE ELSE flight[m]
      BY <1>8, <2>2 DEF Land, CacheTypes, CacheTypeOK
    <3>5. IsLeader(a, n)
      BY <2>0, <2>2 DEF IsLeader, Asking
    <3>6. \A b \in Asker : IsLeader(b, n) => b = a
      BY <2>0, <3>5 DEF FlightInv, EveryFlightIsLed
    <3>7. ASSUME NEW b \in Asker, NEW m \in Node PROVE IsLeader(b, m)' <=> m # n /\ IsLeader(b, m)
      <4>1. CASE b = a
        BY <3>3, <4>1 DEF IsLeader, Asking
      <4>2. CASE b # a /\ call[b].pc = "waits" /\ NodeOf(b) = n
        BY <3>2, <4>2 DEF IsLeader, Asking
      <4>3. CASE b # a /\ ~(call[b].pc = "waits" /\ NodeOf(b) = n)
        BY <3>1, <3>6, <4>3 DEF IsLeader
      <4>. QED
        BY <4>1, <4>2, <4>3
    <3>8. \A b \in Asker : call'[b].pc = "waits" => call[b].pc = "waits" /\ NodeOf(b) # n
      BY <3>1, <3>2, <3>3
    <3>9. EveryFlightIsLed'
      BY <3>4, <3>7, <3>8 DEF FlightInv, EveryFlightIsLed, At
    <3>10. \A m \in Node : call'[Refresher(m)].pc \notin {"again", "missed"}
      BY <3>1, <3>2, <3>3, AskerFacts DEF FlightInv
    <3>. QED
      BY <3>9, <3>10 DEF FlightInv
  <2>. QED
    BY <2>1, <2>2
<1>9. ASSUME NEW n \in Node, ServeStale(n) PROVE FlightInv'
  <2>1. Goes(Refresher(n), "elect") /\ flight' = flight /\ Refresher(n) \in Asker
        /\ NodeOf(Refresher(n)) = n
    BY <1>9, AskerFacts DEF ServeStale
  <2>. QED
    BY <2>1, GoesPc, MoveKeepsFlights
<1>10. CASE CacheNext
  <2>1. CASE \E n \in Node : Expire(n) \/ Evict(n)
    BY <1>1, <2>1 DEF Expire, Evict
  <2>2. CASE SharedExpires \/ GuardLapses
    BY <1>1, <2>2 DEF SharedExpires, GuardLapses
  <2>. QED
    BY <1>3, <1>4, <1>5, <1>6, <1>7, <1>8, <1>9, <1>10, <2>1, <2>2 DEF CacheNext, CacheStep
<1>. QED
  BY <1>1, <1>2, <1>10, CacheCases DEF cacheVars

-----------------------------------------------------------------------------
(* The lock of the key.  In a calm deployment whoever asks made the lock that is
   there, and whoever polls finds a lock or a value. *)

Holding == {"calls", "shares", "unlocks"}

GuardInv ==
    IsCalm =>
        \A a \in Asker :
            /\ guard = a => call[a].leads /\ call[a].pc \in Holding
            /\ call[a].pc \in Holding => guard = a
            /\ call[a].pc = "unlocks" => shared
            /\ call[a].pc = "polls" => guard # NoOne \/ shared

LEMMA GuardInit == Init => GuardInv
BY AskerFacts DEF Init, CacheInit, GuardInv, NoCall, Holding

(* Callers that neither ask nor poll may move among themselves. *)
LEMMA MoveKeepsGuard ==
    ASSUME CacheTypes, IsCalm, GuardInv, guard' = guard, shared' = shared, NEW a \in Asker,
           \A b \in Asker : b # a => call'[b] = call[b] \/ call'[b].pc = "woken",
           call[a].pc \notin Holding, call'[a].pc \notin Holding,
           call'[a].pc = "polls" => guard # NoOne,
           \A b \in Asker : b # a /\ call[b].pc \in Holding => call'[b] = call[b]
    PROVE  GuardInv'
<1>1. ASSUME NEW b \in Asker
      PROVE  /\ guard = b => call'[b].leads /\ call'[b].pc \in Holding
             /\ call'[b].pc \in Holding => guard = b
             /\ call'[b].pc = "unlocks" => shared
             /\ call'[b].pc = "polls" => guard # NoOne \/ shared
  <2>1. CASE b = a
    BY <2>1 DEF GuardInv, Holding
  <2>2. CASE b # a
    BY <2>2 DEF GuardInv, Holding
  <2>. QED
    BY <2>1, <2>2
<1>. QED
  BY <1>1 DEF GuardInv

LEMMA GuardStep == CacheTypes /\ GuardInv /\ [Next]_vars => GuardInv'
<1> SUFFICES ASSUME CacheTypes, GuardInv, [Next]_vars, IsCalm' PROVE GuardInv'
  BY DEF GuardInv
<1>1. CASE UNCHANGED <<env, crashes, cacheVars>>
  BY <1>1 DEF cacheVars, GuardInv, IsCalm
<1>2. ASSUME NEW n \in Node, Dies(n) PROVE FALSE
  BY <1>2 DEF Dies, IsCalm, CacheTypes
<1>3. CASE CacheNext
  <2>0. IsCalm /\ Answers = {TRUE}
    BY <1>3 DEF CacheNext, processVars, IsCalm, Answers
  <2>a. guard \in Asker \union {NoOne}
    BY DEF CacheTypes, CacheTypeOK
  <2>b. guard # NoOne => IsGuarded
    BY <2>0, <2>a DEF GuardInv, IsGuarded
  <2>1. ASSUME NEW a \in Asker, LookUp(a) \/ LookAgain(a) \/ WaitIsOver(a) \/ Wake(a) \/ AskAlone(a) \/ Join(a)
        PROVE GuardInv'
    <3>1. call[a].pc \notin Holding /\ guard' = guard /\ shared' = shared
      BY <2>1 DEF LookUp, LookAgain, WaitIsOver, Wake, AskAlone, Join, At, Holding
    <3>2. Returns(a) \/ \E pc \in {"again", "missed", "woken", "alone", "waits", "elect"} : Goes(a, pc)
      BY <2>1 DEF LookUp, LookAgain, WaitIsOver, Wake, AskAlone, Join
    <3>3. CASE Returns(a)
      BY <2>0, <3>1, <3>3, ReturnsPc, MoveKeepsGuard DEF Holding
    <3>4. ASSUME NEW pc \in {"again", "missed", "woken", "alone", "waits", "elect"}, Goes(a, pc)
          PROVE GuardInv'
      BY <2>0, <3>1, <3>4, GoesPc, MoveKeepsGuard DEF Holding
    <3>. QED
      BY <3>2, <3>3, <3>4
  <2>2. ASSUME NEW a \in Asker, Elect(a) PROVE GuardInv'
    <3>0. call[a].pc = "elect" /\ shared' = shared
      BY <2>2 DEF Elect, At
    <3>1. CASE guard = NoOne /\ guard' = a /\ call' = [call EXCEPT ![a] = [pc |-> "calls", leads |-> TRUE]]
      <4>1. call'[a] = [pc |-> "calls", leads |-> TRUE] /\ \A b \in Asker : b # a => call'[b] = call[b]
        BY <3>1 DEF CacheTypes, CacheTypeOK
      <4>2. ASSUME NEW b \in Asker
            PROVE  /\ guard' = b => call'[b].leads /\ call'[b].pc \in Holding
                   /\ call'[b].pc \in Holding => guard' = b
                   /\ call'[b].pc = "unlocks" => shared'
                   /\ call'[b].pc = "polls" => guard' # NoOne \/ shared'
        BY <2>0, <3>0, <3>1, <4>1, AskerFacts DEF GuardInv, Holding
      <4>. QED
        BY <4>2 DEF GuardInv
    <3>2. CASE guard # NoOne /\ guard' = guard /\ (Goes(a, "lands") \/ Goes(a, "polls"))
      <4>1. PICK pc \in {"lands", "polls"} : Goes(a, pc)
        BY <3>2
      <4>. QED
        BY <2>0, <3>0, <3>2, <4>1, GoesPc, MoveKeepsGuard DEF Holding
    <3>. QED
      BY <2>0, <2>2, <3>1, <3>2 DEF Elect
  <2>3. ASSUME NEW a \in Asker, Poll(a) PROVE GuardInv'
    BY <2>0, <2>3, GoesPc, MoveKeepsGuard DEF Poll, At, Holding
  <2>4. ASSUME NEW a \in Asker, PollIsOver(a) PROVE FALSE
    <3>1. ~IsGuarded /\ ~shared /\ call[a].pc = "polls"
      BY <2>0, <2>4 DEF PollIsOver, FindsFresh, At, IsCalm
    <3>. QED
      BY <2>0, <2>b, <3>1 DEF GuardInv
  <2>5. ASSUME NEW a \in Asker, Ask(a) \/ Share(a) PROVE GuardInv'
    <3>1. /\ call[a].pc \in Holding /\ guard' = guard
          /\ \/ Goes(a, "shares") /\ shared' = shared
             \/ Goes(a, "unlocks") /\ shared' = TRUE
      <4>1. CASE Ask(a)
        BY <2>0, <4>1 DEF Ask, At, Holding, IsCalm
      <4>2. CASE Share(a)
        BY <2>0, <4>2 DEF Share, At, Holding
      <4>. QED
        BY <2>5, <4>1, <4>2
    <3>2. /\ call'[a].pc \in {"shares", "unlocks"} /\ call'[a].leads = call[a].leads
          /\ call'[a].pc = "unlocks" => shared'
          /\ \A b \in Asker : b # a => call'[b] = call[b]
      BY <3>1, GoesPc
    <3>3. shared => shared'
      BY <3>1
    <3>4. ASSUME NEW b \in Asker
          PROVE  /\ guard' = b => call'[b].leads /\ call'[b].pc \in Holding
                 /\ call'[b].pc \in Holding => guard' = b
                 /\ call'[b].pc = "unlocks" => shared'
                 /\ call'[b].pc = "polls" => guard' # NoOne \/ shared'
      BY <2>0, <3>1, <3>2, <3>3 DEF GuardInv, Holding
    <3>. QED
      BY <3>4 DEF GuardInv
  <2>6. ASSUME NEW a \in Asker, Unlock(a) PROVE GuardInv'
    <3>1. call[a].pc = "unlocks" /\ guard = a /\ call[a].leads /\ shared /\ shared' = shared
      BY <2>0, <2>6 DEF Unlock, At, GuardInv, Holding
    <3>2. guard' = NoOne /\ Goes(a, "lands")
      BY <2>0, <2>6, <3>1 DEF Unlock
    <3>3. ASSUME NEW b \in Asker
          PROVE  /\ guard' = b => call'[b].leads /\ call'[b].pc \in Holding
                 /\ call'[b].pc \in Holding => guard' = b
                 /\ call'[b].pc = "unlocks" => shared'
                 /\ call'[b].pc = "polls" => guard' # NoOne \/ shared'
      BY <2>0, <3>1, <3>2, GoesPc, AskerFacts DEF GuardInv, Holding
    <3>. QED
      BY <3>3 DEF GuardInv
  <2>7. ASSUME NEW a \in Asker, Land(a) PROVE GuardInv'
    <3>1. call[a].pc = "lands" /\ guard' = guard /\ shared' = shared
      BY <2>7 DEF Land, At
    <3>2. CASE a = Refresher(NodeOf(a))
      BY <2>0, <2>7, <3>1, <3>2, ReturnsPc, MoveKeepsGuard DEF Land, Holding
    <3>3. CASE a # Refresher(NodeOf(a))
      <4>1. call'[a].pc = "out"
        BY <2>7, <3>3 DEF Land, NoCall
      <4>2. \A b \in Asker : b # a => call'[b] = call[b]
                \/ (call[b].pc = "waits" /\ call'[b].pc = "woken")
        BY <2>7, <3>3 DEF Land, At, CacheTypes, CacheTypeOK
      <4>. QED
        BY <2>0, <3>1, <4>1, <4>2, MoveKeepsGuard DEF Holding
    <3>. QED
      BY <3>2, <3>3
  <2>8. ASSUME NEW n \in Node, ServeStale(n) PROVE GuardInv'
    BY <2>0, <2>8, GoesPc, AskerFacts, MoveKeepsGuard DEF ServeStale, At, Holding
  <2>9. ASSUME NEW n \in Node, Expire(n) \/ Evict(n) PROVE GuardInv'
    BY <2>0, <2>9 DEF Expire, Evict, GuardInv
  <2>10. CASE SharedExpires
    BY <2>0, <2>10 DEF SharedExpires, GuardInv, IsCalm, IsLookedFor
  <2>11. CASE GuardLapses
    BY <2>0, <2>b, <2>11 DEF GuardLapses, IsCalm
  <2>. QED
    BY <1>3, <2>1, <2>2, <2>3, <2>4, <2>5, <2>6, <2>7, <2>8, <2>9, <2>10, <2>11 DEF CacheNext, CacheStep
<1>. QED
  BY <1>1, <1>2, <1>3, CacheCases

(* For any number of processes and callers: whoever waits for a flight has
   someone who will land it, and with Redis, when nothing fails and values
   outlive the waits, the source is asked by one at a time. *)
THEOREM CachePromiseHolds == Spec => []CachePromise
<1>1. Spec => []FlightInv
  BY CacheTypesHold, FlightInit, FlightStep, PTL DEF Spec
<1>2. Spec => []GuardInv
  BY CacheTypesHold, GuardInit, GuardStep, PTL DEF Spec
<1>3. FlightInv /\ GuardInv => CachePromise
  BY DEF FlightInv, GuardInv, CachePromise, OneAsksAtATime, At, Holding
<1>. QED
  BY <1>1, <1>2, <1>3, PTL

-----------------------------------------------------------------------------
(* The connection pool. *)

LEMMA PoolCases ==
    [Next]_vars => \/ PoolNext
                   \/ UNCHANGED <<env, poolVars>>
                   \/ \E n \in Node : env' = env /\ PoolDies(n)
<1> SUFFICES ASSUME [Next]_vars, ~PoolNext
             PROVE  \/ UNCHANGED <<env, poolVars>>
                    \/ \E n \in Node : env' = env /\ PoolDies(n)
  OBVIOUS
<1>1. CASE StartNext
  BY <1>1 DEF StartNext, Start, ListQueued, Requeue, Requeued, processVars
<1>2. CASE ScanNext \/ OutboxNext \/ ObservationNext \/ TimeNext
  BY <1>2 DEF ScanNext, OutboxNext, ObservationNext, TimeNext, processVars
<1>3. CASE ReviewNext \/ AutoNext \/ TradingNext \/ CacheNext
  BY <1>3 DEF ReviewNext, AutoNext, TradingNext, CacheNext, processVars
<1>4. ASSUME NEW n \in Node, Crash(n) PROVE \E m \in Node : env' = env /\ PoolDies(m)
  BY <1>4 DEF Crash, Dies
<1>5. CASE UNCHANGED vars
  BY <1>5 DEF vars, processVars
<1>. QED
  BY <1>1, <1>2, <1>3, <1>4, <1>5 DEF Next

LEMMA PoolStarts == Init => PoolTypeOK /\ PoolIsSound
<1> SUFFICES ASSUME Init PROVE PoolTypeOK /\ PoolIsSound
  OBVIOUS
<1>1. idle = <<>> /\ connections = 0 /\ client = [c \in Client |-> "out"]
  BY DEF Init, PoolInit
<1>2. InHand = {}
  BY <1>1 DEF InHand
<1>3. Cardinality(InHand) = 0
  BY <1>2, FS_EmptySet
<1>. QED
  BY <1>1, <1>3, PoolAssumption DEF PoolAssumption, PoolTypeOK, PoolIsSound

PlaceInHand == {"uses", "closes", "drops", "dropsFirst"}

LEMMA HandIsFinite == IsFiniteSet(InHand) /\ Cardinality(InHand) \in Nat
<1>1. InHand \subseteq Client
  BY DEF InHand
<1>. QED
  BY <1>1, FS_Subset, FS_CardinalityType, PoolAssumption DEF PoolAssumption

(* How the number of connections in hand changes when one client moves. *)
LEMMA MoveChangesHand ==
    ASSUME PoolTypeOK, NEW c \in Client, NEW to, Moves(c, to)
    PROVE  /\ (client[c] \in PlaceInHand) = (to \in PlaceInHand)
                  => Cardinality(InHand)' = Cardinality(InHand)
           /\ client[c] \notin PlaceInHand /\ to \in PlaceInHand
                  => Cardinality(InHand)' = Cardinality(InHand) + 1
           /\ client[c] \in PlaceInHand /\ to \notin PlaceInHand
                  => Cardinality(InHand)' = Cardinality(InHand) - 1 /\ Cardinality(InHand) > 0
<1>1. client' = [client EXCEPT ![c] = to] /\ DOMAIN client = Client
  BY DEF Moves, PoolTypeOK
<1>2. InHand' = IF to \in PlaceInHand THEN InHand \union {c} ELSE InHand \ {c}
  BY <1>1 DEF InHand, PlaceInHand
<1>3. c \in InHand <=> client[c] \in PlaceInHand
  BY DEF InHand, PlaceInHand
<1>4. CASE (client[c] \in PlaceInHand) = (to \in PlaceInHand)
  <2>1. InHand' = InHand
    BY <1>2, <1>3, <1>4
  <2>. QED
    BY <1>4, <2>1
<1>5. CASE client[c] \notin PlaceInHand /\ to \in PlaceInHand
  <2>1. InHand' = InHand \union {c} /\ c \notin InHand
    BY <1>2, <1>3, <1>5
  <2>2. Cardinality(InHand \union {c}) = Cardinality(InHand) + 1
    BY <2>1, HandIsFinite, FS_AddElement
  <2>. QED
    BY <1>5, <2>1, <2>2
<1>6. CASE client[c] \in PlaceInHand /\ to \notin PlaceInHand
  <2>1. InHand' = InHand \ {c} /\ c \in InHand
    BY <1>2, <1>3, <1>6
  <2>2. Cardinality(InHand \ {c}) = Cardinality(InHand) - 1
    BY <2>1, HandIsFinite, FS_RemoveElement
  <2>3. Cardinality(InHand) # 0
    BY <2>1, HandIsFinite, FS_EmptySet
  <2>. QED
    BY <1>6, <2>1, <2>2, <2>3, HandIsFinite
<1>. QED
  BY <1>4, <1>5, <1>6

(* Taking, creating, closing and releasing keep the books. *)
LEMMA PoolStepKeeps == PoolTypeOK /\ PoolIsSound /\ [Next]_vars => (PoolTypeOK /\ PoolIsSound)'
<1> SUFFICES ASSUME PoolTypeOK, PoolIsSound, [Next]_vars PROVE (PoolTypeOK /\ PoolIsSound)'
  OBVIOUS
<1> DEFINE Conn == {"open", "closed"}
           h == Cardinality(InHand)
           Place == {"out", "asks", "dropsFirst", "empty", "waits", "drops", "uses", "closes"}
<1>0. /\ idle \in Seq(Conn) /\ Len(idle) \in Nat /\ Len(idle) <= PoolSize
      /\ connections \in Nat /\ connections <= PoolSize /\ PoolSize \in Nat \ {0}
      /\ client \in [Client -> Place]
      /\ h \in Nat /\ Len(idle) + h <= connections
      /\ ~env.unreachable => connections = Len(idle) + h
  BY HandIsFinite, PoolAssumption DEF PoolTypeOK, PoolIsSound, PoolAssumption
<1>1. CASE UNCHANGED <<env, poolVars>>
  BY <1>1 DEF poolVars, PoolTypeOK, PoolIsSound, InHand
<1>2. ASSUME NEW n \in Node, env' = env, PoolDies(n) PROVE (PoolTypeOK /\ PoolIsSound)'
  <2>1. CASE n = Home
    <3>1. idle' = <<>> /\ connections' = 0 /\ client' = [c \in Client |-> "out"]
      BY <1>2, <2>1 DEF PoolDies
    <3>2. InHand' = {}
      BY <3>1 DEF InHand
    <3>3. Cardinality(InHand)' = 0
      BY <3>2, FS_EmptySet
    <3>. QED
      BY <1>0, <3>1, <3>3 DEF PoolTypeOK, PoolIsSound
  <2>2. CASE n # Home
    BY <1>1, <1>2, <2>2 DEF PoolDies
  <2>. QED
    BY <2>1, <2>2
<1>3. CASE PoolNext
  <2>0. env' = env
    BY <1>3 DEF PoolNext, processVars
  <2>1. SUFFICES /\ idle' \in Seq(Conn) /\ connections' \in Nat /\ connections' <= PoolSize
                 /\ client' \in [Client -> Place]
                 /\ Len(idle') + Cardinality(InHand)' <= connections'
                 /\ ~env.unreachable => connections' = Len(idle') + Cardinality(InHand)'
    <3>1. Len(idle') \in Nat /\ Cardinality(InHand)' \in Nat
      <4>1. InHand' \subseteq Client
        BY DEF InHand
      <4>2. Cardinality(InHand') \in Nat
        BY <4>1, FS_Subset, FS_CardinalityType, PoolAssumption DEF PoolAssumption
      <4>. QED
        BY <2>1, <4>2
    <3>. QED
      BY <1>0, <2>0, <2>1, <3>1 DEF PoolTypeOK, PoolIsSound
  <2>a. ASSUME NEW c \in Client, NEW to \in Place, Moves(c, to) PROVE client' \in [Client -> Place]
    BY <1>0, <2>a DEF Moves
  <2>2. ASSUME NEW c \in Client, NEW toDrop \in {"drops", "dropsFirst"}, client[c] \notin PlaceInHand,
               idle # <<>>, Receives(c, toDrop), connections' = connections
        PROVE <2>1!1
    <3>1. PICK to \in {"uses", toDrop} : Moves(c, to)
      BY <2>2 DEF Receives
    <3>2. Cardinality(InHand)' = h + 1
      BY <2>2, <3>1, MoveChangesHand DEF PlaceInHand
    <3>3. idle' = Tail(idle) /\ Len(idle') = Len(idle) - 1 /\ idle' \in Seq(Conn)
      BY <1>0, <2>2 DEF Receives
    <3>4. client' \in [Client -> Place]
      BY <2>2, <2>a, <3>1
    <3>5. connections' = connections
      BY <2>2
    <3>6. Len(idle') + Cardinality(InHand)' = Len(idle) + h
      BY <1>0, <3>2, <3>3
    <3>. QED
      BY <1>0, <3>3, <3>4, <3>5, <3>6
  <2>3. ASSUME NEW c \in Client, TakeIdle(c) PROVE <2>1!1
    <3>1. client[c] \in {"out", "asks"} /\ connections' = connections
      BY <2>3 DEF TakeIdle
    <3>2. CASE idle = <<>> /\ Moves(c, "empty") /\ idle' = idle
      BY <1>0, <2>a, <3>1, <3>2, MoveChangesHand DEF PlaceInHand
    <3>3. CASE idle # <<>> /\ Receives(c, "dropsFirst")
      BY <2>2, <3>1, <3>3 DEF PlaceInHand
    <3>. QED
      BY <2>3, <3>2, <3>3 DEF TakeIdle
  <2>4. ASSUME NEW c \in Client, DropClosed(c) \/ Close(c) PROVE <2>1!1
    <3>1. PICK to \in {"empty", "asks", "out"} : Moves(c, to)
      BY <2>4 DEF DropClosed, Close
    <3>2. client[c] \in PlaceInHand /\ Forgets /\ idle' = idle
      BY <2>4 DEF DropClosed, Close, PlaceInHand
    <3>3. Cardinality(InHand)' = h - 1 /\ h > 0
      BY <3>1, <3>2, MoveChangesHand DEF PlaceInHand
    <3>4. connections' = connections - 1
      BY <1>0, <3>2, <3>3 DEF Forgets
    <3>. QED
      BY <1>0, <2>a, <3>1, <3>2, <3>3, <3>4
  <2>5. ASSUME NEW c \in Client, Create(c) PROVE <2>1!1
    <3>1. /\ client[c] = "empty" /\ connections < PoolSize /\ connections' = connections + 1
          /\ idle' = idle
      BY <2>5 DEF Create
    <3>2. CASE Moves(c, "uses")
      BY <1>0, <2>a, <3>1, <3>2, MoveChangesHand DEF PlaceInHand
    <3>3. CASE env.unreachable /\ Moves(c, "out")
      BY <1>0, <2>a, <3>1, <3>3, MoveChangesHand DEF PlaceInHand
    <3>. QED
      BY <2>5, <3>2, <3>3 DEF Create
  <2>6. ASSUME NEW c \in Client, Wait(c) \/ WaitTimesOut(c) PROVE <2>1!1
    <3>1. PICK to \in {"waits", "out"} : Moves(c, to)
      BY <2>6 DEF Wait, WaitTimesOut
    <3>2. client[c] \in {"empty", "waits"} /\ idle' = idle /\ connections' = connections
      BY <2>6 DEF Wait, WaitTimesOut
    <3>3. Cardinality(InHand)' = h
      BY <3>1, <3>2, MoveChangesHand DEF PlaceInHand
    <3>4. client' \in [Client -> Place]
      BY <2>a, <3>1
    <3>. QED
      BY <1>0, <3>2, <3>3, <3>4
  <2>7. ASSUME NEW c \in Client, WaitEnds(c) PROVE <2>1!1
    BY <2>2, <2>7 DEF WaitEnds, PlaceInHand
  <2>8. ASSUME NEW c \in Client, Release(c) PROVE <2>1!1
    <3>1. client[c] = "uses" /\ connections' = connections
      BY <2>8 DEF Release
    <3>2. CASE idle' = <<"open">> \o idle /\ Moves(c, "out")
      <4>1. idle' \in Seq(Conn) /\ Len(idle') = Len(idle) + 1
        BY <1>0, <3>2
      <4>2. Cardinality(InHand)' = h - 1
        BY <3>1, <3>2, MoveChangesHand DEF PlaceInHand
      <4>3. client' \in [Client -> Place]
        BY <2>a, <3>2
      <4>. QED
        BY <1>0, <3>1, <4>1, <4>2, <4>3
    <3>3. CASE idle' = idle /\ Moves(c, "closes")
      BY <1>0, <2>a, <3>1, <3>3, MoveChangesHand DEF PlaceInHand
    <3>. QED
      BY <2>8, <3>2, <3>3 DEF Release
  <2>9. CASE IdleBreaks
    <3>1. client' = client /\ connections' = connections
      BY <2>9 DEF IdleBreaks
    <3>2. idle' \in Seq(Conn) /\ Len(idle') = Len(idle)
      BY <1>0, <2>9 DEF IdleBreaks
    <3>3. InHand' = InHand
      BY <3>1 DEF InHand
    <3>. QED
      BY <1>0, <3>1, <3>2, <3>3
  <2>. QED
    BY <1>3, <2>3, <2>4, <2>5, <2>6, <2>7, <2>8, <2>9 DEF PoolNext, PoolStep
<1>. QED
  BY <1>1, <1>2, <1>3, PoolCases

(* For any number of clients and any size of the pool, over deaths of the
   process and broken connections: what is counted is in the pool or in
   somebody's hands. *)
THEOREM PoolIsSoundAlways == Spec => []PoolIsSound
<1>1. Spec => [](PoolTypeOK /\ PoolIsSound)
  BY PoolStarts, PoolStepKeeps, PTL DEF Spec
<1>. QED
  BY <1>1, PTL

-----------------------------------------------------------------------------
(* Scans: the list or the pool, and the threads that take from it. *)

ScanStarts(n) == Start(n) \/ ListQueued(n) \/ Requeue(n) \/ Requeued(n)

ScanStepCases ==
    \/ \E n \in Node : ScanStarts(n)
    \/ env' = env /\ node' = node /\ crashes' = crashes
       /\ \/ \E s \in Scan, who \in {"web"} \union Node : InsertScan(s, who)
          \/ \E s \in Scan : Enqueue(s)
          \/ \E n \in Node, t \in Thread :
                Pop(n, t) \/ ReadScan(n, t) \/ MarkRunning(n, t) \/ FinishScan(n, t)
          \/ RequeueLockLapses
          \/ UNCHANGED scanVars
    \/ \E n \in Node : Dies(n) /\ ScansDie(n)

\* A step of Worker is one of these for the scans.
LEMMA ScanCases == [Next]_vars => ScanStepCases
<1> SUFFICES ASSUME [Next]_vars PROVE ScanStepCases
  OBVIOUS
<1>1. CASE StartNext
  BY <1>1 DEF StartNext, ScanStarts, ScanStepCases
<1>2. CASE ScanNext
  BY <1>2 DEF ScanNext, ScanStep, UserSubmits, processVars, ScanStepCases
<1>3. CASE ObservationNext
  <2>0. Home \in Node /\ \A c : By(c) \in {"web"} \union Node
    BY NodeAssumption DEF NodeAssumption, By
  <2>1. CASE \E c \in Checker : AskForRescan(c)
    BY <1>3, <2>0, <2>1 DEF ObservationNext, AskForRescan, processVars, ScanStepCases
  <2>2. CASE SubmitLoopScan
    BY <1>3, <2>0, <2>2 DEF ObservationNext, SubmitLoopScan, processVars, ScanStepCases
  <2>3. ASSUME ~(\E c \in Checker : AskForRescan(c)), ~SubmitLoopScan PROVE UNCHANGED scanVars
    <3>1. CASE RoundStep
      BY <2>3, <3>1 DEF RoundStep, MarketIsClosed, StartRound, SelectionIsDone, NextSymbol, SendDigest,
                        EndRound, RoundFails
    <3>2. CASE \E c \in Checker : CheckStep(c)
      BY <2>3, <3>2 DEF CheckStep, GetsMaxedOut, PriceIsQuiet, PriceMatches, RememberRescan,
                        RescanIsPending, RescanIsDropped, RescanMatches, CountTrigger
    <3>. QED
      BY <1>3, <3>1, <3>2 DEF ObservationNext
  <2>. QED
    BY <1>3, <2>1, <2>2, <2>3 DEF ObservationNext, processVars, ScanStepCases
<1>4. CASE OutboxNext \/ TimeNext \/ ReviewNext \/ AutoNext \/ TradingNext \/ PoolNext \/ CacheNext
  <2>1. UNCHANGED <<processVars, scanVars>>
    BY <1>4 DEF OutboxNext, TimeNext, ReviewNext, AutoNext, TradingNext, PoolNext, CacheNext
  <2>. QED
    BY <2>1 DEF processVars, ScanStepCases
<1>5. ASSUME NEW n \in Node, Crash(n) PROVE ScanStepCases
  BY <1>5 DEF Crash, ScanStepCases
<1>6. CASE UNCHANGED vars
  BY <1>6 DEF vars, processVars, ScanStepCases
<1>. QED
  BY <1>1, <1>2, <1>3, <1>4, <1>5, <1>6 DEF Next

JobRow == [pc : {"idle", "popped", "read", "running"}, id : 0..MaxScan]

\* What ScanTypeOK says but for the slots, and which threads may have a scan.
ScanTypes ==
    /\ env \in Environment
    /\ node \in [Node -> {"down", "locked", "requeueing", "up"}]
    /\ crashes \in 0..env.crashes
    /\ scan \in [Scan -> {"none", "queued", "running"} \union Ended]
    /\ posting \in [Scan -> {"none", "web"} \union Node]
    /\ queue \in Seq(Scan)
    /\ slots \in Int
    /\ job \in [Node -> [Thread -> JobRow]]
    /\ lock \in Node \union {"none"}
    /\ pending \in [Node -> Seq(Scan)]
    /\ \A n \in Node : node[n] # "down" => n \in env.nodes
    /\ \A n \in Node, t \in Thread :
          job[n][t].pc # "idle" => node[n] # "down" /\ t <= env.threads /\ job[n][t].id \in Scan

LEMMA ScanEnv ==
    ASSUME env \in Environment
    PROVE  /\ env.redis \in BOOLEAN /\ env.faults \in BOOLEAN /\ env.crashes \in Nat
           /\ env.threads \in Nat /\ env.nodes \subseteq Node
           /\ ~env.redis => env.nodes \subseteq {Home}
           /\ MaxScan \in Nat /\ MaxThread \in Nat /\ SlotLimit \in Nat
BY NodeAssumption, ScanAssumption DEF NodeAssumption, ScanAssumption

LEMMA JobTurns ==
    ASSUME NEW j \in JobRow, NEW pc \in {"idle", "popped", "read", "running"}
    PROVE  [j EXCEPT !.pc = pc] = [pc |-> pc, id |-> j.id] /\ [pc |-> pc, id |-> j.id] \in JobRow
BY DEF JobRow

\* What a thread may do: take an id, go on with the scan it has, or let it go.
Turns(n, t, j) ==
    /\ job' \in [Node -> [Thread -> JobRow]] /\ job'[n][t] = j
    /\ \A m \in Node, u \in Thread : <<m, u>> # <<n, t>> => job'[m][u] = job[m][u]

PicksUp(n, t, j) ==
    /\ job[n][t].pc = "idle" /\ node[n] = "up" /\ t <= env.threads
    /\ queue # <<>> /\ j.pc = "popped" /\ j.id = Head(queue)
    /\ queue' = Tail(queue) /\ UNCHANGED <<scan, slots>>

GoesOn(n, t, j) ==
    /\ job[n][t].pc # "idle" /\ j.id = job[n][t].id /\ UNCHANGED <<queue, slots>>
    /\ \/ j.pc = "read" /\ scan[j.id] \in {"queued", "running"} /\ UNCHANGED scan
       \/ job[n][t].pc = "read" /\ j.pc = "running" /\ scan' = [scan EXCEPT ![j.id] = "running"]

LetsGo(n, t, j) ==
    /\ job[n][t].pc # "idle" /\ j.pc = "idle" /\ UNCHANGED queue
    /\ slots' = IF env.redis THEN slots ELSE slots + 1
    /\ \/ UNCHANGED scan
       \/ /\ job[n][t].pc = "running"
          /\ \E end \in Ended : scan' = [scan EXCEPT ![job[n][t].id] = end]

LEMMA ThreadStep ==
    ASSUME ScanTypes, NEW n \in Node, NEW t \in Thread,
           Pop(n, t) \/ ReadScan(n, t) \/ MarkRunning(n, t) \/ FinishScan(n, t)
    PROVE  /\ UNCHANGED <<posting, lock, pending>>
           /\ \E j \in JobRow : Turns(n, t, j) /\ (PicksUp(n, t, j) \/ GoesOn(n, t, j) \/ LetsGo(n, t, j))
<1>0. job \in [Node -> [Thread -> JobRow]] /\ queue \in Seq(Scan) /\ MaxScan \in Nat
  BY ScanEnv DEF ScanTypes
<1>i. Idle \in JobRow /\ Idle.pc = "idle"
  BY <1>0 DEF Idle, JobRow
<1>1. ASSUME NEW j \in JobRow, job' = [job EXCEPT ![n][t] = j] PROVE Turns(n, t, j)
  BY <1>0, <1>1 DEF Turns
<1>2. ASSUME NEW pc \in {"read", "running"}, job' = [job EXCEPT ![n][t].pc = pc]
      PROVE  \E j \in JobRow : j.pc = pc /\ j.id = job[n][t].id /\ Turns(n, t, j)
  <2> DEFINE j == [pc |-> pc, id |-> job[n][t].id]
  <2>1. job[n][t] \in JobRow
    BY <1>0
  <2>2. [job[n][t] EXCEPT !.pc = pc] = j /\ j \in JobRow
    BY <2>1, JobTurns
  <2>3. job' = [job EXCEPT ![n][t] = j]
    BY <1>2, <2>2
  <2>4. Turns(n, t, j)
    BY <1>1, <2>2, <2>3
  <2>. QED
    BY <2>2, <2>4
<1>3. ASSUME Leaves(n, t)
      PROVE  Turns(n, t, Idle) /\ slots' = IF env.redis THEN slots ELSE slots + 1
  BY <1>1, <1>i, <1>3 DEF Leaves, Releases
<1>4. CASE Pop(n, t)
  <2> DEFINE j == [pc |-> "popped", id |-> Head(queue)]
  <2>1. j \in JobRow
    BY <1>0, <1>4 DEF Pop, JobRow, Scan
  <2>2. Turns(n, t, j)
    BY <1>1, <1>4, <2>1 DEF Pop
  <2>3. PicksUp(n, t, j)
    BY <1>4, <1>i DEF Pop, IsUp, PicksUp
  <2>. QED
    BY <1>4, <2>1, <2>2, <2>3 DEF Pop
<1>5. CASE ReadScan(n, t)
  <2>1. CASE Leaves(n, t) /\ UNCHANGED scan
    <3>1. LetsGo(n, t, Idle)
      BY <1>3, <1>5, <1>i, <2>1 DEF ReadScan, LetsGo
    <3>. QED
      BY <1>3, <1>5, <1>i, <2>1, <3>1 DEF ReadScan
  <2>2. CASE /\ job' = [job EXCEPT ![n][t].pc = "read"] /\ UNCHANGED <<scan, slots>>
             /\ scan[job[n][t].id] \in {"queued", "running"}
    <3>1. PICK j \in JobRow : j.pc = "read" /\ j.id = job[n][t].id /\ Turns(n, t, j)
      BY <1>2, <2>2
    <3>2. GoesOn(n, t, j)
      BY <1>5, <2>2, <3>1 DEF ReadScan, GoesOn
    <3>. QED
      BY <1>5, <3>1, <3>2 DEF ReadScan
  <2>. QED
    BY <1>5, <2>1, <2>2 DEF ReadScan
<1>6. CASE MarkRunning(n, t)
  <2>1. CASE Leaves(n, t) /\ UNCHANGED scan
    <3>1. LetsGo(n, t, Idle)
      BY <1>3, <1>6, <1>i, <2>1 DEF MarkRunning, LetsGo
    <3>. QED
      BY <1>3, <1>6, <1>i, <2>1, <3>1 DEF MarkRunning
  <2>2. CASE /\ job' = [job EXCEPT ![n][t].pc = "running"] /\ UNCHANGED slots
             /\ scan' = [scan EXCEPT ![job[n][t].id] = "running"]
    <3>1. PICK j \in JobRow : j.pc = "running" /\ j.id = job[n][t].id /\ Turns(n, t, j)
      BY <1>2, <2>2
    <3>2. GoesOn(n, t, j)
      BY <1>6, <2>2, <3>1 DEF MarkRunning, GoesOn
    <3>. QED
      BY <1>6, <3>1, <3>2 DEF MarkRunning
  <2>. QED
    BY <1>6, <2>1, <2>2 DEF MarkRunning
<1>7. CASE FinishScan(n, t)
  <2>1. LetsGo(n, t, Idle)
    BY <1>3, <1>7, <1>i DEF FinishScan, LetsGo
  <2>. QED
    BY <1>3, <1>7, <1>i, <2>1 DEF FinishScan
<1>. QED
  BY <1>4, <1>5, <1>6, <1>7

LEMMA ScanTypesInit == Init => ScanTypes
<1> SUFFICES ASSUME Init PROVE ScanTypes
  OBVIOUS
<1>1. ProcessInit /\ ScanInit
  BY DEF Init
<1>2. Idle \in JobRow /\ Idle.pc = "idle"
  BY ScanAssumption DEF ScanAssumption, Idle, JobRow
<1>3. env \in Environment /\ crashes \in 0..env.crashes /\ slots \in Int
  BY <1>1, ScanEnv DEF ProcessInit, ScanInit
<1>4. <<>> \in Seq(Scan)
  OBVIOUS
<1>. QED
  BY <1>1, <1>2, <1>3, <1>4 DEF ScanTypes, ProcessInit, ScanInit

LEMMA ScanTypesStep == ScanTypes /\ [Next]_vars => ScanTypes'
<1> SUFFICES ASSUME ScanTypes, [Next]_vars PROVE ScanTypes'
  OBVIOUS
<1>0. ScanTypes!1 /\ ScanTypes!2 /\ ScanTypes!3 /\ ScanTypes!4 /\ ScanTypes!5 /\ ScanTypes!6
      /\ ScanTypes!7 /\ ScanTypes!8 /\ ScanTypes!9 /\ ScanTypes!10 /\ ScanTypes!11 /\ ScanTypes!12
  BY DEF ScanTypes
<1>e. /\ env.redis \in BOOLEAN /\ env.crashes \in Nat /\ env.nodes \subseteq Node
      /\ MaxScan \in Nat /\ SlotLimit \in Nat
  BY <1>0, ScanEnv
<1>i. Idle \in JobRow /\ Idle.pc = "idle"
  BY <1>e DEF Idle, JobRow
<1>1. ASSUME NEW n \in Node, ScanStarts(n) PROVE ScanTypes'
  <2>1. CASE Start(n)
    <3>1. scan' \in [Scan -> {"none", "queued", "running"} \union Ended]
      BY <1>0, <2>1 DEF Start, Ended
    <3>2. lock' \in Node \union {"none"}
      BY <1>0, <2>1 DEF Start
    <3>3. /\ node' \in [Node -> {"down", "locked", "requeueing", "up"}]
          /\ \A m \in Node : node'[m] # "down" => node[m] # "down" \/ m = n
          /\ \A m \in Node : node[m] # "down" => node'[m] # "down"
      BY <1>0, <2>1 DEF Start
    <3>4. n \in env.nodes /\ UNCHANGED <<env, crashes, posting, queue, slots, job, pending>>
      BY <2>1 DEF Start
    <3>. QED
      BY <1>0, <3>1, <3>2, <3>3, <3>4 DEF ScanTypes
  <2>2. CASE ListQueued(n)
    <3>1. [s \in Scan |-> s] \in Seq(Scan)
      BY <1>e DEF Scan
    <3>2. Among([s \in Scan |-> s], Queued) \in Seq(Scan)
      BY <3>1, AmongType
    <3>. QED
      BY <1>0, <2>2, <3>2 DEF ListQueued, ScanTypes
  <2>3. CASE Requeue(n)
    <3>1. pending[n] \in Seq(Scan) /\ pending[n] # <<>>
      BY <1>0, <2>3 DEF Requeue
    <3>2. Head(pending[n]) \in Scan /\ Tail(pending[n]) \in Seq(Scan)
      BY <3>1
    <3>. QED
      BY <1>0, <2>3, <3>2 DEF Requeue, ScanTypes, processVars
  <2>4. CASE Requeued(n)
    BY <1>0, <2>4 DEF Requeued, ScanTypes
  <2>. QED
    BY <1>1, <2>1, <2>2, <2>3, <2>4 DEF ScanStarts
<1>2. ASSUME NEW s \in Scan, NEW who \in {"web"} \union Node, InsertScan(s, who),
             env' = env, node' = node, crashes' = crashes
      PROVE  ScanTypes'
  BY <1>0, <1>2 DEF InsertScan, ScanTypes
<1>3. ASSUME NEW s \in Scan, Enqueue(s), env' = env, node' = node, crashes' = crashes PROVE ScanTypes'
  <2>1. /\ scan' \in [Scan -> {"none", "queued", "running"} \union Ended]
        /\ posting' \in [Scan -> {"none", "web"} \union Node]
        /\ queue' \in Seq(Scan) /\ slots' \in Int
    <3>1. posting' \in [Scan -> {"none", "web"} \union Node]
      BY <1>0, <1>3 DEF Enqueue
    <3>2. scan' = scan \/ scan' = [scan EXCEPT ![s] = "failed"]
      BY <1>3 DEF Enqueue
    <3>3. queue' = queue \/ queue' = Append(queue, s)
      BY <1>3 DEF Enqueue
    <3>4. slots' = slots \/ slots' = slots - 1
      BY <1>3 DEF Enqueue
    <3>5. scan' \in [Scan -> {"none", "queued", "running"} \union Ended]
      BY <1>0, <3>2 DEF Ended
    <3>6. queue' \in Seq(Scan)
      BY <1>0, <3>3
    <3>7. slots' \in Int
      BY <1>0, <3>4
    <3>. QED
      BY <3>1, <3>5, <3>6, <3>7
  <2>. QED
    BY <1>0, <1>3, <2>1 DEF Enqueue, ScanTypes
<1>4. ASSUME NEW n \in Node, NEW t \in Thread, env' = env, node' = node, crashes' = crashes,
             Pop(n, t) \/ ReadScan(n, t) \/ MarkRunning(n, t) \/ FinishScan(n, t)
      PROVE  ScanTypes'
  <2>1. PICK j \in JobRow : Turns(n, t, j) /\ (PicksUp(n, t, j) \/ GoesOn(n, t, j) \/ LetsGo(n, t, j))
    BY <1>4, ThreadStep
  <2>2. UNCHANGED <<posting, lock, pending>>
    BY <1>4, ThreadStep
  <2>3. /\ queue' \in Seq(Scan)
        /\ j.pc # "idle" => node[n] # "down" /\ t <= env.threads /\ j.id \in Scan
    <3>1. CASE PicksUp(n, t, j)
      <4>1. queue \in Seq(Scan) /\ queue # <<>>
        BY <1>0, <3>1 DEF PicksUp
      <4>2. Head(queue) \in Scan /\ Tail(queue) \in Seq(Scan)
        BY <4>1
      <4>. QED
        BY <3>1, <4>2 DEF PicksUp
    <3>2. CASE GoesOn(n, t, j) \/ LetsGo(n, t, j)
      BY <1>0, <3>2 DEF GoesOn, LetsGo
    <3>. QED
      BY <2>1, <3>1, <3>2
  <2>4. scan' \in [Scan -> {"none", "queued", "running"} \union Ended]
    <3>1. scan' = scan \/ \E i : \E to \in {"running"} \union Ended : scan' = [scan EXCEPT ![i] = to]
      BY <2>1 DEF PicksUp, GoesOn, LetsGo
    <3>. QED
      BY <1>0, <3>1
  <2>5. slots' \in Int
    BY <1>0, <2>1 DEF PicksUp, GoesOn, LetsGo
  <2>6. \A m \in Node, u \in Thread :
          job'[m][u].pc # "idle" => node[m] # "down" /\ u <= env.threads /\ job'[m][u].id \in Scan
    BY <1>0, <2>1, <2>3 DEF Turns
  <2>7. job' \in [Node -> [Thread -> JobRow]]
    BY <2>1 DEF Turns
  <2>. QED
    BY <1>0, <1>4, <2>2, <2>3, <2>4, <2>5, <2>6, <2>7 DEF ScanTypes
<1>5. CASE RequeueLockLapses /\ env' = env /\ node' = node /\ crashes' = crashes
  BY <1>0, <1>5 DEF RequeueLockLapses, ScanTypes
<1>6. CASE UNCHANGED scanVars /\ env' = env /\ node' = node /\ crashes' = crashes
  BY <1>0, <1>6 DEF scanVars, ScanTypes
<1>7. ASSUME NEW n \in Node, Dies(n), ScansDie(n) PROVE ScanTypes'
  <2>1. /\ node' \in [Node -> {"down", "locked", "requeueing", "up"}]
        /\ \A m \in Node : m # n => node'[m] = node[m]
        /\ node'[n] = "down"
        /\ crashes' \in 0..env.crashes /\ env' = env
    BY <1>0, <1>e, <1>7 DEF Dies
  <2>2. /\ job' \in [Node -> [Thread -> JobRow]]
        /\ \A m \in Node, t \in Thread : m # n => job'[m][t] = job[m][t]
        /\ \A t \in Thread : job'[n][t] = Idle
    BY <1>0, <1>i, <1>7 DEF ScansDie
  <2>3. <<>> \in Seq(Scan)
    OBVIOUS
  <2>4. /\ scan' \in [Scan -> {"none", "queued", "running"} \union Ended]
        /\ posting' \in [Scan -> {"none", "web"} \union Node]
        /\ queue' \in Seq(Scan) /\ slots' \in Int
        /\ lock' \in Node \union {"none"}
        /\ pending' \in [Node -> Seq(Scan)]
    BY <1>0, <1>e, <1>7, <2>3 DEF ScansDie
  <2>5. \A m \in Node : node'[m] # "down" => m \in env'.nodes
    BY <1>0, <2>1
  <2>6. \A m \in Node, t \in Thread :
          job'[m][t].pc # "idle" => node'[m] # "down" /\ t <= env'.threads /\ job'[m][t].id \in Scan
    BY <1>0, <1>i, <2>1, <2>2
  <2>. QED
    BY <1>0, <2>1, <2>2, <2>4, <2>5, <2>6 DEF ScanTypes
<1>. QED
  BY <1>1, <1>2, <1>3, <1>4, <1>5, <1>6, <1>7, ScanCases DEF ScanStepCases

LEMMA ScanTypesHold == Spec => []ScanTypes
BY ScanTypesInit, ScanTypesStep, PTL DEF Spec

-----------------------------------------------------------------------------
(* A scan is in one place at a time where one thread takes scans, or the    *)
(* pool does: with its poster, in the pool, or with a thread.               *)

Exclusive == OneConsumer \/ ~env.redis

Free(s) == \A n \in Node, t \in Thread : job[n][t].pc # "idle" => job[n][t].id # s

NotTwice ==
    \A n, m \in Node, t, u \in Thread :
        job[n][t].pc # "idle" /\ job[m][u].pc # "idle" /\ job[n][t].id = job[m][u].id => n = m /\ t = u

GoingOn ==
    \A n \in Node, t \in Thread :
        job[n][t].pc \in {"read", "running"} => scan[job[n][t].id] \in {"queued", "running"}

PoolInv ==
    /\ \A n \in Node : node[n] \in {"down", "up"}
    /\ \A s \in Scan : posting[s] # "none" =>
          scan[s] \in {"queued", "failed"} /\ Free(s) /\ \A i \in 1..Len(queue) : queue[i] # s
    /\ \A i, j \in 1..Len(queue) : queue[i] = queue[j] => i = j
    /\ \A i \in 1..Len(queue) : scan[queue[i]] # "none" /\ Free(queue[i])
    /\ \A n \in Node, t \in Thread : job[n][t].pc # "idle" => scan[job[n][t].id] # "none"
    /\ NotTwice

ScanInv == (~env.redis => PoolInv) /\ (Exclusive => GoingOn)

\* The one thread cannot have a scan twice.
LEMMA OneTakesAll == ScanTypes /\ OneConsumer => NotTwice
<1> SUFFICES ASSUME ScanTypes, OneConsumer,
                    NEW n \in Node, NEW m \in Node, NEW t \in Thread, NEW u \in Thread,
                    job[n][t].pc # "idle", job[m][u].pc # "idle"
             PROVE  n = m /\ t = u
  BY DEF NotTwice
<1>1. n \in env.nodes /\ m \in env.nodes /\ t <= env.threads /\ u <= env.threads
  BY DEF ScanTypes
<1>2. t = 1 /\ u = 1
  BY <1>1 DEF OneConsumer, Thread
<1>3. IsFiniteSet(env.nodes)
  BY ScanEnv, NodeAssumption, FS_Subset DEF NodeAssumption, ScanTypes
<1>4. PICK x : env.nodes = {x}
  BY <1>3, FS_Singleton DEF OneConsumer
<1>. QED
  BY <1>1, <1>2, <1>4

LEMMA ExclusiveOnce == ScanTypes /\ ScanInv /\ Exclusive => NotTwice
BY OneTakesAll DEF ScanInv, Exclusive, PoolInv

\* In the one process that has the pool nothing is in hand when it is down.
LEMMA NothingInHand ==
    ASSUME ScanTypes, ~env.redis, NEW n \in env.nodes, node[n] = "down"
    PROVE  \A m \in Node, t \in Thread : job[m][t].pc = "idle"
<1>1. n = Home /\ env.nodes = {Home}
  BY ScanEnv DEF ScanTypes
<1>. QED
  BY <1>1 DEF ScanTypes

LEMMA ScanInvInit == Init => ScanInv
<1> SUFFICES ASSUME Init PROVE ScanInv
  OBVIOUS
<1>1. ProcessInit /\ ScanInit
  BY DEF Init
<1>. QED
  BY <1>1 DEF ProcessInit, ScanInit, ScanInv, PoolInv, GoingOn, NotTwice, Free, Idle

\* A thread of the pool moves.
LEMMA PoolInvTurns ==
    ASSUME ScanTypes, PoolInv, NEW n \in Node, NEW t \in Thread, NEW j \in JobRow, Turns(n, t, j),
           PicksUp(n, t, j) \/ GoesOn(n, t, j) \/ LetsGo(n, t, j), node' = node, posting' = posting
    PROVE  PoolInv'
<1>0. /\ queue \in Seq(Scan) /\ scan \in [Scan -> {"none", "queued", "running"} \union Ended]
      /\ \A m \in Node, u \in Thread : job[m][u].pc # "idle" => job[m][u].id \in Scan
  BY DEF ScanTypes
<1>1. CASE PicksUp(n, t, j)
  <2>0. queue # <<>>
    BY <1>1 DEF PicksUp
  <2>1. /\ j.id = queue[1] /\ Len(queue) \in Nat /\ 1 \in 1..Len(queue) /\ Len(queue') = Len(queue) - 1
        /\ \A i \in 1..Len(queue') : queue'[i] = queue[i + 1] /\ i + 1 \in 1..Len(queue)
    BY <1>0, <1>1, <2>0 DEF PicksUp
  <2>2. Free(j.id) /\ scan[j.id] # "none"
    BY <2>1 DEF PoolInv
  <2>3. \A s \in Scan : Free(s) /\ s # j.id => Free(s)'
    BY DEF Free, Turns
  <2>4. \A i \in 1..Len(queue') : queue'[i] # j.id /\ queue'[i] \in Scan
    BY <1>0, <2>1 DEF PoolInv
  <2>5. NotTwice'
    BY <2>2 DEF NotTwice, Turns, Free, PoolInv
  <2>6. ASSUME NEW s \in Scan, posting'[s] # "none"
        PROVE  scan'[s] \in {"queued", "failed"} /\ Free(s)' /\ \A i \in 1..Len(queue') : queue'[i] # s
    <3>1. /\ posting[s] # "none" /\ Free(s) /\ scan[s] \in {"queued", "failed"}
          /\ \A i \in 1..Len(queue) : queue[i] # s
      BY <2>6 DEF PoolInv
    <3>2. s # j.id
      BY <2>1, <3>1
    <3>. QED
      BY <1>1, <2>1, <2>3, <3>1, <3>2 DEF PicksUp
  <2>7. \A i, k \in 1..Len(queue') : queue'[i] = queue'[k] => i = k
    BY <2>1 DEF PoolInv
  <2>8. \A i \in 1..Len(queue') : scan'[queue'[i]] # "none" /\ Free(queue[i])'
    <3>1. \A i \in 1..Len(queue') : scan'[queue'[i]] # "none" /\ Free(queue'[i])
      BY <1>1, <2>1 DEF PoolInv, PicksUp
    <3>. QED
      BY <2>3, <2>4, <3>1
  <2>9. \A m \in Node, u \in Thread : job'[m][u].pc # "idle" => scan'[job'[m][u].id] # "none"
    BY <1>1, <2>2 DEF PoolInv, Turns, PicksUp
  <2>. QED
    BY <2>5, <2>6, <2>7, <2>8, <2>9 DEF PoolInv
<1>2. CASE GoesOn(n, t, j) \/ LetsGo(n, t, j)
  <2>1. /\ job[n][t].pc # "idle" /\ queue' = queue
        /\ j.pc # "idle" => j.id = job[n][t].id
    BY <1>2 DEF GoesOn, LetsGo
  <2>2. \A s : Free(s) => Free(s)'
    BY <2>1 DEF Free, Turns
  <2>3. NotTwice'
    BY <2>1 DEF NotTwice, Turns, PoolInv
  <2>4. \A s \in Scan : s # job[n][t].id => scan'[s] = scan[s]
    BY <1>0, <1>2 DEF GoesOn, LetsGo
  <2>5. \A s \in Scan : scan[s] # "none" => scan'[s] # "none"
    BY <1>0, <1>2 DEF GoesOn, LetsGo, Ended
  <2>6. \A s \in Scan : Free(s) => s # job[n][t].id
    BY <2>1 DEF Free
  <2>7. \A s \in Scan : posting'[s] # "none" =>
            scan'[s] \in {"queued", "failed"} /\ Free(s)' /\ \A i \in 1..Len(queue') : queue'[i] # s
    BY <2>1, <2>2, <2>4, <2>6 DEF PoolInv
  <2>8. \A i \in 1..Len(queue') : scan'[queue'[i]] # "none" /\ Free(queue[i])'
    BY <1>0, <2>1, <2>2, <2>5 DEF PoolInv
  <2>9. \A m \in Node, u \in Thread : job'[m][u].pc # "idle" => scan'[job'[m][u].id] # "none"
    <3>. SUFFICES ASSUME NEW m \in Node, NEW u \in Thread, job'[m][u].pc # "idle"
                  PROVE  scan'[job'[m][u].id] # "none"
      OBVIOUS
    <3>1. job[m][u].pc # "idle" /\ job'[m][u].id = job[m][u].id
      BY <2>1 DEF Turns
    <3>. QED
      BY <1>0, <2>5, <3>1 DEF PoolInv
  <2>. QED
    BY <2>1, <2>3, <2>7, <2>8, <2>9 DEF PoolInv
<1>. QED
  BY <1>1, <1>2

LEMMA GoingOnTurns ==
    ASSUME ScanTypes, GoingOn, NotTwice, NEW n \in Node, NEW t \in Thread, NEW j \in JobRow,
           Turns(n, t, j), PicksUp(n, t, j) \/ GoesOn(n, t, j) \/ LetsGo(n, t, j)
    PROVE  GoingOn'
<1>0. /\ scan \in [Scan -> {"none", "queued", "running"} \union Ended]
      /\ \A m \in Node, u \in Thread : job[m][u].pc # "idle" => job[m][u].id \in Scan
  BY DEF ScanTypes
<1> SUFFICES ASSUME NEW m \in Node, NEW u \in Thread, job'[m][u].pc \in {"read", "running"}
             PROVE  scan'[job'[m][u].id] \in {"queued", "running"}
  BY DEF GoingOn
<1>1. CASE <<m, u>> = <<n, t>>
  BY <1>0, <1>1 DEF Turns, PicksUp, GoesOn, LetsGo, GoingOn
<1>2. CASE <<m, u>> # <<n, t>>
  <2>1. job'[m][u] = job[m][u] /\ job[m][u].id \in Scan /\ scan[job[m][u].id] \in {"queued", "running"}
    BY <1>0, <1>2 DEF Turns, GoingOn
  <2>2. job[n][t].pc # "idle" => job[m][u].id # job[n][t].id
    BY <1>2, <2>1 DEF NotTwice
  <2>. QED
    BY <1>0, <2>1, <2>2 DEF PicksUp, GoesOn, LetsGo
<1>. QED
  BY <1>1, <1>2

LEMMA ScanInvStep == ScanTypes /\ ScanInv /\ [Next]_vars => ScanInv'
<1> SUFFICES ASSUME ScanTypes, ScanInv, [Next]_vars PROVE ScanInv'
  OBVIOUS
<1>0. /\ queue \in Seq(Scan) /\ Len(queue) \in Nat
      /\ scan \in [Scan -> {"none", "queued", "running"} \union Ended]
      /\ posting \in [Scan -> {"none", "web"} \union Node]
      /\ node \in [Node -> {"down", "locked", "requeueing", "up"}]
      /\ job \in [Node -> [Thread -> JobRow]]
      /\ \A m \in Node, u \in Thread : job[m][u].pc # "idle" => job[m][u].id \in Scan
      /\ env.redis \in BOOLEAN
  BY ScanEnv DEF ScanTypes
<1>j. UNCHANGED job => \A s : Free(s) => Free(s)'
  BY DEF Free
<1>n. UNCHANGED job => (NotTwice => NotTwice')
  BY DEF NotTwice
<1>a. ASSUME UNCHANGED <<env, job, scan>> PROVE (Exclusive => GoingOn)'
  BY <1>a DEF ScanInv, Exclusive, OneConsumer, GoingOn
<1>b. ASSUME UNCHANGED <<env, node, job, scan, posting, queue>> PROVE ScanInv'
  BY <1>b DEF ScanInv, Exclusive, OneConsumer, GoingOn, PoolInv, NotTwice, Free
<1>1. ASSUME NEW n \in Node, ScanStarts(n) PROVE ScanInv'
  <2>0. env' = env /\ job' = job
    BY <1>1 DEF ScanStarts, Start, ListQueued, Requeue, Requeued, processVars
  <2>1. CASE Start(n) /\ ~env.redis
    <3>1. \A m \in Node, t \in Thread : job[m][t].pc = "idle"
      BY <2>1, NothingInHand DEF Start
    <3>2. /\ scan' = [s \in Scan |-> IF scan[s] \in {"queued", "running"} THEN "failed" ELSE scan[s]]
          /\ UNCHANGED <<posting, queue>> /\ node' = [node EXCEPT ![n] = "up"]
      BY <2>1 DEF Start
    <3>3. \A s \in Scan : (scan[s] = "none" <=> scan'[s] = "none")
                          /\ (scan[s] \in {"queued", "failed"} => scan'[s] = "failed")
      BY <1>0, <3>2
    <3>4. PoolInv
      BY <2>1 DEF ScanInv
    <3>5. \A m \in Node : node'[m] \in {"down", "up"}
      BY <1>0, <3>2, <3>4 DEF PoolInv
    <3>6. \A s : Free(s)'
      BY <2>0, <3>1 DEF Free
    <3>7. NotTwice' /\ GoingOn'
      BY <2>0, <3>1 DEF NotTwice, GoingOn
    <3>8. \A i \in 1..Len(queue) : queue[i] \in Scan
      BY <1>0
    <3>9. PoolInv'
      BY <2>0, <3>1, <3>2, <3>3, <3>4, <3>5, <3>6, <3>7, <3>8 DEF PoolInv
    <3>. QED
      BY <3>7, <3>9 DEF ScanInv
  <2>2. CASE env.redis
    <3>1. scan' = scan
      BY <1>1, <2>2 DEF ScanStarts, Start, ListQueued, Requeue, Requeued
    <3>. QED
      BY <1>a, <2>0, <2>2, <3>1 DEF ScanInv
  <2>3. CASE ~env.redis /\ ~Start(n)
    BY <1>0, <1>1, <2>3 DEF ScanStarts, ListQueued, Requeue, Requeued, ScanInv, PoolInv
  <2>. QED
    BY <2>1, <2>2, <2>3
<1>2. ASSUME NEW s \in Scan, NEW who \in {"web"} \union Node, InsertScan(s, who), env' = env, node' = node
      PROVE  ScanInv'
  <2>1. /\ scan[s] = "none" /\ scan' = [scan EXCEPT ![s] = "queued"]
        /\ posting' = [posting EXCEPT ![s] = who] /\ UNCHANGED <<queue, job>>
    BY <1>2 DEF InsertScan, IsFresh
  <2>2. GoingOn => GoingOn'
    BY <1>0, <2>1 DEF GoingOn
  <2>3. ASSUME PoolInv PROVE PoolInv'
    <3>1. Free(s) /\ \A i \in 1..Len(queue) : queue[i] # s
      BY <2>1, <2>3 DEF PoolInv, Free
    <3>2. \A r \in Scan : r # s => scan'[r] = scan[r] /\ posting'[r] = posting[r]
      BY <1>0, <2>1
    <3>3. scan'[s] = "queued"
      BY <1>0, <2>1
    <3>4. \A r \in Scan : posting'[r] # "none" =>
            scan'[r] \in {"queued", "failed"} /\ Free(r)' /\ \A i \in 1..Len(queue') : queue'[i] # r
      BY <1>j, <2>1, <2>3, <3>1, <3>2, <3>3 DEF PoolInv
    <3>5. \A i \in 1..Len(queue') : scan'[queue'[i]] # "none" /\ Free(queue[i])'
      BY <1>0, <1>j, <2>1, <2>3, <3>1, <3>2 DEF PoolInv
    <3>6. \A m \in Node, u \in Thread : job'[m][u].pc # "idle" => scan'[job'[m][u].id] # "none"
      BY <1>0, <2>1, <2>3, <3>2, <3>3 DEF PoolInv
    <3>. QED
      BY <1>2, <1>n, <2>1, <2>3, <3>4, <3>5, <3>6 DEF PoolInv
  <2>. QED
    BY <1>2, <2>2, <2>3 DEF ScanInv, Exclusive, OneConsumer
<1>3. ASSUME NEW s \in Scan, Enqueue(s), env' = env, node' = node PROVE ScanInv'
  <2>0. posting[s] # "none" /\ posting' = [posting EXCEPT ![s] = "none"] /\ job' = job
    BY <1>3 DEF Enqueue
  <2>1. CASE env.redis
    <3>1. scan' = scan
      BY <1>3, <2>1 DEF Enqueue
    <3>. QED
      BY <1>3, <1>a, <2>0, <2>1, <3>1 DEF ScanInv
  <2>2. CASE ~env.redis
    <3>0. /\ PoolInv /\ GoingOn
          /\ Free(s) /\ scan[s] # "none" /\ \A i \in 1..Len(queue) : queue[i] # s
      BY <2>0, <2>2 DEF ScanInv, Exclusive, PoolInv
    <3>1. \A r \in Scan : r # s => posting'[r] = posting[r]
      BY <1>0, <2>0
    <3>2. posting'[s] = "none"
      BY <1>0, <2>0
    <3>3. CASE scan' = [scan EXCEPT ![s] = "failed"] /\ UNCHANGED queue
      <4>1. \A r \in Scan : (r # s => scan'[r] = scan[r]) /\ (scan[r] # "none" => scan'[r] # "none")
        BY <1>0, <3>3
      <4>2. GoingOn'
        <5>1. \A m \in Node, u \in Thread : job[m][u].pc # "idle" => job[m][u].id # s
          BY <3>0 DEF Free
        <5>. QED
          BY <1>0, <2>0, <3>0, <4>1, <5>1 DEF GoingOn
      <4>3. \A r \in Scan : posting'[r] # "none" =>
              scan'[r] \in {"queued", "failed"} /\ Free(r)' /\ \A i \in 1..Len(queue') : queue'[i] # r
        BY <1>j, <2>0, <3>0, <3>1, <3>2, <3>3, <4>1 DEF PoolInv
      <4>4. \A i \in 1..Len(queue') : scan'[queue'[i]] # "none" /\ Free(queue[i])'
        BY <1>0, <1>j, <2>0, <3>0, <3>3, <4>1 DEF PoolInv
      <4>5. \A m \in Node, u \in Thread : job'[m][u].pc # "idle" => scan'[job'[m][u].id] # "none"
        BY <1>0, <2>0, <3>0, <4>1 DEF PoolInv
      <4>. QED
        BY <1>3, <1>n, <2>0, <3>0, <3>3, <4>2, <4>3, <4>4, <4>5 DEF ScanInv, PoolInv
    <3>4. CASE queue' = Append(queue, s) /\ UNCHANGED scan
      <4>1. /\ Len(queue') = Len(queue) + 1 /\ queue'[Len(queue) + 1] = s
            /\ \A i \in 1..Len(queue) : queue'[i] = queue[i]
        BY <1>0, <3>4
      <4>2. \A i \in 1..Len(queue') : i \in 1..Len(queue) \/ i = Len(queue) + 1
        BY <1>0, <4>1
      <4>3. \A r \in Scan : posting'[r] # "none" =>
              scan'[r] \in {"queued", "failed"} /\ Free(r)' /\ \A i \in 1..Len(queue') : queue'[i] # r
        <5>. SUFFICES ASSUME NEW r \in Scan, posting'[r] # "none"
                      PROVE  scan'[r] \in {"queued", "failed"} /\ Free(r)' /\ \A i \in 1..Len(queue') : queue'[i] # r
          OBVIOUS
        <5>1. r # s /\ posting[r] # "none"
          BY <3>1, <3>2
        <5>. QED
          BY <1>j, <2>0, <3>0, <3>4, <4>1, <4>2, <5>1 DEF PoolInv
      <4>4. \A i \in 1..Len(queue') : scan'[queue'[i]] # "none" /\ Free(queue[i])'
        BY <1>j, <2>0, <3>0, <3>4, <4>1, <4>2 DEF PoolInv
      <4>5. \A i, k \in 1..Len(queue') : queue'[i] = queue'[k] => i = k
        BY <3>0, <4>1, <4>2 DEF PoolInv
      <4>6. GoingOn'
        BY <2>0, <3>0, <3>4 DEF GoingOn
      <4>7. \A m \in Node, u \in Thread : job'[m][u].pc # "idle" => scan'[job'[m][u].id] # "none"
        BY <2>0, <3>0, <3>4 DEF PoolInv
      <4>. QED
        BY <1>3, <1>n, <2>0, <3>0, <4>3, <4>4, <4>5, <4>6, <4>7 DEF ScanInv, PoolInv
    <3>. QED
      BY <1>3, <2>2, <3>3, <3>4 DEF Enqueue
  <2>. QED
    BY <2>1, <2>2
<1>4. ASSUME NEW n \in Node, NEW t \in Thread, env' = env, node' = node,
             Pop(n, t) \/ ReadScan(n, t) \/ MarkRunning(n, t) \/ FinishScan(n, t)
      PROVE  ScanInv'
  <2>1. PICK j \in JobRow : Turns(n, t, j) /\ (PicksUp(n, t, j) \/ GoesOn(n, t, j) \/ LetsGo(n, t, j))
    BY <1>4, ThreadStep
  <2>2. posting' = posting
    BY <1>4, ThreadStep
  <2>3. PoolInv => PoolInv'
    BY <1>4, <2>1, <2>2, PoolInvTurns
  <2>4. Exclusive => GoingOn'
    BY <2>1, GoingOnTurns, ExclusiveOnce DEF ScanInv
  <2>. QED
    BY <1>4, <2>3, <2>4 DEF ScanInv, Exclusive, OneConsumer
<1>5. CASE RequeueLockLapses /\ env' = env /\ node' = node
  BY <1>5, <1>b DEF RequeueLockLapses
<1>6. CASE UNCHANGED scanVars /\ env' = env /\ node' = node
  BY <1>6, <1>b DEF scanVars
<1>7. ASSUME NEW n \in Node, Dies(n), ScansDie(n) PROVE ScanInv'
  <2>0. env' = env /\ scan' = scan
    BY <1>7 DEF Dies, ScansDie
  <2>1. /\ \A m \in Node, u \in Thread : m # n => job'[m][u] = job[m][u]
        /\ \A u \in Thread : job'[n][u].pc = "idle"
    BY <1>0, <1>7 DEF ScansDie, Idle
  <2>2. GoingOn => GoingOn'
    BY <2>0, <2>1 DEF GoingOn
  <2>3. ASSUME ~env.redis PROVE PoolInv'
    <3>1. PoolInv
      BY <2>3 DEF ScanInv
    <3>2. queue' = <<>> /\ \A s \in Scan : posting'[s] = "none"
      BY <1>7, <2>3 DEF ScansDie
    <3>3. \A m \in Node : node'[m] \in {"down", "up"}
      BY <1>0, <1>7, <3>1 DEF Dies, PoolInv
    <3>4. NotTwice'
      BY <2>1, <3>1 DEF PoolInv, NotTwice
    <3>5. \A m \in Node, u \in Thread : job'[m][u].pc # "idle" => scan'[job'[m][u].id] # "none"
      BY <2>0, <2>1, <3>1 DEF PoolInv
    <3>. QED
      BY <3>2, <3>3, <3>4, <3>5 DEF PoolInv
  <2>. QED
    BY <2>0, <2>2, <2>3 DEF ScanInv, Exclusive, OneConsumer
<1>. QED
  BY <1>1, <1>2, <1>3, <1>4, <1>5, <1>6, <1>7, ScanCases DEF ScanStepCases

LEMMA EndedScansStay ==
    ASSUME ScanTypes, ScanInv, Exclusive, [Next]_vars, NEW s \in Scan, scan[s] \in Ended
    PROVE  scan'[s] = scan[s]
<1>0. /\ scan \in [Scan -> {"none", "queued", "running"} \union Ended]
      /\ \A m \in Node, u \in Thread : job[m][u].pc # "idle" => job[m][u].id \in Scan
  BY DEF ScanTypes
<1>e. scan[s] \notin {"none", "queued", "running"}
  BY DEF Ended
<1>1. ASSUME NEW n \in Node, ScanStarts(n) PROVE scan'[s] = scan[s]
  BY <1>0, <1>1, <1>e DEF ScanStarts, Start, ListQueued, Requeue, Requeued
<1>2. ASSUME NEW r \in Scan, NEW who, InsertScan(r, who) PROVE scan'[s] = scan[s]
  BY <1>0, <1>2, <1>e DEF InsertScan, IsFresh
<1>3. ASSUME NEW r \in Scan, Enqueue(r) PROVE scan'[s] = scan[s]
  <2>1. CASE scan' = scan
    BY <2>1
  <2>2. CASE ~env.redis /\ scan' = [scan EXCEPT ![r] = "failed"]
    <3>1. scan[r] \in {"queued", "failed"}
      BY <1>3, <2>2 DEF ScanInv, PoolInv, Enqueue
    <3>. QED
      BY <1>0, <1>e, <2>2, <3>1
  <2>. QED
    BY <1>3, <2>1, <2>2 DEF Enqueue
<1>4. ASSUME NEW n \in Node, NEW t \in Thread,
             Pop(n, t) \/ ReadScan(n, t) \/ MarkRunning(n, t) \/ FinishScan(n, t)
      PROVE  scan'[s] = scan[s]
  <2>1. PICK j \in JobRow : Turns(n, t, j) /\ (PicksUp(n, t, j) \/ GoesOn(n, t, j) \/ LetsGo(n, t, j))
    BY <1>4, ThreadStep
  <2>2. job[n][t].pc \in {"read", "running"} => scan[job[n][t].id] \in {"queued", "running"}
    BY DEF ScanInv, GoingOn
  <2>. QED
    BY <1>0, <1>e, <2>1, <2>2 DEF PicksUp, GoesOn, LetsGo
<1>5. CASE RequeueLockLapses \/ UNCHANGED scanVars
  BY <1>5 DEF RequeueLockLapses, scanVars
<1>6. ASSUME NEW n \in Node, ScansDie(n) PROVE scan'[s] = scan[s]
  BY <1>6 DEF ScansDie
<1>. QED
  BY <1>1, <1>2, <1>3, <1>4, <1>5, <1>6, ScanCases DEF ScanStepCases

-----------------------------------------------------------------------------
(* The slots of the pool: one is free, or taken by an id in the pool or by a *)
(* thread at work.                                                           *)

Busy == {x \in Node \X Thread : job[x[1]][x[2]].pc # "idle"}

SlotInv ==
    /\ slots \in Nat
    /\ IF env.redis THEN slots = SlotLimit ELSE slots + Len(queue) + Cardinality(Busy) = SlotLimit

LEMMA BusyIsFinite == IsFiniteSet(Busy) /\ Cardinality(Busy) \in Nat
<1>1. IsFiniteSet(Node \X Thread)
  <2>1. IsFiniteSet(Node) /\ 1 \in Int /\ MaxThread \in Int
    BY NodeAssumption, ScanAssumption DEF NodeAssumption, ScanAssumption
  <2>2. IsFiniteSet(Thread)
    BY <2>1, FS_Interval DEF Thread
  <2>. QED
    BY <2>1, <2>2, FS_Product
<1>2. Busy \subseteq Node \X Thread
  BY DEF Busy
<1>. QED
  BY <1>1, <1>2, FS_Subset, FS_CardinalityType

LEMMA SlotInvInit == Init => SlotInv
<1> SUFFICES ASSUME Init PROVE SlotInv
  OBVIOUS
<1>1. ProcessInit /\ ScanInit
  BY DEF Init
<1>2. SlotLimit \in Nat /\ env.redis \in BOOLEAN
  BY <1>1, ScanEnv DEF ProcessInit
<1>3. Busy = {}
  BY <1>1 DEF ScanInit, Busy, Idle
<1>4. slots = SlotLimit /\ queue = <<>>
  BY <1>1 DEF ScanInit
<1>5. Len(<<>>) = 0
  OBVIOUS
<1>. QED
  BY <1>2, <1>3, <1>4, <1>5, FS_EmptySet DEF SlotInv

LEMMA SlotInvStep == ScanTypes /\ ScanInv /\ SlotInv /\ [Next]_vars => SlotInv'
<1> SUFFICES ASSUME ScanTypes, ScanInv, SlotInv, [Next]_vars PROVE SlotInv'
  OBVIOUS
<1>0. /\ queue \in Seq(Scan) /\ Len(queue) \in Nat /\ env.redis \in BOOLEAN /\ SlotLimit \in Nat
      /\ slots \in Nat
  BY ScanEnv DEF ScanTypes, SlotInv
<1>b. ASSUME UNCHANGED <<env, job, queue, slots>> PROVE SlotInv'
  BY <1>b DEF SlotInv, Busy
<1>1. ASSUME NEW n \in Node, ScanStarts(n) PROVE SlotInv'
  <2>1. UNCHANGED <<env, job, slots>>
    BY <1>1 DEF ScanStarts, Start, ListQueued, Requeue, Requeued, processVars
  <2>2. CASE queue' = queue
    BY <1>b, <2>1, <2>2
  <2>3. CASE env.redis
    BY <2>1, <2>3 DEF SlotInv
  <2>4. CASE ~env.redis /\ Requeue(n)
    \* Only with Redis is there anything to requeue.
    BY <2>4 DEF Requeue, ScanInv, PoolInv
  <2>. QED
    BY <1>1, <2>2, <2>3, <2>4 DEF ScanStarts, Start, ListQueued, Requeued
<1>2. ASSUME NEW s \in Scan, NEW who, InsertScan(s, who), env' = env PROVE SlotInv'
  BY <1>2, <1>b DEF InsertScan
<1>3. ASSUME NEW s \in Scan, Enqueue(s), env' = env PROVE SlotInv'
  <2>1. job' = job /\ Busy' = Busy
    BY <1>3 DEF Enqueue, Busy
  <2>2. CASE env.redis
    <3>1. slots' = slots
      BY <1>3, <2>2 DEF Enqueue
    <3>. QED
      BY <1>3, <2>2, <3>1 DEF SlotInv
  <2>3. CASE UNCHANGED <<queue, slots>>
    BY <1>3, <1>b, <2>1, <2>3
  <2>4. CASE ~env.redis /\ slots > 0 /\ slots' = slots - 1 /\ queue' = Append(queue, s)
    <3>1. Len(queue') = Len(queue) + 1
      BY <1>0, <2>4
    <3>. QED
      BY <1>0, <1>3, <2>1, <2>4, <3>1, BusyIsFinite DEF SlotInv
  <2>. QED
    BY <1>3, <2>2, <2>3, <2>4 DEF Enqueue
<1>4. ASSUME NEW n \in Node, NEW t \in Thread, env' = env,
             Pop(n, t) \/ ReadScan(n, t) \/ MarkRunning(n, t) \/ FinishScan(n, t)
      PROVE  SlotInv'
  <2>1. PICK j \in JobRow : Turns(n, t, j) /\ (PicksUp(n, t, j) \/ GoesOn(n, t, j) \/ LetsGo(n, t, j))
    BY <1>4, ThreadStep
  <2>2. \A x \in Node \X Thread :
          job'[x[1]][x[2]].pc # "idle" <=> IF x = <<n, t>> THEN j.pc # "idle" ELSE job[x[1]][x[2]].pc # "idle"
    BY <2>1 DEF Turns
  <2>3. CASE PicksUp(n, t, j)
    <3>1. Busy' = Busy \union {<<n, t>>} /\ <<n, t>> \notin Busy
      BY <2>2, <2>3 DEF Busy, PicksUp
    <3>2. Cardinality(Busy') = Cardinality(Busy) + 1
      BY <3>1, BusyIsFinite, FS_AddElement
    <3>3. Len(queue') = Len(queue) - 1 /\ slots' = slots
      BY <1>0, <2>3 DEF PicksUp
    <3>. QED
      BY <1>0, <1>4, <3>2, <3>3, BusyIsFinite DEF SlotInv
  <2>4. CASE GoesOn(n, t, j)
    <3>1. Busy' = Busy /\ UNCHANGED <<queue, slots>>
      BY <2>2, <2>4 DEF Busy, GoesOn
    <3>. QED
      BY <1>4, <3>1 DEF SlotInv
  <2>5. CASE LetsGo(n, t, j)
    <3>1. Busy' = Busy \ {<<n, t>>} /\ <<n, t>> \in Busy
      BY <2>2, <2>5 DEF Busy, LetsGo
    <3>2. Cardinality(Busy') = Cardinality(Busy) - 1
      BY <3>1, BusyIsFinite, FS_RemoveElement
    <3>3. queue' = queue /\ slots' = IF env.redis THEN slots ELSE slots + 1
      BY <2>5 DEF LetsGo
    <3>. QED
      BY <1>0, <1>4, <3>2, <3>3, BusyIsFinite DEF SlotInv
  <2>. QED
    BY <2>1, <2>3, <2>4, <2>5
<1>5. CASE RequeueLockLapses /\ env' = env
  BY <1>5, <1>b DEF RequeueLockLapses
<1>6. CASE UNCHANGED scanVars /\ env' = env
  BY <1>6, <1>b DEF scanVars
<1>7. ASSUME NEW n \in Node, Dies(n), ScansDie(n) PROVE SlotInv'
  <2>1. CASE env.redis
    BY <1>7, <2>1 DEF Dies, ScansDie, SlotInv
  <2>2. CASE ~env.redis
    <3>1. n = Home /\ env' = env /\ slots' = SlotLimit /\ queue' = <<>>
      BY <1>7, <2>2, ScanEnv DEF ScanTypes, Dies, ScansDie
    <3>2. \A m \in Node, t \in Thread : job'[m][t].pc = "idle"
      BY <1>7, <2>2, <3>1, ScanEnv DEF ScanTypes, ScansDie, Idle
    <3>3. Busy' = {}
      BY <3>2 DEF Busy
    <3>4. Len(<<>>) = 0
      OBVIOUS
    <3>. QED
      BY <1>0, <2>2, <3>1, <3>3, <3>4, FS_EmptySet DEF SlotInv
  <2>. QED
    BY <1>0, <2>1, <2>2
<1>. QED
  BY <1>1, <1>2, <1>3, <1>4, <1>5, <1>6, <1>7, ScanCases DEF ScanStepCases

-----------------------------------------------------------------------------
(* Reviews: the rows, and the threads that write them. *)

ReviewStepCases ==
    /\ env' = env
    /\ \/ \E r \in Run : RunCloses(r)
       \/ \E n \in Node : ReviewStep(n)
       \/ \E n \in Node : ReviewerDies(n)
       \/ UNCHANGED reviewVars

LEMMA ReviewCases == [Next]_vars => ReviewStepCases
<1> SUFFICES ASSUME [Next]_vars PROVE ReviewStepCases
  OBVIOUS
<1>1. CASE ReviewNext
  BY <1>1 DEF ReviewNext, processVars, ReviewStepCases
<1>2. CASE StartNext
  BY <1>2 DEF StartNext, Start, ListQueued, Requeue, Requeued, processVars, ReviewStepCases
<1>3. CASE ScanNext \/ OutboxNext \/ ObservationNext \/ TimeNext
  BY <1>3 DEF ScanNext, OutboxNext, ObservationNext, TimeNext, processVars, ReviewStepCases
<1>4. CASE AutoNext \/ TradingNext \/ PoolNext \/ CacheNext
  BY <1>4 DEF AutoNext, TradingNext, PoolNext, CacheNext, processVars, ReviewStepCases
<1>5. ASSUME NEW n \in Node, Crash(n) PROVE ReviewStepCases
  BY <1>5 DEF Crash, Dies, ReviewStepCases
<1>6. CASE UNCHANGED vars
  BY <1>6 DEF vars, processVars, ReviewStepCases
<1>. QED
  BY <1>1, <1>2, <1>3, <1>4, <1>5, <1>6 DEF Next

ReviewRow ==
    [status : {"none", "pending", "processing", "failed"} \union ReviewDone, attempts : Nat]
ReviewerPc == {"idle", "entering", "inserting", "skipping", "listing", "picking", "asking"}
ReviewerRow == [pc : ReviewerPc, ids : SUBSET Run, run : Run \union {"none"}]

\* With the types: who reviews may, and has a run where one is needed.
ReviewTypes ==
    /\ env \in Environment
    /\ closed \subseteq Run
    /\ review \in [Run -> ReviewRow]
    /\ reviewer \in [Node -> ReviewerRow]
    /\ \A n \in Node :
        /\ reviewer[n].pc # "idle" => n \in env.reviewers
        /\ reviewer[n].pc \in {"inserting", "skipping", "asking"} => reviewer[n].run \in Run

\* What the reviewer has read of the rows is still so, where it is the only one.
Agrees(own, rows) ==
    /\ own.pc \in {"entering", "inserting", "skipping"} => \A r \in own.ids : rows[r].status = "none"
    /\ own.pc \in {"picking", "asking"} => \A r \in own.ids : rows[r].status \in {"pending", "failed"}
    /\ own.pc \in {"inserting", "skipping", "asking"} =>
          /\ own.run \notin own.ids
          /\ rows[own.run].status = CASE own.pc = "inserting" -> "none"
                                      [] own.pc = "skipping" -> "pending"
                                      [] OTHER -> "processing"

ReviewsStay == \A r \in Run : review[r].status \in ReviewDone => review'[r] = review[r]

\* The reviewer of n goes on with after.
Reviews(n, after) ==
    /\ after \in ReviewerRow
    /\ after.pc # "idle" => n \in env.reviewers
    /\ after.pc \in {"inserting", "skipping", "asking"} => after.run \in Run
    /\ reviewer' = [reviewer EXCEPT ![n] = after] /\ closed' = closed
    /\ review' \in [Run -> ReviewRow]
    /\ Agrees(reviewer[n], review) => Agrees(after, review') /\ ReviewsStay

LEMMA OwnRow ==
    ASSUME NEW own \in ReviewerRow, NEW pc
    PROVE  /\ [own EXCEPT !.pc = pc] = [pc |-> pc, ids |-> own.ids, run |-> own.run]
           /\ [[own EXCEPT !.pc = pc] EXCEPT !.run = "none"] = [pc |-> pc, ids |-> own.ids, run |-> "none"]
<1>1. [own EXCEPT !.pc = pc] = [pc |-> pc, ids |-> own.ids, run |-> own.run]
  BY DEF ReviewerRow
<1>2. [[pc |-> pc, ids |-> own.ids, run |-> own.run] EXCEPT !.run = "none"] =
          [pc |-> pc, ids |-> own.ids, run |-> "none"]
  OBVIOUS
<1>. QED
  BY <1>1, <1>2

LEMMA RestingRow ==
    ASSUME NEW pc, NEW ids
    PROVE  [Resting EXCEPT !.pc = pc, !.ids = ids] = [pc |-> pc, ids |-> ids, run |-> "none"]
<1>1. [Resting EXCEPT !.pc = pc] = [pc |-> pc, ids |-> {}, run |-> "none"]
  BY DEF Resting
<1>2. [[pc |-> pc, ids |-> {}, run |-> "none"] EXCEPT !.ids = ids] = [pc |-> pc, ids |-> ids, run |-> "none"]
  OBVIOUS
<1>3. [Resting EXCEPT !.pc = pc, !.ids = ids] = [[Resting EXCEPT !.pc = pc] EXCEPT !.ids = ids]
  BY Zenon
<1>. QED
  BY <1>1, <1>2, <1>3

LEMMA ReviewWritten ==
    ASSUME ReviewTypes, NEW r \in Run, NEW status \in {"pending", "processing", "failed"} \union ReviewDone,
           review' = [review EXCEPT ![r].status = status]
    PROVE  /\ review' \in [Run -> ReviewRow] /\ review'[r].status = status
           /\ \A s \in Run : s # r => review'[s] = review[s]
BY DEF ReviewTypes, ReviewRow

LEMMA ReviewStepIs ==
    ASSUME ReviewTypes, NEW n \in Node, ReviewStep(n) \/ ReviewerDies(n)
    PROVE  \E after : Reviews(n, after)
<1> DEFINE own == reviewer[n]
<1>0. /\ review \in [Run -> ReviewRow] /\ reviewer \in [Node -> ReviewerRow] /\ closed \subseteq Run
      /\ own \in ReviewerRow /\ own.ids \subseteq Run /\ own.run \in Run \union {"none"}
      /\ own.pc # "idle" => n \in env.reviewers
      /\ own.pc \in {"inserting", "skipping", "asking"} => own.run \in Run
  BY DEF ReviewTypes, ReviewerRow
<1>r. /\ Resting \in ReviewerRow /\ Resting.pc = "idle"
      /\ \A rows : Agrees(Resting, rows)
  BY DEF Resting, ReviewerRow, ReviewerPc, Agrees
<1>s. review' = review => ReviewsStay
  BY DEF ReviewsStay
<1>1. CASE BeginPass(n)
  <2> DEFINE after == [pc |-> "entering", ids |-> {r \in closed : review[r].status = "none"}, run |-> "none"]
  <2>1. [Resting EXCEPT !.pc = "entering", !.ids = {r \in closed : review[r].status = "none"}] = after
    BY RestingRow
  <2>2. after \in ReviewerRow
    BY <1>0 DEF ReviewerRow, ReviewerPc
  <2>3. Agrees(after, review)
    BY DEF Agrees
  <2>4. reviewer' = [reviewer EXCEPT ![n] = after] /\ UNCHANGED <<closed, review>> /\ n \in env.reviewers
    BY <1>1, <2>1 DEF BeginPass
  <2>5. after.pc = "entering"
    OBVIOUS
  <2> HIDE DEF after
  <2>. QED
    BY <1>0, <1>s, <2>2, <2>3, <2>4, <2>5 DEF Reviews
<1>2. ASSUME NEW r \in Run, EnterRun(n, r) PROVE \E after : Reviews(n, after)
  <2> DEFINE after == [pc |-> IF review[r].status = "none" THEN "inserting" ELSE "skipping",
                     ids |-> own.ids \ {r}, run |-> r]
  <2>1. /\ own.pc = "entering" /\ r \in own.ids /\ UNCHANGED <<closed, review>>
        /\ reviewer' = [reviewer EXCEPT ![n] = after]
    BY <1>0, <1>2 DEF EnterRun
  <2>2. after \in ReviewerRow
    BY <1>0 DEF ReviewerRow, ReviewerPc
  <2>3. Agrees(own, review) => Agrees(after, review)
    BY <2>1 DEF Agrees
  <2>4. after.run = r
    OBVIOUS
  <2> HIDE DEF after
  <2>. QED
    BY <1>0, <1>s, <2>1, <2>2, <2>3, <2>4 DEF Reviews
<1>3. CASE InsertReview(n)
  <2>0. own.pc = "inserting" /\ own.run \in Run /\ closed' = closed
    BY <1>0, <1>3 DEF InsertReview
  <2>1. CASE review[own.run].status = "none"
    <3> DEFINE after == [pc |-> "skipping", ids |-> own.ids, run |-> own.run]
    <3>1. review' = [review EXCEPT ![own.run].status = "pending"]
      BY <1>3, <2>1 DEF InsertReview
    <3>2. /\ review' \in [Run -> ReviewRow] /\ review'[own.run].status = "pending"
          /\ \A s \in Run : s # own.run => review'[s] = review[s]
      BY <2>0, <3>1, ReviewWritten
    <3>3. reviewer' = [reviewer EXCEPT ![n] = after]
      BY <1>0, <1>3, <2>1, OwnRow DEF InsertReview
    <3>4. after \in ReviewerRow
      BY <1>0 DEF ReviewerRow, ReviewerPc
    <3>5. Agrees(own, review) => Agrees(after, review')
      BY <1>0, <2>0, <3>2 DEF Agrees
    <3>6. ReviewsStay
      BY <2>1, <3>2 DEF ReviewsStay, ReviewDone
    <3>7. after.pc = "skipping" /\ after.run = own.run
      OBVIOUS
    <3> HIDE DEF after
    <3>. QED
      BY <1>0, <2>0, <3>2, <3>3, <3>4, <3>5, <3>6, <3>7 DEF Reviews
  <2>2. CASE review[own.run].status # "none"
    <3>1. reviewer' = [reviewer EXCEPT ![n] = Resting] /\ review' = review
      BY <1>3, <2>2 DEF InsertReview
    <3>. QED
      BY <1>0, <1>r, <1>s, <2>0, <3>1 DEF Reviews
  <2>. QED
    BY <2>1, <2>2
<1>4. CASE SkipReview(n)
  <2> DEFINE after == [pc |-> "entering", ids |-> own.ids, run |-> "none"]
  <2>0. own.pc = "skipping" /\ own.run \in Run /\ closed' = closed
    BY <1>0, <1>4 DEF SkipReview
  <2>1. reviewer' = [reviewer EXCEPT ![n] = after]
    <3>1. reviewer' = [reviewer EXCEPT ![n] = [[own EXCEPT !.pc = "entering"] EXCEPT !.run = "none"]]
      BY <1>0, <1>4 DEF SkipReview
    <3>. QED
      BY <1>0, <3>1, OwnRow
  <2>2. after \in ReviewerRow
    BY <1>0 DEF ReviewerRow, ReviewerPc
  <2>3. \/ review' = review
        \/ /\ review' \in [Run -> ReviewRow] /\ review'[own.run].status = "skipped"
           /\ \A s \in Run : s # own.run => review'[s] = review[s]
    <3>1. review' = review \/ review' = [review EXCEPT ![own.run].status = "skipped"]
      BY <1>4 DEF SkipReview
    <3>. QED
      BY <2>0, <3>1, ReviewWritten DEF ReviewDone
  <2>4. Agrees(own, review) => Agrees(after, review')
    BY <1>0, <2>0, <2>3 DEF Agrees
  <2>5. Agrees(own, review) => ReviewsStay
    BY <2>0, <2>3 DEF Agrees, ReviewsStay, ReviewDone
  <2>6. after.pc = "entering"
    OBVIOUS
  <2> HIDE DEF after
  <2>. QED
    BY <1>0, <2>0, <2>1, <2>2, <2>3, <2>4, <2>5, <2>6 DEF Reviews
<1>5. CASE AllEntered(n)
  <2> DEFINE after == [pc |-> "listing", ids |-> own.ids, run |-> own.run]
  <2>1. reviewer' = [reviewer EXCEPT ![n] = after] /\ own.pc = "entering" /\ UNCHANGED <<closed, review>>
    BY <1>0, <1>5, OwnRow DEF AllEntered
  <2>2. after \in ReviewerRow /\ Agrees(after, review) /\ after.pc = "listing"
    BY <1>0 DEF ReviewerRow, ReviewerPc, Agrees
  <2> HIDE DEF after
  <2>. QED
    BY <1>0, <1>s, <2>1, <2>2 DEF Reviews
<1>6. CASE ListOpen(n)
  <2> DEFINE after == [pc |-> "picking", ids |-> {r \in Run : IsOpen(r)}, run |-> "none"]
  <2>0. [Resting EXCEPT !.pc = "picking", !.ids = {r \in Run : IsOpen(r)}] = after
    BY RestingRow
  <2>1. reviewer' = [reviewer EXCEPT ![n] = after] /\ own.pc = "listing" /\ UNCHANGED <<closed, review>>
    BY <1>6, <2>0 DEF ListOpen
  <2>2. after \in ReviewerRow /\ after.pc = "picking"
    BY DEF ReviewerRow, ReviewerPc
  <2>3. Agrees(after, review)
    BY DEF Agrees, IsOpen
  <2> HIDE DEF after
  <2>. QED
    BY <1>0, <1>s, <2>1, <2>2, <2>3 DEF Reviews
<1>7. ASSUME NEW r \in Run, MarkProcessing(n, r) PROVE \E after : Reviews(n, after)
  <2> DEFINE after == [pc |-> "asking", ids |-> own.ids \ {r}, run |-> r]
  <2>1. /\ own.pc = "picking" /\ r \in own.ids /\ closed' = closed
        /\ reviewer' = [reviewer EXCEPT ![n] = after]
        /\ review' = [review EXCEPT ![r] = [status |-> "processing", attempts |-> review[r].attempts + 1]]
    BY <1>0, <1>7 DEF MarkProcessing
  <2>2. after \in ReviewerRow
    BY <1>0 DEF ReviewerRow, ReviewerPc
  <2>3. [status |-> "processing", attempts |-> review[r].attempts + 1] \in ReviewRow
    BY <1>0 DEF ReviewRow
  <2>4. /\ review' \in [Run -> ReviewRow] /\ review'[r].status = "processing"
        /\ \A s \in Run : s # r => review'[s] = review[s]
    BY <1>0, <2>1, <2>3
  <2>5. Agrees(own, review) => Agrees(after, review')
    BY <1>0, <2>1, <2>4 DEF Agrees
  <2>6. Agrees(own, review) => ReviewsStay
    BY <2>1, <2>4 DEF Agrees, ReviewsStay, ReviewDone
  <2>7. after.run = r
    OBVIOUS
  <2> HIDE DEF after
  <2>. QED
    BY <1>0, <2>1, <2>2, <2>4, <2>5, <2>6, <2>7 DEF Reviews
<1>8. CASE Reviewed(n)
  <2> DEFINE after == [pc |-> "picking", ids |-> own.ids, run |-> "none"]
  <2>0. own.pc = "asking" /\ own.run \in Run /\ closed' = closed
    BY <1>0, <1>8 DEF Reviewed
  <2>1. reviewer' = [reviewer EXCEPT ![n] = after]
    <3>1. reviewer' = [reviewer EXCEPT ![n] = [[own EXCEPT !.pc = "picking"] EXCEPT !.run = "none"]]
      BY <1>0, <1>8 DEF Reviewed
    <3>. QED
      BY <1>0, <3>1, OwnRow
  <2>2. after \in ReviewerRow
    BY <1>0 DEF ReviewerRow, ReviewerPc
  <2>3. PICK end \in {"completed", "failed"} : review' = [review EXCEPT ![own.run].status = end]
    BY <1>8 DEF Reviewed
  <2>4. review' \in [Run -> ReviewRow] /\ \A s \in Run : s # own.run => review'[s] = review[s]
    BY <2>0, <2>3, ReviewWritten DEF ReviewDone
  <2>5. Agrees(own, review) => Agrees(after, review')
    BY <1>0, <2>0, <2>4 DEF Agrees
  <2>6. Agrees(own, review) => ReviewsStay
    BY <2>0, <2>4 DEF Agrees, ReviewsStay, ReviewDone
  <2>7. after.pc = "picking"
    OBVIOUS
  <2> HIDE DEF after
  <2>. QED
    BY <1>0, <2>0, <2>1, <2>2, <2>4, <2>5, <2>6, <2>7 DEF Reviews
<1>9. CASE PassFails(n) \/ EndPass(n) \/ ReviewerDies(n)
  <2>1. reviewer' = [reviewer EXCEPT ![n] = Resting] /\ UNCHANGED <<closed, review>>
    BY <1>9 DEF PassFails, EndPass, ReviewerDies
  <2>. QED
    BY <1>0, <1>r, <1>s, <2>1 DEF Reviews
<1>. QED
  BY <1>1, <1>2, <1>3, <1>4, <1>5, <1>6, <1>7, <1>8, <1>9 DEF ReviewStep

OneReviewer == Cardinality(env.reviewers) <= 1

ReviewInv == OneReviewer => \A n \in Node : Agrees(reviewer[n], review)

LEMMA ReviewStarts == Init => ReviewTypes /\ ReviewInv
<1> SUFFICES ASSUME Init PROVE ReviewTypes /\ ReviewInv
  OBVIOUS
<1>1. Resting \in ReviewerRow /\ Resting.pc = "idle" /\ [status |-> "none", attempts |-> 0] \in ReviewRow
  BY DEF Resting, ReviewerRow, ReviewerPc, ReviewRow
<1>2. env \in Environment /\ ReviewInit
  BY DEF Init, ProcessInit
<1>. QED
  BY <1>1, <1>2 DEF ReviewInit, ReviewTypes, ReviewInv, Agrees

LEMMA ReviewKeeps ==
    ASSUME ReviewTypes, ReviewInv, [Next]_vars
    PROVE  ReviewTypes' /\ ReviewInv' /\ (OneReviewer => ReviewsStay)
<1>0. /\ review \in [Run -> ReviewRow] /\ reviewer \in [Node -> ReviewerRow] /\ closed \subseteq Run
      /\ env \in Environment /\ env.reviewers \subseteq Node /\ env.closes \subseteq Run
  BY ReviewAssumption DEF ReviewAssumption, ReviewTypes
<1>1. CASE UNCHANGED <<env, reviewVars>>
  BY <1>0, <1>1 DEF reviewVars, ReviewTypes, ReviewInv, OneReviewer, ReviewsStay
<1>2. ASSUME NEW r \in Run, RunCloses(r), env' = env PROVE ReviewTypes' /\ ReviewInv' /\ ReviewsStay
  BY <1>0, <1>2 DEF RunCloses, ReviewTypes, ReviewInv, OneReviewer, ReviewsStay
<1>3. ASSUME NEW n \in Node, ReviewStep(n) \/ ReviewerDies(n), env' = env
      PROVE  ReviewTypes' /\ ReviewInv' /\ (OneReviewer => ReviewsStay)
  <2>1. PICK after : Reviews(n, after)
    BY <1>3, ReviewStepIs
  <2>2. reviewer'[n] = after /\ \A m \in Node : m # n => reviewer'[m] = reviewer[m]
    BY <1>0, <2>1 DEF Reviews
  <2>3. reviewer' \in [Node -> ReviewerRow]
    BY <1>0, <2>1 DEF Reviews
  <2>4. ReviewTypes'
    BY <1>0, <1>3, <2>1, <2>2, <2>3 DEF Reviews, ReviewTypes
  <2>5. OneReviewer => ReviewsStay
    BY <2>1 DEF ReviewInv, Reviews
  <2>6. ASSUME OneReviewer, NEW m \in Node PROVE Agrees(reviewer'[m], review')
    <3>1. CASE m = n
      BY <2>1, <2>2, <2>6, <3>1 DEF ReviewInv, Reviews
    <3>2. CASE reviewer'[m].pc = "idle"
      BY <3>2 DEF Agrees
    <3>3. CASE m # n /\ reviewer'[m].pc # "idle"
      <4>1. m \in env.reviewers
        BY <2>2, <3>3 DEF ReviewTypes
      <4>2. n \notin env.reviewers
        <5>1. IsFiniteSet(env.reviewers)
          BY <1>0, NodeAssumption, FS_Subset DEF NodeAssumption
        <5>2. Cardinality(env.reviewers) = 1
          BY <2>6, <4>1, <5>1, FS_EmptySet, FS_CardinalityType DEF OneReviewer
        <5>3. PICK x : env.reviewers = {x}
          BY <5>1, <5>2, FS_Singleton
        <5>. QED
          BY <3>3, <4>1, <5>3
      <4>3. reviewer[n].pc = "idle" /\ after.pc = "idle"
        BY <2>1, <4>2 DEF ReviewTypes, Reviews
      <4>4. review' = review
        BY <1>3, <4>2, <4>3 DEF ReviewStep, BeginPass, InsertReview, SkipReview, AllEntered, ListOpen,
               Reviewed, PassFails, EndPass, EnterRun, MarkProcessing, ReviewerDies
      <4>. QED
        BY <2>2, <2>6, <3>3, <4>4 DEF ReviewInv
    <3>. QED
      BY <3>1, <3>2, <3>3
  <2>7. ReviewInv'
    BY <1>3, <2>6 DEF ReviewInv, OneReviewer
  <2>. QED
    BY <2>4, <2>5, <2>7
<1>. QED
  BY <1>1, <1>2, <1>3, ReviewCases DEF ReviewStepCases

-----------------------------------------------------------------------------
(* The scans have their types, the slots of the pool included. *)
LEMMA ScanTypeHolds == Spec => [](ProcessTypeOK /\ ScanTypeOK)
<1>1. Spec => []ScanInv
  BY ScanTypesHold, ScanInvInit, ScanInvStep, PTL DEF Spec
<1>2. Spec => []SlotInv
  BY <1>1, ScanTypesHold, SlotInvInit, SlotInvStep, PTL DEF Spec
<1>3. ScanTypes /\ SlotInv => ProcessTypeOK /\ ScanTypeOK
  <2> SUFFICES ASSUME ScanTypes, SlotInv PROVE ProcessTypeOK /\ ScanTypeOK
    OBVIOUS
  <2>1. slots \in 0..SlotLimit
    <3>1. Len(queue) \in Nat /\ SlotLimit \in Nat /\ slots \in Nat
      BY ScanEnv DEF ScanTypes, SlotInv
    <3>. QED
      BY <3>1, BusyIsFinite DEF SlotInv
  <2>. QED
    BY <2>1 DEF ScanTypes, ProcessTypeOK, ScanTypeOK, JobRow
<1>. QED
  BY <1>1, <1>2, <1>3, ScanTypesHold, PTL

LEMMA ReviewInvHolds == Spec => [](ReviewTypes /\ ReviewInv)
<1>1. ReviewTypes /\ ReviewInv /\ [Next]_vars => (ReviewTypes /\ ReviewInv)'
  BY ReviewKeeps
<1>. QED
  BY <1>1, ReviewStarts, PTL DEF Spec

(* A scan that has ended stays as it is where one thread takes scans or the  *)
(* pool does, and a review that has been given stays where there is one      *)
(* reviewer: over requeues of ids that are in the list already, deaths,      *)
(* restarts and writes that fail (_run_scan_job, run_post_mortem).           *)
THEOREM WhatEndedStays == Spec => EndedStaysEnded
<1>1. Spec => []ScanInv
  BY ScanTypesHold, ScanInvInit, ScanInvStep, PTL DEF Spec
<1>2. ScanTypes /\ ScanInv /\ ReviewTypes /\ ReviewInv /\ [Next]_vars
        => [/\ (OneConsumer \/ ~env.redis) =>
                   \A s \in Scan : scan[s] \in Ended => scan'[s] = scan[s]
            /\ Cardinality(env.reviewers) <= 1 =>
                   \A r \in Run : review[r].status \in ReviewDone => review'[r] = review[r]]_vars
  BY EndedScansStay, ReviewKeeps DEF Exclusive, OneReviewer, ReviewsStay
<1>. QED
  BY <1>1, <1>2, ScanTypesHold, ReviewInvHolds, PTL DEF Spec, EndedStaysEnded

==============================================================================
