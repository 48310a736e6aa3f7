------------------------------- MODULE Worker -------------------------------
(***************************************************************************)
(* The background of AIOption: scans, notifications, observation, reviews, *)
(* automatic trading and the daily run, with the connection pool and the   *)
(* cache they use, in processes that are started, die and are started      *)
(* again.                                                                  *)
(***************************************************************************)
EXTENDS Observation, TradeReviews, AutoTradeCycle, TradingRun, DbPool, TtlCache

vars == <<processVars, scanVars, outboxVars, observationVars, reviewVars, autoVars, runVars, poolVars, cacheVars>>

Init ==
    /\ ProcessInit /\ ScanInit /\ OutboxInit
    /\ ObservationInit /\ ReviewInit /\ AutoInit
    /\ RunInit /\ PoolInit /\ CacheInit

ScanStep(n) ==
    \E t \in Thread : Pop(n, t) \/ ReadScan(n, t) \/ MarkRunning(n, t) \/ FinishScan(n, t)

ScanNext ==
    /\ \/ \E s \in Scan : UserSubmits(s) \/ Enqueue(s)
       \/ \E n \in Node : ScanStep(n)
       \/ RequeueLockLapses
    /\ UNCHANGED <<processVars, outboxVars, observationVars, reviewVars, autoVars, runVars, poolVars, cacheVars>>

StartNext ==
    /\ \E n \in Node : Start(n) \/ ListQueued(n) \/ Requeue(n) \/ Requeued(n)
    /\ UNCHANGED <<outboxVars, observationVars, reviewVars, autoVars, runVars, poolVars, cacheVars>>

SendStep(x) == ReadEvent(x) \/ Deliver(x) \/ MarkSent(x) \/ MarkFailed(x)

OutboxNext ==
    /\ \/ \E x \in Sender : SendStep(x)
       \/ ListPending \/ SendNext \/ Prune
       \/ \E k \in Key : GetsOld(k)
    /\ UNCHANGED <<processVars, scanVars, observationVars, reviewVars, autoVars, runVars, poolVars, cacheVars>>

CheckStep(c) ==
    \/ GetsMaxedOut(c) \/ PriceIsQuiet(c) \/ PriceMatches(c)
    \/ AskForRescan(c) \/ RememberRescan(c) \/ RescanIsPending(c) \/ RescanIsDropped(c) \/ RescanMatches(c)
    \/ CountTrigger(c)

RoundStep ==
    \/ MarketIsClosed \/ StartRound \/ SubmitLoopScan \/ SelectionIsDone
    \/ \E symbol \in Symbol : NextSymbol(symbol)
    \/ SendDigest \/ EndRound \/ RoundFails

ObservationNext ==
    /\ (\E c \in Checker : CheckStep(c)) \/ RoundStep
    /\ UNCHANGED <<processVars, reviewVars, autoVars, runVars, poolVars, cacheVars>>

TimeNext ==
    /\ TriggerGetsDue \/ CooldownEnds \/ LoopGetsDue
    /\ UNCHANGED <<processVars, scanVars, outboxVars, reviewVars, autoVars, runVars, poolVars, cacheVars>>

ReviewStep(n) ==
    \/ BeginPass(n) \/ InsertReview(n) \/ SkipReview(n) \/ AllEntered(n) \/ ListOpen(n)
    \/ Reviewed(n) \/ PassFails(n) \/ EndPass(n)
    \/ \E r \in Run : EnterRun(n, r) \/ MarkProcessing(n, r)

ReviewNext ==
    /\ (\E r \in Run : RunCloses(r)) \/ (\E n \in Node : ReviewStep(n))
    /\ UNCHANGED <<processVars, scanVars, outboxVars, observationVars, autoVars, runVars, poolVars, cacheVars>>

TickStep(n) ==
    \/ Lead(n) \/ ListDue(n) \/ EndTick(n)
    \/ \E snapshot \in tick[n].batch : Claim(n, snapshot)
    \/ SitOut(n) \/ RunCycle(n) \/ FinishCycle(n) \/ CycleFails(n)

AutoNext ==
    /\ \/ \E i \in Instance : IntervalPasses(i) \/ UserStarts(i) \/ UserPauses(i) \/ UserStops(i)
       \/ NextDay \/ LeaderLapses
       \/ \E n \in Node : TickStep(n)
    /\ UNCHANGED <<processVars, scanVars, outboxVars, observationVars, reviewVars, runVars, poolVars, cacheVars>>

ScheduleStep(n) ==
    LeadSchedule(n) \/ ReadConfig(n) \/ StartIsBlocked(n) \/ StartRun(n) \/ SetLastRunDate(n) \/ EndSchedule(n)

RunStep(r) ==
    \/ TakeUp(r) \/ BeginRun(r) \/ Select(r)
    \/ SkipBuy(r) \/ LookIntoJournal(r) \/ SubmitBuy(r) \/ SubmitRaises(r)
    \/ WaitForFill(r) \/ CancelBuy(r) \/ ProtectBuy(r)
    \/ FinishRun(r) \/ RunFails(r) \/ ForceFinish(r)

TradingNext ==
    /\ \/ \E n \in Node : ScheduleStep(n)
       \/ \E r \in RunId : RunStep(r)
       \/ SchedulerLapses
       \/ \E k \in DOMAIN buys : BuyFills(k) \/ BuyIsRefused(k) \/ BuyIsCanceled(k)
    /\ UNCHANGED <<processVars, scanVars, outboxVars, observationVars, reviewVars, autoVars, poolVars, cacheVars>>

PoolStep(c) ==
    \/ TakeIdle(c) \/ DropClosed(c) \/ Create(c) \/ Wait(c) \/ WaitEnds(c) \/ WaitTimesOut(c)
    \/ Release(c) \/ Close(c)

PoolNext ==
    /\ IdleBreaks \/ \E c \in Client : PoolStep(c)
    /\ UNCHANGED <<processVars, scanVars, outboxVars, observationVars, reviewVars, autoVars, runVars, cacheVars>>

CacheStep(a) ==
    \/ LookAgain(a) \/ Join(a) \/ WaitIsOver(a) \/ Wake(a) \/ AskAlone(a)
    \/ Elect(a) \/ Poll(a) \/ PollIsOver(a) \/ Ask(a) \/ Share(a) \/ Unlock(a) \/ Land(a)

CacheNext ==
    /\ \/ \E a \in Asker : LookUp(a) \/ CacheStep(a)
       \/ \E n \in Node : ServeStale(n) \/ Expire(n) \/ Evict(n)
       \/ SharedExpires \/ GuardLapses
    /\ UNCHANGED <<processVars, scanVars, outboxVars, observationVars, reviewVars, autoVars, runVars, poolVars>>

\* Everything the threads of a process have in memory goes with it.
Crash(n) ==
    /\ Dies(n)
    /\ ScansDie(n) /\ SendersDie(n) /\ ObservationDies(n) /\ ReviewerDies(n) /\ TraderDies(n)
    /\ RunsDie(n) /\ PoolDies(n) /\ CacheDies(n)

Next ==
    \/ StartNext \/ ScanNext \/ OutboxNext \/ ObservationNext \/ TimeNext \/ ReviewNext \/ AutoNext
    \/ TradingNext \/ PoolNext \/ CacheNext
    \/ \E n \in Node : Crash(n)

Spec == Init /\ [][Next]_vars

(* Processes are started again, threads go on and the time passes.  Nobody has
   to submit, to press a button, to close a run or to prune. *)
Fairness ==
    /\ WF_vars(StartNext)
    /\ WF_vars(TimeNext)
    /\ \A s \in Scan : WF_vars(Enqueue(s) /\ ScanNext)
    /\ WF_vars(RequeueLockLapses /\ ScanNext)
    /\ \A n \in Node : WF_vars(ScanStep(n) /\ ScanNext)
    /\ \A x \in Sender : WF_vars(SendStep(x) /\ OutboxNext)
    /\ WF_vars((ListPending \/ SendNext) /\ OutboxNext)
    /\ \A k \in Key : WF_vars(GetsOld(k) /\ OutboxNext)
    /\ WF_vars(CheckStep("monitor") /\ ObservationNext)
    /\ WF_vars(RoundStep /\ ObservationNext)
    /\ \A n \in Node : WF_vars(ReviewStep(n) /\ ReviewNext)
    /\ \A r \in RunId : WF_vars(RunStep(r) /\ TradingNext)

FairSpec == Spec /\ Fairness

(***************************************************************************)
(* Properties.                                                             *)
(***************************************************************************)
TypeOK ==
    /\ ProcessTypeOK /\ ScanTypeOK /\ OutboxTypeOK
    /\ ObservationTypeOK /\ ReviewTypeOK /\ AutoTypeOK
    /\ RunTypeOK /\ PoolTypeOK /\ CacheTypeOK

OneConsumer == Cardinality(env.nodes) = 1 /\ env.threads = 1

(* A scan that has ended stays as it is, although a worker that starts puts
   ids into the list that are in it already: with one scan thread, or with the
   pool, which never has an id twice.  A review that has been given stays too,
   with one reviewer. *)
EndedStaysEnded ==
    [][/\ (OneConsumer \/ ~env.redis) =>
            \A s \in Scan : scan[s] \in Ended => scan'[s] = scan[s]
       /\ Cardinality(env.reviewers) <= 1 =>
            \A r \in Run : review[r].status \in ReviewDone => review'[r] = review[r]]_vars

(* No scan stays queued for ever, over deaths of the worker between the row
   and the list and between the list and the thread: when no push and no write
   fails, and the worker is started again after the lock of its last start has
   ended. *)
EveryScanIsTaken ==
    \A s \in Scan :
        []<>(~env.lossy /\ ~env.faults /\ ~env.quick /\ Cardinality(env.nodes) = 1
             => scan[s] # "queued")

(* An alert is delivered at most once by each thread that may have it in hand,
   in each life of the thread: the key of the alert brings those who check the
   trigger again to the event that is there, and what has been sent stays so. *)
DeliveredOncePerSender ==
    ~env.refuses /\ ~env.faults /\ ~env.prune =>
        \A k \in Key : delivered[k] <= 2 * (1 + crashes) + (IF env.users THEN 1 ELSE 0)

(* No event stays queued for ever without a try, unless events that will never
   be tried again fill the window the worker looks at. *)
QueuedIsTried ==
    \A k \in Key :
        []<>(~env.faults => event[k].status # "queued" \/ Cardinality(Exhausted) >= Window)

(* No trigger waits for its scan for ever: the scan goes through the queue and
   a thread, and a check finds it ended.  (A death while the scan runs leaves
   it running for ever, and the trigger waiting.) *)
RescanIsSettled ==
    []<>(~env.lossy /\ ~env.faults /\ env.crashes = 0 => trigger.rescan = 0)

(* The scan loop stays within its budgets of the day, for scans and alerts,
   over rounds that count what earlier rounds have recorded, when every round
   gets to its end. *)
BudgetIsKept ==
    ~env.faults /\ crashes = 0 =>
        asked <= AiBudget /\ alerted <= AlertBudget

(* Every closed run that was entered for a review gets one, is skipped or has
   failed as often as it may, when nobody dies in the middle. *)
IsUndecided(r) ==
    \/ review[r].status \in {"pending", "processing"}
    \/ review[r].status = "failed" /\ review[r].attempts < ReviewAttempts

EveryReviewIsDecided ==
    \A r \in Run : []<>(~env.faults /\ env.crashes = 0 => ~IsUndecided(r))

OneTrader == Cardinality(env.traders) <= 1

(* An instance runs at most one cycle for each time it became due: also when
   the interval passes or the user starts it while its cycle runs. *)
OneCyclePerWake == OneTrader => \A i \in Instance : cycles[i] <= wakes[i]

(* The cycles of a day that place orders stay within the cap of the instance,
   whatever the user presses and over the change of the day, when every cycle
   gets to its end. *)
OrdersWithinCap ==
    OneTrader /\ ~env.faults /\ crashes = 0 => \A i \in Instance : placed[i] <= OrderCap

(* A daily run never has two orders for one of its entries that have bought
   something or may still: not when a cancel comes too late, when a call raises
   although the order was taken, or when the process dies; while the journal
   keeps its rows.  Nor do two runs on one day, when nothing fails. *)
Exposed(k) == Living(k) \/ buys[k].filled > 0

NothingFails == env.crashes = 0 /\ ~env.faults /\ ~env.slow /\ ~env.flaps

BoughtWithinPlan ==
    "forgets" \notin env.broker =>
        \A k, l \in DOMAIN buys :
            Exposed(k) /\ Exposed(l) /\ buys[k].pick = buys[l].pick
            /\ (NothingFails \/ buys[k].run = buys[l].run) => k = l

(* What a daily run has bought, or may still buy, is in its record for the
   monitor: as an order to wait for, or under a stop for all that was bought.
   (An order that fills in parts at a broker without stops gets a software stop
   for the first part alone.) *)
IsWatched(k) ==
    LET entry == run[buys[k].run].records[buys[k].pick]
    IN  /\ run[buys[k].run].saved /\ entry.order = k
        /\ \/ entry.is \in {"pending", "partial"}
           \/ ~Living(k) /\ entry.guarded = buys[k].filled

EveryBuyIsWatched ==
    []<>(/\ env.crashes = 0 /\ ~env.faults /\ "forgets" \notin env.broker
         /\ "slices" \in env.broker => "stops" \in env.broker
         => \A k \in DOMAIN buys : Exposed(k) => IsWatched(k))

(* What the comment of the scheduler says of a crash between the start of the
   run and the note that it ran: the journal of the orders covers it. *)
BoughtOnceADay ==
    \A k, l \in DOMAIN buys : Exposed(k) /\ Exposed(l) /\ buys[k].pick = buys[l].pick => k = l

(* The count of the pool is the number of connections that lie in it or are in
   somebody's hands, whoever finds which of them broken: none is lost, and
   there are never more than the pool may have.  (A connection that could not
   be made stays counted.) *)
InHand == {c \in Client : client[c] \in {"uses", "closes", "drops", "dropsFirst"}}

PoolIsSound ==
    /\ Len(idle) + Cardinality(InHand) <= connections
    /\ ~env.unreachable => connections = Len(idle) + Cardinality(InHand)

(* A flight others may wait on has one leader in its process, who has yet to
   land: nobody waits for an event that nobody will set, whatever the source,
   Redis and the waiting callers do. *)
IsLeader(a, n) ==
    NodeOf(a) = n /\ a # Refresher(n) /\ call[a].pc \in {"elect", "polls"} \union Asking

EveryFlightIsLed ==
    \A n \in Node :
        /\ flight[n] <=> \E a \in Asker : IsLeader(a, n)
        /\ \A a, b \in Asker : IsLeader(a, n) /\ IsLeader(b, n) => a = b
        /\ \A a \in Asker : NodeOf(a) = n /\ At(a, "waits") => flight[n]

(* With Redis one caller of all processes at a time asks the source for a value
   it will store, or stores it, when nothing fails and values outlive the waits. *)
IsCalm == env.redis /\ ~env.flaps /\ ~env.slow /\ ~env.faults /\ crashes = 0

OneAsksAtATime ==
    IsCalm => \A a, b \in Asker : At(a, "calls") /\ At(b, "calls") => a = b

CachePromise == EveryFlightIsLed /\ OneAsksAtATime

=============================================================================
