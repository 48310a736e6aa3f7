---------------------------- MODULE StrategyTrade ----------------------------
(***************************************************************************)
(* A strategy position from its entry to its exit: StrategyEntry opens it, *)
(* StrategyExit watches and closes it, one handler at a time, while the    *)
(* broker fills and refuses orders at any moment.                          *)
(***************************************************************************)
EXTENDS StrategyEntry, StrategyExit

Handler == EntryNext \/ Pass \/ Flatten \/ Persist

Next == Handler \/ BeginPass \/ BeginFlatten \/ Crash \/ Broker

Spec == Init /\ [][Next]_vars

(***************************************************************************)
(* The monitor thread passes every few seconds and its steps return.       *)
(* Nothing makes a limit order fill, a price move or a user act.           *)
(***************************************************************************)
Fairness == WF_vars(BeginPass) /\ WF_vars(Handler) /\ WF_vars(BrokerDecides)

FairSpec == Spec /\ Fairness

-----------------------------------------------------------------------------
(* Correctness *)

(* What working orders may still take away *)
Leaving(o) == IF o.part # "entry" /\ Alive(o) THEN o.qty - o.filled ELSE 0

(* Where exits are in doubt the record does not know what it closes: orders
   that fill in parts, calls whose end is not known, a process that dies and
   sees another trigger or walks when it is back, or that comes back to a
   journal that has forgotten what it sent (after more than 900 s, or because
   the rows could not be written or read), a walk after half of the position
   was closed, a user who closes too, a flatten after the process has died or
   of a residual leg. *)
FlattensWhole ==
    env.faults = {} /\ env.rejects = {} /\ ~env.gates /\ "entry" \notin env.limit \cup env.slow

TameExit ==
    /\ "exit" \notin env.slices /\ env.lost = {} /\ env.late = {}
    /\ "exit" \in env.crash =>
          /\ "exit" \notin env.limit \cup env.forgets
          /\ Cardinality(env.signals \cap Trigger) = 1
    /\ env.tiered => "exit" \notin env.limit
    /\ env.flatten => FlattensWhole /\ "exit" \notin env.crash
    /\ ~env.manual

Tame == TameExit /\ env.slices = {}

(* No leg is closed twice, even if every order that is at work fills: neither
   by a pass that comes again after a crash, nor by the walk of a limit, nor by
   a flatten in between.  After a crash that is so while the journal shows what
   was sent. *)
NeverOverclosed == Tame => \A leg \in Leg : Sum(Leaving, leg) <= Held(leg)

(* A priced entry whose earlier attempts are forgotten is sent again whatever
   has become of them, and the record knows the last of its orders. *)
EntryIsRemembered == "entry" \in env.limit => "entry" \notin env.forgets

(* What was sold short is never held without what was bought against it, when
   the orders are decided within the wait and as a whole.  (A monitor that died
   during the wait takes a cover over that is not decided.) *)
NeverNaked ==
    /\ Tame /\ EntryIsRemembered
    /\ env.slow = {} /\ "exit" \notin env.crash
    /\ ~env.flatten
    => Held("short") <= Held("long")

(* Between two passes no open leg is without a keeper: the position is watched,
   its exit is reconciled, a long leg is tracked on its own or the user has
   been told.  This is for entries that are decided within the wait. *)
Kept(leg) ==
    \/ rec.active \/ rec.told \/ ReconcileNeeded(rec)
    \/ leg = "long" /\ rec.residual > 0

OpenLegsAreKept ==
    /\ TameExit /\ ~env.tiered /\ pc = "idle"
    /\ env.crash \subseteq {"exit"} /\ env.faults \subseteq {"exit"}
    /\ "entry" \notin env.limit \cup env.slow
    => \A leg \in Leg : Held(leg) # 0 => Kept(leg)

(* A record that says the position is closed is right: nothing is held any more. *)
ClosedMeansFlat ==
    Tame /\ EntryIsRemembered /\ ~env.tiered /\ rec.exit = "filled" => \A leg \in Leg : Held(leg) = 0

(* A leg whose exit was sent is walked until the broker has decided it, when
   the trigger cannot come a second time.  (The record of the exit itself may
   stay open: a failed question about a leg that has filled hides that the
   last one has.) *)
IsSeenThrough == Tame /\ ~env.tiered /\ ~env.flatten /\ env.signals \subseteq {"tp1", "quiet"}

ExitIsSeenThrough ==
    \A leg \in Leg :
        (IsSeenThrough /\ rec.legs[leg].status = "submitted") ~> (rec.legs[leg].status # "submitted")

(* A position the user has closed at the broker is found out and let go. *)
ManualCloseIsNoticed == ("manual" \in spent) ~> ~rec.active

=============================================================================
