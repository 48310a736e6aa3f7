-------------------------- MODULE MCSingleLegExit --------------------------
(***************************************************************************)
(* SingleLegExit, and what TradeInstance shows of it, for a position of    *)
(* two contracts: enough for fills in parts, for two take-profit targets   *)
(* and for an exit of the rest.                                            *)
(***************************************************************************)
EXTENDS TradeInstance, TLC

\* A broker with stop orders; the entry fills in parts.
Plain ==
    [nativeStop |-> TRUE, tiered |-> TRUE, adaptive |-> FALSE, smart |-> FALSE,
     slices |-> {"entry"}, rejects |-> FALSE, crash |-> FALSE, lost |-> FALSE,
     late |-> FALSE, reserves |-> TRUE, flatten |-> FALSE, outage |-> FALSE]

Smart == [Plain EXCEPT !.smart = TRUE, !.tiered = FALSE]
Flatten == [Plain EXCEPT !.flatten = TRUE]

\* The same with exits that are refused, after the stops were canceled.
Refused == [Smart EXCEPT !.slices = {}, !.rejects = TRUE]

\* A broker without stop orders, exits that walk or are refused.
Soft == [Plain EXCEPT !.nativeStop = FALSE, !.rejects = TRUE]
SoftSmart == [Soft EXCEPT !.smart = TRUE]
Adaptive == [Soft EXCEPT !.adaptive = TRUE]
SoftWalk == [SoftSmart EXCEPT !.adaptive = TRUE, !.rejects = FALSE, !.slices = {}]
AdaptiveFlatten == [Adaptive EXCEPT !.flatten = TRUE, !.tiered = FALSE]

TameEnvironments == {SoftWalk, Plain, Smart, Refused, Flatten, SoftSmart, Adaptive, AdaptiveFlatten}

\* One take-profit target whose order fills or is refused as a whole.
Single == [Adaptive EXCEPT !.slices = {}, !.tiered = FALSE]
SingleLate == [Single EXCEPT !.late = TRUE]

\* The process dies once; a call that failed may have been executed.
Crashing == [Plain EXCEPT !.tiered = FALSE, !.crash = TRUE]
Lossy == [Plain EXCEPT !.tiered = FALSE, !.slices = {}, !.lost = TRUE]

\* Quotes stay away; the broker has no stop orders.
Blind == [Soft EXCEPT !.outage = TRUE, !.slices = {}]
BlindOnly == {Blind}

AllEnvironments == TameEnvironments \union {Single, SingleLate, Crashing, Lossy, Blind}

\* Exits that fill in parts; two targets that fill as a whole.
SlicesOnly == {[Adaptive EXCEPT !.slices = {"exit"}, !.rejects = FALSE, !.tiered = FALSE]}
TieredOnly == {[Adaptive EXCEPT !.slices = {}, !.rejects = FALSE]}

=============================================================================
