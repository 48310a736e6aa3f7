--------------------------- MODULE MCStrategyTrade ---------------------------
(***************************************************************************)
(* StrategyTrade for a position of two units: enough for a first target    *)
(* that closes half, for fills in parts and for a walk of one step.        *)
(***************************************************************************)
EXTENDS StrategyTrade, TLC

\* Market orders that fill or are refused within the wait.
Plain ==
    [limit |-> {}, slices |-> {}, slow |-> {}, rejects |-> {}, crash |-> {}, faults |-> {},
     lost |-> {}, late |-> {}, forgets |-> {}, gates |-> FALSE, tiered |-> FALSE, auto |-> TRUE,
     manual |-> FALSE, flatten |-> FALSE, signals |-> {"stop", "quiet"}]

\* A priced entry whose legs are refused, stay unfilled or meet failed calls.
Entering == [Plain EXCEPT !.limit = {"entry"}, !.slow = {"entry"}, !.rejects = {"entry"},
                          !.faults = {"entry"}, !.gates = TRUE, !.signals = {"quiet"}]
EnteringSliced == [Entering EXCEPT !.slices = {"entry"}, !.faults = {"entry"}, !.slow = {},
                                   !.limit = {}, !.flatten = TRUE]
EnteringUnwinds == [Plain EXCEPT !.slices = {"entry"},
                                 !.rejects = {"entry", "exit"}, !.faults = {"exit"}, !.gates = TRUE]
EnteringLate == [Entering EXCEPT !.late = {"entry"}, !.faults = {}]

\* Every trigger, with exits that are refused or cannot be sent.
Exiting == [Plain EXCEPT !.rejects = {"exit"}, !.faults = {"exit"}, !.signals = Signal]
ExitingLate == [Plain EXCEPT !.rejects = {"exit"}, !.faults = {"exit"}, !.slow = {"exit"}]
ExitingLost == [Plain EXCEPT !.faults = {"exit"}, !.lost = {"exit"}]
Walking == [Plain EXCEPT !.limit = {"exit"}, !.rejects = {"exit"}, !.faults = {"exit"},
                         !.signals = {"tp1", "quiet"}]
Crashing == [Plain EXCEPT !.crash = {"exit"}, !.rejects = {"exit"}, !.faults = {"exit"},
                          !.slow = {"exit"}, !.signals = {"stop", "quiet"}]
Tiered == [Plain EXCEPT !.tiered = TRUE, !.rejects = {"exit"}, !.slow = {"exit"},
                        !.signals = {"tp1", "tp2"}]
Flattening == [Plain EXCEPT !.limit = {"exit"}, !.flatten = TRUE]
WalkingLate == [Walking EXCEPT !.late = {"exit"}, !.rejects = {}]
FlatteningFails == [Plain EXCEPT !.flatten = TRUE, !.faults = {"exit"}, !.rejects = {"exit"}]
Announcing == [Plain EXCEPT !.auto = FALSE, !.signals = Signal]
AnnouncingTiered == [Announcing EXCEPT !.tiered = TRUE]
Closing == [Plain EXCEPT !.manual = TRUE, !.faults = {"exit"}]

\* A priced entry, and every order decided within the wait.
EnteringWaits == [Entering EXCEPT !.slow = {}, !.faults = {"exit"}, !.crash = {"entry"}]

\* A journal that forgets: of an entry that is priced, of exits.
EnteringForgets == [Plain EXCEPT !.limit = {"entry"}, !.slow = {"entry"}, !.faults = {"entry"},
                                 !.forgets = {"entry"}]
ExitingForgets == [Plain EXCEPT !.rejects = {"exit"}, !.faults = {"exit"}, !.slow = {"exit"},
                                !.forgets = {"exit"}]

TameEnvironments ==
    {Entering, EnteringSliced, EnteringUnwinds, EnteringLate, EnteringWaits, EnteringForgets,
     Exiting, ExitingLate, ExitingLost, ExitingForgets, Walking, WalkingLate, Crashing, Tiered,
     Flattening, FlatteningFails, Announcing, AnnouncingTiered, Closing}

=============================================================================
