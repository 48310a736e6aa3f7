------------------------------ MODULE MCWorker ------------------------------
(***************************************************************************)
(* Worker in deployments that each look at one part of it, or at two parts *)
(* that meet.                                                              *)
(***************************************************************************)
EXTENDS Worker, TLC

\* One worker that nobody asks for anything.
Bare ==
    [nodes |-> {Home}, crashes |-> 0, redis |-> TRUE, quick |-> FALSE, slow |-> FALSE, faults |-> FALSE,
     scans |-> 0, users |-> FALSE, threads |-> 1, lossy |-> FALSE,
     refuses |-> FALSE, channel |-> TRUE, prune |-> FALSE,
     trigger |-> "none", times |-> 2, loop |-> "none", symbols |-> Symbol,
     closes |-> {}, skips |-> {}, reviewers |-> {},
     traders |-> {}, instances |-> {}, presses |-> {}, wakes |-> 0, days |-> 0,
     clients |-> {}, breaks |-> FALSE, unreachable |-> FALSE,
     schedulers |-> {}, runs |-> 1, picks |-> 1, broker |-> {},
     askers |-> {}, stale |-> FALSE, flaps |-> FALSE]

\* Scans.
ScansCrash == [Bare EXCEPT !.users = TRUE, !.scans = 2, !.crashes = 2]
ScansFail == [Bare EXCEPT !.users = TRUE, !.scans = 2, !.crashes = 1, !.quick = TRUE, !.lossy = TRUE, !.faults = TRUE]
ScansShared == [Bare EXCEPT !.users = TRUE, !.scans = 1, !.nodes = Node, !.slow = TRUE]
ScansInPool == [Bare EXCEPT !.users = TRUE, !.scans = 3, !.redis = FALSE, !.threads = 2, !.crashes = 1]

\* Triggers and their alerts.
Alerts == [Bare EXCEPT !.trigger = "price", !.crashes = 1]
AlertsByUsers == [Bare EXCEPT !.trigger = "price", !.users = TRUE]
AlertsRefused == [Bare EXCEPT !.trigger = "price", !.times = 2, !.refuses = TRUE]
AlertsFail == [Bare EXCEPT !.trigger = "price", !.times = 1, !.faults = TRUE]
AlertsPruned == [Bare EXCEPT !.trigger = "price", !.prune = TRUE]
AlertsUnsent == [Bare EXCEPT !.trigger = "price", !.times = 3, !.channel = FALSE]
Rescans == [Bare EXCEPT !.scans = 3, !.trigger = "rescan"]
RescansCrash == [Bare EXCEPT !.scans = 2, !.trigger = "rescan", !.crashes = 1]

\* The scan loop.
LoopAlerts == [Bare EXCEPT !.scans = 2, !.loop = "alerts"]
LoopDigest == [Bare EXCEPT !.scans = 2, !.loop = "digest"]
LoopFails == [Bare EXCEPT !.scans = 1, !.loop = "digest", !.faults = TRUE, !.symbols = {"s1"}, !.times = 3, !.channel = FALSE]

\* Reviews.
Reviews == [Bare EXCEPT !.closes = Run, !.skips = {"r2"}, !.reviewers = {Home}]
ReviewsCrash == [Reviews EXCEPT !.crashes = 1, !.faults = TRUE]
ReviewsTwice == [Reviews EXCEPT !.reviewers = Node, !.nodes = Node, !.closes = {"r1"}]

\* Automatic trading.
Trades == [Bare EXCEPT !.traders = {Home}, !.instances = {"i1"}, !.wakes = 3, !.days = 1,
                       !.presses = {"start", "stop", "pause"}]
TradesCrash == [Trades EXCEPT !.instances = Instance, !.wakes = 1, !.presses = {}, !.crashes = 1, !.faults = TRUE]
TradesTwice == [Trades EXCEPT !.instances = Instance, !.wakes = 1, !.days = 0, !.presses = {},
                              !.traders = Node, !.nodes = Node, !.slow = TRUE]

\* The daily run.
Daily == [Bare EXCEPT !.schedulers = Node, !.nodes = Node, !.runs = 2, !.broker = {"slices", "late", "refuses", "stops"}]
DailySoft == [Bare EXCEPT !.schedulers = {Home}, !.runs = 2, !.picks = 2, !.broker = {"late"}]
DailyCrash == [DailySoft EXCEPT !.picks = 1, !.crashes = 1]
DailyFails == [DailySoft EXCEPT !.picks = 1, !.runs = 1, !.faults = TRUE, !.broker = {"slices", "stops"}]
DailyFlaps == [DailySoft EXCEPT !.picks = 1, !.flaps = TRUE, !.broker = {}]
DailyForgets == [DailySoft EXCEPT !.picks = 1, !.broker = {"late", "forgets"}]

\* Connections.
Connections == [Bare EXCEPT !.clients = Client, !.breaks = TRUE, !.crashes = 1]
ConnectionsRefused == [Bare EXCEPT !.clients = Client, !.unreachable = TRUE]

\* Cached values, asked for by two threads of one process and one of another.
AllAskers == {<<Home, k>> : k \in Caller} \union {<<n, "t1">> : n \in Node}
Cached == [Bare EXCEPT !.askers = AllAskers, !.nodes = Node]
CachedStale == [Cached EXCEPT !.stale = TRUE, !.askers = {<<n, "t1">> : n \in Node}]
CachedFails == [Cached EXCEPT !.faults = TRUE, !.crashes = 1, !.askers = {<<n, "t1">> : n \in Node}]
CachedSlowly == [Cached EXCEPT !.slow = TRUE, !.flaps = TRUE, !.nodes = {Home}]
CachedAtHome == [CachedSlowly EXCEPT !.redis = FALSE, !.faults = TRUE, !.stale = TRUE]

Deployments ==
    {ScansCrash, ScansFail, ScansShared, ScansInPool,
     Alerts, AlertsByUsers, AlertsRefused, AlertsFail, AlertsPruned, AlertsUnsent, Rescans, RescansCrash,
     LoopAlerts, LoopDigest, LoopFails,
     Reviews, ReviewsCrash, ReviewsTwice, Trades, TradesCrash, TradesTwice,
     Daily, DailySoft, DailyCrash, DailyFails, DailyFlaps, DailyForgets,
     Connections, ConnectionsRefused,
     Cached, CachedStale, CachedFails, CachedSlowly, CachedAtHome}

Crashes == {DailyCrash}

=============================================================================
