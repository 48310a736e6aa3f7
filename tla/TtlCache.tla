------------------------------ MODULE TtlCache ------------------------------
(***************************************************************************)
(* One key of a TTLCache that several processes share through Redis: each  *)
(* has an item of its own, a flight the callers of the process gather on,  *)
(* and a thread that refreshes a stale item in the background.  A lock in  *)
(* Redis keeps the processes apart.                                        *)
(***************************************************************************)
EXTENDS WorkerProcess

CONSTANT Caller  \* numbers of the threads of a process that ask for the key

ASSUME CacheAssumption ==
    /\ IsFiniteSet(Caller) /\ "refresh" \notin Caller
    /\ \A e \in Environment :
        /\ e.askers \subseteq Node \X Caller
        /\ e.stale \in BOOLEAN

VARIABLES
    item,    \* the item of the key in each process
    shared,  \* whether Redis has a value that has not expired
    guard,   \* who made the lock of the key in Redis, which its value does not say
    flight,  \* whether the key is in _inflight
    call     \* where each caller is, and whether it made the lock

cacheVars == <<item, shared, guard, flight, call>>

Asker == Node \X (Caller \union {"refresh"})
NodeOf(a) == a[1]
Refresher(n) == <<n, "refresh">>

NoOne == <<"none", "none">>
NoCall == [pc |-> "out", leads |-> FALSE]
CallPc == {"out", "again", "missed", "waits", "woken", "alone", "elect", "polls",
           "calls", "shares", "unlocks", "lands"}

CacheTypeOK ==
    /\ item \in [Node -> {"none", "fresh", "stale"}]
    /\ shared \in BOOLEAN
    /\ guard \in Asker \union {NoOne}
    /\ flight \in [Node -> BOOLEAN]
    /\ call \in [Asker -> [pc : CallPc, leads : BOOLEAN]]

CacheInit ==
    /\ item = [n \in Node |-> "none"]
    /\ shared = FALSE
    /\ guard = NoOne
    /\ flight = [n \in Node |-> FALSE]
    /\ call = [a \in Asker |-> NoCall]

\* At work for a value, from the question to the end of the flight.
Asking == {"calls", "shares", "unlocks", "lands"}

At(a, pc) == call[a].pc = pc
Goes(a, pc) == call' = [call EXCEPT ![a].pc = pc]
Returns(a) == call' = [call EXCEPT ![a] = NoCall]

\* Whoever made the lock is at work for it.
IsGuarded == \E a \in Asker : guard = a /\ call[a].leads

\* _get_fresh
FindsFresh(n, up) == (up /\ shared) \/ item[n] = "fresh"

(***************************************************************************)
(* get_or_set, behind get_or_set_stale_while_revalidate when env.stale.    *)
(***************************************************************************)
LookUp(a) ==
    /\ IsUp(NodeOf(a)) /\ a \in env.askers /\ At(a, "out")
    /\ env.stale => item[NodeOf(a)] = "none"
    /\ \E up \in Answers : ~FindsFresh(NodeOf(a), up)
    /\ Goes(a, IF env.stale THEN "again" ELSE "missed")
    /\ UNCHANGED <<item, shared, guard, flight>>

\* A stale item is returned at once, and refreshed unless a refresh is under way.
ServeStale(n) ==
    /\ IsUp(n) /\ env.stale /\ item[n] = "stale"
    /\ \E a \in env.askers : NodeOf(a) = n /\ At(a, "out")
    /\ \E up \in Answers : ~FindsFresh(n, up)
    /\ At(Refresher(n), "out") /\ Goes(Refresher(n), "elect")
    /\ UNCHANGED <<item, shared, guard, flight>>

LookAgain(a) ==
    /\ At(a, "again")
    /\ \E up \in Answers : IF FindsFresh(NodeOf(a), up) THEN Returns(a) ELSE Goes(a, "missed")
    /\ UNCHANGED <<item, shared, guard, flight>>

Join(a) ==
    /\ At(a, "missed")
    /\ IF item[NodeOf(a)] = "fresh" THEN Returns(a) /\ UNCHANGED flight
       ELSE IF flight[NodeOf(a)] THEN Goes(a, "waits") /\ UNCHANGED flight
       ELSE Goes(a, "elect") /\ flight' = [flight EXCEPT ![NodeOf(a)] = TRUE]
    /\ UNCHANGED <<item, shared, guard>>

WaitIsOver(a) ==
    /\ At(a, "waits") /\ env.slow
    /\ Goes(a, "woken")
    /\ UNCHANGED <<item, shared, guard, flight>>

\* A caller that has waited for nothing asks the source, and keeps the answer to itself.
Wake(a) ==
    /\ At(a, "woken")
    /\ \E up \in Answers : IF FindsFresh(NodeOf(a), up) THEN Returns(a) ELSE Goes(a, "alone")
    /\ UNCHANGED <<item, shared, guard, flight>>

AskAlone(a) ==
    /\ At(a, "alone") /\ Returns(a)
    /\ UNCHANGED <<item, shared, guard, flight>>

(* With Redis the lock decides: who does not get it waits for the value of the
   other one, or leaves when it is only a refresh. *)
Elect(a) ==
    /\ At(a, "elect")
    /\ \/ FALSE \in Answers /\ Goes(a, "calls") /\ UNCHANGED guard
       \/ /\ TRUE \in Answers /\ guard = NoOne
          /\ guard' = a
          /\ call' = [call EXCEPT ![a] = [pc |-> "calls", leads |-> TRUE]]
       \/ /\ TRUE \in Answers /\ (guard # NoOne \/ FALSE \in Answers)
          /\ Goes(a, IF a = Refresher(NodeOf(a)) THEN "lands" ELSE "polls")
          /\ UNCHANGED guard
    /\ UNCHANGED <<item, shared, flight>>

-----------------------------------------------------------------------------
(* _finish_inflight, or the end of the refresh *)
Land(a) ==
    /\ At(a, "lands")
    /\ IF a = Refresher(NodeOf(a))
       THEN Returns(a) /\ UNCHANGED flight
       ELSE /\ call' = [b \in Asker |->
                  IF b = a THEN NoCall
                  ELSE IF At(b, "waits") /\ NodeOf(b) = NodeOf(a) THEN [call[b] EXCEPT !.pc = "woken"]
                  ELSE call[b]]
            /\ flight' = [flight EXCEPT ![NodeOf(a)] = FALSE]
    /\ UNCHANGED <<item, shared, guard>>

(* Mutant of Poll: who has found the value of another process forgets those
   who wait for it in its own. *)
PollReturns(a) ==
    /\ At(a, "polls")
    /\ \E up \in Answers : FindsFresh(NodeOf(a), up)
    /\ Returns(a)
    /\ UNCHANGED <<item, shared, guard, flight>>

\* _wait_for_redis_value
Poll(a) ==
    /\ At(a, "polls")
    /\ \E up \in Answers : FindsFresh(NodeOf(a), up)
    /\ Goes(a, "lands")
    /\ UNCHANGED <<item, shared, guard, flight>>

\* Seconds pass: less than a call takes, unless it is slow.
PollIsOver(a) ==
    /\ At(a, "polls")
    /\ env.slow \/ ~IsGuarded
    /\ \E up \in Answers : ~FindsFresh(NodeOf(a), up)
    /\ Goes(a, "calls")
    /\ UNCHANGED <<item, shared, guard, flight>>

\* The source answers, and the item is stored; or it raises.
Ask(a) ==
    /\ At(a, "calls")
    /\ \/ item' = [item EXCEPT ![NodeOf(a)] = "fresh"] /\ Goes(a, "shares")
       \/ env.faults /\ Goes(a, "unlocks") /\ UNCHANGED item
    /\ UNCHANGED <<shared, guard, flight>>

Share(a) ==
    /\ At(a, "shares")
    /\ \E up \in Answers : shared' = (shared \/ up)
    /\ Goes(a, "unlocks")
    /\ UNCHANGED <<item, guard, flight>>

\* The lock is deleted whoever has made the one that is there.
Unlock(a) ==
    /\ At(a, "unlocks")
    /\ \E up \in Answers : guard' = IF call[a].leads /\ up THEN NoOne ELSE guard
    /\ Goes(a, "lands")
    /\ UNCHANGED <<item, shared, flight>>

-----------------------------------------------------------------------------
(* The time, and what else ends an item. *)

\* A value lives longer than it takes to unlock it and to look for it, unless that is slow.
IsLookedFor == \E a \in Asker : call[a].pc \in {"shares", "unlocks", "polls", "woken"}

Expire(n) ==
    /\ item[n] = "fresh" /\ (env.slow \/ ~IsLookedFor)
    /\ item' = [item EXCEPT ![n] = "stale"]
    /\ UNCHANGED <<shared, guard, flight, call>>

\* Other keys crowd it out, or the cache is cleared.
Evict(n) ==
    /\ item[n] # "none" /\ (env.slow \/ ~IsLookedFor)
    /\ item' = [item EXCEPT ![n] = "none"]
    /\ UNCHANGED <<shared, guard, flight, call>>

SharedExpires ==
    /\ shared /\ (env.slow \/ ~IsLookedFor)
    /\ shared' = FALSE
    /\ UNCHANGED <<item, guard, flight, call>>

\* The lock lives twice as long as anybody waits.
GuardLapses ==
    /\ guard # NoOne
    /\ env.slow \/ ~IsGuarded
    /\ guard' = NoOne
    /\ UNCHANGED <<item, shared, flight, call>>

CacheDies(n) ==
    /\ item' = [item EXCEPT ![n] = "none"]
    /\ flight' = [flight EXCEPT ![n] = FALSE]
    /\ call' = [a \in Asker |-> IF NodeOf(a) = n THEN NoCall ELSE call[a]]
    /\ UNCHANGED <<shared, guard>>

=============================================================================
