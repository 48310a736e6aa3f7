---------------------------- MODULE TradeReviews ----------------------------
(***************************************************************************)
(* Post-mortem reviews of closed runs.  A pass of the worker first enters  *)
(* the closed runs that have no row yet, then takes the pending and the    *)
(* failed rows one by one: processing, a call of the AI, and the result.   *)
(* Every write is unconditional.                                           *)
(***************************************************************************)
EXTENDS WorkerProcess

CONSTANTS
    Run,           \* trading runs
    ReviewAttempts \* AI_OPTION_POST_MORTEM_MAX_ATTEMPTS

ASSUME ReviewAssumption ==
    /\ IsFiniteSet(Run) /\ "none" \notin Run /\ ReviewAttempts \in Nat \ {0}
    /\ \A e \in Environment : e.closes \subseteq Run /\ e.skips \subseteq Run /\ e.reviewers \subseteq Node

VARIABLES
    closed,  \* runs in a terminal state
    review,  \* the rows of trade_reviews
    reviewer \* what the worker thread of each process does

reviewVars == <<closed, review, reviewer>>

ReviewDone == {"completed", "skipped"}
Resting == [pc |-> "idle", ids |-> {}, run |-> "none"]

ReviewTypeOK ==
    /\ closed \subseteq Run
    /\ review \in [Run -> [status : {"none", "pending", "processing", "failed"} \union ReviewDone,
                           attempts : Nat]]
    /\ reviewer \in [Node -> [pc : {"idle", "entering", "inserting", "skipping", "listing", "picking", "asking"},
                              ids : SUBSET Run, run : Run \union {"none"}]]

ReviewInit ==
    /\ closed = {}
    /\ review = [r \in Run |-> [status |-> "none", attempts |-> 0]]
    /\ reviewer = [n \in Node |-> Resting]

RunCloses(r) ==
    /\ r \in env.closes \ closed
    /\ closed' = closed \union {r}
    /\ UNCHANGED <<review, reviewer>>

(***************************************************************************)
(* First half of a pass: list_unreviewed_closed_run_ids, and for each run  *)
(* upsert_pending_review, which looks and then inserts, and the skip.      *)
(***************************************************************************)
BeginPass(n) ==
    /\ IsUp(n) /\ n \in env.reviewers /\ reviewer[n] = Resting
    /\ reviewer' = [reviewer EXCEPT ![n] =
          [Resting EXCEPT !.pc = "entering", !.ids = {r \in closed : review[r].status = "none"}]]
    /\ UNCHANGED <<closed, review>>

EnterRun(n, r) ==
    /\ reviewer[n].pc = "entering" /\ r \in reviewer[n].ids
    /\ reviewer' = [reviewer EXCEPT ![n] =
          [pc |-> IF review[r].status = "none" THEN "inserting" ELSE "skipping", ids |-> @.ids \ {r}, run |-> r]]
    /\ UNCHANGED <<closed, review>>

\* The run id is the primary key: a second insert fails and ends the pass.
InsertReview(n) ==
    /\ reviewer[n].pc = "inserting"
    /\ IF review[reviewer[n].run].status = "none"
       THEN /\ review' = [review EXCEPT ![reviewer[n].run].status = "pending"]
            /\ reviewer' = [reviewer EXCEPT ![n].pc = "skipping"]
       ELSE /\ reviewer' = [reviewer EXCEPT ![n] = Resting]
            /\ UNCHANGED review
    /\ UNCHANGED closed

SkipReview(n) ==
    /\ reviewer[n].pc = "skipping"
    /\ review' = IF reviewer[n].run \in env.skips
                 THEN [review EXCEPT ![reviewer[n].run].status = "skipped"] ELSE review
    /\ reviewer' = [reviewer EXCEPT ![n].pc = "entering", ![n].run = "none"]
    /\ UNCHANGED closed

AllEntered(n) ==
    /\ reviewer[n].pc = "entering" /\ reviewer[n].ids = {}
    /\ reviewer' = [reviewer EXCEPT ![n].pc = "listing"]
    /\ UNCHANGED <<closed, review>>

(***************************************************************************)
(* Second half: list_pending_review_run_ids, then one review after the     *)
(* other.                                                                  *)
(***************************************************************************)
IsOpen(r) == review[r].status \in {"pending", "failed"} /\ review[r].attempts < ReviewAttempts

ListOpen(n) ==
    /\ reviewer[n].pc = "listing"
    /\ reviewer' = [reviewer EXCEPT ![n] =
          [Resting EXCEPT !.pc = "picking", !.ids = {r \in Run : IsOpen(r)}]]
    /\ UNCHANGED <<closed, review>>

MarkProcessing(n, r) ==
    /\ reviewer[n].pc = "picking" /\ r \in reviewer[n].ids
    /\ review' = [review EXCEPT ![r] = [status |-> "processing", attempts |-> @.attempts + 1]]
    /\ reviewer' = [reviewer EXCEPT ![n] = [pc |-> "asking", ids |-> @.ids \ {r}, run |-> r]]
    /\ UNCHANGED closed

(* Mutant of Reviewed: the result of a call that failed is not written. *)
ReviewedWhenDone(n) ==
    /\ reviewer[n].pc = "asking"
    /\ \/ review' = [review EXCEPT ![reviewer[n].run].status = "completed"]
       \/ UNCHANGED review
    /\ reviewer' = [reviewer EXCEPT ![n].pc = "picking", ![n].run = "none"]
    /\ UNCHANGED closed

Reviewed(n) ==
    /\ reviewer[n].pc = "asking"
    /\ \E end \in {"completed", "failed"} : review' = [review EXCEPT ![reviewer[n].run].status = end]
    /\ reviewer' = [reviewer EXCEPT ![n].pc = "picking", ![n].run = "none"]
    /\ UNCHANGED closed

\* A write that fails ends the pass and leaves the row as it is.
PassFails(n) ==
    /\ env.faults /\ reviewer[n].pc # "idle"
    /\ reviewer' = [reviewer EXCEPT ![n] = Resting]
    /\ UNCHANGED <<closed, review>>

EndPass(n) ==
    /\ reviewer[n].pc = "picking" /\ reviewer[n].ids = {}
    /\ reviewer' = [reviewer EXCEPT ![n] = Resting]
    /\ UNCHANGED <<closed, review>>

ReviewerDies(n) ==
    /\ reviewer' = [reviewer EXCEPT ![n] = Resting]
    /\ UNCHANGED <<closed, review>>

=============================================================================
