------------------------- MODULE NotificationOutbox -------------------------
(***************************************************************************)
(* Notification events: an outbox in the database.  Who creates an event   *)
(* tries to send it at once; the notification worker lists what is queued  *)
(* or has failed and sends that too.  Every sender reads the status,       *)
(* delivers, and writes the status without a condition.                    *)
(*                                                                         *)
(* Events are named by their dedupe key, which is unique in the table.     *)
(***************************************************************************)
EXTENDS WorkerProcess

CONSTANTS
    MaxEvent,    \* dedupe keys
    Sender,      \* threads that send
    Batch,       \* AI_OPTION_NOTIFICATION_WORKER_BATCH_SIZE
    Window,      \* rows the worker reads to find a batch in: five batches in the code
    MaxAttempts, \* AI_OPTION_NOTIFICATION_MAX_ATTEMPTS
    MaxDelivered \* bound of the counters of deliveries

ASSUME OutboxAssumption ==
    /\ MaxEvent \in Nat /\ Batch \in Nat \ {0} /\ Window \in Nat \ {0} /\ MaxAttempts \in Nat \ {0}
    /\ MaxDelivered \in Nat
    /\ {"notifier", "web"} \subseteq Sender
    /\ \A e \in Environment : {e.refuses, e.channel, e.prune} \subseteq BOOLEAN

VARIABLES
    event,     \* the rows of notification_events
    created,   \* their keys in the order of creation
    sending,   \* what each sender does, and with which event
    todo,      \* what the notification worker has listed
    delivered  \* how often the channel has accepted each event

outboxVars == <<event, created, sending, todo, delivered>>

Key == 1..MaxEvent
Quiet == [pc |-> "idle", key |-> 0]
NoEvent == [status |-> "none", attempts |-> 0, old |-> FALSE]

\* Attempts past the limit are not told apart.
MoreAttempts(k) == IF event[k].attempts < MaxAttempts THEN event[k].attempts + 1 ELSE MaxAttempts

OutboxTypeOK ==
    /\ event \in [Key -> [status : {"none", "queued", "sent", "failed"},
                          attempts : 0..MaxAttempts, old : BOOLEAN]]
    /\ created \in Seq(Key)
    /\ sending \in [Sender -> [pc : {"idle", "read", "deliver", "accepted", "refused"}, key : 0..MaxEvent]]
    /\ todo \in Seq(Key)
    /\ delivered \in [Key -> 0..MaxDelivered]

OutboxInit ==
    /\ event = [k \in Key |-> NoEvent]
    /\ created = <<>>
    /\ sending = [x \in Sender |-> Quiet]
    /\ todo = <<>>
    /\ delivered = [k \in Key |-> 0]

IsRunning(x) == x = "web" \/ IsUp(Home)

(***************************************************************************)
(* create_notification_event: a second event of the same key is the first  *)
(* one.  Its sender goes on to send it when there is a channel.            *)
(***************************************************************************)
(* Mutant of CreateAndDispatch: the event that is there is queued again. *)
CreateOrRenew(x, k) ==
    /\ event' = [event EXCEPT ![k].status = "queued"]
    /\ created' = IF event[k].status = "none" THEN Append(created, k) ELSE created
    /\ sending' = IF env.channel THEN [sending EXCEPT ![x] = [pc |-> "read", key |-> k]] ELSE sending
    /\ UNCHANGED <<todo, delivered>>

CreateAndDispatch(x, k) ==
    /\ event' = IF event[k].status = "none" THEN [event EXCEPT ![k].status = "queued"] ELSE event
    /\ created' = IF event[k].status = "none" THEN Append(created, k) ELSE created
    /\ sending' = IF env.channel THEN [sending EXCEPT ![x] = [pc |-> "read", key |-> k]] ELSE sending
    /\ UNCHANGED <<todo, delivered>>

(***************************************************************************)
(* send_notification_event.                                                *)
(***************************************************************************)
ReadEvent(x) ==
    /\ sending[x].pc = "read"
    /\ sending' = IF event[sending[x].key].status \in {"none", "sent"}
                  THEN [sending EXCEPT ![x] = Quiet]
                  ELSE [sending EXCEPT ![x].pc = "deliver"]
    /\ UNCHANGED <<event, created, todo, delivered>>

Deliver(x) ==
    /\ sending[x].pc = "deliver"
    /\ \/ /\ env.channel
          /\ delivered' = [delivered EXCEPT ![sending[x].key] = IF @ < MaxDelivered THEN @ + 1 ELSE @]
          /\ sending' = [sending EXCEPT ![x].pc = "accepted"]
       \/ /\ env.refuses \/ ~env.channel
          /\ sending' = [sending EXCEPT ![x].pc = "refused"]
          /\ UNCHANGED delivered
    /\ UNCHANGED <<event, created, todo>>

\* An UPDATE of a row that was pruned meanwhile changes nothing.
Marked(k, status) ==
    IF event[k].status = "none" THEN event
    ELSE [event EXCEPT ![k].status = status, ![k].attempts = MoreAttempts(k)]

\* A failed write of "sent" counts as a failed delivery.
MarkSent(x) ==
    /\ sending[x].pc = "accepted"
    /\ \/ event' = Marked(sending[x].key, "sent") /\ sending' = [sending EXCEPT ![x] = Quiet]
       \/ env.faults /\ sending' = [sending EXCEPT ![x].pc = "refused"] /\ UNCHANGED event
    /\ UNCHANGED <<created, todo, delivered>>

MarkFailed(x) ==
    /\ sending[x].pc = "refused"
    /\ \/ event' = Marked(sending[x].key, "failed")
       \/ env.faults /\ UNCHANGED event
    /\ sending' = [sending EXCEPT ![x] = Quiet]
    /\ UNCHANGED <<created, todo, delivered>>

(***************************************************************************)
(* The notification worker.  It reads a window, the oldest first, and       *)
(* drops from it what has failed too often or too recently.                *)
(***************************************************************************)
Unsent == Among(created, {k \in Key : event[k].status \in {"queued", "failed"}})

Exhausted == {k \in Key : event[k].status = "failed" /\ event[k].attempts = MaxAttempts}

IsPending(k) ==
    \/ event[k].status = "queued"
    \/ event[k].status = "failed" /\ event[k].attempts < MaxAttempts /\ event[k].old

First(seq, n) == SubSeq(seq, 1, IF Len(seq) < n THEN Len(seq) ELSE n)

(* Mutant of ListPending: the worker only lists what has failed. *)
ListFailed ==
    /\ IsUp(Home) /\ todo = <<>> /\ sending["notifier"] = Quiet
    /\ todo' = First(Among(First(Unsent, Window),
                           {k \in Key : event[k].status = "failed" /\ IsPending(k)}), Batch)
    /\ todo' # <<>>
    /\ UNCHANGED <<event, created, sending, delivered>>

ListPending ==
    /\ IsUp(Home) /\ todo = <<>> /\ sending["notifier"] = Quiet
    /\ todo' = First(Among(First(Unsent, Window), {k \in Key : IsPending(k)}), Batch)
    /\ todo' # <<>>
    /\ UNCHANGED <<event, created, sending, delivered>>

SendNext ==
    /\ IsUp(Home) /\ todo # <<>> /\ sending["notifier"] = Quiet
    /\ sending' = [sending EXCEPT !["notifier"] = [pc |-> "read", key |-> Head(todo)]]
    /\ todo' = Tail(todo)
    /\ UNCHANGED <<event, created, delivered>>

(* The retry delay passes; it is counted from the creation of the event.  (Only
   for failed events and for the pruning does it matter whether it has.) *)
GetsOld(k) ==
    /\ event[k].status = "failed" \/ (env.prune /\ event[k].status # "none")
    /\ ~event[k].old
    /\ event' = [event EXCEPT ![k].old = TRUE]
    /\ UNCHANGED <<created, sending, todo, delivered>>

\* prune_observation_history, once the oldest event is past the retention.
Prune ==
    /\ env.prune /\ IsUp(Home) /\ todo = <<>> /\ sending["notifier"] = Quiet
    /\ created # <<>> /\ event[Head(created)].old
    /\ event' = [event EXCEPT ![Head(created)] = NoEvent]
    /\ created' = Tail(created)
    /\ UNCHANGED <<sending, todo, delivered>>

SendersDie(n) ==
    /\ sending' = [x \in Sender |-> IF n = Home /\ x # "web" THEN Quiet ELSE sending[x]]
    /\ todo' = IF n = Home THEN <<>> ELSE todo
    /\ UNCHANGED <<event, created, delivered>>

=============================================================================
