-------------------------- MODULE NotificationProps --------------------------
(* What the notification service promises of messages and their log.       *)
EXTENDS Notification

\* A delivery is logged as successful only if the provider took the message:
\* attempts whose answer was lost, refusals with a 200 and the two deliveries
\* that share a session all come before the row.
LogIsTruthful ==
    \A m \in Messages, c \in Channels : log[m][c] = "sent" => copies[m][c] > 0

\* Each channel an acknowledged message had to go to left a row in the log or
\* ended in an exception: nothing is dropped between the routing and the XACK.
AckedIsAccounted ==
    \A m \in acked : \A c \in targets[m] :
        log[m][c] # "none" \/ c \in raised[m]

\* An event the router knows, for a borrower who can be reached, is delivered:
\* the variables its SMS, its subject and its email mention are among those the
\* consumer builds for it. One that does not render is acknowledged and lost.
NothingLostInRendering ==
    \A m \in acked : targets[m] # {} => \E c \in Channels :
        log[m][c] # "none" \/ c \in raised[m]

\* What the log and the acknowledgements tell of deliveries is true and
\* complete, whatever the providers, the shared session and crashes do.
DeliveriesAccounted == LogIsTruthful /\ AckedIsAccounted /\ NothingLostInRendering

\* A borrower who had opted out of a channel when an event was published is
\* not contacted over that channel for it, however late the consumer comes to
\* it: preferences are read when the delivery begins.
OptOutRespected ==
    \A m \in Published : \A c \in suppressed[m] : copies[m][c] = 0

\* Where each message is. One that the stream has delivered is in the batch, at
\* hand, acknowledged or abandoned; "lost" is a state the mailbox does not know.
Mail == [m \in Messages |->
            IF m > Len(entry) THEN "absent"
            ELSE IF m \in Elements(unread) THEN "waiting"
            ELSE IF m = current \/ m \in Elements(batch) THEN "taken"
            ELSE IF m \in acked THEN "acked"
            ELSE IF m \in left THEN "left"
            ELSE "lost"]

Box == INSTANCE Mailbox WITH mail <- Mail

\* The consumer implements the mailbox: what it has taken, in batches, it
\* acknowledges or abandons, once, and no message falls between its batches.
ImplementsMailbox == Box!MailSpec

\* Every message on the stream is acknowledged or was abandoned by a consumer
\* that failed while it had it: no delivery keeps the consumer for ever.
MessagesHandled ==
    \A m \in Messages : (m \in Published) ~> (m \in acked \cup left)
=============================================================================
