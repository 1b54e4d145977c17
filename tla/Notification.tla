---------------------------- MODULE Notification ----------------------------
(***************************************************************************)
(* The notification service: one consumer reads loan.events and            *)
(* repayment.events, and for each message delivers over its channels at    *)
(* the same time, on one database session, logs each delivery and          *)
(* acknowledges the message whatever the outcome. The reminder worker      *)
(* publishes repayment.due_soon on the same stream.                        *)
(*                                                                         *)
(* The consumer reads new messages only: one that was delivered and not    *)
(* acknowledged, because the process died or the loop met an error, is     *)
(* never read again. The borrower here is one; messages differ.            *)
(***************************************************************************)
EXTENDS Integers, Sequences

CONSTANTS
    MaxMessages,   \* bound on the entries of the streams
    Kinds,         \* contents of entries: event, readable, contacts
    Due,           \* due date of the borrower's next installment, in days
    ReminderDays,  \* reminder_days_before
    MaxDay,        \* the calendar stops here
    BatchSize,     \* consumer_batch_size
    MaxTries,      \* attempts of one send()
    Leavable       \* channels the borrower may opt out of

Channels == {"sms", "email"}
Messages == 1 .. MaxMessages   \* ids of stream entries, ascending
NoMessage == 0                 \* the message of an idle consumer

\* Events are named without the part before the dot.
Reminder == [event |-> "due_soon", readable |-> TRUE, contacts |-> Channels]

ASSUME KindsAssumption ==
    \A k \in Kinds : k.readable \in BOOLEAN /\ k.contacts \subseteq Channels
ASSUME BoundsAssumption ==
    /\ Due \in Nat /\ MaxDay \in Nat /\ ReminderDays \subseteq Nat
    /\ BatchSize \in Nat \ {0} /\ MaxTries \in Nat \ {0}
    /\ MaxMessages \in Nat /\ Leavable \subseteq Channels

-----------------------------------------------------------------------------
(* Routing and rendering                                                   *)

Supported == {"offer_accepted", "disbursed", "due_soon", "received", "missed",
              "defaulted"}

\* Mutant: an opt-out from email is overlooked.
RouteIgnoresEmail(kind, optedOut) ==
    IF kind.event \in Supported THEN kind.contacts \ (optedOut \ {"email"}) ELSE {}
\* The channels of an event the borrower can be reached on and has not left.
Route(kind, optedOut) ==
    IF kind.event \in Supported THEN kind.contacts \ optedOut ELSE {}

Payout == {"amount", "bank_name", "account_last4"}
Repayment == {"amount", "due_date"}

\* _build_context(): the variables an event's templates are rendered with.
Context(event) ==
    {"first_name", "support_email", "support_phone"} \cup
    CASE event = "offer_accepted" ->
            Payout \cup {"tenure_months", "monthly_installment", "account_number"}
      [] event = "disbursed" ->
            Payout \cup {"transfer_reference", "transfer_date",
                         "monthly_installment", "first_due_date"}
      [] event = "due_soon" ->
            Repayment \cup {"days_left", "installment_number",
                            "total_installments"}
      [] event = "received" ->
            {"amount", "payment_date", "principal_paid", "interest_paid",
             "outstanding_balance"}
      [] event = "missed" -> Repayment \cup {"days_overdue", "penalty_amount"}
      [] event = "defaulted" -> {"days_overdue"}
      [] OTHER -> {}

\* The variables the SMS, subject and email templates of an event mention.
Template(event) ==
    {"first_name"} \cup
    CASE event = "offer_accepted" ->
            {"amount", "bank_name", "account_last4", "tenure_months",
             "monthly_installment", "account_number", "support_email"}
      [] event = "disbursed" ->
            {"amount", "bank_name", "account_last4", "transfer_reference",
             "transfer_date", "monthly_installment", "first_due_date"}
      [] event = "due_soon" ->
            {"amount", "due_date", "days_left", "installment_number",
             "total_installments"}
      [] event = "received" ->
            {"amount", "payment_date", "principal_paid", "interest_paid",
             "outstanding_balance"}
      [] event = "missed" ->
            {"amount", "due_date", "days_overdue", "penalty_amount",
             "support_email"}
      [] event = "defaulted" ->
            {"days_overdue", "support_phone", "support_email"}

Renders(event) == event \in Supported /\ Template(event) \subseteq Context(event)

-----------------------------------------------------------------------------
VARIABLES
    entry,      \* the entries of the streams, in order
    unread,     \* their ids, in order, as long as they are not delivered
    batch,      \* messages delivered to the consumer and not yet begun
    current,    \* the message the consumer is at
    targets,    \* the channels it is delivered over, once routed
    step, tries, accepted,  \* each channel's delivery: step, attempts, result
    acked,      \* acknowledged messages
    log,        \* notification_logs, by message and channel
    optedOut,   \* channels the borrower has opted out of
    today, reminded,  \* the date, and the last day the reminder worker ran
    copies,     \* history: messages the providers took, by message and channel
    raised,     \* history: deliveries that ended in an exception
    left,       \* history: messages delivered and abandoned
    suppressed  \* history: the opt-outs in force when each entry was added

deliveryVars == <<targets, step, tries, accepted>>
consumerVars == <<batch, current, deliveryVars, acked, log, copies, raised, left>>
worldVars == <<optedOut, today, reminded>>
streamVars == <<entry, unread, suppressed>>
vars == <<streamVars, consumerVars, worldVars>>

Published == DOMAIN entry
Steps == {"none", "check", "send", "log", "done"}
Results == {"none", "sent", "failed"}

TypeOK ==
    /\ entry \in Seq(Kinds \cup {Reminder}) /\ Len(entry) <= MaxMessages
    /\ unread \in Seq(Messages) /\ batch \in Seq(Messages)
    /\ current \in Messages \cup {NoMessage}
    /\ targets \in [Messages -> SUBSET Channels]
    /\ step \in [Channels -> Steps]
    /\ tries \in [Channels -> 0 .. MaxTries - 1]
    /\ accepted \in [Channels -> BOOLEAN]
    /\ acked \subseteq Messages
    /\ log \in [Messages -> [Channels -> Results]]
    /\ optedOut \subseteq Channels
    /\ today \in Nat /\ reminded \in Int
    /\ copies \in [Messages -> [Channels -> Nat]]
    /\ raised \in [Messages -> SUBSET Channels]
    /\ left \subseteq Messages
    /\ suppressed \in Seq(SUBSET Channels)

Idle == [c \in Channels |-> "none"]

Init ==
    /\ entry = << >>
    /\ unread = << >> /\ batch = << >>
    /\ current = NoMessage
    /\ targets = [m \in Messages |-> {}]
    /\ step = Idle
    /\ tries = [c \in Channels |-> 0]
    /\ accepted = [c \in Channels |-> FALSE]
    /\ acked = {}
    /\ log = [m \in Messages |-> [c \in Channels |-> "none"]]
    /\ optedOut = {}
    /\ today = 0 /\ reminded = -1
    /\ copies = [m \in Messages |-> [c \in Channels |-> 0]]
    /\ raised = [m \in Messages |-> {}]
    /\ left = {}
    /\ suppressed = << >>

-----------------------------------------------------------------------------
(* The stream, the borrower and the calendar                               *)

\* XADD.
Add(kind) ==
    /\ Len(entry) < MaxMessages   \* bound of the model
    /\ entry' = Append(entry, kind)
    /\ unread' = Append(unread, Len(entry) + 1)
    /\ suppressed' = Append(suppressed, optedOut)

\* Another service writes to the stream.
Publish(kind) ==
    /\ Add(kind)
    /\ UNCHANGED <<consumerVars, worldVars>>

\* run_reminder_check() and publish_reminder(), for one due installment; the
\* scheduler runs the check once a day.
Remind ==
    /\ reminded < today
    /\ Due - today \in ReminderDays
    /\ Add(Reminder)
    /\ reminded' = today
    /\ UNCHANGED <<consumerVars, optedOut, today>>

OptOut(c) ==
    /\ optedOut' = optedOut \cup {c}
    /\ UNCHANGED <<streamVars, consumerVars, today, reminded>>

Tick ==
    /\ today < MaxDay
    /\ today' = today + 1
    /\ UNCHANGED <<streamVars, consumerVars, optedOut, reminded>>

-----------------------------------------------------------------------------
(* The consumer                                                            *)

\* XREADGROUP with `>', when the last batch is done.
Deliver ==
    /\ current = NoMessage /\ batch = << >> /\ unread # << >>
    /\ LET n == IF Len(unread) < BatchSize THEN Len(unread) ELSE BatchSize
       IN  /\ batch' = SubSeq(unread, 1, n)
           /\ unread' = SubSeq(unread, n + 1, Len(unread))
    /\ UNCHANGED <<entry, suppressed, current, deliveryVars, acked, log, copies,
                   raised, left, worldVars>>

\* _process_message() up to dispatch(): what cannot be read, reaches nobody or
\* does not render is acknowledged at once.
Begin ==
    /\ current = NoMessage /\ batch # << >>
    /\ LET m == Head(batch)
           to == IF entry[m].readable THEN Route(entry[m], optedOut) ELSE {}
           goes == to # {} /\ Renders(entry[m].event)
       IN  /\ targets' = [targets EXCEPT ![m] = to]
           /\ current' = IF goes THEN m ELSE NoMessage
           /\ step' = IF goes THEN [c \in Channels |->
                                      IF c \in to THEN "check" ELSE "done"]
                      ELSE Idle
           /\ acked' = IF goes THEN acked ELSE acked \cup {m}
    /\ batch' = Tail(batch)
    /\ UNCHANGED <<streamVars, tries, accepted, log, copies, raised, left,
                   worldVars>>

To(c, s) == step' = [step EXCEPT ![c] = s]

\* The two deliveries share one AsyncSession: a statement or commit of one
\* that meets one of the other under way may be refused, which ends the
\* delivery; dispatch() only counts it.
Meets(c) == \E d \in Channels \ {c} : step[d] \in {"check", "log"}

Raise(c) ==
    /\ raised' = [raised EXCEPT ![current] = @ \cup {c}]
    /\ To(c, "done")

\* The idempotency check of _deliver_one().
Check(c) ==
    /\ step[c] = "check"
    /\ \/ /\ To(c, IF log[current][c] = "none" THEN "send" ELSE "done")
          /\ UNCHANGED raised
       \/ Meets(c) /\ Raise(c)
    /\ UNCHANGED <<streamVars, batch, current, targets, tries, accepted, acked,
                   log, copies, left, worldVars>>

\* The provider takes the message and says so.
SendTaken(c) ==
    /\ step[c] = "send"
    /\ copies' = [copies EXCEPT ![current][c] = @ + 1]
    /\ accepted' = [accepted EXCEPT ![c] = TRUE]
    /\ To(c, "log")
    /\ UNCHANGED <<streamVars, batch, current, targets, tries, acked, log,
                   raised, left, worldVars>>

\* Mutant: a refusal in the body of a 200 is taken for a success.
SendRefusedUnseen(c) ==
    /\ step[c] = "send"
    /\ accepted' = [accepted EXCEPT ![c] = TRUE]
    /\ To(c, "log")
    /\ UNCHANGED <<streamVars, batch, current, targets, tries, acked, log,
                   copies, raised, left, worldVars>>
\* An HTTP error or an error in the body: a result, not an exception.
SendRefused(c) ==
    /\ step[c] = "send"
    /\ accepted' = [accepted EXCEPT ![c] = FALSE]
    /\ To(c, "log")
    /\ UNCHANGED <<streamVars, batch, current, targets, tries, acked, log,
                   copies, raised, left, worldVars>>

\* No answer: the provider may have the message; send() tries again, and
\* raises after the last attempt.
SendLost(c) ==
    /\ step[c] = "send"
    /\ \E taken \in 0 .. 1 : copies' = [copies EXCEPT ![current][c] = @ + taken]
    /\ IF tries[c] + 1 < MaxTries
         THEN tries' = [tries EXCEPT ![c] = @ + 1] /\ UNCHANGED <<step, raised>>
         ELSE Raise(c) /\ UNCHANGED tries
    /\ UNCHANGED <<streamVars, batch, current, targets, accepted, acked, log,
                   left, worldVars>>

Log(c) ==
    /\ step[c] = "log"
    /\ \/ /\ log' = [log EXCEPT ![current][c] =
                       IF accepted[c] THEN "sent" ELSE "failed"]
          /\ To(c, "done")
          /\ UNCHANGED raised
       \/ Meets(c) /\ Raise(c) /\ UNCHANGED log
    /\ UNCHANGED <<streamVars, batch, current, targets, tries, accepted, acked,
                   copies, left, worldVars>>

Reset ==
    /\ current' = NoMessage
    /\ step' = Idle
    /\ tries' = [c \in Channels |-> 0]
    /\ accepted' = [c \in Channels |-> FALSE]

\* Mutant: only what every channel delivered is acknowledged.
FinishDelivered ==
    /\ current # NoMessage /\ \A c \in Channels : step[c] = "done"
    /\ \A c \in targets[current] : log[current][c] = "sent"
    /\ acked' = acked \cup {current}
    /\ Reset
    /\ UNCHANGED <<streamVars, batch, targets, log, copies, raised, left,
                   worldVars>>
\* XACK, however many deliveries failed.
Finish ==
    /\ current # NoMessage /\ \A c \in Channels : step[c] = "done"
    /\ acked' = acked \cup {current}
    /\ Reset
    /\ UNCHANGED <<streamVars, batch, targets, log, copies, raised, left,
                   worldVars>>

Elements(s) == {s[i] : i \in 1 .. Len(s)}

\* Mutant: what was not acknowledged is delivered again.
AbortRedelivers ==
    /\ current # NoMessage \/ batch # << >>
    /\ unread' = IF current = NoMessage THEN batch \o unread
                 ELSE <<current>> \o batch \o unread
    /\ batch' = << >>
    /\ Reset
    /\ UNCHANGED <<entry, suppressed, targets, acked, log, copies, raised, left,
                   worldVars>>
\* The process dies, or the loop meets an error: the rest of the batch stays
\* in the pending entries list.
Abort ==
    /\ current # NoMessage \/ batch # << >>
    /\ left' = left \cup Elements(batch) \cup ({current} \ {NoMessage})
    /\ batch' = << >>
    /\ Reset
    /\ UNCHANGED <<streamVars, targets, acked, log, copies, raised, worldVars>>

Delivery(c) ==
    Check(c) \/ SendTaken(c) \/ SendRefused(c) \/ SendLost(c) \/ Log(c)

Consume == Deliver \/ Begin \/ Finish \/ \E c \in Channels : Delivery(c)

Next ==
    \/ \E kind \in Kinds : Publish(kind)
    \/ Remind
    \/ \E c \in Leavable : OptOut(c)
    \/ Tick
    \/ Consume
    \/ Abort

Spec == Init /\ [][Next]_vars
\* The consumer task runs as long as its service does.
FairSpec == Spec /\ WF_vars(Consume)
=============================================================================
