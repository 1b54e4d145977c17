--------------------------- MODULE MCNotification ---------------------------
(* Instances of Notification for TLC.                                      *)
EXTENDS NotificationProps, TLC

Entry(event, contacts) ==
    [event |-> event, readable |-> TRUE, contacts |-> contacts]

\* An event of a borrower with an email only, an event without templates, and
\* an entry that cannot be read. The reminder goes over both channels.
MCKinds ==
    {Entry("offer_accepted", {"email"}),
     Entry("rescheduled", {"sms"}),
     [event |-> "received", readable |-> FALSE, contacts |-> {}]}
=============================================================================
