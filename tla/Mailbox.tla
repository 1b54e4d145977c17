------------------------------ MODULE Mailbox ------------------------------
(***************************************************************************)
(* What a consumer of this system promises of the messages of its stream:  *)
(* each is taken once, and then either acknowledged or abandoned, for good. *)
(* Nothing is delivered a second time, so at most once is all there is.    *)
(***************************************************************************)
CONSTANT Messages

VARIABLE mail   \* the state of each message

MailStates == {"absent", "waiting", "taken", "acked", "left"}

MailType == mail \in [Messages -> MailStates]

MailInit == mail = [m \in Messages |-> "absent"]

\* The messages of M, all in one state, go to another.
Move(M, from, to) ==
    /\ \A m \in M : mail[m] = from
    /\ mail' = [m \in Messages |-> IF m \in M THEN to ELSE mail[m]]

MailNext ==
    \E M \in SUBSET Messages :
        \/ Move(M, "absent", "waiting")   \* published
        \/ Move(M, "waiting", "taken")    \* delivered to the consumer
        \/ Move(M, "taken", "acked")      \* dealt with
        \/ Move(M, "taken", "left")       \* abandoned

MailSpec == MailInit /\ [][MailNext]_mail
=============================================================================
