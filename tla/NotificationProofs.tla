------------------------- MODULE NotificationProofs -------------------------
(***************************************************************************)
(* Theorems about the notification service, for any streams, batches,      *)
(* attempts and opt-outs.                                                  *)
(*                                                                         *)
(* They rest on where each message is: the consumer goes through the       *)
(* entries in order, so what it has not begun lies after what it has       *)
(* (QueueInv), and on what a delivery has done at each of its steps        *)
(* (DeliveryInv).                                                          *)
(***************************************************************************)
EXTENDS NotificationProps, TLAPS

\* What was delivered to the consumer, and what it has begun or finished.
Handed == Len(entry) - Len(unread)
Begun == Handed - Len(batch)

QueueInv ==
    /\ Len(suppressed) = Len(entry)
    /\ \A i \in 1 .. Len(unread) : unread[i] = Handed + i
    /\ \A i \in 1 .. Len(batch) : batch[i] = Begun + i
    /\ Begun >= 0 /\ current <= Begun
    /\ \A m \in acked : m <= Begun /\ m # current

\* A channel a delivery is over with left a row or an exception.
Accounted(m, c) == log[m][c] # "none" \/ c \in raised[m]

DeliveryInv ==
    /\ \A c \in Channels : step[c] \in {"check", "send", "log"} =>
         current # NoMessage /\ c \in targets[current]
    /\ \A c \in Channels : step[c] = "log" /\ accepted[c] => copies[current][c] > 0
    /\ current # NoMessage =>
         /\ targets[current] # {}
         /\ \A c \in targets[current] : step[c] = "done" => Accounted(current, c)
    /\ \A m \in acked : \A c \in targets[m] : Accounted(m, c)
    /\ LogIsTruthful

OptOutInv ==
    /\ \A m \in Published : suppressed[m] \subseteq optedOut
    /\ \A m \in Messages : \A c \in Channels :
         m > Begun => copies[m][c] = 0
    /\ current # NoMessage => targets[current] \cap suppressed[current] = {}
    /\ OptOutRespected

Inv == TypeOK /\ QueueInv /\ DeliveryInv /\ OptOutInv

LEMMA EntryKinds ==
    ASSUME NEW k \in Kinds \cup {Reminder}
    PROVE  k.contacts \subseteq Channels
<1>1. CASE k \in Kinds
  BY <1>1, KindsAssumption DEF KindsAssumption
<1>2. CASE k = Reminder
  BY <1>2 DEF Reminder
<1> QED
  BY <1>1, <1>2

\* Every event the router knows is rendered from what the consumer builds.
LEMMA TemplatesRender ==
    ASSUME NEW e \in Supported
    PROVE  Renders(e)
<1>1. CASE e = "offer_accepted"
  BY <1>1 DEF Renders, Supported, Template, Context, Payout
<1>2. CASE e = "disbursed"
  BY <1>2 DEF Renders, Supported, Template, Context, Payout
<1>3. CASE e = "due_soon"
  BY <1>3 DEF Renders, Supported, Template, Context, Repayment
<1>4. CASE e = "received"
  BY <1>4 DEF Renders, Supported, Template, Context
<1>5. CASE e = "missed"
  BY <1>5 DEF Renders, Supported, Template, Context, Repayment
<1>6. CASE e = "defaulted"
  BY <1>6 DEF Renders, Supported, Template, Context
<1> QED
  BY <1>1, <1>2, <1>3, <1>4, <1>5, <1>6 DEF Supported

LEMMA InitHolds ==
    ASSUME Init
    PROVE  Inv
<1>1. /\ Len(entry) = 0 /\ Len(unread) = 0 /\ Len(batch) = 0 /\ Len(suppressed) = 0
      /\ entry \in Seq(Kinds \cup {Reminder}) /\ unread \in Seq(Messages)
      /\ batch \in Seq(Messages) /\ suppressed \in Seq(SUBSET Channels)
      /\ Published = {}
  BY DEF Init, Published
<1>2. TypeOK
  BY <1>1, BoundsAssumption DEF Init, TypeOK, Idle, Steps, Results, BoundsAssumption,
                                NoMessage
<1>3. QueueInv
  BY <1>1 DEF Init, QueueInv, Handed, Begun, NoMessage
<1>4. DeliveryInv
  BY <1>1 DEF Init, DeliveryInv, LogIsTruthful, Idle, NoMessage
<1>5. OptOutInv
  BY <1>1 DEF Init, OptOutInv, OptOutRespected, NoMessage
<1> QED
  BY <1>2, <1>3, <1>4, <1>5 DEF Inv

-----------------------------------------------------------------------------
(* The stream, the borrower and the calendar                               *)

LEMMA AddKeeps ==
    ASSUME Inv, NEW kind \in Kinds \cup {Reminder}, Add(kind),
           UNCHANGED <<consumerVars, optedOut, today>>, reminded' \in Int
    PROVE  Inv'
<1>1. /\ Len(entry) < MaxMessages /\ entry' = Append(entry, kind)
      /\ unread' = Append(unread, Len(entry) + 1)
      /\ suppressed' = Append(suppressed, optedOut)
      /\ UNCHANGED <<batch, current, targets, step, tries, accepted, acked, log,
                     copies, raised, left, optedOut, today>>
  BY DEF Add, consumerVars, deliveryVars
<1>2. /\ entry \in Seq(Kinds \cup {Reminder}) /\ unread \in Seq(Messages)
      /\ suppressed \in Seq(SUBSET Channels) /\ MaxMessages \in Nat
      /\ optedOut \in SUBSET Channels /\ Len(suppressed) = Len(entry)
      /\ Len(entry) \in Nat /\ Len(unread) \in Nat /\ Len(batch) \in Nat
  BY BoundsAssumption DEF Inv, TypeOK, QueueInv, BoundsAssumption
<1>3. Len(entry) + 1 \in Messages
  BY <1>1, <1>2 DEF Messages
<1>4. /\ entry' \in Seq(Kinds \cup {Reminder}) /\ Len(entry') = Len(entry) + 1
      /\ unread' \in Seq(Messages) /\ Len(unread') = Len(unread) + 1
      /\ suppressed' \in Seq(SUBSET Channels) /\ Len(suppressed') = Len(entry) + 1
  BY <1>1, <1>2, <1>3
<1>5. /\ \A i \in 1 .. Len(unread) : unread'[i] = unread[i]
      /\ unread'[Len(unread) + 1] = Len(entry) + 1
      /\ \A i \in 1 .. Len(entry) : suppressed'[i] = suppressed[i]
      /\ suppressed'[Len(entry) + 1] = optedOut
  BY <1>1, <1>2, <1>3
<1>6. Handed' = Handed /\ Begun' = Begun
  BY <1>1, <1>2, <1>4 DEF Handed, Begun
<1>7. TypeOK'
  BY <1>1, <1>2, <1>4 DEF Inv, TypeOK
<1>8. QueueInv'
  <2>1. \A i \in 1 .. Len(unread') : unread'[i] = Handed + i
    <3> TAKE i \in 1 .. Len(unread')
    <3>1. CASE i = Len(unread) + 1
      BY <1>2, <1>5, <3>1 DEF Handed
    <3>2. CASE i # Len(unread) + 1
      <4>1. i \in 1 .. Len(unread)
        BY <1>2, <1>4, <3>2
      <4> QED
        BY <1>5, <4>1 DEF Inv, QueueInv
    <3> QED
      BY <3>1, <3>2
  <2> QED
    BY <1>1, <1>2, <1>4, <1>6, <2>1 DEF Inv, QueueInv
<1>9. DeliveryInv'
  BY <1>1 DEF Inv, DeliveryInv, LogIsTruthful, Accounted
<1>10. OptOutInv'
  <2>1. Published' = Published \cup {Len(entry) + 1} /\ Published = 1 .. Len(entry)
    BY <1>2, <1>4 DEF Published
  <2>2. Begun <= Len(entry) /\ current <= Begun /\ Begun \in Int
    BY <1>2 DEF Inv, QueueInv, Begun, Handed
  <2>3. \A m \in Published' : suppressed'[m] \subseteq optedOut'
    BY <1>1, <1>5, <2>1 DEF Inv, OptOutInv
  <2>4. current' # NoMessage => targets'[current'] \cap suppressed'[current'] = {}
    <3>1. current # NoMessage => current \in 1 .. Len(entry)
      BY <1>2, <2>2 DEF Inv, TypeOK, Messages, NoMessage
    <3> QED
      BY <1>1, <1>5, <3>1 DEF Inv, OptOutInv
  <2>5. OptOutRespected'
    <3>1. \A c \in optedOut : copies[Len(entry) + 1][c] = 0
      BY <1>2, <1>3, <2>2 DEF Inv, OptOutInv
    <3> QED
      BY ZenonT(60), <1>1, <1>5, <2>1, <3>1 DEF Inv, OptOutInv, OptOutRespected
  <2> QED
    BY <1>1, <1>6, <2>3, <2>4, <2>5 DEF Inv, OptOutInv
<1> QED
  BY <1>7, <1>8, <1>9, <1>10 DEF Inv

LEMMA OptOutKeeps ==
    ASSUME Inv, NEW c \in Leavable, OptOut(c)
    PROVE  Inv'
<1>1. /\ optedOut' = optedOut \cup {c}
      /\ UNCHANGED <<entry, unread, suppressed, batch, current, targets, step, tries,
                     accepted, acked, log, copies, raised, left, today, reminded>>
  BY DEF OptOut, streamVars, consumerVars, deliveryVars
<1>2. c \in Channels
  BY BoundsAssumption DEF BoundsAssumption
<1>3. TypeOK'
  BY <1>1, <1>2 DEF Inv, TypeOK
<1>4. QueueInv'
  BY <1>1 DEF Inv, QueueInv, Handed, Begun
<1>5. DeliveryInv'
  BY <1>1 DEF Inv, DeliveryInv, LogIsTruthful, Accounted
<1>6. OptOutInv'
  BY <1>1 DEF Inv, OptOutInv, OptOutRespected, Published, Handed, Begun
<1> QED
  BY <1>3, <1>4, <1>5, <1>6 DEF Inv

\* Steps that change nothing the invariant reads.
LEMMA RestKeeps ==
    ASSUME Inv, UNCHANGED <<streamVars, consumerVars, optedOut>>,
           today' \in Nat, reminded' \in Int
    PROVE  Inv'
<1>1. UNCHANGED <<entry, unread, suppressed, batch, current, targets, step, tries,
                  accepted, acked, log, copies, raised, left, optedOut>>
  BY DEF streamVars, consumerVars, deliveryVars
<1>2. TypeOK'
  BY <1>1 DEF Inv, TypeOK
<1>3. QueueInv'
  BY <1>1 DEF Inv, QueueInv, Handed, Begun
<1>4. DeliveryInv'
  BY <1>1 DEF Inv, DeliveryInv, LogIsTruthful, Accounted
<1>5. OptOutInv'
  BY <1>1 DEF Inv, OptOutInv, OptOutRespected, Published, Handed, Begun
<1> QED
  BY <1>2, <1>3, <1>4, <1>5 DEF Inv
-----------------------------------------------------------------------------
(* The consumer                                                            *)

LEMMA DeliverKeeps ==
    ASSUME Inv, Deliver
    PROVE  Inv'
<1> DEFINE n == IF Len(unread) < BatchSize THEN Len(unread) ELSE BatchSize
<1>1. /\ current = NoMessage /\ batch = << >> /\ unread # << >>
      /\ batch' = SubSeq(unread, 1, n)
      /\ unread' = SubSeq(unread, n + 1, Len(unread))
      /\ UNCHANGED <<entry, suppressed, current, targets, step, tries, accepted, acked,
                     log, copies, raised, left, optedOut, today, reminded>>
  BY DEF Deliver, deliveryVars, worldVars
<1>2. unread \in Seq(Messages) /\ Len(unread) \in Nat /\ Len(entry) \in Nat
  BY DEF Inv, TypeOK
<1>3. n \in 0 .. Len(unread)
  BY <1>2, BoundsAssumption DEF BoundsAssumption
<1> HIDE DEF n
<1>4. /\ batch' \in Seq(Messages) /\ Len(batch') = n
      /\ \A i \in 1 .. n : batch'[i] = unread[i]
  BY <1>1, <1>2, <1>3
<1>5. /\ unread' \in Seq(Messages) /\ Len(unread') = Len(unread) - n
      /\ \A i \in 1 .. Len(unread) - n : unread'[i] = unread[n + i]
  BY <1>1, <1>2, <1>3
<1>6. Len(batch) = 0 /\ Begun = Handed
  BY <1>1, <1>2 DEF Begun, Handed
<1>7. Handed' = Handed + n /\ Begun' = Begun /\ Handed \in Int
  <2>1. Handed' = Len(entry) - (Len(unread) - n) /\ Handed = Len(entry) - Len(unread)
    BY <1>1, <1>5 DEF Handed
  <2>2. Begun' = Handed' - n
    BY <1>4 DEF Begun
  <2> QED
    BY <1>2, <1>3, <1>6, <2>1, <2>2
<1>8. TypeOK'
  BY <1>1, <1>4, <1>5 DEF Inv, TypeOK
<1>9. QueueInv'
  <2>1. \A i \in 1 .. Len(unread') : unread'[i] = Handed' + i
    <3> TAKE i \in 1 .. Len(unread')
    <3>1. n + i \in 1 .. Len(unread) /\ i \in 1 .. Len(unread) - n
      BY <1>2, <1>3, <1>5
    <3>2. unread'[i] = Handed + (n + i)
      BY <1>5, <3>1 DEF Inv, QueueInv
    <3> QED
      BY <1>3, <1>7, <3>1, <3>2
  <2>2. \A i \in 1 .. Len(batch') : batch'[i] = Begun' + i
    BY SMTT(30), <1>2, <1>3, <1>4, <1>6, <1>7 DEF Inv, QueueInv
  <2> QED
    BY <1>1, <1>7, <2>1, <2>2 DEF Inv, QueueInv
<1>10. DeliveryInv'
  BY <1>1 DEF Inv, DeliveryInv, LogIsTruthful, Accounted
<1>11. OptOutInv'
  BY <1>1, <1>7 DEF Inv, OptOutInv, OptOutRespected, Published
<1> QED
  BY <1>8, <1>9, <1>10, <1>11 DEF Inv

LEMMA BeginKeeps ==
    ASSUME Inv, Begin
    PROVE  Inv'
<1>1. PICK m, to, goes :
        /\ m = Head(batch)
        /\ to = IF entry[m].readable THEN Route(entry[m], optedOut) ELSE {}
        /\ goes = (to # {} /\ Renders(entry[m].event))
        /\ targets' = [targets EXCEPT ![m] = to]
        /\ current' = IF goes THEN m ELSE NoMessage
        /\ step' = IF goes THEN [c \in Channels |-> IF c \in to THEN "check" ELSE "done"]
                   ELSE Idle
        /\ acked' = IF goes THEN acked ELSE acked \cup {m}
  BY DEF Begin
<1>2. /\ current = NoMessage /\ batch # << >> /\ batch' = Tail(batch)
      /\ UNCHANGED <<entry, unread, suppressed, tries, accepted, log, copies, raised,
                     left, optedOut, today, reminded>>
  BY DEF Begin, streamVars, worldVars
<1>3. /\ batch \in Seq(Messages) /\ Len(batch) \in Nat \ {0} /\ Len(entry) \in Nat
      /\ Len(unread) \in Nat
  BY <1>2 DEF Inv, TypeOK
<1>4. /\ batch' \in Seq(Messages) /\ Len(batch') = Len(batch) - 1 /\ m = batch[1]
      /\ \A i \in 1 .. Len(batch) - 1 : batch'[i] = batch[i + 1]
      /\ m \in Messages
  BY <1>1, <1>2, <1>3
<1>5. Handed' = Handed /\ Begun' = Begun + 1 /\ Begun \in Int
  BY <1>2, <1>3, <1>4 DEF Handed, Begun
<1>6. m = Begun + 1
  BY <1>3, <1>4 DEF Inv, QueueInv
<1>7. m \in 1 .. Len(entry) /\ entry[m] \in Kinds \cup {Reminder}
  <2>1. m <= Len(entry)
    BY <1>3, <1>6 DEF Begun, Handed
  <2>2. m \in 1 .. Len(entry)
    BY <1>3, <1>4, <2>1 DEF Messages
  <2>3. entry \in Seq(Kinds \cup {Reminder})
    BY DEF Inv, TypeOK
  <2> QED
    BY <2>2, <2>3
<1>8. /\ to \subseteq Channels /\ to \cap optedOut = {}
      /\ to # {} => entry[m].event \in Supported
  BY <1>1, <1>7, EntryKinds DEF Route
<1>9. goes <=> to # {}
  BY <1>1, <1>8, TemplatesRender
<1>10. m \notin acked /\ m # NoMessage
  BY <1>4, <1>5, <1>6 DEF Inv, QueueInv, Messages, NoMessage, TypeOK
<1>11. /\ targets'[m] = to /\ \A u \in Messages \ {m} : targets'[u] = targets[u]
       /\ targets' \in [Messages -> SUBSET Channels]
  BY <1>1, <1>4, <1>8 DEF Inv, TypeOK
<1>12. acked \subseteq Messages
  BY DEF Inv, TypeOK
<1>13. TypeOK'
  <2>1. current' \in Messages \cup {NoMessage} /\ step' \in [Channels -> Steps]
    BY <1>1, <1>4 DEF Idle, Steps
  <2>2. acked' \subseteq Messages
    BY <1>1, <1>4, <1>12
  <2> QED
    BY <1>2, <1>4, <1>11, <2>1, <2>2 DEF Inv, TypeOK
<1>14. QueueInv'
  <2>1. \A i \in 1 .. Len(batch') : batch'[i] = Begun' + i
    <3> TAKE i \in 1 .. Len(batch')
    <3>1. i + 1 \in 1 .. Len(batch) /\ i \in 1 .. Len(batch) - 1
      BY <1>3, <1>4
    <3>2. batch'[i] = Begun + (i + 1)
      BY <1>4, <3>1 DEF Inv, QueueInv
    <3> QED
      BY <1>5, <3>1, <3>2
  <2>2. current' <= Begun' /\ Begun' >= 0
    BY <1>1, <1>5, <1>6 DEF Inv, QueueInv, NoMessage
  <2>3. \A u \in acked' : u <= Begun' /\ u # current'
    <3> TAKE u \in acked'
    <3>1. CASE u = m
      BY <1>1, <1>5, <1>6, <1>10, <3>1
    <3>2. CASE u # m
      <4>1. u \in acked /\ u \in Messages
        BY <1>1, <1>12, <3>2
      <4>2. u <= Begun /\ u # NoMessage /\ u \in Int
        BY <4>1 DEF Inv, QueueInv, Messages, NoMessage
      <4> QED
        BY <1>1, <1>5, <3>2, <4>2
    <3> QED
      BY <3>1, <3>2
  <2> QED
    BY <1>2, <1>5, <2>1, <2>2, <2>3 DEF Inv, QueueInv
<1>15. DeliveryInv'
  <2>1. \A c \in Channels : step'[c] \in {"check", "send", "log"} =>
          step'[c] = "check" /\ current' = m /\ c \in targets'[m]
    BY <1>1, <1>11 DEF Idle
  <2>2. current' # NoMessage => current' = m /\ to # {}
                               /\ \A c \in to : step'[c] = "check"
    BY <1>1, <1>8, <1>9
  <2>3. \A u \in acked' : \A c \in targets'[u] : Accounted(u, c)'
    <3> TAKE u \in acked'
    <3>1. CASE u = m
      <4>1. targets'[u] = {}
        BY <1>1, <1>9, <1>10, <1>11, <3>1
      <4> QED
        BY <4>1
    <3>2. CASE u # m
      BY <1>1, <1>2, <1>11, <1>12, <3>2 DEF Inv, DeliveryInv, Accounted
    <3> QED
      BY <3>1, <3>2
  <2>4. LogIsTruthful'
    BY <1>2 DEF Inv, DeliveryInv, LogIsTruthful
  <2> QED
    BY <1>10, <1>11, <2>1, <2>2, <2>3, <2>4 DEF DeliveryInv
<1>16. OptOutInv'
  <2>1. suppressed[m] \subseteq optedOut
    BY <1>7 DEF Inv, OptOutInv, Published
  <2>2. current' # NoMessage => targets'[current'] \cap suppressed'[current'] = {}
    BY <1>1, <1>2, <1>8, <1>11, <2>1
  <2>3. \A u \in Messages : \A c \in Channels : u > Begun' => copies'[u][c] = 0
    BY <1>2, <1>5 DEF Inv, OptOutInv, Messages
  <2> QED
    BY <1>2, <2>2, <2>3 DEF Inv, OptOutInv, OptOutRespected, Published
<1> QED
  BY <1>13, <1>14, <1>15, <1>16 DEF Inv
-----------------------------------------------------------------------------
(* Deliveries                                                              *)

\* A step of the delivery over one channel of the message the consumer is at.
Delivers(c) ==
    /\ current # NoMessage /\ current \in Messages /\ c \in targets[current]
    /\ current <= Begun
    /\ UNCHANGED <<entry, unread, suppressed, batch, current, targets, acked, left,
                   optedOut, today, reminded>>
    /\ \A d \in Channels \ {c} : step'[d] = step[d] /\ accepted'[d] = accepted[d]
    /\ \A m \in Messages, d \in Channels : m # current \/ d # c =>
         copies'[m][d] = copies[m][d]
    /\ \A m \in Messages, d \in Channels : m # current \/ d # c =>
         log'[m][d] = log[m][d]
    /\ \A m \in Messages, d \in Channels : Accounted(m, d) => Accounted(m, d)'
    /\ copies'[current][c] >= copies[current][c]
    /\ log'[current][c] = "sent" => copies'[current][c] > 0
    /\ step'[c] = "log" /\ accepted'[c] => copies'[current][c] > 0
    /\ step'[c] = "done" => Accounted(current, c)'

LEMMA DeliversKeeps ==
    ASSUME Inv, TypeOK', NEW c \in Channels, Delivers(c)
    PROVE  Inv'
<1>1. /\ current # NoMessage /\ current \in Messages /\ c \in targets[current]
      /\ UNCHANGED <<entry, unread, suppressed, batch, current, targets, acked, left,
                     optedOut, today, reminded>>
  BY DEF Delivers
<1>2. QueueInv'
  BY <1>1 DEF Inv, QueueInv, Handed, Begun
<1>3. \A m \in Messages : targets[m] \subseteq Channels
  BY DEF Inv, TypeOK
<1>4. acked \subseteq Messages
  BY DEF Inv, TypeOK
<1>5. DeliveryInv'
  <2>1. \A d \in Channels : step'[d] \in {"check", "send", "log"} =>
          current' # NoMessage /\ d \in targets'[current']
    BY <1>1 DEF Delivers, Inv, DeliveryInv
  <2>2. \A d \in Channels : step'[d] = "log" /\ accepted'[d] => copies'[current'][d] > 0
    BY <1>1 DEF Delivers, Inv, DeliveryInv
  <2>3. \A d \in targets'[current'] : step'[d] = "done" => Accounted(current, d)'
    BY <1>1, <1>3 DEF Delivers, Inv, DeliveryInv
  <2>4. \A m \in acked' : \A d \in targets'[m] : Accounted(m, d)'
    BY <1>1, <1>3, <1>4 DEF Delivers, Inv, DeliveryInv
  <2>5. LogIsTruthful'
    BY <1>1 DEF Delivers, Inv, DeliveryInv, LogIsTruthful
  <2>6. targets'[current'] # {}
    BY <1>1
  <2> QED
    BY <1>1, <2>1, <2>2, <2>3, <2>4, <2>5, <2>6 DEF DeliveryInv, Accounted
<1>6. OptOutInv'
  <2>1. Begun' = Begun /\ Published' = Published
    BY <1>1 DEF Begun, Handed, Published
  <2>2. c \notin suppressed[current]
    BY <1>1 DEF Inv, OptOutInv
  <2>3. \A m \in Published : m \in Messages /\ suppressed[m] \subseteq Channels
    <3>1. Published = 1 .. Len(entry) /\ Len(entry) <= MaxMessages /\ Len(entry) \in Nat
      BY DEF Inv, TypeOK, Published
    <3>2. \A m \in Published : m \in Messages
      BY <3>1, BoundsAssumption DEF Messages, BoundsAssumption
    <3>3. \A m \in Published : suppressed[m] \subseteq Channels
      BY DEF Inv, TypeOK, OptOutInv
    <3> QED
      BY <3>2, <3>3
  <2>4. OptOutRespected'
    BY <1>1, <2>1, <2>2, <2>3 DEF Delivers, Inv, OptOutInv, OptOutRespected
  <2>5. Begun \in Int
    BY DEF Begun, Handed, Inv, TypeOK
  <2>6. \A m \in Messages : \A d \in Channels : m > Begun => copies'[m][d] = 0
    <3> SUFFICES ASSUME NEW m \in Messages, NEW d \in Channels, m > Begun
                 PROVE  copies'[m][d] = 0
      OBVIOUS
    <3>1. m # current
      BY <1>1, <2>5 DEF Delivers, Messages
    <3> QED
      BY <1>1, <3>1 DEF Delivers, Inv, OptOutInv
  <2> QED
    BY <1>1, <2>1, <2>4, <2>6 DEF Inv, OptOutInv
<1> QED
  BY <1>2, <1>5, <1>6 DEF Inv

\* What a step of the delivery over a channel starts from.
LEMMA DeliveryAt ==
    ASSUME Inv, NEW c \in Channels, step[c] \in {"check", "send", "log"}
    PROVE  /\ current # NoMessage /\ current \in Messages /\ current <= Begun
           /\ c \in targets[current]
BY DEF Inv, DeliveryInv, TypeOK, QueueInv

\* An exception takes nothing from the accounts.
LEMMA RaisedKeeps ==
    ASSUME Inv, NEW c \in Channels, current \in Messages, UNCHANGED <<log, current>>,
           raised' = [raised EXCEPT ![current] = @ \cup {c}]
    PROVE  /\ raised' \in [Messages -> SUBSET Channels]
           /\ \A m \in Messages, d \in Channels : Accounted(m, d) => Accounted(m, d)'
           /\ Accounted(current, c)'
<1>1. raised \in [Messages -> SUBSET Channels]
  BY DEF Inv, TypeOK
<1>2. /\ raised' \in [Messages -> SUBSET Channels]
      /\ raised'[current] = raised[current] \cup {c}
      /\ \A m \in Messages \ {current} : raised'[m] = raised[m]
  BY <1>1
<1> QED
  BY <1>2 DEF Accounted

LEMMA CheckKeeps ==
    ASSUME Inv, NEW c \in Channels, Check(c)
    PROVE  Inv'
<1>1. /\ step[c] = "check"
      /\ UNCHANGED <<entry, unread, suppressed, batch, current, targets, tries, accepted,
                     acked, log, copies, left, optedOut, today, reminded>>
      /\ \/ /\ step' = [step EXCEPT ![c] = IF log[current][c] = "none" THEN "send"
                                           ELSE "done"]
            /\ raised' = raised
         \/ /\ step' = [step EXCEPT ![c] = "done"]
            /\ raised' = [raised EXCEPT ![current] = @ \cup {c}]
  BY DEF Check, Raise, To, streamVars, worldVars
<1>2. /\ current # NoMessage /\ current \in Messages /\ current <= Begun
      /\ c \in targets[current]
  BY <1>1, DeliveryAt
<1>3. step' \in [Channels -> Steps] /\ step'[c] \in {"send", "done"}
      /\ \A d \in Channels \ {c} : step'[d] = step[d]
  BY <1>1 DEF Inv, TypeOK, Steps
<1>4. /\ raised' \in [Messages -> SUBSET Channels]
      /\ \A m \in Messages, d \in Channels : Accounted(m, d) => Accounted(m, d)'
      /\ step'[c] = "done" => Accounted(current, c)'
  <2>1. CASE raised' = [raised EXCEPT ![current] = @ \cup {c}]
    BY <1>1, <1>2, <2>1, RaisedKeeps
  <2>2. CASE /\ raised' = raised
             /\ step' = [step EXCEPT ![c] = IF log[current][c] = "none" THEN "send"
                                            ELSE "done"]
    BY <1>1, <2>2 DEF Inv, TypeOK, Accounted
  <2> QED
    BY <1>1, <2>1, <2>2
<1>5. TypeOK'
  BY <1>1, <1>3, <1>4 DEF Inv, TypeOK
<1>6. copies[current][c] \in Nat /\ (log[current][c] = "sent" => copies[current][c] > 0)
  BY <1>2 DEF Inv, TypeOK, DeliveryInv, LogIsTruthful
<1>7. Delivers(c)
  BY <1>1, <1>2, <1>3, <1>4, <1>6 DEF Delivers
<1> QED
  BY <1>5, <1>7, DeliversKeeps

\* The provider has taken some copies of the message.
LEMMA CopiesGrow ==
    ASSUME Inv, NEW c \in Channels, current \in Messages, NEW k \in Nat,
           copies' = [copies EXCEPT ![current][c] = @ + k]
    PROVE  /\ copies' \in [Messages -> [Channels -> Nat]]
           /\ copies'[current][c] = copies[current][c] + k
           /\ \A m \in Messages, d \in Channels : m # current \/ d # c =>
                copies'[m][d] = copies[m][d]
<1>1. copies \in [Messages -> [Channels -> Nat]]
  BY DEF Inv, TypeOK
<1>2. PICK of : of = [copies[current] EXCEPT ![c] = @ + k]
  OBVIOUS
<1>3. copies' = [copies EXCEPT ![current] = of]
  BY <1>2
<1>4. of \in [Channels -> Nat] /\ of[c] = copies[current][c] + k
      /\ \A d \in Channels \ {c} : of[d] = copies[current][d]
  BY <1>1, <1>2
<1> QED
  BY <1>1, <1>3, <1>4

LEMMA SendTakenKeeps ==
    ASSUME Inv, NEW c \in Channels, SendTaken(c)
    PROVE  Inv'
<1>1. /\ step[c] = "send"
      /\ UNCHANGED <<entry, unread, suppressed, batch, current, targets, tries, acked, log,
                     raised, left, optedOut, today, reminded>>
      /\ copies' = [copies EXCEPT ![current][c] = @ + 1]
      /\ accepted' = [accepted EXCEPT ![c] = TRUE]
      /\ step' = [step EXCEPT ![c] = "log"]
  BY DEF SendTaken, To, streamVars, worldVars
<1>2. /\ current # NoMessage /\ current \in Messages /\ current <= Begun
      /\ c \in targets[current]
  BY <1>1, DeliveryAt
<1>3. /\ step' \in [Channels -> Steps] /\ accepted' \in [Channels -> BOOLEAN]
      /\ step'[c] = "log"
      /\ \A d \in Channels \ {c} : step'[d] = step[d] /\ accepted'[d] = accepted[d]
  BY <1>1 DEF Inv, TypeOK, Steps
<1>4. /\ copies' \in [Messages -> [Channels -> Nat]]
      /\ copies'[current][c] = copies[current][c] + 1
      /\ \A m \in Messages, d \in Channels : m # current \/ d # c =>
           copies'[m][d] = copies[m][d]
  BY <1>1, <1>2, CopiesGrow
<1>5. TypeOK'
  BY <1>1, <1>3, <1>4 DEF Inv, TypeOK
<1>6. copies[current][c] \in Nat
  BY <1>2 DEF Inv, TypeOK
<1>7. Delivers(c)
  BY <1>1, <1>2, <1>3, <1>4, <1>6 DEF Delivers, Accounted
<1> QED
  BY <1>5, <1>7, DeliversKeeps

LEMMA SendRefusedKeeps ==
    ASSUME Inv, NEW c \in Channels, SendRefused(c)
    PROVE  Inv'
<1>1. /\ step[c] = "send"
      /\ UNCHANGED <<entry, unread, suppressed, batch, current, targets, tries, acked, log,
                     copies, raised, left, optedOut, today, reminded>>
      /\ accepted' = [accepted EXCEPT ![c] = FALSE]
      /\ step' = [step EXCEPT ![c] = "log"]
  BY DEF SendRefused, To, streamVars, worldVars
<1>2. /\ current # NoMessage /\ current \in Messages /\ current <= Begun
      /\ c \in targets[current]
  BY <1>1, DeliveryAt
<1>3. /\ step' \in [Channels -> Steps] /\ accepted' \in [Channels -> BOOLEAN]
      /\ step'[c] = "log" /\ ~accepted'[c]
      /\ \A d \in Channels \ {c} : step'[d] = step[d] /\ accepted'[d] = accepted[d]
  BY <1>1 DEF Inv, TypeOK, Steps
<1>4. TypeOK'
  BY <1>1, <1>3 DEF Inv, TypeOK
<1>5. copies[current][c] \in Nat /\ (log[current][c] = "sent" => copies[current][c] > 0)
  BY <1>2 DEF Inv, TypeOK, DeliveryInv, LogIsTruthful
<1>6. Delivers(c)
  BY <1>1, <1>2, <1>3, <1>5 DEF Delivers, Accounted
<1> QED
  BY <1>4, <1>6, DeliversKeeps
LEMMA SendLostKeeps ==
    ASSUME Inv, NEW c \in Channels, SendLost(c)
    PROVE  Inv'
<1>1. /\ step[c] = "send"
      /\ UNCHANGED <<entry, unread, suppressed, batch, current, targets, accepted, acked,
                     log, left, optedOut, today, reminded>>
      /\ \/ /\ tries[c] + 1 < MaxTries /\ tries' = [tries EXCEPT ![c] = @ + 1]
            /\ step' = step /\ raised' = raised
         \/ /\ tries' = tries /\ step' = [step EXCEPT ![c] = "done"]
            /\ raised' = [raised EXCEPT ![current] = @ \cup {c}]
  BY DEF SendLost, Raise, To, streamVars, worldVars
<1>2. /\ current # NoMessage /\ current \in Messages /\ current <= Begun
      /\ c \in targets[current]
  BY <1>1, DeliveryAt
<1>3. PICK taken \in 0 .. 1 : copies' = [copies EXCEPT ![current][c] = @ + taken]
  BY DEF SendLost
<1>4. /\ copies' \in [Messages -> [Channels -> Nat]]
      /\ copies'[current][c] = copies[current][c] + taken
      /\ \A m \in Messages, d \in Channels : m # current \/ d # c =>
           copies'[m][d] = copies[m][d]
  <2>1. taken \in Nat
    BY <1>3
  <2> QED
    BY <1>2, <1>3, <2>1, CopiesGrow
<1>5. tries' \in [Channels -> 0 .. MaxTries - 1]
  <2>1. tries \in [Channels -> 0 .. MaxTries - 1] /\ MaxTries \in Nat
    BY BoundsAssumption DEF Inv, TypeOK, BoundsAssumption
  <2> QED
    BY <1>1, <2>1
<1>6. /\ step' \in [Channels -> Steps] /\ step'[c] \in {"send", "done"}
      /\ \A d \in Channels \ {c} : step'[d] = step[d]
  BY <1>1 DEF Inv, TypeOK, Steps
<1>7. /\ raised' \in [Messages -> SUBSET Channels]
      /\ \A m \in Messages, d \in Channels : Accounted(m, d) => Accounted(m, d)'
      /\ step'[c] = "done" => Accounted(current, c)'
  <2>1. CASE raised' = [raised EXCEPT ![current] = @ \cup {c}]
    BY <1>1, <1>2, <2>1, RaisedKeeps
  <2>2. CASE raised' = raised /\ step' = step
    BY <1>1, <2>2 DEF Inv, TypeOK, Accounted
  <2> QED
    BY <1>1, <2>1, <2>2
<1>8. TypeOK'
  BY <1>1, <1>4, <1>5, <1>6, <1>7 DEF Inv, TypeOK
<1>9. copies[current][c] \in Nat /\ (log[current][c] = "sent" => copies[current][c] > 0)
  BY <1>2 DEF Inv, TypeOK, DeliveryInv, LogIsTruthful
<1>10. Delivers(c)
  BY <1>1, <1>2, <1>4, <1>6, <1>7, <1>9 DEF Delivers
<1> QED
  BY <1>8, <1>10, DeliversKeeps

LEMMA LogKeeps ==
    ASSUME Inv, NEW c \in Channels, Log(c)
    PROVE  Inv'
<1>1. PICK result : result = IF accepted[c] THEN "sent" ELSE "failed"
  OBVIOUS
<1>2. /\ step[c] = "log" /\ step' = [step EXCEPT ![c] = "done"]
      /\ UNCHANGED <<entry, unread, suppressed, batch, current, targets, tries, accepted,
                     acked, copies, left, optedOut, today, reminded>>
      /\ \/ log' = [log EXCEPT ![current][c] = result] /\ raised' = raised
         \/ log' = log /\ raised' = [raised EXCEPT ![current] = @ \cup {c}]
  BY <1>1 DEF Log, Raise, To, streamVars, worldVars
<1>3. /\ current # NoMessage /\ current \in Messages /\ current <= Begun
      /\ c \in targets[current]
  BY <1>2, DeliveryAt
<1>4. /\ step' \in [Channels -> Steps] /\ step'[c] = "done"
      /\ \A d \in Channels \ {c} : step'[d] = step[d]
  BY <1>2 DEF Inv, TypeOK, Steps
<1>5. /\ log \in [Messages -> [Channels -> Results]]
      /\ copies[current][c] \in Nat
      /\ log[current][c] = "sent" => copies[current][c] > 0
      /\ accepted[c] => copies[current][c] > 0
  BY <1>2, <1>3 DEF Inv, TypeOK, DeliveryInv, LogIsTruthful
<1>6. CASE log' = [log EXCEPT ![current][c] = result] /\ raised' = raised
  <2>1. PICK row : row = [log[current] EXCEPT ![c] = result]
    OBVIOUS
  <2>2. row \in [Channels -> Results] /\ row[c] = result
        /\ \A d \in Channels \ {c} : row[d] = log[current][d]
    BY <1>1, <1>3, <1>5, <2>1 DEF Results
  <2>3. log' = [log EXCEPT ![current] = row]
    BY <1>6, <2>1
  <2>4. /\ log' \in [Messages -> [Channels -> Results]] /\ log'[current][c] = result
        /\ \A m \in Messages, d \in Channels : m # current \/ d # c =>
             log'[m][d] = log[m][d]
    BY <1>3, <1>5, <2>2, <2>3
  <2>5. TypeOK'
    BY <1>2, <1>4, <1>6, <2>4 DEF Inv, TypeOK
  <2>6. /\ Accounted(current, c)'
        /\ \A m \in Messages, d \in Channels : Accounted(m, d) => Accounted(m, d)'
    BY <1>1, <1>2, <1>6, <2>4 DEF Accounted
  <2>7. Delivers(c)
    BY <1>1, <1>2, <1>3, <1>4, <1>5, <2>4, <2>6 DEF Delivers
  <2> QED
    BY <2>5, <2>7, DeliversKeeps
<1>7. CASE log' = log /\ raised' = [raised EXCEPT ![current] = @ \cup {c}]
  <2>1. /\ raised' \in [Messages -> SUBSET Channels]
        /\ \A m \in Messages, d \in Channels : Accounted(m, d) => Accounted(m, d)'
        /\ Accounted(current, c)'
    BY <1>2, <1>3, <1>7, RaisedKeeps
  <2>2. TypeOK'
    BY <1>2, <1>4, <1>7, <2>1 DEF Inv, TypeOK
  <2>3. Delivers(c)
    BY <1>2, <1>3, <1>4, <1>5, <1>7, <2>1 DEF Delivers
  <2> QED
    BY <2>2, <2>3, DeliversKeeps
<1> QED
  BY <1>2, <1>6, <1>7

-----------------------------------------------------------------------------
(* The end of a message and of the consumer                                *)

LEMMA FinishKeeps ==
    ASSUME Inv, Finish
    PROVE  Inv'
<1>1. /\ current # NoMessage /\ \A c \in Channels : step[c] = "done"
      /\ acked' = acked \cup {current} /\ current' = NoMessage /\ step' = Idle
      /\ tries' = [c \in Channels |-> 0] /\ accepted' = [c \in Channels |-> FALSE]
      /\ UNCHANGED <<entry, unread, suppressed, batch, targets, log, copies, raised, left,
                     optedOut, today, reminded>>
  BY DEF Finish, Reset, streamVars, worldVars
<1>2. current \in Messages /\ acked \subseteq Messages /\ NoMessage \notin Messages
      /\ targets[current] \subseteq Channels
  <2>1. current \in Messages /\ acked \subseteq Messages
    BY <1>1 DEF Inv, TypeOK
  <2>2. NoMessage \notin Messages
    BY DEF Messages, NoMessage
  <2>3. targets[current] \subseteq Channels
    BY <2>1 DEF Inv, TypeOK
  <2> QED
    BY <2>1, <2>2, <2>3
<1>3. TypeOK'
  <2>1. tries' \in [Channels -> 0 .. MaxTries - 1] /\ step' \in [Channels -> Steps]
        /\ accepted' \in [Channels -> BOOLEAN]
    BY <1>1, BoundsAssumption DEF BoundsAssumption, Idle, Steps
  <2> QED
    BY <1>1, <1>2, <2>1 DEF Inv, TypeOK
<1>4. Begun' = Begun /\ Handed' = Handed
  BY <1>1 DEF Begun, Handed
<1>5. QueueInv'
  <2>1. current' <= Begun'
    BY <1>1, <1>4 DEF Inv, QueueInv, NoMessage
  <2>2. \A m \in acked' : m <= Begun' /\ m # current'
    BY <1>1, <1>2, <1>4 DEF Inv, QueueInv
  <2> QED
    BY <1>1, <1>4, <2>1, <2>2 DEF Inv, QueueInv
<1>6. DeliveryInv'
  <2>1. \A c \in targets[current] : Accounted(current, c)
    BY <1>1, <1>2 DEF Inv, DeliveryInv
  <2>2. \A m \in acked' : \A c \in targets'[m] : Accounted(m, c)'
    BY <1>1, <2>1 DEF Inv, DeliveryInv, Accounted
  <2>3. \A c \in Channels : step'[c] = "none"
    BY <1>1 DEF Idle
  <2>4. LogIsTruthful'
    BY <1>1 DEF Inv, DeliveryInv, LogIsTruthful
  <2> QED
    BY <1>1, <2>2, <2>3, <2>4 DEF DeliveryInv
<1>7. OptOutInv'
  BY <1>1, <1>4 DEF Inv, OptOutInv, OptOutRespected, Published
<1> QED
  BY <1>3, <1>5, <1>6, <1>7 DEF Inv

LEMMA AbortKeeps ==
    ASSUME Inv, Abort
    PROVE  Inv'
<1>1. /\ left' = left \cup Elements(batch) \cup ({current} \ {NoMessage})
      /\ batch' = << >> /\ current' = NoMessage /\ step' = Idle
      /\ tries' = [c \in Channels |-> 0] /\ accepted' = [c \in Channels |-> FALSE]
      /\ UNCHANGED <<entry, unread, suppressed, targets, acked, log, copies, raised,
                     optedOut, today, reminded>>
  BY DEF Abort, Reset, streamVars, worldVars
<1>2. /\ batch \in Seq(Messages) /\ Len(batch) \in Nat /\ Len(batch') = 0
      /\ acked \subseteq Messages /\ NoMessage \notin Messages
      /\ batch' \in Seq(Messages) /\ Len(entry) \in Nat /\ Len(unread) \in Nat
  BY <1>1 DEF Inv, TypeOK, Messages, NoMessage
<1>3. Elements(batch) \subseteq Messages
  BY <1>2 DEF Elements
<1>4. TypeOK'
  <2>1. tries' \in [Channels -> 0 .. MaxTries - 1] /\ step' \in [Channels -> Steps]
        /\ accepted' \in [Channels -> BOOLEAN]
    BY <1>1, BoundsAssumption DEF BoundsAssumption, Idle, Steps
  <2>2. left' \subseteq Messages
    BY <1>1, <1>3 DEF Inv, TypeOK
  <2> QED
    BY <1>1, <1>2, <2>1, <2>2 DEF Inv, TypeOK
<1>5. Handed' = Handed /\ Begun' = Handed /\ Begun' >= Begun /\ Begun \in Int
      /\ Handed \in Int
  BY <1>1, <1>2 DEF Begun, Handed
<1>6. QueueInv'
  <2>1. current' <= Begun' /\ Begun' >= 0
    BY <1>1, <1>5 DEF Inv, QueueInv, NoMessage
  <2>2. \A m \in acked' : m <= Begun' /\ m # current'
    <3> TAKE m \in acked'
    <3>1. m \in Messages /\ m <= Begun
      BY <1>1, <1>2 DEF Inv, QueueInv
    <3> QED
      BY <1>1, <1>2, <1>5, <3>1 DEF Messages
  <2> QED
    BY <1>1, <1>2, <1>5, <2>1, <2>2 DEF Inv, QueueInv
<1>7. DeliveryInv'
  <2>1. \A c \in Channels : step'[c] = "none"
    BY <1>1 DEF Idle
  <2>2. LogIsTruthful' /\ \A m \in acked' : \A c \in targets'[m] : Accounted(m, c)'
    BY <1>1 DEF Inv, DeliveryInv, LogIsTruthful, Accounted
  <2> QED
    BY <1>1, <2>1, <2>2 DEF DeliveryInv
<1>8. OptOutInv'
  <2>1. \A m \in Messages : \A c \in Channels : m > Begun' => copies'[m][c] = 0
    BY <1>1, <1>5 DEF Inv, OptOutInv, Messages
  <2> QED
    BY <1>1, <2>1 DEF Inv, OptOutInv, OptOutRespected, Published
<1> QED
  BY <1>4, <1>6, <1>7, <1>8 DEF Inv

-----------------------------------------------------------------------------
LEMMA ConsumeKeeps ==
    ASSUME Inv, Consume
    PROVE  Inv'
<1>1. CASE Deliver
  BY <1>1, DeliverKeeps
<1>2. CASE Begin
  BY <1>2, BeginKeeps
<1>3. CASE Finish
  BY <1>3, FinishKeeps
<1>4. ASSUME NEW c \in Channels, Delivery(c) PROVE Inv'
  BY <1>4, CheckKeeps, SendTakenKeeps, SendRefusedKeeps, SendLostKeeps, LogKeeps
     DEF Delivery
<1> QED
  BY <1>1, <1>2, <1>3, <1>4 DEF Consume

LEMMA NextKeeps ==
    ASSUME Inv, [Next]_vars
    PROVE  Inv'
<1>1. today \in Nat /\ reminded \in Int
  BY DEF Inv, TypeOK
<1>2. ASSUME NEW kind \in Kinds, Publish(kind) PROVE Inv'
  BY <1>1, <1>2, AddKeeps DEF Publish, worldVars
<1>3. CASE Remind
  BY <1>1, <1>3, AddKeeps DEF Remind
<1>4. ASSUME NEW c \in Leavable, OptOut(c) PROVE Inv'
  BY <1>4, OptOutKeeps
<1>5. CASE Tick
  BY <1>1, <1>5, RestKeeps DEF Tick
<1>6. CASE Consume
  BY <1>6, ConsumeKeeps
<1>7. CASE Abort
  BY <1>7, AbortKeeps
<1>8. CASE UNCHANGED vars
  BY <1>1, <1>8, RestKeeps DEF vars, worldVars
<1> QED
  BY <1>2, <1>3, <1>4, <1>5, <1>6, <1>7, <1>8 DEF Next

LEMMA InvHolds == Spec => []Inv
<1>1. Init => Inv
  BY InitHolds
<1>2. Inv /\ [Next]_vars => Inv'
  BY NextKeeps
<1> QED
  BY <1>1, <1>2, PTL DEF Spec

-----------------------------------------------------------------------------
(* What the service promises                                               *)

\* What is logged as sent was taken by the provider, and what is acknowledged
\* left a row or an exception on each of its channels (_deliver_one(),
\* dispatch(), _process_message()), for any batches, attempts and crashes; and
\* every event the router knows renders.
THEOREM DeliveriesAreAccounted == Spec => []DeliveriesAccounted
<1>1. Inv => DeliveriesAccounted
  <2> SUFFICES ASSUME Inv PROVE DeliveriesAccounted
    OBVIOUS
  <2>1. LogIsTruthful /\ AckedIsAccounted
    BY DEF Inv, DeliveryInv, AckedIsAccounted, Accounted
  <2>2. NothingLostInRendering
    <3> SUFFICES ASSUME NEW m \in acked, targets[m] # {}
                 PROVE  \E c \in Channels : log[m][c] # "none" \/ c \in raised[m]
      BY DEF NothingLostInRendering
    <3>1. PICK c \in targets[m] : TRUE
      OBVIOUS
    <3>2. c \in Channels
      BY <3>1 DEF Inv, TypeOK
    <3> QED
      BY <3>1, <3>2 DEF Inv, DeliveryInv, Accounted
  <2> QED
    BY <2>1, <2>2 DEF DeliveriesAccounted
<1> QED
  BY <1>1, InvHolds, PTL

\* A borrower who had left a channel when an event was published is not
\* contacted over it for that event, whenever the consumer comes to it: the
\* preferences dispatch() reads then include the earlier ones.
THEOREM OptOutsAreRespected == Spec => []OptOutRespected
<1>1. Inv => OptOutRespected
  BY DEF Inv, OptOutInv
<1> QED
  BY <1>1, InvHolds, PTL

-----------------------------------------------------------------------------
(* Refinement: the consumer implements the mailbox                         *)

\* What a step of the service does to the places of messages: one is added, a
\* batch is delivered, the first of the batch is begun or acknowledged at once,
\* the one at hand is acknowledged, all that is under way is abandoned.
Added ==
    /\ Len(entry) < MaxMessages /\ Len(entry') = Len(entry) + 1
    /\ Handed' = Handed /\ Begun' = Begun /\ UNCHANGED <<current, acked, left>>
Delivered ==
    /\ Handed' \in Int /\ Handed < Handed' /\ Handed' <= Len(entry)
    /\ Begun = Handed /\ Begun' = Begun
    /\ Len(entry') = Len(entry) /\ UNCHANGED <<current, acked, left>>
Started ==
    /\ current = NoMessage /\ Begun < Handed
    /\ Begun' = Begun + 1 /\ Handed' = Handed /\ Len(entry') = Len(entry)
    /\ \/ current' = Begun + 1 /\ acked' = acked
       \/ current' = current /\ acked' = acked \cup {Begun + 1}
    /\ left' = left
Finished ==
    /\ current # NoMessage /\ current' = NoMessage /\ acked' = acked \cup {current}
    /\ Begun' = Begun /\ Handed' = Handed /\ Len(entry') = Len(entry)
    /\ left' = left
Underway == {m \in Messages : m = current \/ (Begun < m /\ m <= Handed)}
Abandoned ==
    /\ left' = left \cup Underway /\ acked' = acked /\ current' = NoMessage
    /\ Begun' = Handed /\ Handed' = Handed /\ Len(entry') = Len(entry)
Still ==
    /\ Begun' = Begun /\ Handed' = Handed /\ Len(entry') = Len(entry)
    /\ UNCHANGED <<current, acked, left>>

\* Counts are numbers in order, whatever was begun and is not at hand was
\* acknowledged or abandoned, and nothing was both.
PlaceInv ==
    /\ \A m \in left : m \in Messages /\ m <= Begun /\ m # current /\ m \notin acked
    /\ \A m \in Messages : m <= Begun /\ m # current => m \in acked \cup left

\* Where message m is, by the order of the stream.
Place(m) ==
    IF m > Len(entry) THEN "absent"
    ELSE IF m > Handed THEN "waiting"
    ELSE IF m > Begun \/ m = current THEN "taken"
    ELSE IF m \in acked THEN "acked"
    ELSE "left"

Placed == Mail = [m \in Messages |-> Place(m)]

\* The facts about the counts and ids that the lemmas below use.
Counts ==
    /\ Len(entry) \in Nat /\ Handed \in Int /\ Begun \in Int
    /\ 0 <= Begun /\ Begun <= Handed /\ Handed <= Len(entry)
    /\ Len(entry) <= MaxMessages /\ MaxMessages \in Nat
    /\ current \in Nat /\ current <= Begun
    /\ current # NoMessage => current \in Messages
    /\ \A m \in acked : m \in Messages /\ m <= Begun /\ m # current

LEMMA InvCounts == Inv => Counts
<1> SUFFICES ASSUME Inv PROVE Counts
  OBVIOUS
<1>1. /\ Len(entry) \in Nat /\ Len(unread) \in Nat /\ Len(batch) \in Nat
      /\ Len(entry) <= MaxMessages /\ MaxMessages \in Nat
      /\ current \in Messages \cup {NoMessage} /\ acked \subseteq Messages
  BY BoundsAssumption DEF Inv, TypeOK
<1>2. 0 <= Begun /\ current <= Begun /\ \A m \in acked : m <= Begun /\ m # current
  BY DEF Inv, QueueInv
<1>3. current \in Nat /\ (current # NoMessage => current \in Messages)
  BY <1>1 DEF Messages, NoMessage
<1> QED
  BY <1>1, <1>2, <1>3 DEF Counts, Handed, Begun

\* The stream's order tells where each message is.
LEMMA MailPlaced == Inv /\ PlaceInv => Placed
<1> SUFFICES ASSUME Inv, PlaceInv, NEW m \in Messages PROVE Mail[m] = Place(m)
  BY DEF Placed, Mail
<1>1. Counts /\ m \in Nat /\ Len(unread) \in Nat /\ Len(batch) \in Nat
  BY InvCounts DEF Inv, TypeOK, Messages
<1>2. m \in Elements(unread) <=> Handed < m /\ m <= Len(entry)
  <2>1. \A i \in 1 .. Len(unread) : unread[i] = Handed + i
    BY DEF Inv, QueueInv
  <2>2. Handed + Len(unread) = Len(entry)
    BY <1>1 DEF Counts, Handed
  <2>3. ASSUME Handed < m, m <= Len(entry) PROVE m \in Elements(unread)
    <3>1. m - Handed \in 1 .. Len(unread) /\ Handed + (m - Handed) = m
      BY <1>1, <2>2, <2>3 DEF Counts
    <3>2. unread[m - Handed] = m
      BY <2>1, <3>1
    <3> QED BY <3>1, <3>2 DEF Elements
  <2>4. ASSUME m \in Elements(unread) PROVE Handed < m /\ m <= Len(entry)
    <3>1. PICK i \in 1 .. Len(unread) : m = Handed + i
      BY <2>1, <2>4 DEF Elements
    <3> QED BY <1>1, <2>2, <3>1 DEF Counts
  <2> QED BY <2>3, <2>4
<1>3. m \in Elements(batch) <=> Begun < m /\ m <= Handed
  <2>1. \A i \in 1 .. Len(batch) : batch[i] = Begun + i
    BY DEF Inv, QueueInv
  <2>2. Begun + Len(batch) = Handed
    BY <1>1 DEF Counts, Begun
  <2>3. ASSUME Begun < m, m <= Handed PROVE m \in Elements(batch)
    <3>1. m - Begun \in 1 .. Len(batch) /\ Begun + (m - Begun) = m
      BY <1>1, <2>2, <2>3 DEF Counts
    <3>2. batch[m - Begun] = m
      BY <2>1, <3>1
    <3> QED BY <3>1, <3>2 DEF Elements
  <2>4. ASSUME m \in Elements(batch) PROVE Begun < m /\ m <= Handed
    <3>1. PICK i \in 1 .. Len(batch) : m = Begun + i
      BY <2>1, <2>4 DEF Elements
    <3> QED BY <1>1, <2>2, <3>1 DEF Counts
  <2> QED BY <2>3, <2>4
<1>4. m <= Begun /\ m # current => m \in acked \cup left
  BY DEF PlaceInv
<1> QED
  BY <1>1, <1>2, <1>3, <1>4 DEF Mail, Place, Counts

\* Every step is one of these.
LEMMA PlaceMoves ==
    ASSUME Inv, [Next]_vars
    PROVE  Added \/ Delivered \/ Started \/ Finished \/ Abandoned \/ Still
<1>1. /\ Counts /\ entry \in Seq(Kinds \cup {Reminder}) /\ unread \in Seq(Messages)
      /\ batch \in Seq(Messages) /\ Len(unread) \in Nat /\ Len(batch) \in Nat
      /\ Len(entry) \in Nat
  BY InvCounts DEF Inv, TypeOK
<1>2. ASSUME NEW kind, Add(kind), UNCHANGED consumerVars PROVE Added
  <2>1. Len(entry') = Len(entry) + 1 /\ Len(unread') = Len(unread) + 1
    BY <1>1, <1>2 DEF Add
  <2>2. batch' = batch /\ UNCHANGED <<current, acked, left>> /\ Len(entry) < MaxMessages
    BY <1>2 DEF Add, consumerVars
  <2> QED BY <1>1, <2>1, <2>2 DEF Added, Handed, Begun
<1>3. CASE Deliver
  <2> DEFINE n == IF Len(unread) < BatchSize THEN Len(unread) ELSE BatchSize
  <2>1. /\ batch = << >> /\ unread # << >>
        /\ batch' = SubSeq(unread, 1, n) /\ unread' = SubSeq(unread, n + 1, Len(unread))
        /\ UNCHANGED <<entry, current, acked, left>>
    BY <1>3 DEF Deliver
  <2>2. n \in 1 .. Len(unread)
    BY <1>1, <2>1, BoundsAssumption
  <2> HIDE DEF n
  <2>3. Len(batch') = n /\ Len(unread') = Len(unread) - n /\ Len(batch) = 0
    BY <1>1, <2>1, <2>2
  <2>4. /\ Len(entry') = Len(entry) /\ UNCHANGED <<current, acked, left>>
        /\ Handed = Len(entry) - Len(unread) /\ Begun = Handed - Len(batch)
        /\ Handed' = Len(entry') - Len(unread') /\ Begun' = Handed' - Len(batch')
    BY <2>1 DEF Handed, Begun
  <2>5. /\ n \in Nat /\ 1 <= n /\ n <= Len(unread)
        /\ Handed' = Handed + n /\ Begun = Handed /\ Begun' = Handed' - n
        /\ Handed \in Int
    BY <1>1, <2>2, <2>3, <2>4
  <2>6. /\ Handed' \in Int /\ Handed < Handed'
        /\ Begun' = Begun
    BY <2>5
  <2>7. Len(entry) \in Nat /\ Len(unread) \in Nat
    BY <1>1
  <2>8. Handed' <= Len(entry)
    <3>1. Handed' = Len(entry) - Len(unread) + n
      BY <2>4, <2>5
    <3> QED BY <2>5, <2>7, <3>1
  <2> QED BY <2>4, <2>5, <2>6, <2>8 DEF Delivered
<1>4. CASE Begin
  <2>1. /\ current = NoMessage /\ batch # << >> /\ batch' = Tail(batch)
        /\ UNCHANGED <<entry, unread, left>>
        /\ \/ current' = Head(batch) /\ acked' = acked
           \/ current' = NoMessage /\ acked' = acked \cup {Head(batch)}
    BY <1>4 DEF Begin, streamVars
  <2>2. Len(batch) > 0 /\ Len(batch') = Len(batch) - 1 /\ Head(batch) = batch[1]
    BY <1>1, <2>1
  <2>3. batch[1] = Begun + 1
    BY <1>1, <2>2 DEF Inv, QueueInv
  <2>4. /\ Len(entry') = Len(entry)
        /\ Handed = Len(entry) - Len(unread) /\ Begun = Handed - Len(batch)
        /\ Handed' = Handed /\ Begun' = Handed' - Len(batch')
    BY <2>1 DEF Handed, Begun
  <2>5. Begun < Handed /\ Begun' = Begun + 1
    BY <1>1, <2>2, <2>4
  <2> QED BY <2>1, <2>2, <2>3, <2>4, <2>5 DEF Started
<1>5. CASE Finish
  BY <1>5 DEF Finish, Reset, streamVars, Finished, Handed, Begun
<1>6. CASE Abort
  <2>1. /\ left' = left \cup Elements(batch) \cup ({current} \ {NoMessage})
        /\ batch' = << >> /\ current' = NoMessage /\ UNCHANGED <<entry, unread, acked>>
    BY <1>6 DEF Abort, Reset, streamVars
  <2>2. Len(batch') = 0
    BY <2>1
  <2>3. Handed' = Handed /\ Begun' = Handed /\ Len(entry') = Len(entry)
    BY <1>1, <2>1, <2>2 DEF Handed, Begun, Counts
  <2>4. Elements(batch) \cup ({current} \ {NoMessage}) = Underway
    <3>1. \A i \in 1 .. Len(batch) : batch[i] = Begun + i /\ batch[i] \in Messages
      BY <1>1 DEF Inv, QueueInv
    <3>2. Begun + Len(batch) = Handed
      BY <1>1 DEF Counts, Begun
    <3>3. ASSUME NEW m \in Messages, Begun < m, m <= Handed PROVE m \in Elements(batch)
      <4>1. m - Begun \in 1 .. Len(batch) /\ Begun + (m - Begun) = m
        BY <1>1, <3>2, <3>3 DEF Counts, Messages
      <4>2. batch[m - Begun] = m
        BY <3>1, <4>1
      <4> QED BY <4>1, <4>2 DEF Elements
    <3>4. ASSUME NEW m \in Elements(batch)
          PROVE  m \in Messages /\ Begun < m /\ m <= Handed
      <4>1. PICK i \in 1 .. Len(batch) : m = batch[i]
        BY DEF Elements
      <4>2. m = Begun + i /\ m \in Messages
        BY <3>1, <4>1
      <4> QED BY <1>1, <3>2, <4>1, <4>2 DEF Counts
    <3>5. current # NoMessage => current \in Messages
      BY <1>1 DEF Counts
    <3>6. NoMessage \notin Messages
      BY DEF NoMessage, Messages
    <3> QED BY <3>3, <3>4, <3>5, <3>6 DEF Underway
  <2> QED BY <2>1, <2>3, <2>4 DEF Abandoned
<1>7. ASSUME UNCHANGED <<entry, unread, batch, current, acked, left>> PROVE Still
  BY <1>7 DEF Still, Handed, Begun
<1>8. ASSUME NEW c \in Channels, Delivery(c) PROVE Still
  BY <1>7, <1>8
     DEF Delivery, Check, SendTaken, SendRefused, SendLost, Log, streamVars
<1>9. CASE Tick \/ \E c \in Leavable : OptOut(c)
  BY <1>7, <1>9 DEF Tick, OptOut, streamVars, consumerVars
<1>10. CASE Remind \/ \E kind \in Kinds : Publish(kind)
  BY <1>2, <1>10 DEF Remind, Publish
<1>11. CASE UNCHANGED vars
  BY <1>7, <1>11 DEF vars, streamVars, consumerVars
<1> QED
  BY <1>3, <1>4, <1>5, <1>6, <1>8, <1>9, <1>10, <1>11 DEF Next, Consume

LEMMA NextPlaceInv == Inv /\ PlaceInv /\ [Next]_vars => PlaceInv'
<1> SUFFICES ASSUME Inv, PlaceInv, [Next]_vars PROVE PlaceInv'
  OBVIOUS
<1>1. Counts /\ \A m \in Messages : m \in Nat /\ m # NoMessage
  BY InvCounts DEF Messages, NoMessage
<1>2. CASE Added \/ Still \/ Delivered
  BY <1>2 DEF Added, Still, Delivered, PlaceInv
<1>3. CASE Started
  BY <1>1, <1>3 DEF Started, PlaceInv, Counts
<1>4. CASE Finished
  BY <1>1, <1>4 DEF Finished, PlaceInv, Counts
<1>5. CASE Abandoned
  BY <1>1, <1>5 DEF Abandoned, Underway, PlaceInv, Counts
<1> QED
  BY <1>2, <1>3, <1>4, <1>5, PlaceMoves

\* The messages of a set go from one state of the mailbox to another; the others
\* stay where they are.
LEMMA MailMoves ==
    ASSUME Placed, Placed', NEW M \in SUBSET Messages, NEW from, NEW to,
           \/ from = "absent" /\ to = "waiting"
           \/ from = "waiting" /\ to = "taken"
           \/ from = "taken" /\ to = "acked"
           \/ from = "taken" /\ to = "left",
           \A m \in M : Place(m) = from /\ Place(m)' = to,
           \A m \in Messages \ M : Place(m)' = Place(m)
    PROVE  Box!MailNext
<1>1. Box!Move(M, from, to)
  BY DEF Box!Move, Placed
<1> QED
  BY <1>1 DEF Box!MailNext

LEMMA MailSteps ==
    ASSUME Inv, PlaceInv, Placed, Placed', [Next]_vars
    PROVE  [Box!MailNext]_Mail
<1>1. Counts /\ \A m \in Messages : m \in Nat /\ m # NoMessage
  BY InvCounts DEF Messages, NoMessage
<1>2. CASE Still
  <2>1. \A m \in Messages : Place(m)' = Place(m)
    BY <1>2 DEF Still, Place
  <2> QED BY <2>1 DEF Placed
<1>3. CASE Added
  <2> DEFINE M == {Len(entry) + 1}
  <2>1. M \in SUBSET Messages
    BY <1>1, <1>3 DEF Added, Counts, Messages
  <2>2. \A m \in M : Place(m) = "absent" /\ Place(m)' = "waiting"
    BY <1>1, <1>3 DEF Added, Place, Counts
  <2>3. \A m \in Messages \ M : Place(m)' = Place(m)
    BY <1>1, <1>3 DEF Added, Place, Counts
  <2> HIDE DEF M
  <2> QED BY <2>1, <2>2, <2>3, MailMoves
<1>4. CASE Delivered
  <2> DEFINE M == {m \in Messages : Handed < m /\ m <= Handed'}
  <2>1. \A m \in M : Place(m) = "waiting" /\ Place(m)' = "taken"
    BY <1>1, <1>4 DEF Delivered, Place, Counts
  <2>2. \A m \in Messages \ M : Place(m)' = Place(m)
    BY <1>1, <1>4 DEF Delivered, Place, Counts
  <2>3. M \in SUBSET Messages
    OBVIOUS
  <2> HIDE DEF M
  <2> QED BY <2>1, <2>2, <2>3, MailMoves
<1>5. CASE Started
  <2>1. CASE current' = Begun + 1 /\ acked' = acked
    <3>1. \A m \in Messages : Place(m)' = Place(m)
      BY <1>1, <1>5, <2>1 DEF Started, Place, Counts
    <3> QED BY <3>1 DEF Placed
  <2>2. CASE current' = current /\ acked' = acked \cup {Begun + 1}
    <3> DEFINE M == {Begun + 1}
    <3>1. M \in SUBSET Messages
      BY <1>1, <1>5 DEF Started, Counts, Messages
    <3>2. \A m \in M : Place(m) = "taken" /\ Place(m)' = "acked"
      BY <1>1, <1>5, <2>2, <3>1 DEF Started, Place, Counts
    <3>3. \A m \in Messages \ M : Place(m)' = Place(m)
      BY <1>1, <1>5, <2>2 DEF Started, Place, Counts
    <3> HIDE DEF M
    <3> QED BY <3>1, <3>2, <3>3, MailMoves
  <2> QED BY <1>5, <2>1, <2>2 DEF Started
<1>6. CASE Finished
  <2> DEFINE M == {current}
  <2>1. M \in SUBSET Messages
    BY <1>1, <1>6 DEF Finished, Counts
  <2>2. \A m \in M : Place(m) = "taken" /\ Place(m)' = "acked"
    BY <1>1, <1>6, <2>1 DEF Finished, Place, Counts
  <2>3. \A m \in Messages \ M : Place(m)' = Place(m)
    BY <1>1, <1>6 DEF Finished, Place, Counts
  <2> HIDE DEF M
  <2> QED BY <2>1, <2>2, <2>3, MailMoves
<1>7. CASE Abandoned
  <2>1. \A m \in Underway : Place(m) = "taken" /\ Place(m)' = "left"
    BY <1>1, <1>7 DEF Abandoned, Underway, Place, Counts
  <2>2. \A m \in Messages \ Underway : Place(m)' = Place(m)
    BY <1>1, <1>7 DEF Abandoned, Underway, Place, Counts
  <2>3. Underway \in SUBSET Messages
    BY DEF Underway
  <2> QED BY <2>1, <2>2, <2>3, MailMoves
<1> QED
  BY <1>2, <1>3, <1>4, <1>5, <1>6, <1>7, PlaceMoves

\* The consumer implements the mailbox, for any streams, batches, attempts and
\* crashes: what it takes it acknowledges or abandons, once, and no message is
\* lost between its batches.
THEOREM ConsumerIsMailbox == Spec => ImplementsMailbox
<1>1. Init => PlaceInv
  <2> SUFFICES ASSUME Init PROVE PlaceInv
    OBVIOUS
  <2>1. Len(entry) = 0 /\ Len(unread) = 0 /\ Len(batch) = 0 /\ left = {}
    BY DEF Init
  <2>2. Begun = 0
    BY <2>1 DEF Begun, Handed
  <2> QED BY <2>1, <2>2 DEF PlaceInv, Messages
<1>2. Inv /\ PlaceInv /\ [Next]_vars => PlaceInv'
  BY NextPlaceInv
<1>3. Inv /\ PlaceInv => Placed
  BY MailPlaced
<1>4. Init => Box!MailInit
  <2> SUFFICES ASSUME Init PROVE Mail = [m \in Messages |-> "absent"]
    BY DEF Box!MailInit
  <2>1. \A m \in Messages : m > Len(entry)
    BY DEF Init, Messages
  <2> QED BY <2>1 DEF Mail
<1>5. Inv /\ PlaceInv /\ Placed /\ Placed' /\ [Next]_vars => [Box!MailNext]_Mail
  BY MailSteps
<1> QED
  BY <1>1, <1>2, <1>3, <1>4, <1>5, InvHolds, PTL
     DEF Spec, ImplementsMailbox, Box!MailSpec
=============================================================================
