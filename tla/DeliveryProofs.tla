--------------------------- MODULE DeliveryProofs ---------------------------
(***************************************************************************)
(* CommandDelivery for any number of pages and commands, any capacity of   *)
(* the queue and any number of restarts: a command is carried out once at  *)
(* most, its receipt tells the truth, and it has one outcome.  ModelStream *)
(* for any number of keys, tools and pieces of text: the call of a model is *)
(* answered in whole or not at all.                                        *)
(***************************************************************************)
EXTENDS CommandDelivery, ModelStream, DataLemmas, FiniteSetTheorems, TLAPS

USE DEF client, durable, modelVars, askVars, readVars

(* Pages hold commands some page has sent, which are finitely many.        *)
SentInv ==
  /\ IsFiniteSet(sent) /\ stored \subseteq sent
  /\ \A p \in Page : outbox[p] \subseteq sent /\ read[p] \subseteq sent

(* What a restart relies on: a receipt and the effect of its command.      *)
RunQueued(c) == c \in Staged /\ run[c] = "queued"
ReceiptInv ==
  \A c \in Command :
    /\ effect[c] \in {0, 1}
    /\ receipt[c] = "none" => effect[c] = 0 /\ (c \in Staged => run[c] = "none")
    /\ receipt[c] = "processing" =>
         /\ RunQueued(c) => effect[c] = 1
         /\ ~RunQueued(c) /\ c \notin TwoStep => effect[c] = 0
         /\ worker = "ready" => work.cmd = c /\ work.step # "none"
    /\ receipt[c] = "ack" => effect[c] = 1
    /\ receipt[c] \in {"rejected", "interrupted"} /\ c \notin TwoStep => effect[c] = 0
    /\ "processing" \notin told[c]

(* Where handleOp is with its command.                                     *)
WorkInv ==
  LET c == work.cmd IN
  /\ worker # "ready" => work = Idle /\ queue = <<>>
  /\ work.step = "none" => work = Idle
  /\ work.step # "none" => c \in Command
  /\ work.step = "dispatch" =>
       receipt[c] = "processing" /\ effect[c] = 0 /\ (c \in Staged => run[c] = "none")
  /\ work.step = "continue" =>
       receipt[c] = "processing" /\ effect[c] = 1 /\ RunQueued(c)
  /\ work.step = "finish" =>
       /\ receipt[c] \in {"processing", "ack"}
       /\ receipt[c] = "processing" /\ work.ok => effect[c] = 1
       /\ receipt[c] = "processing" /\ effect[c] = 1 /\ c \notin TwoStep => work.ok

DeliveryInv == DeliveryTypeOK /\ SentInv /\ ReceiptInv /\ WorkInv

-----------------------------------------------------------------------------
(* Types: what is on the way between pages and background, and the rest.   *)

Message == Command \cup Hello
Event == [cmd : Command \cup {Nothing}, asks : Nat,
          answer : Answers \cup {"overloaded", "processing", "initialized", "notFound"}]
Screen == [thread : BOOLEAN, asked : Nat, expects : BOOLEAN, connected : BOOLEAN]
Entry == [cmd : Command, from : Page \cup {NoPage}]
Work == [cmd : Command \cup {Nothing}, from : Page \cup {NoPage},
         step : {"none", "dispatch", "continue", "finish"}, ok : BOOLEAN]

ChannelTypes ==
  wire \in [Page -> Seq(Message)] /\ back \in [Page -> Seq(Event)] /\ queue \in Seq(Entry)

PageTypes ==
  /\ outbox \in [Page -> SUBSET Command] /\ stored \subseteq Command /\ sent \subseteq Command
  /\ link \in [Page -> {"closed", "starting", "offline", "open", "reload"}]
  /\ read \in [Page -> SUBSET Command] /\ screen \in [Page -> Screen]

HostTypes ==
  /\ worker \in {"starting", "ready", "failed"} /\ admitting \in BOOLEAN /\ work \in Work
  /\ receipt \in [Command -> {"none", "processing"} \cup Answers]
  /\ run \in [Staged -> {"none", "queued", "failed"}]
  /\ effect \in [Command -> Nat]
  /\ told \in [Command -> SUBSET (Answers \cup {"overloaded", "processing"})]

LEMMA TypeParts ==
  DeliveryTypeOK <=> ChannelTypes /\ PageTypes /\ HostTypes /\ spent \in 0 .. MaxMishaps
  BY DEF DeliveryTypeOK, ChannelTypes, PageTypes, HostTypes, Message, Event, Entry, Work, Screen

DeliveryParts ==
  /\ ChannelTypes /\ PageTypes /\ HostTypes /\ spent \in 0 .. MaxMishaps
  /\ SentInv /\ ReceiptInv /\ WorkInv

LEMMA InvParts == DeliveryInv <=> DeliveryParts
  BY TypeParts DEF DeliveryInv, DeliveryParts

(* Channels after something was put in, taken out or lost.                 *)
LEMMA ChannelSteps ==
  ASSUME NEW S, NEW T, NEW f \in [S -> Seq(T)], NEW p \in S
  PROVE  /\ [f EXCEPT ![p] = <<>>] \in [S -> Seq(T)]
         /\ \A m \in T : /\ [f EXCEPT ![p] = <<m>>] \in [S -> Seq(T)]
                         /\ [f EXCEPT ![p] = Append(@, m)] \in [S -> Seq(T)]
         /\ f[p] # <<>> => Head(f[p]) \in T /\ [f EXCEPT ![p] = Tail(@)] \in [S -> Seq(T)]
         /\ \A q \in Seq(T) : [f EXCEPT ![p] = @ \o q] \in [S -> Seq(T)]
         /\ \A P : [q \in S |-> IF q \in P THEN <<>> ELSE f[q]] \in [S -> Seq(T)]
<1>1. f[p] \in Seq(T) /\ <<>> \in Seq(T)
  OBVIOUS
<1>2. \A x \in Seq(T) : [f EXCEPT ![p] = x] \in [S -> Seq(T)]
  OBVIOUS
<1>3. \A m \in T : <<m>> \in Seq(T) /\ Append(f[p], m) \in Seq(T)
  BY <1>1
<1>4. f[p] # <<>> => Head(f[p]) \in T /\ Tail(f[p]) \in Seq(T)
  BY <1>1
<1>5. \A q \in Seq(T) : f[p] \o q \in Seq(T)
  BY <1>1
<1>6. \A P : [q \in S |-> IF q \in P THEN <<>> ELSE f[q]] \in [S -> Seq(T)]
  BY <1>1
<1> QED BY <1>1, <1>2, <1>3, <1>4, <1>5, <1>6

(* The outbox is resent as a sequence of its commands.                     *)
LEMMA OutstandingType ==
  ASSUME SentInv, PageTypes, NEW p \in Page
  PROVE  Outstanding(p) \in Seq(Message)
<1> DEFINE S == outbox[p]
<1>1. IsFiniteSet(S)
  BY FS_Subset DEF SentInv
<1>2. Cardinality(S) \in Nat /\ \E f \in [1 .. Cardinality(S) -> S] : IsInjective(f)
  BY <1>1, FS_CardinalityType DEF ExistsBijection, Bijection, Injection
<1>3. SetToSeq(S) \in [1 .. Cardinality(S) -> S]
  BY <1>2 DEF SetToSeq
<1>4. S \subseteq Message
  BY DEF PageTypes, Message
<1>5. SetToSeq(S) \in [1 .. Cardinality(S) -> Message]
  BY <1>3, <1>4
<1> QED BY <1>2, <1>5 DEF Outstanding

LEMMA DetachedType ==
  ASSUME NEW q \in Seq(Entry), NEW P
  PROVE  Detached(q, P) \in Seq(Entry)
<1>1. \A i \in DOMAIN q : q[i] \in Entry
  OBVIOUS
<1>2. \A i \in DOMAIN q : [q[i] EXCEPT !.from = NoPage] \in Entry
  BY <1>1 DEF Entry
<1>3. Detached(q, P) \in [1 .. Len(q) -> Entry]
  BY <1>1, <1>2 DEF Detached
<1> QED BY <1>3

-----------------------------------------------------------------------------
(* Steps of pages and connections, which leave receipts and the command at *)
(* work alone.                                                             *)

LEMMA ConnectionKeeps ==
  ASSUME HostTypes, ReceiptInv, WorkInv,
         UNCHANGED <<worker, durable, told>>, queue = <<>> => queue' = <<>> \/ worker = "ready",
         UNCHANGED work \/ (work # Idle /\ work' = [work EXCEPT !.from = NoPage])
  PROVE  ReceiptInv' /\ WorkInv'
<1>1. /\ work'.cmd = work.cmd /\ work'.step = work.step /\ work'.ok = work.ok
      /\ work = Idle => work' = Idle
  BY DEF HostTypes, Work
<1>2. ReceiptInv'
  BY <1>1 DEF ReceiptInv, RunQueued
<1>3. WorkInv'
  BY <1>1 DEF WorkInv, RunQueued
<1> QED BY <1>2, <1>3

(* Pages that leave, with what was on the way to and from them.            *)
LEMMA Leaves ==
  ASSUME DeliveryParts, NEW P \in SUBSET Page, Leave(P),
         UNCHANGED <<worker, admitting, durable, told>>
  PROVE  ReceiptInv' /\ WorkInv' /\ ChannelTypes' /\ HostTypes'
<1> USE DEF DeliveryParts
<1>1. queue = <<>> => queue' = <<>>
  BY DEF Leave, Detached
<1>2. UNCHANGED work \/ (work # Idle /\ work' = [work EXCEPT !.from = NoPage])
  BY DeliveryAssumption DEF Leave, Idle
<1>3. ReceiptInv' /\ WorkInv'
  BY <1>1, <1>2, ConnectionKeeps
<1>4. queue' \in Seq(Entry)
  BY DetachedType DEF Leave, ChannelTypes
<1>5. wire \in [Page -> Seq(Message)] /\ back \in [Page -> Seq(Event)]
  BY DEF ChannelTypes
<1>6. wire' \in [Page -> Seq(Message)] /\ back' \in [Page -> Seq(Event)]
  <2>1. /\ [q \in Page |-> IF q \in P THEN <<>> ELSE wire[q]] \in [Page -> Seq(Message)]
        /\ [q \in Page |-> IF q \in P THEN <<>> ELSE back[q]] \in [Page -> Seq(Event)]
    BY <1>5
  <2> QED BY <2>1 DEF Leave
<1>7. HostTypes'
  BY <1>2 DEF HostTypes, Work
<1> QED BY <1>3, <1>4, <1>6, <1>7 DEF ChannelTypes

LEMMA PageSteps ==
  ASSUME DeliveryParts, NEW p \in Page, PageStep(p) PROVE DeliveryParts'
<1> USE DEF DeliveryParts
<1>0. /\ wire \in [Page -> Seq(Message)] /\ back \in [Page -> Seq(Event)]
      /\ screen \in [Page -> Screen] /\ Command \subseteq Message
      /\ \A f \in BOOLEAN, n \in Nat : [first |-> f, asks |-> n] \in Message
  BY DEF ChannelTypes, PageTypes, Message, Hello
<1>a. \A n \in Nat : Asks(p, n) => screen' \in [Page -> Screen]
  <2>1. ASSUME NEW n \in Nat, Asks(p, n) PROVE screen' \in [Page -> Screen]
    <3>1. screen' = [screen EXCEPT ![p] = [screen[p] EXCEPT !.thread = (n > 0), !.asked = n,
                                                            !.expects = (n > 0)]]
      BY <1>0, <2>1 DEF Asks, Screen
    <3>2. screen[p] \in Screen /\ (n > 0) \in BOOLEAN
      BY <1>0
    <3>3. [screen[p] EXCEPT !.thread = (n > 0), !.asked = n, !.expects = (n > 0)] \in Screen
      BY <3>2 DEF Screen
    <3> QED BY <1>0, <3>1, <3>3
  <2> QED BY <2>1
<1>b. Drafted(p) \in [Page -> Screen]
  BY <1>0 DEF Drafted, Screen
<1>c. \A A : Receives(p, A) => Head(back[p]) \in Event /\ back' \in [Page -> Seq(Event)]
  BY <1>0, ChannelSteps DEF Receives
<1>1. CASE OpenPage(p)
  <2>1. UNCHANGED <<worker, durable, told, queue, work, admitting, spent, wire, back>>
    BY <1>1 DEF OpenPage
  <2>2. ReceiptInv' /\ WorkInv' /\ HostTypes' /\ ChannelTypes'
    BY <2>1, ConnectionKeeps DEF HostTypes, ChannelTypes
  <2>3. screen' \in [Page -> Screen]
    BY <1>0, <1>1 DEF OpenPage, Screen
  <2>4. SentInv' /\ PageTypes'
    BY <1>1, <2>3 DEF SentInv, PageTypes, OpenPage
  <2> QED BY <2>1, <2>2, <2>4
<1>2. CASE RestoreSession(p)
  <2>1. UNCHANGED <<worker, durable, told, queue, work, admitting, spent, wire, back>>
    BY <1>2 DEF RestoreSession
  <2>2. ReceiptInv' /\ WorkInv' /\ HostTypes' /\ ChannelTypes'
    BY <2>1, ConnectionKeeps DEF HostTypes, ChannelTypes
  <2>3. SentInv' /\ PageTypes'
    BY <1>2 DEF SentInv, PageTypes, RestoreSession
  <2> QED BY <2>1, <2>2, <2>3
<1>3. CASE Connect(p)
  <2> DEFINE n == IF screen[p].thread THEN 1 ELSE 0
  <2>1. /\ UNCHANGED <<worker, durable, told, queue, work, admitting, spent, outbox, stored, sent, read>>
        /\ n \in Nat /\ Asks(p, n) /\ wire' = [wire EXCEPT ![p] = <<[first |-> TRUE, asks |-> n]>>]
    BY <1>3 DEF Connect
  <2>2. ReceiptInv' /\ WorkInv' /\ HostTypes' /\ SentInv'
    BY <2>1, ConnectionKeeps DEF HostTypes, SentInv
  <2>3. screen' \in [Page -> Screen]
    BY <1>a, <2>1
  <2>4. PageTypes'
    <3>1. link' = [link EXCEPT ![p] = "open"]
      BY <1>3 DEF Connect
    <3> QED BY <2>1, <2>3, <3>1 DEF PageTypes
  <2>5. wire' \in [Page -> Seq(Message)] /\ back' \in [Page -> Seq(Event)]
    <3>1. [first |-> TRUE, asks |-> n] \in Message
      BY <1>0, <2>1
    <3>2. back' = [back EXCEPT ![p] = <<>>]
      BY <1>3 DEF Connect
    <3> HIDE DEF n
    <3> QED BY <1>0, <2>1, <3>1, <3>2, ChannelSteps
  <2>6. ChannelTypes'
    BY <2>1, <2>5 DEF ChannelTypes
  <2> QED BY <2>1, <2>2, <2>4, <2>6
<1>4. CASE Subscribe(p)
  <2> DEFINE n == screen[p].asked + 1
  <2>1. /\ UNCHANGED <<worker, durable, told, queue, work, admitting, outbox, stored, sent, read, link, back>>
        /\ Asks(p, n) /\ wire' = [wire EXCEPT ![p] = Append(@, [first |-> FALSE, asks |-> n])]
    BY <1>4 DEF Subscribe
  <2>2. ReceiptInv' /\ WorkInv' /\ HostTypes' /\ SentInv'
    BY <2>1, ConnectionKeeps DEF HostTypes, SentInv
  <2>3. n \in Nat
    BY <1>0 DEF Screen
  <2>4. PageTypes'
    <3>1. screen' \in [Page -> Screen]
      BY <1>a, <2>1, <2>3
    <3> QED BY <2>1, <3>1 DEF PageTypes
  <2>5. wire' \in [Page -> Seq(Message)]
    <3>1. [first |-> FALSE, asks |-> n] \in Message
      BY <1>0, <2>3
    <3> HIDE DEF n
    <3> QED BY <1>0, <2>1, <3>1, ChannelSteps
  <2>6. spent' \in 0 .. MaxMishaps
    BY <1>4, DeliveryAssumption DEF Subscribe, Mishap
  <2> QED BY <2>1, <2>2, <2>4, <2>5, <2>6 DEF ChannelTypes
<1>5. ASSUME NEW c \in Command, SendCommand(p, c) PROVE DeliveryParts'
  <2>1. UNCHANGED <<worker, durable, told, queue, work, admitting, spent, back, screen>>
    BY <1>5 DEF SendCommand
  <2>2. ReceiptInv' /\ WorkInv' /\ HostTypes'
    BY <2>1, ConnectionKeeps DEF HostTypes
  <2>3. IsFiniteSet(sent')
    BY <1>5, FS_AddElement DEF SentInv, SendCommand
  <2>4. SentInv' /\ PageTypes'
    BY <1>5, <2>3 DEF SentInv, PageTypes, SendCommand, Send
  <2>5. ChannelTypes'
    BY <1>0, <1>5, <2>1, ChannelSteps DEF ChannelTypes, SendCommand, Send
  <2> QED BY <2>1, <2>2, <2>4, <2>5
<1>6. CASE NewChat(p)
  <2>1. /\ UNCHANGED <<worker, durable, told, queue, work, outbox, stored, sent, read, link, wire, back,
                        admitting>>
        /\ screen' = Drafted(p)
    BY <1>6 DEF NewChat
  <2>2. ReceiptInv' /\ WorkInv' /\ HostTypes' /\ SentInv'
    BY <2>1, ConnectionKeeps DEF HostTypes, SentInv
  <2>3. spent' \in 0 .. MaxMishaps
    BY <1>6, DeliveryAssumption DEF NewChat, Mishap
  <2> QED BY <1>b, <2>1, <2>2, <2>3 DEF PageTypes, ChannelTypes
<1>7. CASE ReplayOutbox(p)
  <2>1. /\ UNCHANGED <<worker, durable, told, queue, work, outbox, stored, sent, read, link, admitting,
                        spent>>
        /\ Receives(p, {"initialized"}) /\ wire' = [wire EXCEPT ![p] = @ \o Outstanding(p)]
    BY <1>7 DEF ReplayOutbox
  <2>2. screen' \in [Page -> Screen]
    <3>1. Head(back[p]).asks \in Nat
      BY <1>c, <2>1 DEF Event
    <3> QED BY <1>0, <1>7, <3>1 DEF ReplayOutbox, Screen
  <2>3. ReceiptInv' /\ WorkInv' /\ SentInv' /\ HostTypes' /\ PageTypes'
    BY <2>1, <2>2, ConnectionKeeps DEF SentInv, HostTypes, PageTypes
  <2>4. Outstanding(p) \in Seq(Message)
    BY OutstandingType
  <2>5. wire' \in [Page -> Seq(Message)] /\ back' \in [Page -> Seq(Event)]
    BY <1>0, <1>c, <2>1, <2>4, ChannelSteps
  <2> QED BY <2>1, <2>3, <2>5 DEF ChannelTypes
<1>8. CASE DropSnapshot(p) \/ FindNothing(p)
  <2>1. /\ UNCHANGED <<worker, durable, told, queue, work, outbox, stored, sent, read, link, wire,
                        admitting, spent>>
        /\ Receives(p, {"initialized"}) \/ Receives(p, {"notFound"})
        /\ screen' = screen \/ screen' = Drafted(p)
    BY <1>8 DEF DropSnapshot, FindNothing
  <2>2. ReceiptInv' /\ WorkInv' /\ SentInv' /\ HostTypes'
    BY <2>1, ConnectionKeeps DEF SentInv, HostTypes
  <2>3. back' \in [Page -> Seq(Event)]
    BY <1>c, <2>1
  <2>4. screen' \in [Page -> Screen]
    BY <1>0, <1>b, <2>1
  <2> QED BY <2>1, <2>2, <2>3, <2>4 DEF PageTypes, ChannelTypes
<1>9. CASE Acknowledge(p)
  <2>1. /\ UNCHANGED <<worker, durable, told, queue, work, sent, link, read, wire, screen, admitting,
                        spent>>
        /\ \E A : Receives(p, A)
    BY <1>9 DEF Acknowledge
  <2>2. ReceiptInv' /\ WorkInv' /\ HostTypes'
    BY <2>1, ConnectionKeeps DEF HostTypes
  <2>3. SentInv' /\ PageTypes'
    BY <1>9, <2>1 DEF SentInv, PageTypes, Acknowledge
  <2>4. ChannelTypes'
    BY <1>0, <1>c, <2>1 DEF ChannelTypes
  <2> QED BY <2>1, <2>2, <2>3, <2>4
<1>10. CASE ClosePage(p)
  <2>1. UNCHANGED <<worker, durable, told, stored, sent, admitting>> /\ Leave({p})
    BY <1>10 DEF ClosePage
  <2>2. ReceiptInv' /\ WorkInv' /\ ChannelTypes' /\ HostTypes'
    BY <2>1, Leaves
  <2>3. screen' \in [Page -> Screen]
    BY <1>0, <1>10 DEF ClosePage, Screen, Blank
  <2>4. SentInv' /\ PageTypes'
    BY <1>10, <2>3 DEF SentInv, PageTypes, ClosePage
  <2>5. spent' \in 0 .. MaxMishaps
    BY <1>10, DeliveryAssumption DEF ClosePage, Mishap
  <2> QED BY <2>2, <2>4, <2>5
<1> QED
  BY <1>1, <1>2, <1>3, <1>4, <1>5, <1>6, <1>7, <1>8, <1>9, <1>10 DEF PageStep
-----------------------------------------------------------------------------
(* Steps of the background.                                                *)

(* An answer that is posted does not tell anybody to wait.                 *)
LEMMA Posts ==
  ASSUME DeliveryParts, NEW p \in Page \cup {NoPage}, NEW c \in Command,
         NEW answer \in Answers \cup {"overloaded"}, Post(p, c, answer)
  PROVE  /\ told' \in [Command -> SUBSET (Answers \cup {"overloaded", "processing"})]
         /\ \A d \in Command : "processing" \notin told'[d]
         /\ back' \in [Page -> Seq(Event)]
<1> USE DEF DeliveryParts
<1>1. told \in [Command -> SUBSET (Answers \cup {"overloaded", "processing"})]
  BY DEF HostTypes
<1>2. /\ told' \in [Command -> SUBSET (Answers \cup {"overloaded", "processing"})]
      /\ \A d \in Command : "processing" \notin told'[d]
  BY <1>1 DEF Post, ReceiptInv, Answers
<1>3. [cmd |-> c, answer |-> answer, asks |-> 0] \in Event
  BY DEF Event
<1>4. back' \in [Page -> Seq(Event)]
  BY <1>3, ChannelSteps DEF ChannelTypes, Post
<1> QED BY <1>2, <1>4

LEMMA HostSteps ==
  ASSUME DeliveryParts, NEW p \in Page, HostStep(p) PROVE DeliveryParts'
<1> USE DEF DeliveryParts
<1>0. /\ wire \in [Page -> Seq(Message)] /\ back \in [Page -> Seq(Event)] /\ queue \in Seq(Entry)
      /\ \A n \in Nat, a \in {"initialized", "notFound"} : Reply(a, n) \in Event
  BY DEF ChannelTypes, Event, Reply
<1>1. CASE ReceiveHello(p) \/ ThreadGone(p)
  <2>1. UNCHANGED <<worker, durable, told, queue, work, client, link, admitting>> /\ Greets(p)
    BY <1>1 DEF ReceiveHello, ThreadGone
  <2>2. ReceiptInv' /\ WorkInv' /\ SentInv' /\ HostTypes' /\ PageTypes'
    BY <2>1, ConnectionKeeps DEF SentInv, HostTypes, PageTypes
  <2>3. wire' \in [Page -> Seq(Message)] /\ Head(wire[p]).asks \in Nat
    BY <1>0, <2>1, ChannelSteps DEF Greets, Hello
  <2>4. \E a \in {"initialized", "notFound"}, n \in Nat :
          back' = [back EXCEPT ![p] = Append(@, Reply(a, n))]
    BY <1>1, <2>3 DEF ReceiveHello, ThreadGone
  <2>5. back' \in [Page -> Seq(Event)]
    BY <1>0, <2>4, ChannelSteps
  <2>6. spent' \in 0 .. MaxMishaps
    BY <1>1, DeliveryAssumption DEF ReceiveHello, ThreadGone, Mishap
  <2> QED BY <2>1, <2>2, <2>3, <2>5, <2>6 DEF ChannelTypes
<1>2. CASE Enqueue(p)
  <2>1. UNCHANGED <<worker, durable, told, work, client, link, admitting, spent, back>>
        /\ worker = "ready"
    BY <1>2 DEF Enqueue
  <2>2. ReceiptInv' /\ WorkInv' /\ SentInv' /\ HostTypes' /\ PageTypes'
    BY <2>1, ConnectionKeeps DEF SentInv, HostTypes, PageTypes
  <2>3. Head(wire[p]) \in Command /\ wire' \in [Page -> Seq(Message)]
    BY <1>0, <1>2, ChannelSteps DEF Enqueue, Message
  <2>4. [cmd |-> Head(wire[p]), from |-> p] \in Entry
    BY <2>3 DEF Entry
  <2>5. ChannelTypes'
    BY <1>0, <1>2, <2>1, <2>3, <2>4 DEF ChannelTypes, Enqueue
  <2> QED BY <2>1, <2>2, <2>5
<1>3. CASE Overloaded(p)
  <2>1. UNCHANGED <<worker, durable, queue, work, client, link, admitting, spent>>
    BY <1>3 DEF Overloaded
  <2>2. Head(wire[p]) \in Command /\ wire' \in [Page -> Seq(Message)]
    BY <1>0, <1>3, ChannelSteps DEF Overloaded, Message
  <2>3. /\ told' \in [Command -> SUBSET (Answers \cup {"overloaded", "processing"})]
        /\ \A d \in Command : "processing" \notin told'[d]
        /\ back' \in [Page -> Seq(Event)]
    BY <1>3, <2>2, Posts DEF Overloaded
  <2>4. SentInv' /\ HostTypes' /\ PageTypes' /\ ChannelTypes'
    BY <2>1, <2>2, <2>3 DEF SentInv, HostTypes, PageTypes, ChannelTypes
  <2>5. ReceiptInv' /\ WorkInv'
    BY <2>1, <2>3 DEF ReceiptInv, WorkInv, RunQueued
  <2> QED BY <2>1, <2>4, <2>5
<1>4. CASE FailStartup(p)
  <2>1. UNCHANGED <<worker, durable, told, outbox, stored, sent, read, admitting, spent>>
        /\ Leave({p})
    BY <1>4 DEF FailStartup
  <2>2. ReceiptInv' /\ WorkInv' /\ ChannelTypes' /\ HostTypes'
    BY <2>1, Leaves
  <2>3. SentInv' /\ PageTypes'
    BY <1>4, <2>1 DEF SentInv, PageTypes, FailStartup, Screen
  <2> QED BY <2>1, <2>2, <2>3
<1> QED BY <1>1, <1>2, <1>3, <1>4 DEF HostStep

(* The command at work moves, and with it its receipt, run and effect      *)
(* only.                                                                   *)
LEMMA WorkMoves ==
  ASSUME DeliveryParts, NEW c \in Command, work.cmd = c, worker = "ready",
         UNCHANGED <<client, link, wire, back, worker, admitting, queue, told, spent>>,
         \E step \in {"continue", "finish"}, ok \in BOOLEAN : Proceed(step, ok),
         \A d \in Command \ {c} : /\ receipt'[d] = receipt[d] /\ effect'[d] = effect[d]
                                  /\ d \in Staged => run'[d] = run[d],
         receipt' \in [Command -> {"none", "processing"} \cup Answers],
         run' \in [Staged -> {"none", "queued", "failed"}], effect' \in [Command -> Nat],
         \/ receipt'[c] = "ack" /\ effect'[c] = 1
         \/ /\ receipt'[c] = "processing" /\ effect'[c] \in {0, 1}
            /\ c \in Staged /\ run'[c] = "queued" => effect'[c] = 1
            /\ effect'[c] = 1 => (c \in Staged /\ run'[c] = "queued") \/ c \in TwoStep,
         WorkInv'
  PROVE  DeliveryParts'
<1> USE DEF DeliveryParts
<1>1. work' \in Work /\ work'.cmd = c /\ work'.step # "none"
  BY DEF HostTypes, Proceed, Work
<1>2. HostTypes'
  BY <1>1 DEF HostTypes
<1>3. \A d \in Command \ {c} : RunQueued(d)' <=> RunQueued(d)
  BY DEF RunQueued
<1>4. ReceiptInv'
  BY <1>1, <1>3 DEF ReceiptInv, RunQueued
<1> QED BY <1>2, <1>4 DEF SentInv, PageTypes, ChannelTypes

LEMMA CoreSteps == ASSUME DeliveryParts, CoreStep PROVE DeliveryParts'
<1> USE DEF DeliveryParts
<1> DEFINE c == work.cmd
<1>0. /\ receipt \in [Command -> {"none", "processing"} \cup Answers]
      /\ run \in [Staged -> {"none", "queued", "failed"}] /\ effect \in [Command -> Nat]
      /\ work \in Work /\ Staged \subseteq Command
  BY DEF HostTypes, Command
<1>1. CASE Begin
  <2> DEFINE d == Head(queue).cmd  f == Head(queue).from
  <2>1. /\ worker = "ready" /\ work = Idle /\ queue' \in Seq(Entry) /\ Head(queue) \in Entry
        /\ UNCHANGED <<client, link, wire, worker, admitting, run, effect, spent>>
    BY <1>1 DEF Begin, ChannelTypes
  <2>2. d \in Command /\ f \in Page \cup {NoPage}
    BY <2>1 DEF Entry
  <2>3. \A e \in Command : receipt[e] # "processing"
    BY <2>1 DEF ReceiptInv, Idle
  <2>4. SentInv' /\ PageTypes'
    BY <2>1 DEF SentInv, PageTypes
  <2>5. CASE Accepts(d)
    <3>1. /\ receipt' = [receipt EXCEPT ![d] = "processing"]
          /\ work' = [cmd |-> d, from |-> f, step |-> "dispatch", ok |-> FALSE]
          /\ UNCHANGED <<back, told>>
      BY <1>1, <2>5 DEF Begin
    <3>2. HostTypes' /\ ChannelTypes'
      BY <2>1, <2>2, <3>1 DEF HostTypes, ChannelTypes, Work
    <3>3. /\ receipt'[d] = "processing" /\ effect[d] = 0 /\ (d \in Staged => run[d] = "none")
          /\ \A e \in Command : e # d => receipt'[e] = receipt[e] /\ receipt[e] # "processing"
      BY <1>0, <2>2, <2>3, <2>5, <3>1 DEF ReceiptInv, Accepts
    <3>4. work'.cmd = d /\ work'.step = "dispatch" /\ UNCHANGED <<worker, effect, run, told>>
      BY <2>1, <3>1
    <3>5. ReceiptInv'
      <4> SUFFICES ASSUME NEW e \in Command PROVE ReceiptInv!(e)'
        BY DEF ReceiptInv
      <4>1. CASE e = d
        BY <2>2, <3>3, <3>4, <4>1 DEF ReceiptInv, RunQueued
      <4>2. CASE e # d
        BY <2>2, <3>3, <3>4, <4>2 DEF ReceiptInv, RunQueued
      <4> QED BY <4>1, <4>2
    <3>6. WorkInv'
      BY <2>1, <2>2, <3>3, <3>4 DEF WorkInv
    <3> QED BY <2>1, <2>4, <3>2, <3>5, <3>6
  <2>6. CASE ~Accepts(d)
    <3>1. Post(f, d, receipt[d]) /\ UNCHANGED <<receipt, work>>
      BY <1>1, <2>6 DEF Begin
    <3>2. receipt[d] \in Answers \cup {"overloaded"}
      BY <1>0, <2>2, <2>3, <2>6 DEF Accepts
    <3>3. /\ told' \in [Command -> SUBSET (Answers \cup {"overloaded", "processing"})]
          /\ \A e \in Command : "processing" \notin told'[e]
          /\ back' \in [Page -> Seq(Event)]
      BY <2>2, <3>1, <3>2, Posts
    <3>4. HostTypes' /\ ChannelTypes'
      BY <2>1, <3>1, <3>3 DEF HostTypes, ChannelTypes
    <3>5. ReceiptInv' /\ WorkInv'
      BY <2>1, <3>1, <3>3 DEF ReceiptInv, WorkInv, RunQueued, Idle
    <3> QED BY <2>1, <2>4, <3>4, <3>5
  <2> QED BY <2>5, <2>6
<1>2. ASSUME NEW step, AtStep(step), step # "none"
      PROVE  c \in Command /\ worker = "ready" /\ work.step = step
  BY <1>2 DEF AtStep, WorkInv
<1>3. CASE Refuse
  <2>1. /\ c \in Command /\ worker = "ready" /\ work.step = "dispatch"
        /\ Proceed("finish", FALSE) /\ UNCHANGED <<durable, Elsewhere>>
    BY <1>2, <1>3 DEF Refuse
  <2>2. /\ receipt[c] = "processing" /\ effect[c] = 0 /\ (c \in Staged => run[c] = "none")
    BY <2>1 DEF WorkInv, RunQueued
  <2>3. WorkInv'
    BY <1>0, <2>1, <2>2 DEF WorkInv, Proceed, Work, Elsewhere
  <2>4. /\ \E step \in {"continue", "finish"}, ok \in BOOLEAN : Proceed(step, ok)
        /\ receipt' = receipt /\ run' = run /\ effect' = effect
    BY <2>1
  <2> QED BY <1>0, <2>1, <2>2, <2>3, <2>4, WorkMoves DEF Elsewhere
<1>4. CASE CommitWithReceipt
  <2>1. /\ c \in Command /\ worker = "ready" /\ work.step = "dispatch"
        /\ \E ok \in BOOLEAN : Proceed("finish", ok)
        /\ receipt' = [receipt EXCEPT ![c] = "ack"] /\ effect' = [effect EXCEPT ![c] = @ + 1]
        /\ UNCHANGED <<run, Elsewhere>>
    BY <1>2, <1>4 DEF CommitWithReceipt
  <2>2. /\ receipt'[c] = "ack" /\ effect'[c] = 1
        /\ receipt' \in [Command -> {"none", "processing"} \cup Answers]
        /\ effect' \in [Command -> Nat]
    BY <1>0, <2>1 DEF WorkInv, Answers
  <2>3. WorkInv'
    BY <1>0, <2>1, <2>2 DEF WorkInv, Proceed, Work, Elsewhere
  <2> QED BY <1>0, <2>1, <2>2, <2>3, WorkMoves DEF Elsewhere
<1>5. CASE WriteRun
  <2>1. /\ c \in Staged /\ c \in Command /\ worker = "ready" /\ work.step = "dispatch"
        /\ Proceed("continue", FALSE)
        /\ run' = [run EXCEPT ![c] = "queued"] /\ effect' = [effect EXCEPT ![c] = @ + 1]
        /\ UNCHANGED <<receipt, Elsewhere>>
    BY <1>2, <1>5 DEF WriteRun
  <2>2. /\ receipt[c] = "processing" /\ effect'[c] = 1 /\ run'[c] = "queued"
        /\ run' \in [Staged -> {"none", "queued", "failed"}] /\ effect' \in [Command -> Nat]
    BY <1>0, <2>1 DEF WorkInv
  <2>3. WorkInv'
    BY <1>0, <2>1, <2>2 DEF WorkInv, Proceed, Work, Elsewhere, RunQueued
  <2> QED BY <1>0, <2>1, <2>2, <2>3, WorkMoves DEF Elsewhere, RunQueued
<1>6. CASE TurnStarted
  <2>1. /\ c \in Command /\ worker = "ready" /\ work.step = "continue"
        /\ Proceed("finish", TRUE) /\ UNCHANGED <<durable, Elsewhere>>
    BY <1>2, <1>6 DEF TurnStarted
  <2>2. receipt[c] = "processing" /\ effect[c] = 1 /\ c \in Staged /\ run[c] = "queued"
    BY <2>1 DEF WorkInv, RunQueued
  <2>3. WorkInv'
    BY <1>0, <2>1, <2>2 DEF WorkInv, Proceed, Work, Elsewhere
  <2> QED BY <1>0, <2>1, <2>2, <2>3, WorkMoves DEF Elsewhere
<1>7. CASE TurnFails
  <2>1. /\ c \in Command /\ worker = "ready" /\ work.step = "continue"
        /\ Proceed("finish", FALSE)
        /\ run' = [run EXCEPT ![c] = "failed"] /\ effect' = [effect EXCEPT ![c] = @ - 1]
        /\ UNCHANGED <<receipt, Elsewhere>>
    BY <1>2, <1>7 DEF TurnFails
  <2>2. /\ receipt[c] = "processing" /\ effect'[c] = 0 /\ run'[c] = "failed"
        /\ run' \in [Staged -> {"none", "queued", "failed"}] /\ effect' \in [Command -> Nat]
    BY <1>0, <2>1 DEF WorkInv, RunQueued
  <2>3. WorkInv'
    BY <1>0, <2>1, <2>2 DEF WorkInv, Proceed, Work, Elsewhere
  <2>4. \A d \in Command \ {c} : effect'[d] = effect[d] /\ (d \in Staged => run'[d] = run[d])
    BY <1>0, <2>1
  <2>5. /\ \E step \in {"continue", "finish"}, ok \in BOOLEAN : Proceed(step, ok)
        /\ receipt' = receipt
    BY <2>1
  <2> QED BY <1>0, <2>1, <2>2, <2>3, <2>4, <2>5, WorkMoves DEF Elsewhere
<1>8. CASE WritePlain
  <2>1. /\ c \in TwoStep /\ c \in Command /\ worker = "ready" /\ work.step = "dispatch"
        /\ \E ok \in BOOLEAN : Proceed("finish", ok)
        /\ effect' = [effect EXCEPT ![c] = @ + 1]
        /\ UNCHANGED <<receipt, run, Elsewhere>>
    BY <1>2, <1>8 DEF WritePlain
  <2>2. receipt[c] = "processing" /\ effect'[c] = 1 /\ effect' \in [Command -> Nat]
    BY <1>0, <2>1 DEF WorkInv
  <2>3. WorkInv'
    BY <1>0, <2>1, <2>2 DEF WorkInv, Proceed, Work, Elsewhere
  <2> QED BY <1>0, <2>1, <2>2, <2>3, WorkMoves DEF Elsewhere
<1>9. CASE Finish
  <2> DEFINE answer == Terminal(c, work.ok)
  <2>1. /\ c \in Command /\ worker = "ready" /\ work.step = "finish" /\ work' = Idle
        /\ receipt' = [receipt EXCEPT ![c] = answer] /\ Post(work.from, c, answer)
        /\ UNCHANGED <<client, link, wire, worker, admitting, queue, run, effect, spent>>
    BY <1>2, <1>9 DEF Finish
  <2>2. /\ answer \in Answers /\ answer \in {"ack", "rejected"}
        /\ answer = "ack" => effect[c] = 1
        /\ answer = "rejected" /\ c \notin TwoStep => effect[c] = 0
    <3>1. /\ receipt[c] \in {"processing", "ack"} /\ effect[c] \in {0, 1}
          /\ receipt[c] = "ack" => effect[c] = 1
          /\ receipt[c] = "processing" /\ work.ok => effect[c] = 1
          /\ receipt[c] = "processing" /\ effect[c] = 1 /\ c \notin TwoStep => work.ok
      BY <2>1 DEF WorkInv, ReceiptInv
    <3>2. CASE receipt[c] = "ack"
      <4>1. answer = "ack"
        BY <3>2 DEF Terminal, Answers
      <4> QED BY <3>1, <3>2, <4>1 DEF Answers
    <3>3. CASE receipt[c] = "processing"
      <4>1. CASE work.ok
        <5>1. answer = "ack"
          BY <3>3, <4>1 DEF Terminal, Answers
        <5> QED BY <3>1, <3>3, <4>1, <5>1 DEF Answers
      <4>2. CASE ~work.ok
        <5>1. answer = "rejected"
          BY <3>3, <4>2 DEF Terminal, Answers
        <5> QED BY <3>1, <3>3, <4>2, <5>1 DEF Answers
      <4> QED BY <4>1, <4>2
    <3> QED BY <3>1, <3>2, <3>3
  <2>3. /\ told' \in [Command -> SUBSET (Answers \cup {"overloaded", "processing"})]
        /\ \A e \in Command : "processing" \notin told'[e]
        /\ back' \in [Page -> Seq(Event)]
    BY <1>0, <2>1, <2>2, Posts DEF Work
  <2>4. Idle \in Work
    BY DEF Idle, Work
  <2>5. HostTypes' /\ ChannelTypes' /\ SentInv' /\ PageTypes'
    BY <2>1, <2>2, <2>3, <2>4 DEF HostTypes, ChannelTypes, SentInv, PageTypes
  <2>6. \A d \in Command : d # c => receipt[d] # "processing"
    BY <2>1 DEF ReceiptInv
  <2>7. ReceiptInv'
    BY <1>0, <2>1, <2>2, <2>3, <2>6 DEF ReceiptInv, RunQueued
  <2>8. WorkInv'
    BY <2>1 DEF WorkInv, Idle
  <2> QED BY <2>1, <2>5, <2>7, <2>8
<1> QED BY <1>1, <1>3, <1>4, <1>5, <1>6, <1>7, <1>8, <1>9 DEF CoreStep

LEMMA WorkerSteps == ASSUME DeliveryParts, WorkerStep PROVE DeliveryParts'
<1> USE DEF DeliveryParts
<1>1. CASE Maintain
  <2>1. UNCHANGED <<client, link, wire, back, worker, queue, work, durable, told>>
        /\ admitting' \in BOOLEAN
    BY <1>1 DEF Maintain, HostTypes
  <2>2. spent' \in 0 .. MaxMishaps
    BY <1>1, DeliveryAssumption DEF Maintain, Mishap
  <2>3. ReceiptInv' /\ WorkInv'
    BY <2>1, ConnectionKeeps
  <2> QED BY <2>1, <2>2, <2>3 DEF SentInv, HostTypes, PageTypes, ChannelTypes
<1>2. CASE Stop
  <2>1. /\ worker' = "starting" /\ admitting' = TRUE /\ queue' = <<>> /\ work' = Idle
        /\ wire' = [p \in Page |-> <<>>] /\ back' = [p \in Page |-> <<>>]
        /\ UNCHANGED <<outbox, stored, sent, read, durable, told>> /\ Mishap
    BY <1>2 DEF Stop
  <2>0. /\ link' = [p \in Page |-> IF link[p] = "open" THEN "offline" ELSE link[p]]
        /\ screen' = [p \in Page |-> IF link[p] = "open"
                                    THEN [screen[p] EXCEPT !.asked = 0, !.connected = FALSE]
                                    ELSE screen[p]]
    BY <1>2 DEF Stop
  <2>2. spent' \in 0 .. MaxMishaps
    BY <2>1, DeliveryAssumption DEF Mishap
  <2>3. ReceiptInv' /\ WorkInv'
    BY <2>1 DEF ReceiptInv, WorkInv, RunQueued, Idle
  <2>4. ChannelTypes'
    BY <2>1 DEF ChannelTypes
  <2>5. screen' \in [Page -> Screen]
    <3>1. \A p \in Page : /\ screen[p] \in Screen
                          /\ [screen[p] EXCEPT !.asked = 0, !.connected = FALSE] \in Screen
      BY DEF PageTypes, Screen
    <3> QED BY <2>0, <3>1
  <2>6. SentInv' /\ HostTypes' /\ PageTypes'
    BY <2>0, <2>1, <2>5 DEF SentInv, HostTypes, PageTypes, Work, Idle
  <2> QED BY <2>2, <2>3, <2>4, <2>6
<1>3. CASE RecoverIncomplete
  <2>1. /\ worker = "starting" /\ worker' = "ready" /\ work = Idle
        /\ receipt' = [c \in Command |-> IF receipt[c] = "processing" THEN Recovered(c)
                                         ELSE receipt[c]]
        /\ UNCHANGED <<client, link, wire, back, admitting, queue, work, run, effect, told, spent>>
    BY <1>3 DEF RecoverIncomplete, WorkInv
  <2>2. \A c \in Command :
          receipt[c] = "processing" =>
            receipt'[c] = IF RunQueued(c) THEN "ack" ELSE "interrupted"
    BY <2>1 DEF Recovered, RunQueued
  <2>3. receipt' \in [Command -> {"none", "processing"} \cup Answers]
    BY <2>1 DEF HostTypes, Recovered, Answers
  <2>4. ReceiptInv'
    BY <2>1, <2>2 DEF ReceiptInv, RunQueued
  <2>5. WorkInv'
    BY <2>1 DEF WorkInv, Idle
  <2> QED BY <2>1, <2>3, <2>4, <2>5 DEF SentInv, HostTypes, PageTypes, ChannelTypes
<1>4. CASE StartupFails
  <2>1. /\ worker = "starting" /\ worker' = "failed"
        /\ UNCHANGED <<client, link, wire, back, admitting, queue, work, durable, told>>
    BY <1>4 DEF StartupFails
  <2>2. spent' \in 0 .. MaxMishaps
    BY <1>4, DeliveryAssumption DEF StartupFails, Mishap
  <2>3. ReceiptInv' /\ WorkInv'
    BY <2>1 DEF ReceiptInv, WorkInv, RunQueued
  <2> QED BY <2>1, <2>2, <2>3 DEF SentInv, HostTypes, PageTypes, ChannelTypes
<1> QED BY <1>1, <1>2, <1>3, <1>4 DEF WorkerStep

-----------------------------------------------------------------------------

LEMMA DeliveryStarts == DeliveryInit => DeliveryParts
<1> SUFFICES ASSUME DeliveryInit PROVE DeliveryParts
  OBVIOUS
<1>1. ChannelTypes
  BY DEF DeliveryInit, ChannelTypes
<1>2. PageTypes /\ HostTypes /\ spent \in 0 .. MaxMishaps
  BY DeliveryAssumption DEF DeliveryInit, PageTypes, HostTypes, Work, Idle, Screen, Blank
<1>3. SentInv
  BY FS_EmptySet DEF DeliveryInit, SentInv
<1>4. ReceiptInv /\ WorkInv
  BY DEF DeliveryInit, ReceiptInv, WorkInv, RunQueued, Idle, Command
<1> QED BY <1>1, <1>2, <1>3, <1>4 DEF DeliveryParts

LEMMA DeliverySteps == ASSUME DeliveryParts, [DeliveryNext]_deliveryVars PROVE DeliveryParts'
<1>1. CASE UNCHANGED deliveryVars
  BY <1>1 DEF deliveryVars, DeliveryParts, ChannelTypes, PageTypes, HostTypes, SentInv, ReceiptInv,
              WorkInv, RunQueued
<1> QED BY <1>1, PageSteps, HostSteps, CoreSteps, WorkerSteps DEF DeliveryNext

(* The invariant of the delivery: the types, and what a receipt, the       *)
(* effect of its command and the command at work have to do with another.  *)
THEOREM DeliveryInvariant == DeliverySpec => []DeliveryInv
<1>1. DeliveryInit => DeliveryParts
  BY DeliveryStarts
<1>2. DeliveryParts /\ [DeliveryNext]_deliveryVars => DeliveryParts'
  BY DeliverySteps
<1>3. DeliveryParts => DeliveryInv
  BY InvParts
<1> QED BY <1>1, <1>2, <1>3, PTL DEF DeliverySpec
(* AtMostOnce: however often a command is sent again and wherever the      *)
(* worker stops, its change is in the database once at most.               *)
THEOREM CarriedOutOnce == DeliverySpec => []AtMostOnce
<1>1. DeliveryInv => AtMostOnce
  BY DEF DeliveryInv, ReceiptInv, AtMostOnce
<1> QED BY <1>1, DeliveryInvariant, PTL

(* ReceiptsTrue: a receipt says what became of its command, and no page is *)
(* told that its command is still at work.                                 *)
THEOREM ReceiptsTell == DeliverySpec => []ReceiptsTrue
<1>1. DeliveryInv => ReceiptsTrue
  BY DEF DeliveryInv, ReceiptInv, ReceiptsTrue
<1> QED BY <1>1, DeliveryInvariant, PTL
-----------------------------------------------------------------------------
(* The receipts and answers as CommandOutcome sees them.                   *)

OutcomeOf == [c \in Command |-> IF receipt[c] \in Answers THEN receipt[c] ELSE "none"]
ToldOf == [c \in Command |-> told[c] \cap Answers]

LEMMA OutcomeKept ==
  ASSUME HostTypes, \A c \in Command : receipt'[c] = receipt[c]
  PROVE  OutcomeOf' = OutcomeOf
  BY DEF OutcomeOf

LEMMA ToldAgain ==
  ASSUME HostTypes, NEW c \in Command, NEW a, told' = [told EXCEPT ![c] = @ \cup {a}]
  PROVE  ToldOf' = IF a \in Answers THEN [ToldOf EXCEPT ![c] = @ \cup {a}] ELSE ToldOf
<1>1. told \in [Command -> SUBSET (Answers \cup {"overloaded", "processing"})]
  BY DEF HostTypes
<1>2. \A d \in Command : told'[d] = IF d = c THEN told[c] \cup {a} ELSE told[d]
  BY <1>1
<1>3. CASE a \in Answers
  <2>1. \A d \in Command : ToldOf'[d] = IF d = c THEN ToldOf[d] \cup {a} ELSE ToldOf[d]
    BY <1>2, <1>3 DEF ToldOf
  <2>2. ToldOf' = [d \in Command |-> ToldOf'[d]] /\ ToldOf = [d \in Command |-> ToldOf[d]]
    BY DEF ToldOf
  <2>3. ToldOf' = [ToldOf EXCEPT ![c] = @ \cup {a}]
    BY <2>1, <2>2
  <2> QED BY <1>3, <2>3
<1>4. CASE a \notin Answers
  <2>1. \A d \in Command : told'[d] \cap Answers = told[d] \cap Answers
    BY <1>2, <1>4
  <2> QED BY <1>4, <2>1 DEF ToldOf
<1> QED BY <1>3, <1>4

LEMMA OutcomeDecided ==
  ASSUME HostTypes, NEW c \in Command, NEW a \in Answers, receipt' = [receipt EXCEPT ![c] = a]
  PROVE  OutcomeOf' = [OutcomeOf EXCEPT ![c] = a]
<1>1. receipt \in [Command -> {"none", "processing"} \cup Answers]
  BY DEF HostTypes
<1>2. \A d \in Command : receipt'[d] = IF d = c THEN a ELSE receipt[d]
  BY <1>1
<1> QED BY <1>2 DEF OutcomeOf

(* Every step of the delivery is one of CommandOutcome's, or none.         *)
LEMMA OutcomeSteps ==
  ASSUME DeliveryParts, [DeliveryNext]_deliveryVars
  PROVE  [Outcomes!Next]_<<OutcomeOf, ToldOf>>
<1> USE DEF DeliveryParts
<1>0. /\ HostTypes /\ receipt \in [Command -> {"none", "processing"} \cup Answers]
      /\ "none" \notin Answers /\ "processing" \notin Answers /\ "overloaded" \notin Answers
  BY DEF HostTypes, Answers
<1>1. ASSUME UNCHANGED <<receipt, told>> PROVE UNCHANGED <<OutcomeOf, ToldOf>>
  BY <1>1 DEF OutcomeOf, ToldOf
<1>2. ASSUME NEW p \in Page, PageStep(p) PROVE UNCHANGED <<OutcomeOf, ToldOf>>
  BY <1>1, <1>2 DEF PageStep, OpenPage, RestoreSession, Connect, Subscribe, NewChat, SendCommand,
                    ReplayOutbox, DropSnapshot, FindNothing, Acknowledge, ClosePage
<1>3. ASSUME NEW p \in Page, HostStep(p) PROVE UNCHANGED <<OutcomeOf, ToldOf>>
  <2>1. CASE ReceiveHello(p) \/ ThreadGone(p) \/ Enqueue(p) \/ FailStartup(p)
    BY <1>1, <2>1 DEF ReceiveHello, ThreadGone, Enqueue, FailStartup
  <2>2. CASE Overloaded(p)
    <3>1. /\ Head(wire[p]) \in Command
          /\ Post(p, Head(wire[p]), "overloaded") /\ UNCHANGED receipt
      BY <2>2 DEF Overloaded
    <3>3. ToldOf' = ToldOf
      BY <1>0, <3>1, ToldAgain DEF Post
    <3> QED BY <3>1, <3>3 DEF OutcomeOf
  <2> QED BY <1>3, <2>1, <2>2 DEF HostStep
<1>4. CASE Begin
  <2> DEFINE f == Head(queue).from
  <2>0. PICK d : d = Head(queue).cmd
    OBVIOUS
  <2>1. d \in Command /\ worker = "ready" /\ work = Idle
    <3>1. queue \in Seq(Entry) /\ queue # <<>> /\ worker = "ready" /\ work = Idle
      BY <1>4 DEF Begin, ChannelTypes
    <3>2. Head(queue) \in Entry
      BY <3>1
    <3> QED BY <2>0, <3>1, <3>2 DEF Entry
  <2>2. CASE Accepts(d)
    <3>1. receipt' = [receipt EXCEPT ![d] = "processing"] /\ UNCHANGED told
      BY <1>4, <2>0, <2>2 DEF Begin
    <3>2. \A e \in Command : receipt'[e] = IF e = d THEN "processing" ELSE receipt[e]
      BY <1>0, <3>1
    <3>3. OutcomeOf' = OutcomeOf
      BY <1>0, <2>2, <3>2 DEF OutcomeOf, Accepts
    <3> QED BY <3>1, <3>3 DEF ToldOf
  <2>3. CASE ~Accepts(d)
    <3>1. Post(f, d, receipt[d]) /\ UNCHANGED receipt
      BY <1>4, <2>0, <2>3 DEF Begin
    <3>2. receipt[d] \in Answers
      BY <1>0, <2>1, <2>3 DEF Accepts, ReceiptInv, Idle
    <3>3. ToldOf' = [ToldOf EXCEPT ![d] = @ \cup {receipt[d]}]
      BY <1>0, <2>1, <3>1, <3>2, ToldAgain DEF Post
    <3>4. OutcomeOf' = OutcomeOf /\ OutcomeOf[d] = receipt[d]
      BY <2>1, <3>1, <3>2 DEF OutcomeOf
    <3>5. Outcomes!Tell(d)
      BY <1>0, <3>2, <3>3, <3>4 DEF Outcomes!Tell, OutcomeOf, ToldOf
    <3> QED BY <2>1, <3>5 DEF Outcomes!Next
  <2> QED BY <2>2, <2>3
<1>5. CASE Refuse \/ WriteRun \/ TurnStarted \/ TurnFails \/ WritePlain
  BY <1>1, <1>5 DEF Refuse, WriteRun, TurnStarted, TurnFails, WritePlain, Elsewhere
<1>6. CASE CommitWithReceipt
  <2>0. PICK c : c = work.cmd
    OBVIOUS
  <2>1. c \in Command /\ receipt' = [receipt EXCEPT ![c] = "ack"] /\ UNCHANGED told
    BY <1>6, <2>0 DEF CommitWithReceipt, Command, Elsewhere
  <2>2. receipt[c] = "processing"
    BY <1>6, <2>0 DEF CommitWithReceipt, AtStep, WorkInv
  <2>3. "ack" \in Answers
    BY DEF Answers
  <2>4. OutcomeOf' = [OutcomeOf EXCEPT ![c] = "ack"] /\ OutcomeOf[c] = "none"
    BY <1>0, <2>1, <2>2, <2>3, OutcomeDecided DEF OutcomeOf
  <2>5. ToldOf' = ToldOf
    BY <2>1 DEF ToldOf
  <2>6. Outcomes!Decide(c, "ack")
    BY <2>4, <2>5 DEF Outcomes!Decide, OutcomeOf, ToldOf
  <2> QED BY <2>1, <2>3, <2>6 DEF Outcomes!Next
<1>7. CASE Finish
  <2>0. PICK c, a : c = work.cmd /\ a = Terminal(work.cmd, work.ok)
    OBVIOUS
  <2>1. /\ c \in Command /\ receipt' = [receipt EXCEPT ![c] = a] /\ Post(work.from, c, a)
        /\ receipt[c] \in {"processing", "ack"}
    BY <1>7, <2>0 DEF Finish, AtStep, WorkInv
  <2>2. a \in Answers /\ (receipt[c] = "ack" => a = "ack")
    BY <2>0, <2>1 DEF Terminal, Answers
  <2>3. /\ OutcomeOf' = [OutcomeOf EXCEPT ![c] = a]
        /\ ToldOf' = [ToldOf EXCEPT ![c] = @ \cup {a}]
    BY <1>0, <2>1, <2>2, OutcomeDecided, ToldAgain DEF Post
  <2>4. CASE receipt[c] = "ack"
    <3>1. OutcomeOf[c] = a /\ OutcomeOf' = OutcomeOf /\ a # "none"
      BY <1>0, <2>1, <2>2, <2>3, <2>4 DEF OutcomeOf
    <3>2. Outcomes!Tell(c)
      BY <2>3, <3>1 DEF Outcomes!Tell, OutcomeOf, ToldOf
    <3> QED BY <2>1, <3>2 DEF Outcomes!Next
  <2>5. CASE receipt[c] = "processing"
    <3>1. OutcomeOf[c] = "none"
      BY <1>0, <2>1, <2>5 DEF OutcomeOf
    <3>2. Outcomes!DecideAndTell(c, a)
      BY <2>3, <3>1 DEF Outcomes!DecideAndTell, OutcomeOf, ToldOf
    <3> QED BY <2>1, <2>2, <3>2 DEF Outcomes!Next
  <2> QED BY <2>1, <2>4, <2>5
<1>8. CASE WorkerStep
  <2>1. CASE Maintain \/ Stop \/ StartupFails
    BY <1>1, <2>1 DEF Maintain, Stop, StartupFails
  <2>2. CASE RecoverIncomplete
    <3>1. /\ UNCHANGED told
          /\ \A c \in Command :
               receipt'[c] = IF receipt[c] = "processing" THEN Recovered(c) ELSE receipt[c]
      BY <2>2 DEF RecoverIncomplete
    <3>2. /\ OutcomeOf' \in [Command -> Answers \cup {"none"}]
          /\ \A c \in Command : OutcomeOf[c] # "none" => OutcomeOf'[c] = OutcomeOf[c]
      BY <1>0, <3>1 DEF OutcomeOf
    <3>3. ToldOf' = ToldOf
      BY <3>1 DEF ToldOf
    <3>4. Outcomes!DecideAll
      BY <3>2, <3>3 DEF Outcomes!DecideAll, OutcomeOf, ToldOf
    <3> QED BY <3>4 DEF Outcomes!Next
  <2> QED BY <1>8, <2>1, <2>2 DEF WorkerStep
<1>9. CASE UNCHANGED deliveryVars
  BY <1>1, <1>9 DEF deliveryVars
<1> QED BY <1>2, <1>3, <1>4, <1>5, <1>6, <1>7, <1>8, <1>9 DEF DeliveryNext, CoreStep

(* ImplementsOutcomes: every command has one outcome, decided once, and no *)
(* page ever hears another.                                                *)
THEOREM OneOutcome == DeliverySpec => ImplementsOutcomes
<1>1. DeliveryInit => Outcomes!Init
  BY DEF DeliveryInit, Outcomes!Init, Answers
<1>2. DeliveryInv /\ [DeliveryNext]_deliveryVars => [Outcomes!Next]_<<OutcomeOf, ToldOf>>
  BY InvParts, OutcomeSteps
<1> QED BY <1>1, <1>2, DeliveryInvariant, PTL
        DEF DeliverySpec, ImplementsOutcomes, Outcomes!Spec, OutcomeOf, ToldOf

-------------------------------------------------------------------------------
(****************************************************************************)
(* The text of an answer.  Which pieces stand inside a thought and which make a *)
(* tag is defined over the whole text; both are what a walk through the text    *)
(* comes to, so that a further piece changes nothing before the last one.       *)
(****************************************************************************)
\* A walk: a function of the positions of a text, each value from the one before.
Walks(S, b, g, n, f) == f \in [0..n -> S] /\ f[0] = b /\ \A k \in 1..n : f[k] = g[<<f[k - 1], k>>]

LEMMA WalkExists ==
  ASSUME NEW S, NEW b \in S, NEW n \in Nat, NEW g \in [S \X (1..n) -> S]
  PROVE  \E f : Walks(S, b, g, n, f)
<1>1. PICK q : q = [k \in 1..n |-> k]
  OBVIOUS
<1>2. q \in Seq(1..n) /\ Len(q) = n /\ \A k \in 1..n : q[k] = k
  BY <1>1
<1>3. Iterable(S, 1..n, b, g, q)
  BY <1>2 DEF Iterable
<1>4. PICK f \in [0..Len(q) -> S] : f[0] = b /\ \A k \in 1..Len(q) : f[k] = g[<<f[k - 1], q[k]>>]
  BY <1>3, Iterates
<1> QED BY <1>2, <1>4 DEF Walks

\* The piece that ends a tag, and where a text stands after n pieces.
Tag(w, n, in) == n > 1 /\ w[n - 1] = Mark /\ w[n] = (IF in THEN Closer ELSE Opener)
InsideOf(w, f) ==
  f = [n \in 0..Len(w) |->
        IF n < 2 THEN FALSE
        ELSE IF w[n - 1] = Mark /\ w[n] = (IF f[n - 1] THEN Closer ELSE Opener)
             THEN ~f[n - 1] ELSE f[n - 1]]

LEMMA InsideIs ==
  ASSUME NEW w \in Seq(Pieces)
  PROVE  /\ Inside(w) \in [0..Len(w) -> BOOLEAN] /\ Inside(w)[0] = FALSE
         /\ \A k \in 1..Len(w) :
              Inside(w)[k] = IF Tag(w, k, Inside(w)[k - 1]) THEN ~Inside(w)[k - 1] ELSE Inside(w)[k - 1]
<1>1. PICK n \in Nat : n = Len(w)
  OBVIOUS
<1> DEFINE step(in, k) == IF Tag(w, k, in) THEN ~in ELSE in
           g == [p \in BOOLEAN \X (1..n) |-> step(p[1], p[2])]
<1>2. g \in [BOOLEAN \X (1..n) -> BOOLEAN]
  <2>1. ASSUME NEW p \in BOOLEAN \X (1..n) PROVE step(p[1], p[2]) \in BOOLEAN
    <3>1. p[1] \in BOOLEAN
      OBVIOUS
    <3> QED BY <3>1
  <2> HIDE DEF step
  <2> QED BY <2>1
<1>3. \A in \in BOOLEAN, k \in 1..n : g[<<in, k>>] = step(in, k)
  <2> HIDE DEF step
  <2> QED OBVIOUS
<1>4. PICK f : Walks(BOOLEAN, FALSE, g, n, f)
  <2> HIDE DEF g
  <2> QED BY <1>2, WalkExists
<1>5. /\ f \in [0..n -> BOOLEAN] /\ f[0] = FALSE
      /\ \A k \in 1..n : f[k] = step(f[k - 1], k)
  <2>1. f \in [0..n -> BOOLEAN] /\ f[0] = FALSE
    BY <1>4 DEF Walks
  <2>2. ASSUME NEW k \in 1..n PROVE f[k] = step(f[k - 1], k)
    <3>1. f[k] = g[<<f[k - 1], k>>] /\ k - 1 \in 0..n
      <4> HIDE DEF g, step
      <4> QED BY <1>1, <1>4 DEF Walks
    <3>2. f[k - 1] \in BOOLEAN
      BY <2>1, <3>1
    <3> HIDE DEF g, step
    <3> QED BY <3>1, <3>2, <1>3
  <2> HIDE DEF step
  <2> QED BY <2>1, <2>2
<1>6. f[1] = FALSE \/ n = 0
  <2>1. CASE n # 0
    <3>1. 1 \in 1..n /\ 1 - 1 = 0
      BY <1>1, <2>1
    <3>2. f[1] = step(f[1 - 1], 1)
      BY <1>5, <3>1
    <3>3. ~Tag(w, 1, f[1 - 1])
      BY DEF Tag
    <3> QED BY <1>5, <3>1, <3>2, <3>3
  <2> QED BY <2>1
<1>7. ASSUME NEW k \in 0..n
      PROVE  f[k] = IF k < 2 THEN FALSE
                    ELSE IF w[k - 1] = Mark /\ w[k] = (IF f[k - 1] THEN Closer ELSE Opener)
                         THEN ~f[k - 1] ELSE f[k - 1]
  <2>1. CASE k < 2
    <3>1. k = 0 \/ (k = 1 /\ n # 0)
      BY <2>1
    <3> QED BY <1>5, <1>6, <2>1, <3>1
  <2>2. CASE ~(k < 2)
    <3>1. k \in 1..n /\ k > 1
      BY <2>2
    <3>2. f[k] = step(f[k - 1], k)
      BY <1>5, <3>1
    <3> QED BY <2>2, <3>1, <3>2 DEF Tag
  <2> QED BY <2>1, <2>2
<1>8. InsideOf(w, f)
  BY <1>1, <1>5, <1>7 DEF InsideOf
<1>9. InsideOf(w, Inside(w))
  <2>1. Inside(w) = CHOOSE h : InsideOf(w, h)
    BY DEF Inside, InsideOf
  <2> QED BY <1>8, <2>1
<1>10. PICK h : h = Inside(w)
  OBVIOUS
<1>11. h = [k \in 0..n |->
        IF k < 2 THEN FALSE
        ELSE IF w[k - 1] = Mark /\ w[k] = (IF h[k - 1] THEN Closer ELSE Opener)
             THEN ~h[k - 1] ELSE h[k - 1]]
  BY <1>1, <1>9, <1>10 DEF InsideOf
<1> DEFINE Bad == {k \in Nat : k <= n /\ h[k] # f[k]}
<1>12. ASSUME Bad # {} PROVE FALSE
  <2>1. PICK m \in Bad : \A k \in Bad : m <= k
    <3>1. Bad \in SUBSET Nat
      OBVIOUS
    <3> HIDE DEF Bad
    <3> QED BY <1>12, <3>1, Least
  <2>2. m \in 0..n /\ m \in Nat
    BY <2>1
  <2>3. ~(m < 2)
    <3>1. CASE m < 2
      <4>1. h[m] = FALSE
        BY <1>11, <2>2, <3>1
      <4>2. f[m] = FALSE
        BY <1>7, <2>2, <3>1
      <4> QED BY <2>1, <4>1, <4>2
    <3> QED BY <3>1
  <2>4. m - 1 \in Nat /\ m - 1 <= n /\ m - 1 \notin Bad
    BY <2>1, <2>2, <2>3
  <2>5. h[m - 1] = f[m - 1]
    BY <2>4
  <2>6. h[m] = IF w[m - 1] = Mark /\ w[m] = (IF h[m - 1] THEN Closer ELSE Opener)
               THEN ~h[m - 1] ELSE h[m - 1]
    BY <1>11, <2>2, <2>3
  <2>7. f[m] = IF w[m - 1] = Mark /\ w[m] = (IF f[m - 1] THEN Closer ELSE Opener)
               THEN ~f[m - 1] ELSE f[m - 1]
    BY <1>7, <2>2, <2>3
  <2>8. h[m] = f[m]
    BY <2>5, <2>6, <2>7
  <2> QED BY <2>1, <2>8
<1>13. h = f
  <2>1. DOMAIN h = 0..n /\ DOMAIN f = 0..n
    BY <1>5, <1>11
  <2>2. \A k \in 0..n : h[k] = f[k]
    BY <1>1, <1>12
  <2> QED BY <1>5, <1>11, <2>1, <2>2
<1> QED BY <1>1, <1>5, <1>10, <1>13

LEMMA InsideNext ==
  ASSUME NEW w \in Seq(Pieces), NEW k \in Nat, NEW m \in Nat, m = k + 1, m <= Len(w)
  PROVE  Inside(w)[m] = IF Tag(w, m, Inside(w)[k]) THEN ~Inside(w)[k] ELSE Inside(w)[k]
<1>1. m \in 1..Len(w) /\ m - 1 = k
  OBVIOUS
<1> QED BY <1>1, InsideIs

\* What is inside does not depend on the pieces that follow.
LEMMA InsideAgrees ==
  ASSUME NEW w \in Seq(Pieces), NEW x \in Seq(Pieces), Len(w) <= Len(x),
         \A k \in 1..Len(w) : x[k] = w[k]
  PROVE  \A k \in 0..Len(w) : Inside(x)[k] = Inside(w)[k]
<1>1. PICK n \in Nat : n = Len(w)
  OBVIOUS
<1>2. PICK h : h = Inside(w)
  OBVIOUS
<1>3. PICK f : f = Inside(x)
  OBVIOUS
<1>4. h[0] = FALSE /\ \A k \in 1..n : h[k] = IF Tag(w, k, h[k - 1]) THEN ~h[k - 1] ELSE h[k - 1]
  BY <1>1, <1>2, InsideIs
<1>5. f[0] = FALSE /\ \A k \in 1..n : f[k] = IF Tag(x, k, f[k - 1]) THEN ~f[k - 1] ELSE f[k - 1]
  <2>1. \A k \in 1..n : k \in 1..Len(x)
    BY <1>1
  <2> QED BY <1>3, <2>1, InsideIs
<1> DEFINE Bad == {k \in Nat : k <= n /\ h[k] # f[k]}
<1>6. ASSUME Bad # {} PROVE FALSE
  <2>1. PICK m \in Bad : \A k \in Bad : m <= k
    <3>1. Bad \in SUBSET Nat
      OBVIOUS
    <3> HIDE DEF Bad
    <3> QED BY <1>6, <3>1, Least
  <2>2. m \in 1..n /\ m - 1 \in Nat /\ m - 1 <= n /\ m - 1 \notin Bad
    <3>1. m # 0 /\ m \in Nat /\ m <= n
      BY <1>4, <1>5, <2>1
    <3>2. ~(m <= m - 1)
      BY <3>1
    <3> QED BY <2>1, <3>1, <3>2
  <2>3. h[m - 1] = f[m - 1]
    BY <2>2
  <2>4. Tag(w, m, h[m - 1]) <=> Tag(x, m, f[m - 1])
    <3>1. CASE m > 1
      <4>1. m - 1 \in 1..n /\ m \in 1..n
        BY <2>2, <3>1
      <4> QED BY <1>1, <2>3, <4>1 DEF Tag
    <3>2. CASE ~(m > 1)
      BY <3>2 DEF Tag
    <3> QED BY <3>1, <3>2
  <2>5. h[m] = f[m]
    BY <1>4, <1>5, <2>2, <2>3, <2>4
  <2> QED BY <2>1, <2>5
<1> QED BY <1>1, <1>2, <1>3, <1>6

\* A piece is in a tag when it ends one or when the next one ends one.
LEMMA InTagIs ==
  ASSUME NEW w \in Seq(Pieces), NEW n \in 1..Len(w)
  PROVE  InTag(w, n) <=> \/ Tag(w, n, Inside(w)[n - 1])
                         \/ n < Len(w) /\ Tag(w, n + 1, Inside(w)[n])
<1>1. PICK h : h = Inside(w)
  OBVIOUS
<1>2. h \in [0..Len(w) -> BOOLEAN]
      /\ \A k \in 1..Len(w) : h[k] = IF Tag(w, k, h[k - 1]) THEN ~h[k - 1] ELSE h[k - 1]
  BY <1>1, InsideIs
<1>3. ASSUME NEW k \in 1..Len(w) PROVE h[k] # h[k - 1] <=> Tag(w, k, h[k - 1])
  <2>1. k - 1 \in 0..Len(w)
    OBVIOUS
  <2> QED BY <1>2, <2>1
<1>4. Tag(w, n, h[n - 1]) <=> (n > 1 /\ h[n] # h[n - 1])
  BY <1>3 DEF Tag
<1>5. (n < Len(w) /\ Tag(w, n + 1, h[n])) <=> (n < Len(w) /\ h[n + 1] # h[n])
  <2>1. CASE n < Len(w)
    <3>1. n + 1 \in 1..Len(w) /\ n + 1 - 1 = n
      BY <2>1
    <3> QED BY <1>3, <3>1
  <2> QED BY <2>1
<1> QED BY <1>1, <1>4, <1>5 DEF InTag

LEMMA InTagNext ==
  ASSUME NEW w \in Seq(Pieces), NEW k \in Nat, NEW m \in Nat, m = k + 1, m <= Len(w)
  PROVE  InTag(w, m) <=> \/ Tag(w, m, Inside(w)[k])
                         \/ m < Len(w) /\ Tag(w, m + 1, Inside(w)[m])
<1>1. m \in 1..Len(w) /\ m - 1 = k
  OBVIOUS
<1> QED BY <1>1, InTagIs

\* The pieces of a text that a split keeps, up to the n-th.
SplitOf(w, th, f) ==
  f = [n \in 0..Len(w) |->
        IF n = 0 THEN <<>>
        ELSE IF InTag(w, n) \/ Inside(w)[n] # th THEN f[n - 1]
        ELSE Append(f[n - 1], w[n])]

Splits(w, th, f) ==
  /\ f \in [0..Len(w) -> Seq(Pieces)] /\ f[0] = <<>>
  /\ \A k \in 1..Len(w) :
       f[k] = IF InTag(w, k) \/ Inside(w)[k] # th THEN f[k - 1] ELSE Append(f[k - 1], w[k])

LEMMA SplitIs ==
  ASSUME NEW w \in Seq(Pieces), NEW th \in BOOLEAN
  PROVE  \E f : Splits(w, th, f) /\ Split(w, th) = f[Len(w)]
<1>1. PICK n \in Nat : n = Len(w)
  OBVIOUS
<1> DEFINE step(s, k) == IF InTag(w, k) \/ Inside(w)[k] # th THEN s ELSE Append(s, w[k])
           g == [p \in Seq(Pieces) \X (1..n) |-> step(p[1], p[2])]
<1>2. g \in [Seq(Pieces) \X (1..n) -> Seq(Pieces)]
  <2>1. ASSUME NEW p \in Seq(Pieces) \X (1..n) PROVE step(p[1], p[2]) \in Seq(Pieces)
    <3>1. p[1] \in Seq(Pieces) /\ w[p[2]] \in Pieces
      BY <1>1
    <3>2. Append(p[1], w[p[2]]) \in Seq(Pieces)
      BY <3>1
    <3> QED BY <3>1, <3>2
  <2> HIDE DEF step
  <2> QED BY <2>1
<1>3. \A s \in Seq(Pieces), k \in 1..n : g[<<s, k>>] = step(s, k)
  <2> HIDE DEF step
  <2> QED OBVIOUS
<1>4. PICK f : Walks(Seq(Pieces), <<>>, g, n, f)
  <2>1. <<>> \in Seq(Pieces)
    OBVIOUS
  <2> HIDE DEF g
  <2> QED BY <1>2, <2>1, WalkExists
<1>5. f \in [0..n -> Seq(Pieces)] /\ f[0] = <<>>
  BY <1>4 DEF Walks
<1>6. ASSUME NEW k \in 1..n PROVE f[k] = step(f[k - 1], k)
  <2>1. f[k] = g[<<f[k - 1], k>>] /\ k - 1 \in 0..n
    <3> HIDE DEF g, step
    <3> QED BY <1>1, <1>4 DEF Walks
  <2>2. f[k - 1] \in Seq(Pieces)
    BY <1>5, <2>1
  <2> HIDE DEF g, step
  <2> QED BY <2>1, <2>2, <1>3
<1>7. SplitOf(w, th, f)
  <2>1. f = [k \in 0..n |-> f[k]]
    BY <1>5
  <2>2. ASSUME NEW k \in 0..n
        PROVE  f[k] = IF k = 0 THEN <<>>
                      ELSE IF InTag(w, k) \/ Inside(w)[k] # th THEN f[k - 1]
                      ELSE Append(f[k - 1], w[k])
    <3>1. k = 0 \/ k \in 1..n
      OBVIOUS
    <3> QED BY <1>5, <1>6, <3>1
  <2> QED BY <1>1, <2>1, <2>2 DEF SplitOf
<1>8. PICK h : SplitOf(w, th, h) /\ Split(w, th) = h[n]
  <2>1. Split(w, th) = (CHOOSE h : SplitOf(w, th, h))[Len(w)]
    BY DEF Split, SplitOf
  <2> QED BY <1>1, <1>7, <2>1
<1>9. /\ DOMAIN h = 0..n /\ h[0] = <<>>
      /\ \A k \in 1..n : h[k] = step(h[k - 1], k)
  <2>1. \A k \in 1..n : k \in 0..n /\ k # 0
    BY <1>1
  <2>2. 0 \in 0..n
    BY <1>1
  <2> QED BY <1>1, <1>8, <2>1, <2>2 DEF SplitOf
<1> DEFINE Bad == {k \in Nat : k <= n /\ h[k] # f[k]}
<1>10. ASSUME Bad # {} PROVE FALSE
  <2>1. PICK m \in Bad : \A k \in Bad : m <= k
    <3>1. Bad \in SUBSET Nat
      OBVIOUS
    <3> HIDE DEF Bad
    <3> QED BY <1>10, <3>1, Least
  <2>2. m \in 1..n /\ m - 1 \in Nat /\ m - 1 <= n /\ m - 1 \notin Bad
    <3> HIDE DEF step
    <3>1. m # 0 /\ m \in Nat /\ m <= n
      BY <1>5, <1>9, <2>1
    <3>2. ~(m <= m - 1)
      BY <3>1
    <3> QED BY <2>1, <3>1, <3>2
  <2>3. h[m - 1] = f[m - 1]
    BY <2>2
  <2>4. h[m] = f[m]
    <3> HIDE DEF step
    <3> QED BY <1>6, <1>9, <2>2, <2>3
  <2> QED BY <2>1, <2>4
<1>11. h = f
  <2>1. \A k \in 0..n : h[k] = f[k]
    BY <1>1, <1>10
  <2>2. h = [k \in 0..n |-> h[k]]
    BY <1>1, <1>8 DEF SplitOf
  <2> QED BY <1>5, <2>1, <2>2
<1> QED BY <1>1, <1>5, <1>6, <1>8, <1>11 DEF Splits

\* Two texts that begin alike are split alike there.
Alike(w, x, n) ==
  \A k \in 1..n : /\ x[k] = w[k] /\ Inside(x)[k] = Inside(w)[k]
                  /\ InTag(x, k) <=> InTag(w, k)

SplitAlike(w, x, th, h, f, n) ==
  /\ w \in Seq(Pieces) /\ x \in Seq(Pieces) /\ n \in Nat /\ n <= Len(w) /\ n <= Len(x)
  /\ Splits(w, th, h) /\ Splits(x, th, f) /\ Alike(w, x, n)

LEMMA SplitsAgree ==
  ASSUME NEW w, NEW x, NEW th, NEW h, NEW f, NEW n, SplitAlike(w, x, th, h, f, n)
  PROVE  h[n] = f[n]
<1>0. /\ w \in Seq(Pieces) /\ x \in Seq(Pieces) /\ n \in Nat /\ n <= Len(w) /\ n <= Len(x)
      /\ Splits(w, th, h) /\ Splits(x, th, f) /\ Alike(w, x, n)
  BY DEF SplitAlike
<1> DEFINE Bad == {k \in Nat : k <= n /\ h[k] # f[k]}
<1>1. ASSUME Bad # {} PROVE FALSE
  <2>1. PICK m \in Bad : \A k \in Bad : m <= k
    <3>1. Bad \in SUBSET Nat
      OBVIOUS
    <3> HIDE DEF Bad
    <3> QED BY <1>1, <3>1, Least
  <2>2. m \in 1..n /\ m - 1 \in Nat /\ m - 1 <= n /\ m - 1 \notin Bad
    <3>1. m # 0 /\ m \in Nat /\ m <= n
      BY <1>0, <2>1 DEF Splits
    <3>2. ~(m <= m - 1)
      BY <3>1
    <3> QED BY <1>0, <2>1, <3>1, <3>2
  <2>3. h[m - 1] = f[m - 1]
    BY <2>2
  <2>4. m \in 1..Len(w) /\ m \in 1..Len(x)
    BY <1>0, <2>2
  <2>5. h[m] = IF InTag(w, m) \/ Inside(w)[m] # th THEN h[m - 1] ELSE Append(h[m - 1], w[m])
    BY <1>0, <2>4 DEF Splits
  <2>6. f[m] = IF InTag(x, m) \/ Inside(x)[m] # th THEN f[m - 1] ELSE Append(f[m - 1], x[m])
    BY <1>0, <2>4 DEF Splits
  <2>7. h[m] = f[m]
    BY <2>2, <2>3, <2>5, <2>6, <1>0 DEF Alike
  <2> QED BY <2>1, <2>7
<1> QED BY <1>0, <1>1

At(w) == Inside(w)[Len(w)]

\* A piece that ends no tag is kept where the text stands.
LEMMA SplitMore ==
  ASSUME NEW w \in Seq(Pieces), NEW p \in Pieces, NEW th \in BOOLEAN,
         NEW x \in Seq(Pieces), x = Append(w, p), ~Tag(x, Len(x), At(w))
  PROVE  /\ At(x) = At(w) /\ At(w) \in BOOLEAN
         /\ Split(w, th) \in Seq(Pieces)
         /\ Split(x, th) = IF At(w) = th THEN Append(Split(w, th), p) ELSE Split(w, th)
<1>1. PICK n \in Nat : n = Len(w)
  OBVIOUS
<1>2. Len(x) = n + 1 /\ x[n + 1] = p /\ \A k \in 1..n : x[k] = w[k]
  BY <1>1
<1>3. \A k \in 0..n : Inside(x)[k] = Inside(w)[k]
  <2>1. Len(w) <= Len(x) /\ \A k \in 1..Len(w) : x[k] = w[k]
    BY <1>1, <1>2
  <2> QED BY <1>1, <2>1, InsideAgrees
<1>4. PICK at \in BOOLEAN : at = At(w) /\ at = Inside(w)[n]
  <2>1. n \in 0..Len(w)
    BY <1>1
  <2> QED BY <1>1, <2>1, InsideIs DEF At
<1>5. Inside(x)[n] = at
  BY <1>3, <1>4
<1>6. ~Tag(x, n + 1, at)
  BY <1>2, <1>4
<1>7. Inside(x)[n + 1] = at /\ At(x) = at
  <2>1. n + 1 \in Nat /\ n + 1 <= Len(x)
    BY <1>2
  <2>2. Inside(x)[n + 1] = IF Tag(x, n + 1, Inside(x)[n]) THEN ~Inside(x)[n] ELSE Inside(x)[n]
    BY <2>1, InsideNext
  <2> QED BY <1>2, <1>5, <1>6, <2>2 DEF At
<1>8. ASSUME NEW k \in 1..n PROVE InTag(x, k) <=> InTag(w, k)
  <2>1. k \in 1..Len(x) /\ k \in 1..Len(w) /\ k - 1 \in 0..n /\ k \in 0..n
    BY <1>1, <1>2
  <2>2. Inside(x)[k] = Inside(w)[k] /\ Inside(x)[k - 1] = Inside(w)[k - 1]
    BY <1>3, <2>1
  <2>3. InTag(x, k) <=> \/ Tag(x, k, Inside(w)[k - 1])
                        \/ k < n + 1 /\ Tag(x, k + 1, Inside(w)[k])
    BY <1>2, <2>1, <2>2, InTagIs
  <2>4. InTag(w, k) <=> \/ Tag(w, k, Inside(w)[k - 1])
                        \/ k < n /\ Tag(w, k + 1, Inside(w)[k])
    BY <1>1, <2>1, InTagIs
  <2>5. Tag(x, k, Inside(w)[k - 1]) <=> Tag(w, k, Inside(w)[k - 1])
    <3>1. k > 1 => k - 1 \in 1..n
      OBVIOUS
    <3> QED BY <1>2, <3>1 DEF Tag
  <2>6. CASE k = n
    <3>1. ~Tag(x, k + 1, Inside(w)[k])
      BY <1>4, <1>6, <2>6
    <3> QED BY <2>3, <2>4, <2>5, <2>6, <3>1
  <2>7. CASE k # n
    <3>1. k < n /\ k < n + 1 /\ k + 1 \in 1..n /\ k + 1 - 1 = k
      BY <2>7
    <3>2. Tag(x, k + 1, Inside(w)[k]) <=> Tag(w, k + 1, Inside(w)[k])
      BY <1>2, <3>1 DEF Tag
    <3> QED BY <2>3, <2>4, <2>5, <3>1, <3>2
  <2> QED BY <2>6, <2>7
<1>9. PICK h : Splits(w, th, h) /\ Split(w, th) = h[n]
  BY <1>1, SplitIs
<1>10. PICK f : Splits(x, th, f) /\ Split(x, th) = f[n + 1]
  BY <1>2, SplitIs
<1>11. h[n] = f[n]
  <2>1. n <= Len(w) /\ n <= Len(x)
    BY <1>1, <1>2
  <2>2. Alike(w, x, n)
    <3>1. \A k \in 1..n : k \in 0..n
      OBVIOUS
    <3> QED BY <1>2, <1>3, <1>8, <3>1 DEF Alike
  <2>3. Splits(w, th, h) /\ Splits(x, th, f)
    BY <1>9, <1>10
  <2>4. SplitAlike(w, x, th, h, f, n)
    BY <2>1, <2>2, <2>3 DEF SplitAlike
  <2> QED BY <2>4, SplitsAgree
<1>12. ~InTag(x, n + 1)
  <2>1. n + 1 \in Nat /\ n + 1 <= Len(x) /\ ~(n + 1 < Len(x))
    BY <1>2
  <2>2. InTag(x, n + 1) <=> \/ Tag(x, n + 1, Inside(x)[n])
                            \/ n + 1 < Len(x) /\ Tag(x, n + 1 + 1, Inside(x)[n + 1])
    BY <2>1, InTagNext
  <2> QED BY <1>5, <1>6, <2>1, <2>2
<1>13. f[n + 1] = IF at # th THEN f[n] ELSE Append(f[n], p)
  <2>1. n + 1 \in 1..Len(x) /\ n + 1 - 1 = n
    BY <1>2
  <2> QED BY <1>2, <1>7, <1>10, <1>12, <2>1 DEF Splits
<1>14. h[n] \in Seq(Pieces)
  <2>1. n \in 0..Len(w)
    BY <1>1
  <2> QED BY <1>9, <2>1 DEF Splits
<1> QED BY <1>4, <1>7, <1>9, <1>10, <1>11, <1>13, <1>14

\* The two pieces of a tag are kept nowhere.
TagAdded(w, u, p, x) ==
  /\ w \in Seq(Pieces) /\ u \in Seq(Pieces) /\ x \in Seq(Pieces) /\ p \in Pieces
  /\ u = Append(w, Mark) /\ x = Append(u, p) /\ p = (IF At(w) THEN Closer ELSE Opener)

LEMMA SplitTag ==
  ASSUME NEW w, NEW u, NEW p, NEW x, TagAdded(w, u, p, x), NEW th \in BOOLEAN
  PROVE  At(x) = ~At(w) /\ Split(x, th) = Split(w, th)
<1>0. /\ w \in Seq(Pieces) /\ u \in Seq(Pieces) /\ x \in Seq(Pieces) /\ p \in Pieces
      /\ u = Append(w, Mark) /\ x = Append(u, p) /\ p = (IF At(w) THEN Closer ELSE Opener)
  BY DEF TagAdded
<1>1. PICK n \in Nat : n = Len(w)
  BY <1>0
<1>2. /\ Len(u) = n + 1 /\ u[n + 1] = Mark /\ \A k \in 1..n : u[k] = w[k]
      /\ Len(x) = n + 2 /\ x[n + 1] = Mark /\ x[n + 2] = p /\ \A k \in 1..n : x[k] = w[k]
  <2>1. Len(u) = n + 1 /\ u[n + 1] = Mark /\ \A k \in 1..n : u[k] = w[k]
    BY <1>0, <1>1
  <2>2. Len(x) = Len(u) + 1 /\ x[Len(u) + 1] = p /\ \A k \in 1..Len(u) : x[k] = u[k]
    BY <1>0
  <2>3. n + 1 \in 1..Len(u) /\ \A k \in 1..n : k \in 1..Len(u)
    BY <2>1
  <2> QED BY <2>1, <2>2, <2>3
<1>3. \A k \in 0..n : Inside(x)[k] = Inside(w)[k]
  <2>1. Len(w) <= Len(x) /\ \A k \in 1..Len(w) : x[k] = w[k]
    BY <1>1, <1>2
  <2> QED BY <1>1, <2>1, <1>0, InsideAgrees
<1>4. PICK at \in BOOLEAN : at = At(w) /\ at = Inside(w)[n]
  <2>1. n \in 0..Len(w)
    BY <1>1
  <2> QED BY <1>1, <2>1, <1>0, InsideIs DEF At
<1>5. Inside(x)[n] = at
  BY <1>3, <1>4
<1>6. ~Tag(x, n + 1, at)
  BY <1>2 DEF Tag, Mark, Closer, Opener
<1>7. Inside(x)[n + 1] = at
  <2>1. n + 1 \in Nat /\ n + 1 <= Len(x)
    BY <1>2
  <2>2. Inside(x)[n + 1] = IF Tag(x, n + 1, Inside(x)[n]) THEN ~Inside(x)[n] ELSE Inside(x)[n]
    BY <2>1, <1>0, InsideNext
  <2> QED BY <1>5, <1>6, <2>2
<1>8. Tag(x, n + 2, at)
  <2>1. n + 2 > 1 /\ n + 2 - 1 = n + 1
    OBVIOUS
  <2> QED BY <1>0, <1>2, <1>4, <2>1 DEF Tag
<1>9. Inside(x)[n + 2] = ~at /\ At(x) = ~at
  <2>1. n + 1 \in Nat /\ n + 2 \in Nat /\ n + 2 = n + 1 + 1 /\ n + 2 <= Len(x)
    BY <1>2
  <2>2. Inside(x)[n + 2] =
          IF Tag(x, n + 2, Inside(x)[n + 1]) THEN ~Inside(x)[n + 1] ELSE Inside(x)[n + 1]
    BY <2>1, <1>0, InsideNext
  <2> QED BY <1>2, <1>7, <1>8, <2>2 DEF At
<1>10. ASSUME NEW k \in 1..n PROVE InTag(x, k) <=> InTag(w, k)
  <2>1. k \in 1..Len(x) /\ k \in 1..Len(w) /\ k - 1 \in 0..n /\ k \in 0..n
    BY <1>1, <1>2
  <2>2. Inside(x)[k] = Inside(w)[k] /\ Inside(x)[k - 1] = Inside(w)[k - 1]
    BY <1>3, <2>1
  <2>3. InTag(x, k) <=> \/ Tag(x, k, Inside(w)[k - 1])
                        \/ k < n + 2 /\ Tag(x, k + 1, Inside(w)[k])
    BY <1>2, <2>1, <2>2, <1>0, InTagIs
  <2>4. InTag(w, k) <=> \/ Tag(w, k, Inside(w)[k - 1])
                        \/ k < n /\ Tag(w, k + 1, Inside(w)[k])
    BY <1>1, <2>1, <1>0, InTagIs
  <2>5. Tag(x, k, Inside(w)[k - 1]) <=> Tag(w, k, Inside(w)[k - 1])
    <3>1. k > 1 => k - 1 \in 1..n
      OBVIOUS
    <3> QED BY <1>2, <3>1 DEF Tag
  <2>6. CASE k = n
    <3>1. ~Tag(x, k + 1, Inside(w)[k])
      BY <1>4, <1>6, <2>6
    <3> QED BY <2>3, <2>4, <2>5, <2>6, <3>1
  <2>7. CASE k # n
    <3>1. k < n /\ k < n + 2 /\ k + 1 \in 1..n /\ k + 1 - 1 = k
      BY <2>7
    <3>2. Tag(x, k + 1, Inside(w)[k]) <=> Tag(w, k + 1, Inside(w)[k])
      BY <1>2, <3>1 DEF Tag
    <3> QED BY <2>3, <2>4, <2>5, <3>1, <3>2
  <2> QED BY <2>6, <2>7
<1>11. PICK h : Splits(w, th, h) /\ Split(w, th) = h[n]
  BY <1>1, <1>0, SplitIs
<1>12. PICK f : Splits(x, th, f) /\ Split(x, th) = f[n + 2]
  <2>1. PICK f : Splits(x, th, f) /\ Split(x, th) = f[Len(x)]
    BY <1>0, SplitIs
  <2> QED BY <1>2, <2>1
<1>13. h[n] = f[n]
  <2>1. n <= Len(w) /\ n <= Len(x)
    BY <1>1, <1>2
  <2>2. Alike(w, x, n)
    <3>1. \A k \in 1..n : k \in 0..n
      OBVIOUS
    <3> QED BY <1>2, <1>3, <1>10, <3>1 DEF Alike
  <2>3. Splits(w, th, h) /\ Splits(x, th, f)
    BY <1>11, <1>12
  <2>4. SplitAlike(w, x, th, h, f, n)
    BY <2>1, <2>2, <2>3, <1>0 DEF SplitAlike
  <2> QED BY <2>4, SplitsAgree
<1>14. InTag(x, n + 1) /\ InTag(x, n + 2)
  <2>1. n + 1 \in 1..Len(x) /\ n + 2 \in 1..Len(x) /\ n + 1 < Len(x) /\ n + 1 + 1 = n + 2
        /\ n + 2 - 1 = n + 1
    BY <1>2
  <2>2. InTag(x, n + 1)
    <3>1. n + 1 \in Nat /\ n + 1 <= Len(x)
      BY <1>2
    <3>2. InTag(x, n + 1) <=> \/ Tag(x, n + 1, Inside(x)[n])
                              \/ n + 1 < Len(x) /\ Tag(x, n + 1 + 1, Inside(x)[n + 1])
      BY <3>1, <1>0, InTagNext
    <3> QED BY <1>7, <1>8, <2>1, <3>2
  <2>3. InTag(x, n + 2)
    <3>1. n + 1 \in Nat /\ n + 2 \in Nat /\ n + 2 = n + 1 + 1 /\ n + 2 <= Len(x)
      BY <1>2
    <3>2. InTag(x, n + 2) <=> \/ Tag(x, n + 2, Inside(x)[n + 1])
                              \/ n + 2 < Len(x) /\ Tag(x, n + 2 + 1, Inside(x)[n + 2])
      BY <3>1, <1>0, InTagNext
    <3> QED BY <1>7, <1>8, <3>2
  <2> QED BY <2>2, <2>3
<1>15. f[n + 2] = f[n]
  <2>1. n + 1 \in 1..Len(x) /\ n + 2 \in 1..Len(x) /\ n + 1 - 1 = n /\ n + 2 - 1 = n + 1
    BY <1>2
  <2>2. f[n + 1] = f[n]
    BY <1>12, <1>14, <2>1 DEF Splits
  <2>3. f[n + 2] = f[n + 1]
    BY <1>12, <1>14, <2>1 DEF Splits
  <2> QED BY <2>2, <2>3
<1> QED BY <1>4, <1>9, <1>11, <1>12, <1>13, <1>15

-------------------------------------------------------------------------------
(****************************************************************************)
(* The call of a model.  Keys are tried from the first on, so those from the key*)
(* in use on have not been refused; the splitter has given out the split of the *)
(* text heard, up to a "<" it holds; and once a reason to end was given no call *)
(* is heard any more.                                                           *)
(****************************************************************************)
ModelTypes ==
  /\ dialect \in [wire : {"openai", "anthropic"}, tags : BOOLEAN]
  /\ dialect.tags => dialect.wire = "openai"
  /\ modelPhase \in {"asking", "waiting", "reading", "answered", "failed", "aborted"}
  /\ keyRing \in [at : 1..KeyCount, failures : 0..KeyCount] /\ tries \in Nat
  /\ keyFates \in [1..KeyCount -> SUBSET RefusalKinds]
  /\ spoken \in Seq(Pieces) /\ textOut \in Seq(Pieces) /\ thoughtOut \in Seq(Pieces)
  /\ splitter \in [inside : BOOLEAN, held : BOOLEAN]
  /\ partials \in [1..MaxCalls -> {"none", "begun", "whole"}]
  /\ ending \in FinishReasons \cup {Unset} /\ sealed \in BOOLEAN

KeyInv ==
  modelPhase \in {"asking", "waiting"} =>
    /\ keyRing.at = IF keyRing.failures < KeyCount THEN keyRing.failures + 1 ELSE KeyCount
    /\ \A k \in 1..KeyCount : keyRing.at <= k => "auth" \notin keyFates[k]

\* Of the text spoken, w has left the splitter.
Heard(w) ==
  /\ spoken = IF splitter.held THEN Append(w, Mark) ELSE w
  /\ ~splitter.held /\ w # <<>> => w[Len(w)] # Mark
  /\ splitter.inside = At(w)
  /\ textOut = Split(w, FALSE) /\ thoughtOut = Split(w, TRUE)

TextInv ==
  IF dialect.tags THEN \E w \in Seq(Pieces) : Heard(w) ELSE textOut = spoken

EndInv ==
  /\ ending \in {"stop", "tool_calls"} => AllWhole
  /\ modelPhase = "answered" =>
       sealed /\ Complete(TRUE) /\ Agrees /\ outcome = StopReason(ending)

ModelInv == ModelTypes /\ KeyInv /\ TextInv /\ EndInv

LEMMA SplitTyped ==
  ASSUME NEW w \in Seq(Pieces) PROVE \A th \in BOOLEAN : Split(w, th) \in Seq(Pieces)
<1> SUFFICES ASSUME NEW th \in BOOLEAN PROVE Split(w, th) \in Seq(Pieces)
  OBVIOUS
<1>1. PICK f : Splits(w, th, f) /\ Split(w, th) = f[Len(w)]
  BY SplitIs
<1>2. Len(w) \in 0..Len(w)
  OBVIOUS
<1> QED BY <1>1, <1>2 DEF Splits

LEMMA EmptySplit == At(<<>>) = FALSE /\ \A th \in BOOLEAN : Split(<<>>, th) = <<>>
<1>1. PICK w \in Seq(Pieces) : w = <<>>
  <2>1. <<>> \in Seq(Pieces)
    OBVIOUS
  <2> QED BY <2>1
<1>2. Len(w) = 0
  BY <1>1
<1>3. At(w) = FALSE
  BY <1>2, InsideIs DEF At
<1>4. ASSUME NEW th \in BOOLEAN PROVE Split(w, th) = <<>>
  <2>1. PICK f : Splits(w, th, f) /\ Split(w, th) = f[Len(w)]
    BY SplitIs
  <2> QED BY <1>2, <2>1 DEF Splits
<1> QED BY <1>1, <1>3, <1>4

LEMMA ModelBegins == ASSUME ModelInit PROVE ModelInv
<1>1. ModelTypes
  <2>1. KeyCount \in Nat \ {0}
    BY ModelAssumption
  <2>2. <<>> \in Seq(Pieces)
    OBVIOUS
  <2>3. 1 \in 1..KeyCount /\ 0 \in 0..KeyCount
    BY <2>1
  <2>4. keyFates \in [1..KeyCount -> SUBSET RefusalKinds] /\ keyRing \in [at : 1..KeyCount, failures : 0..KeyCount]
    BY <2>3 DEF ModelInit
  <2>5. splitter \in [inside : BOOLEAN, held : BOOLEAN]
        /\ partials \in [1..MaxCalls -> {"none", "begun", "whole"}]
    BY DEF ModelInit
  <2>6. dialect \in [wire : {"openai", "anthropic"}, tags : BOOLEAN]
        /\ (dialect.tags => dialect.wire = "openai")
    <3>1. CASE dialect = [wire |-> "openai", tags |-> TRUE]
      BY <3>1
    <3>2. CASE dialect = [wire |-> "openai", tags |-> FALSE]
      BY <3>2
    <3>3. CASE dialect = [wire |-> "anthropic", tags |-> FALSE]
      BY <3>3
    <3> QED BY <3>1, <3>2, <3>3 DEF ModelInit
  <2> QED BY <2>2, <2>4, <2>5, <2>6 DEF ModelInit, ModelTypes
<1>2. KeyInv
  BY ModelAssumption DEF ModelInit, KeyInv
<1>3. TextInv
  <2>1. CASE dialect.tags
    <3>1. <<>> \in Seq(Pieces)
      OBVIOUS
    <3>2. Heard(<<>>)
      BY EmptySplit DEF ModelInit, Heard
    <3> QED BY <2>1, <3>1, <3>2 DEF TextInv
  <2>2. CASE ~dialect.tags
    BY <2>2 DEF ModelInit, TextInv
  <2> QED BY <2>1, <2>2
<1>4. EndInv
  BY DEF ModelInit, EndInv, Unset
<1> QED BY <1>1, <1>2, <1>3, <1>4 DEF ModelInv

\* What a piece adds to the text that has left the splitter.
LEMMA PieceHeard ==
  ASSUME ModelTypes, NEW w \in Seq(Pieces), Heard(w), NEW p \in Pieces, dialect.tags,
         OpenAiText(p), spoken' = Append(spoken, p)
  PROVE  \E x \in Seq(Pieces) : Heard(x)'
<1>1. PICK in \in BOOLEAN : in = splitter.inside
  BY DEF ModelTypes
<1>2. PICK held \in BOOLEAN : held = splitter.held
  BY DEF ModelTypes
<1>3. PICK f : f = Fed(splitter, p)
  OBVIOUS
<1>4. /\ splitter' = [inside |-> f.inside, held |-> f.held]
      /\ textOut' = IF in THEN textOut ELSE textOut \o f.out
      /\ thoughtOut' = IF in THEN thoughtOut \o f.out ELSE thoughtOut
  BY <1>1, <1>3 DEF OpenAiText
<1>5. /\ textOut \in Seq(Pieces) /\ thoughtOut \in Seq(Pieces)
      /\ textOut = Split(w, FALSE) /\ thoughtOut = Split(w, TRUE) /\ in = At(w)
  BY <1>1 DEF ModelTypes, Heard
<1>6. PICK u \in Seq(Pieces) : u = Append(w, Mark)
  <2>1. Mark \in Pieces
    BY DEF Pieces
  <2>2. Append(w, Mark) \in Seq(Pieces)
    BY <2>1, Added
  <2> QED BY <2>2
<1>7. Len(u) = Len(w) + 1 /\ u[Len(u)] = Mark /\ Len(w) \in Nat
  BY <1>6
<1>8. ~Tag(u, Len(u), At(w))
  BY <1>7 DEF Tag, Mark, Opener, Closer
<1>9. /\ At(u) = in
      /\ Split(u, FALSE) = IF in THEN textOut ELSE Append(textOut, Mark)
      /\ Split(u, TRUE) = IF in THEN Append(thoughtOut, Mark) ELSE thoughtOut
  <2>1. Mark \in Pieces
    BY DEF Pieces
  <2>2. At(u) = At(w)
    BY <1>6, <1>8, <2>1, SplitMore
  <2>3. Split(u, FALSE) = IF At(w) = FALSE THEN Append(Split(w, FALSE), Mark) ELSE Split(w, FALSE)
    BY <1>6, <1>8, <2>1, SplitMore
  <2>4. Split(u, TRUE) = IF At(w) = TRUE THEN Append(Split(w, TRUE), Mark) ELSE Split(w, TRUE)
    BY <1>6, <1>8, <2>1, SplitMore
  <2> QED BY <1>5, <2>2, <2>3, <2>4
<1>13. \A q \in Seq(Pieces), e \in Pieces : q \o <<>> = q /\ q \o <<e>> = Append(q, e)
  <2>1. ASSUME NEW q \in Seq(Pieces) PROVE q \o <<>> = q
    BY ConcatEmptySeq
  <2>2. ASSUME NEW q \in Seq(Pieces), NEW e \in Pieces PROVE q \o <<e>> = Append(q, e)
    OBVIOUS
  <2> QED BY <2>1, <2>2
<1>10. CASE ~held
  <2>1. spoken = w /\ (w # <<>> => w[Len(w)] # Mark)
    BY <1>2, <1>10 DEF Heard
  <2>2. f.inside = in /\ f.held = (p = Mark) /\ f.out = IF p = Mark THEN <<>> ELSE <<p>>
    BY <1>1, <1>2, <1>3, <1>10 DEF Fed
  <2>3. CASE p = Mark
    <3>1. splitter'.held = TRUE /\ splitter'.inside = in /\ textOut' = textOut
          /\ thoughtOut' = thoughtOut
      <4>1. f.out = <<>> /\ f.held = TRUE
        BY <2>2, <2>3
      <4> QED BY <1>4, <1>5, <1>13, <2>2, <4>1
    <3>2. Heard(w)'
      BY <1>5, <2>1, <2>3, <3>1 DEF Heard
    <3> QED BY <3>2
  <2>4. CASE p # Mark
    <3>1. splitter'.held = FALSE /\ splitter'.inside = in
          /\ textOut' = (IF in THEN textOut ELSE Append(textOut, p))
          /\ thoughtOut' = IF in THEN Append(thoughtOut, p) ELSE thoughtOut
      <4>1. f.out = <<p>> /\ f.held = FALSE
        BY <2>2, <2>4
      <4> QED BY <1>4, <1>5, <1>13, <2>2, <4>1
    <3>2. PICK x \in Seq(Pieces) : x = Append(w, p)
      <4>1. Append(w, p) \in Seq(Pieces)
        BY Added
      <4> QED BY <4>1
    <3>3. Len(x) = Len(w) + 1 /\ x[Len(x)] = p /\ x # <<>> /\ \A k \in 1..Len(w) : x[k] = w[k]
      BY <3>2
    <3>4. ~Tag(x, Len(x), At(w))
      <4>1. CASE w = <<>>
        BY <3>3, <4>1 DEF Tag
      <4>2. CASE w # <<>>
        <5>1. Len(w) \in 1..Len(w) /\ Len(x) - 1 = Len(w)
          BY <1>7, <3>3, <4>2
        <5>2. x[Len(x) - 1] = w[Len(w)]
          BY <3>3, <5>1
        <5> QED BY <2>1, <4>2, <5>2 DEF Tag
      <4> QED BY <4>1, <4>2
    <3>5. /\ At(x) = in
          /\ Split(x, FALSE) = IF in THEN textOut ELSE Append(textOut, p)
          /\ Split(x, TRUE) = IF in THEN Append(thoughtOut, p) ELSE thoughtOut
      <4>2. At(x) = At(w)
        BY <3>2, <3>4, SplitMore
      <4>3. Split(x, FALSE) = IF At(w) = FALSE THEN Append(Split(w, FALSE), p) ELSE Split(w, FALSE)
        BY <3>2, <3>4, SplitMore
      <4>4. Split(x, TRUE) = IF At(w) = TRUE THEN Append(Split(w, TRUE), p) ELSE Split(w, TRUE)
        BY <3>2, <3>4, SplitMore
      <4> QED BY <1>5, <4>2, <4>3, <4>4
    <3>6. spoken' = x
      BY <2>1, <3>2
    <3>7. Heard(x)'
      BY <2>4, <3>1, <3>3, <3>5, <3>6 DEF Heard
    <3> QED BY <3>7
  <2> QED BY <2>3, <2>4
<1>11. CASE held /\ p = (IF in THEN Closer ELSE Opener)
  <2>1. spoken = u
    BY <1>2, <1>6, <1>11 DEF Heard
  <2>2. f.inside = ~in /\ f.held = FALSE /\ f.out = <<>>
    BY <1>1, <1>2, <1>3, <1>11 DEF Fed, Mark, Closer, Opener
  <2>3. splitter'.held = FALSE /\ splitter'.inside = ~in /\ textOut' = textOut
        /\ thoughtOut' = thoughtOut
    BY <1>4, <1>5, <1>13, <2>2
  <2>4. PICK x \in Seq(Pieces) : x = Append(u, p)
    <3>1. Append(u, p) \in Seq(Pieces)
      BY Added
    <3> QED BY <3>1
  <2>5. x # <<>> /\ x[Len(x)] = p /\ p # Mark
    BY <1>11, <2>4 DEF Mark, Closer, Opener
  <2>6. TagAdded(w, u, p, x)
    BY <1>5, <1>6, <1>11, <2>4 DEF TagAdded
  <2>7. At(x) = ~in
    <3>1. At(x) = ~At(w)
      BY <2>6, SplitTag
    <3> QED BY <1>5, <3>1
  <2>8. Split(x, FALSE) = textOut /\ Split(x, TRUE) = thoughtOut
    <3>0. \A th \in BOOLEAN : Split(x, th) = Split(w, th)
      BY <2>6, SplitTag
    <3>1. Split(x, FALSE) = Split(w, FALSE)
      BY <3>0
    <3>2. Split(x, TRUE) = Split(w, TRUE)
      BY <3>0
    <3> QED BY <1>5, <3>1, <3>2
  <2>9. spoken' = x
    BY <2>1, <2>4
  <2>10. Heard(x)'
    BY <2>3, <2>5, <2>7, <2>8, <2>9 DEF Heard
  <2> QED BY <2>10
<1>12. CASE held /\ p # (IF in THEN Closer ELSE Opener)
  <2>1. spoken = u
    BY <1>2, <1>6, <1>12 DEF Heard
  <2>2. /\ f.inside = in /\ f.held = (p = Mark)
        /\ f.out = <<Mark>> \o (IF p = Mark THEN <<>> ELSE <<p>>)
    BY <1>1, <1>2, <1>3, <1>12 DEF Fed
  <2>3. CASE p = Mark
    <3>1. f.out = <<Mark>>
      BY <2>2, <2>3
    <3>2. splitter'.held = TRUE /\ splitter'.inside = in
          /\ textOut' = (IF in THEN textOut ELSE Append(textOut, Mark))
          /\ thoughtOut' = IF in THEN Append(thoughtOut, Mark) ELSE thoughtOut
      <4>1. Mark \in Pieces
        BY DEF Pieces
      <4>2. f.held = TRUE
        BY <2>2, <2>3
      <4>3. splitter'.held = TRUE /\ splitter'.inside = in
        BY <1>4, <2>2, <4>2
      <4>4. textOut \o f.out = Append(textOut, Mark) /\ thoughtOut \o f.out = Append(thoughtOut, Mark)
        BY <1>5, <1>13, <3>1, <4>1
      <4> QED BY <1>4, <4>3, <4>4
    <3>3. spoken' = Append(u, Mark)
      BY <2>1, <2>3
    <3>4. Heard(u)'
      BY <1>9, <3>2, <3>3 DEF Heard
    <3> QED BY <3>4
  <2>4. CASE p # Mark
    <3>1. f.out = <<Mark, p>> /\ Mark \in Pieces
      <4>1. Mark \in Pieces
        BY DEF Pieces
      <4>2. <<Mark>> \in Seq(Pieces) /\ <<Mark, p>> = Append(<<Mark>>, p)
        BY <4>1
      <4>3. <<Mark>> \o <<p>> = <<Mark, p>>
        BY <1>13, <4>2
      <4> QED BY <2>2, <2>4, <4>1, <4>3
    <3>2. splitter'.held = FALSE /\ splitter'.inside = in
          /\ textOut' = (IF in THEN textOut ELSE Append(Append(textOut, Mark), p))
          /\ thoughtOut' = IF in THEN Append(Append(thoughtOut, Mark), p) ELSE thoughtOut
      <4>1. \A q \in Seq(Pieces) : q \o <<Mark, p>> = Append(Append(q, Mark), p)
        BY <3>1
      <4>2. splitter'.held = FALSE /\ splitter'.inside = in
        BY <1>4, <2>2, <2>4
      <4> QED BY <1>4, <1>5, <3>1, <4>1, <4>2
    <3>3. PICK x \in Seq(Pieces) : x = Append(u, p)
      <4>1. Append(u, p) \in Seq(Pieces)
        BY Added
      <4> QED BY <4>1
    <3>4. Len(x) = Len(u) + 1 /\ x[Len(x)] = p /\ x # <<>>
      BY <3>3
    <3>5. ~Tag(x, Len(x), At(u))
      BY <1>9, <1>12, <3>4 DEF Tag
    <3>6. /\ At(x) = in
          /\ Split(x, FALSE) = IF in THEN textOut ELSE Append(Append(textOut, Mark), p)
          /\ Split(x, TRUE) = IF in THEN Append(Append(thoughtOut, Mark), p) ELSE thoughtOut
      <4>2. At(x) = At(u)
        BY <3>3, <3>5, SplitMore
      <4>3. Split(x, FALSE) = IF At(u) = FALSE THEN Append(Split(u, FALSE), p) ELSE Split(u, FALSE)
        BY <3>3, <3>5, SplitMore
      <4>4. Split(x, TRUE) = IF At(u) = TRUE THEN Append(Split(u, TRUE), p) ELSE Split(u, TRUE)
        BY <3>3, <3>5, SplitMore
      <4>5. CASE in
        BY <1>9, <4>2, <4>3, <4>4, <4>5
      <4>6. CASE ~in
        BY <1>9, <4>2, <4>3, <4>4, <4>6
      <4> QED BY <4>5, <4>6
    <3>7. spoken' = x
      BY <2>1, <3>3
    <3>8. Heard(x)'
      BY <2>4, <3>2, <3>4, <3>6, <3>7 DEF Heard
    <3> QED BY <3>8
  <2> QED BY <2>3, <2>4
<1> QED BY <1>10, <1>11, <1>12

\* What only reading changes.
TextStays == UNCHANGED <<dialect, spoken, splitter, textOut, thoughtOut>>

LEMMA TextKept == ASSUME TextInv, TextStays PROVE TextInv'
<1>1. \A w : Heard(w)' <=> Heard(w)
  BY DEF TextStays, Heard
<1> QED BY <1>1 DEF TextInv, TextStays

LEMMA EndingKept ==
  ASSUME EndInv, UNCHANGED <<ending, partials>>, modelPhase' # "answered" PROVE EndInv'
BY DEF EndInv, AllWhole, CallsMade

LEMMA ConcludeEnds ==
  ASSUME ModelTypes, EndInv, NEW done \in BOOLEAN, Conclude(done), sealed' = done,
         UNCHANGED <<ending, partials>>
  PROVE  EndInv' /\ modelPhase' \in {"answered", "failed"}
<1>1. CASE EndAccepted(done) /\ Agrees
  <2>1. modelPhase' = "answered" /\ outcome' = StopReason(ending)
    BY <1>1 DEF Conclude
  <2>2. sealed' /\ Complete(TRUE)' /\ Agrees' /\ outcome' = StopReason(ending')
    BY <1>1, <2>1 DEF EndAccepted, Complete, Agrees, CallsMade
  <2> QED BY <2>1, <2>2 DEF EndInv, AllWhole, CallsMade
<1>2. CASE ~(EndAccepted(done) /\ Agrees)
  <2>1. modelPhase' = "failed"
    BY <1>2 DEF Conclude, Fail
  <2> QED BY <2>1, EndingKept
<1> QED BY <1>1, <1>2

LEMMA ModelStep == ASSUME ModelInv, [ModelNext]_modelVars PROVE ModelInv'
<1>0. ModelTypes /\ KeyInv /\ TextInv /\ EndInv
  BY DEF ModelInv
<1>k. KeyCount \in Nat /\ KeyCount >= 1
  BY ModelAssumption
<1>1. ASSUME NEW kind \in Refusals, Refused(kind) PROVE ModelInv'
  <2>1. TextStays /\ UNCHANGED <<ending, partials, sealed>> /\ modelPhase = "asking"
        /\ modelPhase' # "answered"
    BY <1>0, <1>1 DEF Refused, TextStays, Fail
  <2>2. kind \in RefusalKinds
    <3>1. ASSUME NEW st \in Nat, NEW says PROVE Refusal(st, says) \in RefusalKinds
      <4>1. CASE says = "too long" /\ st \in {400, 413, 422}
        BY <4>1 DEF Refusal, RefusalKinds
      <4>2. CASE ~(says = "too long" /\ st \in {400, 413, 422})
        <5>1. CASE st \in {401, 403}
          BY <4>2, <5>1 DEF Refusal, RefusalKinds
        <5>2. CASE st = 429
          BY <4>2, <5>2 DEF Refusal, RefusalKinds
        <5>3. CASE st \in 500..599
          BY <4>2, <5>3 DEF Refusal, RefusalKinds
        <5>4. CASE st \notin {401, 403} /\ st # 429 /\ st \notin 500..599
          BY <4>2, <5>4 DEF Refusal, RefusalKinds
        <5> QED BY <5>1, <5>2, <5>3, <5>4
      <4> QED BY <4>1, <4>2
    <3>2. "network" \in RefusalKinds
      BY DEF RefusalKinds
    <3>3. kind \in {"network", Refusal(413, "too long")}
          \/ kind \in {Refusal(st, "") : st \in {401, 403, 402, 404, 429, 500, 503}}
      BY DEF Refusals
    <3>4. \A st \in {401, 403, 402, 404, 429, 500, 503, 413} : st \in Nat
      OBVIOUS
    <3>5. CASE kind \in {Refusal(st, "") : st \in {401, 403, 402, 404, 429, 500, 503}}
      <4>1. PICK st \in {401, 403, 402, 404, 429, 500, 503} : kind = Refusal(st, "")
        BY <3>5
      <4>2. st \in Nat
        OBVIOUS
      <4>3. Refusal(st, "") \in RefusalKinds
        BY <3>1, <4>2
      <4> QED BY <4>1, <4>3
    <3>6. CASE kind = Refusal(413, "too long")
      <4>1. 413 \in Nat
        OBVIOUS
      <4>2. Refusal(413, "too long") \in RefusalKinds
        BY ONLY <3>1, <4>1
      <4> QED BY <3>6, <4>2
    <3> QED BY <3>2, <3>3, <3>5, <3>6
  <2>3. PICK at \in 1..KeyCount, n \in 0..KeyCount : keyRing = [at |-> at, failures |-> n]
    BY <1>0 DEF ModelTypes
  <2>4. /\ at = IF n < KeyCount THEN n + 1 ELSE KeyCount
        /\ \A k \in 1..KeyCount : at <= k => "auth" \notin keyFates[k]
    BY <1>0, <2>1, <2>3 DEF KeyInv
  <2>5. /\ keyFates' \in [1..KeyCount -> SUBSET RefusalKinds]
        /\ \A k \in 1..KeyCount : k # at \/ kind # "auth" =>
             ("auth" \in keyFates'[k] => "auth" \in keyFates[k])
    <3>1. keyFates' = [keyFates EXCEPT ![at] = @ \cup {kind}]
      BY <1>1, <2>3 DEF Refused
    <3>2. keyFates \in [1..KeyCount -> SUBSET RefusalKinds]
      BY <1>0 DEF ModelTypes
    <3> QED BY <2>2, <3>1, <3>2
  <2>6. CASE UNCHANGED keyRing /\ (modelPhase' = "failed" \/ kind # "auth")
    <3>1. modelPhase' \in {"asking", "waiting", "failed"}
      BY <1>1, <2>1, <2>6 DEF Refused, Fail
    <3>2. ModelTypes'
      BY <1>0, <1>1, <2>1, <2>5, <2>6, <3>1 DEF ModelTypes, Refused, TextStays
    <3>3. KeyInv'
      BY <2>3, <2>4, <2>5, <2>6, <3>1 DEF KeyInv
    <3> QED BY <1>0, <2>1, <3>2, <3>3, TextKept, EndingKept DEF ModelInv
  <2>7. CASE keyRing' = GiveUpKey(keyRing) /\ n + 1 < KeyCount /\ UNCHANGED modelPhase
    <3>1. keyRing' = [at |-> at + 1, failures |-> n + 1] /\ at = n + 1
      <4>0. n \in Int /\ n + 1 < KeyCount /\ KeyCount \in Int
        BY <1>k, <2>7
      <4>a. n < KeyCount
        BY ONLY <4>0
      <4>b. at = n + 1
        BY <2>4, <4>a
      <4>1. at = n + 1 /\ at < KeyCount
        BY ONLY <4>0, <4>b
      <4>2. at % KeyCount = at
        BY <1>k, <4>1
      <4> QED BY <2>3, <2>7, <4>1, <4>2 DEF GiveUpKey, MayAdvance, Advances
    <3>2. keyRing' \in [at : 1..KeyCount, failures : 0..KeyCount]
      <4>1. at + 1 \in 1..KeyCount /\ n + 1 \in 0..KeyCount
        BY <1>k, <2>7, <3>1
      <4> QED BY <3>1, <4>1
    <3>3. ModelTypes'
      BY <1>0, <1>1, <2>1, <2>5, <2>7, <3>2 DEF ModelTypes, Refused, TextStays
    <3>4. KeyInv'
      <4>1. keyRing'.at = at + 1 /\ keyRing'.failures = n + 1
        BY <3>1
      <4>2. \A k \in 1..KeyCount : at + 1 <= k => "auth" \notin keyFates'[k]
        BY <2>4, <2>5
      <4> QED BY <2>7, <3>1, <4>1, <4>2 DEF KeyInv
    <3> QED BY <1>0, <2>1, <3>3, <3>4, TextKept, EndingKept DEF ModelInv
  <2>8. CASE /\ keyRing' = GiveUpKey(keyRing) /\ ~(n + 1 < KeyCount)
             /\ modelPhase' = "failed" \/ kind # "auth"
             /\ modelPhase' \in {"failed", "waiting"}
    <3>1. keyRing' = [at |-> KeyCount, failures |-> KeyCount] /\ at = KeyCount
      <4>1. at = KeyCount
        BY <1>k, <2>4, <2>8
      <4> QED BY <2>3, <2>8, <4>1 DEF GiveUpKey, MayAdvance, Advances
    <3>2. keyRing' \in [at : 1..KeyCount, failures : 0..KeyCount]
      BY <1>k, <3>1
    <3>3. ModelTypes'
      BY <1>0, <1>1, <2>1, <2>5, <2>8, <3>2 DEF ModelTypes, Refused, TextStays
    <3>4. KeyInv'
      <4>1. keyRing'.at = KeyCount /\ keyRing'.failures = KeyCount
        BY <3>1
      <4> QED BY <1>k, <2>4, <2>5, <2>8, <3>1, <4>1 DEF KeyInv
    <3> QED BY <1>0, <2>1, <3>3, <3>4, TextKept, EndingKept DEF ModelInv
  <2> QED BY <1>1, <2>3, <2>6, <2>7, <2>8 DEF Refused, Fail, MayAdvance, Advances
<1>2. CASE BackOff
  <2>1. TextStays /\ modelPhase = "waiting" /\ modelPhase' = "asking"
        /\ UNCHANGED <<keyRing, tries, keyFates, ending, partials, sealed>>
    BY <1>2 DEF BackOff, TextStays
  <2>2. ModelTypes'
    BY <1>0, <2>1 DEF ModelTypes, TextStays
  <2>3. KeyInv'
    BY <1>0, <2>1 DEF KeyInv
  <2> QED BY <1>0, <2>1, <2>2, <2>3, TextKept, EndingKept DEF ModelInv
<1>3. CASE Opens
  <2>1. TextStays /\ modelPhase' = "reading" /\ UNCHANGED <<ending, partials, sealed>>
    BY <1>3 DEF Opens, TextStays
  <2>2. keyFates' \in [1..KeyCount -> SUBSET RefusalKinds] /\ tries' \in Nat
        /\ keyRing' \in [at : 1..KeyCount, failures : 0..KeyCount]
    BY <1>0, <1>3, <1>k DEF Opens, ModelTypes
  <2>3. ModelTypes'
    BY <1>0, <2>1, <2>2 DEF ModelTypes, TextStays
  <2>4. KeyInv'
    BY <2>1 DEF KeyInv
  <2> QED BY <1>0, <2>1, <2>3, <2>4, TextKept, EndingKept DEF ModelInv
<1>4. CASE AbortCall \/ BreaksOff
  <2>1. /\ TextStays /\ modelPhase' \in {"aborted", "failed"}
        /\ UNCHANGED <<keyRing, tries, keyFates, ending, partials, sealed>>
    BY <1>4 DEF AbortCall, BreaksOff, Fail, TextStays
  <2>2. ModelTypes'
    BY <1>0, <2>1 DEF ModelTypes, TextStays
  <2>3. KeyInv'
    BY <2>1 DEF KeyInv
  <2> QED BY <1>0, <2>1, <2>2, <2>3, TextKept, EndingKept DEF ModelInv
<1>5. ASSUME NEW p \in Pieces, HearText(p) PROVE ModelInv'
  <2>1. /\ modelPhase = "reading" /\ spoken' = Append(spoken, p)
        /\ UNCHANGED <<dialect, modelPhase, keyRing, tries, keyFates, ending, partials, sealed>>
    BY <1>5 DEF HearText, Open
  <2>2. KeyInv'
    BY <2>1 DEF KeyInv
  <2>3. EndInv'
    BY <1>0, <2>1, EndingKept
  <2>4. /\ spoken \in Seq(Pieces) /\ textOut \in Seq(Pieces) /\ thoughtOut \in Seq(Pieces)
        /\ spoken' \in Seq(Pieces) /\ Append(textOut, p) \in Seq(Pieces)
    <3>1. spoken \in Seq(Pieces) /\ textOut \in Seq(Pieces) /\ thoughtOut \in Seq(Pieces)
      BY <1>0 DEF ModelTypes
    <3>2. Append(spoken, p) \in Seq(Pieces) /\ Append(textOut, p) \in Seq(Pieces)
      BY <3>1, Added
    <3> QED BY <2>1, <3>1, <3>2
  <2>5. CASE dialect.tags
    <3>1. OpenAiText(p)
      BY <1>0, <1>5, <2>5 DEF HearText, AnthropicText, ModelTypes
    <3>2. PICK w \in Seq(Pieces) : Heard(w)
      BY <1>0, <2>5 DEF TextInv
    <3>3. PICK x \in Seq(Pieces) : Heard(x)'
      BY <1>0, <2>1, <2>5, <3>1, <3>2, PieceHeard
    <3>4. TextInv'
      BY <2>1, <2>5, <3>3 DEF TextInv
    <3>5. splitter' \in [inside : BOOLEAN, held : BOOLEAN]
          /\ textOut' \in Seq(Pieces) /\ thoughtOut' \in Seq(Pieces)
      <4>1. PICK f : f = Fed(splitter, p)
        OBVIOUS
      <4>2. splitter' = [inside |-> f.inside, held |-> f.held]
        BY <2>5, <3>1, <4>1 DEF OpenAiText
      <4>3. PICK tag \in BOOLEAN : tag = (splitter.held /\ p = (IF splitter.inside THEN Closer ELSE Opener))
        OBVIOUS
      <4>4. splitter.inside \in BOOLEAN
        BY <1>0 DEF ModelTypes
      <4>5. f.inside \in BOOLEAN /\ f.held \in BOOLEAN
        BY <4>1, <4>3, <4>4 DEF Fed
      <4>6. textOut' = Split(x, FALSE) /\ thoughtOut' = Split(x, TRUE)
        BY <3>3 DEF Heard
      <4>7. \A th \in BOOLEAN : Split(x, th) \in Seq(Pieces)
        BY SplitTyped
      <4> QED BY <4>2, <4>5, <4>6, <4>7
    <3>6. ModelTypes'
      BY <1>0, <2>1, <2>4, <3>5 DEF ModelTypes
    <3> QED BY <2>2, <2>3, <3>4, <3>6 DEF ModelInv
  <2>6. CASE ~dialect.tags
    <3>1. textOut' = Append(textOut, p) /\ UNCHANGED <<splitter, thoughtOut>>
      BY <1>5, <2>6 DEF HearText, OpenAiText, AnthropicText
    <3>2. TextInv'
      BY <1>0, <2>1, <2>6, <3>1 DEF TextInv
    <3>3. ModelTypes'
      BY <1>0, <2>1, <2>4, <3>1 DEF ModelTypes
    <3> QED BY <2>2, <2>3, <3>2, <3>3 DEF ModelInv
  <2> QED BY <2>5, <2>6
<1>6. ASSUME NEW i \in 1..MaxCalls, HearCall(i) PROVE ModelInv'
  <2>1. /\ TextStays /\ modelPhase = "reading" /\ ending = Unset
        /\ UNCHANGED <<modelPhase, keyRing, tries, keyFates, ending, sealed>>
    BY <1>6 DEF HearCall, Open, TextStays
  <2>2. partials' \in [1..MaxCalls -> {"none", "begun", "whole"}]
    BY <1>0, <1>6 DEF HearCall, ModelTypes
  <2>3. ModelTypes'
    BY <1>0, <2>1, <2>2 DEF ModelTypes, TextStays
  <2>4. KeyInv'
    BY <2>1 DEF KeyInv
  <2>5. EndInv'
    BY <2>1 DEF EndInv, Unset
  <2> QED BY <1>0, <2>1, <2>3, <2>4, <2>5, TextKept DEF ModelInv
<1>7. ASSUME NEW f \in FinishReasons, NEW accepted, Ends(f, accepted), Contradicts(f) => ~accepted
      PROVE  ModelInv'
  <2>1. /\ TextStays /\ modelPhase = "reading"
        /\ UNCHANGED <<keyRing, tries, keyFates, partials, sealed>>
    BY <1>7 DEF Ends, Open, TextStays
  <2>2. CASE accepted
    <3>1. ending' = f /\ modelPhase' = "reading" /\ (ending = Unset \/ ending = f)
      BY <1>7, <2>1, <2>2 DEF Ends, Contradicts
    <3>2. EndInv'
      <4>1. CASE ending = Unset
        <5>1. Truthful(f)
          BY <1>7, <4>1 DEF Ends
        <5>2. f \in {"stop", "tool_calls"} => AllWhole
          BY <5>1 DEF Truthful
        <5> QED BY <2>1, <3>1, <5>2 DEF EndInv, AllWhole, CallsMade
      <4>2. CASE ending = f
        BY <1>0, <2>1, <3>1, <4>2, EndingKept
      <4> QED BY <3>1, <4>1, <4>2
    <3>3. ModelTypes'
      BY <1>0, <2>1, <3>1 DEF ModelTypes, TextStays
    <3>4. KeyInv'
      BY <3>1 DEF KeyInv
    <3> QED BY <1>0, <2>1, <3>2, <3>3, <3>4, TextKept DEF ModelInv
  <2>3. CASE ~accepted
    <3>1. modelPhase' = "failed" /\ UNCHANGED ending
      BY <1>7, <2>3 DEF Ends, Fail
    <3>2. ModelTypes'
      BY <1>0, <2>1, <3>1 DEF ModelTypes, TextStays
    <3>3. KeyInv'
      BY <3>1 DEF KeyInv
    <3> QED BY <1>0, <2>1, <3>1, <3>2, <3>3, TextKept, EndingKept DEF ModelInv
  <2> QED BY <2>2, <2>3
<1>8. ASSUME NEW f \in FinishReasons, HearFinishReason(f) \/ HearStopReason(f) PROVE ModelInv'
  <2>1. \E accepted : Ends(f, accepted) /\ (Contradicts(f) => ~accepted)
    <3>1. CASE HearFinishReason(f)
      <4>1. Ends(f, OpenAiKnows(f) /\ ~Contradicts(f))
        BY <3>1 DEF HearFinishReason
      <4>2. Contradicts(f) => ~(OpenAiKnows(f) /\ ~Contradicts(f))
        OBVIOUS
      <4> QED BY <4>1, <4>2
    <3>2. CASE HearStopReason(f)
      <4>1. Ends(f, ~Contradicts(f))
        BY <3>2 DEF HearStopReason
      <4> QED BY <4>1
    <3> QED BY <1>8, <3>1, <3>2
  <2> QED BY <1>7, <2>1
<1>9. CASE HearDone
  <2>1. /\ TextStays /\ UNCHANGED <<keyRing, tries, keyFates, ending, partials>>
        /\ sealed' = TRUE /\ Conclude(TRUE)
    BY <1>9 DEF HearDone, TextStays
  <2>2. EndInv' /\ modelPhase' \in {"answered", "failed"}
    BY <1>0, <2>1, ConcludeEnds
  <2>3. ModelTypes'
    BY <1>0, <2>1, <2>2 DEF ModelTypes, TextStays
  <2>4. KeyInv'
    BY <2>2 DEF KeyInv
  <2> QED BY <1>0, <2>1, <2>2, <2>3, <2>4, TextKept DEF ModelInv
<1>10. CASE HearMessageStop
  <2>1. /\ TextStays /\ modelPhase = "reading" /\ sealed' = TRUE
        /\ UNCHANGED <<modelPhase, keyRing, tries, keyFates, ending, partials>>
    BY <1>10 DEF HearMessageStop, Open, TextStays
  <2>2. ModelTypes'
    BY <1>0, <2>1 DEF ModelTypes, TextStays
  <2>3. KeyInv'
    BY <2>1 DEF KeyInv
  <2> QED BY <1>0, <2>1, <2>2, <2>3, TextKept, EndingKept DEF ModelInv
<1>11. CASE BodyEnds
  <2>1. /\ TextStays /\ UNCHANGED <<keyRing, tries, keyFates, ending, partials, sealed>>
        /\ Conclude(sealed)
    BY <1>11 DEF BodyEnds, TextStays
  <2>2. EndInv' /\ modelPhase' \in {"answered", "failed"}
    <3>1. sealed \in BOOLEAN /\ sealed' = sealed
      BY <1>0, <2>1 DEF ModelTypes
    <3> QED BY <1>0, <2>1, <3>1, ConcludeEnds
  <2>3. ModelTypes'
    BY <1>0, <2>1, <2>2 DEF ModelTypes, TextStays
  <2>4. KeyInv'
    BY <2>2 DEF KeyInv
  <2> QED BY <1>0, <2>1, <2>2, <2>3, <2>4, TextKept DEF ModelInv
<1>12. CASE UNCHANGED modelVars
  <2>1. TextStays
    BY <1>12 DEF TextStays
  <2>2. ModelTypes' /\ KeyInv'
    BY <1>0, <1>12 DEF ModelTypes, KeyInv
  <2>3. EndInv'
    BY <1>0, <1>12 DEF EndInv, AllWhole, CallsMade, Complete, Agrees, StopReason
  <2> QED BY <1>0, <2>1, <2>2, <2>3, TextKept DEF ModelInv
<1> QED BY <1>1, <1>2, <1>3, <1>4, <1>5, <1>6, <1>8, <1>9, <1>10, <1>11, <1>12 DEF ModelNext

LEMMA FrontOf == ASSUME NEW w \in Seq(Pieces), NEW e \in Pieces PROVE Front(Append(w, e)) = w
<1>1. PICK u \in Seq(Pieces) : u = Append(w, e)
  <2>1. Append(w, e) \in Seq(Pieces)
    BY Added
  <2> QED BY <2>1
<1>2. Len(u) = Len(w) + 1 /\ Len(w) \in Nat /\ \A k \in 1..Len(w) : u[k] = w[k]
  BY <1>1
<1>3. Front(u) = SubSeq(u, 1, Len(w))
  BY <1>2 DEF Front
<1>4. PICK v \in Seq(Pieces) : v = SubSeq(u, 1, Len(w)) /\ Len(v) = Len(w) /\ \A k \in 1..Len(w) : v[k] = u[k]
  <2>1. Len(w) \in 0..Len(u)
    BY <1>2
  <2> QED BY <2>1, FirstOnes
<1>5. v = w
  BY <1>2, <1>4
<1> QED BY <1>1, <1>3, <1>4, <1>5

LEMMA WholeAnswer == ASSUME ModelInv PROVE ProviderHeardRight
<1>0. ModelTypes /\ KeyInv /\ TextInv /\ EndInv
  BY DEF ModelInv
<1>1. RefusedKeyNotReused
  BY <1>0 DEF RefusedKeyNotReused, KeyInv, ModelTypes
<1>2. ASSUME modelPhase = "answered" PROVE AnswerIsWhole
  <2>1. sealed /\ Complete(TRUE) /\ Agrees /\ outcome = StopReason(ending)
    BY <1>0, <1>2 DEF EndInv
  <2>2. ending # Unset /\ ending \in FinishReasons
    BY <1>0, <2>1 DEF ModelTypes, Complete
  <2>3. (outcome = "tool_use") <=> (CallsMade # {})
    BY <2>1, <2>2 DEF Agrees, StopReason, FinishReasons
  <2>4. AllWhole
    <3>1. CASE ending \in {"stop", "tool_calls"}
      BY <1>0, <3>1 DEF EndInv
    <3>2. CASE ending \notin {"stop", "tool_calls"}
      BY <2>1, <3>2 DEF Agrees, AllWhole
    <3> QED BY <3>1, <3>2
  <2>5. CASE dialect.tags
    <3>1. PICK w \in Seq(Pieces) : Heard(w)
      BY <1>0, <2>5 DEF TextInv
    <3>2. (IF splitter.held THEN Front(spoken) ELSE spoken) = w
      <4>1. Mark \in Pieces
        BY DEF Pieces
      <4>2. Front(Append(w, Mark)) = w
        BY <4>1, FrontOf
      <4> QED BY <3>1, <4>2 DEF Heard
    <3> QED BY <2>1, <2>2, <2>3, <2>4, <2>5, <3>1, <3>2 DEF AnswerIsWhole, Heard
  <2>6. CASE ~dialect.tags
    BY <1>0, <2>1, <2>2, <2>3, <2>4, <2>6 DEF AnswerIsWhole, TextInv
  <2> QED BY <2>5, <2>6
<1>3. AnswerIsWhole
  BY <1>2 DEF AnswerIsWhole
<1> QED BY <1>1, <1>3 DEF ProviderHeardRight

\* An answer is acted on only when it is the provider's whole answer, the text and the
\* thoughts shown on the way being the split of the whole text at its tags, and a key that
\* was refused is not asked again (src/providers/http.ts, openai.ts, anthropic.ts, loop.ts).
THEOREM AnswersAreWhole == ModelSpec => []ProviderHeardRight
<1>1. ModelInit => ModelInv
  BY ModelBegins
<1>2. ModelInv /\ [ModelNext]_modelVars => ModelInv'
  BY ModelStep
<1>3. ModelInv => ProviderHeardRight
  BY WholeAnswer
<1> QED BY <1>1, <1>2, <1>3, PTL DEF ModelSpec
=============================================================================
