--------------------------- MODULE ThreadStream ---------------------------
(* How a page keeps a view of a thread: it subscribes, gets a snapshot     *)
(* read from the database in several steps, and live events on top of it.  *)
(* The host (host.ts) stamps events with a cursor, holds back those of a   *)
(* thread whose snapshot is being read, and joins deltas; the page         *)
(* (engineClient.ts) admits what advances the cursor of its thread.        *)
EXTENDS Integers, Sequences, FiniteSets, SequencesExt

CONSTANTS Thread, NoThread,
          Working,      \* threads the engine works on, the others are only read
          MaxFacts,     \* durable items of a thread
          MaxDeltas,    \* deltas of a thread's turn
          MaxSubmissions, MaxStops

ASSUME StreamAssumption == /\ NoThread \notin Thread /\ Working \subseteq Thread
                           /\ {MaxFacts, MaxDeltas, MaxSubmissions, MaxStops} \subseteq Nat

VARIABLES
  exists,    \* threads in the database
  written,   \* items 1 .. written[t] are in the database, an approval for each
  announced, \* items 1 .. announced[t] have been broadcast
  pieces,    \* deltas streamed so far by the turn of a thread
  turn,      \* "none", "live" in the worker, "over"
  epoch,     \* of the worker, 0 while none runs
  stops,     \* how often the worker has stopped or the port was closed
  sequence,  \* #threadSequences, gone with the worker
  subscribed, \* Client.subscribedThreadId
  admission, \* Client.snapshotAdmission and the snapshot being read
  pending,   \* Client.pendingDeltas
  ops, events, \* messages on the port in either direction
  open,      \* a port exists
  connected, \* what the page shows about its connection
  cursors,   \* EngineClient.streamCursors
  expected,  \* EngineClient.expectedSnapshot
  submissions, \* number of submissions made
  view       \* ThreadUiState

data == <<exists, written, announced, pieces, turn>>
host == <<sequence, subscribed, admission, pending>>
page == <<connected, cursors, expected, submissions, view>>
streamVars == <<data, epoch, stops, host, ops, events, open, page>>

NoCursor == <<0, 0>>
Later(a, b) == a[1] > b[1] \/ (a[1] = b[1] /\ a[2] > b[2])
NoAdmission == [thread |-> NoThread, cursor |-> NoCursor, held |-> <<>>, stage |-> "none",
                submission |-> 0, first |-> FALSE, revision |-> 0, previous |-> NoThread]
NoPending == [thread |-> NoThread, pieces |-> <<>>, cursor |-> NoCursor]
NobodyExpected == [submission |-> 0, thread |-> NoThread]
Draft == [thread |-> NoThread, loading |-> FALSE, loaded |-> FALSE, revision |-> 0,
          facts |-> <<>>, text |-> <<>>, seam |-> 0, turn |-> FALSE]
NoSnapshot == [revision |-> -1, facts |-> 0, turn |-> FALSE]

Cursor == Nat \X Nat
Event == [kind : {"initialized", "notFound", "fact", "piece", "complete", "deleted"},
          thread : Thread \cup {NoThread}, cursor : Cursor, numbers : Seq(Nat),
          submission : Nat,
          snapshot : [revision : Int, facts : Nat, turn : BOOLEAN]]

StreamTypeOK ==
  /\ exists \subseteq Thread
  /\ written \in [Thread -> 0 .. MaxFacts + 1] /\ announced \in [Thread -> 0 .. MaxFacts + 1]
  /\ pieces \in [Thread -> 0 .. MaxDeltas] /\ turn \in [Thread -> {"none", "live", "over"}]
  /\ epoch \in Nat /\ stops \in 0 .. MaxStops /\ sequence \in [Thread -> Nat]
  /\ subscribed \in Thread \cup {NoThread}
  /\ admission \in [thread : Thread \cup {NoThread}, cursor : Cursor, held : Seq(Event),
                    stage : {"none", "meta", "rest"}, submission : Nat, first : BOOLEAN,
                    revision : Nat, previous : Thread \cup {NoThread}]
  /\ pending \in [thread : Thread \cup {NoThread}, pieces : Seq(Nat), cursor : Cursor]
  /\ ops \in Seq([first : BOOLEAN, thread : Thread \cup {NoThread}, submission : Nat])
  /\ events \in Seq(Event)
  /\ open \in BOOLEAN /\ connected \in BOOLEAN
  /\ cursors \in [Thread -> Cursor]
  /\ expected \in [submission : Nat, thread : Thread \cup {NoThread}]
  /\ submissions \in 0 .. MaxSubmissions
  /\ view \in [thread : Thread \cup {NoThread}, loading : BOOLEAN, loaded : BOOLEAN,
               revision : Nat, facts : Seq(Nat), text : Seq(Nat), seam : Nat, turn : BOOLEAN]

StreamInit ==
  /\ exists = Thread /\ written = [t \in Thread |-> 0] /\ announced = [t \in Thread |-> 0]
  /\ pieces = [t \in Thread |-> 0] /\ turn = [t \in Thread |-> "none"]
  /\ epoch = 1 /\ stops = 0 /\ sequence = [t \in Thread |-> 0]
  /\ subscribed = NoThread /\ admission = NoAdmission /\ pending = NoPending
  /\ ops = <<>> /\ events = <<>> /\ open = FALSE /\ connected = FALSE
  /\ cursors = [t \in Thread |-> NoCursor] /\ expected = NobodyExpected
  /\ submissions = 0 /\ view = Draft
-----------------------------------------------------------------------------
(* The host.                                                                *)

(* #flushDeltas: what has been joined goes out as one delta with the last   *)
(* cursor.                                                                  *)
Stamped(kind, t, c, ns) == [kind |-> kind, thread |-> t, cursor |-> c, numbers |-> ns,
                          submission |-> 0, snapshot |-> NoSnapshot]
Flushed == IF pending = NoPending THEN events
           ELSE Append(events, Stamped("piece", pending.thread, pending.cursor, pending.pieces))

(* #postToClient: deltas join the pending one, anything else flushes it     *)
(* first.                                                                   *)
PostTo(state, e) ==
  IF e.kind = "piece"
  THEN [out |-> state.out,
        pend |-> [thread |-> e.thread, cursor |-> e.cursor,
                  pieces |-> (IF state.pend = NoPending THEN <<>> ELSE state.pend.pieces)
                             \o e.numbers]]
  ELSE [out |-> (IF state.pend = NoPending THEN state.out
                 ELSE Append(state.out, Stamped("piece", state.pend.thread, state.pend.cursor,
                                              state.pend.pieces))) \o <<e>>,
        pend |-> NoPending]
Sends(all) == events' = all.out /\ pending' = all.pend
Posted(first, held) ==
  LET posted[i \in 0 .. Len(held)] ==
        IF i = 0 THEN first ELSE PostTo(posted[i - 1], held[i])
  IN posted[Len(held)]

(* broadcast: stamped for all, sent to a subscriber, held back for one      *)
(* whose snapshot is being read.                                            *)
NextCursor(t) == <<epoch, sequence[t] + 1>>
Holds(t) == admission.thread = t
Broadcast(kind, t, ns) ==
  LET e == Stamped(kind, t, NextCursor(t), ns) IN
  /\ sequence' = [sequence EXCEPT ![t] = @ + 1]
  /\ IF ~open \/ subscribed # t THEN UNCHANGED <<admission, pending, events>>
     ELSE IF Holds(t)
     THEN /\ admission' = [admission EXCEPT !.held = Append(@, e)]
          /\ UNCHANGED <<pending, events>>
     ELSE Sends(PostTo([out |-> events, pend |-> pending], e)) /\ UNCHANGED admission
  /\ UNCHANGED <<subscribed, ops, open, epoch, stops, page>>

(* The engine stores an item or an approval and announces it afterwards. *)
Write(t) == /\ epoch > 0 /\ t \in exists /\ written[t] < MaxFacts
            /\ written' = [written EXCEPT ![t] = @ + 1]
            /\ UNCHANGED <<exists, announced, pieces, turn, epoch, stops, host, ops, events, open,
                           page>>

Announce(t) == /\ epoch > 0 /\ announced[t] < written[t]
               /\ announced' = [announced EXCEPT ![t] = @ + 1]
               /\ Broadcast("fact", t, <<announced[t] + 1>>)
               /\ UNCHANGED <<exists, written, pieces, turn>>

StreamDelta(t) == /\ epoch > 0 /\ t \in exists /\ turn[t] # "over" /\ pieces[t] < MaxDeltas
                  /\ turn' = [turn EXCEPT ![t] = "live"]
                  /\ pieces' = [pieces EXCEPT ![t] = @ + 1]
                  /\ Broadcast("piece", t, <<pieces[t] + 1>>)
                  /\ UNCHANGED <<exists, written, announced>>

(* The turn's text is stored as an item before turn.complete. *)
CompleteTurn(t) == /\ epoch > 0 /\ t \in exists /\ turn[t] = "live" /\ announced[t] = written[t]
                   /\ turn' = [turn EXCEPT ![t] = "over"]
                   /\ written' = [written EXCEPT ![t] = @ + 1]
                   /\ announced' = [announced EXCEPT ![t] = @ + 1]
                   /\ Broadcast("complete", t, <<announced[t] + 1>>)
                   /\ UNCHANGED <<exists, pieces>>

(* Another page deletes the thread. *)
DeleteThread(t) == /\ epoch > 0 /\ t \in exists /\ turn[t] # "live" /\ announced[t] = written[t]
                   /\ exists' = exists \ {t}
                   /\ Broadcast("deleted", t, <<>>)
                   /\ UNCHANGED <<written, announced, pieces, turn>>

FlushTimer == /\ epoch > 0 /\ pending # NoPending
              /\ events' = Flushed /\ pending' = NoPending
              /\ UNCHANGED <<data, epoch, stops, sequence, subscribed, admission, ops, open, page>>

(* An initialize without a thread is answered at once. *)
InitializeOnly ==
  /\ epoch > 0 /\ open /\ ops # <<>> /\ admission = NoAdmission /\ Head(ops).thread = NoThread
  /\ ops' = Tail(ops)
  /\ events' = Append(events, [Stamped("initialized", NoThread, NoCursor, <<>>)
                               EXCEPT !.submission = Head(ops).submission])
  /\ UNCHANGED <<data, epoch, stops, host, open, page>>

(* #beginSnapshotAdmission, up to the first await of getSnapshot. *)
BeginAdmission ==
  /\ epoch > 0 /\ open /\ ops # <<>> /\ admission = NoAdmission /\ Head(ops).thread # NoThread
  /\ LET t == Head(ops).thread IN
     /\ admission' = [thread |-> t, cursor |-> NextCursor(t), held |-> <<>>, stage |-> "meta",
                      submission |-> Head(ops).submission, first |-> Head(ops).first,
                      revision |-> 0, previous |-> subscribed]
     /\ sequence' = [sequence EXCEPT ![t] = @ + 1]
     /\ subscribed' = t
  /\ ops' = Tail(ops)
  /\ events' = Flushed /\ pending' = NoPending
  /\ UNCHANGED <<data, epoch, stops, open, page>>

(* getSnapshot reads the thread first and its items and approvals later. *)
ReadMeta ==
  /\ admission.stage = "meta" /\ admission.thread \in exists
  /\ admission' = [admission EXCEPT !.stage = "rest", !.revision = written[admission.thread]]
  /\ UNCHANGED <<data, epoch, stops, sequence, subscribed, pending, ops, events, open, page>>

CommitAdmission ==
  /\ admission.stage = "rest"
  /\ LET t == admission.thread
         answer == [kind |-> "initialized", thread |-> t, cursor |-> admission.cursor,
                    numbers |-> <<>>, submission |-> admission.submission,
                    snapshot |-> [revision |-> admission.revision, facts |-> written[t],
                                  turn |-> turn[t] = "live"]]
     IN Sends(Posted([out |-> Append(events, answer), pend |-> pending], admission.held))
  /\ admission' = NoAdmission
  /\ UNCHANGED <<data, epoch, stops, sequence, subscribed, ops, open, page>>

(* The thread is not there, or is gone between the reads: initialize is     *)
(* answered without a snapshot, subscribe with thread_not_found. Of the     *)
(* events held back only the deletion goes out, and the client is           *)
(* subscribed to what it was before.                                        *)
CancelAdmission ==
  /\ admission.stage # "none" /\ admission.thread \notin exists
  /\ LET t == admission.thread
         deletions == {i \in DOMAIN admission.held : admission.held[i].kind = "deleted"}
         deleted == IF deletions = {} THEN <<>> ELSE <<admission.held[Max(deletions)]>>
         answer == [Stamped(IF admission.first THEN "initialized" ELSE "notFound", NoThread,
                          NoCursor, <<>>) EXCEPT !.submission = admission.submission]
     IN events' = events \o deleted \o <<answer>>
  /\ subscribed' = admission.previous
  /\ admission' = NoAdmission
  /\ UNCHANGED <<data, epoch, stops, sequence, pending, ops, open, page>>

(* The port is closed, by the host or the browser, and what is on it is lost. *)
LosePort ==
  /\ open /\ stops < MaxStops
  /\ stops' = stops + 1
  /\ subscribed' = NoThread /\ admission' = NoAdmission /\ pending' = NoPending
  /\ ops' = <<>> /\ events' = <<>> /\ open' = FALSE /\ connected' = FALSE
  /\ UNCHANGED <<data, epoch, sequence, cursors, expected, submissions, view>>

(* The worker stops; the port goes with it. *)
StopWorker ==
  /\ epoch > 0 /\ stops < MaxStops
  /\ stops' = stops + 1 /\ epoch' = 0
  /\ announced' = written
  /\ turn' = [t \in Thread |-> IF turn[t] = "live" THEN "over" ELSE turn[t]]
  /\ sequence' = [t \in Thread |-> 0] /\ subscribed' = NoThread
  /\ admission' = NoAdmission /\ pending' = NoPending
  /\ ops' = <<>> /\ events' = <<>> /\ open' = FALSE /\ connected' = FALSE
  /\ UNCHANGED <<exists, written, pieces, cursors, expected, submissions, view>>

(* allocateEngineStreamEpoch: later than every worker of this session. *)
StartWorker == /\ epoch = 0 /\ epoch' = stops + 1
               /\ UNCHANGED <<data, stops, host, ops, events, open, page>>
-----------------------------------------------------------------------------
(* The page.                                                                *)

Submit(first, t) ==
  /\ submissions < MaxSubmissions
  /\ submissions' = submissions + 1
  /\ ops' = Append(ops, [first |-> first, thread |-> t, submission |-> submissions + 1])
  /\ expected' = IF t = NoThread THEN expected
                 ELSE [submission |-> submissions + 1, thread |-> t]

(* connect(): the thread on view is subscribed with the initialize. *)
ConnectPort ==
  /\ ~open /\ open' = TRUE
  /\ Submit(TRUE, view.thread)
  /\ UNCHANGED <<data, epoch, stops, host, events, connected, cursors, view>>

OpenThread(t) ==
  /\ view.thread # t
  /\ view' = [Draft EXCEPT !.thread = t, !.loading = TRUE]
  /\ IF open THEN Submit(FALSE, t) ELSE UNCHANGED <<submissions, ops, expected>>
  /\ UNCHANGED <<data, epoch, stops, host, events, open, connected, cursors>>

Received == Head(events)
Take(kinds) == open /\ events # <<>> /\ Received.kind \in kinds /\ events' = Tail(events)
Quiet == UNCHANGED <<data, epoch, stops, host, open>>

(* admitCursor *)
MutIgnoresEpoch(t, c) == c[2] > cursors[t][2]
CursorAdvances(t, c) == Later(c, cursors[t])

(* The snapshot asked for last, if it advances the cursor. *)
Expects(e) == /\ e.submission = expected.submission /\ e.thread = expected.thread
              /\ CursorAdvances(e.thread, e.cursor)
HasSnapshot(e) == e.snapshot # NoSnapshot

(* applySnapshot replaces the items; text of a turn that still runs stays.  *)
(* seam is how long the text was then.                                      *)
Regresses(e) == view.loaded /\ view.revision > e.snapshot.revision
Applied(e) ==
  IF view.thread # e.thread \/ Regresses(e) THEN view
  ELSE LET live == e.snapshot.turn \/ view.turn
           kept == IF live THEN view.text ELSE <<>>
       IN [view EXCEPT !.loading = FALSE, !.loaded = TRUE, !.revision = e.snapshot.revision,
                       !.facts = [i \in 1 .. e.snapshot.facts |-> i],
                       !.text = kept, !.seam = Len(kept), !.turn = live]

ApplySnapshot ==
  /\ Take({"initialized"}) /\ HasSnapshot(Received) /\ Expects(Received)
  /\ cursors' = [cursors EXCEPT ![Received.thread] = Received.cursor]
  /\ expected' = NobodyExpected /\ connected' = TRUE
  /\ view' = Applied(Received)
  /\ UNCHANGED <<ops, submissions>> /\ Quiet

IgnoreSnapshot ==
  /\ Take({"initialized"}) /\ HasSnapshot(Received) /\ ~Expects(Received)
  /\ UNCHANGED <<ops, page>> /\ Quiet

(* An initialized event without a snapshot only says that the port works. *)
ApplyInitialized ==
  /\ Take({"initialized"}) /\ ~HasSnapshot(Received)
  /\ connected' = TRUE
  /\ UNCHANGED <<ops, cursors, expected, submissions, view>> /\ Quiet

(* thread_not_found for the subscription asked for last makes a new draft. *)
ApplyNotFound ==
  /\ Take({"notFound"})
  /\ IF Received.submission = expected.submission
     THEN expected' = NobodyExpected /\ view' = Draft
     ELSE UNCHANGED <<expected, view>>
  /\ UNCHANGED <<ops, connected, cursors, submissions>> /\ Quiet

Admitted(e) == e.thread = view.thread /\ CursorAdvances(e.thread, e.cursor)

ApplyEvent ==
  /\ Take({"fact", "piece"}) /\ Admitted(Received)
  /\ cursors' = [cursors EXCEPT ![Received.thread] = Received.cursor]
  /\ view' = IF Received.kind = "fact" THEN [view EXCEPT !.facts = @ \o Received.numbers]
             ELSE [view EXCEPT !.text = @ \o Received.numbers, !.turn = TRUE]
  /\ UNCHANGED <<ops, connected, expected, submissions>> /\ Quiet

(* After turn.complete the page asks for the thread again. *)
ApplyComplete ==
  /\ Take({"complete"}) /\ Admitted(Received)
  /\ cursors' = [cursors EXCEPT ![Received.thread] = Received.cursor]
  /\ view' = [view EXCEPT !.turn = FALSE]
  /\ Submit(FALSE, view.thread)
  /\ UNCHANGED connected /\ Quiet

ApplyDeleted ==
  /\ Take({"deleted"}) /\ Admitted(Received)
  /\ cursors' = [cursors EXCEPT ![Received.thread] = Received.cursor]
  /\ view' = Draft /\ expected' = NobodyExpected
  /\ UNCHANGED <<ops, connected, submissions>> /\ Quiet

IgnoreEvent ==
  /\ Take({"fact", "piece", "complete", "deleted"}) /\ ~Admitted(Received)
  /\ UNCHANGED <<ops, page>> /\ Quiet

EngineStep(t) == \/ Write(t) \/ Announce(t) \/ StreamDelta(t) \/ CompleteTurn(t)
                 \/ DeleteThread(t)
AdmissionStep == InitializeOnly \/ BeginAdmission \/ ReadMeta \/ CommitAdmission \/ CancelAdmission
PageReads == \/ ApplySnapshot \/ IgnoreSnapshot \/ ApplyInitialized \/ ApplyNotFound
             \/ ApplyEvent \/ ApplyComplete \/ ApplyDeleted \/ IgnoreEvent

StreamNext == \/ \E t \in Working : EngineStep(t)
              \/ \E t \in Thread : OpenThread(t)
              \/ AdmissionStep \/ FlushTimer \/ LosePort \/ StopWorker \/ StartWorker
              \/ ConnectPort \/ PageReads

StreamFairness == /\ WF_streamVars(AdmissionStep) /\ WF_streamVars(FlushTimer)
                  /\ WF_streamVars(StartWorker) /\ WF_streamVars(ConnectPort)
                  /\ WF_streamVars(PageReads)
                  /\ \A t \in Thread : WF_streamVars(Announce(t))

StreamSpec == StreamInit /\ [][StreamNext]_streamVars /\ StreamFairness
-----------------------------------------------------------------------------
Settled == /\ open /\ epoch > 0 /\ ops = <<>> /\ events = <<>> /\ admission = NoAdmission
           /\ pending = NoPending
Shown == {view.facts[i] : i \in DOMAIN view.facts}

(* What a page shows of a thread is all of it and in order, whatever        *)
(* happened while its snapshot was read: once the page has read all there   *)
(* is for it, it has loaded its thread, is subscribed to it and shows every *)
(* item that has been announced.  At any time the text of a running turn    *)
(* has nothing twice and nothing out of order, across joined deltas,        *)
(* snapshots and subscriptions, and since the last snapshot it has no hole: *)
(* what was streamed while the page was elsewhere or had no port is missing *)
(* before the seam until the turn is over (the overlay is temporary).       *)
NothingMissed ==
  /\ Settled /\ view.thread \in exists
       => /\ view.loaded /\ ~view.loading /\ subscribed = view.thread
          /\ 1 .. announced[view.thread] \subseteq Shown
  /\ \A i \in 1 .. Len(view.text) - 1 :
       /\ view.text[i + 1] > view.text[i]
       /\ view.loaded /\ i > view.seam => view.text[i + 1] = view.text[i] + 1

(* A page does not load a thread that is there forever. *)
LoadingEnds == <>[](view.loading => view.thread \notin exists \/ submissions = MaxSubmissions)
==========================================================================
