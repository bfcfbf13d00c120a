------------------------ MODULE ThreadStreamProofs ------------------------
(***************************************************************************)
(* ThreadStream for any number of threads, items, deltas, submissions and  *)
(* stops: a page misses nothing of the thread it shows.  What is on its    *)
(* way to the page is a queue in three parts: the events on the port, the  *)
(* deltas being joined, and the events held back while a snapshot is read. *)
(* Most steps move something along that queue or add to its end.           *)
(***************************************************************************)
EXTENDS ThreadStream, DataLemmas, FiniteSetTheorems, TLAPS

USE DEF data, host, page, streamVars

-----------------------------------------------------------------------------
(* Cursors, and what an event on its way has to say of what is known.      *)

LaterRule(a, b, c) ==
  /\ Later(a, b) /\ Later(b, c) => Later(a, c)
  /\ ~(Later(a, b) /\ Later(b, a)) /\ ~Later(a, a)
  /\ Later(a, b) /\ ~Later(c, b) => Later(a, c)
  /\ ~Later(b, a) /\ Later(b, c) => Later(a, c)
  /\ ~Later(b, a) /\ ~Later(c, b) => ~Later(c, a)

LEMMA LaterRules ==
  ASSUME NEW a \in Cursor, NEW b \in Cursor, NEW c \in Cursor
  PROVE  LaterRule(a, b, c)
<1>1. /\ a[1] \in Nat /\ a[2] \in Nat /\ b[1] \in Nat /\ b[2] \in Nat /\ c[1] \in Nat /\ c[2] \in Nat
  BY DEF Cursor
<1> QED BY <1>1 DEF LaterRule, Later

LEMMA NextIsLater ==
  ASSUME NEW E \in Nat, NEW n \in Nat
  PROVE  /\ <<E, n + 1>> \in Cursor /\ <<E, n>> \in Cursor /\ Later(<<E, n + 1>>, <<E, n>>)
         /\ NoCursor \in Cursor
BY DEF Cursor, Later, NoCursor

Thread0 == Thread \cup {NoThread}
PendingType == [thread : Thread0, pieces : Seq(Nat), cursor : Cursor]
Carried(p) == Stamped("piece", p.thread, p.cursor, p.pieces)
LiveKinds == {"fact", "piece", "complete", "deleted"}
TurnKinds == {"piece", "complete"}
AnswerKinds == {"initialized", "notFound"}

(* Two events of a thread on their way, a first. *)
Before(a, b) ==
  a.thread = b.thread /\ a.thread \in Thread =>
    /\ Later(b.cursor, a.cursor)
    /\ a.kind = "piece" /\ b.kind = "piece" =>
         \A i \in DOMAIN a.numbers, j \in DOMAIN b.numbers : a.numbers[i] < b.numbers[j]
    /\ a.kind = "complete" => b.kind \notin TurnKinds

(* The queue from the events on the port to the held ones beyond the k-th. *)
Queued(out, pend, held, k) ==
  /\ \A i, j \in DOMAIN out : i < j => Before(out[i], out[j])
  /\ pend # NoPending => \A i \in DOMAIN out : Before(out[i], Carried(pend))
  /\ \A i \in DOMAIN out, j \in DOMAIN held : j > k => Before(out[i], held[j])
  /\ pend # NoPending => \A j \in DOMAIN held : j > k => Before(Carried(pend), held[j])
  /\ \A i, j \in DOMAIN held : i > k /\ i < j => Before(held[i], held[j])

(* An event the page has yet to hear, given what it has heard (cursors C, view V) and what   *)
(* has happened (epoch E, sequence S, pieces P, turns T).                                    *)
Rises(ns) == \A i, j \in DOMAIN ns : i < j => ns[i] < ns[j]
SoundAt(e, C, E, S, P, V, T) ==
  e.thread \in Thread =>
    /\ Later(e.cursor, C[e.thread]) /\ ~Later(e.cursor, <<E, S[e.thread]>>)
    /\ e.kind = "piece" =>
         /\ \A i \in DOMAIN e.numbers : e.numbers[i] \in 1 .. P[e.thread]
         /\ Rises(e.numbers)
         /\ V.thread = e.thread =>
              \A i \in DOMAIN e.numbers, j \in DOMAIN V.text : V.text[j] < e.numbers[i]
    /\ e.kind = "complete" => T[e.thread] = "over"
Sound(e) == SoundAt(e, cursors, epoch, sequence, pieces, view, turn)

Among(n, ns) == \E x \in DOMAIN ns : ns[x] = n
(* A piece or an item of thread t with the number n is on its way, later than c. *)
DeltaIn(t, c, n, out, pend, held, k) ==
  \/ \E i \in DOMAIN out : /\ out[i].kind = "piece" /\ out[i].thread = t
                           /\ Later(out[i].cursor, c) /\ Among(n, out[i].numbers)
  \/ /\ pend # NoPending /\ pend.thread = t
     /\ Later(pend.cursor, c) /\ Among(n, pend.pieces)
  \/ \E i \in DOMAIN held : /\ i > k /\ held[i].kind = "piece" /\ held[i].thread = t
                            /\ Later(held[i].cursor, c) /\ Among(n, held[i].numbers)
ItemIn(t, c, n, out, held, k) ==
  \/ \E i \in DOMAIN out : /\ out[i].kind \in {"fact", "complete"} /\ out[i].thread = t
                           /\ Later(out[i].cursor, c) /\ Among(n, out[i].numbers)
  \/ \E i \in DOMAIN held : /\ i > k /\ held[i].kind \in {"fact", "complete"}
                            /\ held[i].thread = t
                            /\ Later(held[i].cursor, c) /\ Among(n, held[i].numbers)

(* What is shown from c on has no hole and ends with what has been streamed: the numbers T  *)
(* have been heard, the rest comes.  Likewise for the items.                                 *)
Hears(t, c, T, out, pend, held, p) ==
  \A n, m \in 1 .. p :
    n <= m /\ (n \in T \/ DeltaIn(t, c, n, out, pend, held, 0))
      => m \in T \/ DeltaIn(t, c, m, out, pend, held, 0)
Knows(t, c, F, out, held, a) == \A n \in 1 .. a : n \in F \/ ItemIn(t, c, n, out, held, 0)

(* Nothing of a turn of t comes at all; nothing comes that is not later than c. *)
Silent(t, out, pend, held) ==
  /\ \A i \in DOMAIN out : out[i].thread = t => out[i].kind \notin TurnKinds
  /\ pend.thread # t
  /\ \A j \in DOMAIN held : held[j].thread = t => held[j].kind \notin TurnKinds
NoneBefore(t, c, out) ==
  \A i \in DOMAIN out : out[i].thread = t /\ out[i].kind \in TurnKinds => Later(out[i].cursor, c)

-----------------------------------------------------------------------------
(* Posting an event: what is on its way stays the same and in order. *)

Channel(out, pend, held, k, C, E, S, P, V, T) ==
  /\ out \in Seq(Event) /\ pend \in PendingType /\ held \in Seq(Event) /\ k \in Nat
  /\ Queued(out, pend, held, k)
  /\ \A i \in DOMAIN out : SoundAt(out[i], C, E, S, P, V, T)
  /\ pend # NoPending => SoundAt(Carried(pend), C, E, S, P, V, T)
  /\ \A j \in DOMAIN held : j > k => SoundAt(held[j], C, E, S, P, V, T)

(* The two queues hold the same, as far as it is later than c. *)
SameIn(c, out, pend, held, k, out2, pend2, k2) ==
  \A u \in Thread, n \in Nat :
    /\ DeltaIn(u, c, n, out2, pend2, held, k2) <=> DeltaIn(u, c, n, out, pend, held, k)
    /\ ItemIn(u, c, n, out2, held, k2) <=> ItemIn(u, c, n, out, held, k)

(* What is on the port stays there, and what joins it is of t and, if the queue behind it    *)
(* is, later than c.                                                                         *)
Extends(out, out2, t, K) ==
  /\ DOMAIN out \subseteq DOMAIN out2 /\ \A i \in DOMAIN out : out2[i] = out[i]
  /\ \A i \in DOMAIN out, j \in DOMAIN out2 : j \notin DOMAIN out => i < j
  /\ \A j \in DOMAIN out2 : j \notin DOMAIN out =>
       out2[j].kind \in K /\ out2[j].thread = t

(* What is being joined is of t, and pieces are among the kinds K. *)
Fits(pend, t, K) == pend # NoPending => pend.thread = t /\ "piece" \in K

EndsAt(pend, c) == pend # NoPending => pend.cursor = c

IsNext(k, m) == k + 1 = m    \* matched as a whole where lemmas are cited

LEMMA CarriedIs ==
  ASSUME NEW p \in PendingType
  PROVE  /\ Carried(p) \in Event /\ Carried(p).kind = "piece" /\ Carried(p).thread = p.thread
         /\ Carried(p).cursor = p.cursor /\ Carried(p).numbers = p.pieces
         /\ ~HasSnapshot(Carried(p))
BY DEF Carried, PendingType, Stamped, Event, NoSnapshot, HasSnapshot, Thread0

-----------------------------------------------------------------------------
(* The invariant. *)

PortInv ==
  /\ ~open => /\ ops = <<>> /\ events = <<>> /\ admission = NoAdmission /\ pending = NoPending
              /\ subscribed = NoThread
  /\ epoch = 0 => /\ events = <<>> /\ admission = NoAdmission /\ pending = NoPending
                  /\ subscribed = NoThread
  /\ pending # NoPending => pending.thread = subscribed /\ subscribed # NoThread
  /\ admission # NoAdmission =>
       /\ admission.stage # "none" /\ admission.thread = subscribed /\ subscribed # NoThread
       /\ pending = NoPending /\ admission.submission \in 1 .. submissions
  /\ \A j \in DOMAIN admission.held : /\ admission.held[j].kind \in LiveKinds
                                      /\ admission.held[j].thread = admission.thread
                                      /\ Later(admission.held[j].cursor, admission.cursor)

CountInv ==
  /\ \A t \in Thread : /\ announced[t] <= written[t]
                       /\ turn[t] # "over" => written[t] <= MaxFacts
  /\ epoch <= stops + 1
  /\ \A t \in Thread : /\ epoch = 0 => cursors[t][1] <= stops
                       /\ epoch > 0 => ~Later(cursors[t], <<epoch, sequence[t]>>)

Kinded(e) ==
  /\ e.kind \in LiveKinds => e.thread \in Thread
  /\ e.kind \in AnswerKinds => e.submission \in 1 .. submissions
  /\ e.kind \in AnswerKinds => (e.thread \in Thread <=> HasSnapshot(e))
  /\ e.kind = "notFound" => ~HasSnapshot(e)
  /\ e.kind \in AnswerKinds /\ HasSnapshot(e) => e.snapshot.revision \in Nat

ChannelInv ==
  /\ Channel(events, pending, admission.held, 0, cursors, epoch, sequence, pieces, view, turn)
  /\ \A i \in DOMAIN events : Kinded(events[i])
  /\ admission # NoAdmission =>
       /\ ~Later(admission.cursor, <<epoch, sequence[admission.thread]>>)
       /\ Later(admission.cursor, cursors[admission.thread])
       /\ \A i \in DOMAIN events :
            events[i].thread = admission.thread => Later(admission.cursor, events[i].cursor)

(* Submissions are answered in order. *)
OrderInv ==
  /\ \A i \in DOMAIN ops : ops[i].submission \in 1 .. submissions
  /\ \A i, j \in DOMAIN ops : i < j => ops[i].submission < ops[j].submission
  /\ admission # NoAdmission => \A i \in DOMAIN ops : admission.submission < ops[i].submission
  /\ \A i \in DOMAIN events : events[i].kind \in AnswerKinds =>
       /\ admission # NoAdmission => events[i].submission < admission.submission
       /\ \A j \in DOMAIN ops : events[i].submission < ops[j].submission
  /\ \A i, j \in DOMAIN events :
       i < j /\ events[i].kind \in AnswerKinds /\ events[j].kind \in AnswerKinds
         => events[i].submission < events[j].submission

ViewInv ==
  /\ view.thread = NoThread => /\ expected.submission = 0 /\ view.text = <<>>
                               /\ ~view.loaded /\ ~view.loading
  /\ view.thread # NoThread => view.loading = ~view.loaded
  /\ view.seam <= Len(view.text)
  /\ \A i \in DOMAIN view.text : view.text[i] \in 1 .. pieces[view.thread]
  /\ Rises(view.text)
  /\ view.loaded => /\ \A i \in DOMAIN view.text : i > view.seam /\ i + 1 \in DOMAIN view.text =>
                         view.text[i + 1] = view.text[i] + 1
                    /\ view.revision <= written[view.thread]

(* What the page has asked for last is on its way there, being read, on its way back, or   *)
(* there is no such thread.                                                                 *)
Asking == open /\ expected.submission # 0
Gone == /\ view.thread \notin exists
        /\ view.loaded => Silent(view.thread, events, pending, admission.held)
IsNewest(e) == e.kind \in AnswerKinds /\ e.submission = submissions

AskedLast == /\ expected.submission = submissions /\ expected.thread = view.thread
             /\ view.thread # NoThread
AskedQueued ==
  \A i \in DOMAIN ops : ops[i].submission = submissions =>
    /\ ops[i].thread = view.thread
    /\ view.loaded =>
         /\ Silent(view.thread, events, pending, admission.held)
         /\ turn[view.thread] = "over"
            \/ (i = 1 /\ admission = NoAdmission /\ subscribed # view.thread)
AskedRead ==
  admission # NoAdmission /\ admission.submission = submissions =>
    /\ admission.thread = view.thread
    /\ Hears(view.thread, admission.cursor, {}, events, pending, admission.held,
             pieces[view.thread])
    /\ view.loaded => NoneBefore(view.thread, admission.cursor, events)
    /\ view.loaded /\ admission.stage = "rest" => view.revision <= admission.revision
    /\ admission.revision <= written[view.thread]
AnswersWell(e) ==
  IF HasSnapshot(e)
  THEN /\ e.thread = view.thread /\ subscribed = view.thread
       /\ Hears(view.thread, e.cursor, {}, events, pending, admission.held, pieces[view.thread])
       /\ Knows(view.thread, e.cursor, 1 .. e.snapshot.facts, events, admission.held,
                announced[view.thread])
       /\ view.loaded => /\ NoneBefore(view.thread, e.cursor, events)
                         /\ view.revision <= e.snapshot.revision
       /\ e.snapshot.revision <= written[view.thread]
  ELSE Gone
AskedAnswered == \A i \in DOMAIN events : IsNewest(events[i]) => AnswersWell(events[i])
AskedSomewhere ==
  \/ \E i \in DOMAIN ops : ops[i].submission = submissions
  \/ admission # NoAdmission /\ admission.submission = submissions
  \/ \E i \in DOMAIN events : IsNewest(events[i])
  \/ Gone
AskedInv == Asking => /\ AskedLast /\ AskedQueued /\ AskedRead /\ AskedAnswered
                      /\ AskedSomewhere

Streamed == {view.text[i] : i \in {j \in DOMAIN view.text : j > view.seam}}
HeardInv ==
  open /\ expected.submission = 0 /\ view.thread # NoThread =>
    /\ ops = <<>> /\ admission = NoAdmission /\ subscribed = view.thread /\ view.loaded
    /\ Hears(view.thread, NoCursor, Streamed, events, pending, admission.held,
             pieces[view.thread])
    /\ Knows(view.thread, NoCursor, Shown, events, admission.held, announced[view.thread])

StreamInv == /\ StreamTypeOK /\ PortInv /\ CountInv /\ ChannelInv /\ OrderInv /\ ViewInv
             /\ AskedInv /\ HeardInv

\* The joined deltas go out.
LEMMA FlushKeeps ==
  ASSUME NEW K, "piece" \in K, NEW out, NEW pend, NEW held, NEW k, NEW C, NEW E, NEW S, NEW P, NEW V, NEW T,
         Channel(out, pend, held, k, C, E, S, P, V, T), pend # NoPending
  PROVE  LET out2 == Append(out, Carried(pend)) IN
         /\ Channel(out2, NoPending, held, k, C, E, S, P, V, T)
         /\ \A c : SameIn(c, out, pend, held, k, out2, NoPending, k)
         /\ Extends(out, out2, pend.thread, K)
<1> DEFINE w == Carried(pend)
           out2 == Append(out, w)
           l == Len(out) + 1
<1>1. /\ w \in Event /\ w.kind = "piece" /\ w.thread = pend.thread
      /\ w.cursor = pend.cursor /\ w.numbers = pend.pieces
  BY CarriedIs DEF Channel
<1>2. /\ out2 \in Seq(Event) /\ DOMAIN out2 = DOMAIN out \cup {l} /\ l \notin DOMAIN out
      /\ \A i \in DOMAIN out : out2[i] = out[i] /\ i < l
      /\ out2[l] = w
  <2>1. out \in Seq(Event)
    BY DEF Channel
  <2> HIDE DEF w
  <2> QED BY <1>1, <2>1, Added
<1>3. NoPending \in PendingType
  <2>1. NoCursor \in Cursor
    BY DEF NoCursor, Cursor
  <2> QED BY <2>1 DEF NoPending, PendingType, Thread0
<1>4. Queued(out2, NoPending, held, k)
  <2>1. /\ \A i, j \in DOMAIN out : i < j => Before(out[i], out[j])
        /\ \A i \in DOMAIN out : Before(out[i], w)
        /\ \A i \in DOMAIN out, j \in DOMAIN held : j > k => Before(out[i], held[j])
        /\ \A j \in DOMAIN held : j > k => Before(w, held[j])
        /\ \A i, j \in DOMAIN held : i > k /\ i < j => Before(held[i], held[j])
    BY DEF Channel, Queued
  <2>2. l \in Nat /\ \A i \in DOMAIN out : i \in Nat
    BY DEF Channel
  <2> HIDE DEF w, out2, l
  <2>3. ASSUME NEW i \in DOMAIN out2, NEW j \in DOMAIN out2, i < j
        PROVE  Before(out2[i], out2[j])
    <3>1. i # l
      BY <1>2, <2>2, <2>3
    <3> QED BY <1>2, <2>1, <2>3, <3>1
  <2> QED BY <1>2, <2>1, <2>3 DEF Queued
<1>5. Channel(out2, NoPending, held, k, C, E, S, P, V, T)
  <2>1. /\ \A i \in DOMAIN out : SoundAt(out[i], C, E, S, P, V, T)
        /\ SoundAt(w, C, E, S, P, V, T)
        /\ \A j \in DOMAIN held : j > k => SoundAt(held[j], C, E, S, P, V, T)
        /\ held \in Seq(Event) /\ k \in Nat
    BY DEF Channel
  <2> HIDE DEF w, out2, l
  <2> QED BY <1>2, <1>3, <1>4, <2>1 DEF Channel
<1>6. ASSUME NEW c PROVE SameIn(c, out, pend, held, k, out2, NoPending, k)
  <2> HIDE DEF w, out2, l
  <2>1. ASSUME NEW u \in Thread, NEW n \in Nat
        PROVE  DeltaIn(u, c, n, out2, NoPending, held, k) <=> DeltaIn(u, c, n, out, pend, held, k)
    <3>1. (\E i \in DOMAIN out2 : /\ out2[i].kind = "piece" /\ out2[i].thread = u
                                  /\ Later(out2[i].cursor, c) /\ Among(n, out2[i].numbers))
          <=> \/ \E i \in DOMAIN out : /\ out[i].kind = "piece" /\ out[i].thread = u
                                       /\ Later(out[i].cursor, c) /\ Among(n, out[i].numbers)
              \/ w.thread = u /\ Later(w.cursor, c) /\ Among(n, w.numbers)
      BY <1>1, <1>2
    <3> QED BY <1>1, <3>1 DEF DeltaIn
  <2>2. ASSUME NEW u \in Thread, NEW n \in Nat
        PROVE  ItemIn(u, c, n, out2, held, k) <=> ItemIn(u, c, n, out, held, k)
    <3>1. (\E i \in DOMAIN out2 : /\ out2[i].kind \in {"fact", "complete"} /\ out2[i].thread = u
                                  /\ Later(out2[i].cursor, c) /\ Among(n, out2[i].numbers))
          <=> \E i \in DOMAIN out : /\ out[i].kind \in {"fact", "complete"} /\ out[i].thread = u
                                    /\ Later(out[i].cursor, c) /\ Among(n, out[i].numbers)
      BY <1>1, <1>2
    <3> QED BY <3>1 DEF ItemIn
  <2> QED BY <2>1, <2>2 DEF SameIn
<1>7. Extends(out, out2, pend.thread, K)
  <2> HIDE DEF w, out2, l
  <2> QED BY <1>1, <1>2 DEF Extends, LiveKinds
<1> QED BY <1>5, <1>6, <1>7

\* An event that is no delta is posted when nothing is being joined.
LEMMA PlainKeeps ==
  ASSUME NEW K, NEW out, NEW held, NEW k, NEW m, IsNext(k, m), NEW C, NEW E, NEW S, NEW P, NEW V, NEW T,
         Channel(out, NoPending, held, k, C, E, S, P, V, T),
         m \in DOMAIN held, held[m].kind \in K, held[m].kind # "piece"
  PROVE  LET out2 == Append(out, held[m]) IN
         /\ Channel(out2, NoPending, held, m, C, E, S, P, V, T)
         /\ \A c : SameIn(c, out, NoPending, held, k, out2, NoPending, m)
         /\ Extends(out, out2, held[m].thread, K)
<1> DEFINE w == held[m]
           out2 == Append(out, w)
           l == Len(out) + 1
<1>1. /\ w \in Event /\ w.kind \in K /\ w.kind # "piece" /\ k \in Nat /\ held \in Seq(Event)
      /\ \A j \in DOMAIN held : j \in Nat /\ (j > k <=> j > m \/ j = m)
      /\ m \in Nat /\ m > k
  BY DEF Channel, IsNext
<1>2. /\ out2 \in Seq(Event) /\ DOMAIN out2 = DOMAIN out \cup {l} /\ l \notin DOMAIN out
      /\ \A i \in DOMAIN out : out2[i] = out[i] /\ i < l
      /\ out2[l] = w
  <2>1. out \in Seq(Event)
    BY DEF Channel
  <2> HIDE DEF w
  <2> QED BY <1>1, <2>1, Added
<1>4. Queued(out2, NoPending, held, m)
  <2>1. /\ \A i, j \in DOMAIN out : i < j => Before(out[i], out[j])
        /\ \A i \in DOMAIN out, j \in DOMAIN held : j > k => Before(out[i], held[j])
        /\ \A i, j \in DOMAIN held : i > k /\ i < j => Before(held[i], held[j])
    BY DEF Channel, Queued
  <2>2. l \in Nat /\ \A i \in DOMAIN out : i \in Nat
    BY DEF Channel
  <2>4. /\ \A i \in DOMAIN out : Before(out[i], w)
        /\ \A j \in DOMAIN held : j > m => Before(w, held[j])
        /\ \A i \in DOMAIN out, j \in DOMAIN held : j > m => Before(out[i], held[j])
        /\ \A i, j \in DOMAIN held : i > m /\ i < j => Before(held[i], held[j])
    BY <1>1, <2>1
  <2> HIDE DEF w, out2, l
  <2>3. ASSUME NEW i \in DOMAIN out2, NEW j \in DOMAIN out2, i < j
        PROVE  Before(out2[i], out2[j])
    <3>1. i # l
      BY <1>2, <2>2, <2>3
    <3> QED BY <1>2, <2>1, <2>3, <2>4, <3>1
  <2> QED BY <1>2, <2>3, <2>4 DEF Queued
<1>5. Channel(out2, NoPending, held, m, C, E, S, P, V, T)
  <2>1. /\ \A i \in DOMAIN out : SoundAt(out[i], C, E, S, P, V, T)
        /\ \A j \in DOMAIN held : j > k => SoundAt(held[j], C, E, S, P, V, T)
        /\ held \in Seq(Event) /\ k \in Nat /\ NoPending \in PendingType
    BY DEF Channel
  <2>2. m \in Nat /\ SoundAt(w, C, E, S, P, V, T)
        /\ \A j \in DOMAIN held : j > m => SoundAt(held[j], C, E, S, P, V, T)
    BY <1>1, <2>1
  <2> HIDE DEF w, out2, l
  <2> QED BY <1>2, <1>4, <2>1, <2>2 DEF Channel
<1>6. ASSUME NEW c PROVE SameIn(c, out, NoPending, held, k, out2, NoPending, m)
  <2>0. m \in DOMAIN held /\ w = held[m] /\ m > k
    BY <1>1
  <2> HIDE DEF w, out2, l
  <2>1. ASSUME NEW u \in Thread, NEW n \in Nat
        PROVE  DeltaIn(u, c, n, out2, NoPending, held, m)
                 <=> DeltaIn(u, c, n, out, NoPending, held, k)
    <3>1. (\E i \in DOMAIN out2 : /\ out2[i].kind = "piece" /\ out2[i].thread = u
                                  /\ Later(out2[i].cursor, c) /\ Among(n, out2[i].numbers))
          <=> \E i \in DOMAIN out : /\ out[i].kind = "piece" /\ out[i].thread = u
                                    /\ Later(out[i].cursor, c) /\ Among(n, out[i].numbers)
      BY <1>1, <1>2
    <3>2. (\E i \in DOMAIN held : /\ i > m /\ held[i].kind = "piece" /\ held[i].thread = u
                                  /\ Later(held[i].cursor, c) /\ Among(n, held[i].numbers))
          <=> \E i \in DOMAIN held : /\ i > k /\ held[i].kind = "piece" /\ held[i].thread = u
                                     /\ Later(held[i].cursor, c) /\ Among(n, held[i].numbers)
      BY <1>1, <2>0
    <3> QED BY <3>1, <3>2 DEF DeltaIn
  <2>2. ASSUME NEW u \in Thread, NEW n \in Nat
        PROVE  ItemIn(u, c, n, out2, held, m) <=> ItemIn(u, c, n, out, held, k)
    <3> DEFINE Here(e) == /\ e.kind \in {"fact", "complete"} /\ e.thread = u
                          /\ Later(e.cursor, c) /\ Among(n, e.numbers)
    <3>1. (\E i \in DOMAIN out2 : Here(out2[i])) <=> (\E i \in DOMAIN out : Here(out[i])) \/ Here(w)
      <4> HIDE DEF Here
      <4> QED BY <1>2
    <3>2. (\E i \in DOMAIN held : i > k /\ Here(held[i]))
          <=> (\E i \in DOMAIN held : i > m /\ Here(held[i])) \/ Here(w)
      <4> HIDE DEF Here
      <4> QED BY <1>1, <2>0
    <3> QED BY <3>1, <3>2 DEF ItemIn
  <2> QED BY <2>1, <2>2 DEF SameIn
<1>7. Extends(out, out2, w.thread, K)
  <2> HIDE DEF w, out2, l
  <2> QED BY <1>1, <1>2 DEF Extends
<1> QED BY <1>5, <1>6, <1>7

\* A delta is kept to be joined.
LEMMA DeltaStarts ==
  ASSUME NEW out, NEW held, NEW k, NEW m, IsNext(k, m), NEW C, NEW E, NEW S, NEW P, NEW V, NEW T,
         Channel(out, NoPending, held, k, C, E, S, P, V, T),
         m \in DOMAIN held, held[m].kind = "piece", held[m].thread \in Thread
  PROVE  LET e == held[m]
             pend2 == [thread |-> e.thread, cursor |-> e.cursor, pieces |-> e.numbers] IN
         /\ Channel(out, pend2, held, m, C, E, S, P, V, T)
         /\ \A c : SameIn(c, out, NoPending, held, k, out, pend2, m)
<1> DEFINE e == held[m]
           pend2 == [thread |-> e.thread, cursor |-> e.cursor, pieces |-> e.numbers]
           w == Carried(pend2)
<1>1. /\ e \in Event /\ e.kind = "piece" /\ e.thread \in Thread /\ k \in Nat /\ held \in Seq(Event)
      /\ \A j \in DOMAIN held : j \in Nat /\ (j > k <=> j > m \/ j = m)
      /\ m \in Nat /\ m > k
  BY DEF Channel, IsNext
<1>2. /\ pend2 \in PendingType /\ pend2 # NoPending /\ pend2.thread = e.thread
      /\ pend2.cursor = e.cursor /\ pend2.pieces = e.numbers
  <2>1. e.thread \in Thread0 /\ e.cursor \in Cursor /\ e.numbers \in Seq(Nat)
    BY <1>1 DEF Event, Thread0
  <2>2. e.thread # NoThread
    BY <1>1, StreamAssumption
  <2> QED BY <2>1, <2>2 DEF PendingType, NoPending
<1>3. /\ w.kind = "piece" /\ w.thread = e.thread /\ w.cursor = e.cursor /\ w.numbers = e.numbers
  BY <1>2, CarriedIs
<1>4. Queued(out, pend2, held, m)
  <2>1. /\ \A i, j \in DOMAIN out : i < j => Before(out[i], out[j])
        /\ \A i \in DOMAIN out, j \in DOMAIN held : j > k => Before(out[i], held[j])
        /\ \A i, j \in DOMAIN held : i > k /\ i < j => Before(held[i], held[j])
    BY DEF Channel, Queued
  <2>2. /\ \A i \in DOMAIN out : Before(out[i], e)
        /\ \A j \in DOMAIN held : j > m => Before(e, held[j])
        /\ \A i \in DOMAIN out, j \in DOMAIN held : j > m => Before(out[i], held[j])
        /\ \A i, j \in DOMAIN held : i > m /\ i < j => Before(held[i], held[j])
    BY <1>1, <2>1
  <2> HIDE DEF w, e, pend2
  <2>3. \A a : (Before(a, e) => Before(a, w)) /\ (Before(e, a) => Before(w, a))
    BY <1>1, <1>3 DEF Before
  <2>4. pend2 # NoPending /\ w = Carried(pend2)
    BY <1>2 DEF w
  <2> QED BY <2>1, <2>2, <2>3, <2>4 DEF Queued
<1>5. Channel(out, pend2, held, m, C, E, S, P, V, T)
  <2>1. /\ \A i \in DOMAIN out : SoundAt(out[i], C, E, S, P, V, T)
        /\ \A j \in DOMAIN held : j > k => SoundAt(held[j], C, E, S, P, V, T)
        /\ held \in Seq(Event) /\ k \in Nat /\ out \in Seq(Event)
    BY DEF Channel
  <2>2. m \in Nat /\ SoundAt(e, C, E, S, P, V, T)
        /\ \A j \in DOMAIN held : j > m => SoundAt(held[j], C, E, S, P, V, T)
    BY <1>1, <2>1
  <2>3. SoundAt(w, C, E, S, P, V, T)
    <3> HIDE DEF w, e, pend2
    <3> QED BY <1>1, <1>3, <2>2 DEF SoundAt
  <2>4. w = Carried(pend2)
    OBVIOUS
  <2> HIDE DEF w, e, pend2
  <2> QED BY <1>2, <1>4, <2>1, <2>2, <2>3, <2>4 DEF Channel
<1>6. ASSUME NEW c PROVE SameIn(c, out, NoPending, held, k, out, pend2, m)
  <2>0. m \in DOMAIN held /\ e = held[m] /\ m > k
    BY <1>1
  <2> HIDE DEF w, e, pend2
  <2>1. ASSUME NEW u \in Thread, NEW n \in Nat
        PROVE  DeltaIn(u, c, n, out, pend2, held, m) <=> DeltaIn(u, c, n, out, NoPending, held, k)
    <3> DEFINE Here(a) == a.kind = "piece" /\ a.thread = u /\ Later(a.cursor, c) /\ Among(n, a.numbers)
    <3>1. (\E i \in DOMAIN held : i > k /\ Here(held[i]))
          <=> (\E i \in DOMAIN held : i > m /\ Here(held[i])) \/ Here(e)
      <4> HIDE DEF Here
      <4> QED BY <1>1, <2>0
    <3>2. Here(e) <=> pend2.thread = u /\ Later(pend2.cursor, c) /\ Among(n, pend2.pieces)
      BY <1>1, <1>2
    <3> QED BY <1>2, <3>1, <3>2 DEF DeltaIn
  <2>2. ASSUME NEW u \in Thread, NEW n \in Nat
        PROVE  ItemIn(u, c, n, out, held, m) <=> ItemIn(u, c, n, out, held, k)
    <3> DEFINE Here(a) == /\ a.kind \in {"fact", "complete"} /\ a.thread = u
                          /\ Later(a.cursor, c) /\ Among(n, a.numbers)
    <3>1. ~Here(e)
      BY <1>1
    <3>2. (\E i \in DOMAIN held : i > k /\ Here(held[i]))
          <=> (\E i \in DOMAIN held : i > m /\ Here(held[i]))
      <4> HIDE DEF Here
      <4> QED BY <1>1, <2>0, <3>1
    <3> QED BY <3>2 DEF ItemIn
  <2> QED BY <2>1, <2>2 DEF SameIn
<1> QED BY <1>5, <1>6

\* What two sequences of numbers say together.
LEMMA JoinedNumbers ==
  ASSUME NEW a \in Seq(Nat), NEW b \in Seq(Nat)
  PROVE  /\ a \o b \in Seq(Nat)
         /\ \A n : Among(n, a \o b) <=> Among(n, a) \/ Among(n, b)
         /\ \A x \in DOMAIN (a \o b) :
              Among((a \o b)[x], a) \/ Among((a \o b)[x], b)
         /\ Rises(a) /\ Rises(b) /\ (\A i \in DOMAIN a, j \in DOMAIN b : a[i] < b[j])
              => Rises(a \o b)
<1> DEFINE c == a \o b
<1>1. /\ Len(a) \in Nat /\ Len(b) \in Nat /\ DOMAIN a = 1..Len(a) /\ DOMAIN b = 1..Len(b)
      /\ c \in Seq(Nat) /\ Len(c) = Len(a) + Len(b) /\ DOMAIN c = 1..(Len(a) + Len(b))
      /\ \A i \in 1..Len(a) : c[i] = a[i]
      /\ \A i \in 1..(Len(a) + Len(b)) : i > Len(a) => c[i] = b[i - Len(a)]
  OBVIOUS
<1> HIDE DEF c
<1>2. \A x \in DOMAIN c : (x \in DOMAIN a /\ c[x] = a[x]) \/ (x - Len(a) \in DOMAIN b /\ c[x] = b[x - Len(a)])
  <2>1. ASSUME NEW x \in DOMAIN c, x > Len(a)
        PROVE  x - Len(a) \in DOMAIN b /\ c[x] = b[x - Len(a)]
    <3>1. x \in 1..(Len(a) + Len(b)) /\ x - Len(a) \in 1..Len(b)
      BY <1>1, <2>1
    <3> QED BY <1>1, <2>1, <3>1
  <2>2. ASSUME NEW x \in DOMAIN c, ~(x > Len(a)) PROVE x \in DOMAIN a /\ c[x] = a[x]
    BY <1>1, <2>2
  <2> QED BY <2>1, <2>2
<1>3. \A x \in DOMAIN a : x \in DOMAIN c /\ c[x] = a[x]
  BY <1>1
<1>4. \A x \in DOMAIN b : x + Len(a) \in DOMAIN c /\ c[x + Len(a)] = b[x]
  <2>1. ASSUME NEW x \in DOMAIN b PROVE x + Len(a) \in DOMAIN c /\ c[x + Len(a)] = b[x]
    <3>1. x + Len(a) \in 1..(Len(a) + Len(b)) /\ x + Len(a) > Len(a) /\ (x + Len(a)) - Len(a) = x
      BY <1>1, <2>1
    <3>2. c[x + Len(a)] = b[(x + Len(a)) - Len(a)]
      BY <1>1, <3>1
    <3> QED BY <1>1, <3>1, <3>2
  <2> QED BY <2>1
<1>5. \A n : Among(n, c) <=> Among(n, a) \/ Among(n, b)
  BY <1>2, <1>3, <1>4 DEF Among
<1>6. \A x \in DOMAIN c : Among(c[x], a) \/ Among(c[x], b)
  BY <1>2 DEF Among
<1>7. ASSUME Rises(a), Rises(b), \A i \in DOMAIN a, j \in DOMAIN b : a[i] < b[j]
      PROVE  Rises(c)
  <2>1. ASSUME NEW x \in DOMAIN c, NEW y \in DOMAIN c, x < y PROVE c[x] < c[y]
    <3>1. x \in Nat /\ y \in Nat
      BY <1>1
    <3>2. CASE x \in DOMAIN a /\ y \in DOMAIN a
      BY <1>3, <1>7, <2>1, <3>2 DEF Rises
    <3>3. CASE x \in DOMAIN a /\ y \notin DOMAIN a
      <4>1. y - Len(a) \in DOMAIN b /\ c[y] = b[y - Len(a)] /\ c[x] = a[x]
        BY <1>2, <1>3, <3>3
      <4> QED BY <1>7, <3>3, <4>1
    <3>4. CASE x \notin DOMAIN a
      <4>1. y \notin DOMAIN a
        BY <1>1, <2>1, <3>1, <3>4
      <4>2. /\ y - Len(a) \in DOMAIN b /\ c[y] = b[y - Len(a)]
            /\ x - Len(a) \in DOMAIN b /\ c[x] = b[x - Len(a)]
        BY <1>2, <3>4, <4>1
      <4>3. x - Len(a) < y - Len(a)
        BY <1>1, <2>1, <3>1
      <4> QED BY <1>7, <4>2, <4>3 DEF Rises
    <3> QED BY <3>2, <3>3, <3>4
  <2> QED BY <2>1 DEF Rises
<1> QED BY <1>1, <1>5, <1>6, <1>7 DEF c

\* A delta joins the ones before it.
Joined(pend, e) == [thread |-> e.thread, cursor |-> e.cursor, pieces |-> pend.pieces \o e.numbers]

LEMMA DeltaJoins ==
  ASSUME NEW out, NEW pend, NEW held, NEW k, NEW m, IsNext(k, m), NEW C \in [Thread -> Cursor], NEW E \in Nat,
         NEW S \in [Thread -> Nat], NEW P, NEW V, NEW T,
         Channel(out, pend, held, k, C, E, S, P, V, T), pend # NoPending,
         m \in DOMAIN held, held[m].kind = "piece", held[m].thread \in Thread,
         pend.thread = held[m].thread
  PROVE  LET pend2 == Joined(pend, held[m]) IN
         /\ Channel(out, pend2, held, m, C, E, S, P, V, T)
         /\ \A c \in Cursor : Later(pend.cursor, c) => SameIn(c, out, pend, held, k, out, pend2, m)
         /\ Later(pend2.cursor, pend.cursor)
<1> DEFINE e == held[m]
           pend2 == Joined(pend, e)
           w == Carried(pend2)
           v == Carried(pend)
<1>1. /\ e \in Event /\ e.kind = "piece" /\ e.thread \in Thread /\ k \in Nat /\ held \in Seq(Event)
      /\ \A j \in DOMAIN held : j \in Nat /\ (j > k <=> j > m \/ j = m)
      /\ e.cursor \in Cursor /\ e.numbers \in Seq(Nat) /\ m \in Nat /\ m > k
  <2>1. /\ e \in Event /\ e.kind = "piece" /\ e.thread \in Thread /\ k \in Nat /\ held \in Seq(Event)
        /\ \A j \in DOMAIN held : j \in Nat /\ (j > k <=> j > m \/ j = m)
        /\ m \in Nat /\ m > k
    BY DEF Channel, IsNext
  <2> QED BY <2>1 DEF Event
<1>0. /\ pend \in PendingType /\ pend.cursor \in Cursor /\ pend.pieces \in Seq(Nat)
      /\ pend.thread = e.thread
  BY DEF Channel, PendingType
<1>2. /\ pend2 \in PendingType /\ pend2 # NoPending /\ pend2.thread = e.thread
      /\ pend2.cursor = e.cursor /\ pend2.pieces = pend.pieces \o e.numbers
  <2>1. e.thread \in Thread0 /\ e.thread # NoThread
    BY <1>1, StreamAssumption DEF Thread0
  <2>2. pend.pieces \o e.numbers \in Seq(Nat)
    BY <1>0, <1>1
  <2> QED BY <1>1, <2>1, <2>2 DEF PendingType, NoPending, Joined
<1>3. /\ w.kind = "piece" /\ w.thread = e.thread /\ w.cursor = e.cursor
      /\ w.numbers = pend.pieces \o e.numbers
      /\ v.kind = "piece" /\ v.thread = e.thread /\ v.cursor = pend.cursor /\ v.numbers = pend.pieces
  BY <1>0, <1>2, CarriedIs
<1>w. /\ w.kind = "piece" /\ w.thread = e.thread /\ w.cursor = e.cursor
      /\ w.numbers = v.numbers \o e.numbers /\ v.numbers \in Seq(Nat) /\ e.numbers \in Seq(Nat)
  <2> HIDE DEF w, v, e
  <2> QED BY <1>0, <1>1, <1>3
<1>j. /\ \A n : Among(n, w.numbers) <=> Among(n, v.numbers) \/ Among(n, e.numbers)
      /\ \A x \in DOMAIN w.numbers : Among(w.numbers[x], v.numbers) \/ Among(w.numbers[x], e.numbers)
      /\ (/\ Rises(v.numbers) /\ Rises(e.numbers)
          /\ \A i \in DOMAIN v.numbers, j \in DOMAIN e.numbers : v.numbers[i] < e.numbers[j])
           => Rises(w.numbers)
  <2> HIDE DEF w, v, e
  <2> DEFINE a == v.numbers
             b == e.numbers
  <2>1. a \in Seq(Nat) /\ b \in Seq(Nat) /\ w.numbers = a \o b
    BY <1>w
  <2> HIDE DEF a, b
  <2>2. /\ \A n : Among(n, a \o b) <=> Among(n, a) \/ Among(n, b)
        /\ \A x \in DOMAIN (a \o b) : Among((a \o b)[x], a) \/ Among((a \o b)[x], b)
        /\ Rises(a) /\ Rises(b) /\ (\A i \in DOMAIN a, j \in DOMAIN b : a[i] < b[j])
             => Rises(a \o b)
    BY <2>1, JoinedNumbers
  <2>3. /\ \A n : Among(n, w.numbers) <=> Among(n, a) \/ Among(n, b)
        /\ \A x \in DOMAIN w.numbers : Among(w.numbers[x], a) \/ Among(w.numbers[x], b)
        /\ Rises(a) /\ Rises(b) /\ (\A i \in DOMAIN a, j \in DOMAIN b : a[i] < b[j])
             => Rises(w.numbers)
    BY <2>1, <2>2
  <2> QED BY <2>3 DEF a, b
<1>q. /\ \A i, j \in DOMAIN out : i < j => Before(out[i], out[j])
      /\ \A i \in DOMAIN out : Before(out[i], v)
      /\ \A i \in DOMAIN out, j \in DOMAIN held : j > k => Before(out[i], held[j])
      /\ \A j \in DOMAIN held : j > k => Before(v, held[j])
      /\ \A i, j \in DOMAIN held : i > k /\ i < j => Before(held[i], held[j])
  BY DEF Channel, Queued
<1>l. /\ Before(v, e)
      /\ Later(e.cursor, pend.cursor)
      /\ \A i \in DOMAIN v.numbers, j \in DOMAIN e.numbers : v.numbers[i] < e.numbers[j]
  <2>1. Before(v, e)
    BY <1>1, <1>q
  <2> HIDE DEF v, e, w, pend2
  <2> QED BY <1>1, <1>3, <2>1 DEF Before
<1>4. Queued(out, pend2, held, m)
  <2>2. /\ \A i \in DOMAIN out : Before(out[i], e)
        /\ \A j \in DOMAIN held : j > m => Before(e, held[j])
        /\ \A j \in DOMAIN held : j > m => Before(v, held[j])
        /\ \A i \in DOMAIN out, j \in DOMAIN held : j > m => Before(out[i], held[j])
        /\ \A i, j \in DOMAIN held : i > m /\ i < j => Before(held[i], held[j])
    BY <1>1, <1>q
  <2>4. w = Carried(pend2)
    OBVIOUS
  <2>o. out \in Seq(Event)
    BY DEF Channel
  <2> HIDE DEF w, e, pend2, v
  <2>3. ASSUME NEW a, Before(a, e), Before(a, v) PROVE Before(a, w)
    <3>1. ASSUME a.kind = "piece", a.thread = e.thread,
                 NEW i \in DOMAIN a.numbers, NEW j \in DOMAIN w.numbers
          PROVE  a.numbers[i] < w.numbers[j]
      <4>1. CASE Among(w.numbers[j], v.numbers)
        <5>1. PICK x \in DOMAIN v.numbers : v.numbers[x] = w.numbers[j]
          BY <4>1 DEF Among
        <5> QED BY <1>1, <1>3, <2>3, <3>1, <5>1 DEF Before
      <4>2. CASE Among(w.numbers[j], e.numbers)
        <5>1. PICK x \in DOMAIN e.numbers : e.numbers[x] = w.numbers[j]
          BY <4>2 DEF Among
        <5> QED BY <1>1, <1>3, <2>3, <3>1, <5>1 DEF Before
      <4> QED BY <1>j, <3>1, <4>1, <4>2
    <3> QED BY <1>1, <1>3, <2>3, <3>1 DEF Before
  <2>5. ASSUME NEW a, Before(e, a), Before(v, a) PROVE Before(w, a)
    <3>1. ASSUME a.kind = "piece", a.thread = e.thread,
                 NEW i \in DOMAIN a.numbers, NEW j \in DOMAIN w.numbers
          PROVE  w.numbers[j] < a.numbers[i]
      <4>1. CASE Among(w.numbers[j], v.numbers)
        <5>1. PICK x \in DOMAIN v.numbers : v.numbers[x] = w.numbers[j]
          BY <4>1 DEF Among
        <5> QED BY <1>1, <1>3, <2>5, <3>1, <5>1 DEF Before
      <4>2. CASE Among(w.numbers[j], e.numbers)
        <5>1. PICK x \in DOMAIN e.numbers : e.numbers[x] = w.numbers[j]
          BY <4>2 DEF Among
        <5> QED BY <1>1, <1>3, <2>5, <3>1, <5>1 DEF Before
      <4> QED BY <1>j, <3>1, <4>1, <4>2
    <3> QED BY <1>1, <1>3, <2>5, <3>1 DEF Before
  <2>6. /\ \A i \in DOMAIN out : Before(out[i], Carried(pend2))
        /\ \A j \in DOMAIN held : j > m => Before(Carried(pend2), held[j])
    BY <1>q, <2>2, <2>3, <2>4, <2>5
  <2> QED BY <1>q, <2>2, <2>6 DEF Queued
<1>5. Channel(out, pend2, held, m, C, E, S, P, V, T)
  <2>1. /\ \A i \in DOMAIN out : SoundAt(out[i], C, E, S, P, V, T)
        /\ SoundAt(v, C, E, S, P, V, T)
        /\ \A j \in DOMAIN held : j > k => SoundAt(held[j], C, E, S, P, V, T)
        /\ held \in Seq(Event) /\ k \in Nat /\ out \in Seq(Event)
    BY DEF Channel
  <2>2. m \in Nat /\ SoundAt(e, C, E, S, P, V, T)
        /\ \A j \in DOMAIN held : j > m => SoundAt(held[j], C, E, S, P, V, T)
    BY <1>1, <2>1
  <2>4. w = Carried(pend2)
    OBVIOUS
  <2> HIDE DEF w, e, pend2, v
  <2>3. SoundAt(w, C, E, S, P, V, T)
    <3>1. /\ Later(e.cursor, C[e.thread]) /\ ~Later(e.cursor, <<E, S[e.thread]>>)
          /\ \A i \in DOMAIN e.numbers : e.numbers[i] \in 1 .. P[e.thread]
          /\ Rises(e.numbers) /\ Rises(v.numbers)
          /\ \A i \in DOMAIN v.numbers : v.numbers[i] \in 1 .. P[e.thread]
          /\ V.thread = e.thread =>
               /\ \A i \in DOMAIN e.numbers, j \in DOMAIN V.text : V.text[j] < e.numbers[i]
               /\ \A i \in DOMAIN v.numbers, j \in DOMAIN V.text : V.text[j] < v.numbers[i]
      BY <1>1, <1>3, <2>1, <2>2 DEF SoundAt
    <3>2. Rises(w.numbers)
      BY <1>j, <1>l, <3>1
    <3>3. ASSUME NEW x \in DOMAIN w.numbers
          PROVE  /\ w.numbers[x] \in 1 .. P[e.thread]
                 /\ V.thread = e.thread => \A j \in DOMAIN V.text : V.text[j] < w.numbers[x]
      <4>1. CASE Among(w.numbers[x], v.numbers)
        <5>1. PICK y \in DOMAIN v.numbers : v.numbers[y] = w.numbers[x]
          BY <4>1 DEF Among
        <5> QED BY <3>1, <5>1
      <4>2. CASE Among(w.numbers[x], e.numbers)
        <5>1. PICK y \in DOMAIN e.numbers : e.numbers[y] = w.numbers[x]
          BY <4>2 DEF Among
        <5> QED BY <3>1, <5>1
      <4> QED BY <1>j, <4>1, <4>2
    <3> QED BY <1>3, <3>1, <3>2, <3>3 DEF SoundAt
  <2> QED BY <1>2, <1>4, <2>1, <2>2, <2>3, <2>4 DEF Channel
<1>6. ASSUME NEW c \in Cursor, Later(pend.cursor, c)
      PROVE  SameIn(c, out, pend, held, k, out, pend2, m)
  <2>0. m \in DOMAIN held /\ e = held[m] /\ m > k
    BY <1>1
  <2>l. Later(e.cursor, c)
    BY <1>0, <1>1, <1>6, <1>l, LaterRules DEF LaterRule
  <2> HIDE DEF w, e, pend2, v
  <2>1. ASSUME NEW u \in Thread, NEW n \in Nat
        PROVE  DeltaIn(u, c, n, out, pend2, held, m) <=> DeltaIn(u, c, n, out, pend, held, k)
    <3> DEFINE Here(a) == a.kind = "piece" /\ a.thread = u /\ Later(a.cursor, c) /\ Among(n, a.numbers)
    <3>1. (\E i \in DOMAIN held : i > k /\ Here(held[i]))
          <=> (\E i \in DOMAIN held : i > m /\ Here(held[i])) \/ Here(e)
      <4> HIDE DEF Here
      <4> QED BY <1>1, <2>0
    <3>2. pend2.thread = u /\ Later(pend2.cursor, c) /\ Among(n, pend2.pieces)
          <=> Here(e) \/ (pend.thread = u /\ Later(pend.cursor, c) /\ Among(n, pend.pieces))
      BY <1>0, <1>1, <1>2, <1>3, <1>6, <1>j, <2>l
    <3> QED BY <1>2, <3>1, <3>2 DEF DeltaIn
  <2>2. ASSUME NEW u \in Thread, NEW n \in Nat
        PROVE  ItemIn(u, c, n, out, held, m) <=> ItemIn(u, c, n, out, held, k)
    <3> DEFINE Here(a) == /\ a.kind \in {"fact", "complete"} /\ a.thread = u
                          /\ Later(a.cursor, c) /\ Among(n, a.numbers)
    <3>1. ~Here(e)
      BY <1>1
    <3>2. (\E i \in DOMAIN held : i > k /\ Here(held[i]))
          <=> (\E i \in DOMAIN held : i > m /\ Here(held[i]))
      <4> HIDE DEF Here
      <4> QED BY <1>1, <2>0, <3>1
    <3> QED BY <3>2 DEF ItemIn
  <2> QED BY <2>1, <2>2 DEF SameIn
<1>7. Later(pend2.cursor, pend.cursor)
  BY <1>2, <1>l
<1> QED BY <1>5, <1>6, <1>7

LEMMA ExtendsOn ==
  ASSUME NEW K, NEW q, NEW q1, NEW q2, NEW t, DOMAIN q \subseteq Int, DOMAIN q1 \subseteq Int,
         DOMAIN q2 \subseteq Int, Extends(q, q1, t, K), Extends(q1, q2, t, K)
  PROVE  Extends(q, q2, t, K)
<1>1. \A i \in DOMAIN q : i \in DOMAIN q1 /\ i \in DOMAIN q2 /\ q2[i] = q[i]
  BY DEF Extends
<1>2. ASSUME NEW i \in DOMAIN q, NEW j \in DOMAIN q2, j \notin DOMAIN q PROVE i < j
  BY <1>1, <1>2 DEF Extends
<1>3. ASSUME NEW j \in DOMAIN q2, j \notin DOMAIN q
      PROVE  q2[j].kind \in K /\ q2[j].thread = t
  BY <1>3 DEF Extends
<1> QED BY <1>1, <1>2, <1>3 DEF Extends

\* An event held back is posted: it goes out, is joined, or starts what is being joined.
LEMMA PostKeeps ==
  ASSUME NEW K, NEW out, NEW pend, NEW held, NEW k, NEW m, IsNext(k, m), NEW C \in [Thread -> Cursor], NEW E \in Nat,
         NEW S \in [Thread -> Nat], NEW P, NEW V, NEW T,
         Channel(out, pend, held, k, C, E, S, P, V, T), m \in DOMAIN held,
         held[m].kind \in K, held[m].thread \in Thread,
         Fits(pend, held[m].thread, K)
  PROVE  LET all == PostTo([out |-> out, pend |-> pend], held[m]) IN
         /\ Channel(all.out, all.pend, held, m, C, E, S, P, V, T)
         /\ \A c \in Cursor : (pend # NoPending => Later(pend.cursor, c))
              => SameIn(c, out, pend, held, k, all.out, all.pend, m)
         /\ Extends(out, all.out, held[m].thread, K)
         /\ Fits(all.pend, held[m].thread, K)
         /\ EndsAt(all.pend, held[m].cursor)
<1> DEFINE e == held[m]
           all == PostTo([out |-> out, pend |-> pend], e)
<1>1. /\ e \in Event /\ e.kind \in K /\ e.thread \in Thread /\ out \in Seq(Event)
      /\ e.numbers \in Seq(Nat) /\ pend \in PendingType
  <2>1. e \in Event /\ e.kind \in K /\ e.thread \in Thread /\ out \in Seq(Event) /\ pend \in PendingType
    BY DEF Channel
  <2> QED BY <2>1 DEF Event
<1>e. Extends(out, out, e.thread, K)
  BY DEF Extends
<1>f. pend # NoPending => pend.thread = e.thread /\ "piece" \in K
  BY DEF Fits
<1>2. CASE e.kind = "piece" /\ pend = NoPending
  <2> DEFINE pend2 == [thread |-> e.thread, cursor |-> e.cursor, pieces |-> e.numbers]
  <2>1. all = [out |-> out, pend |-> pend2]
    <3>1. <<>> \o e.numbers = e.numbers
      BY <1>1, ConcatEmptySeq
    <3>2. all = [out |-> out, pend |-> [thread |-> e.thread, cursor |-> e.cursor,
                                        pieces |-> <<>> \o e.numbers]]
      BY <1>2 DEF PostTo
    <3> QED BY <3>1, <3>2
  <2>2. /\ Channel(out, pend2, held, m, C, E, S, P, V, T)
        /\ \A c : SameIn(c, out, NoPending, held, k, out, pend2, m)
    BY <1>1, <1>2, DeltaStarts
  <2>3. all.out = out /\ all.pend = pend2 /\ pend2.thread = e.thread /\ pend2.cursor = e.cursor
    BY <2>1
  <2>4. Fits(pend2, e.thread, K) /\ EndsAt(pend2, e.cursor)
    BY <1>1, <1>2 DEF Fits, EndsAt
  <2> HIDE DEF all, pend2
  <2> QED BY <1>2, <1>e, <2>2, <2>3, <2>4 DEF all, e
<1>3. CASE e.kind = "piece" /\ pend # NoPending
  <2> DEFINE pend2 == Joined(pend, e)
  <2>1. all = [out |-> out, pend |-> pend2]
    BY <1>3 DEF PostTo, Joined
  <2>2. /\ Channel(out, pend2, held, m, C, E, S, P, V, T)
        /\ \A c \in Cursor : Later(pend.cursor, c) => SameIn(c, out, pend, held, k, out, pend2, m)
    <3>1. /\ held[m].kind = "piece" /\ held[m].thread \in Thread
          /\ pend.thread = held[m].thread /\ pend # NoPending
      BY <1>1, <1>3, <1>f
    <3> QED BY <3>1, DeltaJoins
  <2>3. all.out = out /\ all.pend = pend2 /\ pend2.thread = e.thread /\ pend2.cursor = e.cursor
    <3>1. pend2.thread = e.thread /\ pend2.cursor = e.cursor
      BY DEF Joined
    <3> HIDE DEF pend2, e, all
    <3> QED BY <2>1, <3>1
  <2>4. Fits(pend2, e.thread, K) /\ EndsAt(pend2, e.cursor)
    <3> HIDE DEF pend2, e, all
    <3> QED BY <1>3, <1>f, <2>3 DEF Fits, EndsAt
  <2> HIDE DEF all, pend2
  <2> QED BY <1>3, <1>e, <2>2, <2>3, <2>4 DEF all, e
<1>4. CASE e.kind # "piece" /\ pend = NoPending
  <2> DEFINE out2 == Append(out, e)
  <2>1. all = [out |-> out2, pend |-> NoPending]
    <3>1. out \o <<e>> = Append(out, e)
      BY <1>1
    <3>2. all = [out |-> out \o <<e>>, pend |-> NoPending]
      BY <1>4 DEF PostTo
    <3> QED BY <3>1, <3>2
  <2>2. /\ Channel(out2, NoPending, held, m, C, E, S, P, V, T)
        /\ \A c : SameIn(c, out, NoPending, held, k, out2, NoPending, m)
        /\ Extends(out, out2, e.thread, K)
    BY <1>1, <1>4, PlainKeeps
  <2>3. all.out = out2 /\ all.pend = NoPending
    BY <2>1
  <2>4. Fits(NoPending, e.thread, K) /\ EndsAt(NoPending, e.cursor)
    BY DEF Fits, EndsAt
  <2> HIDE DEF all, out2
  <2> QED BY <1>4, <2>2, <2>3, <2>4 DEF all, e
<1>5. CASE e.kind # "piece" /\ pend # NoPending
  <2> DEFINE w == Carried(pend)
             out1 == Append(out, w)
             out2 == Append(out1, e)
  <2>0. w \in Event
    BY <1>1, CarriedIs
  <2>1. all = [out |-> out2, pend |-> NoPending]
    <3>1. out1 \in Seq(Event) /\ out1 \o <<e>> = Append(out1, e)
      BY <1>1, <2>0
    <3>2. all = [out |-> out1 \o <<e>>, pend |-> NoPending]
      BY <1>5 DEF PostTo, Carried
    <3> QED BY <3>1, <3>2
  <2>2. /\ Channel(out1, NoPending, held, k, C, E, S, P, V, T)
        /\ \A c : SameIn(c, out, pend, held, k, out1, NoPending, k)
        /\ Extends(out, out1, e.thread, K)
    <3>1. pend.thread = e.thread /\ "piece" \in K
      BY <1>5, <1>f
    <3> HIDE DEF e
    <3> QED BY <1>5, <3>1, FlushKeeps
  <2> HIDE DEF out1
  <2>3. /\ Channel(out2, NoPending, held, m, C, E, S, P, V, T)
        /\ \A c : SameIn(c, out1, NoPending, held, k, out2, NoPending, m)
        /\ Extends(out1, out2, e.thread, K)
    BY <1>1, <1>5, <2>2, PlainKeeps
  <2> HIDE DEF out2, w
  <2>4. all.out = out2 /\ all.pend = NoPending
    BY <2>1
  <2>5. Extends(out, out2, e.thread, K)
    <3>1. out1 \in Seq(Event) /\ out2 \in Seq(Event)
      BY <2>2, <2>3 DEF Channel
    <3>2. DOMAIN out \subseteq Int /\ DOMAIN out1 \subseteq Int /\ DOMAIN out2 \subseteq Int
      BY <1>1, <3>1
    <3> QED BY <2>2, <2>3, <3>2, ExtendsOn
  <2>6. \A c : SameIn(c, out, pend, held, k, out2, NoPending, m)
    BY <2>2, <2>3 DEF SameIn
  <2>7. Fits(NoPending, e.thread, K) /\ EndsAt(NoPending, e.cursor)
    BY DEF Fits, EndsAt
  <2> HIDE DEF all
  <2> QED BY <1>5, <2>3, <2>4, <2>5, <2>6, <2>7 DEF all, e
<1> QED BY <1>1, <1>2, <1>3, <1>4, <1>5

\* All that was held back is posted.
PostStates == [out : Seq(Event), pend : PendingType]

LEMMA PostType ==
  ASSUME NEW s \in PostStates, NEW e \in Event
  PROVE  PostTo(s, e) \in PostStates /\ PostTo(s, e) = PostTo([out |-> s.out, pend |-> s.pend], e)
<1>1. /\ s.out \in Seq(Event) /\ s.pend \in PendingType /\ e.thread \in Thread0 /\ e.cursor \in Cursor
      /\ e.numbers \in Seq(Nat) /\ s.pend.pieces \in Seq(Nat)
  BY DEF PostStates, Event, PendingType, Thread0
<1>2. PostTo(s, e) = PostTo([out |-> s.out, pend |-> s.pend], e)
  BY DEF PostTo
<1>3. CASE e.kind = "piece"
  <2> DEFINE ns == (IF s.pend = NoPending THEN <<>> ELSE s.pend.pieces) \o e.numbers
  <2>1. ns \in Seq(Nat)
    <3>1. CASE s.pend = NoPending
      <4>1. <<>> \o e.numbers = e.numbers
        BY <1>1, ConcatEmptySeq
      <4> QED BY <1>1, <3>1, <4>1
    <3>2. CASE s.pend # NoPending
      <4>1. ns = s.pend.pieces \o e.numbers
        BY <3>2
      <4>2. s.pend.pieces \o e.numbers \in Seq(Nat)
        BY <1>1
      <4> QED BY <4>1, <4>2
    <3> QED BY <3>1, <3>2
  <2>2. PostTo(s, e) = [out |-> s.out, pend |-> [thread |-> e.thread, cursor |-> e.cursor,
                                                 pieces |-> ns]]
    BY <1>3 DEF PostTo
  <2> HIDE DEF ns
  <2> QED BY <1>1, <1>2, <2>1, <2>2 DEF PostStates, PendingType
<1>4. CASE e.kind # "piece"
  <2> DEFINE w == Stamped("piece", s.pend.thread, s.pend.cursor, s.pend.pieces)
             before == IF s.pend = NoPending THEN s.out ELSE Append(s.out, w)
  <2>1. before \in Seq(Event)
    <3>1. w \in Event
      BY <1>1, CarriedIs DEF Carried
    <3> QED BY <1>1, <3>1
  <2>2. PostTo(s, e) = [out |-> before \o <<e>>, pend |-> NoPending]
    BY <1>4 DEF PostTo
  <2> HIDE DEF before
  <2>3. before \o <<e>> = Append(before, e) /\ Append(before, e) \in Seq(Event)
    BY <2>1
  <2>4. NoPending \in PendingType
    BY EmptySeq, NextIsLater DEF NoPending, PendingType, Thread0
  <2> QED BY <1>2, <2>2, <2>3, <2>4 DEF PostStates
<1> QED BY <1>3, <1>4

PostsOf(first, held, f) ==
  f = [i \in 0 .. Len(held) |-> IF i = 0 THEN first ELSE PostTo(f[i - 1], held[i])]

LEMMA PostsEach ==
  ASSUME NEW first \in PostStates, NEW held \in Seq(Event)
  PROVE  \E h : /\ Posted(first, held) = h[Len(held)] /\ h[0] = first
                /\ \A k \in 1 .. Len(held) : h[k] = PostTo(h[k - 1], held[k])
                /\ \A k \in 0 .. Len(held) : h[k] \in PostStates
<1> DEFINE g == [x \in PostStates \X Event |-> PostTo(x[1], x[2])]
<1>1. Len(held) \in Nat /\ \A k \in 1 .. Len(held) : held[k] \in Event
  OBVIOUS
<1>2. g \in [PostStates \X Event -> PostStates]
  BY PostType
<1>3. \A x \in PostStates, e \in Event : g[<<x, e>>] = PostTo(x, e)
  OBVIOUS
<1>4. Iterable(PostStates, Event, first, g, held)
  <2> HIDE DEF g
  <2> QED BY <1>2 DEF Iterable
<1> HIDE DEF g
<1>5. PICK f \in [0 .. Len(held) -> PostStates] :
        f[0] = first /\ \A k \in 1 .. Len(held) : f[k] = g[<<f[k - 1], held[k]>>]
  BY <1>4, Iterates
<1>6. PostsOf(first, held, f)
  <2>1. \A k \in 0 .. Len(held) : f[k] = IF k = 0 THEN first ELSE PostTo(f[k - 1], held[k])
    <3> SUFFICES ASSUME NEW k \in 0 .. Len(held), k # 0 PROVE f[k] = PostTo(f[k - 1], held[k])
      BY <1>5
    <3>1. k \in 1 .. Len(held) /\ k - 1 \in 0 .. Len(held)
      BY <1>1
    <3>2. f[k - 1] \in PostStates /\ held[k] \in Event
      BY <1>1, <1>5, <3>1
    <3> QED BY <1>3, <1>5, <3>1, <3>2
  <2>2. DOMAIN f = 0 .. Len(held)
    BY <1>5
  <2> QED BY <1>5, <2>1, <2>2 DEF PostsOf
<1>7. PICK h : PostsOf(first, held, h) /\ Posted(first, held) = h[Len(held)]
  <2>1. Posted(first, held) = (CHOOSE h : PostsOf(first, held, h))[Len(held)]
    BY DEF Posted, PostsOf
  <2> QED BY <1>6, <2>1
<1>8. h[0] = first /\ \A k \in 1 .. Len(held) : h[k] = PostTo(h[k - 1], held[k])
  <2>1. h[0] = first
    BY <1>1, <1>7 DEF PostsOf
  <2>2. ASSUME NEW k \in 1 .. Len(held) PROVE h[k] = PostTo(h[k - 1], held[k])
    <3>1. k \in 0 .. Len(held) /\ k # 0
      BY <1>1
    <3> QED BY <1>7, <3>1 DEF PostsOf
  <2> QED BY <2>1, <2>2
<1>9. \A k \in 0 .. Len(held) : h[k] \in PostStates
  <2> DEFINE Bad == {k \in Nat : k <= Len(held) /\ h[k] \notin PostStates}
  <2>1. ASSUME Bad # {} PROVE FALSE
    <3>1. PICK k \in Bad : \A m \in Bad : k <= m
      <4>1. Bad \in SUBSET Nat
        OBVIOUS
      <4> HIDE DEF Bad
      <4> QED BY <2>1, <4>1, Least
    <3>2. k # 0
      BY <1>8, <3>1
    <3>3. k - 1 \in Nat /\ k - 1 <= Len(held) /\ k \in 1 .. Len(held) /\ ~(k <= k - 1)
      BY <1>1, <3>1, <3>2
    <3>4. h[k - 1] \in PostStates
      BY <3>1, <3>3
    <3> QED BY <1>1, <1>8, <3>1, <3>3, <3>4, PostType
  <2>2. ASSUME NEW k \in 0 .. Len(held) PROVE h[k] \in PostStates
    BY <1>1, <2>1, <2>2
  <2> QED BY <2>2
<1> QED BY <1>7, <1>8, <1>9

\* As much is on its way as before, in order.
LEMMA PostedKeeps ==
  ASSUME NEW K, NEW out, NEW held, NEW C \in [Thread -> Cursor], NEW E \in Nat,
         NEW S \in [Thread -> Nat], NEW P, NEW V, NEW T, NEW t \in Thread,
         Channel(out, NoPending, held, 0, C, E, S, P, V, T),
         \A j \in DOMAIN held : held[j].kind \in K /\ held[j].thread = t
  PROVE  LET all == Posted([out |-> out, pend |-> NoPending], held) IN
         /\ Channel(all.out, all.pend, <<>>, 0, C, E, S, P, V, T)
         /\ \A c \in Cursor : (\A j \in DOMAIN held : Later(held[j].cursor, c))
              => SameIn(c, out, NoPending, held, 0, all.out, all.pend, Len(held))
         /\ Extends(out, all.out, t, K)
         /\ Fits(all.pend, t, K)
<1> DEFINE first == [out |-> out, pend |-> NoPending]
<1>1. /\ held \in Seq(Event) /\ Len(held) \in Nat /\ DOMAIN held = 1 .. Len(held)
      /\ out \in Seq(Event) /\ first \in PostStates
  <2>1. held \in Seq(Event) /\ out \in Seq(Event) /\ NoPending \in PendingType
    BY DEF Channel
  <2> QED BY <2>1 DEF PostStates
<1>2. PICK h : /\ Posted(first, held) = h[Len(held)] /\ h[0] = first
               /\ \A k \in 1 .. Len(held) : h[k] = PostTo(h[k - 1], held[k])
               /\ \A k \in 0 .. Len(held) : h[k] \in PostStates
  <2> HIDE DEF first
  <2> QED BY <1>1, PostsEach
<1> DEFINE Good(k) ==
      /\ Channel(h[k].out, h[k].pend, held, k, C, E, S, P, V, T)
      /\ \A c \in Cursor : (\A j \in DOMAIN held : Later(held[j].cursor, c))
           => SameIn(c, out, NoPending, held, 0, h[k].out, h[k].pend, k)
      /\ Extends(out, h[k].out, t, K)
      /\ Fits(h[k].pend, t, K)
      /\ h[k].pend # NoPending => \E j \in DOMAIN held : h[k].pend.cursor = held[j].cursor
<1>3. Good(0)
  <2>1. h[0].out = out /\ h[0].pend = NoPending
    BY <1>2
  <2>2. Extends(out, out, t, K) /\ \A c : SameIn(c, out, NoPending, held, 0, out, NoPending, 0)
    BY DEF Extends, SameIn
  <2>3. Fits(NoPending, t, K)
    BY DEF Fits
  <2> QED BY <2>1, <2>2, <2>3
<1>4. ASSUME NEW k \in 1 .. Len(held), Good(k - 1) PROVE Good(k)
  <2> DEFINE i == k - 1
             e == held[k]
             out1 == h[i].out
             pend1 == h[i].pend
  <2>1. /\ i \in Nat /\ IsNext(i, k) /\ k \in DOMAIN held /\ e \in Event /\ e.kind \in K
        /\ e.thread = t /\ h[i] \in PostStates /\ h[k] \in PostStates
        /\ h[k] = PostTo([out |-> out1, pend |-> pend1], e)
    <3>1. /\ i \in Nat /\ IsNext(i, k) /\ k \in DOMAIN held /\ e \in Event /\ e.kind \in K
          /\ e.thread = t /\ i \in 0 .. Len(held) /\ k \in 0 .. Len(held)
      BY <1>1 DEF IsNext
    <3>2. h[i] \in PostStates /\ h[k] \in PostStates /\ h[k] = PostTo(h[i], e)
      BY <1>2, <3>1
    <3> QED BY <3>1, <3>2, PostType
  <2>2. /\ Channel(out1, pend1, held, i, C, E, S, P, V, T)
        /\ Fits(pend1, t, K)
    BY <1>4
  <2>3. /\ Channel(h[k].out, h[k].pend, held, k, C, E, S, P, V, T)
        /\ \A c \in Cursor : (pend1 # NoPending => Later(pend1.cursor, c))
             => SameIn(c, out1, pend1, held, i, h[k].out, h[k].pend, k)
        /\ Extends(out1, h[k].out, t, K)
        /\ Fits(h[k].pend, t, K)
        /\ EndsAt(h[k].pend, e.cursor)
    <3> HIDE DEF out1, pend1, Good, i
    <3>1. /\ k \in DOMAIN held /\ held[k].kind \in K /\ held[k].thread \in Thread
          /\ Fits(pend1, held[k].thread, K) /\ IsNext(i, k)
      BY <2>1, <2>2
    <3>2. LET all == PostTo([out |-> out1, pend |-> pend1], held[k]) IN
         /\ Channel(all.out, all.pend, held, k, C, E, S, P, V, T)
         /\ \A c \in Cursor : (pend1 # NoPending => Later(pend1.cursor, c))
              => SameIn(c, out1, pend1, held, i, all.out, all.pend, k)
         /\ Extends(out1, all.out, held[k].thread, K)
         /\ Fits(all.pend, held[k].thread, K)
         /\ EndsAt(all.pend, held[k].cursor)
      BY <2>2, <3>1, PostKeeps
    <3> QED BY <2>1, <3>2
  <2>4. Extends(out, h[k].out, t, K)
    <3>1. Extends(out, out1, t, K)
      BY <1>4
    <3>2. DOMAIN out \subseteq Int /\ DOMAIN out1 \subseteq Int /\ DOMAIN h[k].out \subseteq Int
      BY <1>1, <2>1 DEF PostStates
    <3> HIDE DEF out1
    <3> QED BY <2>3, <3>1, <3>2, ExtendsOn
  <2>5. ASSUME NEW c \in Cursor, \A j \in DOMAIN held : Later(held[j].cursor, c)
        PROVE  SameIn(c, out, NoPending, held, 0, h[k].out, h[k].pend, k)
    <3>1. SameIn(c, out, NoPending, held, 0, out1, pend1, i)
      BY <1>4, <2>5
    <3>2. pend1 # NoPending => Later(pend1.cursor, c)
      BY <1>4, <2>5
    <3> HIDE DEF out1, pend1, i
    <3>3. SameIn(c, out1, pend1, held, i, h[k].out, h[k].pend, k)
      BY <2>3, <3>2
    <3> QED BY <3>1, <3>3 DEF SameIn
  <2>6. h[k].pend # NoPending => \E j \in DOMAIN held : h[k].pend.cursor = held[j].cursor
    <3> HIDE DEF out1, pend1, i, Good
    <3> QED BY <2>1, <2>3 DEF EndsAt
  <2> HIDE DEF out1, pend1, i, e
  <2> QED BY <2>3, <2>4, <2>5, <2>6
<1>5. Good(Len(held))
  <2> DEFINE Bad == {k \in Nat : k <= Len(held) /\ ~Good(k)}
  <2>1. ASSUME Bad # {} PROVE FALSE
    <3>1. PICK k \in Bad : \A m \in Bad : k <= m
      <4>1. Bad \in SUBSET Nat
        OBVIOUS
      <4> HIDE DEF Bad
      <4> QED BY <2>1, <4>1, Least
    <3> HIDE DEF Good
    <3>2. k # 0
      BY <1>3, <3>1
    <3>3. k - 1 \in Nat /\ k - 1 <= Len(held) /\ k \in 1 .. Len(held) /\ ~(k <= k - 1)
      BY <1>1, <3>1, <3>2
    <3>4. Good(k - 1)
      BY <3>1, <3>3
    <3> QED BY <1>4, <3>1, <3>3, <3>4
  <2> HIDE DEF Good
  <2> QED BY <1>1, <2>1
<1> DEFINE all == Posted(first, held)
<1>6. Channel(all.out, all.pend, <<>>, 0, C, E, S, P, V, T)
  <2>1. all = h[Len(held)]
    BY <1>2
  <2>2. Channel(all.out, all.pend, held, Len(held), C, E, S, P, V, T)
    BY <1>5, <2>1
  <2>3. <<>> \in Seq(Event) /\ DOMAIN <<>> = {}
    BY NothingIn, EmptySeq
  <2> HIDE DEF all
  <2> QED BY <2>2, <2>3 DEF Channel, Queued
<1> QED BY <1>2, <1>5, <1>6

-----------------------------------------------------------------------------
(* More to come, and less. *)

\* What has happened since changes nothing about what is on its way.
DataGrows(S, P, T, S2, P2, T2) ==
  \A u \in Thread : S[u] <= S2[u] /\ P[u] <= P2[u] /\ (T[u] = "over" => T2[u] = "over")

LEMMA LaterData ==
  ASSUME NEW out, NEW pend, NEW held, NEW k, NEW C \in [Thread -> Cursor], NEW E \in Nat,
         NEW S \in [Thread -> Nat], NEW P \in [Thread -> Nat], NEW V, NEW T,
         NEW S2 \in [Thread -> Nat], NEW P2 \in [Thread -> Nat], NEW T2,
         DataGrows(S, P, T, S2, P2, T2),
         Channel(out, pend, held, k, C, E, S, P, V, T)
  PROVE  Channel(out, pend, held, k, C, E, S2, P2, V, T2)
<1>0. \A u \in Thread : S[u] <= S2[u] /\ P[u] <= P2[u] /\ (T[u] = "over" => T2[u] = "over")
  BY DEF DataGrows
<1>1. ASSUME NEW e, e.cursor \in Cursor, SoundAt(e, C, E, S, P, V, T)
      PROVE  SoundAt(e, C, E, S2, P2, V, T2)
  <2> SUFFICES ASSUME e.thread \in Thread PROVE SoundAt(e, C, E, S2, P2, V, T2)
    BY DEF SoundAt
  <2>1. ~Later(e.cursor, <<E, S2[e.thread]>>)
    <3>1. ~Later(e.cursor, <<E, S[e.thread]>>) /\ S[e.thread] <= S2[e.thread]
      BY <1>0, <1>1 DEF SoundAt
    <3>2. S[e.thread] \in Nat /\ S2[e.thread] \in Nat /\ e.cursor[1] \in Nat /\ e.cursor[2] \in Nat
      BY <1>1 DEF Cursor
    <3> QED BY <3>1, <3>2 DEF Later
  <2>2. \A n \in 1 .. P[e.thread] : n \in 1 .. P2[e.thread]
    <3>1. P[e.thread] \in Nat /\ P2[e.thread] \in Nat /\ P[e.thread] <= P2[e.thread]
      BY <1>0
    <3> QED BY <3>1
  <2> QED BY <1>0, <1>1, <2>1, <2>2 DEF SoundAt
<1>2. \A i \in DOMAIN out : out[i].cursor \in Cursor
  <2>1. \A i \in DOMAIN out : out[i] \in Event
    BY DEF Channel
  <2> QED BY <2>1 DEF Event
<1>3. \A i \in DOMAIN held : held[i].cursor \in Cursor
  <2>1. \A i \in DOMAIN held : held[i] \in Event
    BY DEF Channel
  <2> QED BY <2>1 DEF Event
<1>4. Carried(pend).cursor \in Cursor
  BY CarriedIs DEF Channel, PendingType
<1> QED BY <1>1, <1>2, <1>3, <1>4 DEF Channel

\* e is what the second queue holds and the first does not.
Adds(c, e, out, pend, held, out2, pend2, held2) ==
  \A u \in Thread, n \in Nat :
    /\ DeltaIn(u, c, n, out2, pend2, held2, 0)
         <=> \/ DeltaIn(u, c, n, out, pend, held, 0)
             \/ e.kind = "piece" /\ e.thread = u /\ Later(e.cursor, c) /\ Among(n, e.numbers)
    /\ ItemIn(u, c, n, out2, held2, 0)
         <=> \/ ItemIn(u, c, n, out, held, 0)
             \/ /\ e.kind \in {"fact", "complete"} /\ e.thread = u
                /\ Later(e.cursor, c) /\ Among(n, e.numbers)

ComesAfter(e, out, pend, held) ==
  /\ \A i \in DOMAIN out : Before(out[i], e)
  /\ pend # NoPending => Before(Carried(pend), e)
  /\ \A j \in DOMAIN held : Before(held[j], e)

\* An event is held back.
LEMMA HeldKeeps ==
  ASSUME NEW out, NEW pend, NEW held, NEW C, NEW E, NEW S, NEW P, NEW V, NEW T, NEW e \in Event,
         Channel(out, pend, held, 0, C, E, S, P, V, T), SoundAt(e, C, E, S, P, V, T),
         ComesAfter(e, out, pend, held)
  PROVE  LET held2 == Append(held, e) IN
         /\ Channel(out, pend, held2, 0, C, E, S, P, V, T)
         /\ \A c : Adds(c, e, out, pend, held, out, pend, held2)
<1> DEFINE held2 == Append(held, e)
           l == Len(held) + 1
<1>1. /\ held \in Seq(Event) /\ held2 \in Seq(Event) /\ DOMAIN held2 = DOMAIN held \cup {l}
      /\ l \notin DOMAIN held /\ held2[l] = e
      /\ \A j \in DOMAIN held : held2[j] = held[j] /\ j < l /\ j > 0 /\ j \in Nat
      /\ l > 0 /\ l \in Nat
  <2>1. held \in Seq(Event)
    BY DEF Channel
  <2>2. Len(held) \in Nat /\ DOMAIN held = 1 .. Len(held)
    BY <2>1
  <2> QED BY <2>1, <2>2, Added
<1> HIDE DEF held2, l
<1>2. Queued(out, pend, held2, 0)
  <2>1. \A i \in DOMAIN out, j \in DOMAIN held2 : Before(out[i], held2[j])
    BY <1>1 DEF Channel, Queued, ComesAfter
  <2>2. pend # NoPending => \A j \in DOMAIN held2 : Before(Carried(pend), held2[j])
    BY <1>1 DEF Channel, Queued, ComesAfter
  <2>3. \A i, j \in DOMAIN held2 : i < j => Before(held2[i], held2[j])
    <3>1. \A i, j \in DOMAIN held2 : i < j => i # l
      BY <1>1
    <3> QED BY <1>1, <3>1 DEF Channel, Queued, ComesAfter
  <2> QED BY <2>1, <2>2, <2>3 DEF Channel, Queued
<1>3. Channel(out, pend, held2, 0, C, E, S, P, V, T)
  BY <1>1, <1>2 DEF Channel
<1>4. ASSUME NEW c PROVE Adds(c, e, out, pend, held, out, pend, held2)
  <2>1. ASSUME NEW u, NEW n
        PROVE  DeltaIn(u, c, n, out, pend, held2, 0)
                 <=> \/ DeltaIn(u, c, n, out, pend, held, 0)
                     \/ e.kind = "piece" /\ e.thread = u /\ Later(e.cursor, c) /\ Among(n, e.numbers)
    <3> DEFINE Here(a) == a.kind = "piece" /\ a.thread = u /\ Later(a.cursor, c) /\ Among(n, a.numbers)
    <3>1. (\E i \in DOMAIN held2 : i > 0 /\ Here(held2[i]))
          <=> (\E i \in DOMAIN held : i > 0 /\ Here(held[i])) \/ Here(e)
      <4> HIDE DEF Here
      <4> QED BY <1>1
    <3> QED BY <3>1 DEF DeltaIn
  <2>2. ASSUME NEW u, NEW n
        PROVE  ItemIn(u, c, n, out, held2, 0)
                 <=> \/ ItemIn(u, c, n, out, held, 0)
                     \/ /\ e.kind \in {"fact", "complete"} /\ e.thread = u
                        /\ Later(e.cursor, c) /\ Among(n, e.numbers)
    <3> DEFINE Here(a) == /\ a.kind \in {"fact", "complete"} /\ a.thread = u
                          /\ Later(a.cursor, c) /\ Among(n, a.numbers)
    <3>1. (\E i \in DOMAIN held2 : i > 0 /\ Here(held2[i]))
          <=> (\E i \in DOMAIN held : i > 0 /\ Here(held[i])) \/ Here(e)
      <4> HIDE DEF Here
      <4> QED BY <1>1
    <3> QED BY <3>1 DEF ItemIn
  <2> QED BY <2>1, <2>2 DEF Adds
<1> QED BY <1>3, <1>4 DEF held2

LEMMA OnePosted ==
  ASSUME NEW K, NEW out, NEW pend, NEW held \in Seq(Event), NEW e, NEW C \in [Thread -> Cursor], NEW E \in Nat,
         NEW S \in [Thread -> Nat], NEW P, NEW V, NEW T,
         Channel(out, pend, held, 0, C, E, S, P, V, T), DOMAIN held = {1}, held[1] = e,
         e.kind \in K, e.thread \in Thread, Fits(pend, e.thread, K)
  PROVE  LET all == PostTo([out |-> out, pend |-> pend], e) IN
         /\ Channel(all.out, all.pend, <<>>, 0, C, E, S, P, V, T)
         /\ \A c \in Cursor : (pend # NoPending => Later(pend.cursor, c))
              => \A u \in Thread, n \in Nat :
                   /\ DeltaIn(u, c, n, all.out, all.pend, <<>>, 0)
                        <=> DeltaIn(u, c, n, out, pend, held, 0)
                   /\ ItemIn(u, c, n, all.out, <<>>, 0) <=> ItemIn(u, c, n, out, held, 0)
         /\ Extends(out, all.out, e.thread, K)
         /\ Fits(all.pend, e.thread, K)
<1> DEFINE all == PostTo([out |-> out, pend |-> pend], held[1])
<1>1. /\ IsNext(0, 1) /\ 1 \in DOMAIN held /\ held[1].kind \in K /\ held[1].thread \in Thread
      /\ Fits(pend, held[1].thread, K)
  BY DEF IsNext
<1>2. LET all2 == PostTo([out |-> out, pend |-> pend], held[1]) IN
      /\ Channel(all2.out, all2.pend, held, 1, C, E, S, P, V, T)
      /\ \A c \in Cursor : (pend # NoPending => Later(pend.cursor, c))
              => SameIn(c, out, pend, held, 0, all2.out, all2.pend, 1)
      /\ Extends(out, all2.out, held[1].thread, K)
      /\ Fits(all2.pend, held[1].thread, K)
      /\ EndsAt(all2.pend, held[1].cursor)
  <2> HIDE DEF all
  <2> QED BY <1>1, PostKeeps
<1>3. /\ Channel(all.out, all.pend, held, 1, C, E, S, P, V, T)
      /\ \A c \in Cursor : (pend # NoPending => Later(pend.cursor, c))
              => SameIn(c, out, pend, held, 0, all.out, all.pend, 1)
      /\ Extends(out, all.out, held[1].thread, K)
      /\ Fits(all.pend, held[1].thread, K)
  BY <1>2
<1> HIDE DEF all
<1>4. <<>> \in Seq(Event) /\ DOMAIN <<>> = {} /\ \A j \in DOMAIN held : ~(j > 1)
  BY NothingIn, EmptySeq
<1>5. Channel(all.out, all.pend, <<>>, 0, C, E, S, P, V, T)
  BY <1>3, <1>4 DEF Channel, Queued
<1>6. ASSUME NEW c \in Cursor, pend # NoPending => Later(pend.cursor, c), NEW u \in Thread, NEW n \in Nat
      PROVE  /\ DeltaIn(u, c, n, all.out, all.pend, <<>>, 0) <=> DeltaIn(u, c, n, out, pend, held, 0)
             /\ ItemIn(u, c, n, all.out, <<>>, 0) <=> ItemIn(u, c, n, out, held, 0)
  <2>1. SameIn(c, out, pend, held, 0, all.out, all.pend, 1)
    BY <1>3, <1>6
  <2>2. /\ DeltaIn(u, c, n, all.out, all.pend, held, 1) <=> DeltaIn(u, c, n, all.out, all.pend, <<>>, 0)
        /\ ItemIn(u, c, n, all.out, held, 1) <=> ItemIn(u, c, n, all.out, <<>>, 0)
    BY <1>4 DEF DeltaIn, ItemIn
  <2> QED BY <2>1, <2>2 DEF SameIn
<1> QED BY <1>3, <1>5, <1>6 DEF all

\* An event is sent.
LEMMA SentKeeps ==
  ASSUME NEW K, NEW out, NEW pend, NEW C \in [Thread -> Cursor], NEW E \in Nat,
         NEW S \in [Thread -> Nat], NEW P, NEW V, NEW T, NEW e \in Event,
         Channel(out, pend, <<>>, 0, C, E, S, P, V, T), SoundAt(e, C, E, S, P, V, T),
         ComesAfter(e, out, pend, <<>>), e.kind \in K, e.thread \in Thread,
         Fits(pend, e.thread, K)
  PROVE  LET all == PostTo([out |-> out, pend |-> pend], e) IN
         /\ Channel(all.out, all.pend, <<>>, 0, C, E, S, P, V, T)
         /\ \A c \in Cursor : (pend # NoPending => Later(pend.cursor, c))
              => Adds(c, e, out, pend, <<>>, all.out, all.pend, <<>>)
         /\ Extends(out, all.out, e.thread, K)
         /\ Fits(all.pend, e.thread, K)
<1> DEFINE all == PostTo([out |-> out, pend |-> pend], e)
           held == Append(<<>>, e)
<1>1. Channel(out, pend, held, 0, C, E, S, P, V, T) /\ \A c : Adds(c, e, out, pend, <<>>, out, pend, held)
  BY HeldKeeps
<1>2. DOMAIN held = {1} /\ held[1] = e /\ held \in Seq(Event)
  OBVIOUS
<1> HIDE DEF held, all
<1>3. /\ Channel(all.out, all.pend, <<>>, 0, C, E, S, P, V, T)
      /\ \A c \in Cursor : (pend # NoPending => Later(pend.cursor, c))
              => \A u \in Thread, n \in Nat :
                   /\ DeltaIn(u, c, n, all.out, all.pend, <<>>, 0)
                        <=> DeltaIn(u, c, n, out, pend, held, 0)
                   /\ ItemIn(u, c, n, all.out, <<>>, 0) <=> ItemIn(u, c, n, out, held, 0)
      /\ Extends(out, all.out, e.thread, K)
      /\ Fits(all.pend, e.thread, K)
  BY <1>1, <1>2, OnePosted DEF all
<1>6. ASSUME NEW c \in Cursor, pend # NoPending => Later(pend.cursor, c)
      PROVE  Adds(c, e, out, pend, <<>>, all.out, all.pend, <<>>)
  BY <1>1, <1>3, <1>6 DEF Adds
<1> QED BY <1>3, <1>6 DEF all

\* An answer goes out before what is joined and held back.
LEMMA AnswerKeeps ==
  ASSUME NEW out, NEW pend, NEW held, NEW C, NEW E, NEW S, NEW P, NEW V, NEW T, NEW e \in Event,
         Channel(out, pend, held, 0, C, E, S, P, V, T), SoundAt(e, C, E, S, P, V, T),
         e.kind \in AnswerKinds \cup {"deleted"},
         \A i \in DOMAIN out : Before(out[i], e),
         pend # NoPending => Before(e, Carried(pend)), \A j \in DOMAIN held : Before(e, held[j])
  PROVE  LET out2 == Append(out, e) IN
         /\ Channel(out2, pend, held, 0, C, E, S, P, V, T)
         /\ \A c : SameIn(c, out, pend, held, 0, out2, pend, 0)
<1> DEFINE out2 == Append(out, e)
           l == Len(out) + 1
<1>1. /\ out \in Seq(Event) /\ out2 \in Seq(Event) /\ DOMAIN out2 = DOMAIN out \cup {l}
      /\ l \notin DOMAIN out /\ out2[l] = e
      /\ \A j \in DOMAIN out : out2[j] = out[j] /\ j < l /\ j \in Nat
      /\ l \in Nat
  <2>1. out \in Seq(Event)
    BY DEF Channel
  <2>2. Len(out) \in Nat /\ DOMAIN out = 1 .. Len(out)
    BY <2>1
  <2> QED BY <2>1, <2>2, Added
<1> HIDE DEF out2, l
<1>2. Queued(out2, pend, held, 0)
  <2>1. \A i, j \in DOMAIN out2 : i < j => Before(out2[i], out2[j])
    <3>1. \A i, j \in DOMAIN out2 : i < j => i # l
      BY <1>1
    <3> QED BY <1>1, <3>1 DEF Channel, Queued
  <2>2. pend # NoPending => \A i \in DOMAIN out2 : Before(out2[i], Carried(pend))
    BY <1>1 DEF Channel, Queued
  <2>3. \A i \in DOMAIN out2, j \in DOMAIN held : j > 0 => Before(out2[i], held[j])
    BY <1>1 DEF Channel, Queued
  <2> QED BY <2>1, <2>2, <2>3 DEF Channel, Queued
<1>3. Channel(out2, pend, held, 0, C, E, S, P, V, T)
  BY <1>1, <1>2 DEF Channel
<1>4. ASSUME NEW c PROVE SameIn(c, out, pend, held, 0, out2, pend, 0)
  <2>1. ASSUME NEW u, NEW n
        PROVE  DeltaIn(u, c, n, out2, pend, held, 0) <=> DeltaIn(u, c, n, out, pend, held, 0)
    <3> DEFINE Here(a) == a.kind = "piece" /\ a.thread = u /\ Later(a.cursor, c) /\ Among(n, a.numbers)
    <3>0. ~Here(e)
      BY DEF AnswerKinds
    <3>1. (\E i \in DOMAIN out2 : Here(out2[i])) <=> (\E i \in DOMAIN out : Here(out[i]))
      <4> HIDE DEF Here
      <4> QED BY <1>1, <3>0
    <3> QED BY <3>1 DEF DeltaIn
  <2>2. ASSUME NEW u, NEW n
        PROVE  ItemIn(u, c, n, out2, held, 0) <=> ItemIn(u, c, n, out, held, 0)
    <3> DEFINE Here(a) == /\ a.kind \in {"fact", "complete"} /\ a.thread = u
                          /\ Later(a.cursor, c) /\ Among(n, a.numbers)
    <3>0. ~Here(e)
      BY DEF AnswerKinds
    <3>1. (\E i \in DOMAIN out2 : Here(out2[i])) <=> (\E i \in DOMAIN out : Here(out[i]))
      <4> HIDE DEF Here
      <4> QED BY <1>1, <3>0
    <3> QED BY <3>1 DEF ItemIn
  <2> QED BY <2>1, <2>2 DEF SameIn
<1> QED BY <1>3, <1>4 DEF out2

\* The page takes the first event.
LEMMA HeadKeeps ==
  ASSUME NEW out, NEW pend, NEW held, NEW C, NEW E, NEW S, NEW P, NEW V, NEW T, NEW C2, NEW V2,
         Channel(out, pend, held, 0, C, E, S, P, V, T), out # <<>>,
         \A u \in Thread : C2[u] = C[u] \/ (u = Head(out).thread /\ C2[u] = Head(out).cursor),
         \A u \in Thread : V2.thread = u => \A j \in DOMAIN V2.text :
           \/ V.thread = u /\ Among(V2.text[j], V.text)
           \/ /\ Head(out).kind = "piece" /\ Head(out).thread = u
              /\ Among(V2.text[j], Head(out).numbers)
  PROVE  /\ Channel(Tail(out), pend, held, 0, C2, E, S, P, V2, T)
         /\ \A c : Adds(c, Head(out), Tail(out), pend, held, out, pend, held)
<1> DEFINE e == Head(out)
           rest == Tail(out)
<1>1. /\ out \in Seq(Event) /\ rest \in Seq(Event) /\ e \in Event /\ e = out[1] /\ 1 \in DOMAIN out
      /\ \A i \in DOMAIN rest : i + 1 \in DOMAIN out /\ rest[i] = out[i + 1] /\ i + 1 # 1 /\ i \in Nat
      /\ \A i \in DOMAIN out : i # 1 => i - 1 \in DOMAIN rest /\ rest[i - 1] = out[i] /\ i \in Nat
  <2>1. out \in Seq(Event)
    BY DEF Channel
  <2> QED BY <2>1, Taken
<1> HIDE DEF e, rest
<1>2. /\ \A i \in DOMAIN rest : Before(e, rest[i])
      /\ pend # NoPending => Before(e, Carried(pend))
      /\ \A j \in DOMAIN held : j > 0 => Before(e, held[j])
  <2>1. \A i \in DOMAIN rest : Before(e, rest[i])
    <3> SUFFICES ASSUME NEW i \in DOMAIN rest PROVE Before(e, rest[i])
      OBVIOUS
    <3>1. i + 1 \in DOMAIN out /\ rest[i] = out[i + 1] /\ 1 \in DOMAIN out /\ i + 1 > 1
      <4>1. i + 1 \in DOMAIN out /\ rest[i] = out[i + 1] /\ i + 1 # 1 /\ i \in Nat
        BY <1>1
      <4> QED BY <1>1, <4>1
    <3>2. \A j \in DOMAIN out : j > 1 => Before(out[1], out[j])
      BY <1>1 DEF Channel, Queued
    <3> QED BY <1>1, <3>1, <3>2
  <2> QED BY <1>1, <2>1 DEF Channel, Queued
<1>3. ASSUME NEW a \in Event, Before(e, a), SoundAt(a, C, E, S, P, V, T)
      PROVE  SoundAt(a, C2, E, S, P, V2, T)
  <2> SUFFICES ASSUME a.thread \in Thread PROVE SoundAt(a, C2, E, S, P, V2, T)
    BY DEF SoundAt
  <2>1. Later(a.cursor, C2[a.thread])
    <3>1. CASE C2[a.thread] = C[a.thread]
      BY <1>3, <3>1 DEF SoundAt
    <3>2. CASE C2[a.thread] # C[a.thread]
      BY <1>3, <3>2 DEF Before, e
    <3> QED BY <3>1, <3>2
  <2>2. ASSUME a.kind = "piece", V2.thread = a.thread,
               NEW i \in DOMAIN a.numbers, NEW j \in DOMAIN V2.text
        PROVE  V2.text[j] < a.numbers[i]
    <3>1. CASE V.thread = a.thread /\ Among(V2.text[j], V.text)
      <4>1. PICK x \in DOMAIN V.text : V.text[x] = V2.text[j]
        BY <3>1 DEF Among
      <4> QED BY <1>3, <2>2, <3>1, <4>1 DEF SoundAt
    <3>2. CASE e.kind = "piece" /\ e.thread = a.thread /\ Among(V2.text[j], e.numbers)
      <4>1. PICK x \in DOMAIN e.numbers : e.numbers[x] = V2.text[j]
        BY <3>2 DEF Among
      <4> QED BY <1>3, <2>2, <3>2, <4>1 DEF Before
    <3>3. \/ V.thread = a.thread /\ Among(V2.text[j], V.text)
          \/ e.kind = "piece" /\ e.thread = a.thread /\ Among(V2.text[j], e.numbers)
      BY <2>2 DEF e
    <3> QED BY <3>1, <3>2, <3>3
  <2> QED BY <1>3, <2>1, <2>2 DEF SoundAt
<1>4. Queued(rest, pend, held, 0)
  <2>1. \A i, j \in DOMAIN rest : i < j => Before(rest[i], rest[j])
    <3> SUFFICES ASSUME NEW i \in DOMAIN rest, NEW j \in DOMAIN rest, i < j
                 PROVE  Before(rest[i], rest[j])
      OBVIOUS
    <3>1. /\ i + 1 \in DOMAIN out /\ rest[i] = out[i + 1] /\ i \in Nat
          /\ j + 1 \in DOMAIN out /\ rest[j] = out[j + 1] /\ j \in Nat
      BY <1>1
    <3>2. i + 1 < j + 1
      BY <3>1
    <3> QED BY <3>1, <3>2 DEF Channel, Queued
  <2>2. \A i \in DOMAIN rest : \E j \in DOMAIN out : rest[i] = out[j]
    BY <1>1
  <2> QED BY <2>1, <2>2 DEF Channel, Queued
<1>5. Channel(rest, pend, held, 0, C2, E, S, P, V2, T)
  <2>1. \A i \in DOMAIN rest : SoundAt(rest[i], C2, E, S, P, V2, T)
    <3> SUFFICES ASSUME NEW i \in DOMAIN rest PROVE SoundAt(rest[i], C2, E, S, P, V2, T)
      OBVIOUS
    <3>1. rest[i] = out[i + 1] /\ i + 1 \in DOMAIN out /\ rest[i] \in Event
      BY <1>1
    <3>2. SoundAt(rest[i], C, E, S, P, V, T)
      BY <3>1 DEF Channel
    <3> QED BY <1>2, <1>3, <3>1, <3>2
  <2>2. pend # NoPending => SoundAt(Carried(pend), C2, E, S, P, V2, T)
    <3>1. Carried(pend) \in Event
      BY CarriedIs DEF Channel
    <3> QED BY <1>2, <1>3, <3>1 DEF Channel
  <2>3. \A j \in DOMAIN held : j > 0 => SoundAt(held[j], C2, E, S, P, V2, T)
    <3>1. \A j \in DOMAIN held : held[j] \in Event
      BY DEF Channel
    <3> QED BY <1>2, <1>3, <3>1 DEF Channel
  <2> QED BY <1>1, <1>4, <2>1, <2>2, <2>3 DEF Channel
<1>6. ASSUME NEW c PROVE Adds(c, e, rest, pend, held, out, pend, held)
  <2>1. ASSUME NEW u, NEW n
        PROVE  DeltaIn(u, c, n, out, pend, held, 0)
                 <=> \/ DeltaIn(u, c, n, rest, pend, held, 0)
                     \/ e.kind = "piece" /\ e.thread = u /\ Later(e.cursor, c) /\ Among(n, e.numbers)
    <3> DEFINE Here(a) == a.kind = "piece" /\ a.thread = u /\ Later(a.cursor, c) /\ Among(n, a.numbers)
    <3>1. (\E i \in DOMAIN out : Here(out[i])) <=> (\E i \in DOMAIN rest : Here(rest[i])) \/ Here(e)
      <4> HIDE DEF Here
      <4>1. ASSUME NEW i \in DOMAIN out, Here(out[i])
            PROVE  (\E j \in DOMAIN rest : Here(rest[j])) \/ Here(e)
        <5>1. i # 1 => i - 1 \in DOMAIN rest /\ rest[i - 1] = out[i]
          BY <1>1
        <5> QED BY <1>1, <4>1, <5>1
      <4>2. ASSUME NEW j \in DOMAIN rest, Here(rest[j]) PROVE \E i \in DOMAIN out : Here(out[i])
        <5>1. j + 1 \in DOMAIN out /\ rest[j] = out[j + 1]
          BY <1>1
        <5> QED BY <4>2, <5>1
      <4> QED BY <1>1, <4>1, <4>2
    <3> QED BY <3>1 DEF DeltaIn
  <2>2. ASSUME NEW u, NEW n
        PROVE  ItemIn(u, c, n, out, held, 0)
                 <=> \/ ItemIn(u, c, n, rest, held, 0)
                     \/ /\ e.kind \in {"fact", "complete"} /\ e.thread = u
                        /\ Later(e.cursor, c) /\ Among(n, e.numbers)
    <3> DEFINE Here(a) == /\ a.kind \in {"fact", "complete"} /\ a.thread = u
                          /\ Later(a.cursor, c) /\ Among(n, a.numbers)
    <3>1. (\E i \in DOMAIN out : Here(out[i])) <=> (\E i \in DOMAIN rest : Here(rest[i])) \/ Here(e)
      <4> HIDE DEF Here
      <4>1. ASSUME NEW i \in DOMAIN out, Here(out[i])
            PROVE  (\E j \in DOMAIN rest : Here(rest[j])) \/ Here(e)
        <5>1. i # 1 => i - 1 \in DOMAIN rest /\ rest[i - 1] = out[i]
          BY <1>1
        <5> QED BY <1>1, <4>1, <5>1
      <4>2. ASSUME NEW j \in DOMAIN rest, Here(rest[j]) PROVE \E i \in DOMAIN out : Here(out[i])
        <5>1. j + 1 \in DOMAIN out /\ rest[j] = out[j + 1]
          BY <1>1
        <5> QED BY <4>2, <5>1
      <4> QED BY <1>1, <4>1, <4>2
    <3> QED BY <3>1 DEF ItemIn
  <2> QED BY <2>1, <2>2 DEF Adds
<1> QED BY <1>5, <1>6 DEF e, rest

\* What is announced or streamed comes after all that is on its way.
LEMMA NewIsLast ==
  ASSUME NEW out, NEW pend, NEW held, NEW C \in [Thread -> Cursor], NEW E \in Nat,
         NEW S \in [Thread -> Nat], NEW P \in [Thread -> Nat], NEW V, NEW T, NEW e \in Event,
         Channel(out, pend, held, 0, C, E, S, P, V, T),
         e.thread \in Thread => e.cursor = <<E, S[e.thread] + 1>>,
         e.kind = "piece" => \A i \in DOMAIN e.numbers : e.numbers[i] = P[e.thread] + 1,
         e.kind \in TurnKinds => T[e.thread] # "over"
  PROVE  /\ ComesAfter(e, out, pend, held)
         /\ e.thread \in Thread =>
              /\ \A i \in DOMAIN out : out[i].thread = e.thread => Later(e.cursor, out[i].cursor)
              /\ pend # NoPending /\ pend.thread = e.thread => Later(e.cursor, pend.cursor)
              /\ \A j \in DOMAIN held : held[j].thread = e.thread => Later(e.cursor, held[j].cursor)
<1>1. ASSUME NEW a \in Event, SoundAt(a, C, E, S, P, V, T)
      PROVE  /\ Before(a, e)
             /\ a.thread = e.thread /\ e.thread \in Thread => Later(e.cursor, a.cursor)
  <2> SUFFICES ASSUME a.thread = e.thread, e.thread \in Thread
               PROVE  Before(a, e) /\ Later(e.cursor, a.cursor)
    BY DEF Before
  <2>1. Later(e.cursor, a.cursor)
    <3>1. /\ ~Later(a.cursor, <<E, S[e.thread]>>) /\ e.cursor = <<E, S[e.thread] + 1>>
          /\ a.cursor \in Cursor /\ S[e.thread] \in Nat
      BY <1>1 DEF SoundAt, Event
    <3>2. a.cursor[1] \in Nat /\ a.cursor[2] \in Nat
      BY <3>1 DEF Cursor
    <3> QED BY <3>1, <3>2 DEF Later
  <2>2. ASSUME a.kind = "piece", e.kind = "piece", NEW i \in DOMAIN a.numbers, NEW j \in DOMAIN e.numbers
        PROVE  a.numbers[i] < e.numbers[j]
    <3>1. a.numbers[i] \in 1 .. P[e.thread] /\ e.numbers[j] = P[e.thread] + 1 /\ P[e.thread] \in Nat
      BY <1>1, <2>2 DEF SoundAt
    <3> QED BY <3>1
  <2>3. ~(a.kind = "complete" /\ e.kind \in TurnKinds)
    BY <1>1 DEF SoundAt
  <2> QED BY <2>1, <2>2, <2>3 DEF Before
<1>2. \A i \in DOMAIN out : out[i] \in Event /\ SoundAt(out[i], C, E, S, P, V, T)
  BY DEF Channel
<1>3. \A i \in DOMAIN held : held[i] \in Event /\ SoundAt(held[i], C, E, S, P, V, T)
  <2>1. held \in Seq(Event) /\ \A i \in DOMAIN held : i > 0 => SoundAt(held[i], C, E, S, P, V, T)
    BY DEF Channel
  <2> QED BY <2>1
<1>4. pend # NoPending => /\ Carried(pend) \in Event /\ SoundAt(Carried(pend), C, E, S, P, V, T)
                          /\ Carried(pend).thread = pend.thread /\ Carried(pend).cursor = pend.cursor
  BY CarriedIs DEF Channel
<1>5. pend # NoPending => /\ Before(Carried(pend), e)
                          /\ (pend.thread = e.thread /\ e.thread \in Thread => Later(e.cursor, pend.cursor))
  BY <1>1, <1>4
<1> QED BY <1>1, <1>2, <1>3, <1>5 DEF ComesAfter

-----------------------------------------------------------------------------
(* The state. *)

AdmissionType == [thread : Thread0, cursor : Cursor, held : Seq(Event),
                  stage : {"none", "meta", "rest"}, submission : Nat, first : BOOLEAN,
                  revision : Nat, previous : Thread0]
OpType == [first : BOOLEAN, thread : Thread0, submission : Nat]
ViewType == [thread : Thread0, loading : BOOLEAN, loaded : BOOLEAN, revision : Nat,
             facts : Seq(Nat), text : Seq(Nat), seam : Nat, turn : BOOLEAN]

LEMMA Types ==
  ASSUME StreamTypeOK
  PROVE  /\ exists \subseteq Thread
         /\ written \in [Thread -> Nat] /\ announced \in [Thread -> Nat] /\ pieces \in [Thread -> Nat]
         /\ turn \in [Thread -> {"none", "live", "over"}]
         /\ epoch \in Nat /\ stops \in Nat /\ sequence \in [Thread -> Nat] /\ subscribed \in Thread0
         /\ admission \in AdmissionType /\ pending \in PendingType
         /\ ops \in Seq(OpType) /\ events \in Seq(Event) /\ open \in BOOLEAN
         /\ cursors \in [Thread -> Cursor]
         /\ expected \in [submission : Nat, thread : Thread0] /\ submissions \in Nat
         /\ view \in ViewType
         /\ NoThread \notin Thread
<1>1. \A n \in Nat : 0 .. n \subseteq Nat /\ 0 .. n + 1 \subseteq Nat
  OBVIOUS
<1>2. /\ written \in [Thread -> Nat] /\ announced \in [Thread -> Nat] /\ pieces \in [Thread -> Nat]
      /\ stops \in Nat /\ submissions \in Nat
  BY <1>1, StreamAssumption DEF StreamTypeOK
<1> QED BY <1>2, StreamAssumption
        DEF StreamTypeOK, AdmissionType, PendingType, OpType, ViewType, Thread0

LEMMA FieldTypes ==
  ASSUME StreamTypeOK
  PROVE  /\ admission.held \in Seq(Event) /\ admission.cursor \in Cursor /\ admission.thread \in Thread0
         /\ admission.submission \in Nat /\ admission.revision \in Nat /\ admission.previous \in Thread0
         /\ pending.cursor \in Cursor /\ pending.thread \in Thread0 /\ pending.pieces \in Seq(Nat)
         /\ view.thread \in Thread0 /\ view.text \in Seq(Nat) /\ view.facts \in Seq(Nat)
         /\ view.revision \in Nat /\ view.seam \in Nat
         /\ view.loaded \in BOOLEAN /\ view.loading \in BOOLEAN
         /\ expected.submission \in Nat /\ expected.thread \in Thread0
BY Types DEF AdmissionType, PendingType, ViewType

LEMMA EventTypes ==
  ASSUME NEW e \in Event
  PROVE  /\ e.cursor \in Cursor /\ e.thread \in Thread0 /\ e.numbers \in Seq(Nat)
         /\ e.submission \in Nat /\ e.kind \in LiveKinds \cup AnswerKinds
         /\ e.snapshot.facts \in Nat /\ e.snapshot.revision \in Int
BY DEF Event, Thread0, LiveKinds, AnswerKinds

LEMMA NoAdmissionIs ==
  /\ NoAdmission \in AdmissionType /\ NoAdmission.held = <<>> /\ NoAdmission.thread = NoThread
  /\ NoAdmission.stage = "none" /\ NoPending \in PendingType /\ NoPending.thread = NoThread
<1>1. NoCursor \in Cursor /\ \A S : <<>> \in Seq(S)
  BY EmptySeq, NextIsLater
<1> QED BY <1>1 DEF NoAdmission, AdmissionType, NoPending, PendingType, Thread0

LEMMA StampedIs ==
  ASSUME NEW kind \in LiveKinds, NEW t \in Thread, NEW c \in Cursor, NEW ns \in Seq(Nat)
  PROVE  LET e == Stamped(kind, t, c, ns) IN
         /\ e \in Event /\ e.kind = kind /\ e.thread = t /\ e.cursor = c /\ e.numbers = ns
         /\ ~HasSnapshot(e)
BY DEF Stamped, Event, LiveKinds, NoSnapshot, HasSnapshot

LEMMA OneNumber ==
  ASSUME NEW k \in Nat
  PROVE  /\ <<k>> \in Seq(Nat) /\ \A n : Among(n, <<k>>) <=> n = k
         /\ \A i \in DOMAIN <<k>> : <<k>>[i] = k
         /\ Rises(<<k>>)
<1>1. DOMAIN <<k>> = {1} /\ <<k>>[1] = k /\ <<k>> \in Seq(Nat)
  OBVIOUS
<1> QED BY <1>1 DEF Among, Rises

\* What comes, seen by what is shown.
LEMMA HearsSame ==
  ASSUME NEW t, NEW c, NEW T, NEW out, NEW pend, NEW held, NEW out2, NEW pend2, NEW held2,
         NEW p \in Nat, Hears(t, c, T, out, pend, held, p),
         \A n \in Nat : DeltaIn(t, c, n, out2, pend2, held2, 0) <=> DeltaIn(t, c, n, out, pend, held, 0)
  PROVE  Hears(t, c, T, out2, pend2, held2, p)
<1>1. \A n \in 1 .. p : n \in Nat
  OBVIOUS
<1> QED BY <1>1 DEF Hears

LEMMA HearsMore ==
  ASSUME NEW t, NEW c, NEW T, NEW out, NEW pend, NEW held, NEW out2, NEW pend2, NEW held2,
         NEW p \in Nat, Hears(t, c, T, out, pend, held, p), NEW p2 \in Nat, p2 = p + 1,
         \A n \in Nat : DeltaIn(t, c, n, out2, pend2, held2, 0)
                          <=> DeltaIn(t, c, n, out, pend, held, 0) \/ n = p2
  PROVE  Hears(t, c, T, out2, pend2, held2, p2)
<1>1. \A n \in 1 .. p2 : n \in Nat /\ (n = p2 \/ n \in 1 .. p) /\ n <= p2
  OBVIOUS
<1>2. \A m \in 1 .. p2 : p2 <= m => m = p2
  BY <1>1
<1> QED BY <1>1, <1>2 DEF Hears

LEMMA KnowsMore ==
  ASSUME NEW t, NEW c, NEW F, NEW out, NEW held, NEW out2, NEW held2,
         NEW a \in Nat, Knows(t, c, F, out, held, a), NEW a2 \in Nat,
         a2 = a \/ (a2 = a + 1 /\ ItemIn(t, c, a2, out2, held2, 0)),
         \A n \in Nat : ItemIn(t, c, n, out, held, 0) => ItemIn(t, c, n, out2, held2, 0)
  PROVE  Knows(t, c, F, out2, held2, a2)
<1>1. \A n \in 1 .. a2 : n \in Nat /\ ((n = a2 /\ a2 # a) \/ n \in 1 .. a)
  OBVIOUS
<1> QED BY <1>1 DEF Knows

LEMMA NoneBeforeStays ==
  ASSUME NEW out, NEW out2, NEW t, NEW K, NEW v, NEW c, NoneBefore(v, c, out),
         Extends(out, out2, t, K),
         \A j \in DOMAIN out2 : j \notin DOMAIN out /\ out2[j].thread = v => Later(out2[j].cursor, c)
  PROVE  NoneBefore(v, c, out2)
BY DEF NoneBefore, Extends

-----------------------------------------------------------------------------
(* An event is broadcast. *)

DataStep(t, kind, ns) ==
  /\ exists' \subseteq exists
  /\ written' \in [Thread -> 0 .. MaxFacts + 1] /\ announced' \in [Thread -> 0 .. MaxFacts + 1]
  /\ pieces' \in [Thread -> 0 .. MaxDeltas] /\ turn' \in [Thread -> {"none", "live", "over"}]
  /\ \A u \in Thread : /\ written[u] <= written'[u] /\ announced'[u] <= written'[u]
                       /\ pieces[u] <= pieces'[u] /\ (turn[u] = "over" => turn'[u] = "over")
                       /\ turn'[u] # "over" => written'[u] <= MaxFacts
                       /\ u # t => pieces'[u] = pieces[u] /\ announced'[u] = announced[u]
  /\ kind \in TurnKinds => t \in exists /\ turn[t] # "over"
  /\ kind = "complete" => turn'[t] = "over"
  /\ IF kind = "piece" THEN pieces'[t] = pieces[t] + 1 /\ ns = <<pieces[t] + 1>>
     ELSE pieces'[t] = pieces[t]
  /\ \/ announced'[t] = announced[t]
     \/ /\ kind \in {"fact", "complete"} /\ announced'[t] = announced[t] + 1
        /\ ns = <<announced[t] + 1>>
Announces(t, kind, ns) ==
  /\ t \in Thread /\ kind \in LiveKinds /\ ns \in Seq(Nat) /\ epoch > 0
  /\ DataStep(t, kind, ns) /\ Broadcast(kind, t, ns)

Announcement(t, kind, ns) == Stamped(kind, t, NextCursor(t), ns)

LEMMA AnnouncementIs ==
  ASSUME StreamInv, NEW t \in Thread, NEW kind \in LiveKinds, NEW ns \in Seq(Nat),
         Announces(t, kind, ns)
  PROVE  LET e == Announcement(t, kind, ns) IN
         /\ e \in Event /\ e.kind = kind /\ e.thread = t /\ e.cursor = <<epoch, sequence[t] + 1>>
         /\ e.numbers = ns /\ ~HasSnapshot(e)
         /\ SoundAt(e, cursors, epoch, sequence', pieces', view, turn')
         /\ ComesAfter(e, events, pending, admission.held)
         /\ \A i \in DOMAIN events : events[i].thread = t => Later(e.cursor, events[i].cursor)
         /\ Later(e.cursor, NoCursor)
         /\ admission.thread = t => Later(e.cursor, admission.cursor)
<1> DEFINE e == Announcement(t, kind, ns)
<1> USE DEF StreamInv
<1>1. /\ epoch \in Nat /\ sequence \in [Thread -> Nat] /\ cursors \in [Thread -> Cursor]
      /\ pieces \in [Thread -> Nat] /\ admission.cursor \in Cursor /\ view.text \in Seq(Nat)
      /\ NoThread \notin Thread
  BY Types, FieldTypes
<1>2. /\ NextCursor(t) = <<epoch, sequence[t] + 1>> /\ NextCursor(t) \in Cursor
      /\ <<epoch, sequence[t]>> \in Cursor /\ NoCursor \in Cursor
      /\ Later(NextCursor(t), <<epoch, sequence[t]>>)
  BY <1>1, NextIsLater DEF NextCursor
<1>3. /\ e \in Event /\ e.kind = kind /\ e.thread = t /\ e.cursor = <<epoch, sequence[t] + 1>>
      /\ e.numbers = ns /\ ~HasSnapshot(e)
  <2>1. NextCursor(t) \in Cursor /\ e = Stamped(kind, t, NextCursor(t), ns)
    BY <1>2 DEF Announcement
  <2> HIDE DEF e, StreamInv
  <2>2. /\ e \in Event /\ e.kind = kind /\ e.thread = t /\ e.cursor = NextCursor(t)
        /\ e.numbers = ns /\ ~HasSnapshot(e)
    BY <2>1, StampedIs
  <2> QED BY <2>2, <1>2
<1>4. sequence' = [sequence EXCEPT ![t] = @ + 1]
  BY DEF Announces, Broadcast
<1>5. cursors[t] \in Cursor /\ ~Later(cursors[t], <<epoch, sequence[t]>>) /\ epoch > 0
  BY <1>1 DEF CountInv, Announces
<1>6. /\ Later(e.cursor, cursors[t]) /\ Later(e.cursor, NoCursor)
  <2>1. Later(e.cursor, cursors[t])
    BY <1>2, <1>3, <1>5, LaterRules DEF LaterRule
  <2>2. ~Later(NoCursor, cursors[t])
    BY <1>5 DEF Cursor, Later, NoCursor
  <2> QED BY <2>1, <2>2, <1>2, <1>3, <1>5, LaterRules DEF LaterRule
<1>7. SoundAt(e, cursors, epoch, sequence', pieces', view, turn')
  <2>1. ~Later(e.cursor, <<epoch, sequence'[t]>>)
    BY <1>1, <1>2, <1>3, <1>4, LaterRules DEF LaterRule
  <2>2. kind = "piece" =>
          /\ \A i \in DOMAIN ns : ns[i] \in 1 .. pieces'[t] /\ ns[i] = pieces[t] + 1
          /\ Rises(ns)
    BY <1>1, OneNumber DEF Announces, DataStep
  <2>3. view.thread = t => \A j \in DOMAIN view.text : view.text[j] \in 1 .. pieces[t]
    BY DEF ViewInv
  <2>4. view.thread = t /\ kind = "piece" =>
          \A i \in DOMAIN ns, j \in DOMAIN view.text : view.text[j] < ns[i]
    <3> SUFFICES ASSUME view.thread = t, kind = "piece", NEW i \in DOMAIN ns, NEW j \in DOMAIN view.text
                 PROVE  view.text[j] < ns[i]
      OBVIOUS
    <3>1. ns[i] = pieces[t] + 1 /\ view.text[j] \in 1 .. pieces[t] /\ pieces[t] \in Nat
      BY <2>2, <2>3, <1>1
    <3> QED BY <3>1
  <2>5. kind = "complete" => turn'[t] = "over"
    BY DEF Announces, DataStep
  <2> QED BY <1>3, <1>6, <2>1, <2>2, <2>4, <2>5 DEF SoundAt
<1>8. /\ ComesAfter(e, events, pending, admission.held)
      /\ \A i \in DOMAIN events : events[i].thread = t => Later(e.cursor, events[i].cursor)
  <2>1. Channel(events, pending, admission.held, 0, cursors, epoch, sequence, pieces, view, turn)
    BY DEF ChannelInv
  <2>2. e.kind = "piece" => \A i \in DOMAIN e.numbers : e.numbers[i] = pieces[e.thread] + 1
    BY <1>1, <1>3, OneNumber DEF Announces, DataStep
  <2>3. e.kind \in TurnKinds => turn[e.thread] # "over"
    BY <1>3 DEF Announces, DataStep
  <2> HIDE DEF e, StreamInv
  <2> QED BY <1>1, <1>3, <2>1, <2>2, <2>3, NewIsLast
<1>9. admission.thread = t => Later(e.cursor, admission.cursor)
  <2> SUFFICES ASSUME admission.thread = t PROVE Later(e.cursor, admission.cursor)
    OBVIOUS
  <2>1. ~Later(admission.cursor, <<epoch, sequence[t]>>)
    BY <1>1, NoAdmissionIs DEF ChannelInv
  <2> QED BY <2>1, <1>1, <1>2, <1>3, LaterRules DEF LaterRule
<1> QED BY <1>3, <1>6, <1>7, <1>8, <1>9 DEF Announcement

KindsOut(kind) == {kind} \cup (IF pending = NoPending THEN {} ELSE {"piece"})
NowAdds(c, e) == Adds(c, e, events, pending, admission.held, events', pending', admission'.held)
NowChannel == Channel(events', pending', admission'.held, 0, cursors, epoch, sequence', pieces', view,
                      turn')
Unheard(t) == subscribed # t /\ UNCHANGED <<events, pending, admission>>
HeldBack(t, e) ==
  /\ subscribed = t /\ admission # NoAdmission /\ UNCHANGED <<events, pending>>
  /\ admission' = [admission EXCEPT !.held = Append(@, e)] /\ admission' # NoAdmission
  /\ \A c : NowAdds(c, e)
SentOut(t, e) ==
  /\ subscribed = t /\ admission = NoAdmission /\ admission' = admission
  /\ \A c \in Cursor : (pending # NoPending => Later(pending.cursor, c)) => NowAdds(c, e)
  /\ Extends(events, events', t, KindsOut(e.kind)) /\ Fits(pending', t, KindsOut(e.kind))

LEMMA BroadcastDoes ==
  ASSUME StreamInv, NEW t \in Thread, NEW kind \in LiveKinds, NEW ns \in Seq(Nat),
         Announces(t, kind, ns)
  PROVE  LET e == Announcement(t, kind, ns) IN
         /\ NowChannel
         /\ Unheard(t) \/ HeldBack(t, e) \/ SentOut(t, e)
<1> DEFINE e == Announcement(t, kind, ns)
<1>1. /\ e \in Event /\ e.kind = kind /\ e.thread = t
      /\ SoundAt(e, cursors, epoch, sequence', pieces', view, turn')
      /\ ComesAfter(e, events, pending, admission.held)
  BY AnnouncementIs
<1>2. /\ epoch \in Nat /\ sequence \in [Thread -> Nat] /\ cursors \in [Thread -> Cursor]
      /\ pieces \in [Thread -> Nat] /\ NoThread \notin Thread /\ admission \in AdmissionType
      /\ admission.held \in Seq(Event)
  BY Types, FieldTypes DEF StreamInv
<1>3. /\ sequence' \in [Thread -> Nat] /\ \A u \in Thread : sequence[u] <= sequence'[u]
  <2>1. sequence' = [sequence EXCEPT ![t] = @ + 1]
    BY DEF Announces, Broadcast
  <2> QED BY <1>2, <2>1
<1>4. pieces' \in [Thread -> Nat]
  <2>1. pieces' \in [Thread -> 0 .. MaxDeltas] /\ 0 .. MaxDeltas \subseteq Nat
    BY StreamAssumption DEF Announces, DataStep
  <2> QED BY <2>1
<1>5. Channel(events, pending, admission.held, 0, cursors, epoch, sequence', pieces', view, turn')
  <2>1. DataGrows(sequence, pieces, turn, sequence', pieces', turn')
    BY <1>3 DEF Announces, DataStep, DataGrows
  <2>2. Channel(events, pending, admission.held, 0, cursors, epoch, sequence, pieces, view, turn)
    BY DEF StreamInv, ChannelInv
  <2> QED BY <1>2, <1>3, <1>4, <2>1, <2>2, LaterData
<1>6. /\ ~open => subscribed = NoThread
      /\ pending # NoPending => pending.thread = subscribed
      /\ admission # NoAdmission => admission.thread = subscribed
      /\ NoAdmission.thread = NoThread /\ NoAdmission.held = <<>>
  BY NoAdmissionIs DEF StreamInv, PortInv
<1> HIDE DEF e
<1>7. CASE subscribed # t
  <2>1. UNCHANGED <<admission, pending, events>>
    BY <1>7 DEF Announces, Broadcast
  <2> QED BY <2>1, <1>5, <1>7 DEF NowChannel, Unheard, e
<1>8. CASE subscribed = t /\ admission # NoAdmission
  <2>1. /\ UNCHANGED <<events, pending>> /\ admission' = [admission EXCEPT !.held = Append(@, e)]
    <3>1. open /\ subscribed = t /\ admission.thread = t
      BY <1>2, <1>6, <1>8
    <3> QED BY <3>1 DEF Announces, Broadcast, Holds, e, Announcement
  <2>2. admission'.held = Append(admission.held, e)
    BY <1>2, <2>1 DEF AdmissionType
  <2>3. /\ Channel(events, pending, Append(admission.held, e), 0, cursors, epoch, sequence', pieces',
                   view, turn')
        /\ \A c : Adds(c, e, events, pending, admission.held, events, pending,
                       Append(admission.held, e))
    BY <1>1, <1>5, HeldKeeps
  <2>4. admission' # NoAdmission
    BY <1>1, <1>2, <1>6, <2>2
  <2>5. NowChannel
    BY <2>1, <2>2, <2>3 DEF NowChannel
  <2>6. \A c : NowAdds(c, e)
    BY <2>1, <2>2, <2>3 DEF NowAdds
  <2> QED BY <2>1, <2>4, <2>5, <2>6, <1>8 DEF HeldBack, e
<1>9. CASE subscribed = t /\ admission = NoAdmission
  <2> DEFINE all == PostTo([out |-> events, pend |-> pending], e)
             K == KindsOut(kind)
  <2>1. events' = all.out /\ pending' = all.pend /\ admission' = admission
    <3>1. open /\ subscribed = t /\ admission.thread # t
      BY <1>2, <1>6, <1>9
    <3> QED BY <3>1 DEF Announces, Broadcast, Holds, e, Announcement, Sends
  <2>2. Channel(events, pending, <<>>, 0, cursors, epoch, sequence', pieces', view, turn')
    BY <1>5, <1>6, <1>9
  <2>3. ComesAfter(e, events, pending, <<>>)
    BY <1>1, <1>6, <1>9
  <2>4. e.kind \in K /\ e.thread \in Thread /\ Fits(pending, e.thread, K)
    BY <1>1, <1>6, <1>9 DEF KindsOut, Fits
  <2>5. /\ Channel(all.out, all.pend, <<>>, 0, cursors, epoch, sequence', pieces', view, turn')
        /\ \A c \in Cursor : (pending # NoPending => Later(pending.cursor, c))
             => Adds(c, e, events, pending, <<>>, all.out, all.pend, <<>>)
        /\ Extends(events, all.out, e.thread, K)
        /\ Fits(all.pend, e.thread, K)
    <3> HIDE DEF K
    <3> QED BY <1>1, <1>2, <1>3, <2>2, <2>3, <2>4, SentKeeps
  <2> HIDE DEF all
  <2>6. NowChannel
    BY <2>1, <2>5, <1>6, <1>9 DEF NowChannel
  <2>7. \A c \in Cursor : (pending # NoPending => Later(pending.cursor, c)) => NowAdds(c, e)
    BY <2>1, <2>5, <1>6, <1>9 DEF NowAdds
  <2> QED BY <1>1, <1>9, <2>1, <2>5, <2>6, <2>7 DEF SentOut, e
<1> QED BY <1>7, <1>8, <1>9 DEF e

\* What an announcement leaves as it is.
SameAdmission ==
  /\ admission'.thread = admission.thread /\ admission'.cursor = admission.cursor
  /\ admission'.submission = admission.submission /\ admission'.stage = admission.stage
  /\ admission'.revision = admission.revision /\ admission'.first = admission.first
  /\ admission'.previous = admission.previous
  /\ (admission' = NoAdmission <=> admission = NoAdmission)

NewEvents(t, K) ==
  /\ \A i \in DOMAIN events : i \in DOMAIN events' /\ events'[i] = events[i]
  /\ \A i \in DOMAIN events' : i \notin DOMAIN events =>
       /\ events'[i].kind \in K /\ events'[i].thread = t /\ subscribed = t
       /\ admission = NoAdmission /\ \A j \in DOMAIN events : j < i

SamePage == UNCHANGED <<subscribed, ops, open, epoch, stops, connected, cursors, expected,
                        submissions, view>>

LEMMA BroadcastFrame ==
  ASSUME StreamInv, NEW t \in Thread, NEW kind \in LiveKinds, NEW ns \in Seq(Nat),
         Announces(t, kind, ns)
  PROVE  /\ SamePage /\ SameAdmission /\ NewEvents(t, KindsOut(kind)) /\ NowChannel
         /\ events' \in Seq(Event) /\ pending' \in PendingType /\ admission' \in AdmissionType
         /\ sequence' = [sequence EXCEPT ![t] = @ + 1] /\ epoch > 0
<1> DEFINE e == Announcement(t, kind, ns)
<1>1. /\ NowChannel
      /\ Unheard(t) \/ HeldBack(t, e) \/ SentOut(t, e)
  BY BroadcastDoes
<1>2. e \in Event /\ e.kind = kind
  BY AnnouncementIs
<1>3. /\ admission \in AdmissionType /\ admission.held \in Seq(Event) /\ events \in Seq(Event)
  BY Types, FieldTypes DEF StreamInv
<1> HIDE DEF e
<1>4. SameAdmission /\ admission' \in AdmissionType
  <2>1. CASE Unheard(t) \/ SentOut(t, e)
    <3>1. admission' = admission
      BY <2>1 DEF Unheard, SentOut
    <3>2. SameAdmission
      BY <3>1 DEF SameAdmission
    <3> QED BY <3>1, <3>2, <1>3
  <2>2. CASE HeldBack(t, e)
    <3>1. /\ admission' = [admission EXCEPT !.held = Append(@, e)]
          /\ admission # NoAdmission /\ admission' # NoAdmission
      BY <2>2 DEF HeldBack
    <3>2. Append(admission.held, e) \in Seq(Event)
      BY <1>2, <1>3
    <3>3. admission' \in AdmissionType
      BY <3>1, <3>2, <1>3 DEF AdmissionType
    <3> QED BY <3>1, <3>3, <1>3 DEF SameAdmission, AdmissionType
  <2> QED BY <1>1, <2>1, <2>2
<1>5. NewEvents(t, KindsOut(kind))
  <2>1. CASE Unheard(t) \/ HeldBack(t, e)
    BY <2>1 DEF Unheard, HeldBack, NewEvents
  <2>2. CASE SentOut(t, e)
    BY <2>2, <1>2 DEF SentOut, NewEvents, Extends
  <2> QED BY <1>1, <2>1, <2>2
<1>6. events' \in Seq(Event) /\ pending' \in PendingType
  BY <1>1 DEF NowChannel, Channel
<1>7. SamePage /\ sequence' = [sequence EXCEPT ![t] = @ + 1] /\ epoch > 0
  <2>1. SamePage
    BY DEF Announces, Broadcast, SamePage
  <2>2. sequence' = [sequence EXCEPT ![t] = @ + 1] /\ epoch > 0
    BY DEF Announces, Broadcast
  <2> QED BY <2>1, <2>2
<1> QED BY <1>1, <1>4, <1>5, <1>6, <1>7

LEMMA BroadcastTypes ==
  ASSUME StreamInv, NEW t \in Thread, NEW kind \in LiveKinds, NEW ns \in Seq(Nat),
         Announces(t, kind, ns)
  PROVE  StreamTypeOK'
<1>1. /\ SamePage /\ events' \in Seq(Event) /\ pending' \in PendingType
      /\ admission' \in AdmissionType /\ sequence' = [sequence EXCEPT ![t] = @ + 1]
  BY BroadcastFrame
<1>2. StreamTypeOK
  BY DEF StreamInv
<1>3. sequence' \in [Thread -> Nat]
  BY <1>1, <1>2, Types
<1>4. /\ exists' \subseteq Thread
      /\ written' \in [Thread -> 0 .. MaxFacts + 1] /\ announced' \in [Thread -> 0 .. MaxFacts + 1]
      /\ pieces' \in [Thread -> 0 .. MaxDeltas] /\ turn' \in [Thread -> {"none", "live", "over"}]
  BY <1>2 DEF Announces, DataStep, StreamTypeOK
<1> QED BY <1>1, <1>2, <1>3, <1>4 DEF StreamTypeOK, SamePage, AdmissionType, PendingType, Thread0

LEMMA BroadcastCounts ==
  ASSUME StreamInv, NEW t \in Thread, NEW kind \in LiveKinds, NEW ns \in Seq(Nat),
         Announces(t, kind, ns)
  PROVE  CountInv' /\ ViewInv' /\ OrderInv'
<1>1. /\ SamePage /\ SameAdmission /\ NewEvents(t, KindsOut(kind))
      /\ sequence' = [sequence EXCEPT ![t] = @ + 1] /\ epoch > 0
  BY BroadcastFrame
<1>2. /\ sequence \in [Thread -> Nat] /\ epoch \in Nat /\ cursors \in [Thread -> Cursor]
      /\ pieces \in [Thread -> Nat] /\ written \in [Thread -> Nat] /\ view \in ViewType
      /\ view.text \in Seq(Nat) /\ view.thread \in Thread0 /\ view.revision \in Nat
  BY Types, FieldTypes DEF StreamInv
<1>3. CountInv'
  <2>1. CountInv
    BY DEF StreamInv
  <2>2. ASSUME NEW u \in Thread PROVE ~Later(cursors[u], <<epoch, sequence'[u]>>)
    <3>1. ~Later(cursors[u], <<epoch, sequence[u]>>)
      BY <1>1, <2>1 DEF CountInv
    <3>2. /\ sequence[u] \in Nat /\ sequence'[u] \in Nat /\ sequence[u] <= sequence'[u]
          /\ cursors[u][1] \in Nat /\ cursors[u][2] \in Nat
      BY <1>1, <1>2 DEF Cursor
    <3> QED BY <3>1, <3>2, <1>2 DEF Later
  <2>3. \A u \in Thread : announced'[u] <= written'[u] /\ (turn'[u] # "over" => written'[u] <= MaxFacts)
    BY DEF Announces, DataStep
  <2> QED BY <1>1, <1>2, <2>1, <2>2, <2>3 DEF CountInv, SamePage
<1>4. ViewInv'
  <2>1. ViewInv /\ view' = view /\ expected' = expected
    BY <1>1 DEF StreamInv, SamePage
  <2>2. \A i \in DOMAIN view.text : view.text[i] \in 1 .. pieces'[view.thread]
    <3> SUFFICES ASSUME NEW i \in DOMAIN view.text
                 PROVE  view.text[i] \in 1 .. pieces'[view.thread]
      OBVIOUS
    <3>1. view.thread \in Thread
      BY <2>1, <1>2 DEF ViewInv, Thread0
    <3>2. /\ view.text[i] \in 1 .. pieces[view.thread] /\ pieces[view.thread] \in Nat
          /\ pieces[view.thread] <= pieces'[view.thread]
      BY <2>1, <3>1, <1>2 DEF ViewInv, Announces, DataStep
    <3>3. pieces'[view.thread] \in 0 .. MaxDeltas
      BY <3>1 DEF Announces, DataStep
    <3> QED BY <3>2, <3>3
  <2>3. view.loaded => view.revision <= written'[view.thread]
    <3> SUFFICES ASSUME view.loaded PROVE view.revision <= written'[view.thread]
      OBVIOUS
    <3>1. view.thread \in Thread
      BY <2>1, <1>2 DEF ViewInv, Thread0
    <3>2. /\ view.revision <= written[view.thread] /\ written[view.thread] \in Nat
          /\ written[view.thread] <= written'[view.thread]
      BY <2>1, <3>1, <1>2 DEF ViewInv, Announces, DataStep
    <3>3. written'[view.thread] \in 0 .. MaxFacts + 1
      BY <3>1 DEF Announces, DataStep
    <3> QED BY <3>2, <3>3, <1>2
  <2> QED BY <2>1, <2>2, <2>3 DEF ViewInv
<1>5. OrderInv'
  <2>1. \A i \in DOMAIN events' : events'[i].kind \in AnswerKinds =>
          i \in DOMAIN events /\ events'[i] = events[i]
    BY <1>1 DEF NewEvents, KindsOut, AnswerKinds, LiveKinds
  <2> QED BY <1>1, <2>1 DEF StreamInv, OrderInv, SamePage, SameAdmission
<1> QED BY <1>3, <1>4, <1>5

LEMMA BroadcastPort ==
  ASSUME StreamInv, NEW t \in Thread, NEW kind \in LiveKinds, NEW ns \in Seq(Nat),
         Announces(t, kind, ns)
  PROVE  PortInv' /\ ChannelInv'
<1> DEFINE e == Announcement(t, kind, ns)
<1>1. /\ SamePage /\ SameAdmission /\ NewEvents(t, KindsOut(kind)) /\ NowChannel
      /\ sequence' = [sequence EXCEPT ![t] = @ + 1] /\ epoch > 0
      /\ events' \in Seq(Event) /\ pending' \in PendingType /\ admission' \in AdmissionType
  BY BroadcastFrame
<1>2. Unheard(t) \/ HeldBack(t, e) \/ SentOut(t, e)
  BY BroadcastDoes
<1>3. /\ e \in Event /\ e.kind = kind /\ e.thread = t
      /\ admission.thread = t => Later(e.cursor, admission.cursor)
  BY AnnouncementIs
<1>4. /\ NoThread \notin Thread /\ admission \in AdmissionType /\ admission.held \in Seq(Event)
      /\ admission.cursor \in Cursor /\ sequence \in [Thread -> Nat] /\ epoch \in Nat
      /\ admission.thread \in Thread0
  BY Types, FieldTypes DEF StreamInv
<1>5. PortInv /\ ChannelInv
  BY DEF StreamInv
<1> HIDE DEF e
<1>6. admission # NoAdmission /\ subscribed = t => admission.thread = t
  BY <1>5 DEF PortInv
<1>7. PortInv'
  <2>1. ~open => subscribed # t
    BY <1>4, <1>5 DEF PortInv
  <2>2. CASE Unheard(t)
    BY <2>2, <1>1, <1>5 DEF Unheard, PortInv, SamePage
  <2>3. CASE HeldBack(t, e)
    <3>1. /\ admission'.held = Append(admission.held, e) /\ UNCHANGED <<events, pending>>
          /\ admission # NoAdmission /\ admission' # NoAdmission /\ subscribed = t
      BY <2>3, <1>4 DEF HeldBack, AdmissionType
    <3>2. \A j \in DOMAIN admission'.held : /\ admission'.held[j].kind \in LiveKinds
                                           /\ admission'.held[j].thread = admission'.thread
                                           /\ Later(admission'.held[j].cursor, admission'.cursor)
      <4> SUFFICES ASSUME NEW j \in DOMAIN admission'.held
                   PROVE  /\ admission'.held[j].kind \in LiveKinds
                          /\ admission'.held[j].thread = admission'.thread
                          /\ Later(admission'.held[j].cursor, admission'.cursor)
        OBVIOUS
      <4>1. \/ j \in DOMAIN admission.held /\ admission'.held[j] = admission.held[j]
            \/ admission'.held[j] = e
        BY <3>1, <1>4
      <4>2. CASE j \in DOMAIN admission.held /\ admission'.held[j] = admission.held[j]
        BY <4>2, <1>1, <1>5 DEF PortInv, SameAdmission
      <4>3. CASE admission'.held[j] = e
        BY <4>3, <1>1, <1>3, <1>6, <3>1 DEF SameAdmission
      <4> QED BY <4>1, <4>2, <4>3
    <3> QED BY <3>1, <3>2, <2>1, <1>1, <1>5 DEF PortInv, SamePage, SameAdmission
  <2>4. CASE SentOut(t, e)
    <3>1. /\ admission = NoAdmission /\ admission' = NoAdmission /\ subscribed = t
          /\ pending' # NoPending => pending'.thread = t
      BY <2>4 DEF SentOut, Fits
    <3>2. DOMAIN admission'.held = {} /\ t # NoThread
      BY <3>1, <1>4, NoAdmissionIs
    <3> QED BY <3>1, <3>2, <2>1, <1>1, <1>5 DEF PortInv, SamePage
  <2> QED BY <1>2, <2>2, <2>3, <2>4
<1>8. ChannelInv'
  <2>1. ASSUME NEW i \in DOMAIN events' PROVE Kinded(events[i])'
    <3>1. CASE i \in DOMAIN events
      <4>1. Kinded(events[i]) /\ events'[i] = events[i] /\ submissions' = submissions
        BY <3>1, <1>1, <1>5 DEF ChannelInv, NewEvents, SamePage
      <4> QED BY <4>1 DEF Kinded
    <3>2. CASE i \notin DOMAIN events
      BY <3>2, <1>1 DEF NewEvents, KindsOut, Kinded, LiveKinds, AnswerKinds
    <3> QED BY <3>1, <3>2
  <2>2. ASSUME admission # NoAdmission
        PROVE  /\ ~Later(admission.cursor, <<epoch, sequence'[admission.thread]>>)
               /\ Later(admission.cursor, cursors[admission.thread])
               /\ \A i \in DOMAIN events' :
                    events'[i].thread = admission.thread => Later(admission.cursor, events'[i].cursor)
    <3>1. admission.thread \in Thread
      BY <2>2, <1>4, <1>5 DEF PortInv, Thread0
    <3>2. ~Later(admission.cursor, <<epoch, sequence[admission.thread]>>)
      BY <2>2, <1>5 DEF ChannelInv
    <3>3. ~Later(admission.cursor, <<epoch, sequence'[admission.thread]>>)
      <4>1. /\ sequence'[admission.thread] \in Nat /\ sequence[admission.thread] \in Nat
            /\ sequence[admission.thread] <= sequence'[admission.thread]
            /\ admission.cursor[1] \in Nat /\ admission.cursor[2] \in Nat
        BY <3>1, <1>1, <1>4 DEF Cursor
      <4> QED BY <4>1, <3>2, <1>4 DEF Later
    <3>4. \A i \in DOMAIN events' : i \in DOMAIN events /\ events'[i] = events[i]
      BY <2>2, <1>1 DEF NewEvents
    <3> QED BY <2>2, <3>3, <3>4, <1>5 DEF ChannelInv
  <2>3. Channel(events', pending', admission'.held, 0, cursors', epoch', sequence', pieces', view',
                turn')
    BY <1>1 DEF NowChannel, SamePage
  <2> QED BY <2>1, <2>2, <2>3, <1>1 DEF ChannelInv, SamePage, SameAdmission
<1> QED BY <1>7, <1>8

LEMMA SilentStays ==
  ASSUME StreamInv, NEW t \in Thread, NEW kind \in LiveKinds, NEW ns \in Seq(Nat),
         Announces(t, kind, ns), NEW v \in Thread,
         Silent(v, events, pending, admission.held),
         v = t => kind \notin TurnKinds \/ subscribed # t
  PROVE  Silent(v, events', pending', admission'.held)
<1> DEFINE e == Announcement(t, kind, ns)
<1>1. Unheard(t) \/ HeldBack(t, e) \/ SentOut(t, e)
  BY BroadcastDoes
<1>2. e \in Event /\ e.kind = kind /\ e.thread = t
  BY AnnouncementIs
<1>3. /\ NoThread \notin Thread /\ admission \in AdmissionType /\ admission.held \in Seq(Event)
      /\ NoPending.thread = NoThread /\ NoAdmission.held = <<>>
      /\ pending # NoPending => pending.thread = subscribed
  BY Types, FieldTypes, NoAdmissionIs DEF StreamInv, PortInv
<1> HIDE DEF e
<1>4. CASE Unheard(t)
  BY <1>4 DEF Unheard
<1>5. CASE HeldBack(t, e)
  <2>1. /\ admission'.held = Append(admission.held, e) /\ UNCHANGED <<events, pending>>
        /\ subscribed = t
    BY <1>3, <1>5 DEF HeldBack, AdmissionType
  <2>2. \A j \in DOMAIN admission'.held :
          \/ j \in DOMAIN admission.held /\ admission'.held[j] = admission.held[j]
          \/ admission'.held[j] = e
    BY <2>1, <1>2, <1>3
  <2> QED BY <2>1, <2>2, <1>2 DEF Silent
<1>6. CASE SentOut(t, e)
  <2>1. /\ subscribed = t /\ admission' = admission /\ Extends(events, events', t, KindsOut(kind))
        /\ Fits(pending', t, KindsOut(kind))
    BY <1>2, <1>6 DEF SentOut
  <2>2. v = t => \A k \in KindsOut(kind) : k \notin TurnKinds
    BY <1>3, <2>1 DEF Silent, KindsOut
  <2>3. pending'.thread # v
    BY <1>3, <2>1, <2>2 DEF Fits, TurnKinds
  <2>4. \A i \in DOMAIN events' : events'[i].thread = v => events'[i].kind \notin TurnKinds
    BY <2>1, <2>2 DEF Silent, Extends
  <2> QED BY <2>1, <2>3, <2>4 DEF Silent
<1> QED BY <1>1, <1>4, <1>5, <1>6

\* What comes to be shown, from the cursor c on.
LEMMA HearsOn ==
  ASSUME StreamInv, NEW t \in Thread, NEW kind \in LiveKinds, NEW ns \in Seq(Nat),
         Announces(t, kind, ns), NEW v \in Thread, subscribed = v, NEW c \in Cursor,
         pending # NoPending => Later(pending.cursor, c),
         v = t => Later(Announcement(t, kind, ns).cursor, c)
  PROVE  /\ \A T : Hears(v, c, T, events, pending, admission.held, pieces[v])
                     => Hears(v, c, T, events', pending', admission'.held, pieces'[v])
         /\ \A F : Knows(v, c, F, events, admission.held, announced[v])
                     => Knows(v, c, F, events', admission'.held, announced'[v])
<1> DEFINE e == Announcement(t, kind, ns)
<1>1. Unheard(t) \/ HeldBack(t, e) \/ SentOut(t, e)
  BY BroadcastDoes
<1>2. e \in Event /\ e.kind = kind /\ e.thread = t /\ e.numbers = ns
  BY AnnouncementIs
<1>3. pieces \in [Thread -> Nat] /\ announced \in [Thread -> Nat]
  BY Types DEF StreamInv
<1>4. DataStep(t, kind, ns)
  BY DEF Announces
<1>5. v = t => Later(e.cursor, c)
  OBVIOUS
<1> HIDE DEF e
<1>6. CASE v # t
  <2>1. Unheard(t)
    BY <1>1, <1>6 DEF HeldBack, SentOut
  <2>2. pieces'[v] = pieces[v] /\ announced'[v] = announced[v]
    BY <1>4, <1>6 DEF DataStep
  <2> QED BY <2>1, <2>2 DEF Unheard
<1>7. CASE v = t
  <2>1. NowAdds(c, e)
    BY <1>1, <1>7 DEF Unheard, HeldBack, SentOut
  <2>2. \A n \in Nat :
          DeltaIn(v, c, n, events', pending', admission'.held, 0)
            <=> \/ DeltaIn(v, c, n, events, pending, admission.held, 0)
                \/ kind = "piece" /\ Among(n, ns)
    BY <2>1, <1>2, <1>5, <1>7 DEF NowAdds, Adds
  <2>3. \A n \in Nat :
          ItemIn(v, c, n, events', admission'.held, 0)
            <=> \/ ItemIn(v, c, n, events, admission.held, 0)
                \/ kind \in {"fact", "complete"} /\ Among(n, ns)
    BY <2>1, <1>2, <1>5, <1>7 DEF NowAdds, Adds
  <2>4. ASSUME NEW T, Hears(v, c, T, events, pending, admission.held, pieces[v])
        PROVE  Hears(v, c, T, events', pending', admission'.held, pieces'[v])
    <3>1. CASE kind = "piece"
      <4>1. pieces'[v] = pieces[v] + 1 /\ ns = <<pieces[v] + 1>> /\ pieces[v] \in Nat
        BY <1>3, <1>4, <1>7, <3>1 DEF DataStep
      <4>2. \A n : Among(n, ns) <=> n = pieces[v] + 1
        BY <4>1, OneNumber
      <4>3. \A n \in Nat :
              DeltaIn(v, c, n, events', pending', admission'.held, 0)
                <=> DeltaIn(v, c, n, events, pending, admission.held, 0) \/ n = pieces'[v]
        BY <2>2, <3>1, <4>1, <4>2
      <4> QED BY <2>4, <4>1, <4>3, HearsMore
    <3>2. CASE kind # "piece"
      <4>1. pieces'[v] = pieces[v] /\ pieces[v] \in Nat
        BY <1>3, <1>4, <1>7, <3>2 DEF DataStep
      <4> QED BY <2>2, <2>4, <3>2, <4>1, HearsSame
    <3> QED BY <3>1, <3>2
  <2>5. ASSUME NEW F, Knows(v, c, F, events, admission.held, announced[v])
        PROVE  Knows(v, c, F, events', admission'.held, announced'[v])
    <3>1. announced[v] \in Nat
      BY <1>3
    <3>2. \A n \in Nat : ItemIn(v, c, n, events, admission.held, 0)
                           => ItemIn(v, c, n, events', admission'.held, 0)
      BY <2>3
    <3>3. /\ announced'[v] \in Nat
          /\ \/ announced'[v] = announced[v]
             \/ /\ announced'[v] = announced[v] + 1
                /\ ItemIn(v, c, announced'[v], events', admission'.held, 0)
      <4>1. CASE announced'[v] = announced[v]
        BY <4>1, <3>1
      <4>2. CASE /\ kind \in {"fact", "complete"} /\ announced'[v] = announced[v] + 1
                 /\ ns = <<announced[v] + 1>>
        <5>1. Among(announced'[v], ns) /\ announced'[v] \in Nat
          BY <4>2, <3>1, OneNumber
        <5> QED BY <5>1, <4>2, <2>3
      <4> QED BY <4>1, <4>2, <1>4, <1>7 DEF DataStep
    <3> QED BY <2>5, <3>1, <3>2, <3>3, KnowsMore
  <2> QED BY <2>4, <2>5
<1> QED BY <1>6, <1>7

LEMMA BroadcastGone ==
  ASSUME StreamInv, NEW t \in Thread, NEW kind \in LiveKinds, NEW ns \in Seq(Nat),
         Announces(t, kind, ns), view.thread \in Thread, Gone
  PROVE  Gone'
<1>1. view' = view /\ exists' \subseteq exists /\ (kind \in TurnKinds => t \in exists)
  BY BroadcastFrame DEF SamePage, Announces, DataStep
<1>2. view.loaded => Silent(view.thread, events', pending', admission'.held)
  <2>1. view.thread = t => kind \notin TurnKinds
    BY <1>1 DEF Gone
  <2> QED BY <2>1, SilentStays DEF Gone
<1> QED BY <1>1, <1>2 DEF Gone

LEMMA BroadcastAsked ==
  ASSUME StreamInv, NEW t \in Thread, NEW kind \in LiveKinds, NEW ns \in Seq(Nat),
         Announces(t, kind, ns)
  PROVE  AskedInv'
<1> DEFINE e == Announcement(t, kind, ns)
           v == view.thread
<1>1. /\ SamePage /\ SameAdmission /\ NewEvents(t, KindsOut(kind)) /\ NowChannel
  BY BroadcastFrame
<1>2. /\ e.thread = t
      /\ \A i \in DOMAIN events : events[i].thread = t => Later(e.cursor, events[i].cursor)
      /\ admission.thread = t => Later(e.cursor, admission.cursor)
  BY AnnouncementIs
<1>3. DataStep(t, kind, ns)
  BY DEF Announces
<1> SUFFICES ASSUME Asking' PROVE (AskedLast /\ AskedQueued /\ AskedRead /\ AskedAnswered /\ AskedSomewhere)'
  BY DEF AskedInv
<1>4. Asking /\ AskedLast /\ AskedQueued /\ AskedRead /\ AskedAnswered /\ AskedSomewhere
  BY <1>1 DEF StreamInv, AskedInv, Asking, SamePage
<1>5. /\ view.thread \in Thread /\ NoThread \notin Thread /\ written \in [Thread -> Nat]
      /\ view.revision \in Nat /\ admission.revision \in Nat /\ admission.cursor \in Cursor
      /\ events \in Seq(Event) /\ pending \in PendingType /\ admission.submission \in Nat
      /\ submissions \in Nat
  BY <1>4, Types, FieldTypes DEF StreamInv, AskedLast, Thread0
<1>6. AskedLast'
  BY <1>1, <1>4 DEF AskedLast, SamePage
<1>7. \A n : n \in Int /\ n <= written[v] => n <= written'[v]
  <2>1. /\ written[v] \in Nat /\ written[v] <= written'[v] /\ written'[v] \in 0 .. MaxFacts + 1
    BY <1>3, <1>5 DEF DataStep
  <2> QED BY <2>1
<1>8. AskedQueued'
  <2> SUFFICES ASSUME NEW i \in DOMAIN ops, ops[i].submission = submissions
               PROVE  /\ ops[i].thread = v
                      /\ view.loaded =>
                           /\ Silent(v, events', pending', admission'.held)
                           /\ turn'[v] = "over"
                              \/ (i = 1 /\ admission' = NoAdmission /\ subscribed # v)
    BY <1>1 DEF AskedQueued, SamePage
  <2>1. /\ ops[i].thread = v
        /\ view.loaded => /\ Silent(v, events, pending, admission.held)
                          /\ turn[v] = "over" \/ (i = 1 /\ admission = NoAdmission /\ subscribed # v)
    BY <1>4 DEF AskedQueued
  <2>2. view.loaded => (v = t => kind \notin TurnKinds \/ subscribed # t)
    BY <2>1, <1>3 DEF DataStep
  <2>3. view.loaded => Silent(v, events', pending', admission'.held)
    BY <2>1, <2>2, <1>5, SilentStays
  <2>4. turn[v] = "over" => turn'[v] = "over"
    BY <1>3, <1>5 DEF DataStep
  <2> QED BY <2>1, <2>3, <2>4, <1>1 DEF SameAdmission
<1>9. AskedRead'
  <2> SUFFICES ASSUME admission # NoAdmission, admission.submission = submissions
               PROVE  /\ admission.thread = v
                      /\ Hears(v, admission.cursor, {}, events', pending', admission'.held, pieces'[v])
                      /\ view.loaded => NoneBefore(v, admission.cursor, events')
                      /\ view.loaded /\ admission.stage = "rest" => view.revision <= admission.revision
                      /\ admission.revision <= written'[v]
    BY <1>1 DEF AskedRead, SamePage, SameAdmission
  <2>1. /\ admission.thread = v
        /\ Hears(v, admission.cursor, {}, events, pending, admission.held, pieces[v])
        /\ view.loaded => NoneBefore(v, admission.cursor, events)
        /\ view.loaded /\ admission.stage = "rest" => view.revision <= admission.revision
        /\ admission.revision <= written[v]
    BY <1>4 DEF AskedRead
  <2>2. subscribed = v /\ pending = NoPending
    BY <2>1 DEF StreamInv, PortInv
  <2>3. Hears(v, admission.cursor, {}, events', pending', admission'.held, pieces'[v])
    BY <2>1, <2>2, <1>2, <1>5, HearsOn
  <2>4. view.loaded => NoneBefore(v, admission.cursor, events')
    BY <2>1, <1>1 DEF NoneBefore, NewEvents
  <2> QED BY <2>1, <2>3, <2>4, <1>5, <1>7
<1>10. AskedAnswered'
  <2> SUFFICES ASSUME NEW i \in DOMAIN events', IsNewest(events[i])' PROVE AnswersWell(events[i])'
    BY DEF AskedAnswered
  <2>1. i \in DOMAIN events /\ events'[i] = events[i] /\ IsNewest(events[i])
    BY <1>1 DEF NewEvents, IsNewest, SamePage, AnswerKinds, LiveKinds, KindsOut
  <2>2. AnswersWell(events[i])
    BY <2>1, <1>4 DEF AskedAnswered
  <2>3. CASE ~HasSnapshot(events[i])
    BY <2>1, <2>2, <2>3, <1>5, BroadcastGone DEF AnswersWell
  <2>4. CASE HasSnapshot(events[i])
    <3> DEFINE b == events[i]
    <3>1. /\ b.thread = v /\ subscribed = v
          /\ Hears(v, b.cursor, {}, events, pending, admission.held, pieces[v])
          /\ Knows(v, b.cursor, 1 .. b.snapshot.facts, events, admission.held, announced[v])
          /\ view.loaded => NoneBefore(v, b.cursor, events) /\ view.revision <= b.snapshot.revision
          /\ b.snapshot.revision <= written[v]
      BY <2>2, <2>4 DEF AnswersWell
    <3>2. b \in Event /\ b.cursor \in Cursor /\ b.snapshot.revision \in Int
      BY <2>1, <1>5, EventTypes
    <3>3. pending # NoPending => Later(pending.cursor, b.cursor)
      <4> SUFFICES ASSUME pending # NoPending PROVE Later(pending.cursor, b.cursor)
        OBVIOUS
      <4>1. pending.thread = v
        BY <3>1 DEF StreamInv, PortInv
      <4>2. Before(b, Carried(pending))
        BY <2>1 DEF StreamInv, ChannelInv, Channel, Queued
      <4>3. Carried(pending).thread = v /\ Carried(pending).cursor = pending.cursor
        BY <4>1, <1>5, CarriedIs
      <4> QED BY <3>1, <4>2, <4>3, <1>5 DEF Before
    <3>4. v = t => Later(e.cursor, b.cursor)
      BY <1>2, <2>1, <3>1
    <3>5. /\ Hears(v, b.cursor, {}, events', pending', admission'.held, pieces'[v])
          /\ Knows(v, b.cursor, 1 .. b.snapshot.facts, events', admission'.held, announced'[v])
      BY <1>5, <3>1, <3>2, <3>3, <3>4, HearsOn
    <3>6. view.loaded => NoneBefore(v, b.cursor, events')
      <4> SUFFICES ASSUME view.loaded, NEW j \in DOMAIN events', events'[j].thread = v,
                          events'[j].kind \in TurnKinds
                   PROVE  Later(events'[j].cursor, b.cursor)
        BY DEF NoneBefore
      <4>1. CASE j \in DOMAIN events
        BY <3>1, <4>1, <1>1 DEF NewEvents, NoneBefore
      <4>2. CASE j \notin DOMAIN events
        <5>1. i < j /\ i \in DOMAIN events'
          BY <2>1, <4>2, <1>1 DEF NewEvents
        <5>2. Before(events'[i], events'[j])
          BY <5>1, <1>1 DEF NowChannel, Channel, Queued
        <5> QED BY <5>2, <2>1, <3>1, <1>5 DEF Before
      <4> QED BY <4>1, <4>2
    <3> QED BY <2>1, <2>4, <3>1, <3>2, <3>5, <3>6, <1>1, <1>7 DEF AnswersWell, SamePage
  <2> QED BY <2>3, <2>4
<1>11. AskedSomewhere'
  <2>1. CASE \E i \in DOMAIN ops : ops[i].submission = submissions
    BY <2>1, <1>1 DEF AskedSomewhere, SamePage
  <2>2. CASE admission # NoAdmission /\ admission.submission = submissions
    BY <2>2, <1>1 DEF AskedSomewhere, SamePage, SameAdmission
  <2>3. CASE \E i \in DOMAIN events : IsNewest(events[i])
    BY <2>3, <1>1 DEF AskedSomewhere, SamePage, NewEvents, IsNewest
  <2>4. CASE Gone
    BY <2>4, <1>5, BroadcastGone DEF AskedSomewhere
  <2> QED BY <1>4, <2>1, <2>2, <2>3, <2>4 DEF AskedSomewhere
<1> QED BY <1>6, <1>8, <1>9, <1>10, <1>11

LEMMA BroadcastHeard ==
  ASSUME StreamInv, NEW t \in Thread, NEW kind \in LiveKinds, NEW ns \in Seq(Nat),
         Announces(t, kind, ns)
  PROVE  HeardInv'
<1> DEFINE v == view.thread
<1>1. SamePage /\ SameAdmission
  BY BroadcastFrame
<1> SUFFICES ASSUME open, expected.submission = 0, view.thread # NoThread
             PROVE  /\ ops = <<>> /\ admission' = NoAdmission /\ subscribed = v /\ view.loaded
                    /\ Hears(v, NoCursor, Streamed, events', pending', admission'.held, pieces'[v])
                    /\ Knows(v, NoCursor, Shown, events', admission'.held, announced'[v])
  BY <1>1 DEF HeardInv, SamePage, Streamed, Shown
<1>2. /\ ops = <<>> /\ admission = NoAdmission /\ subscribed = v /\ view.loaded
      /\ Hears(v, NoCursor, Streamed, events, pending, admission.held, pieces[v])
      /\ Knows(v, NoCursor, Shown, events, admission.held, announced[v])
  BY DEF StreamInv, HeardInv
<1>3. v \in Thread /\ pending \in PendingType /\ cursors \in [Thread -> Cursor] /\ NoCursor \in Cursor
  BY Types, FieldTypes, NextIsLater DEF StreamInv, Thread0
<1>4. Later(Announcement(t, kind, ns).cursor, NoCursor)
  BY AnnouncementIs
<1>5. pending # NoPending => Later(pending.cursor, NoCursor)
  <2> SUFFICES ASSUME pending # NoPending PROVE Later(pending.cursor, NoCursor)
    OBVIOUS
  <2>1. pending.thread = v
    BY <1>2 DEF StreamInv, PortInv
  <2>2. SoundAt(Carried(pending), cursors, epoch, sequence, pieces, view, turn)
    BY DEF StreamInv, ChannelInv, Channel
  <2>3. Later(pending.cursor, cursors[v])
    BY <2>1, <2>2, <1>3, CarriedIs DEF SoundAt
  <2>4. ~Later(NoCursor, cursors[v]) /\ cursors[v] \in Cursor /\ pending.cursor \in Cursor
    BY <1>3 DEF Cursor, Later, NoCursor, PendingType
  <2> QED BY <2>3, <2>4, <1>3, LaterRules DEF LaterRule
<1>6. /\ Hears(v, NoCursor, Streamed, events', pending', admission'.held, pieces'[v])
      /\ Knows(v, NoCursor, Shown, events', admission'.held, announced'[v])
  BY <1>2, <1>3, <1>4, <1>5, HearsOn
<1> QED BY <1>1, <1>2, <1>6 DEF SameAdmission

LEMMA BroadcastKeeps ==
  ASSUME StreamInv, NEW t \in Thread, NEW kind \in LiveKinds, NEW ns \in Seq(Nat),
         Announces(t, kind, ns)
  PROVE  StreamInv'
BY BroadcastTypes, BroadcastCounts, BroadcastPort, BroadcastAsked, BroadcastHeard DEF StreamInv

LEMMA AnnounceKeeps ==
  ASSUME StreamInv, NEW t \in Thread, Announce(t) \/ StreamDelta(t) \/ CompleteTurn(t) \/ DeleteThread(t)
  PROVE  StreamInv'
<1>1. /\ exists \subseteq Thread
      /\ written \in [Thread -> 0 .. MaxFacts + 1] /\ announced \in [Thread -> 0 .. MaxFacts + 1]
      /\ pieces \in [Thread -> 0 .. MaxDeltas] /\ turn \in [Thread -> {"none", "live", "over"}]
      /\ MaxFacts \in Nat /\ MaxDeltas \in Nat
      /\ \A u \in Thread : announced[u] <= written[u] /\ (turn[u] # "over" => written[u] <= MaxFacts)
  BY StreamAssumption DEF StreamInv, StreamTypeOK, CountInv
<1>2. <<announced[t] + 1>> \in Seq(Nat) /\ <<pieces[t] + 1>> \in Seq(Nat) /\ <<>> \in Seq(Nat)
  BY <1>1
<1>3. ASSUME Announce(t) PROVE StreamInv'
  <2>1. DataStep(t, "fact", <<announced[t] + 1>>)
    <3>1. announced' = [announced EXCEPT ![t] = @ + 1] /\ UNCHANGED <<exists, written, pieces, turn>>
          /\ announced[t] < written[t]
      BY <1>3 DEF Announce
    <3>2. announced' \in [Thread -> 0 .. MaxFacts + 1]
      BY <3>1, <1>1
    <3> QED BY <3>1, <3>2, <1>1 DEF DataStep, TurnKinds
  <2>2. Announces(t, "fact", <<announced[t] + 1>>)
    BY <1>2, <1>3, <2>1 DEF Announce, Announces, LiveKinds
  <2>3. "fact" \in LiveKinds
    BY DEF LiveKinds
  <2> QED BY <1>2, <2>2, <2>3, BroadcastKeeps
<1>4. ASSUME StreamDelta(t) PROVE StreamInv'
  <2>1. DataStep(t, "piece", <<pieces[t] + 1>>)
    <3>1. /\ pieces' = [pieces EXCEPT ![t] = @ + 1] /\ UNCHANGED <<exists, written, announced>>
          /\ turn' = [turn EXCEPT ![t] = "live"]
          /\ pieces[t] < MaxDeltas /\ t \in exists /\ turn[t] # "over"
      BY <1>4 DEF StreamDelta
    <3>2. pieces' \in [Thread -> 0 .. MaxDeltas]
      BY <3>1, <1>1
    <3> QED BY <3>1, <3>2, <1>1 DEF DataStep, TurnKinds
  <2>2. Announces(t, "piece", <<pieces[t] + 1>>)
    BY <1>2, <1>4, <2>1 DEF StreamDelta, Announces, LiveKinds
  <2>3. "piece" \in LiveKinds
    BY DEF LiveKinds
  <2> QED BY <1>2, <2>2, <2>3, BroadcastKeeps
<1>5. ASSUME CompleteTurn(t) PROVE StreamInv'
  <2>1. DataStep(t, "complete", <<announced[t] + 1>>)
    <3>1. /\ announced' = [announced EXCEPT ![t] = @ + 1] /\ UNCHANGED <<exists, pieces>>
          /\ written' = [written EXCEPT ![t] = @ + 1]
          /\ turn' = [turn EXCEPT ![t] = "over"]
          /\ announced[t] = written[t] /\ t \in exists /\ turn[t] = "live"
      BY <1>5 DEF CompleteTurn
    <3>2. /\ announced' \in [Thread -> 0 .. MaxFacts + 1] /\ written' \in [Thread -> 0 .. MaxFacts + 1]
      BY <3>1, <1>1
    <3> QED BY <3>1, <3>2, <1>1 DEF DataStep, TurnKinds
  <2>2. Announces(t, "complete", <<announced[t] + 1>>)
    BY <1>2, <1>5, <2>1 DEF CompleteTurn, Announces, LiveKinds
  <2>3. "complete" \in LiveKinds
    BY DEF LiveKinds
  <2> QED BY <1>2, <2>2, <2>3, BroadcastKeeps
<1>6. ASSUME DeleteThread(t) PROVE StreamInv'
  <2>1. DataStep(t, "deleted", <<>>)
    <3>1. UNCHANGED <<written, announced, pieces, turn>> /\ exists' = exists \ {t}
      BY <1>6 DEF DeleteThread
    <3> QED BY <3>1, <1>1 DEF DataStep, TurnKinds
  <2>2. Announces(t, "deleted", <<>>)
    BY <1>2, <1>6, <2>1 DEF DeleteThread, Announces, LiveKinds
  <2>3. "deleted" \in LiveKinds
    BY DEF LiveKinds
  <2> QED BY <1>2, <2>2, <2>3, BroadcastKeeps
<1> QED BY <1>3, <1>4, <1>5, <1>6

LEMMA WriteKeeps ==
  ASSUME StreamInv, NEW t \in Thread, Write(t)
  PROVE  StreamInv'
<1>1. /\ written' = [written EXCEPT ![t] = @ + 1] /\ written[t] < MaxFacts
      /\ UNCHANGED <<exists, announced, pieces, turn, epoch, stops, sequence, subscribed, admission,
                     pending, ops, events, open, page>>
  BY DEF Write
<1>2. /\ written \in [Thread -> 0 .. MaxFacts + 1] /\ announced \in [Thread -> 0 .. MaxFacts + 1]
      /\ MaxFacts \in Nat /\ view.thread \in Thread0 /\ view.revision \in Nat
      /\ admission.revision \in Nat /\ events \in Seq(Event)
  BY StreamAssumption, FieldTypes, Types DEF StreamInv, StreamTypeOK
<1>3. /\ written' \in [Thread -> 0 .. MaxFacts + 1]
      /\ \A u \in Thread : written[u] <= written'[u]
  BY <1>1, <1>2
<1>4. ASSUME view.thread \in Thread
      PROVE  \A n : n \in Int /\ n <= written[view.thread] => n <= written'[view.thread]
  <2>1. /\ written[view.thread] \in 0 .. MaxFacts + 1 /\ written'[view.thread] \in 0 .. MaxFacts + 1
        /\ written[view.thread] <= written'[view.thread]
    BY <1>2, <1>3, <1>4
  <2> QED BY <2>1, <1>2
<1>5. StreamTypeOK'
  <2>1. StreamTypeOK
    BY DEF StreamInv
  <2>2. /\ SamePage /\ UNCHANGED <<exists, announced, pieces, turn, sequence, admission, pending, events>>
    BY <1>1 DEF SamePage
  <2>3. /\ announced' \in [Thread -> 0 .. MaxFacts + 1] /\ pieces' \in [Thread -> 0 .. MaxDeltas]
        /\ turn' \in [Thread -> {"none", "live", "over"}] /\ exists' \subseteq Thread
        /\ sequence' \in [Thread -> Nat] /\ admission' \in AdmissionType /\ events' \in Seq(Event)
        /\ pending' \in PendingType
    BY <2>1, <2>2, Types DEF StreamTypeOK
  <2> QED BY <2>1, <2>2, <2>3, <1>3 DEF SamePage, StreamTypeOK, AdmissionType, PendingType, Thread0
<1>6. PortInv' /\ ChannelInv' /\ OrderInv' /\ HeardInv'
  BY <1>1 DEF StreamInv, PortInv, ChannelInv, Kinded, OrderInv, HeardInv, Streamed, Shown
<1>7. CountInv'
  BY <1>1, <1>2, <1>3 DEF StreamInv, CountInv
<1>8. ViewInv'
  <2>1. view.loaded => view.revision <= written'[view.thread]
    BY <1>2, <1>4 DEF StreamInv, ViewInv, Thread0
  <2> QED BY <2>1, <1>1 DEF StreamInv, ViewInv
<1>9. AskedInv'
  <2> SUFFICES ASSUME Asking PROVE (AskedLast /\ AskedQueued /\ AskedRead /\ AskedAnswered /\ AskedSomewhere)'
    BY <1>1 DEF AskedInv, Asking
  <2>1. AskedLast /\ AskedQueued /\ AskedRead /\ AskedAnswered /\ AskedSomewhere
    BY DEF StreamInv, AskedInv
  <2>2. view.thread \in Thread
    BY <2>1, <1>2 DEF AskedLast, Thread0
  <2>3. (AskedLast /\ AskedQueued /\ AskedSomewhere)'
    BY <1>1, <2>1 DEF AskedLast, AskedQueued, AskedSomewhere, IsNewest, Gone
  <2>4. AskedRead'
    BY <1>1, <1>2, <1>4, <2>1, <2>2 DEF AskedRead
  <2>5. ASSUME NEW i \in DOMAIN events, IsNewest(events[i])
        PROVE  AnswersWell(events[i])'
    <3>1. AnswersWell(events[i]) /\ events[i].snapshot.revision \in Int
      BY <1>2, <2>1, <2>5, EventTypes DEF AskedAnswered
    <3> QED BY <1>1, <1>4, <2>2, <3>1 DEF AnswersWell, Gone
  <2>6. AskedAnswered'
    BY <1>1, <2>5 DEF AskedAnswered, IsNewest
  <2> QED BY <2>3, <2>4, <2>6
<1> QED BY <1>5, <1>6, <1>7, <1>8, <1>9 DEF StreamInv

-----------------------------------------------------------------------------
(* The host's other steps. *)

\* What has been joined goes out: as FlushTimer has it, and before a snapshot is read.
LEMMA FlushedIs ==
  ASSUME StreamInv
  PROVE  /\ Channel(Flushed, NoPending, admission.held, 0, cursors, epoch, sequence, pieces, view, turn)
         /\ \A c : SameIn(c, events, pending, admission.held, 0, Flushed, NoPending, 0)
         /\ Extends(events, Flushed, pending.thread, {"piece"})
         /\ Flushed \in Seq(Event)
         /\ \A i, j \in DOMAIN Flushed : i < j => Before(Flushed[i], Flushed[j])
<1>1. Channel(events, pending, admission.held, 0, cursors, epoch, sequence, pieces, view, turn)
  BY DEF StreamInv, ChannelInv
<1>2. CASE pending = NoPending
  <2>1. Flushed = events
    BY <1>2 DEF Flushed
  <2> QED BY <1>1, <1>2, <2>1 DEF SameIn, Extends, Channel, Queued
<1>3. CASE pending # NoPending
  <2>1. Flushed = Append(events, Carried(pending))
    BY <1>3 DEF Flushed, Carried
  <2>2. /\ Channel(Flushed, NoPending, admission.held, 0, cursors, epoch, sequence, pieces, view, turn)
        /\ \A c : SameIn(c, events, pending, admission.held, 0, Flushed, NoPending, 0)
        /\ Extends(events, Flushed, pending.thread, {"piece"})
    BY <1>1, <1>3, <2>1, FlushKeeps
  <2> QED BY <2>2 DEF Channel, Queued
<1> QED BY <1>2, <1>3

LEMMA FlushTimerKeeps ==
  ASSUME StreamInv, FlushTimer
  PROVE  StreamInv'
<1> DEFINE v == view.thread
           t == pending.thread
<1>1. /\ pending # NoPending /\ events' = Flushed /\ pending' = NoPending
      /\ UNCHANGED <<exists, written, announced, pieces, turn, sequence, admission>> /\ SamePage
  BY DEF FlushTimer, SamePage
<1>2. /\ Channel(events', pending', admission.held, 0, cursors, epoch, sequence, pieces, view, turn)
      /\ \A c : SameIn(c, events, pending, admission.held, 0, events', pending', 0)
      /\ Extends(events, events', t, {"piece"})
      /\ events' \in Seq(Event)
      /\ \A i, j \in DOMAIN events' : i < j => Before(events'[i], events'[j])
  BY <1>1, FlushedIs
<1>3. /\ open /\ epoch > 0 /\ admission = NoAdmission /\ t = subscribed /\ t \in Thread
  <2>1. PortInv /\ pending \in PendingType
    BY Types DEF StreamInv
  <2> QED BY <1>1, <2>1 DEF PortInv, PendingType, Thread0, FlushTimer
<1>4. /\ \A i \in DOMAIN events : i \in DOMAIN events' /\ events'[i] = events[i]
      /\ \A i \in DOMAIN events' : i \notin DOMAIN events =>
           events'[i].kind = "piece" /\ events'[i].thread = t /\ \A j \in DOMAIN events : j < i
  BY <1>2 DEF Extends
<1>5. StreamTypeOK'
  <2>1. StreamTypeOK
    BY DEF StreamInv
  <2>3. /\ announced' \in [Thread -> 0 .. MaxFacts + 1] /\ written' \in [Thread -> 0 .. MaxFacts + 1]
        /\ pieces' \in [Thread -> 0 .. MaxDeltas]
        /\ turn' \in [Thread -> {"none", "live", "over"}] /\ exists' \subseteq Thread
        /\ sequence' \in [Thread -> Nat] /\ admission' \in AdmissionType
        /\ pending' \in PendingType
    BY <1>1, <2>1, Types, NoAdmissionIs DEF StreamTypeOK
  <2> QED BY <2>1, <1>1, <2>3, <1>2 DEF SamePage, StreamTypeOK, AdmissionType, PendingType, Thread0
<1>6. PortInv'
  BY <1>1, <1>3 DEF StreamInv, PortInv, SamePage
<1>7. CountInv' /\ ViewInv'
  BY <1>1 DEF StreamInv, CountInv, ViewInv, SamePage
<1>8. ChannelInv'
  <2>1. ASSUME NEW i \in DOMAIN events' PROVE Kinded(events[i])'
    <3>1. CASE i \in DOMAIN events
      <4>1. Kinded(events[i]) /\ events'[i] = events[i] /\ submissions' = submissions
        BY <3>1, <1>1, <1>4 DEF StreamInv, ChannelInv, SamePage
      <4> QED BY <4>1 DEF Kinded
    <3>2. CASE i \notin DOMAIN events
      BY <3>2, <1>3, <1>4 DEF Kinded, LiveKinds, AnswerKinds
    <3> QED BY <3>1, <3>2
  <2> QED BY <2>1, <1>1, <1>2, <1>3 DEF ChannelInv, SamePage
<1>9. OrderInv'
  <2>1. \A i \in DOMAIN events' : events'[i].kind \in AnswerKinds =>
          i \in DOMAIN events /\ events'[i] = events[i]
    BY <1>4 DEF AnswerKinds
  <2> QED BY <1>1, <2>1 DEF StreamInv, OrderInv, SamePage
<1>10. ASSUME NEW u \in Thread, Silent(u, events, pending, admission.held)
       PROVE  Silent(u, events', pending', admission'.held)
  <2>1. t # u /\ pending'.thread # u
    BY <1>1, <1>10, NoAdmissionIs, StreamAssumption DEF Silent
  <2> QED BY <1>1, <1>4, <1>10, <2>1 DEF Silent
<1>11. \A c, T, F : \A u \in Thread :
         /\ Hears(u, c, T, events, pending, admission.held, pieces[u])
              => Hears(u, c, T, events', pending', admission'.held, pieces'[u])
         /\ Knows(u, c, F, events, admission.held, announced[u])
              => Knows(u, c, F, events', admission'.held, announced'[u])
  <2> SUFFICES ASSUME NEW c, NEW T, NEW F, NEW u \in Thread
               PROVE  /\ Hears(u, c, T, events, pending, admission.held, pieces[u])
                           => Hears(u, c, T, events', pending', admission.held, pieces[u])
                      /\ Knows(u, c, F, events, admission.held, announced[u])
                           => Knows(u, c, F, events', admission.held, announced[u])
    BY <1>1
  <2>1. pieces[u] \in Nat /\ announced[u] \in Nat
    BY Types DEF StreamInv
  <2>2. \A n \in Nat :
          /\ DeltaIn(u, c, n, events', pending', admission.held, 0)
               <=> DeltaIn(u, c, n, events, pending, admission.held, 0)
          /\ ItemIn(u, c, n, events', admission.held, 0) <=> ItemIn(u, c, n, events, admission.held, 0)
    BY <1>2 DEF SameIn
  <2>3. \A n \in 1 .. announced[u] : n \in Nat
    OBVIOUS
  <2> QED BY <2>1, <2>2, <2>3, HearsSame DEF Knows
<1>12. view.thread \in Thread /\ Gone => Gone'
  BY <1>1, <1>10 DEF Gone, SamePage
<1>13. AskedInv'
  <2> SUFFICES ASSUME Asking' PROVE (AskedLast /\ AskedQueued /\ AskedRead /\ AskedAnswered /\ AskedSomewhere)'
    BY DEF AskedInv
  <2>1. Asking /\ AskedLast /\ AskedQueued /\ AskedRead /\ AskedAnswered /\ AskedSomewhere
    BY <1>1 DEF StreamInv, AskedInv, Asking, SamePage
  <2>2. view.thread \in Thread /\ events \in Seq(Event)
    BY <2>1, Types, FieldTypes DEF StreamInv, AskedLast, Thread0
  <2>3. AskedLast' /\ AskedRead'
    BY <1>1, <1>3, <2>1 DEF AskedLast, AskedRead, SamePage
  <2>4. AskedQueued'
    BY <1>1, <1>10, <2>1, <2>2 DEF AskedQueued, SamePage
  <2>5. ASSUME NEW i \in DOMAIN events', IsNewest(events[i])' PROVE AnswersWell(events[i])'
    <3>1. i \in DOMAIN events /\ events'[i] = events[i] /\ IsNewest(events[i])
      BY <1>1, <1>4, <2>5 DEF IsNewest, SamePage, AnswerKinds
    <3>2. AnswersWell(events[i])
      BY <2>1, <3>1 DEF AskedAnswered
    <3>3. CASE ~HasSnapshot(events[i])
      BY <1>12, <2>2, <3>1, <3>2, <3>3 DEF AnswersWell
    <3>4. CASE HasSnapshot(events[i])
      <4>1. view.loaded => NoneBefore(v, events[i].cursor, events')
        <5> SUFFICES ASSUME view.loaded, NEW j \in DOMAIN events', events'[j].thread = v,
                            events'[j].kind \in TurnKinds
                     PROVE  Later(events'[j].cursor, events[i].cursor)
          BY DEF NoneBefore
        <5>1. CASE j \in DOMAIN events
          BY <3>2, <3>4, <5>1, <1>4 DEF NoneBefore, AnswersWell
        <5>2. CASE j \notin DOMAIN events
          <6>1. i < j /\ i \in DOMAIN events' /\ events'[i].thread = v
            BY <3>1, <3>2, <3>4, <5>2, <1>4 DEF AnswersWell
          <6>2. Before(events'[i], events'[j])
            BY <6>1, <1>2
          <6> QED BY <6>1, <6>2, <3>1, <2>2 DEF Before
        <5> QED BY <5>1, <5>2
      <4> QED BY <1>1, <1>11, <2>2, <3>1, <3>2, <3>4, <4>1 DEF AnswersWell, SamePage
    <3> QED BY <3>3, <3>4
  <2>6. AskedAnswered'
    BY <2>5 DEF AskedAnswered
  <2>7. AskedSomewhere'
    BY <1>1, <1>4, <1>12, <2>1, <2>2 DEF AskedSomewhere, IsNewest, SamePage
  <2> QED BY <2>3, <2>4, <2>6, <2>7
<1>14. HeardInv'
  <2> SUFFICES ASSUME open, expected.submission = 0, view.thread # NoThread PROVE HeardInv'
    BY <1>1 DEF HeardInv, SamePage
  <2>1. v \in Thread
    BY FieldTypes DEF StreamInv, Thread0
  <2> QED BY <1>1, <1>11, <2>1 DEF StreamInv, HeardInv, SamePage, Streamed, Shown
<1> QED BY <1>5, <1>6, <1>7, <1>8, <1>9, <1>13, <1>14 DEF StreamInv

LEMMA QueueTail ==
  ASSUME NEW S, NEW s \in Seq(S), s # <<>>
  PROVE  /\ Head(s) = s[1] /\ 1 \in DOMAIN s /\ s[1] \in S /\ Tail(s) \in Seq(S)
         /\ \A i \in DOMAIN Tail(s) : /\ i + 1 \in DOMAIN s /\ Tail(s)[i] = s[i + 1] /\ i + 1 # 1
                                      /\ i \in Nat /\ i > 0
         /\ \A i \in DOMAIN s : i = 1 \/ (i - 1 \in DOMAIN Tail(s) /\ Tail(s)[i - 1] = s[i])
OBVIOUS

LEMMA InitializeOnlyKeeps ==
  ASSUME StreamInv, InitializeOnly
  PROVE  StreamInv'
<1> DEFINE v == view.thread
           e == [Stamped("initialized", NoThread, NoCursor, <<>>)
                   EXCEPT !.submission = Head(ops).submission]
           l == Len(events) + 1
<1>1. /\ ops # <<>> /\ admission = NoAdmission /\ Head(ops).thread = NoThread /\ open /\ epoch > 0
      /\ ops' = Tail(ops) /\ events' = Append(events, e)
      /\ UNCHANGED <<exists, written, announced, pieces, turn, epoch, stops, sequence, subscribed,
                     admission, pending, open, connected, cursors, expected, submissions, view>>
  BY DEF InitializeOnly
<1>2. /\ ops \in Seq(OpType) /\ events \in Seq(Event) /\ admission.held = <<>> /\ NoThread \notin Thread
      /\ NoCursor \in Cursor /\ <<>> \in Seq(Nat) /\ submissions \in Nat /\ view.thread \in Thread0
  <2>1. NoCursor \in Cursor /\ <<>> \in Seq(Nat)
    BY DEF NoCursor, Cursor
  <2> QED BY <2>1, <1>1, Types, FieldTypes, NoAdmissionIs DEF StreamInv
<1>3. /\ Head(ops) = ops[1] /\ 1 \in DOMAIN ops /\ ops[1] \in OpType /\ ops' \in Seq(OpType)
      /\ \A i \in DOMAIN ops' : i + 1 \in DOMAIN ops /\ ops'[i] = ops[i + 1] /\ i + 1 # 1
                                /\ i \in Nat /\ i > 0
      /\ \A i \in DOMAIN ops : i = 1 \/ (i - 1 \in DOMAIN ops' /\ ops'[i - 1] = ops[i])
  <2> HIDE DEF e
  <2> QED BY <1>1, <1>2, QueueTail
<1>4. /\ e \in Event /\ e.kind = "initialized" /\ e.thread = NoThread
      /\ e.submission = ops[1].submission /\ ~HasSnapshot(e)
  <2>1. e = [kind |-> "initialized", thread |-> NoThread, cursor |-> NoCursor, numbers |-> <<>>,
             submission |-> ops[1].submission, snapshot |-> NoSnapshot]
    BY <1>3 DEF Stamped
  <2>2. ops[1].submission \in Nat /\ NoSnapshot \in [revision : Int, facts : Nat, turn : BOOLEAN]
    BY <1>3 DEF OpType, NoSnapshot
  <2> HIDE DEF e
  <2> QED BY <1>2, <2>1, <2>2 DEF Event, HasSnapshot
<1> HIDE DEF e
<1>5. /\ \A i \in DOMAIN events : i \in DOMAIN events' /\ events'[i] = events[i] /\ i < l
      /\ \A i \in DOMAIN events' : i \in DOMAIN events \/ (i = l /\ events'[i] = e)
      /\ l \notin DOMAIN events /\ l \in DOMAIN events' /\ events' \in Seq(Event)
  BY <1>1, <1>2, <1>4
<1>6. /\ Channel(events', pending, admission.held, 0, cursors, epoch, sequence, pieces, view, turn)
      /\ \A c : SameIn(c, events, pending, admission.held, 0, events', pending, 0)
  <2>1. Channel(events, pending, admission.held, 0, cursors, epoch, sequence, pieces, view, turn)
    BY DEF StreamInv, ChannelInv
  <2>2. SoundAt(e, cursors, epoch, sequence, pieces, view, turn)
    BY <1>2, <1>4 DEF SoundAt
  <2>3. /\ \A i \in DOMAIN events : Before(events[i], e)
        /\ pending # NoPending => Before(e, Carried(pending))
        /\ \A j \in DOMAIN admission.held : Before(e, admission.held[j])
    BY <1>2, <1>4 DEF Before
  <2>4. e.kind \in AnswerKinds \cup {"deleted"}
    BY <1>4 DEF AnswerKinds
  <2>5. /\ Channel(Append(events, e), pending, admission.held, 0, cursors, epoch, sequence, pieces,
                   view, turn)
        /\ \A c : SameIn(c, events, pending, admission.held, 0, Append(events, e), pending, 0)
    BY <1>4, <2>1, <2>2, <2>3, <2>4, AnswerKeeps
  <2> QED BY <1>1, <2>5
<1>7. StreamTypeOK'
  <2>1. StreamTypeOK
    BY DEF StreamInv
  <2>2. admission' \in AdmissionType /\ pending' \in PendingType /\ ops' \in Seq(OpType)
    BY <1>1, <1>3, Types DEF StreamInv
  <2> QED BY <2>1, <2>2, <1>1, <1>5 DEF StreamTypeOK, AdmissionType, PendingType, OpType, Thread0
<1>8. PortInv' /\ CountInv' /\ ViewInv'
  BY <1>1 DEF StreamInv, PortInv, CountInv, ViewInv
<1>9. ops[1].submission \in 1 .. submissions
  BY <1>3 DEF StreamInv, OrderInv
<1>10. ChannelInv'
  <2>1. ASSUME NEW i \in DOMAIN events' PROVE Kinded(events[i])'
    <3>1. CASE i \in DOMAIN events
      <4>1. Kinded(events[i]) /\ events'[i] = events[i] /\ submissions' = submissions
        BY <3>1, <1>1, <1>5 DEF StreamInv, ChannelInv
      <4> QED BY <4>1 DEF Kinded
    <3>2. CASE i \notin DOMAIN events
      BY <3>2, <1>1, <1>2, <1>4, <1>5, <1>9 DEF Kinded, LiveKinds, AnswerKinds
    <3> QED BY <3>1, <3>2
  <2> QED BY <2>1, <1>1, <1>6 DEF ChannelInv
<1>11. OrderInv'
  <2>1. OrderInv
    BY DEF StreamInv
  <2>2. \A i \in DOMAIN ops' : /\ ops'[i].submission \in 1 .. submissions
                              /\ ops[1].submission < ops'[i].submission
    <3>1. \A i \in DOMAIN ops' : i + 1 \in DOMAIN ops /\ 1 < i + 1
      BY <1>3
    <3> QED BY <1>3, <2>1, <3>1 DEF OrderInv
  <2>3. \A i, j \in DOMAIN ops' : i < j => ops'[i].submission < ops'[j].submission
    <3>1. \A i, j \in DOMAIN ops' : i < j => i + 1 < j + 1
      BY <1>3
    <3> QED BY <1>3, <2>1, <3>1 DEF OrderInv
  <2>4. \A i \in DOMAIN events' : events'[i].kind \in AnswerKinds =>
          \A j \in DOMAIN ops' : events'[i].submission < ops'[j].submission
    BY <1>3, <1>4, <1>5, <2>1, <2>2 DEF OrderInv
  <2>5. \A i, j \in DOMAIN events' :
          i < j /\ events'[i].kind \in AnswerKinds /\ events'[j].kind \in AnswerKinds
            => events'[i].submission < events'[j].submission
    <3> SUFFICES ASSUME NEW i \in DOMAIN events', NEW j \in DOMAIN events', i < j,
                        events'[i].kind \in AnswerKinds, events'[j].kind \in AnswerKinds
                 PROVE  events'[i].submission < events'[j].submission
      OBVIOUS
    <3>1. i \in DOMAIN events
      <4>1. i = l => j \in DOMAIN events \/ j = l
        BY <1>5
      <4>2. l \in Nat /\ \A k \in DOMAIN events : k \in Nat /\ k < l
        BY <1>2
      <4> QED BY <1>5, <4>1, <4>2
    <3>2. CASE j \in DOMAIN events
      BY <1>5, <2>1, <3>1, <3>2 DEF OrderInv
    <3>3. CASE j = l
      BY <1>3, <1>4, <1>5, <2>1, <3>1, <3>3 DEF OrderInv
    <3> QED BY <1>5, <3>2, <3>3
  <2> QED BY <1>1, <2>2, <2>3, <2>4, <2>5 DEF OrderInv
<1>12. ASSUME NEW u \in Thread
       PROVE  /\ Silent(u, events, pending, admission.held) => Silent(u, events', pending, admission.held)
              /\ \A c : NoneBefore(u, c, events) => NoneBefore(u, c, events')
              /\ \A c, T : Hears(u, c, T, events, pending, admission.held, pieces[u])
                             => Hears(u, c, T, events', pending, admission.held, pieces[u])
              /\ \A c, F : Knows(u, c, F, events, admission.held, announced[u])
                             => Knows(u, c, F, events', admission.held, announced[u])
  <2>1. e.thread # u
    BY <1>2, <1>4
  <2>2. pieces[u] \in Nat /\ announced[u] \in Nat
    BY Types DEF StreamInv
  <2>3. \A c : \A n \in Nat :
          /\ DeltaIn(u, c, n, events', pending, admission.held, 0)
               <=> DeltaIn(u, c, n, events, pending, admission.held, 0)
          /\ ItemIn(u, c, n, events', admission.held, 0) <=> ItemIn(u, c, n, events, admission.held, 0)
    BY <1>6 DEF SameIn
  <2>4. \A n \in 1 .. announced[u] : n \in Nat
    OBVIOUS
  <2>5. Silent(u, events, pending, admission.held) => Silent(u, events', pending, admission.held)
    BY <1>5, <2>1 DEF Silent
  <2>6. \A c : NoneBefore(u, c, events) => NoneBefore(u, c, events')
    BY <1>5, <2>1 DEF NoneBefore
  <2>7. \A c, T : Hears(u, c, T, events, pending, admission.held, pieces[u])
                    => Hears(u, c, T, events', pending, admission.held, pieces[u])
    BY <2>2, <2>3, HearsSame
  <2>8. \A c, F : Knows(u, c, F, events, admission.held, announced[u])
                    => Knows(u, c, F, events', admission.held, announced[u])
    BY <2>3, <2>4 DEF Knows
  <2> QED BY <2>5, <2>6, <2>7, <2>8
<1>13. AskedInv'
  <2> SUFFICES ASSUME Asking' PROVE (AskedLast /\ AskedQueued /\ AskedRead /\ AskedAnswered /\ AskedSomewhere)'
    BY DEF AskedInv
  <2>1. Asking /\ AskedLast /\ AskedQueued /\ AskedRead /\ AskedAnswered /\ AskedSomewhere
    BY <1>1 DEF StreamInv, AskedInv, Asking
  <2>2. view.thread \in Thread
    BY <2>1, <1>2 DEF AskedLast, Thread0
  <2>3. ops[1].submission # submissions
    BY <1>1, <1>2, <1>3, <2>1, <2>2 DEF AskedQueued
  <2>4. AskedLast' /\ AskedRead'
    BY <1>1, <2>1 DEF AskedLast, AskedRead
  <2>5. AskedQueued'
    <3> SUFFICES ASSUME NEW i \in DOMAIN ops', ops'[i].submission = submissions
                 PROVE  /\ ops'[i].thread = v
                        /\ view.loaded => Silent(v, events', pending, admission.held) /\ turn[v] = "over"
      BY <1>1 DEF AskedQueued
    <3>1. i + 1 \in DOMAIN ops /\ ops'[i] = ops[i + 1] /\ i + 1 # 1
      BY <1>3
    <3>2. /\ ops[i + 1].thread = v
          /\ view.loaded => Silent(v, events, pending, admission.held) /\ turn[v] = "over"
      BY <2>1, <3>1 DEF AskedQueued
    <3> QED BY <1>12, <2>2, <3>1, <3>2
  <2>6. ASSUME NEW i \in DOMAIN events', IsNewest(events[i])' PROVE AnswersWell(events[i])'
    <3>1. i \in DOMAIN events /\ events'[i] = events[i] /\ IsNewest(events[i])
      BY <1>1, <1>4, <1>5, <2>3, <2>6 DEF IsNewest
    <3>2. AnswersWell(events[i])
      BY <2>1, <3>1 DEF AskedAnswered
    <3> QED BY <1>1, <1>12, <2>2, <3>1, <3>2 DEF AnswersWell, Gone
  <2>7. AskedAnswered'
    BY <2>6 DEF AskedAnswered
  <2>8. AskedSomewhere'
    <3>1. CASE \E i \in DOMAIN ops : ops[i].submission = submissions
      <4>1. PICK i \in DOMAIN ops : ops[i].submission = submissions
        BY <3>1
      <4>2. i - 1 \in DOMAIN ops' /\ ops'[i - 1] = ops[i]
        BY <1>3, <2>3, <4>1
      <4> QED BY <1>1, <4>1, <4>2 DEF AskedSomewhere
    <3>2. CASE \E i \in DOMAIN events : IsNewest(events[i])
      BY <1>1, <1>5, <3>2 DEF AskedSomewhere, IsNewest
    <3>3. CASE Gone
      BY <1>1, <1>12, <2>2, <3>3 DEF AskedSomewhere, Gone
    <3> QED BY <1>1, <2>1, <3>1, <3>2, <3>3 DEF AskedSomewhere
  <2> QED BY <2>4, <2>5, <2>7, <2>8
<1>14. HeardInv'
  BY <1>1 DEF StreamInv, HeardInv
<1> QED BY <1>7, <1>8, <1>10, <1>11, <1>13, <1>14 DEF StreamInv

LEMMA SilentFlushed ==
  ASSUME StreamInv, NEW u \in Thread, Silent(u, events, pending, admission.held)
  PROVE  \A i \in DOMAIN Flushed : Flushed[i].thread = u => Flushed[i].kind \notin TurnKinds
<1>1. Extends(events, Flushed, pending.thread, {"piece"}) /\ pending.thread # u
  BY FlushedIs DEF Silent
<1> QED BY <1>1 DEF Silent, Extends

LEMMA BeginAdmissionKeeps ==
  ASSUME StreamInv, BeginAdmission
  PROVE  StreamInv'
<1> DEFINE v == view.thread
           t == Head(ops).thread
           c == NextCursor(t)
<1>1. /\ ops # <<>> /\ admission = NoAdmission /\ t # NoThread /\ open /\ epoch > 0
      /\ ops' = Tail(ops) /\ events' = Flushed /\ pending' = NoPending
      /\ sequence' = [sequence EXCEPT ![t] = @ + 1] /\ subscribed' = t
      /\ UNCHANGED <<exists, written, announced, pieces, turn, epoch, stops, open, connected, cursors,
                     expected, submissions, view>>
  BY DEF BeginAdmission
<1>2. /\ admission' = [thread |-> t, cursor |-> c, held |-> <<>>, stage |-> "meta",
                       submission |-> Head(ops).submission, first |-> Head(ops).first,
                       revision |-> 0, previous |-> subscribed]
  BY DEF BeginAdmission
<1>3. /\ ops \in Seq(OpType) /\ events \in Seq(Event) /\ admission.held = <<>> /\ NoThread \notin Thread
      /\ submissions \in Nat /\ view.thread \in Thread0 /\ subscribed \in Thread0 /\ epoch \in Nat
      /\ sequence \in [Thread -> Nat] /\ cursors \in [Thread -> Cursor] /\ pieces \in [Thread -> Nat]
      /\ written \in [Thread -> Nat]
  BY <1>1, Types, FieldTypes, NoAdmissionIs DEF StreamInv
<1>4. /\ Head(ops) = ops[1] /\ 1 \in DOMAIN ops /\ ops[1] \in OpType /\ ops' \in Seq(OpType)
      /\ \A i \in DOMAIN ops' : i + 1 \in DOMAIN ops /\ ops'[i] = ops[i + 1] /\ i + 1 # 1
                                /\ i \in Nat /\ i > 0
      /\ \A i \in DOMAIN ops : i = 1 \/ (i - 1 \in DOMAIN ops' /\ ops'[i - 1] = ops[i])
  <2> HIDE DEF c, t
  <2> QED BY <1>1, <1>3, QueueTail
<1>5. t \in Thread /\ ops[1].submission \in Nat /\ ops[1].first \in BOOLEAN /\ t = ops[1].thread
  BY <1>1, <1>4 DEF OpType, Thread0
<1>6. /\ c = <<epoch, sequence[t] + 1>> /\ c \in Cursor /\ <<epoch, sequence[t]>> \in Cursor
      /\ Later(c, <<epoch, sequence[t]>>)
  BY <1>3, <1>5, NextIsLater DEF NextCursor
<1> HIDE DEF t, c
<1>7. /\ admission'.thread = t /\ admission'.cursor = c /\ admission'.held = <<>>
      /\ admission'.stage = "meta" /\ admission'.submission = ops[1].submission
      /\ admission'.revision = 0 /\ admission' # NoAdmission /\ admission' \in AdmissionType
  <2>1. <<>> \in Seq(Event)
    OBVIOUS
  <2> QED BY <1>2, <1>3, <1>4, <1>5, <1>6, <2>1 DEF AdmissionType, NoAdmission, Thread0
<1>8. sequence' \in [Thread -> Nat] /\ \A u \in Thread : sequence[u] <= sequence'[u]
  BY <1>1, <1>3, <1>5
<1>9. /\ Channel(events', pending', admission'.held, 0, cursors, epoch, sequence', pieces, view, turn)
      /\ events' \in Seq(Event)
      /\ Extends(events, events', pending.thread, {"piece"})
  <2>1. /\ Channel(Flushed, NoPending, admission.held, 0, cursors, epoch, sequence, pieces, view, turn)
        /\ Flushed \in Seq(Event) /\ Extends(events, Flushed, pending.thread, {"piece"})
    BY FlushedIs
  <2>2. DataGrows(sequence, pieces, turn, sequence', pieces, turn)
    BY <1>3, <1>8 DEF DataGrows
  <2>3. Channel(Flushed, NoPending, admission.held, 0, cursors, epoch, sequence', pieces, view, turn)
    BY <1>3, <1>8, <2>1, <2>2, LaterData
  <2> QED BY <1>1, <1>3, <1>7, <2>1, <2>3
<1>10. /\ \A i \in DOMAIN events : i \in DOMAIN events' /\ events'[i] = events[i]
       /\ \A i \in DOMAIN events' : i \notin DOMAIN events =>
            events'[i].kind = "piece" /\ events'[i].thread = pending.thread
            /\ \A j \in DOMAIN events : j < i
  BY <1>9 DEF Extends
<1>11. \A i \in DOMAIN events' : events'[i].thread = t => Later(c, events'[i].cursor)
  <2> SUFFICES ASSUME NEW i \in DOMAIN events', events'[i].thread = t
               PROVE  Later(c, events'[i].cursor)
    OBVIOUS
  <2>1. Channel(Flushed, NoPending, admission.held, 0, cursors, epoch, sequence, pieces, view, turn)
    BY FlushedIs
  <2>2. SoundAt(events'[i], cursors, epoch, sequence, pieces, view, turn)
    BY <1>1, <2>1 DEF Channel
  <2>3. events'[i].cursor \in Cursor
    BY <1>9, EventTypes
  <2> QED BY <1>5, <1>6, <2>2, <2>3, LaterRules DEF SoundAt, LaterRule
<1>12. StreamTypeOK'
  <2>1. StreamTypeOK
    BY DEF StreamInv
  <2>2. pending' \in PendingType
    BY <1>1, NoAdmissionIs
  <2> QED BY <2>1, <2>2, <1>1, <1>4, <1>5, <1>7, <1>8, <1>9
          DEF StreamTypeOK, AdmissionType, PendingType, OpType, Thread0
<1>13. ops[1].submission \in 1 .. submissions
  BY <1>4 DEF StreamInv, OrderInv
<1>14. PortInv'
  BY <1>1, <1>3, <1>5, <1>7, <1>13 DEF PortInv
<1>15. CountInv' /\ ViewInv'
  <2>1. ASSUME NEW u \in Thread PROVE ~Later(cursors[u], <<epoch, sequence'[u]>>)
    <3>1. ~Later(cursors[u], <<epoch, sequence[u]>>)
      BY <1>1 DEF StreamInv, CountInv
    <3>2. /\ sequence[u] \in Nat /\ sequence'[u] \in Nat /\ sequence[u] <= sequence'[u]
          /\ cursors[u][1] \in Nat /\ cursors[u][2] \in Nat
      BY <1>3, <1>8 DEF Cursor
    <3> QED BY <3>1, <3>2, <1>3 DEF Later
  <2> QED BY <1>1, <2>1 DEF StreamInv, CountInv, ViewInv
<1>16. ChannelInv'
  <2>1. ASSUME NEW i \in DOMAIN events' PROVE Kinded(events[i])'
    <3>1. CASE i \in DOMAIN events
      <4>1. Kinded(events[i]) /\ events'[i] = events[i] /\ submissions' = submissions
        BY <3>1, <1>1, <1>10 DEF StreamInv, ChannelInv
      <4> QED BY <4>1 DEF Kinded
    <3>2. CASE i \notin DOMAIN events
      <4>1. pending # NoPending
        BY <3>2, <1>1 DEF Flushed
      <4>2. pending.thread \in Thread
        BY <4>1, <1>3 DEF StreamInv, PortInv, Thread0
      <4> QED BY <3>2, <4>2, <1>10 DEF Kinded, LiveKinds, AnswerKinds
    <3> QED BY <3>1, <3>2
  <2>2. ~Later(c, <<epoch, sequence'[t]>>)
    BY <1>1, <1>3, <1>5, <1>6, LaterRules DEF LaterRule
  <2>3. Later(c, cursors[t])
    <3>1. ~Later(cursors[t], <<epoch, sequence[t]>>) /\ cursors[t] \in Cursor
      BY <1>1, <1>3, <1>5 DEF StreamInv, CountInv
    <3> QED BY <3>1, <1>6, LaterRules DEF LaterRule
  <2> QED BY <2>1, <2>2, <2>3, <1>1, <1>7, <1>9, <1>11 DEF ChannelInv
<1>17. OrderInv'
  <2>1. OrderInv
    BY DEF StreamInv
  <2>2. \A i \in DOMAIN ops' : /\ ops'[i].submission \in 1 .. submissions
                              /\ ops[1].submission < ops'[i].submission
    <3>1. \A i \in DOMAIN ops' : i + 1 \in DOMAIN ops /\ 1 < i + 1
      BY <1>4
    <3> QED BY <1>4, <2>1, <3>1 DEF OrderInv
  <2>3. \A i, j \in DOMAIN ops' : i < j => ops'[i].submission < ops'[j].submission
    <3>1. \A i, j \in DOMAIN ops' : i < j => i + 1 < j + 1
      BY <1>4
    <3> QED BY <1>4, <2>1, <3>1 DEF OrderInv
  <2>4. \A i \in DOMAIN events' : events'[i].kind \in AnswerKinds =>
          i \in DOMAIN events /\ events'[i] = events[i]
    BY <1>10 DEF AnswerKinds
  <2>5. \A i \in DOMAIN events' : events'[i].kind \in AnswerKinds =>
          /\ events'[i].submission < ops[1].submission
          /\ \A j \in DOMAIN ops' : events'[i].submission < ops'[j].submission
    BY <1>4, <2>1, <2>4 DEF OrderInv
  <2> QED BY <1>1, <1>7, <2>1, <2>2, <2>3, <2>4, <2>5 DEF OrderInv
<1>18. AskedInv'
  <2> SUFFICES ASSUME Asking' PROVE (AskedLast /\ AskedQueued /\ AskedRead /\ AskedAnswered /\ AskedSomewhere)'
    BY DEF AskedInv
  <2>1. Asking /\ AskedLast /\ AskedQueued /\ AskedRead /\ AskedAnswered /\ AskedSomewhere
    BY <1>1 DEF StreamInv, AskedInv, Asking
  <2>2. v \in Thread
    BY <2>1, <1>3 DEF AskedLast, Thread0
  <2>3. AskedLast'
    BY <1>1, <2>1 DEF AskedLast
  <2>4. Silent(v, events, pending, admission.held) => Silent(v, events', pending', admission'.held)
    <3>1. pending'.thread # v /\ admission'.held = <<>>
      BY <1>1, <1>3, <1>7, <2>2, NoAdmissionIs
    <3> QED BY <1>1, <2>2, <3>1, SilentFlushed DEF Silent
  <2>5. AskedQueued'
    <3> SUFFICES ASSUME NEW i \in DOMAIN ops', ops'[i].submission = submissions
                 PROVE  /\ ops'[i].thread = v
                        /\ view.loaded => Silent(v, events', pending', admission'.held) /\ turn[v] = "over"
      BY <1>1 DEF AskedQueued
    <3>1. i + 1 \in DOMAIN ops /\ ops'[i] = ops[i + 1] /\ i + 1 # 1
      BY <1>4
    <3>2. /\ ops[i + 1].thread = v
          /\ view.loaded => Silent(v, events, pending, admission.held) /\ turn[v] = "over"
      BY <2>1, <3>1 DEF AskedQueued
    <3> QED BY <2>4, <3>1, <3>2
  <2>6. AskedRead'
    <3> SUFFICES ASSUME ops[1].submission = submissions
                 PROVE  /\ t = v
                        /\ Hears(v, c, {}, events', pending', admission'.held, pieces[v])
                        /\ view.loaded => NoneBefore(v, c, events')
                        /\ 0 <= written[v]
      BY <1>1, <1>7 DEF AskedRead
    <3>1. t = v /\ (view.loaded => Silent(v, events, pending, admission.held))
      BY <1>4, <1>5, <2>1 DEF AskedQueued
    <3>2. \A n : ~DeltaIn(v, c, n, events', pending', admission'.held, 0)
      <4>1. \A i \in DOMAIN events' : events'[i].thread = v => ~Later(events'[i].cursor, c)
        <5> SUFFICES ASSUME NEW i \in DOMAIN events', events'[i].thread = v
                     PROVE  ~Later(events'[i].cursor, c)
          OBVIOUS
        <5>1. Later(c, events'[i].cursor) /\ events'[i].cursor \in Cursor
          BY <1>9, <1>11, <3>1, EventTypes
        <5> QED BY <5>1, <1>6, LaterRules DEF LaterRule
      <4> QED BY <1>1, <1>7, <4>1 DEF DeltaIn
    <3>3. Hears(v, c, {}, events', pending', admission'.held, pieces[v])
      BY <3>2 DEF Hears
    <3>4. view.loaded => NoneBefore(v, c, events')
      BY <2>4, <3>1 DEF Silent, NoneBefore
    <3>5. written[v] \in Nat
      BY <1>3, <2>2
    <3> QED BY <3>1, <3>3, <3>4, <3>5
  <2>7. AskedAnswered' /\ ~\E i \in DOMAIN events : IsNewest(events[i])
    <3>1. ASSUME NEW i \in DOMAIN events, IsNewest(events[i]) PROVE FALSE
      <4>1. events[i].submission < ops[1].submission
        BY <1>4, <3>1 DEF StreamInv, OrderInv, IsNewest
      <4> QED BY <1>3, <1>13, <3>1, <4>1 DEF IsNewest
    <3>2. ASSUME NEW i \in DOMAIN events', IsNewest(events[i])' PROVE FALSE
      BY <1>1, <1>10, <3>1, <3>2 DEF IsNewest, AnswerKinds
    <3> QED BY <3>1, <3>2 DEF AskedAnswered
  <2>8. AskedSomewhere'
    <3>1. CASE \E i \in DOMAIN ops : ops[i].submission = submissions
      <4>1. PICK i \in DOMAIN ops : ops[i].submission = submissions
        BY <3>1
      <4>2. i = 1 \/ (i - 1 \in DOMAIN ops' /\ ops'[i - 1] = ops[i])
        BY <1>4
      <4> QED BY <1>1, <1>7, <4>1, <4>2 DEF AskedSomewhere
    <3>2. CASE Gone
      BY <1>1, <2>4, <3>2 DEF AskedSomewhere, Gone
    <3> QED BY <1>1, <2>1, <2>7, <3>1, <3>2 DEF AskedSomewhere
  <2> QED BY <2>3, <2>5, <2>6, <2>7, <2>8
<1>19. HeardInv'
  BY <1>1 DEF StreamInv, HeardInv
<1> QED BY <1>12, <1>14, <1>15, <1>16, <1>17, <1>18, <1>19 DEF StreamInv

LEMMA ReadMetaKeeps ==
  ASSUME StreamInv, ReadMeta
  PROVE  StreamInv'
<1>1. /\ admission' = [admission EXCEPT !.stage = "rest", !.revision = written[admission.thread]]
      /\ UNCHANGED <<exists, written, announced, pieces, turn, epoch, stops, sequence, subscribed,
                     pending, ops, events, open, connected, cursors, expected, submissions, view>>
      /\ admission.stage = "meta" /\ admission.thread \in exists
  BY DEF ReadMeta
<1>2. /\ admission \in AdmissionType /\ written \in [Thread -> Nat] /\ exists \subseteq Thread
      /\ NoAdmission.stage = "none" /\ view.thread \in Thread0
  BY Types, FieldTypes, NoAdmissionIs DEF StreamInv
<1>3. /\ admission'.thread = admission.thread /\ admission'.cursor = admission.cursor
      /\ admission'.held = admission.held /\ admission'.submission = admission.submission
      /\ admission'.stage = "rest" /\ admission'.revision = written[admission.thread]
      /\ admission # NoAdmission /\ admission' # NoAdmission /\ admission' \in AdmissionType
  BY <1>1, <1>2 DEF AdmissionType
<1>4. StreamTypeOK'
  <2>1. StreamTypeOK /\ admission' \in AdmissionType
    BY <1>3 DEF StreamInv
  <2> QED BY <2>1, <1>1 DEF StreamTypeOK, AdmissionType, Thread0
<1>5. PortInv' /\ CountInv' /\ ViewInv' /\ OrderInv' /\ HeardInv'
  BY <1>1, <1>3 DEF StreamInv, PortInv, CountInv, ViewInv, OrderInv, HeardInv, Streamed, Shown
<1>6. ChannelInv'
  BY <1>1, <1>3 DEF StreamInv, ChannelInv, Kinded
<1>7. AskedInv'
  <2> SUFFICES ASSUME Asking' PROVE (AskedLast /\ AskedQueued /\ AskedRead /\ AskedAnswered /\ AskedSomewhere)'
    BY DEF AskedInv
  <2>1. Asking /\ AskedLast /\ AskedQueued /\ AskedRead /\ AskedAnswered /\ AskedSomewhere
    BY <1>1 DEF StreamInv, AskedInv, Asking
  <2>2. AskedLast' /\ AskedQueued'
    BY <1>1, <1>3, <2>1 DEF AskedLast, AskedQueued
  <2>3. AskedAnswered' /\ AskedSomewhere'
    BY <1>1, <1>3, <2>1 DEF AskedAnswered, AskedSomewhere, AnswersWell, IsNewest, Gone
  <2>4. AskedRead'
    <3>1. view.loaded => view.revision <= written[view.thread]
      BY DEF StreamInv, ViewInv
    <3>2. view.thread \in Thread => written[view.thread] \in Nat
      BY <1>2
    <3>3. admission.submission = submissions => view.thread \in Thread
      BY <1>1, <1>2, <1>3, <2>1 DEF AskedRead
    <3> QED BY <1>1, <1>3, <2>1, <3>1, <3>2, <3>3 DEF AskedRead
  <2> QED BY <2>2, <2>3, <2>4
<1> QED BY <1>4, <1>5, <1>6, <1>7 DEF StreamInv

\* The answer to what was being read follows every earlier answer.
LEMMA AnswersInOrder ==
  ASSUME StreamInv, admission # NoAdmission, admission' = NoAdmission, UNCHANGED <<ops, submissions>>,
         NEW l, NEW b, b.submission = admission.submission,
         \A i \in DOMAIN events' : events'[i].kind \in AnswerKinds =>
           (i \in DOMAIN events /\ events'[i] = events[i] /\ i < l) \/ (i = l /\ events'[i] = b),
         l \in Nat
  PROVE  OrderInv'
<1>1. OrderInv /\ events \in Seq(Event)
  BY Types DEF StreamInv
<1>2. \A i \in DOMAIN events' : events'[i].kind \in AnswerKinds =>
        \A j \in DOMAIN ops' : events'[i].submission < ops'[j].submission
  BY <1>1 DEF OrderInv
<1>3. \A i, j \in DOMAIN events' :
        i < j /\ events'[i].kind \in AnswerKinds /\ events'[j].kind \in AnswerKinds
          => events'[i].submission < events'[j].submission
  <2> SUFFICES ASSUME NEW i \in DOMAIN events', NEW j \in DOMAIN events', i < j,
                      events'[i].kind \in AnswerKinds, events'[j].kind \in AnswerKinds
               PROVE  events'[i].submission < events'[j].submission
    OBVIOUS
  <2>1. \A k \in DOMAIN events : k \in Nat
    BY <1>1
  <2>2. i \in DOMAIN events /\ events'[i] = events[i]
    BY <2>1
  <2>3. CASE j \in DOMAIN events /\ events'[j] = events[j]
    BY <1>1, <2>2, <2>3 DEF OrderInv
  <2>4. CASE events'[j] = b
    BY <1>1, <2>2, <2>4 DEF OrderInv
  <2> QED BY <2>3, <2>4
<1> QED BY <1>1, <1>2, <1>3 DEF OrderInv

LEMMA CommitAdmissionKeeps ==
  ASSUME StreamInv, CommitAdmission
  PROVE  StreamInv'
<1> DEFINE v == view.thread
           t == admission.thread
           held == admission.held
           K == {held[j].kind : j \in DOMAIN held}
           b == [kind |-> "initialized", thread |-> t, cursor |-> admission.cursor,
                 numbers |-> <<>>, submission |-> admission.submission,
                 snapshot |-> [revision |-> admission.revision, facts |-> written[t],
                               turn |-> turn[t] = "live"]]
           out2 == Append(events, b)
           l == Len(events) + 1
           all == Posted([out |-> out2, pend |-> pending], held)
<1>1. /\ events' = all.out /\ pending' = all.pend /\ admission' = NoAdmission
      /\ admission.stage = "rest"
      /\ UNCHANGED <<exists, written, announced, pieces, turn, sequence>> /\ SamePage
  BY DEF CommitAdmission, Sends, SamePage
<1>2. /\ events \in Seq(Event) /\ held \in Seq(Event) /\ NoThread \notin Thread
      /\ admission.cursor \in Cursor /\ t \in Thread0 /\ admission.submission \in Nat
      /\ admission.revision \in Nat /\ written \in [Thread -> Nat] /\ announced \in [Thread -> Nat]
      /\ pieces \in [Thread -> Nat] /\ cursors \in [Thread -> Cursor] /\ epoch \in Nat
      /\ sequence \in [Thread -> Nat] /\ view.thread \in Thread0 /\ submissions \in Nat
  BY Types, FieldTypes DEF StreamInv
<1>3. /\ admission # NoAdmission /\ t = subscribed /\ t \in Thread /\ pending = NoPending
      /\ admission.submission \in 1 .. submissions /\ open /\ epoch > 0
      /\ \A j \in DOMAIN held : /\ held[j].kind \in LiveKinds /\ held[j].thread = t
                                /\ Later(held[j].cursor, admission.cursor)
  <2>1. admission # NoAdmission
    BY <1>1, NoAdmissionIs
  <2> QED BY <1>2, <2>1 DEF StreamInv, PortInv, Thread0
<1>4. /\ b \in Event /\ b.kind = "initialized" /\ b.thread = t /\ b.cursor = admission.cursor
      /\ b.submission = admission.submission /\ HasSnapshot(b)
      /\ b.snapshot.revision = admission.revision /\ b.snapshot.facts = written[t]
  <2>1. written[t] \in Nat /\ <<>> \in Seq(Nat)
    BY <1>2, <1>3
  <2> QED BY <1>2, <1>3, <2>1 DEF Event, HasSnapshot, NoSnapshot
<1> HIDE DEF b
<1>5. /\ out2 \in Seq(Event) /\ l \in DOMAIN out2 /\ out2[l] = b /\ l \notin DOMAIN events
      /\ \A i \in DOMAIN events : i \in DOMAIN out2 /\ out2[i] = events[i] /\ i < l
      /\ \A i \in DOMAIN out2 : i \in DOMAIN events \/ i = l
      /\ l \in Nat
  BY <1>2, <1>4
<1>6. /\ Channel(out2, NoPending, held, 0, cursors, epoch, sequence, pieces, view, turn)
      /\ \A c : SameIn(c, events, NoPending, held, 0, out2, NoPending, 0)
  <2>1. Channel(events, NoPending, held, 0, cursors, epoch, sequence, pieces, view, turn)
    BY <1>3 DEF StreamInv, ChannelInv
  <2>2. /\ ~Later(b.cursor, <<epoch, sequence[t]>>) /\ Later(b.cursor, cursors[t])
        /\ \A i \in DOMAIN events : events[i].thread = t => Later(b.cursor, events[i].cursor)
    BY <1>3, <1>4 DEF StreamInv, ChannelInv
  <2>3. SoundAt(b, cursors, epoch, sequence, pieces, view, turn)
    BY <1>4, <2>2 DEF SoundAt
  <2>4. \A i \in DOMAIN events : Before(events[i], b)
    BY <1>4, <2>2 DEF Before, TurnKinds
  <2>5. \A j \in DOMAIN held : Before(b, held[j])
    BY <1>3, <1>4 DEF Before
  <2>6. b.kind \in AnswerKinds \cup {"deleted"}
    BY <1>4 DEF AnswerKinds
  <2> QED BY <1>4, <2>1, <2>3, <2>4, <2>5, <2>6, AnswerKeeps
<1>7. /\ Channel(events', pending', <<>>, 0, cursors, epoch, sequence, pieces, view, turn)
      /\ SameIn(admission.cursor, out2, NoPending, held, 0, events', pending', Len(held))
      /\ Extends(out2, events', t, K)
      /\ Fits(pending', t, K)
  <2>1. \A j \in DOMAIN held : held[j].kind \in K /\ held[j].thread = t
    BY <1>3
  <2> HIDE DEF out2, K, l
  <2>2. all = Posted([out |-> out2, pend |-> NoPending], held)
    BY <1>3
  <2> HIDE DEF all
  <2>3. /\ Channel(all.out, all.pend, <<>>, 0, cursors, epoch, sequence, pieces, view, turn)
        /\ \A c \in Cursor : (\A j \in DOMAIN held : Later(held[j].cursor, c))
             => SameIn(c, out2, NoPending, held, 0, all.out, all.pend, Len(held))
        /\ Extends(out2, all.out, t, K)
        /\ Fits(all.pend, t, K)
    BY <1>2, <1>3, <1>6, <2>1, <2>2, PostedKeeps
  <2> QED BY <1>1, <1>2, <1>3, <2>3
<1>8. K \subseteq LiveKinds
  BY <1>3
<1> HIDE DEF K, all
<1>9. /\ \A i \in DOMAIN out2 : i \in DOMAIN events' /\ events'[i] = out2[i]
      /\ \A i \in DOMAIN events' : i \notin DOMAIN out2 =>
           events'[i].kind \in K /\ events'[i].thread = t /\ l < i
      /\ events' \in Seq(Event) /\ pending' \in PendingType
      /\ \A i, j \in DOMAIN events' : i < j => Before(events'[i], events'[j])
  BY <1>5, <1>7 DEF Extends, Channel, Queued
<1> HIDE DEF out2, l
<1>10. \A n \in Nat :
         /\ DeltaIn(t, admission.cursor, n, events', pending', <<>>, 0)
              <=> DeltaIn(t, admission.cursor, n, events, pending, held, 0)
         /\ ItemIn(t, admission.cursor, n, events', <<>>, 0)
              <=> ItemIn(t, admission.cursor, n, events, held, 0)
  <2>1. \A n \in Nat :
         /\ DeltaIn(t, admission.cursor, n, events', pending', held, Len(held))
              <=> DeltaIn(t, admission.cursor, n, events, NoPending, held, 0)
         /\ ItemIn(t, admission.cursor, n, events', held, Len(held))
              <=> ItemIn(t, admission.cursor, n, events, held, 0)
    BY <1>3, <1>6, <1>7 DEF SameIn
  <2>2. ~(\E i \in DOMAIN held : i > Len(held)) /\ DOMAIN <<>> = {}
    BY <1>2
  <2> QED BY <1>3, <2>1, <2>2 DEF DeltaIn, ItemIn
<1>11. StreamTypeOK'
  <2>1. StreamTypeOK
    BY DEF StreamInv
  <2>2. admission' \in AdmissionType
    BY <1>1, NoAdmissionIs
  <2> QED BY <2>1, <2>2, <1>1, <1>9 DEF SamePage, StreamTypeOK, AdmissionType, PendingType, Thread0
<1>12. PortInv'
  <2>1. pending' # NoPending => pending'.thread = t
    BY <1>7 DEF Fits
  <2>2. DOMAIN admission'.held = {}
    BY <1>1, NoAdmissionIs
  <2> QED BY <1>1, <1>2, <1>3, <2>1, <2>2 DEF PortInv, SamePage
<1>13. CountInv' /\ ViewInv'
  BY <1>1 DEF StreamInv, CountInv, ViewInv, SamePage
<1>14. ChannelInv'
  <2>1. ASSUME NEW i \in DOMAIN events' PROVE Kinded(events[i])'
    <3>1. CASE i \in DOMAIN events
      <4>1. Kinded(events[i]) /\ events'[i] = events[i] /\ submissions' = submissions
        BY <3>1, <1>1, <1>5, <1>9 DEF StreamInv, ChannelInv, SamePage
      <4> QED BY <4>1 DEF Kinded
    <3>2. CASE i = l
      <4>1. events'[i] = b /\ submissions' = submissions
        BY <3>2, <1>1, <1>5, <1>9 DEF SamePage
      <4> QED BY <4>1, <1>2, <1>3, <1>4 DEF Kinded, LiveKinds, AnswerKinds
    <3>3. CASE i \notin DOMAIN out2
      BY <3>3, <1>3, <1>8, <1>9 DEF Kinded, LiveKinds, AnswerKinds
    <3> QED BY <1>5, <3>1, <3>2, <3>3
  <2> QED BY <2>1, <1>1, <1>7, NoAdmissionIs DEF ChannelInv, SamePage
<1>15. \A i \in DOMAIN events' : events'[i].kind \in AnswerKinds =>
         (i \in DOMAIN events /\ events'[i] = events[i] /\ i < l) \/ (i = l /\ events'[i] = b)
  BY <1>5, <1>8, <1>9 DEF LiveKinds, AnswerKinds
<1>16. OrderInv'
  BY <1>1, <1>3, <1>4, <1>5, <1>15, AnswersInOrder DEF SamePage
<1>17. ASSUME NEW u \in Thread, Silent(u, events, pending, held)
       PROVE  Silent(u, events', pending', admission'.held)
  <2>1. u = t => \A k \in K : k \notin TurnKinds
    BY <1>3, <1>17 DEF K, Silent
  <2>2. pending'.thread # u
    BY <1>2, <1>7, <2>1, NoAdmissionIs DEF Fits, TurnKinds
  <2>3. \A i \in DOMAIN events' : events'[i].thread = u => events'[i].kind \notin TurnKinds
    <3> SUFFICES ASSUME NEW i \in DOMAIN events', events'[i].thread = u
                 PROVE  events'[i].kind \notin TurnKinds
      OBVIOUS
    <3>1. CASE i \in DOMAIN events
      BY <1>5, <1>9, <1>17, <3>1 DEF Silent
    <3>2. CASE i = l
      BY <1>4, <1>5, <1>9, <3>2 DEF TurnKinds
    <3>3. CASE i \notin DOMAIN out2
      BY <1>9, <2>1, <3>3
    <3> QED BY <1>5, <3>1, <3>2, <3>3
  <2>4. DOMAIN admission'.held = {}
    BY <1>1, NoAdmissionIs
  <2> QED BY <2>2, <2>3, <2>4 DEF Silent
<1>18. AskedInv'
  <2> SUFFICES ASSUME Asking' PROVE (AskedLast /\ AskedQueued /\ AskedRead /\ AskedAnswered /\ AskedSomewhere)'
    BY DEF AskedInv
  <2>1. Asking /\ AskedLast /\ AskedQueued /\ AskedRead /\ AskedAnswered /\ AskedSomewhere
    BY <1>1 DEF StreamInv, AskedInv, Asking, SamePage
  <2>2. v \in Thread
    BY <2>1, <1>2 DEF AskedLast, Thread0
  <2>3. AskedLast' /\ AskedRead'
    BY <1>1, <2>1 DEF AskedLast, AskedRead, SamePage
  <2>4. AskedQueued'
    BY <1>1, <1>3, <1>17, <2>1, <2>2 DEF AskedQueued, SamePage
  <2>5. ASSUME NEW i \in DOMAIN events', IsNewest(events[i])' PROVE AnswersWell(events[i])'
    <3>1. i \notin DOMAIN events
      <4> SUFFICES ASSUME i \in DOMAIN events PROVE FALSE
        OBVIOUS
      <4>1. events'[i] = events[i] /\ events[i].submission = submissions /\ events[i].kind \in AnswerKinds
        BY <1>1, <1>5, <1>9, <2>5 DEF IsNewest, SamePage
      <4>2. submissions < admission.submission
        BY <1>3, <4>1 DEF StreamInv, OrderInv
      <4> QED BY <1>2, <1>3, <4>2
    <3>2. i = l /\ events'[i] = b
      BY <1>15, <2>5, <3>1 DEF IsNewest
    <3>3. admission.submission = submissions
      BY <1>1, <1>4, <2>5, <3>2 DEF IsNewest, SamePage
    <3>4. /\ t = v
          /\ Hears(v, b.cursor, {}, events, pending, held, pieces[v])
          /\ view.loaded => NoneBefore(v, b.cursor, events) /\ view.revision <= admission.revision
          /\ admission.revision <= written[v]
      BY <1>1, <1>3, <1>4, <2>1, <3>3 DEF AskedRead
    <3>5. Hears(v, b.cursor, {}, events', pending', <<>>, pieces[v])
      <4>1. pieces[v] \in Nat
        BY <1>2, <2>2
      <4> QED BY <1>4, <1>10, <3>4, <4>1, HearsSame
    <3>6. Knows(v, b.cursor, 1 .. written[v], events', <<>>, announced[v])
      <4>1. announced[v] <= written[v] /\ announced[v] \in Nat /\ written[v] \in Nat
        BY <1>2, <2>2 DEF StreamInv, CountInv
      <4> QED BY <4>1 DEF Knows
    <3>7. view.loaded => NoneBefore(v, b.cursor, events')
      <4> SUFFICES ASSUME view.loaded, NEW j \in DOMAIN events', events'[j].thread = v,
                          events'[j].kind \in TurnKinds
                   PROVE  Later(events'[j].cursor, b.cursor)
        BY DEF NoneBefore
      <4>1. CASE j \in DOMAIN events
        BY <1>5, <1>9, <3>4, <4>1 DEF NoneBefore
      <4>2. CASE j = l
        BY <1>4, <1>5, <1>9, <4>2 DEF TurnKinds
      <4>3. CASE j \notin DOMAIN out2
        <5>1. Before(events'[l], events'[j])
          BY <1>5, <1>9, <4>3
        <5> QED BY <1>4, <2>2, <3>2, <3>4, <5>1 DEF Before
      <4> QED BY <1>5, <4>1, <4>2, <4>3
    <3>8. events'[i].thread = v /\ HasSnapshot(events'[i]) /\ admission'.held = <<>> /\ subscribed' = v
      BY <1>1, <1>3, <1>4, <3>2, <3>4, NoAdmissionIs DEF SamePage
    <3> QED BY <1>1, <1>4, <3>2, <3>4, <3>5, <3>6, <3>7, <3>8 DEF AnswersWell, SamePage
  <2>6. AskedAnswered'
    BY <2>5 DEF AskedAnswered
  <2>7. AskedSomewhere'
    <3>1. CASE \E i \in DOMAIN ops : ops[i].submission = submissions
      BY <3>1, <1>1 DEF AskedSomewhere, SamePage
    <3>2. CASE admission.submission = submissions
      <4>1. l \in DOMAIN events' /\ events'[l] = b
        BY <1>5, <1>9
      <4> QED BY <1>1, <1>4, <3>2, <4>1 DEF AskedSomewhere, IsNewest, SamePage, AnswerKinds
    <3>3. CASE \E i \in DOMAIN events : IsNewest(events[i])
      BY <3>3, <1>1, <1>5, <1>9 DEF AskedSomewhere, IsNewest, SamePage
    <3>4. CASE Gone
      BY <3>4, <1>1, <1>17, <2>2 DEF AskedSomewhere, Gone, SamePage
    <3> QED BY <2>1, <3>1, <3>2, <3>3, <3>4 DEF AskedSomewhere
  <2> QED BY <2>3, <2>4, <2>6, <2>7
<1>19. HeardInv'
  BY <1>1, <1>3 DEF StreamInv, HeardInv, SamePage
<1> QED BY <1>11, <1>12, <1>13, <1>14, <1>16, <1>18, <1>19 DEF StreamInv

\* The last deletion among the events held back is one of them.
LEMMA LastDeletion ==
  ASSUME NEW s \in Seq(Event), NEW D, D \subseteq DOMAIN s, D # {}
  PROVE  Max(D) \in D
<1>1. D \in SUBSET (0 .. Len(s)) /\ Len(s) \in Nat
  OBVIOUS
<1>2. PICK x \in D : \A y \in D : y <= x
  BY <1>1, Greatest
<1>3. \A y \in D : x >= y
  BY <1>1, <1>2
<1> QED BY <1>3 DEF Max

LEMMA AppendedOnce ==
  ASSUME NEW s \in Seq(Event), NEW a \in Event, NEW b \in Event
  PROVE  /\ s \o <<>> \o <<b>> = Append(s, b)
         /\ s \o <<a>> \o <<b>> = Append(Append(s, a), b)
OBVIOUS

LEMMA CancelAdmissionKeeps ==
  ASSUME StreamInv, CancelAdmission
  PROVE  StreamInv'
<1> DEFINE v == view.thread
           t == admission.thread
           held == admission.held
           deletions == {i \in DOMAIN held : held[i].kind = "deleted"}
           d == held[Max(deletions)]
           deleted == IF deletions = {} THEN <<>> ELSE <<d>>
           b == [Stamped(IF admission.first THEN "initialized" ELSE "notFound", NoThread, NoCursor, <<>>)
                   EXCEPT !.submission = admission.submission]
           out2 == IF deletions = {} THEN events ELSE Append(events, d)
           l == Len(out2) + 1
<1>1. /\ events' = events \o deleted \o <<b>> /\ admission' = NoAdmission
      /\ subscribed' = admission.previous
      /\ admission.stage # "none" /\ t \notin exists
      /\ UNCHANGED <<exists, written, announced, pieces, turn, epoch, stops, sequence, pending, ops, open,
                     connected, cursors, expected, submissions, view>>
  BY DEF CancelAdmission
<1>2. /\ events \in Seq(Event) /\ held \in Seq(Event) /\ NoThread \notin Thread
      /\ admission.cursor \in Cursor /\ t \in Thread0 /\ admission.submission \in Nat
      /\ admission.previous \in Thread0 /\ admission.first \in BOOLEAN
      /\ view.thread \in Thread0 /\ submissions \in Nat /\ epoch \in Nat
  BY Types, FieldTypes DEF StreamInv, AdmissionType
<1>3. /\ admission # NoAdmission /\ t = subscribed /\ t \in Thread /\ pending = NoPending
      /\ admission.submission \in 1 .. submissions /\ open /\ epoch > 0
      /\ \A j \in DOMAIN held : held[j].thread = t
  <2>1. admission # NoAdmission
    BY <1>1, NoAdmissionIs
  <2>2. PortInv
    BY DEF StreamInv
  <2> HIDE DEF d, b, deleted, deletions, out2, l
  <2> QED BY <1>2, <2>1, <2>2 DEF PortInv, Thread0
<1>4. /\ b \in Event /\ b.kind \in AnswerKinds /\ b.thread = NoThread
      /\ b.submission = admission.submission /\ ~HasSnapshot(b)
  <2> DEFINE k == IF admission.first THEN "initialized" ELSE "notFound"
  <2>1. b = [kind |-> k, thread |-> NoThread, cursor |-> NoCursor, numbers |-> <<>>,
             submission |-> admission.submission, snapshot |-> NoSnapshot]
    BY DEF Stamped
  <2>2. /\ NoSnapshot \in [revision : Int, facts : Nat, turn : BOOLEAN] /\ NoCursor \in Cursor
        /\ <<>> \in Seq(Nat) /\ k \in {"initialized", "notFound"}
    BY DEF NoSnapshot, NoCursor, Cursor
  <2> HIDE DEF b, k
  <2> QED BY <1>2, <2>1, <2>2 DEF Event, HasSnapshot, AnswerKinds
<1>5. deletions # {} => /\ d \in Event /\ d.kind = "deleted" /\ d.thread = t
                        /\ \E j \in DOMAIN held : d = held[j]
  <2> SUFFICES ASSUME deletions # {}
               PROVE  /\ d \in Event /\ d.kind = "deleted" /\ d.thread = t
                      /\ \E j \in DOMAIN held : d = held[j]
    OBVIOUS
  <2>1. deletions \subseteq DOMAIN held
    OBVIOUS
  <2>2. Max(deletions) \in deletions
    <3> HIDE DEF deletions, held
    <3> QED BY <2>1, <1>2, LastDeletion
  <2>3. \E m \in DOMAIN held : d = held[m] /\ held[m].kind = "deleted"
    BY <2>2
  <2> HIDE DEF d, deletions
  <2> QED BY <2>3, <1>2, <1>3
<1> HIDE DEF b, d
<1>6. events' = Append(out2, b)
  <2>1. CASE deletions = {}
    BY <2>1, <1>1, <1>2, <1>4, AppendedOnce
  <2>2. CASE deletions # {}
    <3>1. events' = events \o <<d>> \o <<b>>
      BY <1>1, <2>2
    <3>2. out2 = Append(events, d) /\ d \in Event
      BY <2>2, <1>5
    <3> HIDE DEF out2
    <3> QED BY <3>1, <3>2, <1>2, <1>4, AppendedOnce
  <2> QED BY <2>1, <2>2
<1>7. /\ Channel(out2, NoPending, <<>>, 0, cursors, epoch, sequence, pieces, view, turn)
  <2>1. /\ Channel(events, NoPending, held, 0, cursors, epoch, sequence, pieces, view, turn)
        /\ held \in Seq(Event) /\ \A j \in DOMAIN held : j > 0
    BY <1>2, <1>3 DEF StreamInv, ChannelInv
  <2>2. Channel(events, NoPending, <<>>, 0, cursors, epoch, sequence, pieces, view, turn)
    <3>1. <<>> \in Seq(Event) /\ DOMAIN <<>> = {}
      OBVIOUS
    <3> QED BY <2>1, <3>1 DEF Channel, Queued
  <2>3. CASE deletions # {}
    <3>1. PICK j \in DOMAIN held : d = held[j]
      BY <1>5, <2>3
    <3>2. SoundAt(d, cursors, epoch, sequence, pieces, view, turn)
      BY <2>1, <3>1 DEF Channel
    <3>3. \A i \in DOMAIN events : Before(events[i], d)
      BY <2>1, <3>1 DEF Channel, Queued
    <3>4. Channel(Append(events, d), NoPending, <<>>, 0, cursors, epoch, sequence, pieces, view, turn)
      <4>1. d \in Event /\ d.kind \in AnswerKinds \cup {"deleted"} /\ DOMAIN <<>> = {}
        BY <1>5, <2>3
      <4> QED BY <2>2, <3>2, <3>3, <4>1, AnswerKeeps
    <3> QED BY <2>3, <3>4
  <2> QED BY <2>2, <2>3
<1>8. /\ out2 \in Seq(Event)
      /\ \A i \in DOMAIN events : i \in DOMAIN out2 /\ out2[i] = events[i]
      /\ \A i \in DOMAIN out2 : i \notin DOMAIN events => out2[i].kind = "deleted" /\ out2[i].thread = t
  <2>1. CASE deletions = {}
    BY <2>1, <1>2
  <2>2. CASE deletions # {}
    <3>1. out2 = Append(events, d) /\ d \in Event /\ d.kind = "deleted" /\ d.thread = t
      BY <2>2, <1>5
    <3> HIDE DEF out2
    <3> QED BY <3>1, <1>2, Added
  <2> QED BY <2>1, <2>2
<1> HIDE DEF out2, deletions
<1>9. /\ Channel(events', pending', admission'.held, 0, cursors, epoch, sequence, pieces, view, turn)
  <2>1. SoundAt(b, cursors, epoch, sequence, pieces, view, turn)
    BY <1>2, <1>4 DEF SoundAt
  <2>2. /\ \A i \in DOMAIN out2 : Before(out2[i], b)
        /\ DOMAIN <<>> = {}
    BY <1>2, <1>4 DEF Before
  <2>3. Channel(Append(out2, b), NoPending, <<>>, 0, cursors, epoch, sequence, pieces, view, turn)
    BY <1>4, <1>7, <2>1, <2>2, AnswerKeeps
  <2> QED BY <1>1, <1>3, <1>6, <2>3, NoAdmissionIs
<1>10. /\ events' \in Seq(Event) /\ l \in DOMAIN events' /\ events'[l] = b /\ l \in Nat
       /\ \A i \in DOMAIN events : i \in DOMAIN events' /\ events'[i] = events[i] /\ i < l
       /\ \A i \in DOMAIN events' : i \in DOMAIN events \/ i = l
            \/ (events'[i].kind = "deleted" /\ events'[i].thread = t)
  <2>1. /\ events' \in Seq(Event) /\ DOMAIN events' = DOMAIN out2 \cup {l} /\ events'[l] = b
        /\ \A i \in DOMAIN out2 : events'[i] = out2[i] /\ i < l
        /\ l \in Nat
    BY <1>4, <1>6, <1>8, Added
  <2> QED BY <2>1, <1>8
<1> HIDE DEF l
<1>11. StreamTypeOK'
  <2>1. StreamTypeOK
    BY DEF StreamInv
  <2>2. admission' \in AdmissionType /\ pending' \in PendingType /\ subscribed' \in Thread0
    BY <1>1, <1>2, <1>3, NoAdmissionIs
  <2> QED BY <2>1, <2>2, <1>1, <1>10 DEF StreamTypeOK, AdmissionType, PendingType, Thread0
<1>12. PortInv'
  <2>1. DOMAIN admission'.held = {}
    BY <1>1, NoAdmissionIs
  <2> QED BY <1>1, <1>3, <2>1 DEF PortInv
<1>13. CountInv' /\ ViewInv'
  BY <1>1 DEF StreamInv, CountInv, ViewInv
<1>14. ChannelInv'
  <2>1. ASSUME NEW i \in DOMAIN events' PROVE Kinded(events[i])'
    <3>1. CASE i \in DOMAIN events
      <4>1. Kinded(events[i]) /\ events'[i] = events[i] /\ submissions' = submissions
        BY <3>1, <1>1, <1>10 DEF StreamInv, ChannelInv
      <4> QED BY <4>1 DEF Kinded
    <3>2. CASE i = l
      <4>1. events'[i] = b /\ submissions' = submissions
        BY <3>2, <1>1, <1>10
      <4> QED BY <4>1, <1>2, <1>3, <1>4 DEF Kinded, LiveKinds, AnswerKinds
    <3>3. CASE events'[i].kind = "deleted" /\ events'[i].thread = t
      BY <3>3, <1>3 DEF Kinded, LiveKinds, AnswerKinds
    <3> QED BY <1>10, <3>1, <3>2, <3>3
  <2> QED BY <2>1, <1>1, <1>9, NoAdmissionIs DEF ChannelInv
<1>15. \A i \in DOMAIN events' : events'[i].kind \in AnswerKinds =>
         (i \in DOMAIN events /\ events'[i] = events[i] /\ i < l) \/ (i = l /\ events'[i] = b)
  BY <1>10 DEF AnswerKinds
<1>16. OrderInv'
  BY <1>1, <1>3, <1>4, <1>10, <1>15, AnswersInOrder
<1>17. ASSUME NEW u \in Thread,
              \A i \in DOMAIN events : events[i].thread = u => events[i].kind \notin TurnKinds
       PROVE  Silent(u, events', pending', admission'.held)
  <2>1. DOMAIN admission'.held = {} /\ pending'.thread # u
    BY <1>1, <1>2, <1>3, NoAdmissionIs
  <2> QED BY <1>2, <1>4, <1>10, <1>17, <2>1 DEF Silent, TurnKinds
<1>18. AskedInv'
  <2> SUFFICES ASSUME Asking' PROVE (AskedLast /\ AskedQueued /\ AskedRead /\ AskedAnswered /\ AskedSomewhere)'
    BY DEF AskedInv
  <2>1. Asking /\ AskedLast /\ AskedQueued /\ AskedRead /\ AskedAnswered /\ AskedSomewhere
    BY <1>1 DEF StreamInv, AskedInv, Asking
  <2>2. v \in Thread
    BY <2>1, <1>2 DEF AskedLast, Thread0
  <2>3. AskedLast' /\ AskedRead'
    BY <1>1, <2>1 DEF AskedLast, AskedRead
  <2>4. AskedQueued'
    <3> SUFFICES ASSUME NEW i \in DOMAIN ops, ops[i].submission = submissions
                 PROVE  /\ ops[i].thread = v
                        /\ view.loaded => Silent(v, events', pending', admission'.held) /\ turn[v] = "over"
      BY <1>1 DEF AskedQueued
    <3>1. /\ ops[i].thread = v
          /\ view.loaded => Silent(v, events, pending, held) /\ turn[v] = "over"
      BY <1>3, <2>1 DEF AskedQueued
    <3> QED BY <1>17, <2>2, <3>1 DEF Silent
  <2>5. ASSUME admission.submission = submissions PROVE Gone'
    <3>1. t = v /\ (view.loaded => NoneBefore(v, admission.cursor, events))
      BY <1>3, <2>1, <2>5 DEF AskedRead
    <3>2. ASSUME view.loaded, NEW i \in DOMAIN events, events[i].thread = v
          PROVE  events[i].kind \notin TurnKinds
      <4>1. Later(admission.cursor, events[i].cursor)
        BY <1>3, <3>1, <3>2 DEF StreamInv, ChannelInv
      <4>2. events[i].cursor \in Cursor
        BY <1>2, EventTypes
      <4>3. ~Later(events[i].cursor, admission.cursor)
        BY <1>2, <4>1, <4>2, LaterRules DEF LaterRule
      <4> QED BY <3>1, <3>2, <4>3 DEF NoneBefore
    <3>3. view.loaded => Silent(v, events', pending', admission'.held)
      BY <1>17, <2>2, <3>2
    <3> QED BY <1>1, <3>1, <3>3 DEF Gone
  <2>6. ASSUME NEW i \in DOMAIN events', IsNewest(events[i])' PROVE AnswersWell(events[i])'
    <3>1. i \notin DOMAIN events
      <4> SUFFICES ASSUME i \in DOMAIN events PROVE FALSE
        OBVIOUS
      <4>1. events'[i] = events[i] /\ events[i].submission = submissions /\ events[i].kind \in AnswerKinds
        BY <1>1, <1>10, <2>6 DEF IsNewest
      <4>2. submissions < admission.submission
        BY <1>3, <4>1 DEF StreamInv, OrderInv
      <4> QED BY <1>2, <1>3, <4>2
    <3>2. i = l /\ events'[i] = b
      BY <1>15, <2>6, <3>1 DEF IsNewest
    <3>3. admission.submission = submissions
      BY <1>1, <1>4, <2>6, <3>2 DEF IsNewest
    <3>4. ~HasSnapshot(events'[i])
      BY <1>4, <3>2
    <3> QED BY <2>5, <3>3, <3>4 DEF AnswersWell
  <2>7. AskedAnswered'
    BY <2>6 DEF AskedAnswered
  <2>8. AskedSomewhere'
    <3>1. CASE \E i \in DOMAIN ops : ops[i].submission = submissions
      BY <3>1, <1>1 DEF AskedSomewhere
    <3>2. CASE admission.submission = submissions
      BY <2>5, <3>2 DEF AskedSomewhere
    <3>3. CASE \E i \in DOMAIN events : IsNewest(events[i])
      BY <3>3, <1>1, <1>10 DEF AskedSomewhere, IsNewest
    <3>4. CASE Gone
      BY <3>4, <1>1, <1>17, <2>2 DEF AskedSomewhere, Gone, Silent
    <3> QED BY <2>1, <3>1, <3>2, <3>3, <3>4 DEF AskedSomewhere
  <2> QED BY <2>3, <2>4, <2>7, <2>8
<1>19. HeardInv'
  BY <1>1, <1>3 DEF StreamInv, HeardInv
<1> QED BY <1>11, <1>12, <1>13, <1>14, <1>16, <1>18, <1>19 DEF StreamInv

-----------------------------------------------------------------------------
(* The port and the worker come and go. *)

\* Nothing is on its way: after LosePort and StopWorker, and before a worker has started.
LEMMA EmptyChannel ==
  ASSUME NEW C, NEW E, NEW S, NEW P, NEW V, NEW T
  PROVE  /\ Channel(<<>>, NoPending, NoAdmission.held, 0, C, E, S, P, V, T)
         /\ NoAdmission.held = <<>> /\ DOMAIN NoAdmission.held = {} /\ DOMAIN <<>> = {}
<1>1. NoAdmission.held = <<>> /\ DOMAIN <<>> = {} /\ <<>> \in Seq(Event) /\ NoPending \in PendingType
  BY NoAdmissionIs
<1> QED BY <1>1 DEF Channel, Queued

LEMMA LosePortKeeps ==
  ASSUME StreamInv, LosePort
  PROVE  StreamInv'
<1>1. /\ stops' = stops + 1 /\ stops < MaxStops /\ subscribed' = NoThread /\ admission' = NoAdmission
      /\ pending' = NoPending /\ ops' = <<>> /\ events' = <<>> /\ open' = FALSE /\ connected' = FALSE
      /\ UNCHANGED <<exists, written, announced, pieces, turn, epoch, sequence, cursors, expected,
                     submissions, view>>
  BY DEF LosePort
<1>2. /\ stops \in 0 .. MaxStops /\ MaxStops \in Nat /\ epoch \in Nat /\ cursors \in [Thread -> Cursor]
      /\ StreamTypeOK
  BY StreamAssumption DEF StreamInv, StreamTypeOK
<1>3. StreamTypeOK'
  <2>0. <<>> \in Seq(OpType) /\ <<>> \in Seq(Event)
    OBVIOUS
  <2>1. stops' \in 0 .. MaxStops
    BY <1>1, <1>2
  <2>2. /\ admission' \in AdmissionType /\ pending' \in PendingType /\ ops' \in Seq(OpType)
        /\ events' \in Seq(Event) /\ subscribed' \in Thread0 /\ open' \in BOOLEAN /\ connected' \in BOOLEAN
    BY <1>1, <2>0, NoAdmissionIs DEF Thread0
  <2> QED BY <1>1, <1>2, <2>1, <2>2 DEF StreamTypeOK, AdmissionType, PendingType, OpType, Thread0
<1>4. PortInv' /\ ChannelInv' /\ OrderInv'
  BY <1>1, EmptyChannel DEF PortInv, ChannelInv, OrderInv
<1>5. CountInv'
  <2>1. \A t \in Thread : cursors[t][1] \in Nat
    BY <1>2 DEF Cursor
  <2>0. stops' = stops + 1 /\ stops \in Nat /\ epoch \in Nat /\ epoch <= stops + 1
    BY <1>1, <1>2 DEF StreamInv, CountInv
  <2>2. ASSUME NEW t \in Thread, epoch = 0 PROVE cursors[t][1] <= stops'
    <3>1. cursors[t][1] <= stops
      BY <2>2 DEF StreamInv, CountInv
    <3> QED BY <2>0, <2>1, <3>1
  <2>3. epoch <= stops' + 1
    BY <2>0
  <2> QED BY <1>1, <2>2, <2>3 DEF StreamInv, CountInv
<1>6. ViewInv' /\ AskedInv' /\ HeardInv'
  BY <1>1 DEF StreamInv, ViewInv, AskedInv, Asking, HeardInv
<1> QED BY <1>3, <1>4, <1>5, <1>6 DEF StreamInv

LEMMA StopWorkerKeeps ==
  ASSUME StreamInv, StopWorker
  PROVE  StreamInv'
<1>1. /\ stops' = stops + 1 /\ stops < MaxStops /\ subscribed' = NoThread /\ admission' = NoAdmission
      /\ pending' = NoPending /\ ops' = <<>> /\ events' = <<>> /\ open' = FALSE /\ connected' = FALSE
      /\ epoch > 0 /\ epoch' = 0 /\ announced' = written
      /\ turn' = [t \in Thread |-> IF turn[t] = "live" THEN "over" ELSE turn[t]]
      /\ sequence' = [t \in Thread |-> 0]
      /\ UNCHANGED <<exists, written, pieces, cursors, expected, submissions, view>>
  BY DEF StopWorker
<1>2. /\ stops \in 0 .. MaxStops /\ MaxStops \in Nat /\ epoch \in Nat /\ cursors \in [Thread -> Cursor]
      /\ StreamTypeOK /\ written \in [Thread -> 0 .. MaxFacts + 1] /\ MaxFacts \in Nat
      /\ turn \in [Thread -> {"none", "live", "over"}] /\ sequence \in [Thread -> Nat]
  BY StreamAssumption DEF StreamInv, StreamTypeOK
<1>3. StreamTypeOK'
  <2>0. <<>> \in Seq(OpType) /\ <<>> \in Seq(Event)
    OBVIOUS
  <2>1. stops' \in 0 .. MaxStops /\ epoch' \in Nat /\ sequence' \in [Thread -> Nat]
        /\ turn' \in [Thread -> {"none", "live", "over"}]
        /\ announced' \in [Thread -> 0 .. MaxFacts + 1]
    BY <1>1, <1>2
  <2>2. /\ admission' \in AdmissionType /\ pending' \in PendingType /\ ops' \in Seq(OpType)
        /\ events' \in Seq(Event) /\ subscribed' \in Thread0 /\ open' \in BOOLEAN /\ connected' \in BOOLEAN
    BY <1>1, <2>0, NoAdmissionIs DEF Thread0
  <2> QED BY <1>1, <1>2, <2>1, <2>2 DEF StreamTypeOK, AdmissionType, PendingType, OpType, Thread0
<1>4. PortInv' /\ ChannelInv' /\ OrderInv'
  BY <1>1, EmptyChannel DEF PortInv, ChannelInv, OrderInv
<1>5. CountInv'
  <2>1. \A t \in Thread : cursors[t][1] \in Nat /\ sequence[t] \in Nat
    BY <1>2 DEF Cursor
  <2>2. \A t \in Thread : cursors[t][1] <= stops'
    BY <1>1, <1>2, <2>1 DEF StreamInv, CountInv, Later
  <2>3. \A t \in Thread : /\ announced'[t] <= written'[t]
                          /\ turn'[t] # "over" => written'[t] <= MaxFacts
    BY <1>1, <1>2 DEF StreamInv, CountInv
  <2> QED BY <1>1, <1>2, <2>2, <2>3 DEF CountInv
<1>6. ViewInv' /\ AskedInv' /\ HeardInv'
  BY <1>1 DEF StreamInv, ViewInv, AskedInv, Asking, HeardInv
<1> QED BY <1>3, <1>4, <1>5, <1>6 DEF StreamInv

LEMMA StartWorkerKeeps ==
  ASSUME StreamInv, StartWorker
  PROVE  StreamInv'
<1>1. /\ epoch = 0 /\ epoch' = stops + 1
      /\ UNCHANGED <<exists, written, announced, pieces, turn, stops, sequence, subscribed, admission,
                     pending, ops, events, open, connected, cursors, expected, submissions, view>>
  BY DEF StartWorker
<1>2. /\ stops \in 0 .. MaxStops /\ MaxStops \in Nat /\ cursors \in [Thread -> Cursor] /\ StreamTypeOK
      /\ sequence \in [Thread -> Nat]
  BY StreamAssumption DEF StreamInv, StreamTypeOK
<1>3. events = <<>> /\ admission = NoAdmission /\ pending = NoPending /\ subscribed = NoThread
  BY <1>1 DEF StreamInv, PortInv
<1>4. StreamTypeOK'
  <2>1. epoch' \in Nat
    BY <1>1, <1>2
  <2>2. admission' \in AdmissionType /\ pending' \in PendingType
    BY <1>1, <1>3, NoAdmissionIs
  <2> QED BY <1>1, <1>2, <2>1, <2>2 DEF StreamTypeOK, AdmissionType, PendingType, Thread0
<1>5. ChannelInv'
  BY <1>1, <1>3, EmptyChannel DEF ChannelInv
<1>6. PortInv' /\ OrderInv' /\ ViewInv' /\ AskedInv' /\ HeardInv'
  BY <1>1, <1>3, EmptyChannel DEF StreamInv, PortInv, OrderInv, ViewInv, AskedInv, Asking, AskedLast, AskedQueued,
         AskedRead, AskedAnswered, AskedSomewhere, AnswersWell, IsNewest, Gone, HeardInv, Streamed, Shown
<1>7. CountInv'
  <2>1. \A t \in Thread : cursors[t][1] \in Nat /\ sequence[t] \in Nat /\ cursors[t][1] <= stops
    BY <1>1, <1>2 DEF StreamInv, CountInv, Cursor
  <2>2. \A t \in Thread : ~Later(cursors[t], <<epoch', sequence[t]>>)
    BY <1>1, <1>2, <2>1 DEF Later
  <2> QED BY <1>1, <1>2, <2>2 DEF StreamInv, CountInv
<1> QED BY <1>4, <1>5, <1>6, <1>7 DEF StreamInv

-----------------------------------------------------------------------------
(* The page reads what is on the port. *)

Takes == open /\ events # <<>> /\ events' = Tail(events) /\ Quiet
Shifted(q, r) ==
  /\ \A i \in DOMAIN r : i + 1 \in DOMAIN q /\ r[i] = q[i + 1] /\ i + 1 # 1 /\ i \in Nat
  /\ \A i \in DOMAIN q : i # 1 => i - 1 \in DOMAIN r /\ r[i - 1] = q[i] /\ i \in Nat

\* The first event on the port comes before all others.
LEMMA TakenFirst ==
  ASSUME StreamInv, Takes
  PROVE  /\ Received \in Event /\ Received = events[1] /\ 1 \in DOMAIN events
         /\ events \in Seq(Event) /\ events' \in Seq(Event) /\ Shifted(events, events')
         /\ Kinded(Received) /\ Sound(Received) /\ epoch > 0
         /\ \A i \in DOMAIN events : i # 1 => Before(Received, events[i])
         /\ pending # NoPending => Before(Received, Carried(pending))
         /\ \A j \in DOMAIN admission.held : Before(Received, admission.held[j])
         /\ UNCHANGED <<exists, written, announced, pieces, turn, sequence, subscribed, admission, pending,
                        epoch, stops, open>>
<1>1. /\ events # <<>> /\ events' = Tail(events)
      /\ UNCHANGED <<exists, written, announced, pieces, turn, sequence, subscribed, admission, pending,
                     epoch, stops, open>>
  BY DEF Takes, Quiet
<1>2. /\ events \in Seq(Event) /\ epoch \in Nat /\ admission.held \in Seq(Event)
  BY Types, FieldTypes DEF StreamInv
<1>3. /\ Received \in Event /\ Received = events[1] /\ 1 \in DOMAIN events
      /\ events' \in Seq(Event) /\ Shifted(events, events')
  BY <1>1, <1>2, Taken DEF Received, Shifted
<1>4. Kinded(Received) /\ epoch > 0
  <2>1. Kinded(events[1]) /\ epoch # 0
    BY <1>1, <1>3 DEF StreamInv, ChannelInv, PortInv
  <2> QED BY <1>2, <1>3, <2>1
<1>5. /\ Queued(events, pending, admission.held, 0)
      /\ \A i \in DOMAIN events : Sound(events[i])
  BY DEF StreamInv, ChannelInv, Channel, Sound
<1>6. \A i \in DOMAIN events : i # 1 => Before(events[1], events[i])
  <2>1. \A i \in DOMAIN events : i # 1 => 1 < i
    BY <1>2
  <2> QED BY <1>3, <1>5, <2>1 DEF Queued
<1>7. \A j \in DOMAIN admission.held : j > 0
  BY <1>2
<1> QED BY <1>1, <1>2, <1>3, <1>4, <1>5, <1>6, <1>7 DEF Queued

\* The first event is not part of what is shown from c on.
Passes(e, u, c) == e.kind \notin LiveKinds \/ e.thread # u \/ ~Later(e.cursor, c)

LEMMA TakenMoves ==
  ASSUME StreamInv, Takes, NEW u \in Thread
  PROVE  /\ Silent(u, events, pending, admission.held) => Silent(u, events', pending', admission'.held)
         /\ \A c : NoneBefore(u, c, events) => NoneBefore(u, c, events')
         /\ \A c : Adds(c, Received, events', pending', admission'.held, events, pending, admission.held)
<1>1. /\ Received \in Event /\ Received = events[1] /\ Shifted(events, events') /\ events # <<>>
      /\ UNCHANGED <<admission, pending>> /\ events' = Tail(events)
  BY TakenFirst DEF Takes
<1>2. \A i \in DOMAIN events' : \E j \in DOMAIN events : events'[i] = events[j]
  BY <1>1 DEF Shifted
<1>3. Silent(u, events, pending, admission.held) => Silent(u, events', pending', admission'.held)
  BY <1>1, <1>2 DEF Silent
<1>4. \A c : NoneBefore(u, c, events) => NoneBefore(u, c, events')
  BY <1>2 DEF NoneBefore
<1>5. \A c : Adds(c, Received, events', pending', admission'.held, events, pending, admission.held)
  <2>1. Channel(events, pending, admission.held, 0, cursors, epoch, sequence, pieces, view, turn)
    BY DEF StreamInv, ChannelInv
  <2>2. /\ \A w \in Thread : cursors[w] = cursors[w] \/ (w = Head(events).thread /\ cursors[w] = Head(events).cursor)
        /\ \A w \in Thread : view.thread = w => \A j \in DOMAIN view.text :
             \/ view.thread = w /\ Among(view.text[j], view.text)
             \/ /\ Head(events).kind = "piece" /\ Head(events).thread = w
                /\ Among(view.text[j], Head(events).numbers)
    BY DEF Among
  <2>3. \A c : Adds(c, Head(events), Tail(events), pending, admission.held, events, pending, admission.held)
    BY <1>1, <2>1, <2>2, HeadKeeps
  <2> QED BY <1>1, <2>3 DEF Received
<1> QED BY <1>3, <1>4, <1>5

LEMMA TakenPasses ==
  ASSUME StreamInv, Takes, NEW u \in Thread, NEW c, Passes(Received, u, c)
  PROVE  /\ \A n \in Nat : DeltaIn(u, c, n, events', pending', admission'.held, 0)
                             <=> DeltaIn(u, c, n, events, pending, admission.held, 0)
         /\ \A T : Hears(u, c, T, events, pending, admission.held, pieces[u])
                     => Hears(u, c, T, events', pending', admission'.held, pieces'[u])
         /\ \A F : Knows(u, c, F, events, admission.held, announced[u])
                     => Knows(u, c, F, events', admission'.held, announced'[u])
<1>1. Adds(c, Received, events', pending', admission'.held, events, pending, admission.held)
  BY TakenMoves
<1>2. pieces' = pieces /\ announced' = announced /\ pieces[u] \in Nat /\ announced[u] \in Nat
  <2>1. pieces' = pieces /\ announced' = announced
    BY TakenFirst
  <2> QED BY <2>1, Types DEF StreamInv
<1>3. \A n \in Nat : /\ DeltaIn(u, c, n, events', pending', admission'.held, 0)
                          <=> DeltaIn(u, c, n, events, pending, admission.held, 0)
                     /\ ItemIn(u, c, n, events', admission'.held, 0)
                          <=> ItemIn(u, c, n, events, admission.held, 0)
  BY <1>1 DEF Adds, Passes, LiveKinds
<1>4. \A T : Hears(u, c, T, events, pending, admission.held, pieces[u])
               => Hears(u, c, T, events', pending', admission'.held, pieces[u])
  BY <1>2, <1>3, HearsSame
<1>5. \A n \in 1 .. announced[u] : n \in Nat
  OBVIOUS
<1>6. \A F : Knows(u, c, F, events, admission.held, announced[u])
               => Knows(u, c, F, events', admission'.held, announced[u])
  BY <1>3, <1>5 DEF Knows
<1> QED BY <1>2, <1>3, <1>4, <1>6

\* What the page has heard of grows at most by the first event.
HearsHead ==
  /\ cursors' \in [Thread -> Cursor]
  /\ \A u \in Thread : cursors'[u] = cursors[u]
                       \/ (u = Received.thread /\ cursors'[u] = Received.cursor)
  /\ \A u \in Thread : view'.thread = u => \A j \in DOMAIN view'.text :
       \/ view.thread = u /\ Among(view'.text[j], view.text)
       \/ /\ Received.kind = "piece" /\ Received.thread = u
          /\ Among(view'.text[j], Received.numbers)
SubmitsMore == submissions' \in 0 .. MaxSubmissions /\ submissions <= submissions'

LEMMA TakenTypes ==
  ASSUME StreamInv, Takes, HearsHead, SubmitsMore, ops' \in Seq(OpType), connected' \in BOOLEAN,
         expected' \in [submission : Nat, thread : Thread0], view' \in ViewType
  PROVE  StreamTypeOK'
<1>1. /\ UNCHANGED <<exists, written, announced, pieces, turn, sequence, subscribed, admission, pending,
                     epoch, stops, open>>
      /\ events' \in Seq(Event)
  BY TakenFirst
<1>2. StreamTypeOK /\ admission \in AdmissionType /\ pending \in PendingType
  BY Types DEF StreamInv
<1> QED BY <1>1, <1>2 DEF StreamTypeOK, AdmissionType, PendingType, OpType, ViewType, Thread0, HearsHead,
             SubmitsMore

LEMMA TakenKinds ==
  ASSUME StreamInv, Takes, SubmitsMore
  PROVE  \A i \in DOMAIN events' : Kinded(events[i])'
<1> SUFFICES ASSUME NEW i \in DOMAIN events' PROVE Kinded(events[i])'
  OBVIOUS
<1>1. events'[i] = events[i + 1] /\ i + 1 \in DOMAIN events /\ events[i + 1] \in Event
  BY TakenFirst DEF Shifted
<1>2. Kinded(events[i + 1])
  BY <1>1 DEF StreamInv, ChannelInv
<1>3. submissions \in Nat /\ submissions' \in Nat /\ submissions <= submissions'
      /\ events[i + 1].submission \in Nat
  BY <1>1, Types, EventTypes DEF StreamInv, SubmitsMore
<1> QED BY <1>1, <1>2, <1>3 DEF Kinded

LEMMA TakenChannel ==
  ASSUME StreamInv, Takes, HearsHead, SubmitsMore
  PROVE  PortInv' /\ CountInv' /\ ChannelInv'
<1>1. /\ UNCHANGED <<exists, written, announced, pieces, turn, sequence, subscribed, admission, pending,
                     epoch, stops, open>>
      /\ Received \in Event /\ Received = events[1] /\ 1 \in DOMAIN events /\ epoch > 0
      /\ Shifted(events, events') /\ Sound(Received)
  BY TakenFirst
<1>2. events # <<>> /\ events' = Tail(events) /\ open
  BY DEF Takes
<1>3. PortInv'
  <2>1. submissions \in Nat /\ submissions' \in Nat /\ admission.submission \in Nat
    BY Types, FieldTypes DEF StreamInv, SubmitsMore
  <2>2. admission.submission \in 1 .. submissions => admission.submission \in 1 .. submissions'
    BY <2>1 DEF SubmitsMore
  <2> QED BY <1>1, <1>2, <2>2 DEF StreamInv, PortInv
<1>4. CountInv'
  <2>1. \A t \in Thread : ~Later(cursors'[t], <<epoch, sequence[t]>>)
    <3>1. \A t \in Thread : ~Later(cursors[t], <<epoch, sequence[t]>>)
      BY <1>1 DEF StreamInv, CountInv
    <3> QED BY <1>1, <3>1 DEF Sound, SoundAt, HearsHead
  <2>2. epoch # 0
    BY <1>1
  <2> QED BY <1>1, <2>1, <2>2 DEF StreamInv, CountInv
<1>5. Channel(events', pending', admission'.held, 0, cursors', epoch', sequence', pieces', view', turn')
  <2>1. Channel(events, pending, admission.held, 0, cursors, epoch, sequence, pieces, view, turn)
    BY DEF StreamInv, ChannelInv
  <2>2. /\ \A u \in Thread : cursors'[u] = cursors[u]
                             \/ (u = Head(events).thread /\ cursors'[u] = Head(events).cursor)
        /\ \A u \in Thread : view'.thread = u => \A j \in DOMAIN view'.text :
             \/ view.thread = u /\ Among(view'.text[j], view.text)
             \/ /\ Head(events).kind = "piece" /\ Head(events).thread = u
                /\ Among(view'.text[j], Head(events).numbers)
    BY DEF HearsHead, Received
  <2>3. Channel(Tail(events), pending, admission.held, 0, cursors', epoch, sequence, pieces, view', turn)
    BY <1>2, <2>1, <2>2, HeadKeeps
  <2> QED BY <1>1, <1>2, <2>3
<1>6. admission # NoAdmission =>
        /\ Later(admission.cursor, cursors'[admission.thread])
        /\ \A i \in DOMAIN events' :
             events'[i].thread = admission.thread => Later(admission.cursor, events'[i].cursor)
  <2> SUFFICES ASSUME admission # NoAdmission
               PROVE  /\ Later(admission.cursor, cursors'[admission.thread])
                      /\ \A i \in DOMAIN events' :
                           events'[i].thread = admission.thread
                             => Later(admission.cursor, events'[i].cursor)
    OBVIOUS
  <2>1. /\ Later(admission.cursor, cursors[admission.thread])
        /\ \A i \in DOMAIN events :
             events[i].thread = admission.thread => Later(admission.cursor, events[i].cursor)
    BY DEF StreamInv, ChannelInv
  <2>2. admission.thread \in Thread
    BY FieldTypes DEF StreamInv, PortInv, Thread0
  <2>3. cursors'[admission.thread] = cursors[admission.thread]
        \/ (admission.thread = Received.thread /\ cursors'[admission.thread] = Received.cursor)
    BY <2>2 DEF HearsHead
  <2>4. \A i \in DOMAIN events' : i + 1 \in DOMAIN events /\ events'[i] = events[i + 1]
    BY <1>1 DEF Shifted
  <2> QED BY <1>1, <2>1, <2>3, <2>4
<1>7. admission # NoAdmission => ~Later(admission.cursor, <<epoch, sequence[admission.thread]>>)
  BY DEF StreamInv, ChannelInv
<1>8. \A i \in DOMAIN events' : Kinded(events[i])'
  BY TakenKinds
<1> QED BY <1>1, <1>3, <1>4, <1>5, <1>6, <1>7, <1>8 DEF ChannelInv

LEMMA TakenOrder ==
  ASSUME StreamInv, Takes, UNCHANGED <<ops, submissions>>
  PROVE  OrderInv'
<1>1. /\ UNCHANGED <<ops, submissions, admission>> /\ Shifted(events, events') /\ OrderInv
  BY TakenFirst DEF StreamInv
<1>2. \A i \in DOMAIN events' : i + 1 \in DOMAIN events /\ events'[i] = events[i + 1] /\ i \in Nat
  BY <1>1 DEF Shifted
<1>3. \A i, j \in DOMAIN events' : i < j => i + 1 < j + 1
  BY <1>2
<1> QED BY <1>1, <1>2, <1>3 DEF OrderInv

\* What the page has asked for last is still where it was.
LEMMA TakenAsked ==
  ASSUME StreamInv, Takes, UNCHANGED <<ops, submissions, expected>>,
         view'.thread = view.thread, view'.loaded = view.loaded, view'.revision = view.revision,
         Asking /\ IsNewest(Received) => Gone
  PROVE  AskedInv'
<1> DEFINE v == view.thread
           e == Received
<1>1. /\ UNCHANGED <<ops, submissions, expected, exists, written, announced, pieces, turn, subscribed,
                     admission, pending, open>>
      /\ e \in Event /\ e = events[1] /\ 1 \in DOMAIN events /\ Shifted(events, events')
      /\ events \in Seq(Event) /\ \A i \in DOMAIN events : i # 1 => Before(e, events[i])
      /\ Kinded(e)
  BY TakenFirst
<1> SUFFICES ASSUME Asking PROVE (AskedLast /\ AskedQueued /\ AskedRead /\ AskedAnswered /\ AskedSomewhere)'
  BY <1>1 DEF AskedInv, Asking
<1>2. AskedLast /\ AskedQueued /\ AskedRead /\ AskedAnswered /\ AskedSomewhere
  BY DEF StreamInv, AskedInv
<1>3. v \in Thread /\ admission.cursor \in Cursor /\ e.cursor \in Cursor
  BY <1>1, <1>2, FieldTypes, EventTypes DEF StreamInv, AskedLast, Thread0
<1>4. /\ Silent(v, events, pending, admission.held) => Silent(v, events', pending', admission'.held)
      /\ \A c : NoneBefore(v, c, events) => NoneBefore(v, c, events')
  BY <1>3, TakenMoves
<1>5. AskedLast' /\ AskedQueued'
  BY <1>1, <1>2, <1>4 DEF AskedLast, AskedQueued
<1>6. AskedRead'
  <2> SUFFICES ASSUME admission # NoAdmission, admission.submission = submissions
               PROVE  /\ admission.thread = v
                      /\ Hears(v, admission.cursor, {}, events', pending', admission'.held, pieces'[v])
                      /\ view.loaded => NoneBefore(v, admission.cursor, events')
                      /\ view.loaded /\ admission.stage = "rest" => view.revision <= admission.revision
                      /\ admission.revision <= written[v]
    BY <1>1 DEF AskedRead
  <2>1. /\ admission.thread = v
        /\ Hears(v, admission.cursor, {}, events, pending, admission.held, pieces[v])
        /\ view.loaded => NoneBefore(v, admission.cursor, events)
        /\ view.loaded /\ admission.stage = "rest" => view.revision <= admission.revision
        /\ admission.revision <= written[v]
    BY <1>2 DEF AskedRead
  <2>2. Passes(e, v, admission.cursor)
    <3>1. e.thread = v => Later(admission.cursor, e.cursor)
      BY <1>1, <2>1 DEF StreamInv, ChannelInv
    <3> QED BY <1>3, <3>1, LaterRules DEF Passes, LaterRule
  <2>3. Hears(v, admission.cursor, {}, events', pending', admission'.held, pieces'[v])
    BY <1>3, <2>1, <2>2, TakenPasses
  <2> QED BY <1>4, <2>1, <2>3
<1>7. ASSUME NEW i \in DOMAIN events', IsNewest(events[i])' PROVE AnswersWell(events[i])'
  <2> DEFINE a == events[i + 1]
  <2>1. i + 1 \in DOMAIN events /\ events'[i] = a /\ i + 1 # 1 /\ a \in Event /\ a.cursor \in Cursor
    BY <1>1, EventTypes DEF Shifted
  <2>2. IsNewest(a)
    BY <1>1, <1>7, <2>1 DEF IsNewest
  <2>3. AnswersWell(a)
    BY <1>2, <2>1, <2>2 DEF AskedAnswered
  <2>4. CASE ~HasSnapshot(a)
    BY <1>1, <1>4, <2>1, <2>3, <2>4 DEF AnswersWell, Gone
  <2>5. CASE HasSnapshot(a)
    <3>1. a.thread = v /\ Before(e, a)
      BY <1>1, <2>1, <2>3, <2>5 DEF AnswersWell
    <3>2. Passes(e, v, a.cursor)
      <4>1. e.thread = v => Later(a.cursor, e.cursor)
        BY <1>3, <3>1 DEF Before
      <4> QED BY <1>3, <2>1, <4>1, LaterRules DEF Passes, LaterRule
    <3>3. /\ \A T : Hears(v, a.cursor, T, events, pending, admission.held, pieces[v])
                      => Hears(v, a.cursor, T, events', pending', admission'.held, pieces'[v])
          /\ \A F : Knows(v, a.cursor, F, events, admission.held, announced[v])
                      => Knows(v, a.cursor, F, events', admission'.held, announced'[v])
      BY <1>3, <3>2, TakenPasses
    <3> HIDE DEF a
    <3> QED BY <1>1, <1>4, <2>1, <2>3, <2>5, <3>3 DEF AnswersWell
  <2> QED BY <2>4, <2>5
<1>8. AskedAnswered'
  BY <1>7 DEF AskedAnswered
<1>9. AskedSomewhere'
  <2>1. CASE \E i \in DOMAIN ops : ops[i].submission = submissions
    BY <2>1, <1>1 DEF AskedSomewhere
  <2>2. CASE admission # NoAdmission /\ admission.submission = submissions
    BY <2>2, <1>1 DEF AskedSomewhere
  <2>3. CASE Gone
    BY <2>3, <1>1, <1>4 DEF AskedSomewhere, Gone
  <2>4. CASE \E i \in DOMAIN events : IsNewest(events[i])
    <3>1. PICK i \in DOMAIN events : IsNewest(events[i])
      BY <2>4
    <3>2. CASE i = 1
      BY <1>1, <2>3, <3>1, <3>2
    <3>3. CASE i # 1
      <4>1. i - 1 \in DOMAIN events' /\ events'[i - 1] = events[i]
        BY <1>1, <3>3 DEF Shifted
      <4> QED BY <1>1, <3>1, <4>1 DEF AskedSomewhere, IsNewest
    <3> QED BY <3>2, <3>3
  <2> QED BY <1>2, <2>1, <2>2, <2>3, <2>4 DEF AskedSomewhere
<1> QED BY <1>5, <1>6, <1>8, <1>9

\* An event that the page makes nothing of: of another thread, or an answer to an older question.
LEMMA SkipKeeps ==
  ASSUME StreamInv, Takes, UNCHANGED <<ops, cursors, expected, submissions, view>>,
         connected' \in BOOLEAN, Received.kind \in LiveKinds => Received.thread # view.thread,
         Asking /\ IsNewest(Received) => Gone
  PROVE  StreamInv'
<1>1. /\ cursors \in [Thread -> Cursor] /\ submissions \in 0 .. MaxSubmissions /\ ops \in Seq(OpType)
      /\ expected \in [submission : Nat, thread : Thread0] /\ view \in ViewType
  <2>1. submissions \in 0 .. MaxSubmissions
    BY DEF StreamInv, StreamTypeOK
  <2> QED BY <2>1, Types DEF StreamInv
<1>2. HearsHead /\ SubmitsMore
  BY <1>1 DEF HearsHead, SubmitsMore, Among
<1>3. StreamTypeOK'
  BY <1>1, <1>2, TakenTypes
<1>4. PortInv' /\ CountInv' /\ ChannelInv' /\ OrderInv' /\ AskedInv'
  BY <1>2, TakenChannel, TakenOrder, TakenAsked
<1>5. /\ UNCHANGED <<exists, written, announced, pieces, turn, subscribed, admission, pending, open>>
  BY TakenFirst
<1>6. ViewInv'
  BY <1>5 DEF StreamInv, ViewInv
<1>7. HeardInv'
  <2> SUFFICES ASSUME open, expected.submission = 0, view.thread # NoThread PROVE HeardInv'
    BY <1>5 DEF HeardInv
  <2>1. view.thread \in Thread
    BY FieldTypes DEF StreamInv, Thread0
  <2>2. Passes(Received, view.thread, NoCursor)
    BY DEF Passes
  <2>3. /\ \A T : Hears(view.thread, NoCursor, T, events, pending, admission.held, pieces[view.thread])
                    => Hears(view.thread, NoCursor, T, events', pending', admission'.held,
                             pieces'[view.thread])
        /\ \A F : Knows(view.thread, NoCursor, F, events, admission.held, announced[view.thread])
                    => Knows(view.thread, NoCursor, F, events', admission'.held,
                             announced'[view.thread])
    BY <2>1, <2>2, TakenPasses
  <2> QED BY <1>5, <2>3 DEF StreamInv, HeardInv, Streamed, Shown
<1> QED BY <1>3, <1>4, <1>6, <1>7 DEF StreamInv

LEMMA IgnoreEventKeeps ==
  ASSUME StreamInv, IgnoreEvent
  PROVE  StreamInv'
<1>1. Takes /\ UNCHANGED <<ops, cursors, expected, submissions, view, connected>>
      /\ Received.kind \in LiveKinds /\ ~Admitted(Received)
  BY DEF IgnoreEvent, Take, Takes, LiveKinds
<1>2. Sound(Received) /\ Kinded(Received)
  BY <1>1, TakenFirst
<1>3. Received.thread # view.thread
  BY <1>1, <1>2 DEF Sound, SoundAt, Kinded, Admitted, CursorAdvances
<1>4. ~IsNewest(Received)
  BY <1>1 DEF IsNewest, LiveKinds, AnswerKinds
<1>5. connected' \in BOOLEAN
  BY <1>1 DEF StreamInv, StreamTypeOK
<1> QED BY <1>1, <1>3, <1>4, <1>5, SkipKeeps

LEMMA IgnoreSnapshotKeeps ==
  ASSUME StreamInv, IgnoreSnapshot
  PROVE  StreamInv'
<1>1. Takes /\ UNCHANGED <<ops, cursors, expected, submissions, view, connected>>
      /\ Received.kind = "initialized" /\ HasSnapshot(Received) /\ ~Expects(Received)
  BY DEF IgnoreSnapshot, Take, Takes
<1>2. Sound(Received) /\ Kinded(Received) /\ Received = events[1] /\ 1 \in DOMAIN events
  BY <1>1, TakenFirst
<1>3. ASSUME Asking, IsNewest(Received) PROVE FALSE
  <2>1. AskedLast /\ AnswersWell(Received)
    BY <1>2, <1>3 DEF StreamInv, AskedInv, AskedAnswered
  <2>2. /\ Received.submission = expected.submission /\ Received.thread = expected.thread
    BY <1>1, <1>3, <2>1 DEF AskedLast, AnswersWell, IsNewest
  <2>3. Received.thread \in Thread
    BY <1>1, <1>2 DEF Kinded, AnswerKinds
  <2> QED BY <1>1, <1>2, <2>2, <2>3 DEF Expects, CursorAdvances, Sound, SoundAt
<1>4. connected' \in BOOLEAN /\ Received.kind \notin LiveKinds
  BY <1>1 DEF StreamInv, StreamTypeOK, LiveKinds
<1> QED BY <1>1, <1>3, <1>4, SkipKeeps

LEMMA ApplyInitializedKeeps ==
  ASSUME StreamInv, ApplyInitialized
  PROVE  StreamInv'
<1>1. Takes /\ UNCHANGED <<ops, cursors, expected, submissions, view>> /\ connected' = TRUE
      /\ Received.kind = "initialized" /\ ~HasSnapshot(Received)
  BY DEF ApplyInitialized, Take, Takes
<1>2. Received = events[1] /\ 1 \in DOMAIN events
  BY <1>1, TakenFirst
<1>3. ASSUME Asking, IsNewest(Received) PROVE Gone
  BY <1>1, <1>2, <1>3 DEF StreamInv, AskedInv, AskedAnswered, AnswersWell
<1>4. connected' \in BOOLEAN /\ Received.kind \notin LiveKinds
  BY <1>1 DEF LiveKinds
<1> QED BY <1>1, <1>3, <1>4, SkipKeeps

\* The page starts a new draft: its thread is not there or was deleted.
LEMMA DraftKeeps ==
  ASSUME StreamInv, Takes, UNCHANGED <<ops, submissions, connected>>,
         view' = Draft, expected' = NobodyExpected,
         cursors' = cursors \/ (Received.thread \in Thread
                                /\ cursors' = [cursors EXCEPT ![Received.thread] = Received.cursor])
  PROVE  StreamInv'
<1>1. /\ cursors \in [Thread -> Cursor] /\ submissions \in 0 .. MaxSubmissions /\ ops \in Seq(OpType)
      /\ Received.cursor \in Cursor /\ connected \in BOOLEAN /\ NoThread \notin Thread
  <2>1. submissions \in 0 .. MaxSubmissions /\ connected \in BOOLEAN
    BY DEF StreamInv, StreamTypeOK
  <2>2. Received \in Event
    BY TakenFirst
  <2> QED BY <2>1, <2>2, Types, EventTypes DEF StreamInv
<1>2. /\ view'.thread = NoThread /\ ~view'.loaded /\ ~view'.loading /\ view'.text = <<>> /\ view'.seam = 0
      /\ expected'.submission = 0 /\ view' \in ViewType
      /\ expected' \in [submission : Nat, thread : Thread0]
  BY DEF Draft, NobodyExpected, ViewType, Thread0
<1>3. HearsHead /\ SubmitsMore
  <2>1. SubmitsMore /\ cursors' \in [Thread -> Cursor]
    BY <1>1 DEF SubmitsMore
  <2>2. \A u \in Thread : cursors'[u] = cursors[u]
                          \/ (u = Received.thread /\ cursors'[u] = Received.cursor)
    BY <1>1
  <2> QED BY <1>1, <1>2, <2>1, <2>2 DEF HearsHead
<1>4. StreamTypeOK' /\ PortInv' /\ CountInv' /\ ChannelInv' /\ OrderInv'
  <2>1. ops' \in Seq(OpType) /\ connected' \in BOOLEAN
    BY <1>1
  <2> QED BY <1>2, <1>3, <2>1, TakenTypes, TakenChannel, TakenOrder
<1>5. ViewInv'
  <2>1. Len(<<>>) = 0 /\ DOMAIN <<>> = {}
    OBVIOUS
  <2> QED BY <1>2, <2>1 DEF ViewInv, Rises
<1>6. AskedInv' /\ HeardInv'
  BY <1>2 DEF AskedInv, Asking, HeardInv
<1> QED BY <1>4, <1>5, <1>6 DEF StreamInv

LEMMA ApplyNotFoundKeeps ==
  ASSUME StreamInv, ApplyNotFound
  PROVE  StreamInv'
<1>1. Takes /\ UNCHANGED <<ops, cursors, submissions, connected>> /\ Received.kind = "notFound"
      /\ IF Received.submission = expected.submission
         THEN expected' = NobodyExpected /\ view' = Draft
         ELSE UNCHANGED <<expected, view>>
  BY DEF ApplyNotFound, Take, Takes
<1>2. CASE Received.submission = expected.submission
  BY <1>1, <1>2, DraftKeeps
<1>3. CASE Received.submission # expected.submission
  <2>1. Asking => ~IsNewest(Received)
    BY <1>3 DEF StreamInv, AskedInv, AskedLast, IsNewest
  <2>2. connected' \in BOOLEAN /\ Received.kind \notin LiveKinds
    BY <1>1 DEF StreamInv, StreamTypeOK, LiveKinds
  <2> QED BY <1>1, <1>3, <2>1, <2>2, SkipKeeps
<1> QED BY <1>2, <1>3

LEMMA ApplyDeletedKeeps ==
  ASSUME StreamInv, ApplyDeleted
  PROVE  StreamInv'
<1>1. Takes /\ UNCHANGED <<ops, submissions, connected>> /\ Received.kind = "deleted"
      /\ view' = Draft /\ expected' = NobodyExpected
      /\ cursors' = [cursors EXCEPT ![Received.thread] = Received.cursor]
  BY DEF ApplyDeleted, Take, Takes
<1>2. Received.thread \in Thread
  BY <1>1, TakenFirst DEF Kinded, LiveKinds
<1> QED BY <1>1, <1>2, DraftKeeps

Beyond(a, s) == {a[i] : i \in {j \in DOMAIN a : j > s}}
NumbersOf(a) == {a[i] : i \in DOMAIN a}
Whole(a, s) == \A i \in DOMAIN a : i > s /\ i + 1 \in DOMAIN a => a[i + 1] = a[i] + 1
UpTo(a, p) == \A i \in DOMAIN a : a[i] \in 1 .. p

\* Beyond the seam the text has no hole: what comes is later than all of it, and with what comes it
\* has none.
LEMMA NoHole ==
  ASSUME NEW out, NEW pend, NEW held, NEW C, NEW E, NEW S, NEW P, NEW V, NEW T, NEW v \in Thread,
         NEW c, Channel(out, pend, held, 0, C, E, S, P, V, T),
         V.thread = v, V.text \in Seq(Nat), Rises(V.text), P[v] \in Nat, UpTo(V.text, P[v]),
         Hears(v, c, Beyond(V.text, V.seam), out, pend, held, P[v])
  PROVE  Whole(V.text, V.seam)
<1> SUFFICES ASSUME NEW i \in DOMAIN V.text, i > V.seam, i + 1 \in DOMAIN V.text
             PROVE  V.text[i + 1] = V.text[i] + 1
  BY DEF Whole
<1> DEFINE n == V.text[i]
           m == n + 1
           x == V.text[i + 1]
           N == Beyond(V.text, V.seam)
<1>1. n \in 1 .. P[v] /\ x \in 1 .. P[v] /\ i \in Nat /\ n \in Nat /\ x \in Nat
  BY DEF UpTo
<1>2. n < x
  BY <1>1 DEF Rises
<1> SUFFICES ASSUME m # x PROVE FALSE
  OBVIOUS
<1>3. m < x /\ m \in 1 .. P[v] /\ n <= m
  BY <1>1, <1>2
<1>4. n \in N
  BY DEF Beyond
<1>5. m \in N \/ DeltaIn(v, c, m, out, pend, held, 0)
  BY <1>1, <1>3, <1>4 DEF Hears
<1>6. m \notin N
  <2> SUFFICES ASSUME NEW j \in DOMAIN V.text, V.text[j] = m PROVE FALSE
    BY DEF Beyond
  <2>1. j \in Nat /\ (j <= i \/ j > i)
    <3>1. j \in Nat
      OBVIOUS
    <3> QED BY <1>1, <3>1
  <2>2. CASE j < i
    BY <1>1, <2>2 DEF Rises
  <2>3. CASE j = i
    BY <1>1, <2>3
  <2>4. CASE j = i + 1
    BY <1>3, <2>4
  <2>5. CASE j > i + 1
    BY <1>1, <1>3, <2>1, <2>5 DEF Rises
  <2> QED BY <1>1, <2>1, <2>2, <2>3, <2>4, <2>5
<1>7. ASSUME NEW e, SoundAt(e, C, E, S, P, V, T), e.thread = v, e.kind = "piece", Among(m, e.numbers)
      PROVE  FALSE
  <2>1. PICK y \in DOMAIN e.numbers : e.numbers[y] = m
    BY <1>7 DEF Among
  <2>2. V.text[i + 1] < e.numbers[y]
    BY <1>7, <2>1 DEF SoundAt
  <2> QED BY <1>1, <1>3, <2>1, <2>2
<1>8. ~DeltaIn(v, c, m, out, pend, held, 0)
  <2>1. pend # NoPending => Carried(pend).kind = "piece" /\ Carried(pend).thread = pend.thread
                            /\ Carried(pend).numbers = pend.pieces
    BY CarriedIs DEF Channel
  <2> HIDE DEF m
  <2> QED BY <1>7, <2>1 DEF Channel, DeltaIn
<1> QED BY <1>5, <1>6, <1>8

\* While the page waits for a thread it shows already, nothing of a turn comes before the answer.
LEMMA NothingMeanwhile ==
  ASSUME StreamInv, Takes, Received.thread = view.thread, Received.kind \in TurnKinds, view.loaded
  PROVE  ~Asking
<1> DEFINE v == view.thread
           e == Received
<1> SUFFICES ASSUME Asking PROVE FALSE
  OBVIOUS
<1>1. AskedLast /\ AskedQueued /\ AskedRead /\ AskedAnswered /\ AskedSomewhere
  BY DEF StreamInv, AskedInv
<1>2. /\ e \in Event /\ e = events[1] /\ 1 \in DOMAIN events /\ e.cursor \in Cursor
      /\ v \in Thread /\ admission.cursor \in Cursor /\ events \in Seq(Event)
      /\ \A i \in DOMAIN events : i # 1 => Before(e, events[i])
  BY <1>1, TakenFirst, FieldTypes, EventTypes DEF StreamInv, AskedLast, Thread0
<1>3. ~Silent(v, events, pending, admission.held)
  BY <1>2 DEF Silent
<1>4. CASE \E i \in DOMAIN ops : ops[i].submission = submissions
  BY <1>1, <1>3, <1>4 DEF AskedQueued
<1>5. CASE admission # NoAdmission /\ admission.submission = submissions
  <2>1. admission.thread = v /\ NoneBefore(v, admission.cursor, events)
    BY <1>1, <1>5 DEF AskedRead
  <2>2. Later(e.cursor, admission.cursor) /\ Later(admission.cursor, e.cursor)
    BY <1>2, <1>5, <2>1 DEF NoneBefore, StreamInv, ChannelInv
  <2> QED BY <1>2, <2>2, LaterRules DEF LaterRule
<1>6. CASE Gone
  BY <1>3, <1>6 DEF Gone
<1>7. CASE \E i \in DOMAIN events : IsNewest(events[i])
  <2>1. PICK i \in DOMAIN events : IsNewest(events[i])
    BY <1>7
  <2>2. AnswersWell(events[i]) /\ events[i].cursor \in Cursor
    BY <1>1, <1>2, <2>1, EventTypes DEF AskedAnswered
  <2>3. i # 1
    BY <1>2, <2>1 DEF IsNewest, AnswerKinds, TurnKinds
  <2>4. CASE HasSnapshot(events[i])
    <3>1. events[i].thread = v /\ Later(e.cursor, events[i].cursor)
      BY <1>2, <2>2, <2>4 DEF AnswersWell, NoneBefore
    <3>2. Later(events[i].cursor, e.cursor)
      BY <1>2, <2>3, <3>1 DEF Before
    <3> QED BY <1>2, <2>2, <3>1, <3>2, LaterRules DEF LaterRule
  <2>5. CASE ~HasSnapshot(events[i])
    BY <1>6, <2>2, <2>5 DEF AnswersWell
  <2> QED BY <2>4, <2>5
<1> QED BY <1>1, <1>4, <1>5, <1>6, <1>7 DEF AskedSomewhere

LEMMA TextGrows ==
  ASSUME NEW a \in Seq(Nat), NEW b \in Seq(Nat), NEW s \in Nat, s <= Len(a)
  PROVE  /\ Beyond(a \o b, s) = Beyond(a, s) \cup NumbersOf(b)
         /\ NumbersOf(a \o b) = NumbersOf(a) \cup NumbersOf(b)
         /\ Len(a \o b) >= Len(a) /\ a \o b \in Seq(Nat)
<1> DEFINE c == a \o b
<1>1. /\ \A i \in DOMAIN a : i \in DOMAIN c /\ c[i] = a[i]
      /\ \A i \in DOMAIN b : i + Len(a) \in DOMAIN c /\ c[i + Len(a)] = b[i] /\ i + Len(a) > s
      /\ \A i \in DOMAIN c : i \in DOMAIN a \/ (i - Len(a) \in DOMAIN b /\ c[i] = b[i - Len(a)])
      /\ Len(c) >= Len(a) /\ c \in Seq(Nat)
  OBVIOUS
<1> HIDE DEF c
<1>2. Beyond(c, s) = Beyond(a, s) \cup NumbersOf(b)
  <2>1. ASSUME NEW n \in Beyond(c, s) PROVE n \in Beyond(a, s) \/ n \in NumbersOf(b)
    <3>1. PICK i \in DOMAIN c : n = c[i] /\ i > s
      BY <2>1 DEF Beyond
    <3>2. i \in DOMAIN a \/ (i - Len(a) \in DOMAIN b /\ c[i] = b[i - Len(a)])
      BY <1>1
    <3>3. i \in DOMAIN a => c[i] = a[i]
      BY <1>1
    <3> QED BY <3>1, <3>2, <3>3 DEF NumbersOf, Beyond
  <2>2. ASSUME NEW n \in Beyond(a, s) PROVE n \in Beyond(c, s)
    BY <1>1, <2>2 DEF Beyond
  <2>3. ASSUME NEW n \in NumbersOf(b) PROVE n \in Beyond(c, s)
    <3>1. PICK i \in DOMAIN b : n = b[i]
      BY <2>3 DEF NumbersOf
    <3>2. i + Len(a) \in DOMAIN c /\ c[i + Len(a)] = b[i] /\ i + Len(a) > s
      BY <1>1
    <3> QED BY <3>1, <3>2 DEF Beyond
  <2> QED BY <2>1, <2>2, <2>3
<1>3. NumbersOf(c) = NumbersOf(a) \cup NumbersOf(b)
  <2>1. ASSUME NEW n \in NumbersOf(c) PROVE n \in NumbersOf(a) \/ n \in NumbersOf(b)
    <3>1. PICK i \in DOMAIN c : n = c[i]
      BY <2>1 DEF NumbersOf
    <3>2. i \in DOMAIN a \/ (i - Len(a) \in DOMAIN b /\ c[i] = b[i - Len(a)])
      BY <1>1
    <3>3. i \in DOMAIN a => c[i] = a[i]
      BY <1>1
    <3> QED BY <3>1, <3>2, <3>3 DEF NumbersOf
  <2>2. ASSUME NEW n \in NumbersOf(a) PROVE n \in NumbersOf(c)
    BY <1>1, <2>2 DEF NumbersOf
  <2>3. ASSUME NEW n \in NumbersOf(b) PROVE n \in NumbersOf(c)
    <3>1. PICK i \in DOMAIN b : n = b[i]
      BY <2>3 DEF NumbersOf
    <3>2. i + Len(a) \in DOMAIN c /\ c[i + Len(a)] = b[i]
      BY <1>1
    <3> QED BY <3>1, <3>2 DEF NumbersOf
  <2> QED BY <2>1, <2>2, <2>3
<1> QED BY <1>1, <1>2, <1>3 DEF c

\* A delta joins the text, an item the items.
LEMMA ApplyEventKeeps ==
  ASSUME StreamInv, ApplyEvent
  PROVE  StreamInv'
<1> DEFINE v == view.thread
           e == Received
<1>1. /\ Takes /\ UNCHANGED <<ops, connected, expected, submissions>>
      /\ e.kind \in {"fact", "piece"} /\ e.thread = v
      /\ cursors' = [cursors EXCEPT ![e.thread] = e.cursor]
      /\ view' = IF e.kind = "fact" THEN [view EXCEPT !.facts = @ \o e.numbers]
                 ELSE [view EXCEPT !.text = @ \o e.numbers, !.turn = TRUE]
  BY DEF ApplyEvent, Take, Takes, Admitted
<1>2. /\ e \in Event /\ e.numbers \in Seq(Nat) /\ e.cursor \in Cursor /\ v \in Thread /\ Sound(e)
      /\ UNCHANGED <<exists, written, announced, pieces, turn, sequence, subscribed, admission, pending,
                     epoch, stops, open>>
      /\ open
  <2>1. e.thread \in Thread
    BY <1>1, TakenFirst DEF Kinded, LiveKinds
  <2> QED BY <1>1, <2>1, TakenFirst, EventTypes DEF Takes
<1>3. /\ view \in ViewType /\ view.text \in Seq(Nat) /\ view.facts \in Seq(Nat) /\ view.seam \in Nat
      /\ cursors \in [Thread -> Cursor] /\ pieces \in [Thread -> Nat] /\ announced \in [Thread -> Nat]
      /\ submissions \in 0 .. MaxSubmissions /\ ops \in Seq(OpType) /\ connected \in BOOLEAN
      /\ expected \in [submission : Nat, thread : Thread0] /\ ViewInv
  <2>1. submissions \in 0 .. MaxSubmissions /\ connected \in BOOLEAN /\ ViewInv
    BY DEF StreamInv, StreamTypeOK
  <2> QED BY <2>1, Types, FieldTypes DEF StreamInv
<1>4. /\ view' \in ViewType /\ view'.thread = v /\ view'.loaded = view.loaded
      /\ view'.loading = view.loading /\ view'.revision = view.revision /\ view'.seam = view.seam
      /\ e.kind = "fact" => view'.text = view.text /\ view'.facts = view.facts \o e.numbers
      /\ e.kind = "piece" => view'.text = view.text \o e.numbers /\ view'.facts = view.facts
  <2>1. view.facts \o e.numbers \in Seq(Nat) /\ view.text \o e.numbers \in Seq(Nat)
    BY <1>2, <1>3
  <2> HIDE DEF e
  <2> QED BY <1>1, <1>3, <2>1 DEF ViewType
<1>5. /\ e.kind = "piece" =>
           /\ \A n : Among(n, view'.text) <=> Among(n, view.text) \/ Among(n, e.numbers)
           /\ Rises(view'.text)
           /\ \A i \in DOMAIN view'.text : view'.text[i] \in 1 .. pieces[v]
  <2> SUFFICES ASSUME e.kind = "piece"
               PROVE  /\ \A n : Among(n, view'.text) <=> Among(n, view.text) \/ Among(n, e.numbers)
                      /\ Rises(view'.text)
                      /\ \A i \in DOMAIN view'.text : view'.text[i] \in 1 .. pieces[v]
    OBVIOUS
  <2>1. /\ \A i \in DOMAIN e.numbers : e.numbers[i] \in 1 .. pieces[v]
        /\ Rises(e.numbers)
        /\ \A i \in DOMAIN view.text, j \in DOMAIN e.numbers : view.text[i] < e.numbers[j]
    BY <1>1, <1>2 DEF Sound, SoundAt
  <2>2. /\ \A i \in DOMAIN view.text : view.text[i] \in 1 .. pieces[v]
        /\ Rises(view.text)
    BY <1>3 DEF ViewInv
  <2> HIDE DEF e
  <2>3. /\ \A n : Among(n, view.text \o e.numbers) <=> Among(n, view.text) \/ Among(n, e.numbers)
        /\ \A x \in DOMAIN (view.text \o e.numbers) :
             \/ Among((view.text \o e.numbers)[x], view.text)
             \/ Among((view.text \o e.numbers)[x], e.numbers)
        /\ Rises(view.text \o e.numbers)
    BY <1>2, <1>3, <2>1, <2>2, JoinedNumbers
  <2>4. \A i \in DOMAIN view'.text : view'.text[i] \in 1 .. pieces[v]
    <3> SUFFICES ASSUME NEW i \in DOMAIN (view.text \o e.numbers)
                 PROVE  (view.text \o e.numbers)[i] \in 1 .. pieces[v]
      BY <1>4
    <3> DEFINE y == (view.text \o e.numbers)[i]
    <3>1. Among(y, view.text) \/ Among(y, e.numbers)
      BY <2>3
    <3> HIDE DEF y
    <3>2. y \in 1 .. pieces[v]
      BY <2>1, <2>2, <3>1 DEF Among
    <3> QED BY <3>2 DEF y
  <2> QED BY <1>4, <2>3, <2>4
<1>6. HearsHead /\ SubmitsMore
  <2>1. SubmitsMore /\ cursors' \in [Thread -> Cursor]
    BY <1>1, <1>2, <1>3 DEF SubmitsMore
  <2>2. \A u \in Thread : cursors'[u] = cursors[u] \/ (u = e.thread /\ cursors'[u] = e.cursor)
    BY <1>1, <1>3
  <2>3. \A j \in DOMAIN view'.text : \/ Among(view'.text[j], view.text)
                                     \/ e.kind = "piece" /\ Among(view'.text[j], e.numbers)
    BY <1>1, <1>4, <1>5 DEF Among
  <2> QED BY <1>1, <1>4, <2>1, <2>2, <2>3 DEF HearsHead
<1>7. StreamTypeOK' /\ PortInv' /\ CountInv' /\ ChannelInv' /\ OrderInv'
  <2>1. ops' \in Seq(OpType) /\ connected' \in BOOLEAN /\ expected' \in [submission : Nat, thread : Thread0]
    BY <1>1, <1>3
  <2> QED BY <1>1, <1>4, <1>6, <2>1, TakenTypes, TakenChannel, TakenOrder
<1>8. AskedInv'
  <2>1. ~IsNewest(e)
    BY <1>1 DEF IsNewest, AnswerKinds
  <2> QED BY <1>1, <1>4, <2>1, TakenAsked
<1>9. /\ Streamed' = Streamed \cup (IF e.kind = "piece" THEN NumbersOf(e.numbers) ELSE {})
      /\ Shown' = Shown \cup (IF e.kind = "fact" THEN NumbersOf(e.numbers) ELSE {})
      /\ view'.seam <= Len(view'.text)
  <2>1. view.seam <= Len(view.text) /\ Len(view.text) \in Nat /\ Len(view'.text) \in Nat
    BY <1>3, <1>4 DEF ViewInv, ViewType
  <2> HIDE DEF e
  <2>2. CASE e.kind = "piece"
    <3>1. view'.text = view.text \o e.numbers /\ Shown' = Shown
      BY <1>4, <2>2 DEF Shown
    <3>2. /\ Beyond(view.text \o e.numbers, view.seam) = Beyond(view.text, view.seam) \cup NumbersOf(e.numbers)
          /\ Len(view.text \o e.numbers) >= Len(view.text)
      BY <1>2, <1>3, <2>1, TextGrows
    <3>3. Streamed = Beyond(view.text, view.seam) /\ Streamed' = Beyond(view'.text, view'.seam)
      BY DEF Streamed, Beyond
    <3>4. Streamed' = Streamed \cup NumbersOf(e.numbers)
      BY <1>4, <3>1, <3>2, <3>3
    <3>5. view'.seam <= Len(view'.text)
      <4>1. view'.seam = view.seam /\ Len(view'.text) >= Len(view.text)
        BY <1>4, <3>1, <3>2
      <4> QED BY <1>3, <2>1, <4>1
    <3>6. Shown' = Shown \cup {}
      BY <3>1
    <3> QED BY <2>2, <3>4, <3>5, <3>6
  <2>3. CASE e.kind = "fact"
    <3>1. view'.facts = view.facts \o e.numbers /\ Streamed' = Streamed
      BY <1>4, <2>3 DEF Streamed
    <3>2. 0 <= Len(view.facts)
      BY <1>3
    <3>3. NumbersOf(view.facts \o e.numbers) = NumbersOf(view.facts) \cup NumbersOf(e.numbers)
      BY <1>2, <1>3, <3>2, TextGrows
    <3>4. Shown = NumbersOf(view.facts) /\ Shown' = NumbersOf(view'.facts)
      BY DEF Shown, NumbersOf
    <3> QED BY <1>4, <2>1, <2>3, <3>1, <3>3, <3>4
  <2> QED BY <1>1, <2>2, <2>3
<1>10. HeardInv'
  <2> SUFFICES ASSUME expected.submission = 0
               PROVE  /\ ops' = <<>> /\ admission' = NoAdmission /\ subscribed' = v /\ view'.loaded
                      /\ Hears(v, NoCursor, Streamed', events', pending', admission'.held, pieces'[v])
                      /\ Knows(v, NoCursor, Shown', events', admission'.held, announced'[v])
    BY <1>1, <1>4 DEF HeardInv
  <2>1. /\ ops = <<>> /\ admission = NoAdmission /\ subscribed = v /\ view.loaded
        /\ Hears(v, NoCursor, Streamed, events, pending, admission.held, pieces[v])
        /\ Knows(v, NoCursor, Shown, events, admission.held, announced[v])
    BY <1>2, StreamAssumption DEF StreamInv, HeardInv
  <2>2. Later(e.cursor, NoCursor)
    <3>1. Later(e.cursor, cursors[v]) /\ cursors[v] \in Cursor /\ NoCursor \in Cursor
      BY <1>1, <1>2, <1>3, NextIsLater DEF Sound, SoundAt
    <3>2. ~Later(NoCursor, cursors[v])
      BY <3>1 DEF Cursor, Later, NoCursor
    <3> QED BY <1>2, <3>1, <3>2, LaterRules DEF LaterRule
  <2>3. Adds(NoCursor, e, events', pending', admission'.held, events, pending, admission.held)
    BY <1>1, <1>2, TakenMoves
  <2>4. \A n : Among(n, e.numbers) <=> n \in NumbersOf(e.numbers)
    BY DEF Among, NumbersOf
  <2> HIDE DEF e
  <2>5. \A n \in Nat :
          /\ n \in Streamed' \/ DeltaIn(v, NoCursor, n, events', pending', admission'.held, 0)
               <=> n \in Streamed \/ DeltaIn(v, NoCursor, n, events, pending, admission.held, 0)
          /\ n \in Shown \/ ItemIn(v, NoCursor, n, events, admission.held, 0)
               => n \in Shown' \/ ItemIn(v, NoCursor, n, events', admission'.held, 0)
    BY <1>1, <1>2, <1>9, <2>2, <2>3, <2>4 DEF Adds
  <2>6. (\A n \in 1 .. pieces[v] : n \in Nat) /\ (\A n \in 1 .. announced[v] : n \in Nat)
    OBVIOUS
  <2>7. Hears(v, NoCursor, Streamed', events', pending', admission'.held, pieces'[v])
    BY <1>2, <2>1, <2>5, <2>6 DEF Hears
  <2>8. Knows(v, NoCursor, Shown', events', admission'.held, announced'[v])
    BY <1>2, <2>1, <2>5, <2>6 DEF Knows
  <2> QED BY <1>1, <1>2, <1>4, <2>1, <2>7, <2>8
<1>11. ViewInv'
  <2>1. view'.thread # NoThread /\ view.thread # NoThread
    BY <1>2, <1>4, StreamAssumption
  <2>2. /\ view'.loading = ~view'.loaded
        /\ view'.loaded => view'.revision <= written'[view'.thread]
    BY <1>2, <1>3, <1>4, <2>1 DEF ViewInv
  <2>3. Rises(view'.text) /\ \A i \in DOMAIN view'.text : view'.text[i] \in 1 .. pieces'[view'.thread]
    <3>1. pieces' = pieces /\ view'.thread = v /\ (e.kind = "fact" => view'.text = view.text)
      BY <1>2, <1>4
    <3> HIDE DEF e
    <3> QED BY <1>1, <1>3, <1>5, <3>1 DEF ViewInv
  <2>4. ASSUME view'.loaded, NEW i \in DOMAIN view'.text, i > view'.seam, i + 1 \in DOMAIN view'.text
        PROVE  view'.text[i + 1] = view'.text[i] + 1
    <3>1. CASE e.kind = "fact"
      BY <1>3, <1>4, <2>4, <3>1 DEF ViewInv
    <3>2. CASE e.kind = "piece"
      <4>1. ~Asking
        BY <1>1, <1>4, <2>4, <3>2, NothingMeanwhile DEF TurnKinds
      <4>2. expected'.submission = 0 /\ open'
        BY <1>1, <1>2, <4>1 DEF Asking
      <4>3. Hears(v, NoCursor, Streamed', events', pending', admission'.held, pieces'[v])
        BY <1>4, <1>10, <2>1, <4>2 DEF HeardInv
      <4>4. Channel(events', pending', admission'.held, 0, cursors', epoch', sequence', pieces', view', turn')
        BY <1>7 DEF ChannelInv
      <4>5. view'.thread = v /\ view'.text \in Seq(Nat) /\ pieces'[v] \in Nat
        BY <1>2, <1>3, <1>4 DEF ViewType
      <4>6. UpTo(view'.text, pieces'[v])
        BY <2>3, <4>5 DEF UpTo
      <4>7. Streamed' = Beyond(view'.text, view'.seam)
        BY DEF Streamed, Beyond
      <4> HIDE DEF e
      <4>8. Whole(view'.text, view'.seam)
        BY <1>2, <2>3, <4>3, <4>4, <4>5, <4>6, <4>7, NoHole
      <4> QED BY <2>4, <4>8 DEF Whole
    <3> QED BY <1>1, <3>1, <3>2
  <2> QED BY <1>9, <2>1, <2>2, <2>3, <2>4 DEF ViewInv
<1> QED BY <1>7, <1>8, <1>10, <1>11 DEF StreamInv

\* The answer to what the page has asked for last: from here on it hears all.
LEMMA ApplySnapshotKeeps ==
  ASSUME StreamInv, ApplySnapshot
  PROVE  StreamInv'
<1> DEFINE v == view.thread
           e == Received
           facts == [i \in 1 .. e.snapshot.facts |-> i]
           live == e.snapshot.turn \/ view.turn
           kept == IF live THEN view.text ELSE <<>>
<1>1. /\ Takes /\ UNCHANGED <<ops, submissions>> /\ connected' = TRUE /\ expected' = NobodyExpected
      /\ e.kind = "initialized" /\ HasSnapshot(e) /\ Expects(e)
      /\ cursors' = [cursors EXCEPT ![e.thread] = e.cursor]
      /\ view' = Applied(e)
  BY DEF ApplySnapshot, Take, Takes
<1>2. /\ e \in Event /\ e = events[1] /\ 1 \in DOMAIN events /\ Kinded(e) /\ Sound(e)
      /\ events \in Seq(Event) /\ Shifted(events, events')
      /\ \A i \in DOMAIN events : i # 1 => Before(e, events[i])
      /\ pending # NoPending => Before(e, Carried(pending))
      /\ \A j \in DOMAIN admission.held : Before(e, admission.held[j])
      /\ UNCHANGED <<exists, written, announced, pieces, turn, sequence, subscribed, admission, pending,
                     epoch, stops, open>>
      /\ open
  BY <1>1, TakenFirst DEF Takes
<1>3. /\ e.cursor \in Cursor /\ e.thread \in Thread /\ e.submission \in 1 .. submissions
      /\ e.snapshot.revision \in Nat /\ e.snapshot.facts \in Nat /\ e.snapshot.turn \in BOOLEAN
      /\ e.submission = expected.submission /\ e.thread = expected.thread
  <2>1. e.snapshot.turn \in BOOLEAN
    BY <1>2 DEF Event
  <2> QED BY <1>1, <1>2, <2>1, EventTypes DEF Kinded, AnswerKinds, Expects
<1>4. /\ view \in ViewType /\ view.text \in Seq(Nat) /\ view.facts \in Seq(Nat) /\ view.revision \in Nat
      /\ view.turn \in BOOLEAN
      /\ cursors \in [Thread -> Cursor] /\ pieces \in [Thread -> Nat] /\ announced \in [Thread -> Nat]
      /\ submissions \in 0 .. MaxSubmissions /\ ops \in Seq(OpType) /\ submissions \in Nat
      /\ ViewInv /\ OrderInv /\ pending \in PendingType /\ admission.held \in Seq(Event)
      /\ written \in [Thread -> Nat] /\ admission.submission \in Nat
  <2>1. submissions \in 0 .. MaxSubmissions /\ ViewInv /\ OrderInv
    BY DEF StreamInv, StreamTypeOK
  <2> QED BY <2>1, Types, FieldTypes DEF StreamInv, ViewType
<1>5. Asking /\ AskedLast /\ IsNewest(e) /\ AnswersWell(e)
  <2>1. Asking
    BY <1>2, <1>3, <1>4 DEF Asking
  <2>2. AskedLast /\ AskedAnswered
    BY <2>1 DEF StreamInv, AskedInv
  <2>3. IsNewest(e)
    BY <1>1, <1>3, <2>2 DEF IsNewest, AskedLast, AnswerKinds
  <2> QED BY <1>2, <2>1, <2>2, <2>3 DEF AskedAnswered
<1>6. /\ e.thread = v /\ subscribed = v /\ v \in Thread
      /\ Hears(v, e.cursor, {}, events, pending, admission.held, pieces[v])
      /\ Knows(v, e.cursor, 1 .. e.snapshot.facts, events, admission.held, announced[v])
      /\ view.loaded => view.revision <= e.snapshot.revision
      /\ e.snapshot.revision <= written[v]
  BY <1>1, <1>3, <1>5 DEF AnswersWell
<1>7. facts \in Seq(Nat) /\ {facts[i] : i \in DOMAIN facts} = 1 .. e.snapshot.facts
  <2>1. facts \in [1 .. e.snapshot.facts -> Nat]
    OBVIOUS
  <2>2. facts \in Seq(Nat)
    <3> DEFINE k == e.snapshot.facts
    <3> HIDE DEF k
    <3>1. ASSUME NEW f \in [1 .. k -> Nat] PROVE f \in Seq(Nat)
      BY <1>3, SeqDef DEF k
    <3> QED BY <2>1, <3>1 DEF k
  <2> QED BY <2>2
<1>8. /\ view'.thread = v /\ view'.loaded = TRUE /\ view'.loading = FALSE
      /\ view'.revision = e.snapshot.revision /\ view'.facts = facts /\ view'.text = kept
      /\ view'.seam = Len(kept) /\ view' \in ViewType
  <2>1. ~Regresses(e)
    BY <1>3, <1>4, <1>6 DEF Regresses
  <2>2. view' = [view EXCEPT !.loading = FALSE, !.loaded = TRUE, !.revision = e.snapshot.revision,
                             !.facts = facts, !.text = kept, !.seam = Len(kept), !.turn = live]
    BY <1>1, <1>6, <2>1 DEF Applied
  <2>3. kept \in Seq(Nat) /\ live \in BOOLEAN /\ Len(kept) \in Nat
    BY <1>3, <1>4
  <2> HIDE DEF kept, live, facts, e
  <2> QED BY <1>3, <1>4, <1>7, <2>2, <2>3 DEF ViewType
<1>9. /\ \A i \in DOMAIN kept : kept[i] \in 1 .. pieces[v] /\ Among(kept[i], view.text)
      /\ Rises(kept) /\ kept \in Seq(Nat)
  <2>1. <<>> \in Seq(Nat) /\ DOMAIN <<>> = {}
    OBVIOUS
  <2> QED BY <1>4, <2>1 DEF ViewInv, Among, Rises
<1> HIDE DEF facts, kept, live
<1>10. HearsHead /\ SubmitsMore
  <2>1. SubmitsMore /\ cursors' \in [Thread -> Cursor]
    BY <1>1, <1>3, <1>4 DEF SubmitsMore
  <2>2. \A u \in Thread : cursors'[u] = cursors[u] \/ (u = e.thread /\ cursors'[u] = e.cursor)
    BY <1>1, <1>4
  <2> QED BY <1>8, <1>9, <2>1, <2>2 DEF HearsHead
<1>11. StreamTypeOK' /\ PortInv' /\ CountInv' /\ ChannelInv' /\ OrderInv'
  <2>1. ops' \in Seq(OpType) /\ connected' \in BOOLEAN /\ expected' \in [submission : Nat, thread : Thread0]
    BY <1>1, <1>4 DEF NobodyExpected, Thread0
  <2> QED BY <1>1, <1>8, <1>10, <2>1, TakenTypes, TakenChannel, TakenOrder
<1>12. ViewInv'
  <2>1. view'.thread # NoThread
    BY <1>6, <1>8, StreamAssumption
  <2>2. /\ view'.seam <= Len(view'.text)
        /\ \A i \in DOMAIN view'.text : ~(i > view'.seam /\ i + 1 \in DOMAIN view'.text)
    BY <1>8, <1>9
  <2> QED BY <1>2, <1>6, <1>8, <1>9, <2>1, <2>2 DEF ViewInv
<1>13. AskedInv'
  BY <1>1 DEF AskedInv, Asking, NobodyExpected
<1>14. ops = <<>> /\ admission = NoAdmission
  <2>1. admission = NoAdmission
    <3> SUFFICES ASSUME admission # NoAdmission PROVE FALSE
      OBVIOUS
    <3>1. e.submission < admission.submission /\ admission.submission \in 1 .. submissions
      BY <1>2, <1>4, <1>5 DEF OrderInv, IsNewest, StreamInv, PortInv
    <3> QED BY <1>4, <1>5, <3>1 DEF IsNewest
  <2>2. ASSUME NEW i \in DOMAIN ops PROVE FALSE
    <3>1. e.submission < ops[i].submission /\ ops[i].submission \in 1 .. submissions
      BY <1>2, <1>4, <1>5, <2>2 DEF OrderInv, IsNewest
    <3> QED BY <1>4, <1>5, <3>1 DEF IsNewest
  <2>3. ops = <<>>
    BY <1>4, <2>2, QueueTail
  <2> QED BY <2>1, <2>3
<1>15. /\ \A i \in DOMAIN events' : events'[i].thread = v =>
            Later(events'[i].cursor, e.cursor) /\ Later(events'[i].cursor, NoCursor)
       /\ pending # NoPending /\ pending.thread = v =>
            Later(pending.cursor, e.cursor) /\ Later(pending.cursor, NoCursor)
       /\ \A j \in DOMAIN admission.held : admission.held[j].thread = v =>
            Later(admission.held[j].cursor, e.cursor) /\ Later(admission.held[j].cursor, NoCursor)
  <2>1. ASSUME NEW c \in Cursor, Later(c, e.cursor) PROVE Later(c, NoCursor)
    <3>1. ~Later(NoCursor, e.cursor) /\ NoCursor \in Cursor
      BY <1>3 DEF Cursor, Later, NoCursor
    <3> QED BY <1>3, <2>1, <3>1, LaterRules DEF LaterRule
  <2>2. \A a \in Event : Before(e, a) /\ a.thread = v =>
          Later(a.cursor, e.cursor) /\ Later(a.cursor, NoCursor)
    BY <1>6, <2>1, EventTypes DEF Before
  <2>3. ASSUME NEW i \in DOMAIN events' PROVE events'[i] \in Event /\ Before(e, events'[i])
    <3>1. i + 1 \in DOMAIN events /\ events'[i] = events[i + 1] /\ i + 1 # 1
      BY <1>2 DEF Shifted
    <3> QED BY <1>2, <3>1
  <2>4. pending # NoPending => /\ Carried(pending) \in Event /\ Carried(pending).thread = pending.thread
                               /\ Carried(pending).cursor = pending.cursor
    BY <1>4, CarriedIs
  <2>5. \A j \in DOMAIN admission.held : admission.held[j] \in Event
    BY <1>4
  <2> QED BY <1>2, <2>2, <2>3, <2>4, <2>5
<1>16. /\ DeltaIn(v, NoCursor, 0, <<>>, NoPending, <<>>, 0) \in BOOLEAN
       /\ \A n \in Nat :
            /\ DeltaIn(v, NoCursor, n, events', pending, admission.held, 0)
                 <=> DeltaIn(v, e.cursor, n, events', pending, admission.held, 0)
            /\ ItemIn(v, NoCursor, n, events', admission.held, 0)
                 <=> ItemIn(v, e.cursor, n, events', admission.held, 0)
  BY <1>15 DEF DeltaIn, ItemIn
<1>17. /\ Hears(v, e.cursor, {}, events', pending', admission'.held, pieces'[v])
       /\ Knows(v, e.cursor, 1 .. e.snapshot.facts, events', admission'.held, announced'[v])
  <2>1. Passes(e, v, e.cursor)
    BY <1>1 DEF Passes, LiveKinds
  <2> QED BY <1>1, <1>6, <2>1, TakenPasses
<1>18. Streamed' = {} /\ Shown' = 1 .. e.snapshot.facts
  <2>1. Streamed' = {}
    BY <1>8, <1>9 DEF Streamed
  <2>2. Shown' = {facts[i] : i \in DOMAIN facts}
    BY <1>8 DEF Shown
  <2> QED BY <1>7, <2>1, <2>2 DEF facts
<1>19. HeardInv'
  <2> HIDE DEF e
  <2>1. (\A n \in 1 .. pieces[v] : n \in Nat) /\ (\A n \in 1 .. announced[v] : n \in Nat)
    OBVIOUS
  <2>2. Hears(v, NoCursor, {}, events', pending', admission'.held, pieces'[v])
    BY <1>2, <1>16, <1>17, <2>1 DEF Hears
  <2>3. Knows(v, NoCursor, 1 .. e.snapshot.facts, events', admission'.held, announced'[v])
    BY <1>2, <1>16, <1>17, <2>1 DEF Knows
  <2> QED BY <1>1, <1>2, <1>6, <1>8, <1>14, <1>18, <2>2, <2>3 DEF HeardInv
<1> QED BY <1>11, <1>12, <1>13, <1>19 DEF StreamInv

-----------------------------------------------------------------------------
(* The page asks for a thread. *)

\* The new submission comes last.
LEMMA SubmitOrders ==
  ASSUME StreamInv, NEW f \in BOOLEAN, NEW t \in Thread0, Submit(f, t), UNCHANGED admission,
         UNCHANGED events \/ Takes
  PROVE  /\ OrderInv' /\ ops' \in Seq(OpType) /\ SubmitsMore /\ submissions' = submissions + 1
         /\ submissions \in Nat /\ expected' \in [submission : Nat, thread : Thread0]
         /\ \A i \in DOMAIN ops : /\ i \in DOMAIN ops' /\ ops'[i] = ops[i] /\ i < Len(ops) + 1
                                  /\ ops[i].submission \in 1 .. submissions
         /\ \A i \in DOMAIN ops' : i \in DOMAIN ops \/ i = Len(ops) + 1
         /\ Len(ops) + 1 \in DOMAIN ops' /\ ops'[Len(ops) + 1].submission = submissions + 1
         /\ ops'[Len(ops) + 1].thread = t
<1> DEFINE op == [first |-> f, thread |-> t, submission |-> submissions + 1]
           l == Len(ops) + 1
<1>1. /\ submissions < MaxSubmissions /\ submissions' = submissions + 1 /\ ops' = Append(ops, op)
      /\ expected' = IF t = NoThread THEN expected ELSE [submission |-> submissions + 1, thread |-> t]
  BY DEF Submit
<1>2. /\ submissions \in Nat /\ submissions \in 0 .. MaxSubmissions /\ MaxSubmissions \in Nat
      /\ ops \in Seq(OpType) /\ events \in Seq(Event) /\ admission.submission \in Nat
      /\ expected \in [submission : Nat, thread : Thread0] /\ OrderInv
  <2>1. submissions \in 0 .. MaxSubmissions /\ OrderInv
    BY DEF StreamInv, StreamTypeOK
  <2> QED BY <2>1, Types, FieldTypes, StreamAssumption DEF StreamInv
<1>3. op \in OpType /\ op.submission = submissions + 1 /\ op.thread = t
  BY <1>2 DEF OpType
<1> HIDE DEF op
<1>4. /\ ops' \in Seq(OpType) /\ DOMAIN ops' = DOMAIN ops \cup {l} /\ l \notin DOMAIN ops
      /\ \A i \in DOMAIN ops : ops'[i] = ops[i] /\ i < l /\ i \in Nat
      /\ ops'[l] = op /\ l \in Nat
  BY <1>1, <1>2, <1>3, Added
<1> HIDE DEF l
<1>5. /\ SubmitsMore /\ expected' \in [submission : Nat, thread : Thread0]
  <2>1. SubmitsMore
    BY <1>1, <1>2 DEF SubmitsMore
  <2>2. [submission |-> submissions + 1, thread |-> t] \in [submission : Nat, thread : Thread0]
    BY <1>2
  <2> QED BY <1>1, <1>2, <2>1, <2>2
<1>6. \A i \in DOMAIN ops : ops[i].submission \in 1 .. submissions
  BY <1>2 DEF OrderInv
<1>7. \A i \in DOMAIN events' : \E j \in DOMAIN events : events'[i] = events[j]
  <2>1. CASE UNCHANGED events
    BY <2>1
  <2>2. CASE Takes
    BY <2>2, TakenFirst DEF Shifted
  <2> QED BY <2>1, <2>2
<1>8. \A i \in DOMAIN events : /\ Kinded(events[i]) /\ events[i].submission \in Nat
  BY <1>2, EventTypes DEF StreamInv, ChannelInv
<1>9. \A i \in DOMAIN ops' : ops'[i].submission \in 1 .. submissions'
  <2>1. ASSUME NEW i \in DOMAIN ops PROVE ops'[i].submission \in 1 .. submissions'
    <3>1. ops[i].submission \in 1 .. submissions /\ ops'[i] = ops[i]
      BY <1>4, <1>6
    <3> QED BY <1>1, <1>2, <3>1
  <2>2. ops'[l].submission \in 1 .. submissions'
    BY <1>1, <1>2, <1>3, <1>4
  <2> QED BY <1>4, <2>1, <2>2
<1>10. \A i, j \in DOMAIN ops' : i < j => ops'[i].submission < ops'[j].submission
  <2> SUFFICES ASSUME NEW i \in DOMAIN ops', NEW j \in DOMAIN ops', i < j
               PROVE  ops'[i].submission < ops'[j].submission
    OBVIOUS
  <2>1. i \in DOMAIN ops
    <3> SUFFICES ASSUME i = l PROVE FALSE
      BY <1>4
    <3>1. j \in DOMAIN ops => j < l /\ j \in Nat
      BY <1>4
    <3>2. j = l \/ j \in DOMAIN ops
      BY <1>4
    <3> QED BY <1>4, <3>1, <3>2
  <2>2. CASE j \in DOMAIN ops
    BY <1>2, <1>4, <2>1, <2>2 DEF OrderInv
  <2>3. CASE j = l
    <3>1. ops'[i].submission \in 1 .. submissions /\ ops'[j].submission = submissions + 1
      BY <1>3, <1>4, <1>6, <2>1, <2>3
    <3> QED BY <1>2, <3>1
  <2> QED BY <1>4, <2>2, <2>3
<1>11. admission' # NoAdmission => \A i \in DOMAIN ops' : admission'.submission < ops'[i].submission
  <2> SUFFICES ASSUME admission # NoAdmission, NEW i \in DOMAIN ops'
               PROVE  admission.submission < ops'[i].submission
    OBVIOUS
  <2>1. CASE i \in DOMAIN ops
    BY <1>2, <1>4, <2>1 DEF OrderInv
  <2>2. CASE i = l
    <3>1. admission.submission \in 1 .. submissions /\ ops'[i].submission = submissions + 1
      BY <1>3, <1>4, <2>2 DEF StreamInv, PortInv
    <3> QED BY <1>2, <3>1
  <2> QED BY <1>4, <2>1, <2>2
<1>12. \A i \in DOMAIN events' : events'[i].kind \in AnswerKinds =>
         /\ admission' # NoAdmission => events'[i].submission < admission'.submission
         /\ \A j \in DOMAIN ops' : events'[i].submission < ops'[j].submission
  <2> SUFFICES ASSUME NEW i \in DOMAIN events, events[i].kind \in AnswerKinds
               PROVE  /\ admission # NoAdmission => events[i].submission < admission.submission
                      /\ \A j \in DOMAIN ops' : events[i].submission < ops'[j].submission
    BY <1>7
  <2>1. /\ admission # NoAdmission => events[i].submission < admission.submission
        /\ \A j \in DOMAIN ops : events[i].submission < ops[j].submission
    BY <1>2 DEF OrderInv
  <2>2. events[i].submission < ops'[l].submission
    <3>1. events[i].submission \in 1 .. submissions /\ ops'[l].submission = submissions + 1
      BY <1>3, <1>4, <1>8 DEF Kinded
    <3> QED BY <1>2, <3>1
  <2> QED BY <1>4, <2>1, <2>2
<1>13. \A i, j \in DOMAIN events' :
         i < j /\ events'[i].kind \in AnswerKinds /\ events'[j].kind \in AnswerKinds
           => events'[i].submission < events'[j].submission
  <2>1. CASE UNCHANGED events
    BY <1>2, <2>1 DEF OrderInv
  <2>2. CASE Takes
    <3>1. \A i \in DOMAIN events' : i + 1 \in DOMAIN events /\ events'[i] = events[i + 1] /\ i \in Nat
      BY <2>2, TakenFirst DEF Shifted
    <3>2. \A i, j \in DOMAIN events' : i < j => i + 1 < j + 1
      BY <3>1
    <3> QED BY <1>2, <3>1, <3>2 DEF OrderInv
  <2> QED BY <2>1, <2>2
<1>14. OrderInv'
  BY <1>9, <1>10, <1>11, <1>12, <1>13 DEF OrderInv
<1> QED BY <1>1, <1>2, <1>3, <1>4, <1>5, <1>6, <1>14 DEF l

\* What it has asked for last is in the queue behind everything else.
LEMMA SubmitAsked ==
  ASSUME StreamInv, NEW f \in BOOLEAN, NEW t \in Thread, Submit(f, t), UNCHANGED admission,
         UNCHANGED events \/ Takes, view'.thread = t,
         view'.loaded => /\ Silent(t, events', pending', admission'.held)
                         /\ turn'[t] = "over"
                            \/ (ops = <<>> /\ admission' = NoAdmission /\ subscribed' # t)
  PROVE  AskedInv' /\ HeardInv'
<1>1. /\ submissions' = submissions + 1 /\ submissions \in Nat /\ ops \in Seq(OpType)
      /\ \A i \in DOMAIN ops : /\ ops'[i] = ops[i] /\ ops[i].submission \in 1 .. submissions
      /\ \A i \in DOMAIN ops' : i \in DOMAIN ops \/ i = Len(ops) + 1
      /\ Len(ops) + 1 \in DOMAIN ops' /\ ops'[Len(ops) + 1].submission = submissions + 1
      /\ ops'[Len(ops) + 1].thread = t
  BY SubmitOrders, Types DEF Thread0, StreamInv
<1>2. expected' = [submission |-> submissions + 1, thread |-> t]
  BY StreamAssumption DEF Submit
<1>3. HeardInv'
  BY <1>1, <1>2 DEF HeardInv
<1>4. AskedLast'
  BY <1>1, <1>2, StreamAssumption DEF AskedLast
<1>5. AskedQueued'
  <2> SUFFICES ASSUME NEW i \in DOMAIN ops', ops'[i].submission = submissions + 1
               PROVE  /\ ops'[i].thread = t
                      /\ view'.loaded =>
                           /\ Silent(t, events', pending', admission'.held)
                           /\ turn'[t] = "over"
                              \/ (i = 1 /\ admission' = NoAdmission /\ subscribed' # t)
    BY <1>1 DEF AskedQueued
  <2>1. i = Len(ops) + 1
    BY <1>1
  <2>2. ops = <<>> => i = 1
    BY <2>1
  <2> QED BY <1>1, <2>1, <2>2
<1>6. AskedRead'
  <2>1. admission # NoAdmission => admission.submission \in 1 .. submissions
    BY DEF StreamInv, PortInv
  <2>2. admission # NoAdmission => admission.submission # submissions'
    BY <1>1, <2>1
  <2> QED BY <2>2 DEF AskedRead
<1>7. AskedAnswered'
  <2>1. \A i \in DOMAIN events' : \E j \in DOMAIN events : events'[i] = events[j]
    <3>1. CASE UNCHANGED events
      BY <3>1
    <3>2. CASE Takes
      BY <3>2, TakenFirst DEF Shifted
    <3> QED BY <3>1, <3>2
  <2>2. ASSUME NEW j \in DOMAIN events, events[j].kind \in AnswerKinds
        PROVE  events[j].submission # submissions'
    <3>1. events[j].submission \in 1 .. submissions
      BY <2>2 DEF StreamInv, ChannelInv, Kinded
    <3> QED BY <1>1, <3>1
  <2> QED BY <2>1, <2>2 DEF AskedAnswered, IsNewest
<1>8. AskedSomewhere'
  BY <1>1 DEF AskedSomewhere
<1> QED BY <1>3, <1>4, <1>5, <1>6, <1>7, <1>8 DEF AskedInv

LEMMA ApplyCompleteKeeps ==
  ASSUME StreamInv, ApplyComplete
  PROVE  StreamInv'
<1> DEFINE v == view.thread
           e == Received
<1>1. /\ Takes /\ e.kind = "complete" /\ e.thread = v /\ Submit(FALSE, v) /\ connected' = connected
      /\ cursors' = [cursors EXCEPT ![e.thread] = e.cursor]
      /\ view' = [view EXCEPT !.turn = FALSE]
  BY DEF ApplyComplete, Take, Takes, Admitted
<1>2. /\ e \in Event /\ e.cursor \in Cursor /\ v \in Thread /\ Sound(e) /\ events # <<>>
      /\ Shifted(events, events')
      /\ \A i \in DOMAIN events : i # 1 => Before(e, events[i])
      /\ pending # NoPending => Before(e, Carried(pending))
      /\ \A j \in DOMAIN admission.held : Before(e, admission.held[j])
      /\ UNCHANGED <<exists, written, announced, pieces, turn, sequence, subscribed, admission, pending,
                     epoch, stops, open>>
  <2>1. e.thread \in Thread
    BY <1>1, TakenFirst DEF Kinded, LiveKinds
  <2> QED BY <1>1, <2>1, TakenFirst, EventTypes DEF Takes
<1>3. /\ view \in ViewType /\ cursors \in [Thread -> Cursor] /\ connected \in BOOLEAN /\ ViewInv
      /\ pending \in PendingType /\ NoThread \notin Thread
  <2>1. connected \in BOOLEAN /\ ViewInv
    BY DEF StreamInv, StreamTypeOK
  <2> QED BY <2>1, Types DEF StreamInv
<1>4. /\ view' \in ViewType /\ view'.thread = v /\ view'.loaded = view.loaded
      /\ view'.loading = view.loading /\ view'.revision = view.revision /\ view'.seam = view.seam
      /\ view'.text = view.text
  BY <1>1, <1>3 DEF ViewType
<1>5. v \in Thread0 /\ FALSE \in BOOLEAN
  BY <1>2 DEF Thread0
<1>6. /\ OrderInv' /\ ops' \in Seq(OpType) /\ SubmitsMore /\ submissions' = submissions + 1
      /\ submissions \in Nat /\ expected' \in [submission : Nat, thread : Thread0]
  BY <1>1, <1>2, <1>5, SubmitOrders
<1>7. HearsHead
  <2>1. cursors' \in [Thread -> Cursor]
    BY <1>1, <1>2, <1>3
  <2>2. \A u \in Thread : cursors'[u] = cursors[u] \/ (u = e.thread /\ cursors'[u] = e.cursor)
    BY <1>1, <1>3
  <2> QED BY <1>4, <2>1, <2>2 DEF HearsHead, Among
<1>8. StreamTypeOK' /\ PortInv' /\ CountInv' /\ ChannelInv'
  <2>1. connected' \in BOOLEAN
    BY <1>1, <1>3
  <2> QED BY <1>1, <1>4, <1>6, <1>7, <2>1, TakenTypes, TakenChannel
<1>9. ViewInv'
  <2>1. view.thread # NoThread
    BY <1>2, <1>3
  <2> QED BY <1>2, <1>3, <1>4, <2>1 DEF ViewInv
<1>10. turn'[v] = "over"
  BY <1>1, <1>2 DEF Sound, SoundAt
<1>11. Silent(v, events', pending', admission'.held)
  <2>1. \A a : Before(e, a) /\ a.thread = v => a.kind \notin TurnKinds
    BY <1>1, <1>2 DEF Before
  <2>2. \A i \in DOMAIN events' : \E j \in DOMAIN events : j # 1 /\ events'[i] = events[j]
    BY <1>2 DEF Shifted
  <2>3. pending.thread # v
    <3>1. CASE pending = NoPending
      BY <1>2, <1>3, <3>1, NoAdmissionIs
    <3>2. CASE pending # NoPending
      <4>1. Carried(pending).kind = "piece" /\ Carried(pending).thread = pending.thread
        BY <1>3, CarriedIs
      <4> QED BY <1>2, <2>1, <3>2, <4>1 DEF TurnKinds
    <3> QED BY <3>1, <3>2
  <2> QED BY <1>2, <2>1, <2>2, <2>3 DEF Silent
<1>12. AskedInv' /\ HeardInv'
  <2>1. UNCHANGED admission
    BY <1>2
  <2> QED BY <1>1, <1>2, <1>4, <1>5, <1>10, <1>11, <2>1, SubmitAsked
<1> QED BY <1>6, <1>8, <1>9, <1>12 DEF StreamInv

LEMMA ConnectPortKeeps ==
  ASSUME StreamInv, ConnectPort
  PROVE  StreamInv'
<1> DEFINE v == view.thread
<1>1. /\ ~open /\ open' = TRUE /\ Submit(TRUE, v)
      /\ UNCHANGED <<exists, written, announced, pieces, turn, epoch, stops, sequence, subscribed,
                     admission, pending, events, connected, cursors, view>>
  BY DEF ConnectPort
<1>2. /\ ops = <<>> /\ events = <<>> /\ admission = NoAdmission /\ pending = NoPending
      /\ subscribed = NoThread
  BY <1>1 DEF StreamInv, PortInv
<1>3. v \in Thread0 /\ TRUE \in BOOLEAN /\ NoThread \notin Thread /\ ViewInv
  BY Types, FieldTypes DEF StreamInv
<1>4. /\ OrderInv' /\ ops' \in Seq(OpType) /\ SubmitsMore /\ submissions' = submissions + 1
      /\ submissions \in Nat /\ expected' \in [submission : Nat, thread : Thread0]
  BY <1>1, <1>3, SubmitOrders
<1>5. StreamTypeOK'
  <2>1. admission' \in AdmissionType /\ pending' \in PendingType /\ open' \in BOOLEAN
    BY <1>1, <1>2, NoAdmissionIs
  <2>2. StreamTypeOK
    BY DEF StreamInv
  <2> QED BY <1>1, <1>4, <2>1, <2>2 DEF StreamTypeOK, AdmissionType, PendingType, OpType, Thread0, SubmitsMore
<1>6. PortInv' /\ ChannelInv'
  <2>1. DOMAIN admission'.held = {} /\ DOMAIN events' = {}
    BY <1>1, <1>2, EmptyChannel
  <2>2. PortInv'
    BY <1>1, <1>2, <2>1 DEF StreamInv, PortInv
  <2>3. Channel(events', pending', admission'.held, 0, cursors', epoch', sequence', pieces', view', turn')
    BY <1>1, <1>2, EmptyChannel
  <2> QED BY <1>1, <1>2, <2>1, <2>2, <2>3 DEF ChannelInv
<1>7. CountInv'
  BY <1>1 DEF StreamInv, CountInv
<1>8. CASE v = NoThread
  <2>1. expected.submission = 0 /\ expected' = expected
    BY <1>1, <1>3, <1>8 DEF ViewInv, Submit
  <2>2. AskedInv' /\ HeardInv'
    BY <1>1, <1>8, <2>1 DEF AskedInv, Asking, HeardInv
  <2>3. ViewInv'
    BY <1>1, <1>3, <2>1 DEF ViewInv
  <2> QED BY <1>4, <1>5, <1>6, <1>7, <2>2, <2>3 DEF StreamInv
<1>9. CASE v # NoThread
  <2>1. v \in Thread
    BY <1>3, <1>9 DEF Thread0
  <2>2. Silent(v, events', pending', admission'.held)
    <3>1. DOMAIN admission'.held = {} /\ DOMAIN events' = {} /\ pending'.thread # v
      BY <1>1, <1>2, <1>9, EmptyChannel, NoAdmissionIs
    <3> QED BY <3>1 DEF Silent
  <2>3. UNCHANGED admission /\ UNCHANGED events /\ view'.thread = v /\ subscribed' # v
        /\ admission' = NoAdmission
    BY <1>1, <1>2, <1>9
  <2>4. AskedInv' /\ HeardInv'
    BY <1>1, <1>2, <1>3, <2>1, <2>2, <2>3, SubmitAsked
  <2>5. ViewInv'
    BY <1>1, <1>3, <1>9 DEF ViewInv
  <2> QED BY <1>4, <1>5, <1>6, <1>7, <2>4, <2>5 DEF StreamInv
<1> QED BY <1>8, <1>9

\* A view with no text has nothing of a turn to hear again.
LEMMA ViewForgets ==
  ASSUME NEW out, NEW pend, NEW held, NEW k, NEW C, NEW E, NEW S, NEW P, NEW V, NEW T, NEW V2,
         Channel(out, pend, held, k, C, E, S, P, V, T), V2.text = <<>>
  PROVE  Channel(out, pend, held, k, C, E, S, P, V2, T)
<1>1. DOMAIN V2.text = {}
  OBVIOUS
<1>2. \A e : SoundAt(e, C, E, S, P, V, T) => SoundAt(e, C, E, S, P, V2, T)
  BY <1>1 DEF SoundAt
<1> QED BY <1>2 DEF Channel

LEMMA OpenThreadKeeps ==
  ASSUME StreamInv, NEW t \in Thread, OpenThread(t)
  PROVE  StreamInv'
<1>1. /\ view' = [Draft EXCEPT !.thread = t, !.loading = TRUE]
      /\ IF open THEN Submit(FALSE, t) ELSE UNCHANGED <<submissions, ops, expected>>
      /\ UNCHANGED <<exists, written, announced, pieces, turn, epoch, stops, sequence, subscribed,
                     admission, pending, events, open, connected, cursors>>
  BY DEF OpenThread
<1>2. /\ view'.thread = t /\ view'.loading = TRUE /\ view'.loaded = FALSE /\ view'.text = <<>>
      /\ view'.seam = 0 /\ view' \in ViewType
  <2>1. view' = [thread |-> t, loading |-> TRUE, loaded |-> FALSE, revision |-> 0,
                 facts |-> <<>>, text |-> <<>>, seam |-> 0, turn |-> FALSE]
    BY <1>1 DEF Draft
  <2> QED BY <2>1 DEF ViewType, Thread0
<1>3. t \in Thread0 /\ FALSE \in BOOLEAN /\ UNCHANGED admission /\ UNCHANGED events /\ open \in BOOLEAN
  BY <1>1, Types DEF StreamInv, Thread0
<1>4. /\ OrderInv' /\ ops' \in Seq(OpType) /\ SubmitsMore /\ submissions \in Nat
      /\ expected' \in [submission : Nat, thread : Thread0]
  <2>1. CASE open
    BY <1>1, <1>3, <2>1, SubmitOrders
  <2>2. CASE ~open
    <3>1. submissions \in 0 .. MaxSubmissions /\ OrderInv /\ MaxSubmissions \in Nat
      BY StreamAssumption DEF StreamInv, StreamTypeOK
    <3>2. OrderInv'
      BY <1>1, <2>2, <3>1 DEF OrderInv
    <3>3. ops \in Seq(OpType) /\ expected \in [submission : Nat, thread : Thread0] /\ submissions \in Nat
      BY Types DEF StreamInv
    <3> QED BY <1>1, <2>2, <3>1, <3>2, <3>3 DEF SubmitsMore
  <2> QED BY <2>1, <2>2
<1>5. StreamTypeOK'
  <2>1. admission' \in AdmissionType /\ pending' \in PendingType
    BY <1>1, Types DEF StreamInv
  <2>2. StreamTypeOK
    BY DEF StreamInv
  <2> QED BY <1>1, <1>2, <1>4, <2>1, <2>2 DEF StreamTypeOK, AdmissionType, PendingType, OpType, ViewType,
               Thread0, SubmitsMore
<1>6. PortInv' /\ CountInv'
  <2>1. PortInv /\ CountInv /\ submissions' \in Nat /\ submissions <= submissions'
    BY <1>4 DEF StreamInv, SubmitsMore
  <2>2. ~open => ops' = ops
    BY <1>1
  <2>3. admission.submission \in 1 .. submissions => admission.submission \in 1 .. submissions'
    BY <1>4, <2>1
  <2> QED BY <1>1, <2>1, <2>2, <2>3 DEF PortInv, CountInv
<1>7. ChannelInv'
  <2>1. Channel(events, pending, admission.held, 0, cursors, epoch, sequence, pieces, view', turn)
    BY <1>2, ViewForgets DEF StreamInv, ChannelInv
  <2>2. ASSUME NEW i \in DOMAIN events PROVE Kinded(events[i])'
    <3>1. Kinded(events[i]) /\ events[i] \in Event
      BY Types DEF StreamInv, ChannelInv
    <3>2. submissions' \in Nat /\ submissions <= submissions' /\ events[i].submission \in Nat
      BY <1>4, <3>1, EventTypes DEF SubmitsMore
    <3> QED BY <1>1, <1>4, <3>1, <3>2 DEF Kinded
  <2> QED BY <1>1, <2>1, <2>2 DEF StreamInv, ChannelInv
<1>8. ViewInv'
  <2>1. Len(<<>>) = 0 /\ DOMAIN <<>> = {} /\ t # NoThread
    BY StreamAssumption
  <2>2. view'.loading = ~view'.loaded /\ view'.thread # NoThread /\ ~view'.loaded
    BY <1>2, <2>1
  <2>3. DOMAIN view'.text = {} /\ view'.seam <= Len(view'.text)
    BY <1>2, <2>1
  <2> QED BY <2>2, <2>3 DEF ViewInv, Rises
<1>9. AskedInv' /\ HeardInv'
  <2>1. CASE open
    BY <1>1, <1>2, <1>3, <2>1, SubmitAsked
  <2>2. CASE ~open
    BY <1>1, <2>2 DEF AskedInv, Asking, HeardInv
  <2> QED BY <2>1, <2>2
<1> QED BY <1>4, <1>5, <1>6, <1>7, <1>8, <1>9 DEF StreamInv

-----------------------------------------------------------------------------
(* From the first state on. *)

LEMMA StreamStarts ==
  ASSUME StreamInit
  PROVE  StreamInv
<1>1. /\ exists = Thread /\ written = [t \in Thread |-> 0] /\ announced = [t \in Thread |-> 0]
      /\ pieces = [t \in Thread |-> 0] /\ turn = [t \in Thread |-> "none"]
      /\ epoch = 1 /\ stops = 0 /\ sequence = [t \in Thread |-> 0]
      /\ subscribed = NoThread /\ admission = NoAdmission /\ pending = NoPending
      /\ ops = <<>> /\ events = <<>> /\ open = FALSE /\ connected = FALSE
      /\ cursors = [t \in Thread |-> NoCursor] /\ expected = NobodyExpected
      /\ submissions = 0 /\ view = Draft
  BY DEF StreamInit
<1>2. /\ MaxFacts \in Nat /\ MaxDeltas \in Nat /\ MaxSubmissions \in Nat /\ MaxStops \in Nat
      /\ NoCursor \in Cursor
  BY StreamAssumption, NextIsLater DEF NoCursor, Cursor
<1>3. /\ view.thread = NoThread /\ ~view.loaded /\ ~view.loading /\ view.text = <<>> /\ view.seam = 0
      /\ view \in ViewType /\ expected.submission = 0
      /\ expected \in [submission : Nat, thread : Thread0]
  BY <1>1 DEF Draft, NobodyExpected, ViewType, Thread0
<1>4. StreamTypeOK
  <2>1. /\ admission \in AdmissionType /\ pending \in PendingType /\ ops \in Seq(OpType)
        /\ events \in Seq(Event) /\ subscribed \in Thread0
    <3>1. <<>> \in Seq(OpType) /\ <<>> \in Seq(Event)
      OBVIOUS
    <3> QED BY <1>1, <3>1, NoAdmissionIs DEF Thread0
  <2>2. /\ written \in [Thread -> 0 .. MaxFacts + 1] /\ announced \in [Thread -> 0 .. MaxFacts + 1]
        /\ pieces \in [Thread -> 0 .. MaxDeltas] /\ turn \in [Thread -> {"none", "live", "over"}]
        /\ sequence \in [Thread -> Nat] /\ cursors \in [Thread -> Cursor]
        /\ epoch \in Nat /\ stops \in 0 .. MaxStops /\ submissions \in 0 .. MaxSubmissions
    BY <1>1, <1>2
  <2> QED BY <1>1, <1>3, <2>1, <2>2 DEF StreamTypeOK, AdmissionType, PendingType, OpType, ViewType, Thread0
<1>5. PortInv /\ ChannelInv /\ OrderInv
  BY <1>1, EmptyChannel DEF PortInv, ChannelInv, OrderInv
<1>6. CountInv
  <2>1. \A t \in Thread : ~Later(cursors[t], <<epoch, sequence[t]>>)
    BY <1>1 DEF Later, NoCursor
  <2> QED BY <1>1, <1>2, <2>1 DEF CountInv
<1>7. ViewInv
  <2>1. DOMAIN view.text = {} /\ view.seam <= Len(view.text)
    BY <1>3
  <2> QED BY <1>3, <2>1 DEF ViewInv, Rises
<1>8. AskedInv /\ HeardInv
  BY <1>1 DEF AskedInv, Asking, HeardInv
<1> QED BY <1>4, <1>5, <1>6, <1>7, <1>8 DEF StreamInv

LEMMA StreamSteps ==
  ASSUME StreamInv, [StreamNext]_streamVars
  PROVE  StreamInv'
<1>1. CASE UNCHANGED streamVars
  <2>1. UNCHANGED <<exists, written, announced, pieces, turn, epoch, stops, sequence, subscribed, admission,
                    pending, ops, events, open, connected, cursors, expected, submissions, view>>
    BY <1>1
  <2>2. StreamTypeOK'
    <3>1. StreamTypeOK
      BY DEF StreamInv
    <3>2. /\ admission' \in AdmissionType /\ pending' \in PendingType /\ ops' \in Seq(OpType)
          /\ view' \in ViewType /\ events' \in Seq(Event)
      BY <2>1, Types DEF StreamInv
    <3> QED BY <2>1, <3>1, <3>2 DEF StreamTypeOK, AdmissionType, PendingType, OpType, ViewType, Thread0
  <2>3. PortInv' /\ CountInv' /\ OrderInv' /\ ViewInv'
    BY <2>1 DEF StreamInv, PortInv, CountInv, OrderInv, ViewInv
  <2>4. ChannelInv'
    BY <2>1 DEF StreamInv, ChannelInv, Kinded
  <2>5. HeardInv'
    BY <2>1 DEF StreamInv, HeardInv, Streamed, Shown
  <2>6. AskedInv'
    BY <2>1 DEF StreamInv, AskedInv, Asking, AskedLast, AskedQueued, AskedRead, AskedAnswered,
           AskedSomewhere, AnswersWell, IsNewest, Gone
  <2> QED BY <2>2, <2>3, <2>4, <2>5, <2>6 DEF StreamInv
<1>2. ASSUME NEW t \in Working, EngineStep(t) PROVE StreamInv'
  <2>1. t \in Thread
    BY StreamAssumption
  <2> QED BY <1>2, <2>1, WriteKeeps, AnnounceKeeps DEF EngineStep
<1>3. ASSUME NEW t \in Thread, OpenThread(t) PROVE StreamInv'
  BY <1>3, OpenThreadKeeps
<1>4. CASE AdmissionStep
  BY <1>4, InitializeOnlyKeeps, BeginAdmissionKeeps, ReadMetaKeeps, CommitAdmissionKeeps,
     CancelAdmissionKeeps DEF AdmissionStep
<1>5. CASE FlushTimer \/ LosePort \/ StopWorker \/ StartWorker \/ ConnectPort
  BY <1>5, FlushTimerKeeps, LosePortKeeps, StopWorkerKeeps, StartWorkerKeeps, ConnectPortKeeps
<1>6. CASE PageReads
  BY <1>6, ApplySnapshotKeeps, IgnoreSnapshotKeeps, ApplyInitializedKeeps, ApplyNotFoundKeeps,
     ApplyEventKeeps, ApplyCompleteKeeps, ApplyDeletedKeeps, IgnoreEventKeeps DEF PageReads
<1> QED BY <1>1, <1>2, <1>3, <1>4, <1>5, <1>6 DEF StreamNext

LEMMA NothingIsMissing ==
  ASSUME StreamInv
  PROVE  NothingMissed
<1> DEFINE v == view.thread
<1>1. ASSUME Settled, v \in exists
      PROVE  /\ view.loaded /\ ~view.loading /\ subscribed = v
             /\ 1 .. announced[v] \subseteq Shown
  <2>1. /\ open /\ ops = <<>> /\ events = <<>> /\ admission = NoAdmission /\ pending = NoPending
    BY <1>1 DEF Settled
  <2>2. v \in Thread /\ v # NoThread
    BY <1>1, Types DEF StreamInv
  <2>3. DOMAIN ops = {} /\ DOMAIN events = {} /\ DOMAIN admission.held = {}
    BY <2>1, EmptyChannel
  <2>4. ~Asking
    BY <1>1, <2>1, <2>3 DEF StreamInv, AskedInv, AskedSomewhere, Gone
  <2>5. /\ view.loaded /\ subscribed = v
        /\ Knows(v, NoCursor, Shown, events, admission.held, announced[v])
    BY <2>1, <2>2, <2>4 DEF StreamInv, HeardInv, Asking
  <2>6. \A n \in 1 .. announced[v] : n \in Shown
    BY <2>3, <2>5 DEF Knows, ItemIn
  <2> QED BY <2>2, <2>5, <2>6 DEF StreamInv, ViewInv
<1>2. ASSUME NEW i \in 1 .. Len(view.text) - 1
      PROVE  /\ view.text[i + 1] > view.text[i]
             /\ view.loaded /\ i > view.seam => view.text[i + 1] = view.text[i] + 1
  <2>1. view.text \in Seq(Nat)
    BY FieldTypes DEF StreamInv
  <2>2. i \in DOMAIN view.text /\ i + 1 \in DOMAIN view.text /\ i < i + 1
        /\ view.text[i] \in Nat /\ view.text[i + 1] \in Nat
    BY <2>1
  <2>3. view.text[i] < view.text[i + 1]
    BY <2>2 DEF StreamInv, ViewInv, Rises
  <2> QED BY <2>2, <2>3 DEF StreamInv, ViewInv
<1> QED BY <1>1, <1>2 DEF NothingMissed

(* Every reachable state satisfies the invariant above, for every set of    *)
(* threads and every bound.                                                 *)
THEOREM StreamInvariant == StreamSpec => []StreamInv
<1>1. StreamInit => StreamInv
  BY StreamStarts
<1>2. StreamInv /\ [StreamNext]_streamVars => StreamInv'
  BY StreamSteps
<1> QED BY <1>1, <1>2, PTL DEF StreamSpec

(* What a page shows of a thread is all of it and in order, whatever        *)
(* happened while its snapshot was read: host.ts and engineClient.ts lose   *)
(* nothing between a snapshot and the events around it, and since the last  *)
(* snapshot the text of a turn has no hole.                                 *)
THEOREM NothingIsMissed == StreamSpec => []NothingMissed
<1>1. StreamInv => NothingMissed
  BY NothingIsMissing
<1> QED BY <1>1, StreamInvariant, PTL
=============================================================================
