---------------------------- MODULE BrowserProofs ----------------------------
(****************************************************************************)
(* What is proved of the browser tools: a turn works on the tabs it was told   *)
(* about, an action of a content tool happens at most once and as agreed, the  *)
(* dialogs of a page are its own again after the calls, and deep input goes to *)
(* the document its ref was made in.                                           *)
(****************************************************************************)
EXTENDS BrowserMC, DataLemmas, FiniteSetTheorems

USE DEF tabVars, browser, turns, worker, dom, pageWork, counted, callVars, deepVars

-----------------------------------------------------------------------------
(***************************************************************************)
(* A fold over a sequence is the value at its whole domain of a recursive   *)
(* function.  That the function exists, is the only one, and has the value  *)
(* of the shorter sequence under the last step is shown for one more        *)
(* element at a time, so that an invariant can carry it.                    *)
(***************************************************************************)
Replays(g, m, q) ==
  g = [s \in SUBSET DOMAIN q |-> IF s = {} THEN m ELSE Mutated(g[s \ {Max(s)}], q[Max(s)])]

LastIn(q) == \A s \in SUBSET DOMAIN q : s # {} => Max(s) \in s
FoldsOnce(m, q) == \E g : Replays(g, m, q) /\ \A h : Replays(h, m, q) => h = g

LEMMA FoldIs ==
  ASSUME NEW m, NEW q, NEW g, Replays(g, m, q), \A h : Replays(h, m, q) => h = g
  PROVE  FoldLeft(Mutated, m, q) = g[DOMAIN q]
<1>1. FoldLeft(Mutated, m, q) = (CHOOSE h : Replays(h, m, q))[DOMAIN q]
  BY DEF FoldLeft, MapThenFoldSet, Replays
<1>2. (CHOOSE h : Replays(h, m, q)) = g
  OBVIOUS
<1> QED BY <1>1, <1>2

LEMMA MaxIs ==
  ASSUME NEW S \in SUBSET Nat, NEW n \in S, \A y \in S : y <= n
  PROVE  Max(S) = n
<1>1. \A x \in S : (\A y \in S : x >= y) => x = n
  OBVIOUS
<1>2. \A y \in S : n >= y
  OBVIOUS
<1> QED BY <1>1, <1>2 DEF Max

LEMMA ReplaysNothing ==
  ASSUME NEW m, NEW q, q = <<>>
  PROVE  LastIn(q) /\ FoldsOnce(m, q) /\ FoldLeft(Mutated, m, q) = m
<1>1. DOMAIN q = {}
  <2>1. q \in Seq({}) /\ Len(q) = 0
    BY EmptySeq
  <2> QED BY <2>1
<1>2. SUBSET DOMAIN q = {{}}
  BY <1>1
<1> PICK g : g = [s \in {{}} |-> m]
  OBVIOUS
<1>3. Replays(g, m, q) /\ \A h : Replays(h, m, q) => h = g
  <2>1. \A h : [s \in SUBSET DOMAIN q |->
                   IF s = {} THEN m ELSE Mutated(h[s \ {Max(s)}], q[Max(s)])]
               = [s \in SUBSET DOMAIN q |-> m]
    BY <1>2
  <2>2. [s \in SUBSET DOMAIN q |-> m] = g
    BY <1>2
  <2>3. Replays(g, m, q)
    BY <2>1, <2>2, Zenon DEF Replays
  <2>4. ASSUME NEW h, Replays(h, m, q) PROVE h = g
    BY <2>1, <2>2, <2>4, Zenon DEF Replays
  <2> QED BY <2>3, <2>4
<1>4. g[{}] = m
  OBVIOUS
<1>5. FoldLeft(Mutated, m, q) = g[DOMAIN q]
  BY <1>3, FoldIs
<1>6. LastIn(q)
  BY <1>2 DEF LastIn
<1> QED BY <1>1, <1>3, <1>4, <1>5, <1>6 DEF FoldsOnce

LEMMA ReplaysOneMore ==
  ASSUME NEW S, NEW q \in Seq(S), NEW u \in S, NEW m, LastIn(q), FoldsOnce(m, q)
  PROVE  /\ LastIn(Append(q, u)) /\ FoldsOnce(m, Append(q, u))
         /\ FoldLeft(Mutated, m, Append(q, u)) = Mutated(FoldLeft(Mutated, m, q), u)
<1> DEFINE r == Append(q, u)
           n == Len(q) + 1
           D == DOMAIN q
<1>1. /\ DOMAIN r = D \cup {n} /\ n \notin D /\ n \in Nat /\ r[n] = u
      /\ \A i \in D : r[i] = q[i] /\ i \in Nat /\ i < n
  <2>1. Len(q) \in Nat /\ DOMAIN q = 1..Len(q) /\ Len(r) = Len(q) + 1 /\ DOMAIN r = 1..(Len(q) + 1)
    OBVIOUS
  <2>2. r[Len(q) + 1] = u /\ \A i \in 1..Len(q) : r[i] = q[i]
    OBVIOUS
  <2> QED BY <2>1, <2>2
<1>2. D = DOMAIN q
  OBVIOUS
<1> HIDE DEF r, n, D
<1>3. PICK g : Replays(g, m, q) /\ \A h : Replays(h, m, q) => h = g
  BY DEF FoldsOnce
<1>4. ASSUME NEW s \in SUBSET (D \cup {n}), n \in s PROVE Max(s) = n /\ s \ {n} \in SUBSET D
  <2>1. s \in SUBSET Nat /\ \A y \in s : y <= n
    BY <1>1
  <2> QED BY <1>4, <2>1, MaxIs
<1>5. ASSUME NEW s \in SUBSET (D \cup {n}), n \notin s, s # {}
      PROVE  s \in SUBSET D /\ Max(s) \in s /\ n \notin s \ {Max(s)}
  BY <1>2, <1>5 DEF LastIn
<1>6. LastIn(r)
  BY <1>1, <1>4, <1>5 DEF LastIn
<1>7. \A s \in SUBSET D : g[s] = IF s = {} THEN m ELSE Mutated(g[s \ {Max(s)}], q[Max(s)])
  BY <1>2, <1>3 DEF Replays
<1> PICK f : f = [s \in SUBSET (D \cup {n}) |-> IF n \in s THEN Mutated(g[s \ {n}], u) ELSE g[s]]
  OBVIOUS
<1>8. Replays(f, m, r)
  <2>1. ASSUME NEW s \in SUBSET (D \cup {n})
        PROVE  f[s] = IF s = {} THEN m ELSE Mutated(f[s \ {Max(s)}], r[Max(s)])
    <3>1. CASE n \in s
      <4>1. Max(s) = n /\ s \ {n} \in SUBSET D /\ n \notin s \ {n}
        BY <1>4, <3>1
      <4>2. f[s] = Mutated(g[s \ {n}], u) /\ f[s \ {n}] = g[s \ {n}]
        BY <3>1, <4>1
      <4> QED BY <1>1, <3>1, <4>1, <4>2
    <3>2. CASE s = {}
      BY <1>7, <3>2
    <3>3. CASE n \notin s /\ s # {}
      <4>1. s \in SUBSET D /\ Max(s) \in D /\ n \notin s \ {Max(s)}
        BY <1>5, <3>3
      <4>2. f[s] = g[s] /\ f[s \ {Max(s)}] = g[s \ {Max(s)}] /\ r[Max(s)] = q[Max(s)]
        BY <1>1, <3>3, <4>1
      <4> QED BY <1>7, <3>3, <4>1, <4>2
    <3> QED BY <3>1, <3>2, <3>3
  <2>2. f = [s \in SUBSET (D \cup {n}) |-> f[s]]
    OBVIOUS
  <2>3. f = [s \in SUBSET (D \cup {n}) |->
               IF s = {} THEN m ELSE Mutated(f[s \ {Max(s)}], r[Max(s)])]
    BY <2>1, <2>2
  <2> QED BY <1>1, <2>3 DEF Replays
<1>9. ASSUME NEW h, Replays(h, m, r) PROVE h = f
  <2>1. /\ h = [s \in SUBSET (D \cup {n}) |-> h[s]]
        /\ \A s \in SUBSET (D \cup {n}) :
             h[s] = IF s = {} THEN m ELSE Mutated(h[s \ {Max(s)}], r[Max(s)])
    BY <1>1, <1>9, Zenon DEF Replays
  <2> PICK k : k = [s \in SUBSET D |-> h[s]]
    OBVIOUS
  <2>2. k = g
    <3>1. ASSUME NEW s \in SUBSET D
          PROVE  k[s] = IF s = {} THEN m ELSE Mutated(k[s \ {Max(s)}], q[Max(s)])
      <4>1. s \in SUBSET (D \cup {n}) /\ n \notin s /\ k[s] = h[s]
        BY <1>1
      <4>2. CASE s = {}
        BY <2>1, <4>1, <4>2
      <4>3. CASE s # {}
        <5>1. Max(s) \in D /\ s \ {Max(s)} \in SUBSET D /\ r[Max(s)] = q[Max(s)]
          BY <1>1, <1>5, <4>1, <4>3
        <5> QED BY <2>1, <4>1, <4>3, <5>1
      <4> QED BY <4>2, <4>3
    <3>2. k = [s \in SUBSET D |-> k[s]]
      OBVIOUS
    <3>3. k = [s \in SUBSET D |-> IF s = {} THEN m ELSE Mutated(k[s \ {Max(s)}], q[Max(s)])]
      BY <3>1, <3>2
    <3> QED BY <1>2, <1>3, <3>3 DEF Replays
  <2>3. ASSUME NEW s \in SUBSET (D \cup {n}) PROVE h[s] = f[s]
    <3>1. CASE n \in s
      <4>1. Max(s) = n /\ s \ {n} \in SUBSET D
        BY <1>4, <3>1
      <4>2. h[s] = Mutated(h[s \ {n}], u) /\ h[s \ {n}] = g[s \ {n}]
        BY <1>1, <2>1, <2>2, <3>1, <4>1
      <4> QED BY <3>1, <4>2
    <3>2. CASE n \notin s
      <4>1. s \in SUBSET D
        BY <3>2
      <4> QED BY <2>2, <3>2, <4>1
    <3> QED BY <3>1, <3>2
  <2> QED BY <2>1, <2>3
<1>10. FoldLeft(Mutated, m, r) = f[D \cup {n}] /\ FoldLeft(Mutated, m, q) = g[D]
  <2>1. FoldLeft(Mutated, m, r) = f[DOMAIN r]
    BY <1>8, <1>9, FoldIs
  <2>2. FoldLeft(Mutated, m, q) = g[DOMAIN q]
    BY <1>3, FoldIs
  <2> QED BY <1>1, <1>2, <2>1, <2>2
<1>11. f[D \cup {n}] = Mutated(g[D], u)
  BY <1>1
<1> QED BY <1>6, <1>8, <1>9, <1>10, <1>11 DEF r, FoldsOnce

-----------------------------------------------------------------------------
(***************************************************************************)
(* The targets of the turns.  A turn that runs was bound in this life of    *)
(* the worker, so what was stored before says nothing about it: applied on  *)
(* top of any stored maps, the changes made since give its entries as they  *)
(* are now.  Its bound tab, while it is open, is one it was told about.     *)
(***************************************************************************)
TabChange ==
  [kind : {"removed"}, tab : Tab] \cup [kind : {"replaced"}, tab : Tab, to : Tab]
  \cup [kind : {"bound"}, chat : Chat, tab : Tab \cup {NoTab, Nowhere}]
  \cup [kind : {"released", "cleared"}, chat : Chat, tab : {NoTab}]
  \cup [kind : {"locked", "touched", "driven"}, chat : Chat, tab : Tab]
  \cup [kind : {"adopted"}, chat : Chat, tab : Tab, to : Tab]

SubmittedAfter(u, c, s) ==
  CASE u.kind = "removed" -> IF s = u.tab THEN Nowhere ELSE s
    [] u.kind = "replaced" -> IF s = u.tab THEN u.to ELSE s
    [] u.kind = "bound" -> IF u.chat = c THEN u.tab ELSE s
    [] u.kind \in {"released", "cleared"} -> IF u.chat = c THEN NoTab ELSE s
    [] u.kind = "adopted" -> IF u.chat = c /\ s = u.tab THEN u.to ELSE s
    [] OTHER -> s

DrivenAfter(u, c, D) ==
  CASE u.kind = "removed" -> D \ {u.tab}
    [] u.kind = "replaced" -> Swapped(D, u.tab, u.to)
    [] u.kind \in {"bound", "released", "cleared"} -> IF u.chat = c THEN {} ELSE D
    [] u.kind = "driven" -> IF u.chat = c THEN D \cup {u.tab} ELSE D
    [] u.kind = "adopted" -> IF u.chat = c THEN D \cup {u.to} ELSE D
    [] OTHER -> D

Entries(m) == [target |-> m.target, submitted |-> m.submitted, touched |-> m.touched,
               driven |-> m.driven]
SameFor(c, m, n) == m.submitted[c] = n.submitted[c] /\ m.driven[c] = n.driven[c]
ToldTo(c) == {meant[c][i] : i \in DOMAIN meant[c]}

LEMMA MapsAre ==
  ASSUME NEW m \in Maps
  PROVE  /\ m = Entries(m)
         /\ m.target \in [Chat -> Tab \cup {NoTab}] /\ m.touched \in [Chat -> SUBSET Tab]
         /\ m.submitted \in [Chat -> Tab \cup {NoTab, Nowhere}]
         /\ m.driven \in [Chat -> SUBSET Tab]
BY DEF Maps, Entries

LEMMA AreMaps ==
  ASSUME NEW m, NEW tg \in [Chat -> Tab \cup {NoTab}], NEW to \in [Chat -> SUBSET Tab],
         NEW su \in [Chat -> Tab \cup {NoTab, Nowhere}], NEW dr \in [Chat -> SUBSET Tab],
         m = [target |-> tg, submitted |-> su, touched |-> to, driven |-> dr]
  PROVE  m \in Maps /\ m.submitted = su /\ m.driven = dr
BY DEF Maps

\* What a change does to the entries of a chat.
LEMMA ChangeFits ==
  ASSUME NEW m \in Maps, NEW u \in TabChange
  PROVE  /\ Mutated(m, u) \in Maps
         /\ \A c \in Chat : /\ Mutated(m, u).submitted[c] = SubmittedAfter(u, c, m.submitted[c])
                            /\ Mutated(m, u).driven[c] = DrivenAfter(u, c, m.driven[c])
<1> PICK n : n = Mutated(m, u)
  OBVIOUS
<1>1. /\ m = Entries(m)
      /\ m.target \in [Chat -> Tab \cup {NoTab}] /\ m.touched \in [Chat -> SUBSET Tab]
      /\ m.submitted \in [Chat -> Tab \cup {NoTab, Nowhere}]
      /\ m.driven \in [Chat -> SUBSET Tab]
  BY MapsAre
<1>2. CASE u \in [kind : {"removed"}, tab : Tab]
  <2>1. u.kind = "removed" /\ u.tab \in Tab
    BY <1>2
  <2>2. n = [target |-> [c \in Chat |-> IF m.target[c] = u.tab THEN NoTab ELSE m.target[c]],
             submitted |-> [c \in Chat |-> IF m.submitted[c] = u.tab THEN Nowhere ELSE m.submitted[c]],
             touched |-> [c \in Chat |-> m.touched[c] \ {u.tab}],
             driven |-> [c \in Chat |-> m.driven[c] \ {u.tab}]]
    BY <2>1 DEF Mutated, Removed, Without
  <2>3. /\ [c \in Chat |-> IF m.target[c] = u.tab THEN NoTab ELSE m.target[c]]
             \in [Chat -> Tab \cup {NoTab}]
        /\ [c \in Chat |-> IF m.submitted[c] = u.tab THEN Nowhere ELSE m.submitted[c]]
             \in [Chat -> Tab \cup {NoTab, Nowhere}]
        /\ [c \in Chat |-> m.touched[c] \ {u.tab}] \in [Chat -> SUBSET Tab]
        /\ [c \in Chat |-> m.driven[c] \ {u.tab}] \in [Chat -> SUBSET Tab]
    BY <1>1
  <2>4. /\ n \in Maps
        /\ n.submitted = [c \in Chat |-> IF m.submitted[c] = u.tab THEN Nowhere ELSE m.submitted[c]]
        /\ n.driven = [c \in Chat |-> m.driven[c] \ {u.tab}]
    BY <2>2, <2>3, AreMaps
  <2> QED BY <2>1, <2>4 DEF SubmittedAfter, DrivenAfter
<1>3. CASE u \in [kind : {"replaced"}, tab : Tab, to : Tab]
  <2>1. u.kind = "replaced" /\ u.tab \in Tab /\ u.to \in Tab
    BY <1>3
  <2>2. n = [target |-> [c \in Chat |-> IF m.target[c] = u.tab THEN u.to ELSE m.target[c]],
             submitted |-> [c \in Chat |-> IF m.submitted[c] = u.tab THEN u.to ELSE m.submitted[c]],
             touched |-> [c \in Chat |-> Swapped(m.touched[c], u.tab, u.to)],
             driven |-> [c \in Chat |-> Swapped(m.driven[c], u.tab, u.to)]]
    BY <2>1 DEF Mutated, Replaced
  <2>3. /\ [c \in Chat |-> IF m.target[c] = u.tab THEN u.to ELSE m.target[c]]
             \in [Chat -> Tab \cup {NoTab}]
        /\ [c \in Chat |-> IF m.submitted[c] = u.tab THEN u.to ELSE m.submitted[c]]
             \in [Chat -> Tab \cup {NoTab, Nowhere}]
        /\ [c \in Chat |-> Swapped(m.touched[c], u.tab, u.to)] \in [Chat -> SUBSET Tab]
        /\ [c \in Chat |-> Swapped(m.driven[c], u.tab, u.to)] \in [Chat -> SUBSET Tab]
    BY <1>1, <2>1 DEF Swapped
  <2>4. /\ n \in Maps
        /\ n.submitted = [c \in Chat |-> IF m.submitted[c] = u.tab THEN u.to ELSE m.submitted[c]]
        /\ n.driven = [c \in Chat |-> Swapped(m.driven[c], u.tab, u.to)]
    BY <2>2, <2>3, AreMaps
  <2> QED BY <2>1, <2>4 DEF SubmittedAfter, DrivenAfter
<1>4. CASE u \in [kind : {"bound"}, chat : Chat, tab : Tab \cup {NoTab, Nowhere}]
  <2>1. u.kind = "bound" /\ u.chat \in Chat /\ u.tab \in Tab \cup {NoTab, Nowhere}
    BY <1>4
  <2>2. n = [target |-> [m.target EXCEPT ![u.chat] = NoTab],
             submitted |-> [m.submitted EXCEPT ![u.chat] = u.tab],
             touched |-> m.touched, driven |-> [m.driven EXCEPT ![u.chat] = {}]]
    BY <1>1, <2>1 DEF Mutated, Bound, Entries
  <2>3. n \in Maps /\ n.submitted = [m.submitted EXCEPT ![u.chat] = u.tab]
        /\ n.driven = [m.driven EXCEPT ![u.chat] = {}]
    BY <1>1, <2>1, <2>2 DEF Maps
  <2> QED BY <1>1, <2>1, <2>3 DEF SubmittedAfter, DrivenAfter
<1>5. CASE u \in [kind : {"released", "cleared"}, chat : Chat, tab : {NoTab}]
  <2>1. u.kind \in {"released", "cleared"} /\ u.chat \in Chat
    BY <1>5
  <2>2. \E to \in [Chat -> SUBSET Tab] :
          n = [target |-> [m.target EXCEPT ![u.chat] = NoTab],
               submitted |-> [m.submitted EXCEPT ![u.chat] = NoTab],
               touched |-> to, driven |-> [m.driven EXCEPT ![u.chat] = {}]]
    <3>1. CASE u.kind = "released"
      BY <1>1, <2>1, <3>1 DEF Mutated, Released, Entries
    <3>2. CASE u.kind = "cleared"
      <4>1. n = [target |-> [m.target EXCEPT ![u.chat] = NoTab],
                 submitted |-> [m.submitted EXCEPT ![u.chat] = NoTab],
                 touched |-> [m.touched EXCEPT ![u.chat] = {}],
                 driven |-> [m.driven EXCEPT ![u.chat] = {}]]
        BY <1>1, <2>1, <3>2 DEF Mutated, Cleared, Released, Entries
      <4> QED BY <1>1, <4>1
    <3> QED BY <2>1, <3>1, <3>2
  <2>3. n \in Maps /\ n.submitted = [m.submitted EXCEPT ![u.chat] = NoTab]
        /\ n.driven = [m.driven EXCEPT ![u.chat] = {}]
    BY <1>1, <2>1, <2>2 DEF Maps
  <2> QED BY <1>1, <2>1, <2>3 DEF SubmittedAfter, DrivenAfter
<1>6. CASE u \in [kind : {"locked", "touched", "driven"}, chat : Chat, tab : Tab]
  <2>1. u.kind \in {"locked", "touched", "driven"} /\ u.chat \in Chat /\ u.tab \in Tab
    BY <1>6
  <2>2. CASE u.kind = "locked"
    <3>1. n = [target |-> [m.target EXCEPT ![u.chat] = u.tab], submitted |-> m.submitted,
               touched |-> [m.touched EXCEPT ![u.chat] = @ \cup {u.tab}], driven |-> m.driven]
      BY <1>1, <2>1, <2>2 DEF Mutated, Entries
    <3>2. n \in Maps /\ n.submitted = m.submitted /\ n.driven = m.driven
      BY <1>1, <2>1, <3>1 DEF Maps
    <3> QED BY <1>1, <2>2, <3>2 DEF SubmittedAfter, DrivenAfter
  <2>3. CASE u.kind = "touched"
    <3>1. n = [target |-> m.target, submitted |-> m.submitted,
               touched |-> [m.touched EXCEPT ![u.chat] = @ \cup {u.tab}], driven |-> m.driven]
      BY <1>1, <2>1, <2>3 DEF Mutated, Entries
    <3>2. n \in Maps /\ n.submitted = m.submitted /\ n.driven = m.driven
      BY <1>1, <2>1, <3>1 DEF Maps
    <3> QED BY <1>1, <2>3, <3>2 DEF SubmittedAfter, DrivenAfter
  <2>4. CASE u.kind = "driven"
    <3>1. n = [target |-> m.target, submitted |-> m.submitted, touched |-> m.touched,
               driven |-> [m.driven EXCEPT ![u.chat] = @ \cup {u.tab}]]
      BY <1>1, <2>1, <2>4 DEF Mutated, Entries
    <3>2. n \in Maps /\ n.submitted = m.submitted
          /\ n.driven = [m.driven EXCEPT ![u.chat] = @ \cup {u.tab}]
      BY <1>1, <2>1, <3>1 DEF Maps
    <3> QED BY <1>1, <2>1, <2>4, <3>2 DEF SubmittedAfter, DrivenAfter
  <2> QED BY <2>1, <2>2, <2>3, <2>4
<1>7. CASE u \in [kind : {"adopted"}, chat : Chat, tab : Tab, to : Tab]
  <2>1. u.kind = "adopted" /\ u.chat \in Chat /\ u.tab \in Tab /\ u.to \in Tab
    BY <1>7
  <2>2. n = [target |-> [m.target EXCEPT ![u.chat] = IF @ = u.tab THEN u.to ELSE @],
             submitted |-> [m.submitted EXCEPT ![u.chat] = IF @ = u.tab THEN u.to ELSE @],
             touched |-> [m.touched EXCEPT ![u.chat] = @ \cup {u.to}],
             driven |-> [m.driven EXCEPT ![u.chat] = @ \cup {u.to}]]
    BY <1>1, <2>1 DEF Mutated, Adopted, Entries
  <2>3. /\ n \in Maps
        /\ n.submitted = [m.submitted EXCEPT ![u.chat] = IF @ = u.tab THEN u.to ELSE @]
        /\ n.driven = [m.driven EXCEPT ![u.chat] = @ \cup {u.to}]
    BY <1>1, <2>1, <2>2 DEF Maps
  <2> QED BY <1>1, <2>1, <2>3 DEF SubmittedAfter, DrivenAfter
<1> QED BY <1>2, <1>3, <1>4, <1>5, <1>6, <1>7 DEF TabChange

TabTypes ==
  /\ tabs \in SUBSET opened /\ opened \in SUBSET Tab /\ visible \in opened \cup {NoTab}
  /\ gateway \in Maps /\ saved \in Maps /\ hydration \in {"off", "reading", "done"}
  /\ replayed \in Seq(TabChange)
  /\ phase \in [Chat -> {"none", "running", "stopped"}]
  /\ captured \in [Chat -> Tab \cup {NoTab, Nowhere}]
  /\ meant \in [Chat -> Seq(Tab \cup {Nowhere})] /\ wrote \in [Chat -> SUBSET Tab]

ReplayFits ==
  /\ LastIn(replayed)
  /\ \A m \in Maps : FoldsOnce(m, replayed) /\ Hydrated(m) \in Maps

TurnFits(c) ==
  /\ wrote[c] \in SUBSET tabs /\ (phase[c] = "none" => wrote[c] = {})
  /\ captured[c] \in opened \cup {NoTab, Nowhere}
  /\ phase[c] # "none" => captured[c] # NoTab

BindingFits(c) ==
  /\ hydration # "off"
  /\ gateway.submitted[c] \in opened \cup {Nowhere}
  /\ gateway.submitted[c] \in tabs => gateway.submitted[c] \in ToldTo(c)
  /\ wrote[c] \in SUBSET gateway.driven[c]
  /\ hydration = "reading" => \A m \in Maps : SameFor(c, Hydrated(m), gateway)

\* What is to be carried out after a restart was meant for a tab there has been.
RecoveryFits(c) ==
  /\ recovery[c].target \in opened \cup {NoTab} /\ recovery[c].at \in {"idle", "checked", "bound"}
  /\ recovery[c].at = "checked" => recovery[c].target # NoTab
  /\ recovery[c].at # "idle" => phase[c] # "none"

RecoverInv ==
  /\ recovery \in [Chat -> [target : Tab \cup {NoTab}, at : {"idle", "checked", "bound"}]]
  /\ \A c \in Chat : RecoveryFits(c)

TabInv ==
  /\ TabTypes /\ ReplayFits
  /\ \A c \in Chat : TurnFits(c) /\ (phase[c] = "running" => BindingFits(c))

\* A change made, now and on top of whatever was stored.
LEMMA MapsChange ==
  ASSUME TabInv, NEW u \in TabChange, Mutate(u), UNCHANGED hydration
  PROVE  /\ gateway' \in Maps /\ replayed' \in Seq(TabChange) /\ ReplayFits'
         /\ \A c \in Chat :
              /\ gateway'.submitted[c] = SubmittedAfter(u, c, gateway.submitted[c])
              /\ gateway'.driven[c] = DrivenAfter(u, c, gateway.driven[c])
              /\ phase[c] = "running" \/ (u.kind = "bound" /\ u.chat = c) =>
                   (hydration = "reading" => \A m \in Maps : SameFor(c, Hydrated(m)', gateway'))
<1>1. gateway' = Mutated(gateway, u) /\ gateway \in Maps /\ replayed \in Seq(TabChange) /\ ReplayFits
  BY DEF Mutate, TabInv, TabTypes
<1>2. /\ gateway' \in Maps
      /\ \A c \in Chat : /\ gateway'.submitted[c] = SubmittedAfter(u, c, gateway.submitted[c])
                         /\ gateway'.driven[c] = DrivenAfter(u, c, gateway.driven[c])
  BY <1>1, ChangeFits
<1>3. CASE hydration # "reading"
  <2>1. replayed' = replayed
    BY <1>3 DEF Mutate
  <2>2. ReplayFits'
    BY <1>1, <2>1 DEF ReplayFits, Hydrated
  <2> QED BY <1>1, <1>2, <1>3, <2>1, <2>2
<1>4. CASE hydration = "reading"
  <2>1. replayed' = Append(replayed, u)
    BY <1>4 DEF Mutate
  <2>2. replayed' \in Seq(TabChange)
    BY <1>1, <2>1
  <2>3. LastIn(replayed')
    <3>1. ASSUME NEW m \in Maps PROVE LastIn(replayed')
      BY <1>1, <2>1, ReplaysOneMore DEF ReplayFits
    <3> QED BY <1>1, <3>1
  <2>4. ASSUME NEW m \in Maps
        PROVE  /\ FoldsOnce(m, replayed') /\ Hydrated(m)' = Mutated(Hydrated(m), u)
               /\ Hydrated(m)' \in Maps
    <3>1. LastIn(replayed) /\ FoldsOnce(m, replayed) /\ Hydrated(m) \in Maps
      BY <1>1 DEF ReplayFits
    <3>2. /\ FoldsOnce(m, replayed')
          /\ FoldLeft(Mutated, m, replayed') = Mutated(FoldLeft(Mutated, m, replayed), u)
      BY <1>1, <2>1, <3>1, ReplaysOneMore
    <3>3. Hydrated(m)' = Mutated(Hydrated(m), u)
      BY <3>2 DEF Hydrated
    <3> QED BY <3>1, <3>2, <3>3, ChangeFits
  <2>5. ReplayFits'
    BY <2>3, <2>4 DEF ReplayFits
  <2>6. ASSUME NEW c \in Chat, phase[c] = "running" \/ (u.kind = "bound" /\ u.chat = c), NEW m \in Maps
        PROVE  SameFor(c, Hydrated(m)', gateway')
    <3> PICK h : h = Hydrated(m)
      OBVIOUS
    <3>1. h \in Maps /\ Hydrated(m)' = Mutated(h, u)
      BY <1>1, <2>4 DEF ReplayFits
    <3>2. /\ Mutated(h, u).submitted[c] = SubmittedAfter(u, c, h.submitted[c])
          /\ Mutated(h, u).driven[c] = DrivenAfter(u, c, h.driven[c])
      BY <3>1, ChangeFits
    <3>3. CASE phase[c] = "running"
      <4>1. SameFor(c, h, gateway)
        BY <1>4, <3>3 DEF TabInv, BindingFits
      <4> QED BY <1>2, <3>1, <3>2, <4>1 DEF SameFor
    <3>4. CASE u.kind = "bound" /\ u.chat = c
      BY <1>2, <3>1, <3>2, <3>4 DEF SameFor, SubmittedAfter, DrivenAfter
    <3> QED BY <2>6, <3>3, <3>4
  <2> QED BY <1>2, <2>2, <2>5, <2>6
<1> QED BY <1>3, <1>4

LEMMA TabTyped ==
  ASSUME TabTypes, NEW c \in Chat
  PROVE  /\ phase[c] \in {"none", "running", "stopped"} /\ wrote[c] \in SUBSET Tab
         /\ captured[c] \in Tab \cup {NoTab, Nowhere} /\ meant[c] \in Seq(Tab \cup {Nowhere})
         /\ gateway.submitted[c] \in Tab \cup {NoTab, Nowhere} /\ gateway.driven[c] \in SUBSET Tab
BY MapsAre DEF TabTypes

\* What the changes made since the start give stays the same while none is made.
LEMMA ReplayStays ==
  ASSUME TabInv, replayed' = replayed
  PROVE  ReplayFits' /\ \A m : Hydrated(m)' = Hydrated(m)
BY DEF TabInv, ReplayFits, Hydrated

\* A step that leaves the maps, the turns and the tabs they know alone.
LEMMA BindingsStay ==
  ASSUME TabInv, UNCHANGED <<gateway, replayed, hydration, meant, wrote>>,
         TabTypes', tabs \in SUBSET tabs', opened \in SUBSET opened',
         \A t \in tabs' \ tabs : t \notin opened /\ t \in Tab,
         NEW c \in Chat, phase'[c] = phase[c], phase[c] # "none" => captured'[c] = captured[c],
         captured'[c] \in opened' \cup {NoTab, Nowhere}
  PROVE  TurnFits(c)' /\ (phase'[c] = "running" => BindingFits(c)')
<1>1. TabTypes /\ TurnFits(c) /\ (phase[c] = "running" => BindingFits(c)) /\ ToldTo(c)' = ToldTo(c)
  BY DEF TabInv, ToldTo
<1>2. \A s \in opened \cup {NoTab, Nowhere} : s \in tabs' => s \in tabs
  BY TabAssumption
<1>3. TurnFits(c)'
  BY <1>1, <1>2 DEF TurnFits
<1>4. phase'[c] = "running" => BindingFits(c)'
  <2> SUFFICES ASSUME phase[c] = "running" PROVE BindingFits(c)'
    OBVIOUS
  <2>1. hydration = "reading" => \A m \in Maps : SameFor(c, Hydrated(m)', gateway')
    BY <1>1, ReplayStays DEF BindingFits
  <2>2. hydration = "reading" => \A m \in Maps : SameFor(c, Hydrated(m), gateway)'
    BY <2>1 DEF SameFor
  <2> QED BY <1>1, <1>2, <2>2 DEF BindingFits
<1> QED BY <1>3, <1>4

LEMMA TabFocused ==
  ASSUME TabInv, NEW t \in Tab, FocusTab(t) \/ OpenTab(t) PROVE TabInv'
<1>1. UNCHANGED <<gateway, saved, hydration, replayed, phase, captured, paused, meant, wrote>>
  BY DEF FocusTab, OpenTab
<1>2. TabTypes'
  <2>1. tabs' \in SUBSET opened' /\ opened' \in SUBSET Tab /\ visible' \in opened' \cup {NoTab}
    BY DEF FocusTab, OpenTab, TabInv, TabTypes
  <2> QED BY <1>1, <2>1 DEF TabInv, TabTypes
<1>3. ReplayFits'
  BY <1>1, ReplayStays
<1>4. ASSUME NEW c \in Chat PROVE TurnFits(c)' /\ (phase'[c] = "running" => BindingFits(c)')
  <2>1. /\ tabs \in SUBSET tabs' /\ opened \in SUBSET opened'
        /\ \A s \in tabs' \ tabs : s \notin opened /\ s \in Tab
    BY DEF FocusTab, OpenTab, TabInv, TabTypes
  <2>2. captured'[c] \in opened' \cup {NoTab, Nowhere}
    BY <1>1, <2>1 DEF TabInv, TurnFits
  <2> QED BY <1>1, <1>2, <2>1, <2>2, BindingsStay
<1> QED BY <1>2, <1>3, <1>4 DEF TabInv

LEMMA TabSubmitted ==
  ASSUME TabInv, NEW d \in Chat, Submit(d) PROVE TabInv'
<1>1. /\ phase[d] = "none"
      /\ captured' = [captured EXCEPT ![d] = IF visible = NoTab THEN Nowhere ELSE visible]
      /\ UNCHANGED <<tabs, opened, visible, gateway, saved, hydration, replayed, phase, meant, wrote>>
  BY DEF Submit
<1>2. \A c \in Chat : /\ c # d => captured'[c] = captured[c]
                      /\ captured'[c] \in opened \cup {NoTab, Nowhere}
  BY <1>1 DEF TabInv, TabTypes, TurnFits
<1>3. TabTypes'
  <2>1. captured' \in [Chat -> Tab \cup {NoTab, Nowhere}]
    BY <1>1 DEF TabInv, TabTypes
  <2> QED BY <1>1, <2>1 DEF TabInv, TabTypes
<1>4. ReplayFits'
  BY <1>1, ReplayStays
<1>5. ASSUME NEW c \in Chat PROVE TurnFits(c)' /\ (phase'[c] = "running" => BindingFits(c)')
  BY <1>1, <1>2, <1>3, BindingsStay
<1> QED BY <1>3, <1>4, <1>5 DEF TabInv

\* What leaves the tabs, the turns and the maps in use alone.
LEMMA TabsRest ==
  ASSUME TabInv, UNCHANGED <<tabs, opened, visible, gateway, hydration, replayed, phase, captured,
                             meant, wrote>>, saved' \in Maps
  PROVE  TabInv'
<1>1. TabTypes'
  BY DEF TabInv, TabTypes
<1>2. ASSUME NEW c \in Chat PROVE TurnFits(c)' /\ (phase'[c] = "running" => BindingFits(c)')
  <2>1. captured'[c] \in opened' \cup {NoTab, Nowhere}
    BY DEF TabInv, TurnFits
  <2> QED BY <1>1, <2>1, BindingsStay
<1> QED BY <1>1, <1>2, ReplayStays DEF TabInv

LEMMA TabsHydrated ==
  ASSUME TabInv, Hydrate PROVE TabInv'
<1>1. /\ hydration = "reading" /\ hydration' = "done" /\ gateway' = Hydrated(saved) /\ replayed' = <<>>
      /\ UNCHANGED <<tabs, opened, visible, saved, phase, captured, meant, wrote>>
  BY DEF Hydrate
<1>2. gateway' \in Maps /\ saved \in Maps
  BY <1>1 DEF TabInv, TabTypes, ReplayFits
<1>3. TabTypes'
  BY <1>1, <1>2, EmptySeq DEF TabInv, TabTypes
<1>4. ReplayFits'
  BY <1>1, ReplaysNothing DEF ReplayFits, Hydrated
<1>5. ASSUME NEW c \in Chat PROVE TurnFits(c)' /\ (phase'[c] = "running" => BindingFits(c)')
  <2>1. TurnFits(c) /\ (phase[c] = "running" => BindingFits(c)) /\ ToldTo(c)' = ToldTo(c)
    BY <1>1 DEF TabInv, ToldTo
  <2>2. phase[c] = "running" => gateway'.submitted[c] = gateway.submitted[c]
                                /\ gateway'.driven[c] = gateway.driven[c]
    BY <1>1, <1>2, <2>1 DEF BindingFits, SameFor
  <2> QED BY <1>1, <2>1, <2>2 DEF TurnFits, BindingFits
<1> QED BY <1>3, <1>4, <1>5 DEF TabInv

LEMMA EmptyMaps == Empty \in Maps
BY DEF Empty, Maps

LEMMA TabsStopped ==
  ASSUME TabInv, StopGateway PROVE TabInv'
<1>1. /\ hydration' = "off" /\ gateway' = Empty /\ replayed' = <<>>
      /\ phase' = [c \in Chat |-> IF phase[c] = "running" THEN "stopped" ELSE phase[c]]
      /\ UNCHANGED <<tabs, opened, visible, saved, captured, meant, wrote>>
  BY DEF StopGateway
<1>2. TabTypes'
  <2>1. phase' \in [Chat -> {"none", "running", "stopped"}] /\ replayed' \in Seq(TabChange)
    BY <1>1, EmptySeq DEF TabInv, TabTypes
  <2> QED BY <1>1, <2>1, EmptyMaps DEF TabInv, TabTypes
<1>3. ReplayFits'
  BY <1>1, ReplaysNothing DEF ReplayFits, Hydrated
<1>4. ASSUME NEW c \in Chat PROVE TurnFits(c)' /\ phase'[c] # "running"
  BY <1>1 DEF TabInv, TabTypes, TurnFits, ToldTo
<1> QED BY <1>2, <1>3, <1>4 DEF TabInv

LEMMA TabsStarted ==
  ASSUME TabInv, StartGateway PROVE TabInv'
<1>1. /\ hydration = "off" /\ hydration' = "reading"
      /\ UNCHANGED <<tabs, opened, visible, gateway, saved, replayed, phase, captured, meant, wrote>>
  BY DEF StartGateway
<1>2. TabTypes' /\ ReplayFits'
  BY <1>1, ReplayStays DEF TabInv, TabTypes
<1>3. ASSUME NEW c \in Chat PROVE TurnFits(c)' /\ phase'[c] # "running"
  BY <1>1 DEF TabInv, BindingFits, TurnFits, ToldTo
<1> QED BY <1>2, <1>3 DEF TabInv

LEMMA TabClosed ==
  ASSUME TabInv, NEW t \in Tab, CloseTab(t) PROVE TabInv'
<1> PICK u : u = [kind |-> "removed", tab |-> t]
  OBVIOUS
<1>1. /\ tabs' = tabs \ {t} /\ Mutate(u) /\ wrote' = [c \in Chat |-> wrote[c] \ {t}]
      /\ UNCHANGED <<opened, saved, hydration, phase, captured, meant>>
  BY DEF CloseTab
<1>2. u \in TabChange /\ u.kind = "removed" /\ u.tab = t
  BY DEF TabChange
<1>3. /\ gateway' \in Maps /\ replayed' \in Seq(TabChange) /\ ReplayFits'
      /\ \A c \in Chat :
           /\ gateway'.submitted[c] = IF gateway.submitted[c] = t THEN Nowhere ELSE gateway.submitted[c]
           /\ gateway'.driven[c] = gateway.driven[c] \ {t}
           /\ phase[c] = "running" /\ hydration = "reading" =>
                \A m \in Maps : SameFor(c, Hydrated(m)', gateway')
  BY <1>1, <1>2, MapsChange DEF SubmittedAfter, DrivenAfter
<1>4. TabTypes'
  <2>1. visible' \in opened \cup {NoTab}
    BY <1>1 DEF CloseTab, TabInv, TabTypes
  <2>2. wrote' \in [Chat -> SUBSET Tab]
    BY <1>1 DEF TabInv, TabTypes
  <2> QED BY <1>1, <1>3, <2>1, <2>2 DEF TabInv, TabTypes
<1>5. ASSUME NEW c \in Chat PROVE TurnFits(c)' /\ (phase'[c] = "running" => BindingFits(c)')
  <2>1. TurnFits(c) /\ (phase[c] = "running" => BindingFits(c)) /\ ToldTo(c)' = ToldTo(c)
        /\ wrote'[c] = wrote[c] \ {t} /\ Nowhere \notin tabs
    BY <1>1, TabAssumption DEF TabInv, TabTypes, ToldTo
  <2>2. TurnFits(c)'
    BY <1>1, <2>1 DEF TurnFits
  <2>3. phase'[c] = "running" => BindingFits(c)'
    BY <1>1, <1>3, <2>1 DEF BindingFits, SameFor
  <2> QED BY <2>2, <2>3
<1> QED BY <1>3, <1>4, <1>5 DEF TabInv

LEMMA TabReplaced ==
  ASSUME TabInv, NEW t \in Tab, NEW new \in Tab, ReplaceTab(t, new) PROVE TabInv'
<1> PICK u : u = [kind |-> "replaced", tab |-> t, to |-> new]
  OBVIOUS
<1>1. /\ t \in tabs /\ new \notin opened
      /\ tabs' = (tabs \ {t}) \cup {new} /\ opened' = opened \cup {new}
      /\ visible' = IF visible = t THEN new ELSE visible
      /\ meant' = [c \in Chat |-> [i \in DOMAIN meant[c] |-> IF meant[c][i] = t THEN new
                                                             ELSE meant[c][i]]]
      /\ wrote' = [c \in Chat |-> Swapped(wrote[c], t, new)]
      /\ Mutate(u) /\ UNCHANGED <<saved, hydration, phase, captured>>
  BY DEF ReplaceTab, Moved
<1>2. u \in TabChange /\ u.kind = "replaced" /\ u.tab = t /\ u.to = new
  BY DEF TabChange
<1>3. /\ gateway' \in Maps /\ replayed' \in Seq(TabChange) /\ ReplayFits'
      /\ \A c \in Chat :
           /\ gateway'.submitted[c] = IF gateway.submitted[c] = t THEN new ELSE gateway.submitted[c]
           /\ gateway'.driven[c] = Swapped(gateway.driven[c], t, new)
           /\ phase[c] = "running" /\ hydration = "reading" =>
                \A m \in Maps : SameFor(c, Hydrated(m)', gateway')
  BY <1>1, <1>2, MapsChange DEF SubmittedAfter, DrivenAfter
<1>4. TabTypes'
  <2>1. wrote' \in [Chat -> SUBSET Tab]
    BY <1>1 DEF TabInv, TabTypes, Swapped
  <2>2. meant' \in [Chat -> Seq(Tab \cup {Nowhere})]
    <3>1. ASSUME NEW c \in Chat PROVE meant'[c] \in Seq(Tab \cup {Nowhere})
      <4>1. meant[c] \in Seq(Tab \cup {Nowhere})
        BY DEF TabInv, TabTypes
      <4>2. \A i \in DOMAIN meant[c] : (IF meant[c][i] = t THEN new ELSE meant[c][i]) \in Tab \cup {Nowhere}
        BY <4>1
      <4>3. meant'[c] = [i \in 1..Len(meant[c]) |-> IF meant[c][i] = t THEN new ELSE meant[c][i]]
        BY <1>1, <4>1
      <4> QED BY <4>1, <4>2, <4>3
    <3> QED BY <1>1, <3>1
  <2>3. tabs' \in SUBSET opened' /\ opened' \in SUBSET Tab /\ visible' \in opened' \cup {NoTab}
    BY <1>1 DEF TabInv, TabTypes
  <2> QED BY <1>1, <1>3, <2>1, <2>2, <2>3 DEF TabInv, TabTypes
<1>5. ASSUME NEW c \in Chat PROVE TurnFits(c)' /\ (phase'[c] = "running" => BindingFits(c)')
  <2>1. /\ TurnFits(c) /\ (phase[c] = "running" => BindingFits(c))
        /\ wrote'[c] = Swapped(wrote[c], t, new) /\ Nowhere \notin tabs /\ new \notin tabs
        /\ \A s \in opened \cup {NoTab, Nowhere} : s # new
    BY <1>1, TabAssumption DEF TabInv, TabTypes
  <2>2. /\ \A s \in ToldTo(c) : s # t => s \in ToldTo(c)'
        /\ t \in ToldTo(c) => new \in ToldTo(c)'
    BY <1>1 DEF ToldTo
  <2>3. TurnFits(c)'
    BY <1>1, <2>1, <2>2 DEF TurnFits, Swapped
  <2>4. phase'[c] = "running" => BindingFits(c)'
    <3> SUFFICES ASSUME phase[c] = "running" PROVE BindingFits(c)'
      BY <1>1
    <3> PICK s : s = gateway.submitted[c]
      OBVIOUS
    <3>1. /\ s \in opened \cup {Nowhere} /\ (s \in tabs => s \in ToldTo(c))
          /\ wrote[c] \in SUBSET gateway.driven[c] /\ hydration # "off"
      BY <2>1 DEF BindingFits
    <3>2. /\ gateway'.submitted[c] \in opened' \cup {Nowhere}
          /\ gateway'.submitted[c] \in tabs' => gateway'.submitted[c] \in ToldTo(c)'
      BY <1>1, <1>3, <2>1, <2>2, <3>1
    <3>3. wrote'[c] \in SUBSET gateway'.driven[c]
      BY <1>3, <2>1, <3>1 DEF Swapped
    <3> QED BY <1>1, <1>3, <3>1, <3>2, <3>3 DEF BindingFits, SameFor
  <2> QED BY <2>3, <2>4
<1> QED BY <1>3, <1>4, <1>5 DEF TabInv

\* What one turn does leaves the others as they are.
LEMMA OthersBound ==
  ASSUME TabInv, NEW d \in Chat, NEW u \in TabChange, Mutate(u), u.kind \notin {"removed", "replaced"},
         u.chat = d, UNCHANGED hydration, tabs \in SUBSET tabs', opened \in SUBSET opened',
         \A t \in tabs' \ tabs : t \notin opened /\ t \in Tab,
         \A c \in Chat : c # d => phase'[c] = phase[c] /\ captured'[c] = captured[c]
                                  /\ meant'[c] = meant[c] /\ wrote'[c] = wrote[c]
  PROVE  \A c \in Chat : c # d => TurnFits(c)' /\ (phase'[c] = "running" => BindingFits(c)')
<1> SUFFICES ASSUME NEW c \in Chat, c # d
             PROVE  TurnFits(c)' /\ (phase'[c] = "running" => BindingFits(c)')
  OBVIOUS
<1>1. /\ TurnFits(c) /\ (phase[c] = "running" => BindingFits(c)) /\ ToldTo(c)' = ToldTo(c)
      /\ phase'[c] = phase[c] /\ captured'[c] = captured[c] /\ wrote'[c] = wrote[c]
  BY DEF TabInv, ToldTo
<1>2. \A s \in opened \cup {NoTab, Nowhere} : s \in tabs' => s \in tabs
  BY TabAssumption
<1>3. /\ gateway'.submitted[c] = gateway.submitted[c] /\ gateway'.driven[c] = gateway.driven[c]
      /\ phase[c] = "running" /\ hydration = "reading" =>
           \A m \in Maps : SameFor(c, Hydrated(m)', gateway')
  <2>1. SubmittedAfter(u, c, gateway.submitted[c]) = gateway.submitted[c]
    BY DEF SubmittedAfter
  <2>2. DrivenAfter(u, c, gateway.driven[c]) = gateway.driven[c]
    BY DEF DrivenAfter
  <2> QED BY <2>1, <2>2, MapsChange
<1>4. TurnFits(c)'
  BY <1>1, <1>2 DEF TurnFits
<1>5. phase'[c] = "running" => BindingFits(c)'
  BY <1>1, <1>2, <1>3 DEF BindingFits, SameFor
<1> QED BY <1>4, <1>5

LEMMA TurnBegins ==
  ASSUME TabInv, NEW d \in Chat, NEW t \in opened \cup {Nowhere}, captured[d] # NoTab, Begins(d, t)
  PROVE  TabInv'
<1> PICK u : u = On("bound", d, t)
  OBVIOUS
<1> PICK history : history = <<t>>
  OBVIOUS
<1>0. /\ t \in Tab \cup {Nowhere}
      /\ history \in Seq(Tab \cup {Nowhere}) /\ 1 \in DOMAIN history /\ history[1] = t
  BY DEF TabInv, TabTypes
<1>1. /\ Mutate(u) /\ phase' = [phase EXCEPT ![d] = "running"]
      /\ meant' = [meant EXCEPT ![d] = history] /\ wrote' = [wrote EXCEPT ![d] = {}]
      /\ UNCHANGED <<tabs, opened, visible, saved, hydration, captured>>
  BY DEF Begins
<1>2. u \in TabChange /\ u.kind = "bound" /\ u.chat = d /\ u.tab = t
  BY <1>0 DEF TabChange, On
<1>3. /\ gateway' \in Maps /\ replayed' \in Seq(TabChange) /\ ReplayFits'
      /\ gateway'.submitted[d] = t
      /\ hydration = "reading" => \A m \in Maps : SameFor(d, Hydrated(m)', gateway')
  BY <1>1, <1>2, MapsChange DEF SubmittedAfter
<1>4. TabTypes'
  <2>1. /\ phase' \in [Chat -> {"none", "running", "stopped"}] /\ wrote' \in [Chat -> SUBSET Tab]
        /\ meant' \in [Chat -> Seq(Tab \cup {Nowhere})]
    BY <1>0, <1>1 DEF TabInv, TabTypes
  <2> QED BY <1>1, <1>3, <2>1 DEF TabInv, TabTypes
<1>5. \A c \in Chat : c # d => TurnFits(c)' /\ (phase'[c] = "running" => BindingFits(c)')
  BY <1>1, <1>2, OthersBound
<1>6. TurnFits(d)' /\ BindingFits(d)'
  <2>1. /\ phase'[d] = "running" /\ wrote'[d] = {} /\ meant'[d] = history
        /\ captured[d] \in opened \cup {NoTab, Nowhere}
    BY <1>1 DEF TabInv, TabTypes, TurnFits
  <2>2. t \in ToldTo(d)'
    BY <1>0, <2>1 DEF ToldTo
  <2>3. TurnFits(d)'
    BY <1>1, <2>1 DEF TurnFits
  <2> QED BY <1>1, <1>3, <2>1, <2>2, <2>3 DEF BindingFits, SameFor, Begins, Running
<1> QED BY <1>3, <1>4, <1>5, <1>6 DEF TabInv

LEMMA TurnStarts ==
  ASSUME TabInv, RecoverInv, NEW d \in Chat, StartTurn(d) \/ ResumeTurn(d) \/ BindRecovered(d)
  PROVE  TabInv'
<1>1. TurnFits(d) /\ RecoveryFits(d) /\ captured[d] \in opened \cup {NoTab, Nowhere}
  BY DEF TabInv, RecoverInv, TurnFits
<1>2. captured[d] # NoTab
  BY <1>1 DEF StartTurn, ResumeTurn, BindRecovered, TurnFits, RecoveryFits
<1>3. CASE StartTurn(d) \/ ResumeTurn(d)
  <2>1. captured[d] \in opened \cup {Nowhere} /\ Begins(d, captured[d])
    BY <1>1, <1>2, <1>3 DEF StartTurn, ResumeTurn
  <2> QED BY <1>2, <2>1, TurnBegins
<1>4. CASE BindRecovered(d)
  <2>1. recovery[d].target \in opened \cup {Nowhere} /\ Begins(d, recovery[d].target)
    BY <1>1, <1>4 DEF BindRecovered, RecoveryFits
  <2> QED BY <1>2, <2>1, TurnBegins
<1> QED BY <1>3, <1>4

LEMMA TurnEnds ==
  ASSUME TabInv, NEW d \in Chat, EndTurn(d) \/ ClearThread(d) PROVE TabInv'
<1>1. /\ phase' = [phase EXCEPT ![d] = "none"] \/ (phase' = phase /\ phase[d] = "none")
      /\ captured' = [captured EXCEPT ![d] = NoTab] \/ (captured' = captured /\ phase[d] = "none")
      /\ meant' = [meant EXCEPT ![d] = <<>>] \/ meant' = meant
      /\ wrote' = [wrote EXCEPT ![d] = {}] \/ (wrote' = wrote /\ phase[d] = "none")
      /\ UNCHANGED <<tabs, opened, visible, saved, hydration>>
  BY DEF EndTurn, ClearThread
<1> PICK u : u \in {On("released", d, NoTab), On("cleared", d, NoTab)} /\ Mutate(u)
  BY DEF EndTurn, ClearThread
<1>2. u \in TabChange /\ u.kind \notin {"removed", "replaced"} /\ u.chat = d
  BY DEF TabChange, On
<1>3. gateway' \in Maps /\ replayed' \in Seq(TabChange) /\ ReplayFits'
  BY <1>1, <1>2, MapsChange
<1>4. TabTypes'
  <2>1. phase' \in [Chat -> {"none", "running", "stopped"}] /\ wrote' \in [Chat -> SUBSET Tab]
    BY <1>1 DEF TabInv, TabTypes
  <2>2. captured' \in [Chat -> Tab \cup {NoTab, Nowhere}]
    BY <1>1 DEF TabInv, TabTypes
  <2>3. meant' \in [Chat -> Seq(Tab \cup {Nowhere})]
    <3>1. <<>> \in Seq(Tab \cup {Nowhere})
      BY EmptySeq
    <3> QED BY <1>1, <3>1 DEF TabInv, TabTypes
  <2> QED BY <1>1, <1>3, <2>1, <2>2, <2>3 DEF TabInv, TabTypes
<1>5. ASSUME NEW c \in Chat, c # d
      PROVE  phase'[c] = phase[c] /\ captured'[c] = captured[c] /\ meant'[c] = meant[c]
             /\ wrote'[c] = wrote[c]
  BY <1>1, <1>5 DEF TabInv, TabTypes
<1>6. \A c \in Chat : c # d => TurnFits(c)' /\ (phase'[c] = "running" => BindingFits(c)')
  BY <1>1, <1>2, <1>5, OthersBound
<1>7. TurnFits(d)' /\ phase'[d] = "none"
  <2>1. /\ phase'[d] = "none" /\ wrote'[d] = {}
        /\ captured'[d] \in opened \cup {NoTab, Nowhere}
    BY <1>1 DEF TabInv, TabTypes, TurnFits
  <2> QED BY <1>1, <2>1 DEF TurnFits
<1> QED BY <1>3, <1>4, <1>6, <1>7 DEF TabInv

\* A running turn uses a tab, writes to one, or gets a child of one.
LEMMA TurnUses ==
  ASSUME TabInv, NEW d \in Chat, Usable(d), NEW u \in TabChange, Mutate(u),
         u.kind \in {"locked", "touched"}, u.chat = d,
         UNCHANGED <<browser, saved, hydration, turns>>
  PROVE  TabInv'
<1>1. /\ gateway' \in Maps /\ replayed' \in Seq(TabChange) /\ ReplayFits'
      /\ gateway'.submitted[d] = gateway.submitted[d] /\ gateway'.driven[d] = gateway.driven[d]
  BY MapsChange DEF SubmittedAfter, DrivenAfter
<1>2. TabTypes'
  BY <1>1 DEF TabInv, TabTypes
<1>3. \A c \in Chat : c # d => TurnFits(c)' /\ (phase'[c] = "running" => BindingFits(c)')
  BY OthersBound
<1>4. TurnFits(d)' /\ BindingFits(d)'
  <2>1. TurnFits(d) /\ BindingFits(d) /\ ToldTo(d)' = ToldTo(d) /\ hydration = "done"
    BY DEF TabInv, Usable, ToldTo
  <2> QED BY <1>1, <2>1 DEF TurnFits, BindingFits
<1> QED BY <1>1, <1>2, <1>3, <1>4 DEF TabInv

LEMMA TurnUsesTabs ==
  ASSUME TabInv, NEW d \in Chat, UseDefault(d) \/ \E t \in Tab : UseNamed(d, t) PROVE TabInv'
<1>1. UNCHANGED <<browser, saved, hydration, turns>> /\ Usable(d) /\ saved \in Maps
  BY DEF UseDefault, UseNamed, TabInv, TabTypes
<1>2. CASE UNCHANGED <<gateway, replayed, unsaved>>
  BY <1>1, <1>2, TabsRest
<1>3. CASE ~UNCHANGED <<gateway, replayed, unsaved>>
  <2>1. \E t \in Tab, kind \in {"locked", "touched"} : Mutate(On(kind, d, t))
    <3>1. CASE UseDefault(d)
      <4>1. DefaultTab(d) \in Tab
        BY <3>1 DEF UseDefault, DefaultTab, BoundTab, Fallback, TabInv, TabTypes
      <4> QED BY <1>3, <3>1, <4>1 DEF UseDefault
    <3>2. CASE \E t \in Tab : UseNamed(d, t)
      BY <3>2 DEF UseNamed
    <3> QED BY <3>1, <3>2
  <2> PICK t \in Tab, kind \in {"locked", "touched"} : Mutate(On(kind, d, t))
    BY <2>1
  <2>2. On(kind, d, t) \in TabChange /\ On(kind, d, t).kind \in {"locked", "touched"}
        /\ On(kind, d, t).chat = d
    BY DEF On, TabChange
  <2> QED BY <1>1, <2>2, TurnUses
<1> QED BY <1>2, <1>3

LEMMA TurnDrives ==
  ASSUME TabInv, NEW d \in Chat, NEW t \in Tab, Drive(d, t) PROVE TabInv'
<1> PICK u : u = On("driven", d, t)
  OBVIOUS
<1>1. /\ Usable(d) /\ t \in tabs /\ Mutate(u) /\ wrote' = [wrote EXCEPT ![d] = @ \cup {t}]
      /\ UNCHANGED <<browser, saved, hydration, phase, captured, paused, meant, events>>
  BY DEF Drive
<1>2. u \in TabChange /\ u.kind = "driven" /\ u.chat = d /\ u.tab = t
  BY DEF TabChange, On
<1>3. /\ gateway' \in Maps /\ replayed' \in Seq(TabChange) /\ ReplayFits'
      /\ gateway'.submitted[d] = gateway.submitted[d]
      /\ gateway'.driven[d] = gateway.driven[d] \cup {t}
  BY <1>1, <1>2, MapsChange DEF SubmittedAfter, DrivenAfter
<1>4. /\ wrote' \in [Chat -> SUBSET Tab] /\ wrote'[d] = wrote[d] \cup {t}
      /\ \A c \in Chat : c # d => wrote'[c] = wrote[c]
  BY <1>1 DEF TabInv, TabTypes
<1>5. TabTypes'
  BY <1>1, <1>3, <1>4 DEF TabInv, TabTypes
<1>6. \A c \in Chat : c # d => TurnFits(c)' /\ (phase'[c] = "running" => BindingFits(c)')
  BY <1>1, <1>2, <1>4, OthersBound
<1>7. TurnFits(d)' /\ BindingFits(d)'
  <2>1. /\ TurnFits(d) /\ BindingFits(d) /\ ToldTo(d)' = ToldTo(d) /\ hydration = "done"
        /\ phase[d] = "running"
    BY <1>1 DEF TabInv, Usable, ToldTo
  <2>2. TurnFits(d)'
    BY <1>1, <1>4, <2>1 DEF TurnFits
  <2>3. BindingFits(d)'
    BY <1>1, <1>3, <1>4, <2>1 DEF BindingFits
  <2> QED BY <2>2, <2>3
<1> QED BY <1>3, <1>5, <1>6, <1>7 DEF TabInv

LEMMA TurnAdopts ==
  ASSUME TabInv, NEW d \in Chat, NEW t \in Tab, NEW new \in Tab, AdoptChild(d, t, new) PROVE TabInv'
<1> PICK u : u = [kind |-> "adopted", chat |-> d, tab |-> t, to |-> new]
  OBVIOUS
<1>1. /\ Usable(d) /\ t \in wrote[d] /\ new \notin opened
      /\ tabs' = tabs \cup {new} /\ opened' = opened \cup {new} /\ visible' = new
      /\ Mutate(u)
      /\ meant' = [meant EXCEPT ![d] = IF t = DefaultTab(d) THEN Append(@, new) ELSE @]
      /\ wrote' = [wrote EXCEPT ![d] = @ \cup {new}]
      /\ UNCHANGED <<saved, hydration, phase, captured, paused>>
  BY DEF AdoptChild
<1>2. u \in TabChange /\ u.kind = "adopted" /\ u.chat = d /\ u.tab = t /\ u.to = new
  BY DEF TabChange
<1>3. /\ gateway' \in Maps /\ replayed' \in Seq(TabChange) /\ ReplayFits'
      /\ gateway'.submitted[d] = IF gateway.submitted[d] = t THEN new ELSE gateway.submitted[d]
      /\ gateway'.driven[d] = gateway.driven[d] \cup {new}
  BY <1>1, <1>2, MapsChange DEF SubmittedAfter, DrivenAfter
<1>4. /\ wrote' \in [Chat -> SUBSET Tab] /\ wrote'[d] = wrote[d] \cup {new}
      /\ \A c \in Chat : c # d => wrote'[c] = wrote[c] /\ meant'[c] = meant[c]
  BY <1>1 DEF TabInv, TabTypes
<1>5. /\ meant' \in [Chat -> Seq(Tab \cup {Nowhere})]
      /\ \A s \in ToldTo(d) : s \in ToldTo(d)'
      /\ t = DefaultTab(d) => new \in ToldTo(d)'
  <2>1. meant[d] \in Seq(Tab \cup {Nowhere}) /\ meant \in [Chat -> Seq(Tab \cup {Nowhere})]
    BY DEF TabInv, TabTypes
  <2>2. CASE t # DefaultTab(d)
    <3>1. meant' = meant
      BY <1>1, <2>1, <2>2
    <3> QED BY <2>1, <2>2, <3>1 DEF ToldTo
  <2>3. CASE t = DefaultTab(d)
    <3> PICK q : q = Append(meant[d], new)
      OBVIOUS
    <3>1. /\ q \in Seq(Tab \cup {Nowhere}) /\ Len(meant[d]) + 1 \in DOMAIN q
          /\ q[Len(meant[d]) + 1] = new
          /\ \A i \in DOMAIN meant[d] : i \in DOMAIN q /\ q[i] = meant[d][i]
      <4>1. /\ Len(meant[d]) \in Nat /\ DOMAIN meant[d] = 1..Len(meant[d])
            /\ q \in Seq(Tab \cup {Nowhere}) /\ Len(q) = Len(meant[d]) + 1
            /\ \A i \in 1..Len(meant[d]) : q[i] = meant[d][i]
            /\ q[Len(meant[d]) + 1] = new
        BY <2>1
      <4> QED BY <4>1
    <3>2. meant' = [meant EXCEPT ![d] = q] /\ meant'[d] = q
      BY <1>1, <2>1, <2>3
    <3> QED BY <2>1, <3>1, <3>2 DEF ToldTo
  <2> QED BY <2>2, <2>3
<1>6. TabTypes'
  <2>1. tabs' \in SUBSET opened' /\ opened' \in SUBSET Tab /\ visible' \in opened' \cup {NoTab}
    BY <1>1 DEF TabInv, TabTypes
  <2> QED BY <1>1, <1>3, <1>4, <1>5, <2>1 DEF TabInv, TabTypes
<1>7. \A c \in Chat : c # d => TurnFits(c)' /\ (phase'[c] = "running" => BindingFits(c)')
  BY <1>1, <1>2, <1>4, OthersBound
<1>8. TurnFits(d)' /\ BindingFits(d)'
  <2>1. /\ TurnFits(d) /\ BindingFits(d) /\ hydration = "done" /\ phase[d] = "running"
        /\ tabs \in SUBSET opened
    BY <1>1 DEF TabInv, TabTypes, Usable
  <2>2. new \notin {NoTab, Nowhere} /\ Nowhere \notin opened /\ NoTab \notin opened /\ Nowhere # NoTab
    BY TabAssumption DEF TabInv, TabTypes
  <2>3. TurnFits(d)'
    BY <1>1, <1>4, <1>5, <2>1, <2>2 DEF TurnFits
  <2>4. gateway.submitted[d] = t => t = DefaultTab(d)
    BY <1>1, <2>1, <2>2 DEF DefaultTab, BoundTab, TurnFits
  <2>5. gateway'.submitted[d] \in opened' \cup {Nowhere}
        /\ (gateway'.submitted[d] \in tabs' => gateway'.submitted[d] \in ToldTo(d)')
    BY <1>1, <1>3, <1>5, <2>1, <2>2, <2>4 DEF BindingFits
  <2>6. wrote'[d] \in SUBSET gateway'.driven[d]
    BY <1>3, <1>4, <2>1 DEF BindingFits
  <2> QED BY <1>1, <2>1, <2>3, <2>5, <2>6 DEF BindingFits
<1> QED BY <1>3, <1>6, <1>7, <1>8 DEF TabInv

LEMMA TabsBegin ==
  ASSUME TabInit PROVE TabInv
<1>1. /\ visible \in Tab /\ tabs = {visible} /\ opened = {visible}
      /\ gateway = Empty /\ saved = Empty /\ hydration = "reading" /\ replayed = <<>>
      /\ phase = [c \in Chat |-> "none"] /\ captured = [c \in Chat |-> NoTab]
      /\ meant = [c \in Chat |-> <<>>] /\ wrote = [c \in Chat |-> {}]
  BY TabAssumption DEF TabInit
<1>2. TabTypes
  <2>1. <<>> \in Seq(Tab \cup {Nowhere}) /\ replayed \in Seq(TabChange)
    BY <1>1, EmptySeq
  <2> QED BY <1>1, <2>1, EmptyMaps DEF TabTypes
<1>3. ReplayFits
  BY <1>1, ReplaysNothing DEF ReplayFits, Hydrated
<1> QED BY <1>1, <1>2, <1>3 DEF TabInv, TurnFits

\* The tabs there have been only grow, so what a call was meant for stays one of them.
LEMMA RecoveryKept ==
  ASSUME TabInv, RecoverInv, [TabNext]_tabVars PROVE RecoverInv'
<1>1. opened \in SUBSET opened' /\ tabs \in SUBSET opened /\ opened \in SUBSET Tab
  <2>1. ASSUME BrowserStep PROVE opened \in SUBSET opened'
    BY <2>1 DEF BrowserStep, FocusTab, OpenTab, CloseTab, ManualOperation, ReplaceTab
  <2>2. ASSUME NEW c \in Chat, TurnStep(c) PROVE opened \in SUBSET opened'
    BY <2>2 DEF TurnStep, Submit, StartTurn, ResumeTurn, CheckRecovered, BindRecovered, Begins,
                EndTurn, ClearThread, UseDefault, UseNamed, Drive, AdoptChild
  <2>3. Hydrate \/ Persist \/ StopGateway \/ StartGateway \/ UNCHANGED tabVars => opened' = opened
    BY DEF Hydrate, Persist, StopGateway, StartGateway
  <2> QED BY <2>1, <2>2, <2>3 DEF TabNext, TabInv, TabTypes
<1>2. CASE recovery' = recovery /\ \A c \in Chat : phase[c] # "none" => phase'[c] # "none"
  BY <1>1, <1>2 DEF RecoverInv, RecoveryFits
<1>3. CASE StopGateway
  <2> PICK at \in [Chat -> tabs \cup {NoTab}] :
        recovery' = [c \in Chat |->
          [target |-> IF phase[c] = "running" /\ recovery[c].at = "idle" THEN at[c]
                      ELSE recovery[c].target,
           at |-> "idle"]]
    BY <1>3 DEF StopGateway
  <2>1. ASSUME NEW c \in Chat
        PROVE  /\ recovery'[c] \in [target : Tab \cup {NoTab}, at : {"idle", "checked", "bound"}]
               /\ recovery'[c].target \in opened \cup {NoTab} /\ recovery'[c].at = "idle"
    <3>1. at[c] \in opened \cup {NoTab} /\ recovery[c].target \in opened \cup {NoTab}
      BY <1>1 DEF RecoverInv, RecoveryFits
    <3> QED BY <1>1, <3>1
  <2>2. recovery' \in [Chat -> [target : Tab \cup {NoTab}, at : {"idle", "checked", "bound"}]]
    BY <2>1
  <2> QED BY <1>1, <2>1, <2>2 DEF RecoverInv, RecoveryFits
<1>4. ASSUME NEW d \in Chat, TurnStep(d) PROVE RecoverInv'
  <2>1. CASE EndTurn(d)
    <3>1. recovery' = recovery /\ recovery[d].at = "idle"
          /\ \A c \in Chat : c # d => phase'[c] = phase[c]
      BY <2>1 DEF EndTurn, TabInv, TabTypes
    <3> QED BY <1>1, <3>1 DEF RecoverInv, RecoveryFits
  <2>2. CASE ResumeTurn(d)
    <3>1. /\ recovery' = [recovery EXCEPT ![d] = NoCall]
          /\ \A c \in Chat : c # d => phase'[c] = phase[c]
      BY <2>2 DEF ResumeTurn, Begins, TabInv, TabTypes
    <3>2. NoCall \in [target : Tab \cup {NoTab}, at : {"idle", "checked", "bound"}]
          /\ NoCall.target = NoTab /\ NoCall.at = "idle"
      BY DEF NoCall
    <3> QED BY <1>1, <3>1, <3>2 DEF RecoverInv, RecoveryFits
  <2>3. CASE CheckRecovered(d) \/ BindRecovered(d)
    <3> PICK stop \in {"checked", "bound"} : recovery' = [recovery EXCEPT ![d].at = stop]
      BY <2>3 DEF CheckRecovered, BindRecovered
    <3>1. /\ \A c \in Chat : phase[c] # "none" => phase'[c] # "none"
          /\ phase'[d] # "none" /\ recovery[d].target # NoTab
      BY <1>1, <2>3, TabAssumption DEF CheckRecovered, BindRecovered, Begins, TabInv, TabTypes, RecoverInv,
         RecoveryFits
    <3>2. /\ recovery'[d].target = recovery[d].target /\ recovery'[d].at = stop
          /\ \A c \in Chat : c # d => recovery'[c] = recovery[c]
          /\ recovery' \in [Chat -> [target : Tab \cup {NoTab}, at : {"idle", "checked", "bound"}]]
      BY DEF RecoverInv
    <3> QED BY <1>1, <3>1, <3>2 DEF RecoverInv, RecoveryFits
  <2>4. CASE StartTurn(d)
    BY <1>2, <2>4 DEF StartTurn, Begins, TabInv, TabTypes
  <2>5. CASE Submit(d) \/ ClearThread(d) \/ UseDefault(d)
             \/ \E t \in Tab : \/ UseNamed(d, t) \/ Drive(d, t)
                               \/ \E new \in Tab : AdoptChild(d, t, new)
    BY <1>2, <2>5 DEF Submit, ClearThread, UseDefault, UseNamed, Drive, AdoptChild
  <2> QED BY <1>4, <2>1, <2>2, <2>3, <2>4, <2>5 DEF TurnStep
<1>5. CASE BrowserStep
  BY <1>2, <1>5 DEF BrowserStep, FocusTab, OpenTab, CloseTab, ManualOperation, ReplaceTab
<1>6. CASE Hydrate \/ Persist \/ StartGateway \/ UNCHANGED tabVars
  BY <1>2, <1>6 DEF Hydrate, Persist, StartGateway
<1> QED BY <1>3, <1>4, <1>5, <1>6 DEF TabNext

\* Every step of the browser, of the worker and of a turn (TabTargets.TabNext).
LEMMA TabsGoOn ==
  ASSUME TabInv, RecoverInv, [TabNext]_tabVars PROVE TabInv'
<1>1. CASE BrowserStep
  <2>1. ASSUME NEW t \in Tab, ManualOperation(t) PROVE TabInv'
    BY <2>1, TabsRest DEF ManualOperation, TabInv, TabTypes
  <2> QED BY <1>1, <2>1, TabFocused, TabClosed, TabReplaced DEF BrowserStep
<1>2. CASE Hydrate \/ StopGateway \/ StartGateway
  BY <1>2, TabsHydrated, TabsStopped, TabsStarted
<1>3. CASE Persist
  BY <1>3, TabsRest DEF Persist, TabInv, TabTypes
<1>4. ASSUME NEW c \in Chat, TurnStep(c) PROVE TabInv'
  <2>1. CASE CheckRecovered(c)
    BY <2>1, TabsRest DEF CheckRecovered, TabInv, TabTypes
  <2> QED
    BY <1>4, <2>1, TabSubmitted, TurnStarts, TurnEnds, TurnUsesTabs, TurnDrives, TurnAdopts
       DEF TurnStep
<1>5. CASE UNCHANGED tabVars
  BY <1>5, TabsRest DEF TabInv, TabTypes
<1> QED BY <1>1, <1>2, <1>3, <1>4, <1>5 DEF TabNext

(* TabTargets.TurnsKeepTheirTabs: a call without a tab works on a tab the    *)
(* turn was told about, one carried out after a restart on the tab it was    *)
(* agreed for, and a tab the turn has written to is known as such            *)
(* (gateway.ts, getTargetTab and markDriven), whatever is closed, replaced,  *)
(* opened or focused, and although the maps are kept by a worker that stops, *)
(* starts without them and reads them late: a turn that runs was bound since,*)
(* and its changes replayed on any stored maps give what it has now.         *)
THEOREM TurnsStayOnTheirTabs == TabSpec => []TurnsKeepTheirTabs
<1>1. ASSUME TabInv PROVE TurnsKeepTheirTabs
  <2> SUFFICES ASSUME NEW c \in Chat, Usable(c)
               PROVE  /\ DefaultTab(c) \in {meant[c][i] : i \in DOMAIN meant[c]} \cup {NoTab}
                      /\ wrote[c] \subseteq gateway.driven[c]
    BY DEF TurnsKeepTheirTabs
  <2>1. BindingFits(c) /\ tabs \in SUBSET Tab
    BY <1>1 DEF TabInv, TabTypes, Usable
  <2>2. gateway.submitted[c] # NoTab
    BY <1>1, <2>1, TabAssumption DEF BindingFits, TabInv, TabTypes
  <2> QED BY <2>1, <2>2 DEF BindingFits, DefaultTab, BoundTab, ToldTo
<1>2. TabSpec => TabInit /\ [][TabNext]_tabVars
  BY DEF TabSpec
<1>3. ASSUME TabInit PROVE RecoverInv
  BY <1>3 DEF TabInit, RecoverInv, RecoveryFits, NoCall
<1> QED BY <1>1, <1>2, <1>3, TabsBegin, TabsGoOn, RecoveryKept, PTL

-----------------------------------------------------------------------------
(***************************************************************************)
(* Calls of content tools.  A call is on its way to the page or at work in  *)
(* it at most once, and only after it has been sent; it is repeated only    *)
(* when nothing of it was dispatched.  A write that may still act holds the *)
(* dialogs of the document patched: the worker restores them after it has   *)
(* heard of the call or has seen it cancelled, and a call whose worker      *)
(* stopped is never restored.                                               *)
(***************************************************************************)
Tools == {"none", "read", "write", "batch"}
Stage == {"idle", "queued", "skipped", "inject", "patch", "send", "await", "restore", "done"}
Working == {"inject", "patch", "send", "await", "restore"}
Unsent == {"idle", "queued", "skipped", "inject", "patch", "send"}
Holding == {"send", "await", "restore"}
Replies == {"", "ok", "stale", "ambiguous", "failed", "lost"}
ToldAs == {"", "ok", "stale", "failed", "navigated", "uncertain", "not dispatched", "unpatched",
           "unrestored"}
Deed == [number : Nat, patched : BOOLEAN, right : BOOLEAN]
Letter == [kind : {"execute", "cancel"}, call : ToolCall]

WorkerTypes ==
  /\ tool \in [ToolCall -> Tools] /\ refs \in [ToolCall -> Seq(Ref)]
  /\ stage \in [ToolCall -> Stage] /\ reply \in [ToolCall -> Replies]
  /\ answer \in [ToolCall -> ToldAs] /\ tabQueue \in Seq(ToolCall)

DocumentTypes ==
  /\ document \in Nat /\ snapshot \in Nat /\ depth \in Nat
  /\ present \in SUBSET Element /\ listed \in SUBSET Element /\ shown \in SUBSET Ref

ExecutorTypes ==
  /\ mail \in Seq(Letter) /\ pageQueue \in Seq(ToolCall)
  /\ aim = [number |-> aim.number, element |-> aim.element] /\ aim.number \in Nat
  /\ acted \in [ToolCall -> Seq(Deed)]

(* Where a call is between the worker and the end of its request. *)
Mailed(c) == \E i \in DOMAIN mail : mail[i].kind = "execute" /\ mail[i].call = c
InPage(c) == \E i \in DOMAIN pageQueue : pageQueue[i] = c
Under(c) == Mailed(c) \/ InPage(c)

(* It has been cancelled, or will be before it can act. *)
CalledOff(c) ==
  \/ c \in cancelled
  \/ \E j \in DOMAIN mail :
       /\ mail[j].kind = "cancel" /\ mail[j].call = c
       /\ \A i \in DOMAIN mail : mail[i].kind = "execute" /\ mail[i].call = c => i < j

OneAtWork == \A c \in ToolCall : stage[c] \in Working => tabQueue # <<>> /\ Head(tabQueue) = c

NoneTwice ==
  /\ \A i, j \in DOMAIN pageQueue : pageQueue[i] = pageQueue[j] => i = j
  /\ \A i, j \in DOMAIN mail :
       mail[i].kind = "execute" /\ mail[j].kind = "execute" /\ mail[i].call = mail[j].call => i = j
  /\ \A i \in DOMAIN mail : mail[i].kind = "execute" => ~InPage(mail[i].call)

Undone(c) == acted[c] = <<>> /\ ~Under(c)

(* What is known of a call at each place. *)
CallFollows(c) ==
  /\ stage[c] \in Unsent => Undone(c) /\ reply[c] = ""
  /\ Under(c) => reply[c] = ""
  /\ answer[c] \in {"not dispatched", "unpatched"} => stage[c] \in {"skipped", "done"} /\ Undone(c)
  /\ answer[c] = "stale" /\ tool[c] = "write" =>
       stage[c] \in {"restore", "done"} /\ Undone(c) /\ reply[c] = ""
  /\ reply[c] = "stale" /\ tool[c] = "write" => acted[c] = <<>>
  /\ stage[c] = "restore" /\ Under(c) => CalledOff(c)
  /\ answer[c] = "unrestored" => stage[c] = "done"
  /\ tool[c] = "write" => Len(refs[c]) = 1
  /\ tool[c] = "read" => acted[c] = <<>>
  /\ stage[c] = "patch" => IsWrite(c)
  /\ stage[c] = "idle" => answer[c] = ""

DeedsFit(c) ==
  /\ Mailed(c) => acted[c] = <<>>
  /\ InPage(c) /\ c # Head(pageQueue) => acted[c] = <<>>
  /\ \A i \in DOMAIN acted[c] : acted[c][i].number > 0 /\ acted[c][i].patched /\ acted[c][i].right
  /\ \A i, j \in DOMAIN acted[c] : i < j => acted[c][i].number < acted[c][j].number

(* The request at work. *)
AimFits ==
  /\ pageQueue = <<>> => aim = NoAim
  /\ pageQueue # <<>> =>
       /\ \A i \in DOMAIN acted[Head(pageQueue)] :
            /\ acted[Head(pageQueue)][i].number <= aim.number
            /\ aim.element # {} => acted[Head(pageQueue)][i].number < aim.number
       /\ aim.element # {} => /\ tool[Head(pageQueue)] # "read" /\ aim.number > 0
                              /\ Agreed(refs[Head(pageQueue)][aim.number])

MayStillAct(c) == IsWrite(c) /\ Under(c) /\ c \notin cancelled
Orphan(c) == MayStillAct(c) /\ stage[c] = "done"

PatchesHold ==
  /\ \A c \in ToolCall : MayStillAct(c) => depth >= 1
  /\ \A c, d \in ToolCall : Orphan(c) /\ IsWrite(d) /\ stage[d] \in Holding => depth >= 2
  /\ \A c \in ToolCall : IsWrite(c) /\ stage[c] = "send" /\ injected => depth >= 1

(* While the worker runs and every restoration worked. *)
PatchesCounted ==
  ~stopped /\ (\A c \in ToolCall : answer[c] # "unrestored") =>
    depth = 0 \/ (depth = 1 /\ \E c \in ToolCall : IsWrite(c) /\ stage[c] \in Holding)

PageInv ==
  /\ WorkerTypes /\ DocumentTypes /\ ExecutorTypes /\ OneAtWork /\ NoneTwice
  /\ \A c \in ToolCall : CallFollows(c) /\ DeedsFit(c)
  /\ AimFits /\ PatchesHold /\ PatchesCounted

-----------------------------------------------------------------------------
\* What the steps are made of.

\* Only the call at the head of the queue of its tab is at work.
LEMMA Alone ==
  ASSUME OneAtWork, NEW c \in ToolCall, stage[c] \in Working
  PROVE  \A d \in ToolCall : d # c => stage[d] \notin Working
BY DEF OneAtWork

LEMMA CallTyped ==
  ASSUME WorkerTypes, NEW c \in ToolCall
  PROVE  /\ tool[c] \in Tools /\ refs[c] \in Seq(Ref) /\ stage[c] \in Stage
         /\ reply[c] \in Replies /\ answer[c] \in ToldAs
BY DEF WorkerTypes

(* A step of the worker that changes the entries of one call. *)
OneMoves(c) ==
  \A q \in ToolCall : q # c =>
    /\ tool'[q] = tool[q] /\ refs'[q] = refs[q] /\ stage'[q] = stage[q]
    /\ reply'[q] = reply[q] /\ answer'[q] = answer[q]

PageStands == UNCHANGED <<mail, pageQueue, cancelled, aim, acted, document, listed>>

LEMMA NothingMoves ==
  ASSUME mail' = mail, pageQueue' = pageQueue, cancelled' = cancelled, acted' = acted,
         NEW c \in ToolCall
  PROVE  /\ (Mailed(c)' <=> Mailed(c)) /\ (InPage(c)' <=> InPage(c)) /\ (Under(c)' <=> Under(c))
         /\ (CalledOff(c)' <=> CalledOff(c)) /\ (Undone(c)' <=> Undone(c))
<1>1. (Mailed(c)' <=> Mailed(c)) /\ (InPage(c)' <=> InPage(c)) /\ (CalledOff(c)' <=> CalledOff(c))
  BY DEF Mailed, InPage, CalledOff
<1> QED BY <1>1 DEF Under, Undone

LEMMA HeadIsUnder ==
  ASSUME ExecutorTypes, pageQueue # <<>>
  PROVE  Head(pageQueue) \in ToolCall /\ InPage(Head(pageQueue)) /\ Under(Head(pageQueue))
BY Taken DEF ExecutorTypes, InPage, Under

LEMMA PageRests ==
  ASSUME PageInv, PageStands,
         \A c \in ToolCall : Under(c) => tool'[c] = tool[c] /\ refs'[c] = refs[c]
  PROVE  NoneTwice' /\ AimFits' /\ ExecutorTypes' /\ \A c \in ToolCall : DeedsFit(c)'
<1>1. ExecutorTypes' /\ ExecutorTypes
  BY DEF PageInv, PageStands, ExecutorTypes
<1>2. NoneTwice'
  BY DEF PageInv, PageStands, NoneTwice, InPage
<1>3. ASSUME NEW c \in ToolCall PROVE DeedsFit(c)'
  <2>1. DeedsFit(c) /\ (Mailed(c)' <=> Mailed(c)) /\ (InPage(c)' <=> InPage(c))
    BY NothingMoves DEF PageInv, PageStands
  <2> QED BY <2>1 DEF DeedsFit, PageStands
<1>4. AimFits'
  <2>1. CASE pageQueue = <<>>
    BY <2>1 DEF PageInv, PageStands, AimFits
  <2>2. CASE pageQueue # <<>>
    <3> PICK h : h = Head(pageQueue)
      OBVIOUS
    <3>1. h \in ToolCall /\ tool'[h] = tool[h] /\ refs'[h] = refs[h]
      BY <1>1, <2>2, HeadIsUnder
    <3> PICK r : r = refs[h][aim.number]
      OBVIOUS
    <3>2. aim.element # {} => Agreed(r)
      BY <2>2 DEF PageInv, AimFits
    <3>3. Agreed(r) => Agreed(r)'
      BY DEF Agreed, PageStands, Matches
    <3>4. /\ \A i \in DOMAIN acted[h] : /\ acted[h][i].number <= aim.number
                                        /\ aim.element # {} => acted[h][i].number < aim.number
          /\ aim.element # {} => tool[h] # "read" /\ aim.number > 0
      BY <2>2 DEF PageInv, AimFits
    <3>5. refs'[Head(pageQueue')][aim'.number] = r
      BY <3>1 DEF PageStands
    <3>6. aim.element # {} => Agreed(refs[Head(pageQueue)][aim.number])'
      BY <3>2, <3>3, <3>5
    <3> QED BY <2>2, <3>1, <3>4, <3>6 DEF AimFits, PageStands
  <2> QED BY <2>1, <2>2
<1> QED BY <1>1, <1>2, <1>3, <1>4

\* What the other calls are known to be at, and the step put together.
LEMMA WorkerStep ==
  ASSUME PageInv, PageStands, NEW c \in ToolCall, OneMoves(c),
         Under(c) => tool'[c] = tool[c] /\ refs'[c] = refs[c],
         WorkerTypes', DocumentTypes', OneAtWork', CallFollows(c)', PatchesHold', PatchesCounted'
  PROVE  PageInv'
<1>1. \A q \in ToolCall : Under(q) => tool'[q] = tool[q] /\ refs'[q] = refs[q]
  BY DEF OneMoves
<1>2. ASSUME NEW q \in ToolCall, q # c PROVE CallFollows(q)'
  <2>1. CallFollows(q) /\ acted'[q] = acted[q]
    BY DEF PageInv, PageStands
  <2>2. /\ tool'[q] = tool[q] /\ refs'[q] = refs[q] /\ stage'[q] = stage[q]
        /\ reply'[q] = reply[q] /\ answer'[q] = answer[q]
    BY <1>2 DEF OneMoves
  <2>3. /\ (Under(q)' <=> Under(q)) /\ (CalledOff(q)' <=> CalledOff(q)) /\ (Undone(q)' <=> Undone(q))
    BY NothingMoves DEF PageStands
  <2> QED BY <2>1, <2>2, <2>3 DEF CallFollows, IsWrite
<1> QED BY <1>1, <1>2, PageRests DEF PageInv

\* Only the call at the head may be at work, and leaves it so or the queue behind it.
LEMMA HeadMoves ==
  ASSUME OneAtWork, WorkerTypes, NEW c \in ToolCall, NEW s \in Stage,
         stage' = [stage EXCEPT ![c] = s],
         \/ tabQueue' = tabQueue /\ (s \in Working => tabQueue # <<>> /\ Head(tabQueue) = c)
         \/ tabQueue # <<>> /\ Head(tabQueue) = c /\ s \notin Working
  PROVE  OneAtWork'
BY DEF OneAtWork, WorkerTypes

\* The dialogs, where the patches stay as they are.
LEMMA PatchesKept ==
  ASSUME PageInv, PageStands, NEW c \in ToolCall, OneMoves(c),
         UNCHANGED <<depth, stopped>>, tool'[c] = tool[c],
         stage[c] # "done",
         IsWrite(c) => (stage'[c] \in Holding <=> stage[c] \in Holding) \/ answer'[c] = "unrestored",
         IsWrite(c) /\ stage'[c] \in Holding => stage[c] \in Holding,
         stage'[c] = "done" => ~MayStillAct(c),
         IsWrite(c) /\ stage'[c] = "send" => stage[c] = "send" /\ injected' = injected,
         injected' # injected => stage[c] \in Working
  PROVE  PatchesHold' /\ PatchesCounted'
<1>1. ASSUME NEW q \in ToolCall
      PROVE  /\ MayStillAct(q)' <=> MayStillAct(q)
             /\ (IsWrite(q)' <=> IsWrite(q))
             /\ q # c => stage'[q] = stage[q] /\ answer'[q] = answer[q]
  <2>1. tool'[q] = tool[q] /\ (q # c => stage'[q] = stage[q] /\ answer'[q] = answer[q])
    BY DEF OneMoves
  <2>2. (Under(q)' <=> Under(q)) /\ cancelled' = cancelled
    BY NothingMoves DEF PageStands
  <2> QED BY <2>1, <2>2 DEF MayStillAct, IsWrite
<1>2. \A q \in ToolCall : MayStillAct(q)' => depth' >= 1
  BY <1>1 DEF PageInv, PatchesHold
<1>3. ASSUME NEW q \in ToolCall, NEW d \in ToolCall, Orphan(q)', IsWrite(d)', stage'[d] \in Holding
      PROVE  depth' >= 2
  <2>1. Orphan(q)
    BY <1>1, <1>3 DEF Orphan
  <2>2. IsWrite(d) /\ stage[d] \in Holding
    BY <1>1, <1>3
  <2> QED BY <2>1, <2>2 DEF PageInv, PatchesHold
<1>4. ASSUME NEW q \in ToolCall, IsWrite(q)', stage'[q] = "send", injected' PROVE depth' >= 1
  <2>1. IsWrite(q)
    BY <1>1, <1>4
  <2>2. CASE q = c
    BY <2>1, <2>2, <1>4 DEF PageInv, PatchesHold
  <2>3. CASE q # c
    <3>1. stage[q] = "send" /\ stage[q] \in Working
      BY <1>1, <1>4, <2>3 DEF Working
    <3>2. injected' = injected
      BY <2>3, <3>1, Alone DEF PageInv
    <3> QED BY <1>4, <2>1, <3>1, <3>2 DEF PageInv, PatchesHold
  <2> QED BY <2>2, <2>3
<1>5. PatchesCounted'
  <2> SUFFICES ASSUME ~stopped', \A q \in ToolCall : answer'[q] # "unrestored"
               PROVE  depth' = 0 \/ (depth' = 1 /\ \E q \in ToolCall : IsWrite(q)' /\ stage'[q] \in Holding)
    BY DEF PatchesCounted
  <2>1. \A q \in ToolCall : answer[q] # "unrestored"
    <3>1. ASSUME NEW q \in ToolCall PROVE answer[q] # "unrestored"
      <4>1. CASE q = c
        BY <4>1 DEF PageInv, CallFollows
      <4>2. CASE q # c
        BY <1>1, <4>2
      <4> QED BY <4>1, <4>2
    <3> QED BY <3>1
  <2>2. depth = 0 \/ (depth = 1 /\ \E q \in ToolCall : IsWrite(q) /\ stage[q] \in Holding)
    BY <2>1 DEF PageInv, PatchesCounted
  <2>3. ASSUME NEW q \in ToolCall, IsWrite(q), stage[q] \in Holding
        PROVE  IsWrite(q)' /\ stage'[q] \in Holding
    BY <1>1, <2>3
  <2> QED BY <2>2, <2>3
<1> QED BY <1>2, <1>3, <1>4, <1>5 DEF PatchesHold

\* A call that moves to another place and keeps what it was told.
LEMMA CallGoesOn ==
  ASSUME PageInv, PageStands, NEW c \in ToolCall, NEW s \in Stage,
         stage' = [stage EXCEPT ![c] = s], stage[c] # "done",
         UNCHANGED <<tool, refs, reply, answer, tabQueue, depth, stopped>>,
         AtWork(c, stage[c]), s \in Working, DocumentTypes',
         s \in Unsent => Undone(c) /\ reply[c] = "",
         answer[c] \notin {"not dispatched", "unpatched"}, ~(answer[c] = "stale" /\ tool[c] = "write"),
         s = "restore" => ~Under(c),
         s = "patch" => IsWrite(c),
         IsWrite(c) => (s \in Holding <=> stage[c] \in Holding),
         IsWrite(c) => s # "send",
         injected' # injected => stage[c] \in Working
  PROVE  PageInv'
<1>1. WorkerTypes /\ CallFollows(c) /\ OneAtWork
  BY DEF PageInv
<1>2. stage'[c] = s /\ OneMoves(c) /\ stage' \in [ToolCall -> Stage]
  BY <1>1 DEF WorkerTypes, OneMoves
<1>3. WorkerTypes'
  BY <1>1, <1>2 DEF WorkerTypes
<1>4. OneAtWork'
  BY <1>1, HeadMoves DEF AtWork, Serving
<1>5. CallFollows(c)'
  <2>1. /\ (Under(c)' <=> Under(c)) /\ (Undone(c)' <=> Undone(c)) /\ acted' = acted
    BY NothingMoves DEF PageStands
  <2> QED BY <1>1, <1>2, <2>1 DEF CallFollows, Working, IsWrite
<1>6. PatchesHold' /\ PatchesCounted'
  BY <1>2, PatchesKept DEF Working
<1> QED BY <1>2, <1>3, <1>4, <1>5, <1>6, WorkerStep

LEMMA CallLeaves ==
  ASSUME PageInv, PageStands, NEW c \in ToolCall, NEW what \in ToldAs, Leaves(c, what),
         tabQueue # <<>>, Head(tabQueue) = c, stage[c] \notin {"idle", "done"}, DocumentTypes',
         what \in {"not dispatched", "unpatched"} => Undone(c),
         what = "stale" /\ tool[c] = "write" => Undone(c) /\ reply[c] = "",
         \/ PatchesHold' /\ PatchesCounted'
         \/ /\ UNCHANGED <<depth, stopped, injected>> /\ ~MayStillAct(c)
            /\ IsWrite(c) => stage[c] \notin Holding \/ what = "unrestored"
  PROVE  PageInv'
<1>1. WorkerTypes /\ CallFollows(c) /\ OneAtWork
  BY DEF PageInv
<1>2. /\ stage' = [stage EXCEPT ![c] = "done"] /\ answer' = [answer EXCEPT ![c] = what]
      /\ tabQueue' = Tail(tabQueue) /\ UNCHANGED <<tool, refs, reply>>
  BY DEF Leaves
<1>3. /\ stage'[c] = "done" /\ answer'[c] = what /\ OneMoves(c)
      /\ stage' \in [ToolCall -> Stage] /\ answer' \in [ToolCall -> ToldAs]
  BY <1>1, <1>2 DEF WorkerTypes, OneMoves, Stage
<1>4. WorkerTypes'
  BY <1>1, <1>2, <1>3, Taken DEF WorkerTypes
<1>5. OneAtWork'
  BY <1>1, <1>2, HeadMoves DEF Stage, Working
<1>6. CallFollows(c)'
  <2>1. /\ (Under(c)' <=> Under(c)) /\ (Undone(c)' <=> Undone(c)) /\ acted' = acted
    BY NothingMoves DEF PageStands
  <2> QED BY <1>1, <1>2, <1>3, <2>1 DEF CallFollows, Unsent
<1>7. PatchesHold' /\ PatchesCounted'
  <2> SUFFICES ASSUME /\ UNCHANGED <<depth, stopped, injected>> /\ ~MayStillAct(c)
                      /\ IsWrite(c) => stage[c] \notin Holding \/ what = "unrestored"
               PROVE  PatchesHold' /\ PatchesCounted'
    OBVIOUS
  <2> QED BY <1>2, <1>3, PatchesKept DEF Holding
<1> QED BY <1>2, <1>3, <1>4, <1>5, <1>6, <1>7, WorkerStep

-----------------------------------------------------------------------------
\* The worker's steps.

LEMMA CallBegun ==
  ASSUME PageInv, NEW c \in ToolCall, BeginCall(c) PROVE PageInv'
<1>1. /\ AtWork(c, "queued") /\ stage' = [stage EXCEPT ![c] = "inject"]
      /\ UNCHANGED <<tool, refs, reply, answer, tabQueue>> /\ UNCHANGED Page
  BY DEF BeginCall, Goes, KeepsCall
<1>2. PageStands /\ UNCHANGED <<depth, stopped, injected>> /\ DocumentTypes'
  BY <1>1 DEF Page, PageStands, PageInv, DocumentTypes
<1>3. stage[c] = "queued" /\ CallFollows(c) /\ AtWork(c, stage[c])
  BY <1>1 DEF AtWork, PageInv
<1>4. "inject" \in Stage /\ "inject" \in Working /\ "inject" \notin Holding /\ "queued" \notin Holding
  BY DEF Stage, Working, Holding
<1>5. Undone(c) /\ reply[c] = "" /\ answer[c] \notin {"not dispatched", "unpatched"}
  BY <1>3 DEF CallFollows, Unsent
<1>6. ~(answer[c] = "stale" /\ tool[c] = "write")
  BY <1>3 DEF CallFollows
<1> QED BY <1>1, <1>2, <1>3, <1>4, <1>5, <1>6, CallGoesOn

LEMMA CallInjected ==
  ASSUME PageInv, NEW c \in ToolCall, Inject(c) PROVE PageInv'
<1>1. /\ AtWork(c, "inject")
      /\ UNCHANGED <<mail, document, url, depth, present, listed, snapshot, prior, pageWork, shown,
                     acted, counted>>
  BY DEF Inject
<1>2. PageStands /\ UNCHANGED <<depth, stopped>> /\ DocumentTypes'
  BY <1>1 DEF PageStands, PageInv, DocumentTypes
<1>3. /\ stage[c] = "inject" /\ CallFollows(c) /\ AtWork(c, stage[c])
      /\ tabQueue # <<>> /\ Head(tabQueue) = c
  BY <1>1 DEF AtWork, Serving, PageInv
<1>4. /\ Undone(c) /\ reply[c] = "" /\ answer[c] \notin {"not dispatched", "unpatched"}
      /\ ~(answer[c] = "stale" /\ tool[c] = "write")
  BY <1>3 DEF CallFollows, Unsent
<1>5. CASE c \notin aborted /\ injected' = TRUE /\ KeepsCall
           /\ Goes(c, IF IsWrite(c) THEN "patch" ELSE "send")
  <2>1. CASE IsWrite(c)
    <3>1. "patch" \in Stage /\ "patch" \in Working /\ "patch" \notin Holding /\ "inject" \notin Holding
      BY DEF Stage, Working, Holding
    <3>2. stage' = [stage EXCEPT ![c] = "patch"] /\ UNCHANGED <<tool, refs, reply, answer, tabQueue>>
      BY <1>5, <2>1 DEF Goes, KeepsCall
    <3> QED BY <1>2, <1>3, <1>4, <2>1, <3>1, <3>2, CallGoesOn DEF Working
  <2>2. CASE ~IsWrite(c)
    <3>1. "send" \in Stage /\ "send" \in Working
      BY DEF Stage, Working
    <3>2. stage' = [stage EXCEPT ![c] = "send"] /\ UNCHANGED <<tool, refs, reply, answer, tabQueue>>
      BY <1>5, <2>2 DEF Goes, KeepsCall
    <3> QED BY <1>2, <1>3, <1>4, <2>2, <3>1, <3>2, CallGoesOn DEF Working
  <2> QED BY <2>1, <2>2
<1>6. CASE Leaves(c, "failed") /\ UNCHANGED injected
  <2>1. "failed" \in ToldAs /\ stage[c] \notin Holding /\ ~MayStillAct(c)
    BY <1>3, <1>4 DEF ToldAs, Holding, MayStillAct, Undone
  <2> QED BY <1>2, <1>3, <1>6, <2>1, CallLeaves
<1> QED BY <1>5, <1>6 DEF Inject

\* The dialogs of the document are patched for this call, on top of what is patched.
LEMMA CallPatched ==
  ASSUME PageInv, NEW c \in ToolCall, Patch(c) PROVE PageInv'
<1>1. /\ AtWork(c, "patch")
      /\ UNCHANGED <<mail, document, url, injected, present, listed, snapshot, prior, pageWork,
                     shown, acted, counted>>
  BY DEF Patch
<1>2. /\ stage[c] = "patch" /\ CallFollows(c) /\ WorkerTypes /\ OneAtWork /\ depth \in Nat
      /\ tabQueue # <<>> /\ Head(tabQueue) = c
  BY <1>1 DEF AtWork, Serving, PageInv, DocumentTypes
<1>3. PageStands
  BY <1>1 DEF PageStands
<1>4. Undone(c) /\ reply[c] = ""
  BY <1>2 DEF CallFollows, Unsent
<1>5. CASE c \notin aborted /\ depth' = PatchedDepth(depth) /\ Goes(c, "send") /\ KeepsCall
  <2>1. /\ stage' = [stage EXCEPT ![c] = "send"] /\ depth' = depth + 1
        /\ UNCHANGED <<tool, refs, reply, answer, tabQueue>>
    BY <1>5 DEF Goes, KeepsCall, PatchedDepth
  <2>2. stage'[c] = "send" /\ OneMoves(c) /\ stage' \in [ToolCall -> Stage]
    BY <1>2, <2>1 DEF WorkerTypes, OneMoves, Stage
  <2>3. WorkerTypes' /\ DocumentTypes'
    BY <1>1, <1>2, <2>1, <2>2 DEF WorkerTypes, DocumentTypes, PageInv
  <2>4. OneAtWork'
    BY <1>2, <2>1, HeadMoves DEF Stage
  <2>5. CallFollows(c)'
    <3>1. (Under(c)' <=> Under(c)) /\ (Undone(c)' <=> Undone(c)) /\ acted' = acted
      BY <1>1, NothingMoves
    <3> QED BY <1>2, <1>4, <2>1, <2>2, <3>1 DEF CallFollows, Unsent
  <2>6. \A q \in ToolCall : /\ MayStillAct(q)' <=> MayStillAct(q)
                            /\ IsWrite(q)' <=> IsWrite(q)
                            /\ stage'[q] = "done" <=> stage[q] = "done"
    <3>1. ASSUME NEW q \in ToolCall PROVE Under(q)' <=> Under(q)
      BY <1>1, NothingMoves
    <3> QED BY <1>1, <1>2, <2>1, <2>2, <3>1 DEF MayStillAct, IsWrite, OneMoves
  <2>7. PatchesHold'
    <3>1. \A q \in ToolCall : MayStillAct(q)' => depth >= 1 /\ (stage'[q] = "done" => Orphan(q))
      BY <2>6 DEF PageInv, PatchesHold, Orphan
    <3>2. depth' >= 1
      BY <1>2, <2>1
    <3>3. \A q \in ToolCall : Orphan(q)' => depth' >= 2
      BY <1>2, <2>1, <3>1 DEF Orphan
    <3> QED BY <3>2, <3>3 DEF PatchesHold
  <2>8. PatchesCounted'
    <3> SUFFICES ASSUME ~stopped', \A q \in ToolCall : answer'[q] # "unrestored"
                 PROVE  depth' = 1 /\ \E q \in ToolCall : IsWrite(q)' /\ stage'[q] \in Holding
      BY DEF PatchesCounted
    <3>1. depth = 0 \/ \E q \in ToolCall : stage[q] \in Holding
      BY <1>1, <2>1 DEF PageInv, PatchesCounted
    <3>2. ~ \E q \in ToolCall : stage[q] \in Holding
      BY <1>2, Alone DEF Working, Holding
    <3> QED
      <4>1. IsWrite(c)' /\ stage'[c] \in Holding
        BY <1>2, <2>1, <2>2 DEF CallFollows, IsWrite, Holding
      <4> QED BY <1>2, <2>1, <3>1, <3>2, <4>1
  <2> QED BY <1>2, <1>3, <2>1, <2>2, <2>3, <2>4, <2>5, <2>7, <2>8, WorkerStep
<1>6. CASE Leaves(c, "unpatched") /\ UNCHANGED depth
  <2>1. "unpatched" \in ToldAs /\ stage[c] \notin Holding /\ ~MayStillAct(c)
    BY <1>2, <1>4 DEF ToldAs, Holding, MayStillAct, Undone
  <2>2. DocumentTypes' /\ UNCHANGED <<depth, stopped, injected>>
    BY <1>1, <1>6 DEF DocumentTypes, PageInv
  <2> QED BY <1>2, <1>3, <1>4, <1>6, <2>1, <2>2, CallLeaves
<1> QED BY <1>5, <1>6 DEF Patch

LEMMA CallSkipped ==
  ASSUME PageInv, Skip PROVE PageInv'
<1> PICK c : c = Serving
  OBVIOUS
<1>1. /\ tabQueue # <<>> /\ Head(tabQueue) = c /\ stage[c] = "skipped"
      /\ Leaves(c, answer[c]) /\ UNCHANGED Page
  BY DEF Skip, Serving
<1>2. c \in ToolCall
  BY <1>1, Taken DEF PageInv, WorkerTypes
<1>3. PageStands /\ UNCHANGED <<depth, stopped, injected>> /\ DocumentTypes'
  BY <1>1 DEF Page, PageStands, PageInv, DocumentTypes
<1>4. Undone(c) /\ reply[c] = "" /\ answer[c] \in ToldAs
  BY <1>1, <1>2, CallTyped DEF PageInv, CallFollows, Unsent
<1>5. ~MayStillAct(c) /\ stage[c] \notin Holding
  BY <1>1, <1>4 DEF MayStillAct, Undone, Holding
<1> QED BY <1>1, <1>2, <1>3, <1>4, <1>5, CallLeaves

LEMMA CallReplied ==
  ASSUME PageInv, NEW c \in ToolCall, ReceiveReply(c) PROVE PageInv'
<1>1. /\ AtWork(c, "await") /\ reply[c] # "" /\ reply' = [reply EXCEPT ![c] = ""]
      /\ UNCHANGED <<tool, refs, aborted, tabQueue, urlBefore, mail, document, url, depth, present,
                     listed, snapshot, prior, pageWork, shown, acted, counted>>
  BY DEF ReceiveReply
<1>2. /\ stage[c] = "await" /\ CallFollows(c) /\ WorkerTypes /\ OneAtWork
      /\ tabQueue # <<>> /\ Head(tabQueue) = c /\ ~Under(c)
  BY <1>1 DEF AtWork, Serving, PageInv, CallFollows
<1>3. PageStands /\ DocumentTypes' /\ UNCHANGED <<depth, stopped>>
  BY <1>1 DEF PageStands, DocumentTypes, PageInv
<1>4. /\ (Under(c)' <=> Under(c)) /\ (Undone(c)' <=> Undone(c)) /\ acted' = acted
  BY <1>1, NothingMoves
<1>5. CASE Replayable(c) /\ url = urlBefore[c]
  <2>1. /\ stage' = [stage EXCEPT ![c] = "send"] /\ answer' = answer /\ ~IsWrite(c)
    BY <1>5 DEF ReceiveReply, Replayable, Goes
  <2>2. /\ stage'[c] = "send" /\ OneMoves(c) /\ stage' \in [ToolCall -> Stage]
        /\ reply' \in [ToolCall -> Replies] /\ reply'[c] = ""
    BY <1>1, <1>2, <2>1 DEF WorkerTypes, OneMoves, Stage, Replies
  <2>3. WorkerTypes'
    BY <1>1, <1>2, <2>1, <2>2 DEF WorkerTypes
  <2>4. OneAtWork'
    BY <1>1, <1>2, <2>1, HeadMoves DEF Stage
  <2>5. CallFollows(c)'
    BY <1>1, <1>2, <1>4, <2>1, <2>2 DEF CallFollows, IsWrite, Undone
  <2>6. PatchesHold' /\ PatchesCounted'
    BY <1>1, <1>2, <1>3, <2>1, <2>2, PatchesKept DEF Working, Holding
  <2> QED BY <1>1, <1>3, <2>2, <2>3, <2>4, <2>5, <2>6, WorkerStep
<1>6. CASE ~(Replayable(c) /\ url = urlBefore[c])
  <2> PICK m : m = Meaning(c)
    OBVIOUS
  <2>1. stage' = [stage EXCEPT ![c] = "restore"] /\ answer' = [answer EXCEPT ![c] = m]
    BY <1>6 DEF ReceiveReply, Goes
  <2>2. /\ m \in {"ok", "stale", "failed", "navigated", "uncertain"}
        /\ m = "stale" => reply[c] = "stale"
    BY <1>1, <1>2, CallTyped DEF Meaning, Replies
  <2>3. /\ stage'[c] = "restore" /\ answer'[c] = m /\ reply'[c] = "" /\ OneMoves(c)
        /\ stage' \in [ToolCall -> Stage] /\ reply' \in [ToolCall -> Replies]
        /\ answer' \in [ToolCall -> ToldAs]
    BY <1>1, <1>2, <2>1, <2>2 DEF WorkerTypes, OneMoves, Stage, Replies, ToldAs
  <2>4. WorkerTypes'
    BY <1>1, <1>2, <2>3 DEF WorkerTypes
  <2>5. OneAtWork'
    BY <1>1, <1>2, <2>1, HeadMoves DEF Stage
  <2>6. CallFollows(c)'
    BY <1>1, <1>2, <1>4, <2>2, <2>3 DEF CallFollows, IsWrite, Undone, Unsent
  <2>7. PatchesHold' /\ PatchesCounted'
    BY <1>1, <1>2, <1>3, <2>3, PatchesKept DEF Working, Holding
  <2> QED BY <1>1, <1>3, <2>3, <2>4, <2>5, <2>6, <2>7, WorkerStep
<1> QED BY <1>5, <1>6

\* Restoring, of a call that can no longer act in the page.
LEMMA CallRestored ==
  ASSUME PageInv, NEW c \in ToolCall, Restore(c) PROVE PageInv'
<1>1. /\ AtWork(c, "restore") /\ mail = <<>>
      /\ depth' = (IF IsWrite(c) THEN RestoredDepth(depth) ELSE depth)
      /\ UNCHANGED <<mail, document, url, injected, present, listed, snapshot, prior, pageWork,
                     shown, acted, counted>>
  BY DEF Restore
<1>2. /\ stage[c] = "restore" /\ CallFollows(c) /\ WorkerTypes /\ OneAtWork /\ depth \in Nat
      /\ tabQueue # <<>> /\ Head(tabQueue) = c
  BY <1>1 DEF AtWork, Serving, PageInv, DocumentTypes
<1>3. depth' \in Nat /\ (depth' = depth \/ (depth >= 1 /\ depth' = depth - 1))
  BY <1>1, <1>2 DEF RestoredDepth
<1>4. PageStands /\ DocumentTypes'
  BY <1>1, <1>3 DEF PageStands, DocumentTypes, PageInv
<1>5. ~MayStillAct(c)
  <2>1. DOMAIN mail = {}
    BY <1>1, NothingIn
  <2> QED BY <1>2, <2>1 DEF CallFollows, CalledOff, MayStillAct
<1>6. \A q \in ToolCall : Under(q)' <=> Under(q)
  BY <1>1, NothingMoves
<1>7. ASSUME NEW s \in {"done", "queued"}, stage' = [stage EXCEPT ![c] = s], tool' = tool,
             \A q \in ToolCall : q # c => answer'[q] = answer[q]
      PROVE  PatchesHold' /\ PatchesCounted'
  <2>1. \A q \in ToolCall : (MayStillAct(q)' <=> MayStillAct(q)) /\ (IsWrite(q)' <=> IsWrite(q))
    BY <1>1, <1>6, <1>7 DEF MayStillAct, IsWrite
  <2>2. \A q \in ToolCall : /\ q # c => stage'[q] = stage[q] /\ stage[q] \notin Holding
                            /\ stage'[c] = s /\ stage'[q] \notin Holding
    BY <1>2, <1>7, Alone DEF WorkerTypes, Working, Holding
  <2>3. ASSUME NEW q \in ToolCall, MayStillAct(q)' PROVE depth' >= 1
    <3>1. MayStillAct(q) /\ q # c /\ depth >= 1
      BY <1>5, <2>1, <2>3 DEF PageInv, PatchesHold
    <3>2. CASE ~IsWrite(c)
      BY <1>1, <3>1, <3>2
    <3>3. CASE IsWrite(c)
      <4>1. Under(q)
        BY <3>1 DEF MayStillAct
      <4>2. CallFollows(q) /\ stage[q] \notin Working /\ stage[q] \in Stage
        BY <1>2, <3>1, Alone, CallTyped DEF PageInv, Working
      <4>3. stage[q] = "done"
        BY <4>1, <4>2 DEF CallFollows, Undone, Unsent, Stage, Working
      <4>4. depth >= 2
        BY <1>2, <3>1, <3>3, <4>3 DEF PageInv, PatchesHold, Orphan, Holding
      <4> QED BY <1>2, <1>3, <4>4
    <3> QED BY <3>2, <3>3
  <2>4. PatchesHold'
    BY <2>2, <2>3 DEF PatchesHold, Holding
  <2>5. PatchesCounted'
    <3> SUFFICES ASSUME ~stopped', \A q \in ToolCall : answer'[q] # "unrestored"
                 PROVE  depth' = 0
      BY DEF PatchesCounted
    <3>1. \A q \in ToolCall : answer[q] # "unrestored"
      BY <1>2, <1>7 DEF CallFollows
    <3>2. depth = 0 \/ (depth = 1 /\ \E q \in ToolCall : IsWrite(q) /\ stage[q] \in Holding)
      BY <1>1, <3>1 DEF PageInv, PatchesCounted
    <3>3. depth = 0 \/ (depth = 1 /\ IsWrite(c))
      BY <2>2, <3>2
    <3> QED BY <1>1, <3>3 DEF RestoredDepth
  <2> QED BY <2>4, <2>5
<1>8. CASE TriesAgain(c)
  <2>1. /\ stage' = [stage EXCEPT ![c] = "queued"] /\ answer' = [answer EXCEPT ![c] = ""]
        /\ tabQueue' = Append(Tail(tabQueue), c) /\ UNCHANGED <<tool, refs, reply>>
    BY <1>8 DEF Restore, Goes
  <2>2. Undone(c) /\ reply[c] = ""
    BY <1>2, <1>8 DEF TriesAgain, CallFollows
  <2>3. /\ stage'[c] = "queued" /\ answer'[c] = "" /\ OneMoves(c)
        /\ stage' \in [ToolCall -> Stage] /\ answer' \in [ToolCall -> ToldAs]
    BY <1>2, <2>1 DEF WorkerTypes, OneMoves, Stage, ToldAs
  <2>4. WorkerTypes'
    <3>1. tabQueue' \in Seq(ToolCall)
      <4>1. Tail(tabQueue) \in Seq(ToolCall)
        BY <1>2, Taken DEF WorkerTypes
      <4> QED BY <2>1, <4>1, Added
    <3> QED BY <1>2, <2>1, <2>3, <3>1 DEF WorkerTypes
  <2>5. OneAtWork'
    BY <1>2, <2>1, HeadMoves DEF Stage, Working
  <2>6. CallFollows(c)'
    <3>1. (Under(c)' <=> Under(c)) /\ (Undone(c)' <=> Undone(c)) /\ acted' = acted
      BY <1>1, NothingMoves
    <3> QED BY <1>2, <2>1, <2>2, <2>3, <3>1 DEF CallFollows, Undone
  <2>7. PatchesHold' /\ PatchesCounted'
    BY <1>7, <2>1, <2>3 DEF OneMoves
  <2> QED BY <1>4, <2>1, <2>3, <2>4, <2>5, <2>6, <2>7, WorkerStep
<1>9. CASE ~TriesAgain(c)
  <2>1. Leaves(c, answer[c]) /\ answer[c] \in ToldAs
    BY <1>2, <1>9, CallTyped DEF Restore
  <2>2. PatchesHold' /\ PatchesCounted'
    BY <1>2, <1>7, <2>1 DEF Leaves, WorkerTypes
  <2>3. /\ answer[c] \notin {"not dispatched", "unpatched"}
        /\ answer[c] = "stale" /\ tool[c] = "write" => Undone(c) /\ reply[c] = ""
    BY <1>2 DEF CallFollows
  <2> QED BY <1>2, <1>4, <2>1, <2>2, <2>3, CallLeaves
<1> QED BY <1>8, <1>9

LEMMA CallUnrestored ==
  ASSUME PageInv, NEW c \in ToolCall, RestoreFails(c) PROVE PageInv'
<1>1. /\ AtWork(c, "restore") /\ mail = <<>> /\ Leaves(c, "unrestored") /\ UNCHANGED Page
  BY DEF RestoreFails
<1>2. /\ stage[c] = "restore" /\ CallFollows(c) /\ tabQueue # <<>> /\ Head(tabQueue) = c
  BY <1>1 DEF AtWork, Serving, PageInv
<1>3. PageStands /\ UNCHANGED <<depth, stopped, injected>> /\ DocumentTypes'
  BY <1>1 DEF Page, PageStands, PageInv, DocumentTypes
<1>4. ~MayStillAct(c)
  <2>1. DOMAIN mail = {}
    BY <1>1, NothingIn
  <2> QED BY <1>2, <2>1 DEF CallFollows, CalledOff, MayStillAct
<1> QED BY <1>1, <1>2, <1>3, <1>4, CallLeaves DEF ToldAs

LEMMA CallIssued ==
  ASSUME PageInv, NEW c \in ToolCall, NEW kind \in {"read", "write", "batch"}, Issue(c, kind)
  PROVE  PageInv'
<1>1. /\ stage[c] = "idle" /\ tool' = [tool EXCEPT ![c] = kind]
      /\ stage' = [stage EXCEPT ![c] = "queued"] /\ tabQueue' = Append(tabQueue, c)
      /\ UNCHANGED <<aborted, retry, reply, answer, urlBefore, mail, dom, pageWork, shown, acted,
                     counted>>
  BY DEF Issue
<1>2. CallFollows(c) /\ WorkerTypes /\ OneAtWork /\ shown \in SUBSET Ref
  BY DEF PageInv, DocumentTypes
<1>3. Undone(c) /\ reply[c] = "" /\ answer[c] = ""
  BY <1>1, <1>2 DEF CallFollows, Unsent
<1>4. /\ refs' \in [ToolCall -> Seq(Ref)] /\ \A q \in ToolCall : q # c => refs'[q] = refs[q]
      /\ kind = "write" => Len(refs'[c]) = 1
  <2>1. CASE kind = "read"
    BY <1>2, <2>1 DEF Issue, WorkerTypes
  <2>2. CASE kind = "write"
    <3>1. PICK r \in shown : refs' = [refs EXCEPT ![c] = <<r>>]
      BY <2>2 DEF Issue
    <3>2. <<r>> \in Seq(Ref) /\ Len(<<r>>) = 1
      BY <1>2
    <3> QED BY <1>2, <3>1, <3>2 DEF WorkerTypes
  <2>3. CASE kind = "batch"
    <3>1. PICK r \in shown : \E s \in shown \ {r} : refs' = [refs EXCEPT ![c] = <<r, s>>]
      BY <2>3 DEF Issue
    <3>2. PICK s \in shown : refs' = [refs EXCEPT ![c] = <<r, s>>]
      BY <3>1
    <3>3. <<r, s>> \in Seq(Ref)
      BY <1>2
    <3> QED BY <1>2, <2>3, <3>2, <3>3 DEF WorkerTypes
  <2> QED BY <2>1, <2>2, <2>3
<1>5. /\ stage'[c] = "queued" /\ tool'[c] = kind /\ OneMoves(c)
      /\ stage' \in [ToolCall -> Stage] /\ tool' \in [ToolCall -> Tools]
  BY <1>1, <1>2, <1>4 DEF WorkerTypes, OneMoves, Stage, Tools
<1>6. PageStands /\ DocumentTypes'
  BY <1>1 DEF PageStands, DocumentTypes, PageInv
<1>7. /\ tabQueue' \in Seq(ToolCall) /\ tabQueue' # <<>>
      /\ tabQueue # <<>> => Head(tabQueue') = Head(tabQueue)
  BY <1>1, <1>2, Added DEF WorkerTypes
<1>8. WorkerTypes'
  BY <1>1, <1>2, <1>4, <1>5, <1>7 DEF WorkerTypes
<1>9. OneAtWork'
  BY <1>1, <1>2, <1>5, <1>7 DEF OneAtWork, OneMoves, Working
<1>10. CallFollows(c)'
  <2>1. (Under(c)' <=> Under(c)) /\ (Undone(c)' <=> Undone(c)) /\ acted' = acted
    BY <1>1, NothingMoves
  <2>2. answer'[c] = answer[c] /\ reply'[c] = reply[c]
    BY <1>1
  <2> QED BY <1>3, <1>4, <1>5, <2>1, <2>2 DEF CallFollows, Undone, IsWrite, Unsent
<1>11. PatchesHold' /\ PatchesCounted'
  <2>1. \A q \in ToolCall : q # c => stage'[q] = stage[q] /\ (IsWrite(q)' <=> IsWrite(q))
    BY <1>5 DEF OneMoves, IsWrite
  <2>2. \A q \in ToolCall : (Under(q)' <=> Under(q)) /\ ~Under(c)
    BY <1>1, <1>3, NothingMoves DEF Undone
  <2>3. \A q \in ToolCall : MayStillAct(q)' <=> MayStillAct(q)
    BY <1>1, <2>1, <2>2 DEF MayStillAct
  <2>4. /\ \A q \in ToolCall : stage'[q] \in Holding => stage[q] = stage'[q] /\ q # c
        /\ \A q \in ToolCall : stage[q] \in Holding => stage'[q] = stage[q] /\ q # c
        /\ \A q \in ToolCall : Orphan(q)' => Orphan(q)
    BY <1>1, <1>5, <2>1, <2>3 DEF Holding, Orphan
  <2>5. PatchesHold'
    <3>1. \A q \in ToolCall : MayStillAct(q)' => depth' >= 1
      BY <1>1, <2>3 DEF PageInv, PatchesHold
    <3>2. ASSUME NEW q \in ToolCall, NEW d \in ToolCall, Orphan(q)', IsWrite(d)', stage'[d] \in Holding
          PROVE  depth' >= 2
      <4>1. Orphan(q) /\ IsWrite(d) /\ stage[d] \in Holding
        BY <2>1, <2>4, <3>2
      <4> QED BY <1>1, <4>1 DEF PageInv, PatchesHold
    <3>3. ASSUME NEW q \in ToolCall, IsWrite(q)', stage'[q] = "send", injected' PROVE depth' >= 1
      <4>1. IsWrite(q) /\ stage[q] = "send"
        BY <2>1, <2>4, <3>3 DEF Holding
      <4> QED BY <1>1, <3>3, <4>1 DEF PageInv, PatchesHold
    <3> QED BY <3>1, <3>2, <3>3 DEF PatchesHold
  <2>6. PatchesCounted'
    BY <1>1, <2>1, <2>4 DEF PageInv, PatchesCounted
  <2> QED BY <2>5, <2>6
<1> QED BY <1>3, <1>5, <1>6, <1>8, <1>9, <1>10, <1>11, WorkerStep DEF Undone

\* A message at the end of the page's mail.
LEMMA MailGrows ==
  ASSUME ExecutorTypes, NEW m \in Letter, mail' = Append(mail, m),
         UNCHANGED <<pageQueue, cancelled>>
  PROVE  /\ mail' \in Seq(Letter)
         /\ \A q : (InPage(q)' <=> InPage(q))
         /\ \A q : Mailed(q)' <=> Mailed(q) \/ (m.kind = "execute" /\ m.call = q)
         /\ \A q : CalledOff(q) /\ ~(m.kind = "execute" /\ m.call = q) => CalledOff(q)'
         /\ m.kind = "cancel" => CalledOff(m.call)'
<1> DEFINE n == Len(mail) + 1
<1>1. /\ mail' \in Seq(Letter) /\ DOMAIN mail' = DOMAIN mail \cup {n} /\ n \notin DOMAIN mail
      /\ \A i \in DOMAIN mail : mail'[i] = mail[i] /\ i < n
      /\ mail'[n] = m
  BY Added DEF ExecutorTypes
<1> HIDE DEF n
<1>2. \A q : (InPage(q)' <=> InPage(q))
  BY DEF InPage
<1>3. \A q : Mailed(q)' <=> Mailed(q) \/ (m.kind = "execute" /\ m.call = q)
  BY <1>1 DEF Mailed
<1>4. ASSUME NEW q, CalledOff(q), ~(m.kind = "execute" /\ m.call = q) PROVE CalledOff(q)'
  <2>1. CASE q \in cancelled
    BY <2>1 DEF CalledOff
  <2>2. CASE q \notin cancelled
    <3>1. PICK j \in DOMAIN mail : /\ mail[j].kind = "cancel" /\ mail[j].call = q
                                   /\ \A i \in DOMAIN mail :
                                        mail[i].kind = "execute" /\ mail[i].call = q => i < j
      BY <1>4, <2>2 DEF CalledOff
    <3>2. /\ j \in DOMAIN mail' /\ mail'[j].kind = "cancel" /\ mail'[j].call = q
          /\ \A i \in DOMAIN mail' : mail'[i].kind = "execute" /\ mail'[i].call = q => i < j
      BY <1>1, <1>4, <3>1
    <3> QED BY <3>2 DEF CalledOff
  <2> QED BY <2>1, <2>2
<1>5. ASSUME m.kind = "cancel" PROVE CalledOff(m.call)'
  <2>1. /\ n \in DOMAIN mail' /\ mail'[n].kind = "cancel" /\ mail'[n].call = m.call
        /\ \A i \in DOMAIN mail' : mail'[i].kind = "execute" /\ mail'[i].call = m.call => i < n
    BY <1>1, <1>5
  <2> QED BY <2>1 DEF CalledOff
<1> QED BY <1>1, <1>2, <1>3, <1>4, <1>5

\* A step that sends a message, put together.
LEMMA SendingStep ==
  ASSUME PageInv, NEW c \in ToolCall, OneMoves(c), NEW m \in Letter, m.call = c,
         mail' = Append(mail, m), m.kind = "execute" => Undone(c),
         UNCHANGED <<tool, refs, pageQueue, cancelled, aim, acted, document, snapshot, present, listed,
                     shown, depth>>,
         WorkerTypes', OneAtWork', CallFollows(c)', PatchesHold', PatchesCounted'
  PROVE  PageInv'
<1>1. ExecutorTypes /\ NoneTwice
  BY DEF PageInv
<1>2. /\ mail' \in Seq(Letter)
      /\ \A q : (InPage(q)' <=> InPage(q))
      /\ \A q : Mailed(q)' <=> Mailed(q) \/ (m.kind = "execute" /\ c = q)
      /\ \A q : CalledOff(q) /\ ~(m.kind = "execute" /\ c = q) => CalledOff(q)'
  BY <1>1, MailGrows
<1>3. ExecutorTypes' /\ DocumentTypes'
  BY <1>1, <1>2 DEF ExecutorTypes, DocumentTypes, PageInv
<1>4. NoneTwice'
  <2> DEFINE n == Len(mail) + 1
  <2>1. /\ DOMAIN mail' = DOMAIN mail \cup {n} /\ \A i \in DOMAIN mail : mail'[i] = mail[i]
        /\ mail'[n] = m
    BY <1>1, Added DEF ExecutorTypes
  <2> HIDE DEF n
  <2>2. m.kind = "execute" => ~InPage(c) /\ ~Mailed(c)
    BY DEF Undone, Under
  <2>3. \A i, j \in DOMAIN mail' :
          mail'[i].kind = "execute" /\ mail'[j].kind = "execute" /\ mail'[i].call = mail'[j].call
            => i = j
    <3> SUFFICES ASSUME NEW i \in DOMAIN mail', NEW j \in DOMAIN mail', mail'[i].kind = "execute",
                        mail'[j].kind = "execute", mail'[i].call = mail'[j].call
                 PROVE  i = j
      OBVIOUS
    <3>1. CASE i \in DOMAIN mail /\ j \in DOMAIN mail
      BY <1>1, <2>1, <3>1 DEF NoneTwice
    <3>2. CASE i = n /\ j \in DOMAIN mail
      BY <2>1, <2>2, <3>2 DEF Mailed
    <3>3. CASE j = n /\ i \in DOMAIN mail
      BY <2>1, <2>2, <3>3 DEF Mailed
    <3> QED BY <2>1, <3>1, <3>2, <3>3
  <2>4. ASSUME NEW i \in DOMAIN mail', mail'[i].kind = "execute" PROVE ~InPage(mail[i].call)'
    <3> PICK q : q = mail'[i].call
      OBVIOUS
    <3>1. ~InPage(q)
      <4>1. CASE i \in DOMAIN mail
        BY <1>1, <2>1, <2>4, <4>1 DEF NoneTwice
      <4>2. CASE i = n
        BY <2>1, <2>2, <2>4, <4>2
      <4> QED BY <2>1, <4>1, <4>2
    <3>2. ~InPage(q)'
      BY <1>2, <3>1
    <3> QED BY <3>2 DEF InPage
  <2> QED BY <1>1, <2>3, <2>4 DEF NoneTwice
<1>5. ASSUME NEW q \in ToolCall PROVE DeedsFit(q)'
  <2>1. DeedsFit(q) /\ (InPage(q)' <=> InPage(q)) /\ (Mailed(q)' => Mailed(q) \/ acted[q] = <<>>)
    BY <1>2 DEF PageInv, Undone
  <2> QED BY <2>1 DEF DeedsFit
<1>6. ASSUME NEW q \in ToolCall, q # c PROVE CallFollows(q)'
  <2>1. CallFollows(q)
    BY DEF PageInv
  <2>2. /\ tool'[q] = tool[q] /\ refs'[q] = refs[q] /\ stage'[q] = stage[q]
        /\ reply'[q] = reply[q] /\ answer'[q] = answer[q]
    BY <1>6 DEF OneMoves
  <2>3. (Under(q)' <=> Under(q)) /\ (CalledOff(q) => CalledOff(q)') /\ (Undone(q)' <=> Undone(q))
    BY <1>2, <1>6 DEF Under, Undone
  <2> QED BY <2>1, <2>2, <2>3 DEF CallFollows, IsWrite
<1>7. AimFits'
  <2>1. \A r : Agreed(r) => Agreed(r)'
    BY DEF Agreed, Matches
  <2> QED BY <2>1 DEF PageInv, AimFits
<1> QED BY <1>3, <1>4, <1>5, <1>6, <1>7 DEF PageInv

\* The dialogs, where a call that holds its patch is sent or given up.
LEMMA PatchesStay ==
  ASSUME PageInv, NEW c \in ToolCall, OneMoves(c), UNCHANGED <<tool, depth, stopped, injected>>,
         stage[c] \in Holding, stage'[c] \in {"await", "restore"},
         \A q \in ToolCall : q # c /\ MayStillAct(q)' => MayStillAct(q),
         MayStillAct(c)' => depth >= 1
  PROVE  PatchesHold' /\ PatchesCounted'
<1>1. \A q \in ToolCall : /\ q # c => stage'[q] = stage[q] /\ answer'[q] = answer[q]
                          /\ (IsWrite(q)' <=> IsWrite(q))
                          /\ (stage'[q] \in Holding <=> stage[q] \in Holding)
                          /\ (stage'[q] = "send" => stage[q] = "send")
                          /\ (stage'[q] = "done" => q # c)
  BY DEF OneMoves, IsWrite, Holding
<1>2. ASSUME NEW q \in ToolCall, MayStillAct(q)' PROVE depth' >= 1
  BY <1>2 DEF PageInv, PatchesHold
<1>3. ASSUME NEW q \in ToolCall, NEW d \in ToolCall, Orphan(q)', IsWrite(d)', stage'[d] \in Holding
      PROVE  depth' >= 2
  <2>1. Orphan(q) /\ IsWrite(d) /\ stage[d] \in Holding
    BY <1>1, <1>3 DEF Orphan
  <2> QED BY <2>1 DEF PageInv, PatchesHold
<1>4. ASSUME NEW q \in ToolCall, IsWrite(q)', stage'[q] = "send", injected' PROVE depth' >= 1
  <2>1. IsWrite(q) /\ stage[q] = "send" /\ injected
    BY <1>1, <1>4
  <2> QED BY <2>1 DEF PageInv, PatchesHold
<1>5. PatchesCounted'
  <2> SUFFICES ASSUME ~stopped, \A q \in ToolCall : answer'[q] # "unrestored"
               PROVE  depth = 0 \/ (depth = 1 /\ \E q \in ToolCall : IsWrite(q)' /\ stage'[q] \in Holding)
    BY DEF PatchesCounted
  <2>1. ASSUME NEW q \in ToolCall PROVE answer[q] # "unrestored"
    <3>1. CASE q = c
      BY <3>1 DEF PageInv, CallFollows, Holding
    <3>2. CASE q # c
      BY <1>1, <3>2
    <3> QED BY <3>1, <3>2
  <2>2. depth = 0 \/ (depth = 1 /\ \E q \in ToolCall : IsWrite(q) /\ stage[q] \in Holding)
    BY <2>1 DEF PageInv, PatchesCounted
  <2> QED BY <1>1, <2>2
<1> QED BY <1>2, <1>3, <1>4, <1>5 DEF PatchesHold

LEMMA CallSent ==
  ASSUME PageInv, NEW c \in ToolCall, Send(c) PROVE PageInv'
<1>1. /\ AtWork(c, "send") /\ UNCHANGED <<tool, refs, aborted, retry, tabQueue, dom, pageWork, shown,
                                         acted, counted>>
  BY DEF Send
<1>2. /\ stage[c] = "send" /\ CallFollows(c) /\ WorkerTypes /\ OneAtWork /\ ExecutorTypes
      /\ tabQueue # <<>> /\ Head(tabQueue) = c
  BY <1>1 DEF AtWork, Serving, PageInv
<1>3. /\ Undone(c) /\ reply[c] = "" /\ answer[c] \notin {"not dispatched", "unpatched", "unrestored"}
      /\ ~(answer[c] = "stale" /\ tool[c] = "write")
  BY <1>2 DEF CallFollows, Unsent
<1>4. DocumentTypes' /\ UNCHANGED <<depth, stopped, injected>>
  BY <1>1 DEF DocumentTypes, PageInv
<1>5. ASSUME NEW s \in {"await", "restore"}, stage' = [stage EXCEPT ![c] = s]
      PROVE  /\ stage'[c] = s /\ stage' \in [ToolCall -> Stage] /\ OneAtWork'
             /\ \A q \in ToolCall : q # c => stage'[q] = stage[q]
  BY <1>1, <1>2, <1>5, HeadMoves DEF WorkerTypes, Stage
<1>6. CASE mail' = mail
  <2>1. PageStands
    BY <1>1, <1>6 DEF PageStands
  <2>2. /\ (Under(c)' <=> Under(c)) /\ (Undone(c)' <=> Undone(c)) /\ acted' = acted
    BY <1>1, <1>6, NothingMoves
  <2>3. \A q \in ToolCall : MayStillAct(q)' <=> MayStillAct(q)
    BY <1>1, <1>6, NothingMoves DEF MayStillAct, IsWrite
  <2>4. ~MayStillAct(c) /\ stage[c] \in Holding
    BY <1>2, <1>3 DEF MayStillAct, Undone, Holding
  <2>5. CASE c \in aborted
    <3>1. /\ stage' = [stage EXCEPT ![c] = "restore"] /\ answer' = [answer EXCEPT ![c] = "uncertain"]
          /\ reply' = reply
      BY <2>5 DEF Send, Goes
    <3>2. /\ answer'[c] = "uncertain" /\ OneMoves(c) /\ answer' \in [ToolCall -> ToldAs]
          /\ stage'[c] = "restore"
      BY <1>1, <1>2, <1>5, <3>1 DEF WorkerTypes, OneMoves, ToldAs
    <3>3. WorkerTypes' /\ OneAtWork'
      BY <1>1, <1>2, <1>5, <3>1, <3>2 DEF WorkerTypes
    <3>4. CallFollows(c)'
      BY <1>1, <1>2, <1>3, <2>2, <3>1, <3>2 DEF CallFollows, IsWrite, Undone, Unsent
    <3>5. PatchesHold' /\ PatchesCounted'
      BY <1>1, <1>4, <2>3, <2>4, <3>2, PatchesStay
    <3> QED BY <1>1, <1>4, <2>1, <3>2, <3>3, <3>4, <3>5, WorkerStep
  <2>6. CASE c \notin aborted
    <3>1. /\ stage' = [stage EXCEPT ![c] = "await"] /\ answer' = answer
          /\ reply' = [reply EXCEPT ![c] = "lost"]
      <4>1. ~injected
        <5>1. Append(mail, [kind |-> "execute", call |-> c]) # mail
          BY <1>2, Added DEF ExecutorTypes, Letter
        <5> QED BY <1>6, <2>6, <5>1 DEF Send
      <4> QED BY <2>6, <4>1 DEF Send, Goes
    <3>2. /\ reply'[c] = "lost" /\ OneMoves(c) /\ reply' \in [ToolCall -> Replies]
          /\ stage'[c] = "await"
      BY <1>1, <1>2, <1>5, <3>1 DEF WorkerTypes, OneMoves, Replies
    <3>3. WorkerTypes' /\ OneAtWork'
      BY <1>1, <1>2, <1>5, <3>1, <3>2 DEF WorkerTypes
    <3>4. CallFollows(c)'
      BY <1>1, <1>2, <1>3, <2>2, <3>1, <3>2 DEF CallFollows, IsWrite, Undone, Unsent
    <3>5. PatchesHold' /\ PatchesCounted'
      BY <1>1, <1>4, <2>3, <2>4, <3>2, PatchesStay
    <3> QED BY <1>1, <1>4, <2>1, <3>2, <3>3, <3>4, <3>5, WorkerStep
  <2> QED BY <2>5, <2>6
<1>7. CASE mail' # mail
  <2> PICK m : m = [kind |-> "execute", call |-> c]
    OBVIOUS
  <2>1. m \in Letter /\ m.kind = "execute" /\ m.call = c
    BY DEF Letter
  <2>2. /\ mail' = Append(mail, m) /\ stage' = [stage EXCEPT ![c] = "await"] /\ injected
        /\ UNCHANGED <<reply, answer>>
    BY <1>7 DEF Send, Goes
  <2>3. OneMoves(c) /\ WorkerTypes' /\ OneAtWork' /\ stage'[c] = "await"
    BY <1>1, <1>2, <1>5, <2>2 DEF WorkerTypes, OneMoves
  <2>4. CallFollows(c)'
    BY <1>1, <1>2, <1>3, <2>2, <2>3 DEF CallFollows, IsWrite, Undone, Unsent
  <2>5. \A q \in ToolCall : q # c => (Under(q)' <=> Under(q))
    BY <1>1, <1>2, <2>1, <2>2, MailGrows DEF Under
  <2>6. \A q \in ToolCall : q # c /\ MayStillAct(q)' => MayStillAct(q)
    BY <1>1, <2>5 DEF MayStillAct, IsWrite
  <2>7. MayStillAct(c)' => depth >= 1
    <3>1. MayStillAct(c)' => IsWrite(c)
      BY <1>1 DEF MayStillAct, IsWrite
    <3> QED BY <1>2, <2>2, <3>1 DEF PageInv, PatchesHold
  <2>8. PatchesHold' /\ PatchesCounted'
    BY <1>1, <1>2, <1>4, <2>3, <2>6, <2>7, PatchesStay DEF Holding
  <2> QED BY <1>1, <1>3, <2>1, <2>2, <2>3, <2>4, <2>8, SendingStep
<1> QED BY <1>6, <1>7

LEMMA NothingHappens ==
  ASSUME PageInv, DocumentTypes',
         UNCHANGED <<tool, refs, stage, reply, answer, tabQueue, mail, document, injected, depth,
                     listed, pageQueue, cancelled, aim, acted, stopped>>
  PROVE  PageInv'
<1>1. PageStands /\ WorkerTypes' /\ OneAtWork'
  BY DEF PageInv, PageStands, WorkerTypes, OneAtWork
<1>2. NoneTwice' /\ AimFits' /\ ExecutorTypes' /\ \A c \in ToolCall : DeedsFit(c)'
  BY <1>1, PageRests
<1>3. ASSUME NEW c \in ToolCall
      PROVE  CallFollows(c)' /\ (MayStillAct(c)' <=> MayStillAct(c)) /\ (Orphan(c)' <=> Orphan(c))
  <2>1. /\ (Under(c)' <=> Under(c)) /\ (CalledOff(c)' <=> CalledOff(c)) /\ (Undone(c)' <=> Undone(c))
    BY NothingMoves
  <2>2. CallFollows(c)'
    BY <2>1 DEF PageInv, CallFollows, IsWrite
  <2> QED BY <2>1, <2>2 DEF MayStillAct, Orphan, IsWrite
<1>4. PatchesHold' /\ PatchesCounted'
  BY <1>3 DEF PageInv, PatchesHold, PatchesCounted, IsWrite
<1> QED BY <1>1, <1>2, <1>3, <1>4 DEF PageInv

LEMMA CallGivenUp ==
  ASSUME PageInv, NEW c \in ToolCall, GiveUp(c) PROVE PageInv'
<1>1. /\ stage[c] \notin {"idle", "skipped", "done"}
      /\ UNCHANGED <<tool, refs, retry, reply, tabQueue, urlBefore, dom, pageWork, shown, acted,
                     counted>>
  BY DEF GiveUp
<1>2. CallFollows(c) /\ WorkerTypes /\ OneAtWork /\ ExecutorTypes
  BY DEF PageInv
<1>3. DocumentTypes' /\ UNCHANGED <<depth, stopped, injected>>
  BY <1>1 DEF DocumentTypes, PageInv
<1>4. CASE stage[c] = "queued"
  <2>1. /\ stage' = [stage EXCEPT ![c] = "skipped"] /\ mail' = mail
        /\ answer' = [answer EXCEPT ![c] = "not dispatched"]
    BY <1>4 DEF GiveUp
  <2>2. /\ stage'[c] = "skipped" /\ answer'[c] = "not dispatched" /\ OneMoves(c)
        /\ stage' \in [ToolCall -> Stage] /\ answer' \in [ToolCall -> ToldAs]
    BY <1>1, <1>2, <2>1 DEF WorkerTypes, OneMoves, Stage, ToldAs
  <2>3. WorkerTypes'
    BY <1>1, <1>2, <2>2 DEF WorkerTypes
  <2>4. OneAtWork'
    BY <1>1, <1>2, <2>1, HeadMoves DEF Stage, Working
  <2>5. PageStands
    BY <1>1, <2>1 DEF PageStands
  <2>6. CallFollows(c)'
    <3>1. (Under(c)' <=> Under(c)) /\ (Undone(c)' <=> Undone(c)) /\ acted' = acted
      BY <1>1, <2>1, NothingMoves
    <3> QED BY <1>1, <1>2, <1>4, <2>2, <3>1 DEF CallFollows, Undone, Unsent
  <2>7. PatchesHold' /\ PatchesCounted'
    BY <1>1, <1>3, <1>4, <2>2, <2>5, PatchesKept DEF Holding
  <2> QED BY <1>1, <1>3, <2>2, <2>3, <2>4, <2>5, <2>6, <2>7, WorkerStep
<1>5. CASE stage[c] = "await"
  <2> PICK m : m = [kind |-> "cancel", call |-> c]
    OBVIOUS
  <2>1. m \in Letter /\ m.kind = "cancel" /\ m.call = c
    BY DEF Letter
  <2>2. /\ mail' = Append(mail, m) /\ stage' = [stage EXCEPT ![c] = "restore"]
        /\ answer' = [answer EXCEPT ![c] = "uncertain"]
    BY <1>5 DEF GiveUp
  <2>3. /\ stage'[c] = "restore" /\ answer'[c] = "uncertain" /\ OneMoves(c)
        /\ stage' \in [ToolCall -> Stage] /\ answer' \in [ToolCall -> ToldAs]
    BY <1>1, <1>2, <2>2 DEF WorkerTypes, OneMoves, Stage, ToldAs
  <2>4. WorkerTypes'
    BY <1>1, <1>2, <2>3 DEF WorkerTypes
  <2>5. tabQueue # <<>> /\ Head(tabQueue) = c
    BY <1>2, <1>5 DEF OneAtWork, Working
  <2>6. OneAtWork'
    BY <1>1, <1>2, <2>2, <2>5, HeadMoves DEF Stage
  <2>7. \A q \in ToolCall : (Under(q)' <=> Under(q))
    BY <1>1, <1>2, <2>1, <2>2, MailGrows DEF Under
  <2>8. CalledOff(c)'
    <3>1. CalledOff(m.call)'
      BY <1>1, <1>2, <2>1, <2>2, MailGrows
    <3> QED BY <2>1, <3>1
  <2>9. CallFollows(c)'
    BY <1>1, <1>2, <1>5, <2>3, <2>7, <2>8 DEF CallFollows, Undone, Unsent
  <2>10. \A q \in ToolCall : (MayStillAct(q)' => MayStillAct(q))
    BY <1>1, <2>7 DEF MayStillAct, IsWrite
  <2>11. PatchesHold' /\ PatchesCounted'
    <3>1. MayStillAct(c)' => depth >= 1
      BY <2>10 DEF PageInv, PatchesHold
    <3> QED BY <1>1, <1>3, <1>5, <2>3, <2>10, <3>1, PatchesStay DEF Holding
  <2> QED BY <1>1, <2>1, <2>2, <2>3, <2>4, <2>6, <2>9, <2>11, SendingStep
<1>6. CASE stage[c] \notin {"queued", "await"}
  <2>1. UNCHANGED <<mail, answer, stage>>
    BY <1>6 DEF GiveUp
  <2> QED BY <1>1, <1>3, <2>1, NothingHappens
<1> QED BY <1>4, <1>5, <1>6

LEMMA CallsStopped ==
  ASSUME PageInv, StopCalls PROVE PageInv'
<1>1. /\ stopped' = TRUE /\ tabQueue' = <<>>
      /\ stage' = [c \in ToolCall |-> IF stage[c] = "idle" THEN "idle" ELSE "done"]
      /\ reply' = [c \in ToolCall |-> ""]
      /\ UNCHANGED <<tool, refs, answer, mail, dom, pageWork, shown, acted>>
  BY DEF StopCalls
<1>2. WorkerTypes'
  <2>1. tabQueue' \in Seq(ToolCall)
    BY <1>1, EmptySeq
  <2>2. stage' \in [ToolCall -> Stage] /\ reply' \in [ToolCall -> Replies]
    BY <1>1 DEF Stage, Replies
  <2> QED BY <1>1, <2>1, <2>2 DEF PageInv, WorkerTypes
<1>3. \A c \in ToolCall : stage'[c] = "done" \/ (stage'[c] = "idle" /\ stage[c] = "idle")
  BY <1>1
<1>4. OneAtWork' /\ DocumentTypes'
  BY <1>1, <1>3 DEF OneAtWork, Working, DocumentTypes, PageInv
<1>5. PageStands
  BY <1>1 DEF PageStands
<1>6. NoneTwice' /\ AimFits' /\ ExecutorTypes' /\ \A c \in ToolCall : DeedsFit(c)'
  BY <1>1, <1>5, PageRests
<1>7. ASSUME NEW c \in ToolCall PROVE CallFollows(c)' /\ (MayStillAct(c)' <=> MayStillAct(c))
  <2>1. /\ (Under(c)' <=> Under(c)) /\ (Undone(c)' <=> Undone(c)) /\ acted' = acted
    BY <1>1, NothingMoves
  <2>2. CallFollows(c) /\ reply'[c] = ""
    BY <1>1 DEF PageInv
  <2>3. CallFollows(c)'
    BY <1>1, <1>3, <2>1, <2>2 DEF CallFollows, IsWrite, Unsent, Undone
  <2> QED BY <1>1, <2>1, <2>3 DEF MayStillAct, IsWrite
<1>8. PatchesHold' /\ PatchesCounted'
  BY <1>1, <1>3, <1>7 DEF PageInv, PatchesHold, PatchesCounted, Holding
<1> QED BY <1>2, <1>4, <1>6, <1>7, <1>8 DEF PageInv

-----------------------------------------------------------------------------
\* The page's steps.

LEMMA PagePatches ==
  ASSUME PageInv, UNCHANGED <<tool, stage, answer, depth, injected, stopped>>,
         \A q \in ToolCall : MayStillAct(q)' => MayStillAct(q)
  PROVE  PatchesHold' /\ PatchesCounted'
<1>1. \A q \in ToolCall : (Orphan(q)' => Orphan(q)) /\ (IsWrite(q)' <=> IsWrite(q))
  BY DEF Orphan, IsWrite
<1> QED BY <1>1 DEF PageInv, PatchesHold, PatchesCounted

\* What a cancellation that arrives, or the one before it, leaves in the mail.
LEMMA MailTaken ==
  ASSUME ExecutorTypes, mail # <<>>, mail' = Tail(mail)
  PROVE  /\ mail' \in Seq(Letter) /\ Head(mail) \in Letter /\ Head(mail) = mail[1]
         /\ 1 \in DOMAIN mail
         /\ \A i \in DOMAIN mail' : i + 1 \in DOMAIN mail /\ mail'[i] = mail[i + 1] /\ i + 1 # 1
                                    /\ i \in Nat
         /\ \A i \in DOMAIN mail : i # 1 => i - 1 \in DOMAIN mail' /\ mail'[i - 1] = mail[i] /\ i \in Nat
         /\ \A i \in DOMAIN mail : i \in Nat /\ i >= 1
<1>1. mail \in Seq(Letter)
  BY DEF ExecutorTypes
<1>2. \A i \in DOMAIN mail : i \in Nat /\ i >= 1
  <2>1. DOMAIN mail = 1..Len(mail)
    BY <1>1
  <2> QED BY <2>1
<1> QED BY <1>1, <1>2, Taken

LEMMA CancelReceived ==
  ASSUME PageInv, Receive, Head(mail).kind = "cancel" PROVE PageInv'
<1>1. /\ mail # <<>> /\ mail' = Tail(mail) /\ pageQueue' = pageQueue
      /\ UNCHANGED <<worker, dom, aim, shown, acted, counted>>
  BY DEF Receive
<1> PICK c : c = Head(mail).call
  OBVIOUS
<1>2. cancelled' = IF InPage(c) THEN cancelled \cup {c} ELSE cancelled
  BY DEF Receive, InPage, ToSet
<1>3. ExecutorTypes /\ NoneTwice /\ mail[1].kind = "cancel" /\ mail[1].call = c
  BY <1>1, MailTaken DEF PageInv
<1>4. /\ mail' \in Seq(Letter) /\ 1 \in DOMAIN mail
      /\ \A i \in DOMAIN mail' : i + 1 \in DOMAIN mail /\ mail'[i] = mail[i + 1] /\ i \in Nat
      /\ \A i \in DOMAIN mail : i # 1 => i - 1 \in DOMAIN mail' /\ mail'[i - 1] = mail[i]
      /\ \A i \in DOMAIN mail : i \in Nat /\ i >= 1
  BY <1>1, <1>3, MailTaken
<1>5. ASSUME NEW q
      PROVE  /\ (Mailed(q)' <=> Mailed(q)) /\ (InPage(q)' <=> InPage(q)) /\ (Under(q)' <=> Under(q))
             /\ (Undone(q)' <=> Undone(q))
  <2>1. Mailed(q)' => Mailed(q)
    BY <1>4 DEF Mailed
  <2>2. Mailed(q) => Mailed(q)'
    BY <1>3, <1>4 DEF Mailed
  <2>3. InPage(q)' <=> InPage(q)
    BY <1>1 DEF InPage
  <2> QED BY <1>1, <2>1, <2>2, <2>3 DEF Under, Undone
<1>6. ASSUME NEW q, Under(q), CalledOff(q) PROVE CalledOff(q)'
  <2>1. CASE q \in cancelled'
    BY <2>1 DEF CalledOff
  <2>2. CASE q \notin cancelled'
    <3>1. PICK j \in DOMAIN mail : /\ mail[j].kind = "cancel" /\ mail[j].call = q
                                   /\ \A i \in DOMAIN mail :
                                        mail[i].kind = "execute" /\ mail[i].call = q => i < j
      BY <1>2, <1>6, <2>2 DEF CalledOff
    <3>2. j # 1
      <4> SUFFICES ASSUME j = 1 PROVE FALSE
        OBVIOUS
      <4>1. q = c /\ ~Mailed(q)
        BY <1>3, <1>4, <3>1 DEF Mailed
      <4> QED BY <1>2, <1>6, <2>2, <4>1 DEF Under
    <3>3. j - 1 \in DOMAIN mail' /\ mail'[j - 1].kind = "cancel" /\ mail'[j - 1].call = q
      BY <1>4, <3>1, <3>2
    <3>4. \A i \in DOMAIN mail' : mail'[i].kind = "execute" /\ mail'[i].call = q => i < j - 1
      BY <1>4, <3>1
    <3> QED BY <3>3, <3>4 DEF CalledOff
  <2> QED BY <2>1, <2>2
<1>7. WorkerTypes' /\ DocumentTypes' /\ OneAtWork' /\ ExecutorTypes'
  BY <1>1, <1>4 DEF PageInv, WorkerTypes, DocumentTypes, OneAtWork, ExecutorTypes
<1>8. NoneTwice'
  <2>1. \A i, j \in DOMAIN mail' :
          mail'[i].kind = "execute" /\ mail'[j].kind = "execute" /\ mail'[i].call = mail'[j].call
            => i = j
    <3> SUFFICES ASSUME NEW i \in DOMAIN mail', NEW j \in DOMAIN mail', mail'[i].kind = "execute",
                        mail'[j].kind = "execute", mail'[i].call = mail'[j].call
                 PROVE  i = j
      OBVIOUS
    <3>1. i + 1 = j + 1
      BY <1>3, <1>4 DEF NoneTwice
    <3> QED BY <1>4, <3>1
  <2>2. ASSUME NEW i \in DOMAIN mail', mail'[i].kind = "execute" PROVE ~InPage(mail[i].call)'
    <3>1. ~InPage(mail[i + 1].call)
      BY <1>3, <1>4, <2>2 DEF NoneTwice
    <3> QED BY <1>1, <1>4, <3>1 DEF InPage
  <2> QED BY <1>1, <1>3, <2>1, <2>2 DEF NoneTwice
<1>9. ASSUME NEW q \in ToolCall PROVE CallFollows(q)' /\ DeedsFit(q)'
  <2>1. CallFollows(q) /\ DeedsFit(q)
    BY DEF PageInv
  <2>2. CallFollows(q)'
    BY <1>1, <1>5, <1>6, <2>1 DEF CallFollows, IsWrite
  <2>3. DeedsFit(q)'
    BY <1>1, <1>5, <2>1 DEF DeedsFit
  <2> QED BY <2>2, <2>3
<1>10. AimFits'
  <2>1. \A r : Agreed(r) => Agreed(r)'
    BY <1>1 DEF Agreed, Matches
  <2> QED BY <1>1, <2>1 DEF PageInv, AimFits
<1>11. PatchesHold' /\ PatchesCounted'
  <2>1. \A q \in ToolCall : MayStillAct(q)' => MayStillAct(q)
    BY <1>1, <1>2, <1>5 DEF MayStillAct, IsWrite
  <2> QED BY <1>1, <2>1, PagePatches
<1> QED BY <1>7, <1>8, <1>9, <1>10, <1>11 DEF PageInv

LEMMA RequestReceived ==
  ASSUME PageInv, Receive, Head(mail).kind # "cancel" PROVE PageInv'
<1> PICK c : c = Head(mail).call
  OBVIOUS
<1>1. /\ mail # <<>> /\ mail' = Tail(mail) /\ pageQueue' = Append(pageQueue, c)
      /\ cancelled' = cancelled
      /\ UNCHANGED <<worker, dom, aim, shown, acted, counted>>
  BY DEF Receive
<1>2. ExecutorTypes /\ NoneTwice /\ mail[1].kind = "execute" /\ mail[1].call = c /\ c \in ToolCall
  BY <1>1, MailTaken DEF PageInv, Letter
<1>3. /\ mail' \in Seq(Letter) /\ 1 \in DOMAIN mail
      /\ \A i \in DOMAIN mail' : i + 1 \in DOMAIN mail /\ mail'[i] = mail[i + 1] /\ i \in Nat /\ i + 1 # 1
      /\ \A i \in DOMAIN mail : i # 1 => i - 1 \in DOMAIN mail' /\ mail'[i - 1] = mail[i]
      /\ \A i \in DOMAIN mail : i \in Nat /\ i >= 1
  BY <1>1, <1>2, MailTaken
<1> DEFINE n == Len(pageQueue) + 1
<1>4. /\ pageQueue' \in Seq(ToolCall) /\ pageQueue' # <<>>
      /\ DOMAIN pageQueue' = DOMAIN pageQueue \cup {n} /\ n \notin DOMAIN pageQueue
      /\ \A i \in DOMAIN pageQueue : pageQueue'[i] = pageQueue[i]
      /\ pageQueue'[n] = c
      /\ pageQueue # <<>> => Head(pageQueue') = Head(pageQueue)
      /\ pageQueue = <<>> => Head(pageQueue') = c
  BY <1>1, <1>2, Added DEF ExecutorTypes
<1> HIDE DEF n
<1>5. Mailed(c) /\ ~InPage(c) /\ acted[c] = <<>>
  BY <1>2, <1>3 DEF Mailed, NoneTwice, PageInv, DeedsFit
<1>6. ASSUME NEW q
      PROVE  /\ (Mailed(q)' <=> Mailed(q) /\ q # c) /\ (InPage(q)' <=> InPage(q) \/ q = c)
             /\ (Under(q)' <=> Under(q)) /\ (Undone(q)' <=> Undone(q))
  <2>1. Mailed(q)' => Mailed(q) /\ q # c
    <3> SUFFICES ASSUME Mailed(q)' PROVE Mailed(q) /\ q # c
      OBVIOUS
    <3>1. PICK i \in DOMAIN mail' : mail'[i].kind = "execute" /\ mail'[i].call = q
      BY DEF Mailed
    <3>2. /\ i + 1 \in DOMAIN mail /\ i + 1 # 1 /\ mail[i + 1].kind = "execute"
          /\ mail[i + 1].call = q
      BY <1>3, <3>1
    <3> QED BY <1>2, <1>3, <3>2 DEF Mailed, NoneTwice
  <2>2. Mailed(q) /\ q # c => Mailed(q)'
    BY <1>2, <1>3 DEF Mailed
  <2>3. InPage(q)' <=> InPage(q) \/ q = c
    BY <1>4 DEF InPage
  <2> QED BY <1>1, <1>5, <2>1, <2>2, <2>3 DEF Under, Undone
<1>7. ASSUME NEW q, CalledOff(q) PROVE CalledOff(q)'
  <2>1. CASE q \in cancelled
    BY <1>1, <2>1 DEF CalledOff
  <2>2. CASE q \notin cancelled
    <3>1. PICK j \in DOMAIN mail : /\ mail[j].kind = "cancel" /\ mail[j].call = q
                                   /\ \A i \in DOMAIN mail :
                                        mail[i].kind = "execute" /\ mail[i].call = q => i < j
      BY <1>7, <2>2 DEF CalledOff
    <3>2. j # 1
      BY <1>2, <3>1
    <3>3. j - 1 \in DOMAIN mail' /\ mail'[j - 1].kind = "cancel" /\ mail'[j - 1].call = q
      BY <1>3, <3>1, <3>2
    <3>4. \A i \in DOMAIN mail' : mail'[i].kind = "execute" /\ mail'[i].call = q => i < j - 1
      BY <1>3, <3>1
    <3> QED BY <3>3, <3>4 DEF CalledOff
  <2> QED BY <2>1, <2>2
<1>8. WorkerTypes' /\ DocumentTypes' /\ OneAtWork' /\ ExecutorTypes'
  BY <1>1, <1>3, <1>4 DEF PageInv, WorkerTypes, DocumentTypes, OneAtWork, ExecutorTypes
<1>9. NoneTwice'
  <2>1. \A i, j \in DOMAIN mail' :
          mail'[i].kind = "execute" /\ mail'[j].kind = "execute" /\ mail'[i].call = mail'[j].call
            => i = j
    <3> SUFFICES ASSUME NEW i \in DOMAIN mail', NEW j \in DOMAIN mail', mail'[i].kind = "execute",
                        mail'[j].kind = "execute", mail'[i].call = mail'[j].call
                 PROVE  i = j
      OBVIOUS
    <3>1. i + 1 = j + 1
      BY <1>2, <1>3 DEF NoneTwice
    <3> QED BY <1>3, <3>1
  <2>2. ASSUME NEW i \in DOMAIN mail', mail'[i].kind = "execute" PROVE ~InPage(mail[i].call)'
    <3> PICK q : q = mail'[i].call
      OBVIOUS
    <3>1. Mailed(q)'
      BY <2>2 DEF Mailed
    <3>2. q # c /\ ~InPage(q)
      BY <1>2, <1>3, <1>6, <2>2, <3>1 DEF NoneTwice
    <3>3. ~InPage(q)'
      BY <1>6, <3>2
    <3> QED BY <3>3 DEF InPage
  <2>3. \A i, j \in DOMAIN pageQueue' : pageQueue'[i] = pageQueue'[j] => i = j
    <3> SUFFICES ASSUME NEW i \in DOMAIN pageQueue', NEW j \in DOMAIN pageQueue',
                        pageQueue'[i] = pageQueue'[j]
                 PROVE  i = j
      OBVIOUS
    <3>1. CASE i \in DOMAIN pageQueue /\ j \in DOMAIN pageQueue
      BY <1>2, <1>4, <3>1 DEF NoneTwice
    <3>2. CASE i = n \/ j = n
      BY <1>4, <1>5, <3>2 DEF InPage
    <3> QED BY <1>4, <3>1, <3>2
  <2> QED BY <2>1, <2>2, <2>3 DEF NoneTwice
<1>10. ASSUME NEW q \in ToolCall PROVE CallFollows(q)' /\ DeedsFit(q)'
  <2>1. CallFollows(q) /\ DeedsFit(q)
    BY DEF PageInv
  <2>2. CallFollows(q)'
    BY <1>1, <1>6, <1>7, <2>1 DEF CallFollows, IsWrite
  <2>3. DeedsFit(q)'
    <3>1. InPage(q)' /\ q # Head(pageQueue') => acted[q] = <<>>
      <4>1. CASE q = c
        BY <1>5, <4>1
      <4>2. CASE q # c
        <5>1. InPage(q)' => InPage(q) /\ pageQueue # <<>>
          BY <1>6, <4>2, NothingIn DEF InPage
        <5> QED BY <1>4, <2>1, <5>1 DEF DeedsFit
      <4> QED BY <4>1, <4>2
    <3> QED BY <1>1, <1>6, <2>1, <3>1 DEF DeedsFit
  <2> QED BY <2>2, <2>3
<1>11. AimFits'
  <2>1. \A r : Agreed(r) => Agreed(r)'
    BY <1>1 DEF Agreed, Matches
  <2>2. CASE pageQueue # <<>>
    BY <1>1, <1>4, <2>1, <2>2 DEF PageInv, AimFits
  <2>3. CASE pageQueue = <<>>
    <3>1. aim = NoAim /\ DOMAIN acted[c] = {}
      BY <1>5, <2>3, NothingIn DEF PageInv, AimFits
    <3> QED BY <1>1, <1>4, <2>3, <3>1 DEF AimFits, NoAim
  <2> QED BY <2>2, <2>3
<1>12. PatchesHold' /\ PatchesCounted'
  <2>1. \A q \in ToolCall : MayStillAct(q)' => MayStillAct(q)
    BY <1>1, <1>6 DEF MayStillAct, IsWrite
  <2> QED BY <1>1, <2>1, PagePatches
<1> QED BY <1>8, <1>9, <1>10, <1>11, <1>12 DEF PageInv

\* The request at work is answered; the next one, not begun, takes its place.
LEMMA AnswerStep ==
  ASSUME PageInv, pageQueue # <<>>, NEW c, c = Head(pageQueue), NEW what \in Replies,
         Answers(c, what), UNCHANGED <<acted, depth, injected>>, DocumentTypes',
         what = "stale" /\ tool[c] = "write" => acted[c] = <<>>
  PROVE  PageInv'
<1>1. /\ pageQueue' = Tail(pageQueue) /\ cancelled' = cancelled \ {c} /\ aim' = NoAim
      /\ reply' = IF stage[c] = "await" THEN [reply EXCEPT ![c] = what] ELSE reply
      /\ UNCHANGED <<tool, refs, stage, answer, tabQueue, mail, stopped>>
  BY DEF Answers
<1>2. WorkerTypes /\ ExecutorTypes /\ NoneTwice /\ OneAtWork
  BY DEF PageInv
<1>3. /\ pageQueue' \in Seq(ToolCall) /\ c \in ToolCall /\ c = pageQueue[1] /\ 1 \in DOMAIN pageQueue
      /\ \A i \in DOMAIN pageQueue' : i + 1 \in DOMAIN pageQueue /\ pageQueue'[i] = pageQueue[i + 1]
                                      /\ i + 1 # 1 /\ i \in Nat
      /\ \A i \in DOMAIN pageQueue : i # 1 => i - 1 \in DOMAIN pageQueue'
                                              /\ pageQueue'[i - 1] = pageQueue[i]
  BY <1>1, <1>2, Taken DEF ExecutorTypes
<1>4. InPage(c) /\ Under(c) /\ ~Mailed(c)
  <2>1. InPage(c)
    BY <1>3 DEF InPage
  <2> QED BY <1>2, <2>1 DEF NoneTwice, Under, Mailed
<1>5. ASSUME NEW q
      PROVE  /\ (Mailed(q)' <=> Mailed(q)) /\ (InPage(q)' <=> InPage(q) /\ q # c)
             /\ (Under(q)' <=> Under(q) /\ q # c) /\ (q # c => (Undone(q)' <=> Undone(q)))
             /\ (q # c /\ CalledOff(q) => CalledOff(q)')
  <2>1. Mailed(q)' <=> Mailed(q)
    BY <1>1 DEF Mailed
  <2>2. InPage(q)' => InPage(q) /\ q # c
    BY <1>2, <1>3 DEF InPage, NoneTwice
  <2>3. InPage(q) /\ q # c => InPage(q)'
    BY <1>3 DEF InPage
  <2>4. q # c /\ CalledOff(q) => CalledOff(q)'
    BY <1>1 DEF CalledOff
  <2> QED BY <1>4, <2>1, <2>2, <2>3, <2>4 DEF Under, Undone
<1>6. /\ \A q \in ToolCall : q # c => reply'[q] = reply[q]
      /\ reply'[c] = what \/ reply'[c] = reply[c]
      /\ reply' \in [ToolCall -> Replies]
  BY <1>1, <1>2 DEF WorkerTypes
<1>7. NoAim.number = 0 /\ NoAim.element = {} /\ NoAim = [number |-> NoAim.number, element |-> NoAim.element]
  BY DEF NoAim
<1>8. WorkerTypes' /\ OneAtWork' /\ ExecutorTypes'
  <2>1. WorkerTypes' /\ OneAtWork'
    BY <1>1, <1>2, <1>6 DEF WorkerTypes, OneAtWork
  <2>2. ExecutorTypes'
    BY <1>1, <1>2, <1>3, <1>7 DEF ExecutorTypes
  <2> QED BY <2>1, <2>2
<1>9. NoneTwice'
  <2>1. ASSUME NEW i \in DOMAIN mail', mail'[i].kind = "execute" PROVE ~InPage(mail[i].call)'
    <3> PICK q : q = mail'[i].call
      OBVIOUS
    <3>1. ~InPage(q)
      BY <1>1, <1>2, <2>1 DEF NoneTwice
    <3>2. ~InPage(q)'
      BY <1>5, <3>1
    <3> QED BY <3>2 DEF InPage
  <2>2. \A i, j \in DOMAIN pageQueue' : pageQueue'[i] = pageQueue'[j] => i = j
    <3> SUFFICES ASSUME NEW i \in DOMAIN pageQueue', NEW j \in DOMAIN pageQueue',
                        pageQueue'[i] = pageQueue'[j]
                 PROVE  i = j
      OBVIOUS
    <3>1. i + 1 = j + 1
      BY <1>2, <1>3 DEF NoneTwice
    <3> QED BY <1>3, <3>1
  <2> QED BY <1>1, <1>2, <2>1, <2>2 DEF NoneTwice
<1>10. ASSUME NEW q \in ToolCall PROVE CallFollows(q)' /\ DeedsFit(q)'
  <2>1. CallFollows(q) /\ DeedsFit(q)
    BY DEF PageInv
  <2>2. CASE q = c
    <3>1. ~Under(q)' /\ ~InPage(q)' /\ (Mailed(q)' <=> Mailed(q)) /\ ~Undone(q)
      BY <1>4, <1>5, <2>2 DEF Undone
    <3>2. reply'[q] = "stale" /\ tool'[q] = "write" => acted'[q] = <<>>
      BY <1>1, <1>6, <2>1, <2>2 DEF CallFollows
    <3>3. CallFollows(q)'
      BY <1>1, <2>1, <3>1, <3>2 DEF CallFollows, IsWrite
    <3>4. DeedsFit(q)'
      BY <2>1, <3>1 DEF DeedsFit
    <3> QED BY <3>3, <3>4
  <2>3. CASE q # c
    <3>1. CallFollows(q)'
      BY <1>1, <1>5, <1>6, <2>1, <2>3 DEF CallFollows, IsWrite
    <3>2. DeedsFit(q)'
      BY <1>5, <2>1, <2>3 DEF DeedsFit
    <3> QED BY <3>1, <3>2
  <2> QED BY <2>2, <2>3
<1>11. AimFits'
  <2>1. CASE pageQueue' = <<>>
    BY <1>1, <2>1 DEF AimFits, NoAim
  <2>2. CASE pageQueue' # <<>>
    <3> PICK h : h = Head(pageQueue')
      OBVIOUS
    <3>1. h \in ToolCall /\ h = pageQueue'[1] /\ 1 \in DOMAIN pageQueue'
      BY <1>3, <2>2, Taken
    <3>2. InPage(h)'
      BY <3>1 DEF InPage
    <3>3. InPage(h) /\ h # c
      BY <1>5, <3>2
    <3>4. acted[h] = <<>>
      BY <3>1, <3>3 DEF PageInv, DeedsFit
    <3>5. DOMAIN acted'[Head(pageQueue')] = {}
      BY <3>4, NothingIn
    <3> QED BY <1>1, <1>7, <2>2, <3>5 DEF AimFits
  <2> QED BY <2>1, <2>2
<1>12. PatchesHold' /\ PatchesCounted'
  <2>1. \A q \in ToolCall : MayStillAct(q)' => MayStillAct(q)
    BY <1>1, <1>5 DEF MayStillAct, IsWrite
  <2> QED BY <1>1, <2>1, PagePatches
<1> QED BY <1>8, <1>9, <1>10, <1>11, <1>12 DEF PageInv

\* The request at work goes on: it aims at an element or dispatches an action.
LEMMA WorkGoesOn ==
  ASSUME PageInv, pageQueue # <<>>, NEW c, c = Head(pageQueue), IsWrite(c),
         UNCHANGED <<worker, mail, pageQueue, cancelled, dom, shown, stopped>>,
         aim' = [number |-> aim'.number, element |-> aim'.element], aim'.number \in Nat,
         acted' \in [ToolCall -> Seq(Deed)], \A q \in ToolCall : q # c => acted'[q] = acted[q],
         \A i \in DOMAIN acted'[c] :
           acted'[c][i].number > 0 /\ acted'[c][i].patched /\ acted'[c][i].right,
         \A i, j \in DOMAIN acted'[c] : i < j => acted'[c][i].number < acted'[c][j].number,
         AimFits'
  PROVE  PageInv'
<1>1. ExecutorTypes /\ NoneTwice /\ c \in ToolCall /\ InPage(c) /\ Under(c)
  BY HeadIsUnder DEF PageInv
<1>2. WorkerTypes' /\ DocumentTypes' /\ OneAtWork' /\ ExecutorTypes'
  BY <1>1 DEF PageInv, WorkerTypes, DocumentTypes, OneAtWork, ExecutorTypes
<1>3. ASSUME NEW q
      PROVE  /\ (Mailed(q)' <=> Mailed(q)) /\ (InPage(q)' <=> InPage(q)) /\ (Under(q)' <=> Under(q))
             /\ (CalledOff(q)' <=> CalledOff(q))
  <2>1. (Mailed(q)' <=> Mailed(q)) /\ (InPage(q)' <=> InPage(q)) /\ (CalledOff(q)' <=> CalledOff(q))
    BY DEF Mailed, InPage, CalledOff
  <2> QED BY <2>1 DEF Under
<1>4. NoneTwice'
  BY <1>1 DEF NoneTwice, InPage
<1>5. ASSUME NEW q \in ToolCall PROVE CallFollows(q)' /\ DeedsFit(q)'
  <2>1. CallFollows(q) /\ DeedsFit(q)
    BY DEF PageInv
  <2>2. CASE q = c
    <3>1. ~Undone(q) /\ reply[q] = "" /\ tool[q] # "read" /\ ~Mailed(q)
      BY <1>1, <2>1, <2>2 DEF Undone, CallFollows, IsWrite, NoneTwice, Mailed
    <3>2. CallFollows(q)'
      BY <1>3, <2>1, <3>1 DEF CallFollows, IsWrite
    <3>3. DeedsFit(q)'
      BY <1>3, <2>2, <3>1 DEF DeedsFit
    <3> QED BY <3>2, <3>3
  <2>3. CASE q # c
    <3>1. acted'[q] = acted[q] /\ (Undone(q)' <=> Undone(q))
      BY <1>3, <2>3 DEF Undone
    <3>2. CallFollows(q)'
      BY <1>3, <2>1, <3>1 DEF CallFollows, IsWrite
    <3>3. DeedsFit(q)'
      BY <1>3, <2>1, <3>1 DEF DeedsFit
    <3> QED BY <3>2, <3>3
  <2> QED BY <2>2, <2>3
<1>6. PatchesHold' /\ PatchesCounted'
  <2>1. \A q \in ToolCall : MayStillAct(q)' => MayStillAct(q)
    BY <1>3 DEF MayStillAct, IsWrite
  <2> QED BY <2>1, PagePatches
<1> QED BY <1>2, <1>4, <1>5, <1>6 DEF PageInv

\* What a ref resolves to: its element, or the only one that looks like it.
LEMMA Resolved ==
  ASSUME NEW c, NEW r
  PROVE  /\ Resolve(c, r).what \in {"found", "stale", "ambiguous"}
         /\ Resolve(c, r).what = "found" =>
              /\ r.document = document
              /\ Resolve(c, r).element = {r.element} \/ Resolve(c, r).element = Matches(r)
              /\ Cardinality(Resolve(c, r).element) = 1
<1>1. Cardinality({r.element}) = 1
  BY FS_Singleton
<1>2. CASE Resolves(r)
  BY <1>1, <1>2 DEF Resolve, Resolves
<1>3. CASE ~Resolves(r) /\ ~Recovers(c, r)
  BY <1>3 DEF Resolve
<1>4. CASE ~Resolves(r) /\ Recovers(c, r) /\ ~OnlyOne(Matches(r))
  BY <1>4 DEF Resolve
<1>5. CASE ~Resolves(r) /\ Recovers(c, r) /\ OnlyOne(Matches(r))
  <2>1. r.document = document /\ Cardinality(Matches(r)) = 1
    BY <1>5 DEF Recovers, OnlyOne
  <2> QED BY <1>5, <2>1 DEF Resolve
<1> QED BY <1>2, <1>3, <1>4, <1>5

LEMMA CallAims ==
  ASSUME PageInv, Aim PROVE PageInv'
<1> PICK c : c = Head(pageQueue)
  OBVIOUS
<1>1. /\ pageQueue # <<>> /\ IsWrite(c) /\ aim.element = {} /\ aim.number < Len(refs[c])
      /\ UNCHANGED <<dom, shown, acted>>
  BY DEF Aim, Current, Actions
<1>2. ExecutorTypes /\ c \in ToolCall /\ InPage(c) /\ CallFollows(c) /\ DeedsFit(c) /\ AimFits
  BY <1>1, HeadIsUnder DEF PageInv
<1>3. DocumentTypes'
  BY <1>1 DEF PageInv, DocumentTypes
<1>4. acted[c] \in Seq(Deed) /\ \A i \in DOMAIN acted[c] : acted[c][i].number \in Nat
  <2>1. acted[c] \in Seq(Deed)
    BY <1>2 DEF ExecutorTypes
  <2>2. \A i \in DOMAIN acted[c] : acted[c][i] \in Deed
    BY <2>1
  <2> QED BY <2>1, <2>2 DEF Deed
<1>5. \A i \in DOMAIN acted[c] : acted[c][i].number <= aim.number /\ acted[c][i].number > 0
  BY <1>1, <1>2 DEF AimFits, DeedsFit
<1>6. tool[c] = "write" => acted[c] = <<>>
  <2> SUFFICES ASSUME tool[c] = "write" PROVE acted[c] = <<>>
    OBVIOUS
  <2>1. aim.number = 0
    <3>1. Len(refs[c]) = 1 /\ aim.number \in Nat
      BY <1>2 DEF CallFollows, ExecutorTypes
    <3> QED BY <1>1, <3>1
  <2>2. DOMAIN acted[c] = {}
    BY <1>4, <1>5, <2>1
  <2>3. Len(acted[c]) = 0
    BY <1>4, <2>2
  <2> QED BY <1>4, <2>3, EmptySeq
<1> PICK r : r = refs[c][aim.number + 1]
  OBVIOUS
<1> PICK found : found = Resolve(c, r)
  OBVIOUS
<1>7. CASE c \in cancelled
  <2>1. Answers(c, "failed")
    BY <1>7 DEF Aim, Current
  <2> QED BY <1>1, <1>3, <2>1, AnswerStep DEF Replies
<1>8. CASE c \notin cancelled /\ found.what # "found"
  <2>1. Answers(c, found.what)
    BY <1>8 DEF Aim, Current
  <2>2. found.what \in Replies
    BY Resolved, <1>8 DEF Replies
  <2> QED BY <1>1, <1>3, <1>6, <2>1, <2>2, AnswerStep
<1>9. CASE c \notin cancelled /\ found.what = "found"
  <2>1. /\ aim' = [number |-> aim.number + 1, element |-> found.element]
        /\ UNCHANGED <<worker, mail, counted, pageQueue, cancelled>>
    BY <1>9 DEF Aim, Current
  <2>2. aim'.number = aim.number + 1 /\ aim'.element = found.element /\ aim'.number \in Nat
    BY <1>2, <2>1 DEF ExecutorTypes
  <2>3. Agreed(r)'
    <3>1. /\ r.document = document
          /\ found.element = {r.element} \/ found.element = Matches(r)
          /\ Cardinality(found.element) = 1
      BY <1>9, Resolved
    <3>2. Matches(r)' = Matches(r)
      BY <1>1 DEF Matches
    <3> QED BY <1>1, <2>2, <3>1, <3>2 DEF Agreed
  <2>4. AimFits'
    <3>1. \A i \in DOMAIN acted[c] : acted[c][i].number < aim'.number /\ acted[c][i].number <= aim'.number
      BY <1>2, <1>4, <1>5, <2>2 DEF ExecutorTypes
    <3>2. refs'[Head(pageQueue')][aim'.number] = r /\ Head(pageQueue') = c
      BY <2>1, <2>2
    <3>3. Agreed(refs[Head(pageQueue)][aim.number])'
      BY <2>3, <3>2
    <3>4. aim'.number > 0 /\ tool'[c] # "read"
      BY <1>1, <1>2, <2>1, <2>2 DEF ExecutorTypes, IsWrite
    <3> QED BY <1>1, <2>1, <3>1, <3>2, <3>3, <3>4 DEF AimFits
  <2>5. aim' = [number |-> aim'.number, element |-> aim'.element]
    BY <2>1, <2>2
  <2> QED BY <1>1, <1>2, <2>1, <2>2, <2>4, <2>5, WorkGoesOn DEF ExecutorTypes, DeedsFit
<1> QED BY <1>7, <1>8, <1>9

LEMMA CallActs ==
  ASSUME PageInv, Act PROVE PageInv'
<1> PICK c : c = Head(pageQueue)
  OBVIOUS
<1>1. /\ pageQueue # <<>> /\ aim.element # {} /\ UNCHANGED <<dom, shown>>
  BY DEF Act
<1>2. ExecutorTypes /\ c \in ToolCall /\ InPage(c) /\ CallFollows(c) /\ DeedsFit(c) /\ AimFits
  BY <1>1, HeadIsUnder DEF PageInv
<1>3. DocumentTypes'
  BY <1>1 DEF PageInv, DocumentTypes
<1> PICK r : r = refs[c][aim.number]
  OBVIOUS
<1>4. /\ tool[c] # "read" /\ aim.number > 0 /\ Agreed(r) /\ IsWrite(c)
      /\ \A i \in DOMAIN acted[c] : acted[c][i].number < aim.number
  BY <1>1, <1>2 DEF AimFits, IsWrite
<1>5. CASE ~MayAct(c)
  <2>1. Answers(c, "failed") /\ UNCHANGED acted
    BY <1>5 DEF Act, Current
  <2> QED BY <1>1, <1>3, <2>1, AnswerStep DEF Replies
<1>6. CASE MayAct(c)
  <2> PICK deed : deed = [number |-> aim.number, patched |-> depth > 0, right |-> Agreed(r)]
    OBVIOUS
  <2>1. /\ acted' = [acted EXCEPT ![c] = Append(@, deed)] /\ aim' = [aim EXCEPT !.element = {}]
        /\ UNCHANGED <<worker, mail, counted, pageQueue, cancelled>>
    BY <1>6 DEF Act, Current
  <2>2. depth > 0
    <3>1. MayStillAct(c)
      BY <1>2, <1>4, <1>6 DEF MayStillAct, MayAct, Under
    <3> QED BY <1>2, <3>1 DEF PageInv, PatchesHold, DocumentTypes
  <2>3. deed.number = aim.number /\ deed.patched /\ deed.right /\ deed \in Deed
    <3>1. Agreed(r) = TRUE
      BY <1>4, Zenon DEF Agreed
    <3> QED BY <1>2, <2>2, <3>1 DEF Deed, ExecutorTypes
  <2>4. /\ acted[c] \in Seq(Deed) /\ acted'[c] = Append(acted[c], deed)
        /\ \A q \in ToolCall : q # c => acted'[q] = acted[q]
    BY <1>2, <2>1 DEF ExecutorTypes
  <2> DEFINE n == Len(acted[c]) + 1
  <2>5. /\ acted'[c] \in Seq(Deed)
        /\ DOMAIN acted'[c] = DOMAIN acted[c] \cup {n} /\ n \notin DOMAIN acted[c]
        /\ \A i \in DOMAIN acted[c] : acted'[c][i] = acted[c][i] /\ i < n
        /\ acted'[c][n] = deed
        /\ n \in Nat
    BY <2>3, <2>4, Added
  <2> HIDE DEF n
  <2>6. acted' \in [ToolCall -> Seq(Deed)]
    BY <1>2, <2>1, <2>4, <2>5 DEF ExecutorTypes
  <2>7. \A i \in DOMAIN acted'[c] :
          acted'[c][i].number > 0 /\ acted'[c][i].patched /\ acted'[c][i].right
    BY <1>2, <1>4, <2>3, <2>5 DEF DeedsFit
  <2>8. \A i, j \in DOMAIN acted'[c] : i < j => acted'[c][i].number < acted'[c][j].number
    <3> SUFFICES ASSUME NEW i \in DOMAIN acted'[c], NEW j \in DOMAIN acted'[c], i < j
                 PROVE  acted'[c][i].number < acted'[c][j].number
      OBVIOUS
    <3>1. \A k \in DOMAIN acted[c] : k \in Nat
      BY <2>4
    <3>2. CASE i \in DOMAIN acted[c] /\ j \in DOMAIN acted[c]
      BY <1>2, <2>5, <3>2 DEF DeedsFit
    <3>3. CASE i \in DOMAIN acted[c] /\ j = n
      BY <1>4, <2>3, <2>5, <3>3
    <3>4. i # n
      BY <2>5, <3>1
    <3> QED BY <2>5, <3>2, <3>3, <3>4
  <2>9. aim'.number = aim.number /\ aim'.element = {} /\ aim' = [number |-> aim'.number, element |-> aim'.element]
    BY <1>2, <2>1 DEF ExecutorTypes
  <2>10. AimFits'
    <3>1. \A i \in DOMAIN acted'[c] : acted'[c][i].number <= aim'.number
      <4>1. \A i \in DOMAIN acted[c] : acted[c][i] \in Deed
        BY <2>4
      <4> QED BY <1>2, <1>4, <2>3, <2>5, <2>9, <4>1 DEF ExecutorTypes, Deed
    <3>2. Head(pageQueue') = c /\ pageQueue' # <<>>
      BY <1>1, <2>1
    <3> QED BY <2>9, <3>1, <3>2 DEF AimFits
  <2>11. UNCHANGED <<worker, mail, pageQueue, cancelled, dom, shown, stopped>> /\ aim'.number \in Nat
    BY <1>1, <1>2, <2>1, <2>9 DEF ExecutorTypes
  <2> QED BY <1>1, <1>4, <2>4, <2>6, <2>7, <2>8, <2>9, <2>10, <2>11, WorkGoesOn
<1> QED BY <1>5, <1>6

LEMMA CallFinishes ==
  ASSUME PageInv, Finish PROVE PageInv'
<1> PICK c : c = Head(pageQueue)
  OBVIOUS
<1>1. pageQueue # <<>> /\ UNCHANGED acted
  BY DEF Finish
<1>2. CASE Answers(c, "ok") /\ TakeSnapshot
  <2>1. UNCHANGED <<document, url, injected, depth, present>>
    BY <1>2 DEF TakeSnapshot
  <2>2. DocumentTypes'
    <3>1. snapshot' = snapshot + 1 /\ listed' = present
          /\ shown' = shown \cup RefsOf(snapshot + 1, present)
      BY <1>2 DEF TakeSnapshot
    <3>2. RefsOf(snapshot + 1, present) \in SUBSET Ref
      BY DEF PageInv, DocumentTypes, RefsOf, Ref
    <3> QED BY <2>1, <3>1, <3>2 DEF PageInv, DocumentTypes
  <2> QED BY <1>1, <1>2, <2>1, <2>2, AnswerStep DEF Replies
<1>3. CASE Answers(c, "failed") /\ UNCHANGED <<dom, shown>>
  <2>1. DocumentTypes'
    BY <1>3 DEF PageInv, DocumentTypes
  <2> QED BY <1>1, <1>3, <2>1, AnswerStep DEF Replies
<1> QED BY <1>2, <1>3 DEF Finish, Current

LEMMA PageChanges ==
  ASSUME PageInv, NEW e \in Element, ChangePage(e) PROVE PageInv'
<1>1. /\ present' = IF e \in present THEN present \ {e} ELSE present \cup {e}
      /\ UNCHANGED <<worker, mail, document, url, injected, depth, listed, snapshot, prior, pageWork,
                     shown, acted, stopped>>
  BY DEF ChangePage
<1>2. DocumentTypes'
  BY <1>1 DEF PageInv, DocumentTypes
<1> QED BY <1>1, <1>2, NothingHappens

\* Another document: whatever was sent to the old one is over.
LEMMA PageLoads ==
  ASSUME PageInv, NEW newUrl \in BOOLEAN, Load(newUrl) PROVE PageInv'
<1> PICK sent : sent = ToSet(pageQueue) \cup {m.call : m \in ToSet(mail)}
  OBVIOUS
<1>1. /\ document' = document + 1
      /\ injected' = FALSE /\ depth' = 0 /\ snapshot' = 0 /\ listed' = {}
      /\ present' = Element
      /\ pageQueue' = <<>> /\ cancelled' = {} /\ aim' = NoAim /\ mail' = <<>>
      /\ UNCHANGED <<tool, refs, stage, answer, tabQueue, shown, acted, stopped>>
      /\ reply' = [c \in ToolCall |-> IF c \in sent /\ stage[c] = "await" /\ reply[c] = ""
                                      THEN "lost" ELSE reply[c]]
  BY DEF Load
<1>2. WorkerTypes' /\ DocumentTypes' /\ OneAtWork'
  <2>1. \A c \in ToolCall : reply'[c] \in Replies
    BY <1>1 DEF PageInv, WorkerTypes, Replies
  <2>2. reply' \in [ToolCall -> Replies]
    BY <1>1, <2>1
  <2>3. WorkerTypes' /\ OneAtWork'
    <3>1. UNCHANGED <<tool, refs, stage, answer, tabQueue>>
      BY <1>1
    <3>2. WorkerTypes'
      BY <2>2, <3>1 DEF PageInv, WorkerTypes
    <3>3. OneAtWork'
      BY <3>1 DEF PageInv, OneAtWork
    <3> QED BY <3>2, <3>3
  <2>4. document' \in Nat /\ snapshot' \in Nat /\ depth' \in Nat /\ shown' \in SUBSET Ref
    <3>1. document' = document + 1 /\ snapshot' = 0 /\ depth' = 0 /\ shown' = shown
      BY <1>1
    <3>2. document \in Nat /\ shown \in SUBSET Ref
      BY DEF PageInv, DocumentTypes
    <3> QED BY <3>1, <3>2
  <2>5. present' \in SUBSET Element /\ listed' \in SUBSET Element
    BY <1>1
  <2> QED BY <2>3, <2>4, <2>5 DEF DocumentTypes
<1>3. ExecutorTypes'
  <2>1. mail' \in Seq(Letter) /\ pageQueue' \in Seq(ToolCall)
    BY <1>1, EmptySeq
  <2> QED BY <1>1, <2>1 DEF PageInv, ExecutorTypes, NoAim
<1>4. DOMAIN mail' = {} /\ DOMAIN pageQueue' = {}
  BY <1>1, NothingIn
<1>5. NoneTwice' /\ AimFits'
  BY <1>1, <1>4 DEF NoneTwice, AimFits, NoAim
<1>6. ASSUME NEW c \in ToolCall
      PROVE  /\ ~Under(c)' /\ ~InPage(c)' /\ ~Mailed(c)' /\ (Undone(c) => Undone(c)')
             /\ reply'[c] = reply[c] \/ (reply'[c] = "lost" /\ stage[c] = "await")
  <2>1. ~InPage(c)' /\ ~Mailed(c)'
    BY <1>4 DEF InPage, Mailed
  <2> QED BY <1>1, <2>1 DEF Under, Undone
<1>7. ASSUME NEW c \in ToolCall PROVE CallFollows(c)' /\ DeedsFit(c)'
  <2>1. CallFollows(c) /\ DeedsFit(c)
    BY DEF PageInv
  <2>2. CallFollows(c)'
    BY <1>1, <1>6, <2>1 DEF CallFollows, IsWrite, Unsent
  <2>3. DeedsFit(c)'
    BY <1>1, <1>6, <2>1 DEF DeedsFit
  <2> QED BY <2>2, <2>3
<1>8. PatchesHold' /\ PatchesCounted'
  BY <1>1, <1>6 DEF PatchesHold, PatchesCounted, MayStillAct, Orphan
<1> QED BY <1>2, <1>3, <1>5, <1>7, <1>8 DEF PageInv

-----------------------------------------------------------------------------
LEMMA PageStarts ==
  ASSUME PageInit PROVE PageInv
<1>1. WorkerTypes
  <2>1. tabQueue \in Seq(ToolCall) /\ <<>> \in Seq(Ref)
    BY EmptySeq DEF PageInit
  <2> QED BY <2>1 DEF PageInit, WorkerTypes, Tools, Stage, Replies, ToldAs
<1>2. DocumentTypes
  <2>1. \A e \in Element : [document |-> 1, snapshot |-> 1, element |-> e] \in Ref
    BY DEF Ref
  <2>2. shown \in SUBSET Ref
    BY <2>1 DEF PageInit
  <2> QED BY <2>2 DEF PageInit, DocumentTypes
<1>3. ExecutorTypes
  <2>1. mail \in Seq(Letter) /\ pageQueue \in Seq(ToolCall) /\ <<>> \in Seq(Deed)
    BY EmptySeq DEF PageInit
  <2> QED BY <2>1 DEF PageInit, ExecutorTypes, NoAim
<1>4. /\ DOMAIN mail = {} /\ DOMAIN pageQueue = {}
      /\ \A c \in ToolCall : acted[c] = <<>> /\ DOMAIN acted[c] = {}
  BY NothingIn DEF PageInit
<1>5. \A c \in ToolCall : ~Under(c) /\ ~InPage(c) /\ ~Mailed(c) /\ Undone(c)
  BY <1>4 DEF Under, InPage, Mailed, Undone
<1>6. NoneTwice /\ OneAtWork /\ AimFits
  BY <1>4 DEF NoneTwice, OneAtWork, AimFits, PageInit, Working
<1>7. \A c \in ToolCall : CallFollows(c) /\ DeedsFit(c)
  BY <1>4, <1>5 DEF CallFollows, DeedsFit, PageInit, Unsent
<1>8. PatchesHold /\ PatchesCounted
  BY <1>5 DEF PatchesHold, PatchesCounted, MayStillAct, Orphan, PageInit
<1> QED BY <1>1, <1>2, <1>3, <1>6, <1>7, <1>8 DEF PageInv

\* Every step of the worker, of the page and of the tab (PageCalls.CallNext).
LEMMA CallsKeepOn ==
  ASSUME PageInv, [CallNext]_callVars PROVE PageInv'
<1>1. ASSUME NEW c \in ToolCall, NEW kind \in {"read", "write", "batch"}, Issue(c, kind) PROVE PageInv'
  BY <1>1, CallIssued
<1>2. ASSUME NEW c \in ToolCall, GiveUp(c) PROVE PageInv'
  BY <1>2, CallGivenUp
<1>3. ASSUME NEW c \in ToolCall, WorkerActs(c) PROVE PageInv'
  BY <1>3, CallBegun, CallInjected, CallPatched, CallSent, CallReplied, CallRestored, CallUnrestored
    DEF WorkerActs
<1>4. CASE Skip
  BY <1>4, CallSkipped
<1>5. CASE StopCalls
  BY <1>5, CallsStopped
<1>6. CASE PageActs
  BY <1>6, CancelReceived, RequestReceived, CallAims, CallActs, CallFinishes DEF PageActs
<1>7. ASSUME NEW e \in Element, ChangePage(e) PROVE PageInv'
  BY <1>7, PageChanges
<1>8. ASSUME NEW newUrl \in BOOLEAN, Load(newUrl) PROVE PageInv'
  BY <1>8, PageLoads
<1>9. CASE UNCHANGED callVars
  <2>1. DocumentTypes'
    BY <1>9 DEF PageInv, DocumentTypes
  <2> QED BY <1>9, <2>1, NothingHappens
<1> QED BY <1>1, <1>2, <1>3, <1>4, <1>5, <1>6, <1>7, <1>8, <1>9 DEF CallNext

LEMMA CallsHold == CallSpec => []PageInv
<1>1. CallSpec => PageInit /\ [][CallNext]_callVars
  BY DEF CallSpec
<1> QED BY <1>1, PageStarts, CallsKeepOn, PTL

(* PageCalls.ActsOnce: every action of a call is dispatched at most once    *)
(* and in the order of the request (gateway.ts, runner.ts and executor.ts), *)
(* through second tries, reinjection, lost channels, cancellation, loads of *)
(* the page and stops of the worker, and a call the model was told did not  *)
(* reach the page has dispatched nothing, then or ever. A call is repeated  *)
(* only when nothing of it is under way and nothing was dispatched, and a   *)
(* request at work counts its actions up.                                   *)
THEOREM CallsActOnce == CallSpec => []ActsOnce
<1>1. ASSUME PageInv PROVE ActsOnce
  <2>1. ASSUME NEW c \in ToolCall PROVE
          /\ \A i, j \in DOMAIN acted[c] : i < j => Numbers(c)[i] < Numbers(c)[j]
          /\ answer[c] \in {"not dispatched", "unpatched"} \/ (answer[c] = "stale" /\ tool[c] = "write")
               => acted[c] = <<>>
    <3>1. DeedsFit(c) /\ CallFollows(c)
      BY <1>1 DEF PageInv
    <3>2. \A i, j \in DOMAIN acted[c] : i < j => Numbers(c)[i] < Numbers(c)[j]
      BY <3>1 DEF DeedsFit, Numbers
    <3>3. answer[c] \in {"not dispatched", "unpatched"} \/ (answer[c] = "stale" /\ tool[c] = "write")
            => acted[c] = <<>>
      BY <3>1 DEF CallFollows, Undone
    <3> QED BY <3>2, <3>3
  <2> QED BY <2>1 DEF ActsOnce
<1> QED BY <1>1, CallsHold, PTL

(* PageCalls.ActsAsAgreed: an action reaches the element its ref stands for, *)
(* or the one that alone looks like it, in the document the ref was made in, *)
(* while the dialogs of that document are patched (executor.ts, resolveRef  *)
(* and resolveRefWithRecovery; gateway.ts, #installDialogInterception).     *)
THEOREM CallsActAsAgreed == CallSpec => []ActsAsAgreed
<1>1. ASSUME PageInv PROVE ActsAsAgreed
  BY <1>1 DEF PageInv, DeedsFit, ActsAsAgreed
<1> QED BY <1>1, CallsHold, PTL

(* PageCalls.RestoredUnlessStopped: once no call of the tab is under way,   *)
(* the page has its own dialogs back, unless a restoration failed and the   *)
(* model was told, or the worker stopped (gateway.ts, callContentTool and   *)
(* restoreDialogInterception). Only the call being served holds a patch.    *)
THEOREM DialogsRestored == CallSpec => []RestoredUnlessStopped
<1>1. ASSUME PageInv PROVE RestoredUnlessStopped
  <2> SUFFICES ASSUME Quiet, ~stopped PROVE depth = 0
    BY DEF RestoredUnlessStopped
  <2>1. \A c \in ToolCall : answer[c] # "unrestored" /\ stage[c] \notin Holding
    BY DEF Quiet, Holding
  <2> QED BY <1>1, <2>1 DEF PageInv, PatchesCounted
<1> QED BY <1>1, CallsHold, PTL

-----------------------------------------------------------------------------
(***************************************************************************)
(* The debugger.  A deep ref names the loader its frame had when the       *)
(* capture began and the document its node is in, captured after it; both  *)
(* are documents the tab has already had.  So a ref whose loader is still  *)
(* the tab's document has its node in it.  A call is answered as not       *)
(* dispatched only while it waits, and is then never begun.  What a call   *)
(* sends after a check carries the document of that check; a check that    *)
(* fails is the first one, or the second, before which only the focus was  *)
(* sent.                                                                   *)
(***************************************************************************)
Task == [kind : Kinds \cup {"none"}, tab : DebugTab \cup {NotAttached},
         ref : DeepRef \cup {NoRef}]
Sending == {"pressing", "releasing", "focusing", "keying", "lifting", "inserting"}
DeepStep == {"idle", "queued", "attaching", "checking", "capturing", "reading", "ready",
             "focused", "settling", "done"} \cup Sending
Glance == [epoch : Nat, loader : Nat]
Verdict == {"", "ok", "failed", "stale_ref", "not dispatched", "may have occurred"}
Input == [command : Sending \cup {"plain"}, node : Nat, checked : Nat]

GivenTypes ==
  /\ tabEpoch \in [DebugTab -> Nat] /\ deepGeneration \in [DebugTab -> Nat]
  /\ deepRefs \in SUBSET DeepRef

SessionTypes ==
  /\ work \in [DeepCall -> Task] /\ step \in [DeepCall -> DeepStep]
  /\ seen \in [DeepCall -> Glance] /\ outcome \in [DeepCall -> Verdict]
  /\ typed \in [DeepCall -> Seq(Input)] /\ pageOf \in [DebugTab -> Nat]

(* The document of a ref's node is its loader or a later one. *)
RefFits(r) == r.loader <= r.node /\ r.node <= pageOf[r.tab]

OnlyFocus(c) == \A i \in DOMAIN typed[c] : typed[c][i].command = "focusing"
Unsure == {"attaching", "checking", "ready", "focusing", "focused"}

CallFits(c) ==
  /\ work[c].ref # NoRef => RefFits(work[c].ref)
  /\ work[c].kind \in {"click", "type"} => work[c].ref # NoRef /\ work[c].ref.tab = work[c].tab
  /\ step[c] # "idle" => work[c].tab \in DebugTab /\ seen[c].loader <= pageOf[work[c].tab]
  /\ step[c] = "idle" => seen[c].loader = 0
  /\ step[c] \in {"idle", "queued"} => typed[c] = <<>>
  /\ outcome[c] = "not dispatched" =>
       typed[c] = <<>> /\ (step[c] = "done" \/ (step[c] = "queued" /\ c \in gaveUp))
  /\ step[c] \in Unsure \/ work[c].kind = "read" \/ outcome[c] = "stale_ref" => OnlyFocus(c)
  /\ outcome[c] = "stale_ref" => step[c] = "done"
  /\ step[c] \in Sending => /\ work[c].kind \in {"click", "type"}
                             /\ seen[c].loader = work[c].ref.node
  /\ \A i \in DOMAIN typed[c] : typed[c][i].node = typed[c][i].checked

DeepInv ==
  /\ GivenTypes /\ SessionTypes
  /\ \A r \in deepRefs : RefFits(r)
  /\ \A c \in DeepCall : CallFits(c)

\* A step that changes only the entries of one call.
Only(c) ==
  \A q \in DeepCall : q # c =>
    /\ work'[q] = work[q] /\ step'[q] = step[q] /\ seen'[q] = seen[q]
    /\ outcome'[q] = outcome[q] /\ typed'[q] = typed[q] /\ (q \in gaveUp' <=> q \in gaveUp)

LEMMA CommandIs == DOMAIN Command = Sending
BY DEF Command, Sending

LEMMA CommandLeads ==
  ASSUME NEW q \in Sending
  PROVE  /\ Command[q] \in {"focused", "releasing", "lifting", "inserting", "settling"}
         /\ Command[q] = "focused" => q = "focusing"
<1>1. /\ Command["pressing"] = "releasing" /\ Command["releasing"] = "settling"
      /\ Command["focusing"] = "focused" /\ Command["keying"] = "lifting"
      /\ Command["lifting"] = "inserting" /\ Command["inserting"] = "settling"
  BY DEF Command
<1> QED BY <1>1 DEF Sending

LEMMA RefType ==
  ASSUME NEW r \in DeepRef
  PROVE  r.tab \in DebugTab /\ r.loader \in Nat /\ r.node \in Nat /\ r # NoRef
<1>1. r.tab \in DebugTab /\ r.loader \in Nat /\ r.node \in Nat
  BY DEF DeepRef
<1>2. r.tab # NotAttached /\ NoRef.tab = NotAttached
  BY <1>1, DeepAssumption DEF NoRef
<1> QED BY <1>1, <1>2

LEMMA CallType ==
  ASSUME SessionTypes, NEW c \in DeepCall
  PROVE  /\ work[c].kind \in Kinds \cup {"none"} /\ work[c].tab \in DebugTab \cup {NotAttached}
         /\ work[c].ref \in DeepRef \cup {NoRef}
         /\ seen[c].loader \in Nat /\ seen[c].epoch \in Nat
         /\ typed[c] \in Seq(Input) /\ step[c] \in DeepStep /\ outcome[c] \in Verdict
<1>1. work[c] \in Task /\ seen[c] \in Glance
  BY DEF SessionTypes
<1>2. /\ work[c].kind \in Kinds \cup {"none"} /\ work[c].tab \in DebugTab \cup {NotAttached}
      /\ work[c].ref \in DeepRef \cup {NoRef}
  BY <1>1 DEF Task
<1>3. seen[c].loader \in Nat /\ seen[c].epoch \in Nat
  BY <1>1 DEF Glance
<1>4. typed[c] \in Seq(Input) /\ step[c] \in DeepStep /\ outcome[c] \in Verdict
  BY DEF SessionTypes
<1> QED BY <1>2, <1>3, <1>4

\* The other calls of a step that leaves the tabs as they are, or takes them further.
LEMMA OthersFit ==
  ASSUME DeepInv, NEW c \in DeepCall, Only(c),
         pageOf' \in [DebugTab -> Nat], \A t \in DebugTab : pageOf[t] <= pageOf'[t]
  PROVE  \A q \in DeepCall : q # c => CallFits(q)'
<1> SUFFICES ASSUME NEW q \in DeepCall, q # c PROVE CallFits(q)'
  OBVIOUS
<1>1. CallFits(q) /\ SessionTypes
  BY DEF DeepInv
<1>2. /\ work'[q] = work[q] /\ step'[q] = step[q] /\ seen'[q] = seen[q]
      /\ outcome'[q] = outcome[q] /\ typed'[q] = typed[q] /\ (q \in gaveUp' <=> q \in gaveUp)
  BY DEF Only
<1>3. work[q].ref # NoRef => RefFits(work[q].ref)'
  <2> SUFFICES ASSUME work[q].ref # NoRef PROVE RefFits(work[q].ref)'
    OBVIOUS
  <2>1. work[q].ref \in DeepRef
    BY <1>1, CallType
  <2>2. pageOf[work[q].ref.tab] \in Nat /\ pageOf'[work[q].ref.tab] \in Nat
    BY <2>1, <1>1, RefType DEF SessionTypes
  <2>3. RefFits(work[q].ref)
    BY <1>1 DEF CallFits
  <2>4. /\ work[q].ref.loader \in Nat /\ work[q].ref.node \in Nat
        /\ pageOf[work[q].ref.tab] <= pageOf'[work[q].ref.tab]
    BY <2>1, RefType
  <2> QED BY <1>2, <2>2, <2>3, <2>4 DEF RefFits
<1>4. step[q] # "idle" => seen[q].loader <= pageOf'[work[q].tab]
  <2> SUFFICES ASSUME step[q] # "idle" PROVE seen[q].loader <= pageOf'[work[q].tab]
    OBVIOUS
  <2>1. work[q].tab \in DebugTab /\ seen[q].loader <= pageOf[work[q].tab]
    BY <1>1 DEF CallFits
  <2>2. seen[q].loader \in Nat
    BY <1>1, CallType
  <2>3. pageOf[work[q].tab] \in Nat /\ pageOf'[work[q].tab] \in Nat
    BY <1>1, <2>1 DEF SessionTypes
  <2> QED BY <2>1, <2>2, <2>3
<1> QED BY <1>1, <1>2, <1>3, <1>4 DEF CallFits, RefFits, OnlyFocus

\* The refs still kept.
LEMMA RefsFit ==
  ASSUME DeepInv, NEW R \in SUBSET deepRefs,
         pageOf' \in [DebugTab -> Nat], \A t \in DebugTab : pageOf[t] <= pageOf'[t]
  PROVE  \A r \in R : RefFits(r)'
<1> SUFFICES ASSUME NEW r \in R PROVE RefFits(r)'
  OBVIOUS
<1>1. r \in DeepRef /\ RefFits(r)
  BY DEF DeepInv, GivenTypes
<1>2. pageOf[r.tab] \in Nat /\ pageOf'[r.tab] \in Nat /\ pageOf[r.tab] <= pageOf'[r.tab]
  BY <1>1, RefType DEF DeepInv, SessionTypes
<1> QED BY <1>1, <1>2, RefType DEF RefFits

LEMMA Invalidated ==
  ASSUME GivenTypes, NEW T, Invalidate(T)
  PROVE  GivenTypes' /\ deepRefs' \in SUBSET deepRefs
<1>1. tabEpoch' \in [DebugTab -> Nat] /\ deepGeneration' \in [DebugTab -> Nat]
  BY DEF Invalidate, GivenTypes
<1>2. deepRefs' \in SUBSET deepRefs
  BY DEF Invalidate
<1> QED BY <1>1, <1>2 DEF GivenTypes

\* A step of one call, in parts.
LEMMA CallStep ==
  ASSUME DeepInv, NEW c \in DeepCall, Only(c), SessionTypes', GivenTypes', pageOf' = pageOf,
         deepRefs' \in SUBSET deepRefs \/ \A r \in deepRefs' : RefFits(r)', CallFits(c)'
  PROVE  DeepInv'
<1>1. pageOf' \in [DebugTab -> Nat] /\ \A t \in DebugTab : pageOf[t] <= pageOf'[t]
  BY DEF DeepInv, SessionTypes
<1>2. \A r \in deepRefs' : RefFits(r)'
  BY <1>1, RefsFit
<1>3. \A q \in DeepCall : CallFits(q)'
  BY <1>1, OthersFit
<1> QED BY <1>2, <1>3 DEF DeepInv

\* A step that moves a call on without a word to the model or to the page.
LEMMA CallGoes ==
  ASSUME DeepInv, NEW c \in DeepCall, NEW s \in DeepStep \ {"idle", "queued"}, NEW v \in Glance,
         step[c] \notin {"idle", "queued", "done"},
         step' = [step EXCEPT ![c] = s], seen' = [seen EXCEPT ![c] = v],
         v.loader <= pageOf[work[c].tab], s \in Unsure => step[c] \in Unsure,
         s \in Sending => work[c].kind \in {"click", "type"} /\ v.loader = work[c].ref.node,
         UNCHANGED <<work, gaveUp, outcome, typed, pageOf, tabEpoch, deepGeneration, deepRefs>>
  PROVE  DeepInv'
<1>1. SessionTypes /\ GivenTypes /\ CallFits(c)
  BY DEF DeepInv
<1>2. /\ SessionTypes' /\ GivenTypes' /\ step'[c] = s /\ seen'[c] = v /\ Only(c)
  <2>1. step' \in [DeepCall -> DeepStep] /\ seen' \in [DeepCall -> Glance]
    BY <1>1 DEF SessionTypes
  <2>2. step'[c] = s /\ seen'[c] = v
    BY <1>1 DEF SessionTypes
  <2>3. Only(c)
    BY <1>1 DEF SessionTypes, Only
  <2> QED BY <1>1, <2>1, <2>2, <2>3 DEF SessionTypes, GivenTypes
<1>3. CallFits(c)'
  BY <1>1, <1>2 DEF CallFits, RefFits, OnlyFocus
<1> QED BY <1>2, <1>3, CallStep

LEMMA DeepEnds ==
  ASSUME DeepInv, NEW c \in DeepCall, step[c] \notin {"idle", "queued"},
         NEW what \in {"ok", "failed", "stale_ref"}, Ends(c, what), GivenTypes',
         what = "stale_ref" => OnlyFocus(c),
         deepRefs' \in SUBSET deepRefs \/ \A r \in deepRefs' : RefFits(r)'
  PROVE  DeepInv'
<1>1. SessionTypes /\ CallFits(c)
  BY DEF DeepInv
<1> DEFINE said == IF outcome[c] # "" THEN outcome[c]
                   ELSE IF what = "ok" /\ c \in gaveUp
                   THEN IF work[c].kind = "read" THEN "failed" ELSE "may have occurred"
                   ELSE what
           none == [epoch |-> 0, loader |-> 0]
<1>2. /\ said \in Verdict /\ (said = "not dispatched" => outcome[c] = "not dispatched")
      /\ said = "stale_ref" => OnlyFocus(c)
  BY <1>1, CallType DEF Verdict, CallFits
<1>3. none \in Glance /\ none.loader = 0 /\ "done" \in DeepStep
  BY DEF Glance, DeepStep
<1>4. /\ step' = [step EXCEPT ![c] = "done"] /\ seen' = [seen EXCEPT ![c] = none]
      /\ outcome' = [outcome EXCEPT ![c] = said] /\ gaveUp' = gaveUp \ {c}
      /\ UNCHANGED <<work, pageOf, typed>>
  BY DEF Ends, around
<1> HIDE DEF said, none
<1>5. SessionTypes'
  <2>1. step' \in [DeepCall -> DeepStep] /\ seen' \in [DeepCall -> Glance]
        /\ outcome' \in [DeepCall -> Verdict]
    BY <1>1, <1>2, <1>3, <1>4 DEF SessionTypes
  <2> QED BY <1>1, <1>4, <2>1 DEF SessionTypes
<1>6. Only(c)
  BY <1>1, <1>4 DEF SessionTypes, Only
<1>7. step'[c] = "done" /\ seen'[c] = none /\ outcome'[c] = said
  BY <1>1, <1>4 DEF SessionTypes
<1>8. step[c] # "idle" => none.loader <= pageOf[work[c].tab]
  <2>1. step[c] # "idle" => pageOf[work[c].tab] \in Nat
    BY <1>1 DEF CallFits, SessionTypes
  <2> QED BY <2>1, <1>3
<1>9. CallFits(c)'
  BY <1>1, <1>2, <1>4, <1>7, <1>8 DEF CallFits, RefFits, OnlyFocus, Unsure, Sending
<1> QED BY <1>4, <1>5, <1>6, <1>9, CallStep

LEMMA Distrusted ==
  ASSUME DeepInv, NEW c \in DeepCall, step[c] \in {"checking", "ready", "focused"}, Distrust(c)
  PROVE  DeepInv'
<1>1. Ends(c, "stale_ref") /\ GivenTypes /\ OnlyFocus(c)
  BY DEF Distrust, DeepInv, CallFits, Unsure
<1>2. GivenTypes' /\ deepRefs' \in SUBSET deepRefs
  <2>1. CASE work[c].ref \in deepRefs
    BY <1>1, <2>1, Invalidated DEF Distrust
  <2>2. CASE work[c].ref \notin deepRefs
    BY <1>1, <2>2 DEF Distrust, given, GivenTypes
  <2> QED BY <2>1, <2>2
<1> QED BY <1>1, <1>2, DeepEnds

-----------------------------------------------------------------------------
\* The actions.

LEMMA DeepStarts == ASSUME DeepInit PROVE DeepInv
<1>1. GivenTypes /\ \A r \in deepRefs : RefFits(r)
  BY DEF DeepInit, GivenTypes
<1> DEFINE rest == [kind |-> "none", tab |-> NotAttached, ref |-> NoRef]
           none == [epoch |-> 0, loader |-> 0]
<1>2. rest \in Task /\ none \in Glance /\ none.loader = 0 /\ rest.ref = NoRef /\ rest.kind = "none"
  BY DEF Task, Glance
<1>3. /\ work = [c \in DeepCall |-> rest] /\ seen = [c \in DeepCall |-> none]
      /\ step = [c \in DeepCall |-> "idle"] /\ outcome = [c \in DeepCall |-> ""]
      /\ typed = [c \in DeepCall |-> <<>>] /\ pageOf = [t \in DebugTab |-> 1]
  BY DEF DeepInit
<1> HIDE DEF rest, none
<1>4. SessionTypes
  <2>1. work \in [DeepCall -> Task] /\ seen \in [DeepCall -> Glance]
    BY <1>2, <1>3
  <2>2. step \in [DeepCall -> DeepStep] /\ outcome \in [DeepCall -> Verdict]
    BY <1>3 DEF DeepStep, Verdict
  <2>3. typed \in [DeepCall -> Seq(Input)] /\ pageOf \in [DebugTab -> Nat]
    BY <1>3, EmptySeq
  <2> QED BY <2>1, <2>2, <2>3 DEF SessionTypes
<1>5. ASSUME NEW c \in DeepCall PROVE CallFits(c)
  <2>1. work[c] = rest /\ seen[c] = none /\ step[c] = "idle" /\ outcome[c] = "" /\ typed[c] = <<>>
    BY <1>3
  <2>2. DOMAIN typed[c] = {}
    <3>1. typed[c] \in Seq(Input) /\ Len(typed[c]) = 0
      BY <2>1, EmptySeq
    <3> QED BY <3>1
  <2> QED BY <1>2, <2>1, <2>2 DEF CallFits, OnlyFocus, Sending
<1> QED BY <1>1, <1>4, <1>5 DEF DeepInv

LEMMA DeepAsked ==
  ASSUME DeepInv, NEW c \in DeepCall, NEW kind \in Kinds, NEW t \in DebugTab,
         NEW r \in KnownRefs, Ask(c, kind, t, r)
  PROVE  DeepInv'
<1> DEFINE task == [kind |-> kind, tab |-> t, ref |-> r]
<1>1. SessionTypes /\ CallFits(c) /\ GivenTypes /\ step[c] = "idle"
  BY DEF DeepInv, Ask
<1>2. r \in DeepRef \cup {NoRef} /\ (r # NoRef => RefFits(r))
  <2>1. CASE r \in deepRefs
    BY <2>1 DEF DeepInv, GivenTypes
  <2>2. CASE \E d \in DeepCall : r = work[d].ref
    <3>1. PICK d \in DeepCall : r = work[d].ref
      BY <2>2
    <3> QED BY <1>1, <3>1, CallType DEF DeepInv, CallFits
  <2> QED BY <2>1, <2>2 DEF KnownRefs
<1>3. /\ task \in Task /\ task.kind = kind /\ task.tab = t /\ task.ref = r
      /\ (kind \in {"click", "type"} => r # NoRef /\ r.tab = t)
  BY <1>2 DEF Task, Ask
<1>4. /\ work' = [work EXCEPT ![c] = task] /\ step' = [step EXCEPT ![c] = "queued"]
      /\ UNCHANGED <<gaveUp, seen, outcome, tabEpoch, deepGeneration, deepRefs, pageOf, typed>>
  BY DEF Ask, given, around
<1> HIDE DEF task
<1>5. SessionTypes' /\ GivenTypes'
  <2>1. work' \in [DeepCall -> Task] /\ step' \in [DeepCall -> DeepStep]
    BY <1>1, <1>3, <1>4 DEF SessionTypes, DeepStep
  <2> QED BY <1>1, <1>4, <2>1 DEF SessionTypes, GivenTypes
<1>6. Only(c) /\ work'[c] = task /\ step'[c] = "queued"
  BY <1>1, <1>4 DEF SessionTypes, Only
<1>7. seen[c].loader = 0 /\ pageOf[t] \in Nat /\ typed[c] = <<>> /\ outcome[c] # "not dispatched"
  BY <1>1 DEF CallFits, SessionTypes
<1>8. CallFits(c)'
  <2>1. r # NoRef => RefFits(r)'
    BY <1>2, <1>4 DEF RefFits
  <2>2. work'[c].ref = r /\ work'[c].kind = kind /\ work'[c].tab = t
    BY <1>3, <1>6
  <2>3. seen'[c].loader <= pageOf'[t]
    <3>1. seen'[c].loader = 0 /\ pageOf'[t] \in Nat
      BY <1>4, <1>7
    <3> QED BY <3>1
  <2>4. /\ typed'[c] = typed[c] /\ outcome'[c] # "not dispatched"
        /\ \A i \in DOMAIN typed[c] : typed[c][i].node = typed[c][i].checked
    BY <1>1, <1>4, <1>7 DEF CallFits
  <2>5. outcome'[c] # "stale_ref" /\ step'[c] \notin Sending /\ OnlyFocus(c)'
    <3>1. outcome'[c] # "stale_ref" /\ step'[c] \notin Sending
      BY <1>1, <1>4, <1>6 DEF CallFits, Sending
    <3>2. typed'[c] = <<>> /\ DOMAIN typed'[c] = {}
      <4>1. typed'[c] = <<>> /\ typed'[c] \in Seq(Input) /\ Len(typed'[c]) = 0
        BY <1>4, <1>7, EmptySeq
      <4> QED BY <4>1
    <3> QED BY <3>1, <3>2 DEF OnlyFocus
  <2> QED BY <1>3, <1>6, <1>7, <2>1, <2>2, <2>3, <2>4, <2>5 DEF CallFits
<1> QED BY <1>4, <1>5, <1>6, <1>8, CallStep

LEMMA DeepAborted ==
  ASSUME DeepInv, NEW c \in DeepCall, Abort(c) PROVE DeepInv'
<1>1. SessionTypes /\ CallFits(c) /\ GivenTypes /\ step[c] # "idle"
  BY DEF DeepInv, Abort
<1>2. /\ gaveUp' = gaveUp \cup {c}
      /\ UNCHANGED <<work, step, seen, tabEpoch, deepGeneration, deepRefs, pageOf, typed>>
  BY DEF Abort, given, around
<1>3. /\ outcome' \in [DeepCall -> Verdict] /\ \A q \in DeepCall : q # c => outcome'[q] = outcome[q]
      /\ outcome'[c] = "not dispatched" => outcome[c] = "not dispatched" \/ step[c] = "queued"
      /\ outcome'[c] = "stale_ref" => outcome[c] = "stale_ref"
  <2>1. CASE step[c] = "queued"
    BY <1>1, <2>1 DEF Abort, Unstarted, SessionTypes, Verdict
  <2>2. CASE step[c] # "queued"
    BY <1>1, <2>2 DEF Abort, Unstarted, SessionTypes
  <2> QED BY <2>1, <2>2
<1>4. SessionTypes' /\ GivenTypes' /\ Only(c)
  BY <1>1, <1>2, <1>3 DEF SessionTypes, GivenTypes, Only
<1>5. CallFits(c)'
  BY <1>1, <1>2, <1>3 DEF CallFits, RefFits, OnlyFocus
<1> QED BY <1>2, <1>4, <1>5, CallStep

\* Where the queue goes on with nothing said or sent.
LEMMA CallQuits ==
  ASSUME DeepInv, NEW c \in DeepCall, step[c] # "idle",
         step[c] = "queued" => c \in gaveUp,
         step' = [step EXCEPT ![c] = "done"], NEW o \in {"", "failed"},
         outcome' = outcome \/ outcome' = [outcome EXCEPT ![c] = o],
         UNCHANGED <<work, gaveUp, seen, typed, pageOf, tabEpoch, deepGeneration, deepRefs>>
  PROVE  DeepInv'
<1>1. SessionTypes /\ CallFits(c) /\ GivenTypes
  BY DEF DeepInv
<1>2. outcome' \in [DeepCall -> Verdict] /\ step' \in [DeepCall -> DeepStep]
  BY <1>1 DEF SessionTypes, Verdict, DeepStep
<1>3. /\ step'[c] = "done" /\ (outcome'[c] = "not dispatched" => outcome[c] = "not dispatched")
      /\ (outcome'[c] = "stale_ref" => outcome[c] = "stale_ref")
      /\ Only(c)
  BY <1>1 DEF SessionTypes, Only
<1>4. SessionTypes' /\ GivenTypes'
  BY <1>1, <1>2 DEF SessionTypes, GivenTypes
<1>5. CallFits(c)'
  BY <1>1, <1>3 DEF CallFits, RefFits, OnlyFocus, Unsure, Sending
<1> QED BY <1>3, <1>4, <1>5, CallStep

LEMMA DeepStarted ==
  ASSUME DeepInv, NEW c \in DeepCall, Start(c) PROVE DeepInv'
<1>1. SessionTypes /\ CallFits(c) /\ GivenTypes /\ step[c] = "queued"
  BY DEF DeepInv, Start, At
<1>2. UNCHANGED <<work, gaveUp, seen, outcome, pageOf, typed>>
  BY DEF Start, around
<1>3. CASE c \in gaveUp
  <2>1. step' = [step EXCEPT ![c] = "done"] /\ UNCHANGED <<tabEpoch, deepGeneration, deepRefs>>
    BY <1>3 DEF Start, MayStart, given
  <2> QED BY <1>1, <1>2, <1>3, <2>1, CallQuits
<1>4. CASE c \notin gaveUp
  <2>1. step' = [step EXCEPT ![c] = "attaching"]
    BY <1>4 DEF Start, MayStart
  <2>2. GivenTypes' /\ deepRefs' \in SUBSET deepRefs
    <3>1. CASE attachedTo \in {Target(c), NotAttached}
      BY <1>1, <1>4, <3>1 DEF Start, MayStart, given, GivenTypes
    <3>2. CASE attachedTo \notin {Target(c), NotAttached}
      BY <1>1, <1>4, <3>2, Invalidated DEF Start, MayStart
    <3> QED BY <3>1, <3>2
  <2>3. step' \in [DeepCall -> DeepStep] /\ step'[c] = "attaching" /\ Only(c)
    BY <1>1, <1>2, <2>1 DEF SessionTypes, Only, DeepStep
  <2>4. SessionTypes'
    BY <1>1, <1>2, <2>3 DEF SessionTypes
  <2>5. CallFits(c)'
    <3>1. typed[c] = <<>> /\ OnlyFocus(c)
      <4>1. typed[c] = <<>> /\ typed[c] \in Seq(Input) /\ Len(typed[c]) = 0
        BY <1>1, CallType, EmptySeq DEF CallFits
      <4>2. DOMAIN typed[c] = {}
        BY <4>1
      <4> QED BY <4>1, <4>2 DEF OnlyFocus
    <3> QED BY <1>1, <1>2, <1>4, <2>3, <3>1 DEF CallFits, RefFits, OnlyFocus, Unsure, Sending
  <2> QED BY <1>2, <2>2, <2>3, <2>4, <2>5, CallStep
<1> QED BY <1>3, <1>4

LEMMA DeepAttached ==
  ASSUME DeepInv, NEW c \in DeepCall, Attached(c) PROVE DeepInv'
<1>1. SessionTypes /\ CallFits(c) /\ GivenTypes /\ step[c] = "attaching"
  BY DEF DeepInv, Attached, At
<1>2. UNCHANGED <<work, gaveUp, pageOf, typed, tabEpoch, deepGeneration, deepRefs>>
  BY DEF Attached, around, given
<1>3. CASE c \in gaveUp
  <2>1. step' = [step EXCEPT ![c] = "done"] /\ outcome' = [outcome EXCEPT ![c] = "failed"]
        /\ seen' = seen
    BY <1>3 DEF Attached
  <2> QED BY <1>1, <1>2, <2>1, CallQuits
<1>4. CASE c \notin gaveUp
  <2> DEFINE s == CASE work[c].kind = "read" -> "capturing"
                    [] work[c].kind = "plain" -> "ready"
                    [] OTHER -> "checking"
             v == [seen[c] EXCEPT !.epoch = tabEpoch[Target(c)]]
  <2>1. step' = [step EXCEPT ![c] = s] /\ seen' = [seen EXCEPT ![c] = v] /\ outcome' = outcome
    BY <1>4 DEF Attached
  <2>2. s \in DeepStep \ {"idle", "queued"} /\ s \notin Sending /\ step[c] \in Unsure
    BY <1>1 DEF DeepStep, Sending, Unsure
  <2>3. v \in Glance /\ v.loader = seen[c].loader
    <3>1. seen[c] \in Glance /\ tabEpoch[Target(c)] \in Nat
      BY <1>1 DEF SessionTypes, GivenTypes, CallFits, Target
    <3> QED BY <3>1 DEF Glance
  <2>4. v.loader <= pageOf[work[c].tab]
    BY <1>1, <2>3 DEF CallFits
  <2> HIDE DEF s, v
  <2> QED BY <1>1, <1>2, <2>1, <2>2, <2>3, <2>4, CallGoes
<1> QED BY <1>3, <1>4

LEMMA DeepUnattached ==
  ASSUME DeepInv, NEW c \in DeepCall, AttachFails(c) PROVE DeepInv'
<1>1. /\ step[c] = "attaching" /\ step' = [step EXCEPT ![c] = "done"]
      /\ outcome' = [outcome EXCEPT ![c] = "failed"]
      /\ UNCHANGED <<work, gaveUp, seen, pageOf, typed, tabEpoch, deepGeneration, deepRefs>>
  BY DEF AttachFails, At, around, given
<1> QED BY <1>1, CallQuits

LEMMA DeepCaptures ==
  ASSUME DeepInv, NEW c \in DeepCall, CaptureContext(c) \/ CaptureEpoch(c) PROVE DeepInv'
<1>1. SessionTypes /\ CallFits(c) /\ GivenTypes /\ step[c] \in {"capturing", "reading"}
  BY DEF DeepInv, CaptureContext, CaptureEpoch, At
<1>2. UNCHANGED <<work, gaveUp, outcome, pageOf, typed, tabEpoch, deepGeneration, deepRefs>>
  BY DEF CaptureContext, CaptureEpoch, around, given
<1>3. work[c].tab \in DebugTab /\ pageOf[work[c].tab] \in Nat /\ tabEpoch[work[c].tab] \in Nat
      /\ seen[c] \in Glance /\ seen[c].loader <= pageOf[work[c].tab]
  BY <1>1 DEF CallFits, SessionTypes, GivenTypes
<1>4. CASE CaptureContext(c)
  <2> DEFINE v == [seen[c] EXCEPT !.loader = pageOf[work[c].tab]]
  <2>1. seen' = [seen EXCEPT ![c] = v] /\ step' = [step EXCEPT ![c] = "reading"]
    BY <1>4 DEF CaptureContext, Target
  <2>2. v \in Glance /\ v.loader <= pageOf[work[c].tab]
    BY <1>3 DEF Glance
  <2>3. "reading" \in DeepStep \ ({"idle", "queued"} \cup Unsure \cup Sending)
    BY DEF DeepStep, Sending, Unsure
  <2> HIDE DEF v
  <2> QED BY <1>1, <1>2, <1>3, <2>1, <2>2, <2>3, CallGoes
<1>5. CASE CaptureEpoch(c)
  <2> DEFINE v == [seen[c] EXCEPT !.epoch = tabEpoch[work[c].tab]]
  <2>1. seen' = [seen EXCEPT ![c] = v] /\ step' = [step EXCEPT ![c] = "settling"]
    BY <1>5 DEF CaptureEpoch, Target
  <2>2. v \in Glance /\ v.loader = seen[c].loader
    BY <1>3 DEF Glance
  <2>3. "settling" \in DeepStep \ ({"idle", "queued"} \cup Unsure \cup Sending)
    BY DEF DeepStep, Sending, Unsure
  <2> HIDE DEF v
  <2> QED BY <1>1, <1>2, <1>3, <2>1, <2>2, <2>3, CallGoes
<1> QED BY <1>4, <1>5

LEMMA DeepPublishes ==
  ASSUME DeepInv, NEW c \in DeepCall, PublishRefs(c) PROVE DeepInv'
<1> DEFINE t == work[c].tab
           g == deepGeneration[t] + 1
<1>1. SessionTypes /\ CallFits(c) /\ GivenTypes /\ step[c] = "settling"
  BY DEF DeepInv, PublishRefs, At
<1>2. /\ t \in DebugTab /\ pageOf[t] \in Nat /\ tabEpoch[t] \in Nat /\ g \in Nat
      /\ seen[c].loader \in Nat /\ seen[c].loader <= pageOf[t]
  <2>1. t \in DebugTab /\ seen[c].loader <= pageOf[t]
    BY <1>1 DEF CallFits
  <2>2. pageOf[t] \in Nat /\ tabEpoch[t] \in Nat /\ g \in Nat
    BY <1>1, <2>1 DEF SessionTypes, GivenTypes
  <2>3. seen[c].loader \in Nat
    BY <1>1, CallType
  <2> QED BY <2>1, <2>2, <2>3
<1>3. CASE tabEpoch[t] # seen[c].epoch
  <2>1. Ends(c, "stale_ref") /\ UNCHANGED <<tabEpoch, deepGeneration, deepRefs>> /\ OnlyFocus(c)
    BY <1>1, <1>3 DEF PublishRefs, Target, given, CallFits
  <2> QED BY <1>1, <2>1, DeepEnds DEF GivenTypes
<1>4. CASE tabEpoch[t] = seen[c].epoch
  <2> PICK ref : ref = [tab |-> t, epoch |-> tabEpoch[t], generation |-> g,
                        loader |-> seen[c].loader, node |-> pageOf[t]]
    OBVIOUS
  <2>1. /\ Ends(c, "ok") /\ tabEpoch' = tabEpoch /\ deepGeneration' = [deepGeneration EXCEPT ![t] = g]
        /\ deepRefs' = {r \in deepRefs : r.tab # t} \cup {ref}
    BY <1>4 DEF PublishRefs, Target
  <2>2. pageOf' = pageOf
    BY <2>1 DEF Ends, around
  <2>3. ref \in DeepRef /\ ref.loader = seen[c].loader /\ ref.node = pageOf[t] /\ ref.tab = t
    BY <1>2 DEF DeepRef
  <2>4. RefFits(ref)'
    BY <1>2, <2>2, <2>3 DEF RefFits
  <2> HIDE DEF g
  <2>5. GivenTypes'
    <3>1. deepGeneration' \in [DebugTab -> Nat]
      BY <1>1, <1>2, <2>1 DEF GivenTypes
    <3> QED BY <1>1, <2>1, <2>3, <3>1 DEF GivenTypes
  <2>6. \A r \in deepRefs' : RefFits(r)'
    <3>1. ASSUME NEW r \in deepRefs PROVE RefFits(r)'
      BY <2>2 DEF DeepInv, RefFits
    <3> QED BY <2>1, <2>4, <3>1
  <2> QED BY <1>1, <2>1, <2>5, <2>6, DeepEnds
<1> QED BY <1>3, <1>4

LEMMA DeepChecks ==
  ASSUME DeepInv, NEW c \in DeepCall, CheckRef(c) PROVE DeepInv'
<1>1. SessionTypes /\ CallFits(c) /\ GivenTypes /\ step[c] = "checking"
  BY DEF DeepInv, CheckRef, At
<1>2. CASE Trusted(work[c].ref)
  <2> DEFINE v == [seen[c] EXCEPT !.loader = pageOf[work[c].tab]]
  <2>1. /\ seen' = [seen EXCEPT ![c] = v] /\ step' = [step EXCEPT ![c] = "ready"]
        /\ UNCHANGED <<work, gaveUp, outcome, pageOf, typed, tabEpoch, deepGeneration, deepRefs>>
    BY <1>2 DEF CheckRef, Target, around, given
  <2>2. v \in Glance /\ v.loader = pageOf[work[c].tab] /\ v.loader <= pageOf[work[c].tab]
    <3>1. pageOf[work[c].tab] \in Nat /\ seen[c] \in Glance
      BY <1>1 DEF CallFits, SessionTypes
    <3> QED BY <3>1 DEF Glance
  <2>3. "ready" \in DeepStep \ ({"idle", "queued"} \cup Sending) /\ step[c] \in Unsure
    BY <1>1 DEF DeepStep, Sending, Unsure
  <2> HIDE DEF v
  <2> QED BY <1>1, <2>1, <2>2, <2>3, CallGoes
<1>3. CASE ~Trusted(work[c].ref)
  BY <1>1, <1>3, Distrusted DEF CheckRef
<1> QED BY <1>2, <1>3

\* What is sent carries the document that was checked last.
LEMMA CallSends ==
  ASSUME DeepInv, NEW c \in DeepCall,
         NEW s \in {"focused", "releasing", "lifting", "inserting", "settling"},
         step[c] \in Sending \cup {"ready"}, work[c].kind # "read",
         NEW word \in Input, word.node = word.checked,
         s = "focused" => step[c] = "focusing" /\ word.command = "focusing",
         s \in Sending => step[c] \in Sending,
         typed' = [typed EXCEPT ![c] = Append(@, word)], step' = [step EXCEPT ![c] = s],
         UNCHANGED <<work, gaveUp, seen, outcome, pageOf, tabEpoch, deepGeneration, deepRefs>>
  PROVE  DeepInv'
<1>1. SessionTypes /\ CallFits(c) /\ GivenTypes /\ typed[c] \in Seq(Input)
  BY CallType DEF DeepInv
<1>2. typed' \in [DeepCall -> Seq(Input)] /\ step' \in [DeepCall -> DeepStep]
  <2>1. Append(typed[c], word) \in Seq(Input) /\ s \in DeepStep
    BY <1>1 DEF DeepStep, Sending
  <2> QED BY <1>1, <2>1 DEF SessionTypes
<1>3. step'[c] = s /\ typed'[c] = Append(typed[c], word) /\ Only(c)
  BY <1>1 DEF SessionTypes, Only
<1>4. ASSUME NEW i \in DOMAIN typed'[c]
      PROVE  \/ typed'[c][i] = word
             \/ i \in DOMAIN typed[c] /\ typed'[c][i] = typed[c][i]
  <2>1. i \in 1..Len(typed[c]) + 1 /\ DOMAIN typed[c] = 1..Len(typed[c])
    BY <1>1, <1>3
  <2>2. CASE i = Len(typed[c]) + 1
    BY <1>1, <1>3, <2>2
  <2>3. CASE i # Len(typed[c]) + 1
    BY <1>1, <1>3, <2>1, <2>3
  <2> QED BY <2>1, <2>2, <2>3
<1>5. \A i \in DOMAIN typed'[c] : typed'[c][i].node = typed'[c][i].checked
  BY <1>1, <1>4 DEF CallFits
<1>6. SessionTypes' /\ GivenTypes'
  BY <1>1, <1>2 DEF SessionTypes, GivenTypes
<1>7. outcome[c] \notin {"not dispatched", "stale_ref"}
  BY <1>1 DEF CallFits, Sending
<1>8. s \in Unsure => OnlyFocus(c)'
  <2>1. s \in Unsure => s = "focused"
    BY DEF Unsure
  <2>2. s = "focused" => OnlyFocus(c) /\ word.command = "focusing"
    BY <1>1 DEF CallFits, Unsure
  <2> QED BY <1>4, <2>1, <2>2 DEF OnlyFocus
<1>9. /\ s \notin {"idle", "queued"} /\ step[c] # "idle"
      /\ s \in Sending => work[c].kind \in {"click", "type"} /\ seen[c].loader = work[c].ref.node
  BY <1>1 DEF CallFits, Sending
<1>10. CallFits(c)'
  <2>1. /\ work[c].ref # NoRef => RefFits(work[c].ref)'
        /\ work[c].kind \in {"click", "type"} => work[c].ref # NoRef /\ work[c].ref.tab = work[c].tab
        /\ work[c].tab \in DebugTab /\ seen[c].loader <= pageOf[work[c].tab]
    BY <1>1, <1>9 DEF CallFits, RefFits
  <2> QED BY <1>3, <1>5, <1>7, <1>8, <1>9, <2>1 DEF CallFits
<1> QED BY <1>3, <1>6, <1>10, CallStep

\* A ref that has passed a check.
LEMMA Passed ==
  ASSUME DeepInv, NEW c \in DeepCall, ReadyForWrite(c), step[c] # "idle",
         work[c].kind \in {"click", "type"}
  PROVE  work[c].ref.node = pageOf[work[c].tab] /\ pageOf[work[c].tab] \in Nat
<1> DEFINE t == work[c].tab
<1>1. SessionTypes /\ CallFits(c)
  BY DEF DeepInv
<1>2. work[c].ref # NoRef /\ work[c].ref.tab = t /\ t \in DebugTab /\ pageOf[t] \in Nat
  BY <1>1 DEF CallFits, SessionTypes
<1>3. work[c].ref \in DeepRef /\ work[c].ref.node \in Nat /\ work[c].ref.loader \in Nat
  BY <1>1, <1>2, CallType, RefType
<1>4. work[c].ref.loader = pageOf[t] /\ RefFits(work[c].ref)
  BY <1>1, <1>2 DEF ReadyForWrite, Trusted, CallFits
<1> QED BY <1>2, <1>3, <1>4 DEF RefFits

LEMMA DeepVerifies ==
  ASSUME DeepInv, NEW c \in DeepCall, Verify(c) PROVE DeepInv'
<1>1. /\ SessionTypes /\ CallFits(c) /\ step[c] \in {"ready", "focused"}
      /\ work[c].kind \in {"click", "type"}
  BY DEF DeepInv, Verify
<1>2. CASE ReadyForWrite(c)
  <2> DEFINE v == [seen[c] EXCEPT !.loader = pageOf[work[c].tab]]
             s == IF work[c].kind = "click" THEN "pressing"
                  ELSE IF step[c] = "ready" THEN "focusing" ELSE "keying"
  <2>1. /\ seen' = [seen EXCEPT ![c] = v] /\ step' = [step EXCEPT ![c] = s]
        /\ UNCHANGED <<work, gaveUp, outcome, pageOf, typed, tabEpoch, deepGeneration, deepRefs>>
    BY <1>1, <1>2 DEF Verify, Target, around, given, SessionTypes
  <2>2. work[c].ref.node = pageOf[work[c].tab] /\ pageOf[work[c].tab] \in Nat
    BY <1>1, <1>2, Passed
  <2>3. /\ v \in Glance /\ v.loader = pageOf[work[c].tab] /\ v.loader <= pageOf[work[c].tab]
        /\ v.loader = work[c].ref.node
    <3>1. seen[c] \in Glance
      BY <1>1 DEF SessionTypes
    <3>2. v \in Glance /\ v.loader = pageOf[work[c].tab]
      BY <2>2, <3>1 DEF Glance
    <3> QED BY <2>2, <3>2
  <2>4. s \in DeepStep \ {"idle", "queued"} /\ (s \in Unsure => step[c] \in Unsure)
    BY <1>1 DEF DeepStep, Sending, Unsure
  <2>5. step[c] \notin {"idle", "queued", "done"}
    BY <1>1
  <2> HIDE DEF v, s
  <2> QED BY <1>1, <2>1, <2>3, <2>4, <2>5, CallGoes
<1>3. CASE ~ReadyForWrite(c)
  BY <1>1, <1>3, Distrusted DEF Verify
<1> QED BY <1>2, <1>3

LEMMA DeepDispatches ==
  ASSUME DeepInv, NEW c \in DeepCall, Dispatch(c) PROVE DeepInv'
<1> DEFINE word == [command |-> step[c], node |-> work[c].ref.node, checked |-> seen[c].loader]
           s == Command[step[c]]
<1>1. SessionTypes /\ CallFits(c) /\ step[c] \in Sending
  BY CommandIs DEF DeepInv, Dispatch
<1>2. /\ typed' = [typed EXCEPT ![c] = Append(@, word)] /\ step' = [step EXCEPT ![c] = s]
      /\ UNCHANGED <<work, gaveUp, seen, outcome, pageOf, tabEpoch, deepGeneration, deepRefs>>
  BY <1>1 DEF Dispatch, Sends, around, given, SessionTypes
<1>3. work[c].kind \in {"click", "type"} /\ seen[c].loader = work[c].ref.node
      /\ seen[c].loader \in Nat
  BY <1>1, CallType DEF CallFits
<1>4. word \in Input /\ word.node = word.checked /\ word.command = step[c]
  BY <1>1, <1>3 DEF Input
<1>5. /\ s \in {"focused", "releasing", "lifting", "inserting", "settling"}
      /\ s = "focused" => step[c] = "focusing"
  BY <1>1, CommandLeads
<1>6. s \in Sending => step[c] \in Sending
  BY <1>1
<1>7. work[c].kind # "read" /\ (s = "focused" => word.command = "focusing")
  BY <1>3, <1>4, <1>5
<1> HIDE DEF word, s
<1> QED BY <1>1, <1>2, <1>4, <1>5, <1>6, <1>7, CallSends

LEMMA DeepTypesPlainly ==
  ASSUME DeepInv, NEW c \in DeepCall, DispatchPlain(c) PROVE DeepInv'
<1> DEFINE word == [command |-> "plain", node |-> 0, checked |-> 0]
<1>1. /\ step[c] = "ready" /\ typed' = [typed EXCEPT ![c] = Append(@, word)]
      /\ step' = [step EXCEPT ![c] = "settling"] /\ work[c].kind # "read"
      /\ UNCHANGED <<work, gaveUp, seen, outcome, pageOf, tabEpoch, deepGeneration, deepRefs>>
  BY DEF DispatchPlain, At, around, given
<1>2. word \in Input /\ word.node = word.checked /\ "settling" \notin Sending
  BY DEF Input, Sending
<1> HIDE DEF word
<1> QED BY <1>1, <1>2, CallSends

LEMMA DeepSettles ==
  ASSUME DeepInv, NEW c \in DeepCall, Settle(c) \/ BreakOff(c) PROVE DeepInv'
<1>1. /\ step[c] \notin {"idle", "queued"} /\ UNCHANGED <<tabEpoch, deepGeneration, deepRefs>>
      /\ (Ends(c, "ok") \/ Ends(c, "failed")) /\ GivenTypes
  BY CommandIs DEF Sending, Settle, BreakOff, At, given, DeepInv
<1>2. GivenTypes' /\ deepRefs' \in SUBSET deepRefs
  BY <1>1 DEF GivenTypes
<1> QED BY <1>1, <1>2, DeepEnds

\* The browser changes nothing of a call.
LEMMA BrowserIntervenes ==
  ASSUME DeepInv, UNCHANGED <<work, step, gaveUp, seen, outcome, typed>>, GivenTypes',
         deepRefs' \in SUBSET deepRefs,
         pageOf' \in [DebugTab -> Nat], \A t \in DebugTab : pageOf[t] <= pageOf'[t]
  PROVE  DeepInv'
<1>1. SessionTypes'
  BY DEF DeepInv, SessionTypes
<1>2. ASSUME NEW c \in DeepCall PROVE CallFits(c)'
  <2>1. /\ CallFits(c) /\ SessionTypes
    BY DEF DeepInv
  <2>2. work[c].ref # NoRef => RefFits(work[c].ref)'
    <3> SUFFICES ASSUME work[c].ref # NoRef PROVE RefFits(work[c].ref)'
      OBVIOUS
    <3>1. work[c].ref \in DeepRef /\ RefFits(work[c].ref)
      BY <2>1, CallType DEF CallFits
    <3>2. /\ pageOf[work[c].ref.tab] \in Nat /\ pageOf'[work[c].ref.tab] \in Nat
          /\ pageOf[work[c].ref.tab] <= pageOf'[work[c].ref.tab]
      BY <2>1, <3>1, RefType DEF SessionTypes
    <3> QED BY <3>1, <3>2, RefType DEF RefFits
  <2>3. step[c] # "idle" => seen[c].loader <= pageOf'[work[c].tab]
    <3> SUFFICES ASSUME step[c] # "idle" PROVE seen[c].loader <= pageOf'[work[c].tab]
      OBVIOUS
    <3>1. work[c].tab \in DebugTab /\ seen[c].loader <= pageOf[work[c].tab] /\ seen[c].loader \in Nat
      BY <2>1, CallType DEF CallFits
    <3>2. /\ pageOf[work[c].tab] \in Nat /\ pageOf'[work[c].tab] \in Nat
          /\ pageOf[work[c].tab] <= pageOf'[work[c].tab]
      BY <2>1, <3>1 DEF SessionTypes
    <3> QED BY <3>1, <3>2
  <2> QED BY <2>1, <2>2, <2>3 DEF CallFits, RefFits, OnlyFocus
<1> QED BY <1>1, <1>2, RefsFit DEF DeepInv

\* Input for a deep ref follows a check at which the tab showed the document the ref's
\* control is in, whatever is navigated in between; a call answered with stale_ref has at
\* most focused the control, and one answered as not dispatched sends nothing
\* (tools/cdp/debugger.ts).
THEOREM DeepInputGoesRight == DeepSpec => []DeepWritesRight
<1>1. DeepInit => DeepInv
  BY DeepStarts
<1>2. DeepInv /\ [DeepNext]_deepVars => DeepInv'
  <2> SUFFICES ASSUME DeepInv, [DeepNext]_deepVars PROVE DeepInv'
    OBVIOUS
  <2>1. ASSUME NEW c \in DeepCall, NEW kind \in Kinds, NEW t \in DebugTab, NEW r \in KnownRefs,
               Ask(c, kind, t, r)
        PROVE  DeepInv'
    BY <2>1, DeepAsked
  <2>2. ASSUME NEW c \in DeepCall, Abort(c) PROVE DeepInv'
    BY <2>2, DeepAborted
  <2>3. ASSUME NEW c \in DeepCall, DeepCallActs(c) PROVE DeepInv'
    BY <2>3, DeepStarted, DeepAttached, DeepUnattached, DeepCaptures, DeepPublishes, DeepChecks,
       DeepVerifies, DeepDispatches, DeepTypesPlainly, DeepSettles DEF DeepCallActs
  <2>4. ASSUME NEW t \in DebugTab, Navigate(t) PROVE DeepInv'
    <3>1. pageOf \in [DebugTab -> Nat] /\ GivenTypes
      BY DEF DeepInv, SessionTypes
    <3>2. /\ pageOf' = [pageOf EXCEPT ![t] = @ + 1]
          /\ UNCHANGED <<work, step, gaveUp, seen, outcome, typed, tabEpoch, deepGeneration, deepRefs>>
      BY <2>4 DEF Navigate, given
    <3>3. pageOf' \in [DebugTab -> Nat] /\ \A u \in DebugTab : pageOf[u] <= pageOf'[u]
      BY <3>1, <3>2
    <3>4. GivenTypes' /\ deepRefs' \in SUBSET deepRefs
      BY <3>1, <3>2 DEF GivenTypes
    <3> QED BY <3>2, <3>3, <3>4, BrowserIntervenes
  <2>5. ASSUME NEW T, Invalidate(T), UNCHANGED <<work, step, gaveUp, seen, outcome, typed, pageOf>>
        PROVE  DeepInv'
    <3>1. pageOf' \in [DebugTab -> Nat] /\ \A u \in DebugTab : pageOf[u] <= pageOf'[u]
      BY <2>5 DEF DeepInv, SessionTypes
    <3>2. GivenTypes' /\ deepRefs' \in SUBSET deepRefs
      BY <2>5, Invalidated DEF DeepInv
    <3> QED BY <2>5, <3>1, <3>2, BrowserIntervenes
  <2>6. ASSUME NEW t \in DebugTab, Report(t) PROVE DeepInv'
    BY <2>6, <2>5 DEF Report
  <2>7. CASE UserDetaches \/ IdleDetach
    BY <2>7, <2>5 DEF UserDetaches, IdleDetach, around
  <2>8. CASE UNCHANGED deepVars
    <3>1. UNCHANGED <<work, step, gaveUp, seen, outcome, typed, tabEpoch, deepGeneration, deepRefs,
                      pageOf>>
      BY <2>8
    <3> QED BY <3>1 DEF DeepInv, GivenTypes, SessionTypes, RefFits, CallFits, OnlyFocus
  <2> QED BY <2>1, <2>2, <2>3, <2>4, <2>6, <2>7, <2>8 DEF DeepNext
<1>3. DeepInv => DeepWritesRight
  BY DEF DeepInv, CallFits, OnlyFocus, DeepWritesRight
<1> QED BY <1>1, <1>2, <1>3, PTL DEF DeepSpec

-----------------------------------------------------------------------------
(* The runs check the three parts under one specification, which is each of  *)
(* the three: BrowserMC chooses one part and leaves the others where they are. *)
THEOREM PartsOfBrowser == BrowserSpec => TabSpec /\ CallSpec /\ DeepSpec
<1>1. BrowserInit => TabInit /\ PageInit /\ DeepInit
  BY DEF BrowserInit
<1>2. [BrowserNext]_browserVars => [TabNext]_tabVars /\ [CallNext]_callVars /\ [DeepNext]_deepVars
  BY DEF BrowserNext, browserVars
<1> QED BY <1>1, <1>2, PTL DEF BrowserSpec, TabSpec, CallSpec, DeepSpec
=============================================================================
