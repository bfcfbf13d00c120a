---------------------------- MODULE DeepSession ----------------------------
(* The debugger (tools/cdp/debugger.ts): one attachment at a time, a queue *)
(* of the calls that need it, its idle timer, and the deep refs it gives   *)
(* out for the controls of a tab. The tab may navigate at any time; the    *)
(* debugger reports that, in order with the answers to its commands.       *)
EXTENDS Naturals, Sequences

CONSTANTS
  DeepCall, DebugTab, NotAttached,
  MaxNews        \* navigations, and detaches by the user

ASSUME DeepAssumption == /\ NotAttached \notin DebugTab
                         /\ MaxNews \in Nat

VARIABLES
  attachedTo,  \* attached
  idleTimer,   \* attached.idleTimer
  sessions,    \* the queue of withTab
  work,        \* what each call is for
  step,        \* where it is
  gaveUp,      \* its signal or deadline
  seen,        \* what it has captured: epoch at its start and the document
  outcome,
  tabEpoch, deepGeneration,
  deepRefs,    \* the refs of a tab that are still good
  pageOf,      \* the document in each tab
  unreported,  \* tabs with a lifecycle event on its way
  typed,       \* the input sent for a ref: the command, the control's document and the
               \* document the tab showed at the last check
  news        \* how often the browser has interfered

deepVars == <<attachedTo, idleTimer, sessions, work, step, gaveUp, seen, outcome, tabEpoch,
              deepGeneration, deepRefs, pageOf, unreported, typed, news>>

(* loader: the document the session context named; node: the one the node is in *)
DeepRef == [tab : DebugTab, epoch : Nat, generation : Nat, loader : Nat, node : Nat]
NoRef == [tab |-> NotAttached]
Kinds == {"read", "click", "type", "plain"}

(* The commands of clickDeepRef and typeDeepRef, each awaited, and where    *)
(* the call stands after it.                                                *)
Command == [pressing |-> "releasing", releasing |-> "settling", focusing |-> "focused",
            keying |-> "lifting", lifting |-> "inserting", inserting |-> "settling"]

DeepTypeOK ==
  /\ attachedTo \in DebugTab \cup {NotAttached} /\ idleTimer \in BOOLEAN
  /\ sessions \in Seq(DeepCall)
  /\ work \in [DeepCall -> [kind : Kinds \cup {"none"}, tab : DebugTab \cup {NotAttached},
                            ref : DeepRef \cup {NoRef}]]
  /\ step \in [DeepCall -> {"idle", "queued", "attaching", "checking", "capturing", "reading",
                            "ready", "pressing", "releasing", "focusing", "focused", "keying",
                            "lifting", "inserting", "settling", "done"}]
  /\ gaveUp \subseteq DeepCall
  /\ seen \in [DeepCall -> [epoch : Nat, loader : Nat]]
  /\ outcome \in [DeepCall -> {"", "ok", "failed", "stale_ref", "not dispatched",
                               "may have occurred"}]
  /\ tabEpoch \in [DebugTab -> Nat] /\ deepGeneration \in [DebugTab -> Nat]
  /\ deepRefs \subseteq DeepRef /\ pageOf \in [DebugTab -> Nat] /\ unreported \subseteq DebugTab
  /\ typed \in [DeepCall -> Seq([command : DOMAIN Command \cup {"plain"},
                                node : Nat, checked : Nat])]
  /\ news \in 0 .. MaxNews

DeepInit ==
  /\ attachedTo = NotAttached /\ idleTimer = FALSE /\ sessions = <<>>
  /\ work = [c \in DeepCall |-> [kind |-> "none", tab |-> NotAttached, ref |-> NoRef]]
  /\ step = [c \in DeepCall |-> "idle"] /\ gaveUp = {} /\ outcome = [c \in DeepCall |-> ""]
  /\ seen = [c \in DeepCall |-> [epoch |-> 0, loader |-> 0]]
  /\ tabEpoch = [t \in DebugTab |-> 1] /\ deepGeneration = [t \in DebugTab |-> 0]
  /\ deepRefs = {} /\ pageOf = [t \in DebugTab |-> 1] /\ unreported = {}
  /\ typed = [c \in DeepCall |-> <<>>] /\ news = 0

around == <<pageOf, unreported, news>>
given == <<tabEpoch, deepGeneration, deepRefs>>

(* invalidateTab, for a set of tabs *)
Invalidate(T) ==
  /\ tabEpoch' = [t \in DebugTab |-> IF t \in T THEN tabEpoch[t] + 1 ELSE tabEpoch[t]]
  /\ deepGeneration' = [t \in DebugTab |-> IF t \in T THEN 0 ELSE deepGeneration[t]]
  /\ deepRefs' = {r \in deepRefs : r.tab \notin T}

(* The model calls a tool, with a ref it was given. Calls are alike before.  *)
Ask(c, kind, t, r) ==
  /\ step[c] = "idle" /\ c = CHOOSE d \in DeepCall : step[d] = "idle"
  /\ kind \in {"click", "type"} <=> r # NoRef
  /\ r # NoRef => r.tab = t
  /\ work' = [work EXCEPT ![c] = [kind |-> kind, tab |-> t, ref |-> r]]
  /\ step' = [step EXCEPT ![c] = "queued"] /\ sessions' = Append(sessions, c)
  /\ UNCHANGED <<attachedTo, idleTimer, gaveUp, seen, outcome, given, around, typed>>

At(c, s) == sessions # <<>> /\ Head(sessions) = c /\ step[c] = s
Target(c) == work[c].tab

(* The callback of withTab ends: the idle timer is set while attached, and  *)
(* the next call of the queue may start.                                    *)
Ends(c, what) ==
  /\ sessions' = Tail(sessions) /\ step' = [step EXCEPT ![c] = "done"]
  /\ outcome' = [outcome EXCEPT ![c] =
                   IF @ # "" THEN @
                   ELSE IF what = "ok" /\ c \in gaveUp
                   THEN IF work[c].kind = "read" THEN "failed" ELSE "may have occurred"
                   ELSE what]
  /\ idleTimer' = (attachedTo # NotAttached)
  /\ gaveUp' = gaveUp \ {c} /\ seen' = [seen EXCEPT ![c] = [epoch |-> 0, loader |-> 0]]
  /\ UNCHANGED <<attachedTo, work, around, typed>>

(* An abort answers a call that has not started; it stays in the queue. A    *)
(* call is answered once.                                                   *)
Unstarted(c) == step[c] = "queued"
Abort(c) ==
  /\ step[c] \notin {"idle", "done"} /\ c \notin gaveUp
  /\ gaveUp' = gaveUp \cup {c}
  /\ outcome' = IF Unstarted(c) THEN [outcome EXCEPT ![c] = "not dispatched"] ELSE outcome
  /\ UNCHANGED <<attachedTo, idleTimer, sessions, work, step, seen, given, around, typed>>

(* Its turn: throwIfDone, then ensureAttached, which detaches from another  *)
(* tab.                                                                     *)
MayStart(c) == c \notin gaveUp
Start(c) ==
  /\ At(c, "queued")
  /\ IF ~MayStart(c)
     THEN /\ sessions' = Tail(sessions) /\ step' = [step EXCEPT ![c] = "done"]
          /\ UNCHANGED <<attachedTo, idleTimer, given>>
     ELSE /\ step' = [step EXCEPT ![c] = "attaching"] /\ UNCHANGED sessions
          /\ IF attachedTo \in {Target(c), NotAttached}
             THEN UNCHANGED <<attachedTo, idleTimer, given>>
             ELSE Invalidate({attachedTo}) /\ attachedTo' = NotAttached /\ idleTimer' = FALSE
  /\ UNCHANGED <<work, gaveUp, seen, outcome, around, typed>>

(* chrome.debugger.attach has returned. The second throwIfDone is outside   *)
(* the try whose finally sets the timer.                                    *)
Attached(c) ==
  /\ At(c, "attaching")
  /\ attachedTo' = Target(c)
  /\ IF c \in gaveUp
     THEN /\ sessions' = Tail(sessions) /\ step' = [step EXCEPT ![c] = "done"]
          /\ outcome' = [outcome EXCEPT ![c] = "failed"]
          /\ UNCHANGED <<idleTimer, seen>>
     ELSE /\ idleTimer' = FALSE
          /\ step' = [step EXCEPT ![c] = CASE work[c].kind = "read" -> "capturing"
                                           [] work[c].kind = "plain" -> "ready"
                                           [] OTHER -> "checking"]
          /\ seen' = [seen EXCEPT ![c].epoch = tabEpoch[Target(c)]]
          /\ UNCHANGED <<sessions, outcome>>
  /\ UNCHANGED <<work, gaveUp, given, around, typed>>

AttachFails(c) ==
  /\ At(c, "attaching") /\ attachedTo = NotAttached
  /\ sessions' = Tail(sessions) /\ step' = [step EXCEPT ![c] = "done"]
  /\ outcome' = [outcome EXCEPT ![c] = "failed"]
  /\ UNCHANGED <<attachedTo, idleTimer, work, gaveUp, seen, given, around, typed>>

(* A command was answered: what was reported before it has been handled.    *)
Answered(c) == attachedTo = Target(c) /\ Target(c) \notin unreported
Lost(c) == attachedTo # Target(c)

-----------------------------------------------------------------------------
(* getDeepAxTree: the frames and loaders of the sessions, then the epoch,   *)
(* then the nodes, then a last look at the epoch.                           *)
CaptureContext(c) ==
  /\ At(c, "capturing") /\ Answered(c) /\ c \notin gaveUp
  /\ seen' = [seen EXCEPT ![c].loader = pageOf[Target(c)]]
  /\ step' = [step EXCEPT ![c] = "reading"]
  /\ UNCHANGED <<attachedTo, idleTimer, sessions, work, gaveUp, outcome, given, around, typed>>

(* The child frames' contexts may come later than the root's.               *)
CaptureEpoch(c) ==
  /\ At(c, "reading") /\ Answered(c)
  /\ seen' = [seen EXCEPT ![c].epoch = tabEpoch[Target(c)]]
  /\ step' = [step EXCEPT ![c] = "settling"]
  /\ UNCHANGED <<attachedTo, idleTimer, sessions, work, gaveUp, outcome, given, around, typed>>

PublishRefs(c) ==
  /\ At(c, "settling") /\ work[c].kind = "read" /\ Answered(c)
  /\ LET t == Target(c)  g == deepGeneration[t] + 1 IN
     IF tabEpoch[t] # seen[c].epoch THEN Ends(c, "stale_ref") /\ UNCHANGED given
     ELSE /\ deepGeneration' = [deepGeneration EXCEPT ![t] = g]
          /\ deepRefs' = {r \in deepRefs : r.tab # t}
                         \cup {[tab |-> t, epoch |-> tabEpoch[t], generation |-> g,
                                loader |-> seen[c].loader, node |-> pageOf[t]]}
          /\ UNCHANGED tabEpoch /\ Ends(c, "ok")

(* validateDeepRef: the ref is of this epoch and generation and still kept, *)
(* and its frame has the loader it had.                                     *)
Trusted(r) == /\ r.generation = deepGeneration[r.tab] /\ r.epoch = tabEpoch[r.tab]
              /\ r \in deepRefs /\ r.loader = pageOf[r.tab]

(* A loader that has changed invalidates the tab's refs.                    *)
Distrust(c) ==
  /\ IF work[c].ref \in deepRefs THEN Invalidate({Target(c)}) ELSE UNCHANGED given
  /\ Ends(c, "stale_ref")

(* The first validation; the point of the control and the network events    *)
(* are asked for after it.                                                  *)
CheckRef(c) ==
  /\ At(c, "checking") /\ Answered(c)
  /\ IF Trusted(work[c].ref)
     THEN /\ step' = [step EXCEPT ![c] = "ready"]
          /\ seen' = [seen EXCEPT ![c].loader = pageOf[Target(c)]]
          /\ UNCHANGED <<attachedTo, idleTimer, sessions, work, gaveUp, outcome, given, around,
                         typed>>
     ELSE Distrust(c)

(* assertDeepRefReadyForWrite, before a press and before each half of       *)
(* typing: same epoch as at the start, and valid again.                     *)
MutChecksOnce(c) == TRUE
ReadyForWrite(c) == seen[c].epoch = tabEpoch[Target(c)] /\ Trusted(work[c].ref)

Verify(c) ==
  /\ step[c] \in {"ready", "focused"} /\ At(c, step[c]) /\ work[c].kind \in {"click", "type"}
  /\ Answered(c) /\ (step[c] = "ready" => c \notin gaveUp)
  /\ IF ReadyForWrite(c)
     THEN /\ step' = [step EXCEPT ![c] = IF work[c].kind = "click" THEN "pressing"
                                         ELSE IF @ = "ready" THEN "focusing" ELSE "keying"]
          /\ seen' = [seen EXCEPT ![c].loader = pageOf[Target(c)]]
          /\ UNCHANGED <<attachedTo, idleTimer, sessions, work, gaveUp, outcome, given, around,
                         typed>>
     ELSE Distrust(c)

(* One command arrives at the tab, whatever that shows by then. DOM.focus   *)
(* names the node and fails in another document.                            *)
Sends(c) == typed' = [typed EXCEPT ![c] = Append(@, [command |-> step[c],
                                                    node |-> work[c].ref.node,
                                                    checked |-> seen[c].loader])]
NodeGone(c) == step[c] = "focusing" /\ pageOf[Target(c)] # work[c].ref.node

Dispatch(c) ==
  /\ step[c] \in DOMAIN Command /\ At(c, step[c]) /\ ~Lost(c) /\ ~NodeGone(c)
  /\ Sends(c) /\ step' = [step EXCEPT ![c] = Command[@]]
  /\ UNCHANGED <<attachedTo, idleTimer, sessions, work, gaveUp, seen, outcome, given, around>>

(* Keys, coordinates and screenshots name no ref.                           *)
DispatchPlain(c) ==
  /\ At(c, "ready") /\ work[c].kind = "plain" /\ ~Lost(c) /\ c \notin gaveUp
  /\ typed' = [typed EXCEPT ![c] = Append(@, [command |-> "plain", node |-> 0, checked |-> 0])]
  /\ step' = [step EXCEPT ![c] = "settling"]
  /\ UNCHANGED <<attachedTo, idleTimer, sessions, work, gaveUp, seen, outcome, given, around>>

(* The network is quiet, or the wait is over.                               *)
Settle(c) ==
  /\ At(c, "settling") /\ work[c].kind # "read"
  /\ Ends(c, "ok") /\ UNCHANGED given

(* An abort is noticed before the input is dispatched; a command to a tab   *)
(* that is no longer attached fails. A click or text that only waits for    *)
(* the network sends none.                                                  *)
BreakOff(c) ==
  /\ step[c] \in {"capturing", "reading", "checking", "ready", "focused", "settling"}
                \cup DOMAIN Command
  /\ At(c, step[c])
  /\ \/ Lost(c) /\ (step[c] = "settling" => work[c].kind \in {"read", "plain"})
     \/ c \in gaveUp /\ step[c] \in {"capturing", "ready"}
     \/ NodeGone(c)
  /\ Ends(c, "failed") /\ UNCHANGED given

-----------------------------------------------------------------------------
(* The browser. *)
Navigate(t) ==
  /\ news < MaxNews /\ news' = news + 1
  /\ pageOf' = [pageOf EXCEPT ![t] = @ + 1] /\ unreported' = unreported \cup {t}
  /\ UNCHANGED <<attachedTo, idleTimer, sessions, work, step, gaveUp, seen, outcome, given, typed>>

(* onLifecycleEvent and onTabUpdated *)
Report(t) ==
  /\ t \in unreported /\ unreported' = unreported \ {t}
  /\ Invalidate({t})
  /\ UNCHANGED <<attachedTo, idleTimer, sessions, work, step, gaveUp, seen, outcome, pageOf, typed,
                 news>>

(* onDetach: the user cancels the debugger. *)
UserDetaches ==
  /\ attachedTo # NotAttached /\ news < MaxNews /\ news' = news + 1
  /\ Invalidate({attachedTo}) /\ attachedTo' = NotAttached /\ idleTimer' = FALSE
  /\ UNCHANGED <<sessions, work, step, gaveUp, seen, outcome, pageOf, unreported, typed>>

(* Thirty idle seconds. *)
IdleDetach ==
  /\ idleTimer
  /\ Invalidate({attachedTo}) /\ attachedTo' = NotAttached /\ idleTimer' = FALSE
  /\ UNCHANGED <<sessions, work, step, gaveUp, seen, outcome, around, typed>>

DeepCallActs(c) ==
  \/ Start(c) \/ Attached(c) \/ AttachFails(c)
  \/ CaptureContext(c) \/ CaptureEpoch(c) \/ PublishRefs(c)
  \/ CheckRef(c) \/ Verify(c) \/ Dispatch(c) \/ DispatchPlain(c) \/ Settle(c) \/ BreakOff(c)

KnownRefs == deepRefs \cup {work[c].ref : c \in DeepCall} \cup {NoRef}

DeepNext == \/ \E c \in DeepCall : \/ \E kind \in Kinds, t \in DebugTab, r \in KnownRefs :
                                        Ask(c, kind, t, r)
                                   \/ Abort(c) \/ DeepCallActs(c)
            \/ \E t \in DebugTab : Navigate(t) \/ Report(t)
            \/ UserDetaches \/ IdleDetach

DeepSpec == DeepInit /\ [][DeepNext]_deepVars
-----------------------------------------------------------------------------
(* A press, a key or a text for a deep ref is sent only after a check at    *)
(* which the tab showed the very document the control is in, through        *)
(* navigations during the capture, the preparation and between the two      *)
(* halves of typing; a navigation after that check is not noticed, and the  *)
(* commands still to come go to whatever the tab shows. A call answered     *)
(* with stale_ref has done no more than focus the control, so that it may   *)
(* be repeated with a fresh ref; and one answered as not dispatched,        *)
(* because the abort came while it waited for the debugger, never sends     *)
(* anything later.                                                          *)
DeepWritesRight ==
  \A c \in DeepCall :
    /\ \A i \in DOMAIN typed[c] : typed[c][i].node = typed[c][i].checked
    /\ outcome[c] = "stale_ref" => \A i \in DOMAIN typed[c] : typed[c][i].command = "focusing"
    /\ outcome[c] = "not dispatched" => typed[c] = <<>>
============================================================================
