----------------------------- MODULE PageCalls -----------------------------
(* A content tool call on its way to one tab and back: the queue of the   *)
(* tab and the dialog patch in the worker (gateway.ts, callContentTool),  *)
(* the second try after a stale ref (runner.ts), and the executor in the  *)
(* page with its own queue, snapshots and refs (page-executor.unlisted.ts *)
(* and executor.ts). Messages and scripts for a tab arrive in order; the  *)
(* page changes, reloads and navigates as it likes.                       *)
EXTENDS Naturals, Sequences, FiniteSets, SequencesExt

CONSTANTS
  ToolCall, Element,
  Looks,           \* what recovery compares: role, name, tag, type, label
  LookOf,          \* Element -> Looks
  MaxIncidents     \* elements removed or added, page loads, stops of the worker

ASSUME PageAssumption == /\ LookOf \in [Element -> Looks]
                         /\ MaxIncidents \in Nat

VARIABLES
  \* the worker
  tool,       \* what each call is: "read", "write" or "batch"
  refs,       \* the refs it names, one per action
  stage,      \* where it is
  aborted,    \* its signal, or its deadline has passed
  retry,      \* the runner's second try, allowRecovery; of a read: reinjected
  reply,      \* what came back from the page, "" while nothing has
  answer,     \* what the model is told
  tabQueue,   \* #tabQueues of the tab
  urlBefore,
  \* between
  mail,       \* messages on the way to the page
  \* the page
  document, url, \* which document is loaded, and its address
  injected,   \* page-executor runs in it
  depth,      \* __panelotDialogScope.depth
  present,    \* connected elements
  listed,     \* refMap of currentSnapshot
  snapshot,   \* its id, 0 before the first
  prior,      \* priorHints: refs of earlier snapshots of this document
  pageQueue,  \* executionQueue: requests, the first one at work
  cancelled,  \* requests whose controller has been aborted
  aim,        \* the action at work: its number and the element resolved
  \* history
  shown,      \* refs a snapshot has shown the model
  acted,      \* for each call, the actions dispatched: ref, element and patch
  incidents,  \* how many there have been
  stopped     \* the worker has stopped

worker == <<tool, refs, stage, aborted, retry, reply, answer, tabQueue, urlBefore>>
dom == <<document, url, injected, depth, present, listed, snapshot, prior>>
pageWork == <<pageQueue, cancelled, aim>>
counted == <<incidents, stopped>>
callVars == <<worker, mail, dom, pageWork, shown, acted, counted>>

Incident == incidents < MaxIncidents /\ incidents' = incidents + 1

Ref == [document : Nat, snapshot : Nat, element : Element]
NoAim == [number |-> 0, element |-> {}]
Actions(c) == Len(refs[c])
IsWrite(c) == tool[c] # "read"

PageTypeOK ==
  /\ tool \in [ToolCall -> {"none", "read", "write", "batch"}]
  /\ refs \in [ToolCall -> Seq(Ref)]
  /\ stage \in [ToolCall -> {"idle", "queued", "skipped", "inject", "patch", "send", "await",
                             "restore", "done"}]
  /\ aborted \subseteq ToolCall /\ retry \subseteq ToolCall
  /\ reply \in [ToolCall -> {"", "ok", "stale", "ambiguous", "failed", "lost"}]
  /\ answer \in [ToolCall -> {"", "ok", "stale", "failed", "navigated", "uncertain",
                              "not dispatched", "unpatched", "unrestored"}]
  /\ tabQueue \in Seq(ToolCall) /\ urlBefore \in [ToolCall -> Nat]
  /\ mail \in Seq([kind : {"execute", "cancel"}, call : ToolCall])
  /\ document \in Nat /\ url \in Nat /\ injected \in BOOLEAN /\ depth \in Nat
  /\ present \subseteq Element /\ listed \subseteq Element /\ snapshot \in Nat
  /\ prior \subseteq Ref /\ shown \subseteq Ref
  /\ pageQueue \in Seq(ToolCall) /\ cancelled \subseteq ToolCall
  /\ aim \in [number : Nat, element : {{}} \cup {{e} : e \in Element}]
  /\ incidents \in 0 .. MaxIncidents /\ stopped \in BOOLEAN

PageInit ==
  /\ tool = [c \in ToolCall |-> "none"] /\ refs = [c \in ToolCall |-> <<>>]
  /\ stage = [c \in ToolCall |-> "idle"] /\ aborted = {} /\ retry = {}
  /\ reply = [c \in ToolCall |-> ""] /\ answer = [c \in ToolCall |-> ""]
  /\ tabQueue = <<>> /\ urlBefore = [c \in ToolCall |-> 0] /\ mail = <<>>
  /\ document = 1 /\ url = 1 /\ injected = TRUE /\ depth = 0
  /\ present = Element /\ listed = Element /\ snapshot = 1
  /\ prior = {} /\ pageQueue = <<>> /\ cancelled = {} /\ aim = NoAim
  /\ shown = {[document |-> 1, snapshot |-> 1, element |-> e] : e \in Element}
  /\ acted = [c \in ToolCall |-> <<>>] /\ incidents = 0 /\ stopped = FALSE
-----------------------------------------------------------------------------
(* The worker.                                                              *)

(* The model names refs of snapshots it has been shown; a batch has two     *)
(* different ones here, up to four in the code. Calls are alike before.     *)
Issue(c, kind) ==
  /\ stage[c] = "idle" /\ c = CHOOSE d \in ToolCall : stage[d] = "idle"
  /\ tool' = [tool EXCEPT ![c] = kind]
  /\ CASE kind = "read" -> refs' = refs
       [] kind = "write" -> \E r \in shown : refs' = [refs EXCEPT ![c] = <<r>>]
       [] kind = "batch" -> \E r \in shown : \E s \in shown \ {r} :
                               refs' = [refs EXCEPT ![c] = <<r, s>>]
  /\ stage' = [stage EXCEPT ![c] = "queued"]
  /\ tabQueue' = Append(tabQueue, c)
  /\ UNCHANGED <<aborted, retry, reply, answer, urlBefore, mail, dom, pageWork, shown, acted,
                 counted>>

Serving == Head(tabQueue)
AtWork(c, where) == tabQueue # <<>> /\ Serving = c /\ stage[c] = where
Page == <<mail, dom, pageWork, shown, acted, counted>>

(* The call leaves the tab's queue with an answer; its own state ends.      *)
Leaves(c, what) ==
  /\ tabQueue' = Tail(tabQueue)
  /\ stage' = [stage EXCEPT ![c] = "done"]
  /\ answer' = [answer EXCEPT ![c] = what]
  /\ aborted' = aborted \ {c} /\ retry' = retry \ {c}
  /\ urlBefore' = [urlBefore EXCEPT ![c] = 0]
  /\ UNCHANGED <<tool, refs, reply>>

(* The signal aborts or the deadline passes. A call that waits in the queue *)
(* is answered at once and skipped later; one that has been sent is         *)
(* cancelled in the page and not waited for.                                *)
GiveUp(c) ==
  /\ stage[c] \notin {"idle", "skipped", "done"} /\ c \notin aborted
  /\ aborted' = aborted \cup {c}
  /\ CASE stage[c] = "queued" ->
            /\ stage' = [stage EXCEPT ![c] = "skipped"]
            /\ answer' = [answer EXCEPT ![c] = "not dispatched"]
            /\ UNCHANGED mail
       [] stage[c] = "await" ->
            /\ mail' = Append(mail, [kind |-> "cancel", call |-> c])
            /\ answer' = [answer EXCEPT ![c] = "uncertain"]
            /\ stage' = [stage EXCEPT ![c] = "restore"]
       [] OTHER -> UNCHANGED <<mail, answer, stage>>
  /\ UNCHANGED <<tool, refs, retry, reply, tabQueue, urlBefore, dom, pageWork, shown, acted,
                 counted>>

Skip == /\ tabQueue # <<>> /\ stage[Serving] = "skipped"
        /\ Leaves(Serving, answer[Serving]) /\ UNCHANGED Page

Goes(c, where) == stage' = [stage EXCEPT ![c] = where]
KeepsCall == UNCHANGED <<tool, refs, aborted, retry, reply, answer, tabQueue, urlBefore>>

BeginCall(c) ==
  /\ AtWork(c, "queued")
  /\ Goes(c, "inject") /\ KeepsCall /\ UNCHANGED Page

(* #ensureInjected; the tab may not take the script. *)
Inject(c) ==
  /\ AtWork(c, "inject")
  /\ \/ /\ c \notin aborted /\ injected' = TRUE
        /\ Goes(c, IF IsWrite(c) THEN "patch" ELSE "send") /\ KeepsCall
     \/ Leaves(c, "failed") /\ UNCHANGED injected
  /\ UNCHANGED <<mail, document, url, depth, present, listed, snapshot, prior, pageWork, shown,
                 acted, counted>>

MutSendsUnpatched(d) == 0
PatchedDepth(d) == d + 1

(* #installDialogInterception *)
Patch(c) ==
  /\ AtWork(c, "patch")
  /\ \/ /\ c \notin aborted /\ depth' = PatchedDepth(depth) /\ Goes(c, "send") /\ KeepsCall
     \/ Leaves(c, "unpatched") /\ UNCHANGED depth
  /\ UNCHANGED <<mail, document, url, injected, present, listed, snapshot, prior, pageWork, shown,
                 acted, counted>>

(* #sendContentRequest; without an executor in the page nobody receives it. *)
Send(c) ==
  /\ AtWork(c, "send")
  /\ urlBefore' = [urlBefore EXCEPT ![c] = url]
  /\ IF c \in aborted
     THEN /\ answer' = [answer EXCEPT ![c] = "uncertain"]
          /\ Goes(c, "restore") /\ UNCHANGED <<mail, reply>>
     ELSE /\ Goes(c, "await") /\ UNCHANGED answer
          /\ IF injected
             THEN mail' = Append(mail, [kind |-> "execute", call |-> c]) /\ UNCHANGED reply
             ELSE reply' = [reply EXCEPT ![c] = "lost"] /\ UNCHANGED mail
  /\ UNCHANGED <<tool, refs, aborted, retry, tabQueue, dom, pageWork, shown, acted, counted>>

(* What a reply, or the loss of the channel, means for the call.            *)
Replayable(c) == reply[c] = "lost" /\ ~IsWrite(c) /\ c \notin retry
Meaning(c) ==
  CASE reply[c] = "ok" -> "ok"
    [] reply[c] = "stale" -> "stale"
    [] reply[c] \in {"ambiguous", "failed"} -> "failed"
    [] reply[c] = "lost" /\ url # urlBefore[c] -> "navigated"
    [] reply[c] = "lost" /\ url = urlBefore[c] -> IF IsWrite(c) THEN "uncertain" ELSE "failed"

ReceiveReply(c) ==
  /\ AtWork(c, "await") /\ reply[c] # ""
  /\ IF Replayable(c) /\ url = urlBefore[c]
     THEN /\ injected' = TRUE /\ retry' = retry \cup {c}
          /\ Goes(c, "send") /\ UNCHANGED answer
     ELSE /\ injected' = (injected \/ Meaning(c) = "navigated")
          /\ answer' = [answer EXCEPT ![c] = Meaning(c)]
          /\ Goes(c, "restore") /\ UNCHANGED retry
  /\ reply' = [reply EXCEPT ![c] = ""]
  /\ UNCHANGED <<tool, refs, aborted, tabQueue, urlBefore, mail, document, url, depth, present,
                 listed, snapshot, prior, pageWork, shown, acted, counted>>

(* restoreDialogInterception in whatever document is there, tried twice; the *)
(* script arrives after the messages sent before it.                        *)
(* Then the call is answered, or ActionRunner repeats a single stale action *)
(* once with recovery.                                                      *)
MutLeavesPatched(d) == d
RestoredDepth(d) == IF d = 0 THEN 0 ELSE d - 1

MutRetriesFailed(c) == /\ tool[c] = "write" /\ answer[c] \in {"stale", "failed"}
                       /\ c \notin retry
TriesAgain(c) == tool[c] = "write" /\ answer[c] = "stale" /\ c \notin retry

Restore(c) ==
  /\ AtWork(c, "restore") /\ mail = <<>>
  /\ depth' = IF IsWrite(c) THEN RestoredDepth(depth) ELSE depth
  /\ IF TriesAgain(c)
     THEN /\ retry' = retry \cup {c}
          /\ tabQueue' = Append(Tail(tabQueue), c)
          /\ Goes(c, "queued") /\ answer' = [answer EXCEPT ![c] = ""]
          /\ UNCHANGED <<tool, refs, aborted, reply, urlBefore>>
     ELSE Leaves(c, answer[c])
  /\ UNCHANGED <<mail, document, url, injected, present, listed, snapshot, prior, pageWork, shown,
                 acted, counted>>

RestoreFails(c) ==
  /\ AtWork(c, "restore") /\ mail = <<>> /\ IsWrite(c)
  /\ Leaves(c, "unrestored") /\ UNCHANGED Page

(* The worker stops: nobody waits any more, the page goes on.               *)
StopCalls ==
  /\ Incident /\ stopped' = TRUE
  /\ tabQueue' = <<>>
  /\ stage' = [c \in ToolCall |-> IF stage[c] = "idle" THEN "idle" ELSE "done"]
  /\ aborted' = {} /\ retry' = {}
  /\ reply' = [c \in ToolCall |-> ""] /\ urlBefore' = [c \in ToolCall |-> 0]
  /\ UNCHANGED <<tool, refs, answer, mail, dom, pageWork, shown, acted>>
-----------------------------------------------------------------------------
(* The page. *)

Receive ==
  /\ mail # <<>> /\ mail' = Tail(mail)
  /\ LET m == Head(mail) IN
     IF m.kind = "cancel"
     THEN /\ cancelled' = IF m.call \in ToSet(pageQueue) THEN cancelled \cup {m.call}
                          ELSE cancelled
          /\ UNCHANGED pageQueue
     ELSE pageQueue' = Append(pageQueue, m.call) /\ UNCHANGED cancelled
  /\ UNCHANGED <<worker, dom, aim, shown, acted, counted>>

Current == Head(pageQueue)
Answers(c, what) ==
  /\ reply' = IF stage[c] = "await" THEN [reply EXCEPT ![c] = what] ELSE reply
  /\ pageQueue' = Tail(pageQueue) /\ cancelled' = cancelled \ {c} /\ aim' = NoAim
  /\ UNCHANGED <<tool, refs, stage, aborted, retry, answer, tabQueue, urlBefore, mail, counted>>

(* resolveRef, and resolveRefWithRecovery on the second try of a single     *)
(* action: a ref of an earlier snapshot of this document, one listed        *)
(* element that looks the same.                                             *)
Resolves(r) == r.document = document /\ r.snapshot = snapshot /\ r.element \in present
Matches(r) == {e \in listed : LookOf[e] = LookOf[r.element]}
Recovers(c, r) == /\ c \in retry /\ tool[c] = "write"
                  /\ r.document = document /\ r \in prior

OnlyOne(S) == Cardinality(S) = 1

Resolve(c, r) ==
  IF Resolves(r) THEN [what |-> "found", element |-> {r.element}]
  ELSE IF ~Recovers(c, r) THEN [what |-> "stale", element |-> {}]
  ELSE IF ~OnlyOne(Matches(r)) THEN [what |-> "ambiguous", element |-> {}]
  ELSE IF Matches(r) \subseteq present THEN [what |-> "found", element |-> Matches(r)]
  ELSE [what |-> "stale", element |-> {}]

(* The next action of the request: its ref is resolved, then the executor   *)
(* waits for the element to be actionable.                                  *)
Aim ==
  /\ pageQueue # <<>> /\ IsWrite(Current) /\ aim.element = {} /\ aim.number < Actions(Current)
  /\ LET c == Current
         found == Resolve(c, refs[c][aim.number + 1])
     IN IF c \in cancelled THEN Answers(c, "failed")
        ELSE IF found.what = "found"
        THEN /\ aim' = [number |-> aim.number + 1, element |-> found.element]
             /\ UNCHANGED <<worker, mail, counted, pageQueue, cancelled>>
        ELSE Answers(c, found.what)
  /\ UNCHANGED <<dom, shown, acted>>

(* What an action for the ref may reach. *)
Agreed(r) == /\ r.document = document
             /\ aim.element = {r.element} \/ aim.element = Matches(r)
             /\ Cardinality(aim.element) = 1

(* The wait is over: the element is still there and the request is alive, and *)
(* the action is dispatched; else it fails before.                          *)
MayAct(c) == c \notin cancelled /\ aim.element \subseteq present
Act ==
  /\ pageQueue # <<>> /\ aim.element # {}
  /\ LET c == Current IN
     IF MayAct(c)
     THEN /\ acted' = [acted EXCEPT ![c] =
                         Append(@, [number |-> aim.number, patched |-> depth > 0,
                                    right |-> Agreed(refs[c][aim.number])])]
          /\ aim' = [aim EXCEPT !.element = {}]
          /\ UNCHANGED <<worker, mail, counted, pageQueue, cancelled>>
     ELSE Answers(c, "failed") /\ UNCHANGED acted
  /\ UNCHANGED <<dom, shown>>

(* takeSnapshot: earlier refs are kept for recovery, and the model gets the *)
(* new ones with the result.                                                *)
RefsOf(id, S) == {[document |-> document, snapshot |-> id, element |-> e] : e \in S}
TakeSnapshot ==
  /\ prior' = prior \cup RefsOf(snapshot, listed)
  /\ snapshot' = snapshot + 1 /\ listed' = present
  /\ shown' = shown \cup RefsOf(snapshot + 1, present)
  /\ UNCHANGED <<document, url, injected, depth, present>>

(* All actions are done, or a batch stops early because the page changed or *)
(* a new context may have opened; the page has settled. A write that shows  *)
(* no effect on its target, or leaves an empty page, fails here.            *)
Finish ==
  /\ pageQueue # <<>> /\ aim.element = {} /\ (IsWrite(Current) => aim.number > 0)
  /\ \/ Current \notin cancelled /\ present # {} /\ Answers(Current, "ok") /\ TakeSnapshot
     \/ /\ Current \in cancelled \/ IsWrite(Current) \/ present = {}
        /\ Answers(Current, "failed") /\ UNCHANGED <<dom, shown>>
  /\ UNCHANGED acted

ChangePage(e) ==
  /\ Incident
  /\ present' = IF e \in present THEN present \ {e} ELSE present \cup {e}
  /\ UNCHANGED <<worker, mail, document, url, injected, depth, listed, snapshot, prior, pageWork,
                 shown, acted, stopped>>

(* A reload or a navigation: the executor goes with its document, and the   *)
(* requests it had lose their channel.                                      *)
Load(newUrl) ==
  /\ Incident
  /\ document' = document + 1 /\ url' = IF newUrl THEN url + 1 ELSE url
  /\ injected' = FALSE /\ depth' = 0 /\ snapshot' = 0 /\ listed' = {} /\ prior' = {}
  /\ present' = Element
  /\ pageQueue' = <<>> /\ cancelled' = {} /\ aim' = NoAim /\ mail' = <<>>
  /\ LET sent == ToSet(pageQueue) \cup {m.call : m \in ToSet(mail)}
     IN reply' = [c \in ToolCall |-> IF c \in sent /\ stage[c] = "await" /\ reply[c] = ""
                                     THEN "lost" ELSE reply[c]]
  /\ UNCHANGED <<tool, refs, stage, aborted, retry, answer, tabQueue, urlBefore, shown, acted,
                 stopped>>

WorkerActs(c) == \/ BeginCall(c) \/ Inject(c) \/ Patch(c) \/ Send(c) \/ ReceiveReply(c)
                 \/ Restore(c) \/ RestoreFails(c)
PageActs == Receive \/ Aim \/ Act \/ Finish

CallNext == \/ \E c \in ToolCall : \/ \E kind \in {"read", "write", "batch"} : Issue(c, kind)
                                   \/ GiveUp(c) \/ WorkerActs(c)
            \/ Skip \/ StopCalls \/ PageActs
            \/ \E e \in Element : ChangePage(e)
            \/ \E newUrl \in BOOLEAN : Load(newUrl)

CallSpec == PageInit /\ [][CallNext]_callVars
-----------------------------------------------------------------------------
Numbers(c) == [i \in DOMAIN acted[c] |-> acted[c][i].number]

(* Every action of a call is dispatched at most once and in order, through  *)
(* second tries, reinjection, lost channels, cancellation and restarts; and *)
(* an answer that says that nothing was dispatched stays true.              *)
ActsOnce ==
  \A c \in ToolCall :
    /\ \A i, j \in DOMAIN acted[c] : i < j => Numbers(c)[i] < Numbers(c)[j]
    /\ answer[c] \in {"not dispatched", "unpatched"} \/ (answer[c] = "stale" /\ tool[c] = "write")
         => acted[c] = <<>>

(* An action reaches the element its ref stands for or the only one that    *)
(* looks like it, in the document the ref was made in, and while the        *)
(* dialogs of that document are patched.                                    *)
ActsAsAgreed ==
  \A c \in ToolCall : \A i \in DOMAIN acted[c] : acted[c][i].right /\ acted[c][i].patched

(* When no call of the tab is under way, the dialogs of its page are its own *)
(* again, unless the model has been told that this failed, or the worker    *)
(* stopped before it could restore them.                                    *)
Quiet == \A c \in ToolCall : stage[c] \in {"idle", "queued", "skipped", "done"}
                              /\ answer[c] # "unrestored"
RestoredUnlessStopped == Quiet /\ ~stopped => depth = 0
============================================================================
