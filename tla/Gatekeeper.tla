------------------------------- MODULE Gatekeeper -------------------------------
(* The gatekeeper of one thread: what it says of a call, and the state it says it from     *)
(* (src/gatekeeper/gatekeeper.ts, src/gatekeeper/rules.ts, src/gatekeeper/service.ts, the  *)
(* two checks of src/agent/loop.ts).                                                       *)
(*                                                                                         *)
(* A call is checked before the user is asked and again before it is dispatched; rules,    *)
(* policy, site access and the grants of the browser session change in between. The grants *)
(* are held in memory and in session storage, changed one mutation after another.          *)
EXTENDS Naturals, Sequences, FiniteSets

CONSTANTS
  GateTool,       \* tools
  GateOrigin,     \* origins a call may be attributed to
  NoOrigin,       \* the origin of a tool that targets no page
  RuleChoice,     \* rules the settings page may add
  BuiltInSensitive, \* the seeded sensitive origins and the script schemes
  Quiet,          \* no call, no mutation under way
  MaxGateEvents   \* bound: edits of settings, removals of site access, worker restarts

(* What a rule covers, and how specific its two patterns are: 2 exact, 1 a prefix, a       *)
(* category or a subdomain, 0 everything.                                                  *)
PermissionRule ==
  [tools : SUBSET GateTool, toolScore : 0..2, origins : SUBSET (GateOrigin \cup {NoOrigin}),
   originScore : 0..2, verdict : {"allow", "ask", "deny"},
   source : {"user_setting", "approval_persist", "plugin_default"}]

ASSUME GateAssumption ==
  /\ RuleChoice \subseteq PermissionRule /\ BuiltInSensitive \subseteq GateOrigin
  /\ NoOrigin \notin GateOrigin /\ MaxGateEvents \in Nat

Policy == {"always", "untrusted", "auto"}
(* A call as the gate sees it: reads, writes, and the tools that are always allowed;       *)
(* whether its parameters look like credentials, a card number or somebody's address.      *)
GateCall == [tool : GateTool, origin : GateOrigin \cup {NoOrigin},
             effects : {"exempt", "read", "write"}, sensitive : BOOLEAN]
Grant == GateTool \X (GateOrigin \cup {NoOrigin})

(* ------------------------------ the verdict ------------------------------ *)

SourcePriority(r) == CASE r.source = "user_setting" -> 3
                       [] r.source = "approval_persist" -> 2
                       [] r.source = "plugin_default" -> 1
VerdictPriority(r) == CASE r.verdict = "deny" -> 2 [] r.verdict = "ask" -> 1
                        [] r.verdict = "allow" -> 0
Specificity(r) == r.toolScore + r.originScore

Matches(r, call) == call.tool \in r.tools /\ call.origin \in r.origins

(* matchRules: the more specific, then the stronger source, then the stricter verdict.     *)
Outranks(a, b) ==
  \/ Specificity(a) > Specificity(b)
  \/ /\ Specificity(a) = Specificity(b)
     /\ \/ SourcePriority(a) > SourcePriority(b)
        \/ /\ SourcePriority(a) = SourcePriority(b)
           /\ VerdictPriority(a) > VerdictPriority(b)

WinningVerdicts(rs, call) ==
  LET hits == {r \in rs : Matches(r, call)}
  IN {r.verdict : r \in {h \in hits : \A o \in hits : ~Outranks(o, h)}}

(* checkGate: what is denied whatever the user granted, what has to be asked, and the rest. *)
Denied(call, rs, sens) ==
  call.effects = "write" /\ (call.origin \in sens \/ "deny" \in WinningVerdicts(rs, call))

Granted(call, gr) == <<call.tool, call.origin>> \in gr

MustAsk(call, rs, pol, gr) ==
  \/ call.effects = "read" /\ pol = "always" /\ ~Granted(call, gr)
  \/ /\ call.effects = "write"
     /\ \/ "ask" \in WinningVerdicts(rs, call)
        \/ call.sensitive
        \/ pol # "auto" /\ ~Granted(call, gr) /\ "allow" \notin WinningVerdicts(rs, call)

Verdict(call, rs, pol, sens, gr) ==
  IF Denied(call, rs, sens) THEN "deny"
  ELSE IF MustAsk(call, rs, pol, gr) THEN "ask" ELSE "allow"

(* ------------------------------ the service ------------------------------ *)

VARIABLES
  rules, gatePolicy, userSensitive,   \* what the settings hold
  hostAccess,     \* origins the browser gives the extension access to
  grants,         \* sessionGrants in memory
  grantsStored,   \* the grants in session storage
  grantTail,      \* mutations of the grants that wait
  mutation,       \* the mutation under way and the grants it will leave
  gateReady,      \* "hydrating", "revoked" while hydrating, "ready" or "failed"
  gateCall,       \* the call at the gate
  given,          \* the grants chained since access was last taken away
  clearLost,      \* ghost: a clearing of the grants never reached the storage
  gateEvents

gateVars == <<rules, gatePolicy, userSensitive, hostAccess, grants, grantsStored, grantTail,
              mutation, gateReady, gateCall, given, clearLost, gateEvents>>
settingVars == <<rules, gatePolicy, userSensitive>>
grantVars == <<grants, grantsStored, grantTail, mutation, gateReady, given, clearLost>>

NoCall == [at |-> "none", call |-> Quiet, revision |-> Quiet, decision |-> "none",
           recovered |-> FALSE]
Decision == {"accept", "acceptForSession", "acceptForSite"}
Revision == <<gatePolicy, rules, userSensitive>>

GateInit ==
  /\ rules = {} /\ gatePolicy \in {"untrusted"} /\ userSensitive = {}
  /\ hostAccess = GateOrigin /\ grants = {} /\ grantsStored = {} /\ grantTail = <<>>
  /\ mutation = [at |-> "none", next |-> {}] /\ gateReady = "ready"
  /\ gateCall = NoCall /\ given = {} /\ clearLost = FALSE /\ gateEvents = 0

GateEvent == gateEvents < MaxGateEvents /\ gateEvents' = gateEvents + 1

Now(call) == Verdict(call, rules, gatePolicy, BuiltInSensitive \cup userSensitive, grants)
HostMissing(call) == call.origin # NoOrigin /\ call.origin \notin hostAccess

(* The first check of a call: it is denied, passes, or the user is asked, about the call   *)
(* or about the site; the question remembers the settings it was asked under.              *)
CheckCall(call) ==
  /\ gateReady = "ready" /\ gateCall.at = "none"
  /\ gateCall' =
       IF Now(call) = "deny" THEN NoCall
       ELSE [at |-> IF Now(call) = "ask" \/ HostMissing(call) THEN "asked" ELSE "dispatching",
             call |-> call, revision |-> Revision, decision |-> "none", recovered |-> FALSE]
  /\ UNCHANGED <<settingVars, hostAccess, grantVars, gateEvents>>

(* The user declines, or the question runs out of time.                                    *)
Decline ==
  /\ gateCall.at = "asked" /\ gateCall' = NoCall
  /\ UNCHANGED <<settingVars, hostAccess, grantVars, gateEvents>>

(* The user accepts; giving access to the site is part of it. The decision is stored, and  *)
(* what it brings is applied later.                                                        *)
Accept(decision) ==
  /\ gateCall.at = "asked"
  /\ gateCall' = [gateCall EXCEPT !.at = "deciding", !.decision = decision]
  /\ hostAccess' = hostAccess \cup ({gateCall.call.origin} \ {NoOrigin})
  /\ UNCHANGED <<settingVars, grantVars, gateEvents>>

(* applyDecision goes on once the grants are read and the thread's scope is written.       *)
Applies(decision) ==
  gateCall.at = "deciding" /\ gateCall.decision = decision /\ gateReady = "ready"
CallAccepted == gateCall' = [gateCall EXCEPT !.at = "accepted"]

AcceptOnce ==
  /\ Applies("accept") /\ CallAccepted
  /\ UNCHANGED <<settingVars, hostAccess, grantVars, gateEvents>>

(* A mutation of the grants is chained; the call waits for it.                             *)
AcceptForSession ==
  /\ Applies("acceptForSession") /\ gateCall' = [gateCall EXCEPT !.at = "granting"]
  /\ grantTail' = Append(grantTail, {<<gateCall.call.tool, gateCall.call.origin>>})
  /\ given' = given \cup {<<gateCall.call.tool, gateCall.call.origin>>}
  /\ UNCHANGED <<settingVars, hostAccess, grants, grantsStored, mutation, gateReady,
                 clearLost, gateEvents>>

(* An allow rule for the tool and the origin joins the stored rules.                       *)
AcceptForSite ==
  /\ Applies("acceptForSite") /\ CallAccepted
  /\ rules' = rules \cup
       {[tools |-> {gateCall.call.tool}, toolScore |-> 2,
         origins |-> IF gateCall.call.origin = NoOrigin THEN GateOrigin \cup {NoOrigin}
                     ELSE {gateCall.call.origin},
         originScore |-> IF gateCall.call.origin = NoOrigin THEN 0 ELSE 2,
         verdict |-> "allow", source |-> "approval_persist"]}
  /\ UNCHANGED <<gatePolicy, userSensitive, hostAccess, grantVars, gateEvents>>

(* The check before dispatch: what asked before may pass under the very same settings, and *)
(* the site's access is looked up after the verdict. A recovered call is only held back by *)
(* a denial or by access that is missing. What does not pass fails the call.               *)
PassesAgain(g) ==
  /\ ~HostMissing(g.call)
  /\ \/ Now(g.call) = "allow"
     \/ /\ Now(g.call) = "ask"
        /\ g.recovered \/ (g.at = "accepted" /\ g.revision = Revision)

Dispatch ==
  /\ gateReady = "ready" /\ gateCall.at \in {"accepted", "dispatching"}
  /\ gateCall' = [NoCall EXCEPT !.at = IF PassesAgain(gateCall) THEN "ran" ELSE "refused"]
  /\ UNCHANGED <<settingVars, hostAccess, grantVars, gateEvents>>

EndCallAtGate ==
  /\ gateCall.at \in {"ran", "refused"} /\ gateCall' = NoCall
  /\ UNCHANGED <<settingVars, hostAccess, grantVars, gateEvents>>

(* ------------------------------ the grants ------------------------------ *)

(* A mutation is the grants it adds; the empty one clears them all.                        *)
Apply(m, gr) == IF m = {} THEN {} ELSE gr \cup m

(* mutateSessionGrants: the next state is computed from memory, stored, and then adopted.  *)
BeginMutation ==
  /\ gateReady = "ready" /\ mutation.at = "none" /\ grantTail # <<>>
  /\ mutation' = [at |-> "storing", next |-> Apply(Head(grantTail), grants)]
  /\ grantTail' = Tail(grantTail)
  /\ UNCHANGED <<settingVars, hostAccess, grants, grantsStored, gateReady, gateCall, given,
                 clearLost, gateEvents>>

StoreMutation ==
  /\ mutation.at = "storing"
  /\ grantsStored' = mutation.next /\ mutation' = [mutation EXCEPT !.at = "stored"]
  /\ UNCHANGED <<settingVars, hostAccess, grants, grantTail, gateReady, gateCall, given,
                 clearLost, gateEvents>>

EndMutation ==
  /\ mutation.at = "stored"
  /\ grants' = mutation.next /\ mutation' = [at |-> "none", next |-> {}]
  /\ gateCall' = IF gateCall.at = "granting"
                    /\ <<gateCall.call.tool, gateCall.call.origin>> \in mutation.next
                 THEN [gateCall EXCEPT !.at = "accepted"] ELSE gateCall
  /\ UNCHANGED <<settingVars, hostAccess, grantsStored, grantTail, gateReady, given, clearLost,
                 gateEvents>>

(* A clearing that waits, or that is being stored.                                         *)
ClearPending ==
  \/ \E n \in DOMAIN grantTail : grantTail[n] = {}
  \/ mutation.at = "storing" /\ mutation.next = {}

(* The storage refuses: no grant is honoured any more and every check and every decision   *)
(* throws, and so does what was chained; a clearing among it is lost.                      *)
FailMutation ==
  /\ mutation.at = "storing" /\ GateEvent
  /\ grants' = {} /\ gateReady' = "failed" /\ mutation' = [at |-> "none", next |-> {}]
  /\ grantTail' = <<>> /\ clearLost' = (clearLost \/ ClearPending)
  /\ gateCall' = IF gateCall.at \in {"asked", "deciding"} THEN gateCall ELSE NoCall
  /\ UNCHANGED <<settingVars, hostAccess, grantsStored, given>>

DecisionThrows ==
  /\ gateCall.at = "deciding" /\ gateReady = "failed" /\ gateCall' = NoCall
  /\ UNCHANGED <<settingVars, hostAccess, grantVars, gateEvents>>

ForgetGrants(o) ==
  /\ o \in hostAccess /\ GateEvent
  /\ hostAccess' = hostAccess \ {o} /\ given' = {}
  /\ grants' = {}
  /\ gateReady' = IF gateReady = "hydrating" THEN "revoked" ELSE gateReady
  /\ UNCHANGED <<settingVars, grantsStored, grantTail, mutation, gateCall, clearLost>>
(* The user takes access away: the grants go at once, and a clearing is chained behind the *)
(* mutation under way, which would otherwise bring them back. A gatekeeper that has failed *)
(* no longer writes: what is stored stays.                                                 *)
RemoveAccess(o) ==
  /\ o \in hostAccess /\ GateEvent
  /\ hostAccess' = hostAccess \ {o} /\ given' = {}
  /\ grants' = {}
  /\ gateReady' = IF gateReady = "hydrating" THEN "revoked" ELSE gateReady
  /\ grantTail' = IF gateReady = "failed" THEN grantTail ELSE Append(grantTail, {})
  /\ clearLost' = (clearLost \/ gateReady = "failed")
  /\ UNCHANGED <<settingVars, grantsStored, mutation, gateCall>>

(* What recovery makes of the call of a worker that stopped: nothing any more, the same    *)
(* question, or, when the decision was stored and its continuation not yet claimed, the    *)
(* decision once more.                                                                     *)
Recoverable ==
  {NoCall} \cup
    {[gateCall EXCEPT !.at = to, !.revision = Quiet, !.recovered = TRUE] :
       to \in CASE gateCall.at = "asked" -> {"asked"}
                [] gateCall.at = "deciding" /\ ~gateCall.recovered -> {"asked", "deciding"}
                [] gateCall.at \in {"granting", "accepted"} /\ ~gateCall.recovered -> {"deciding"}
                [] OTHER -> {}}

(* The worker is restarted: memory and the chain of mutations are gone.                    *)
RestartGate ==
  /\ GateEvent
  /\ grants' = {} /\ grantTail' = <<>> /\ mutation' = [at |-> "none", next |-> {}]
  /\ clearLost' = (clearLost \/ ClearPending)
  /\ gateReady' = "hydrating" /\ gateCall' \in Recoverable
  /\ given' = given \cap grantsStored
  /\ UNCHANGED <<settingVars, hostAccess, grantsStored>>

(* hydrateSessionState: what was stored, unless access was taken away meanwhile.           *)
HydrateGrants ==
  /\ gateReady \in {"hydrating", "revoked"}
  /\ grants' = IF gateReady = "revoked" THEN {} ELSE grantsStored
  /\ gateReady' = "ready"
  /\ UNCHANGED <<settingVars, hostAccess, grantsStored, grantTail, mutation, gateCall, given,
                 clearLost, gateEvents>>

(* The settings page and other threads change the rules, the policy or the patterns.       *)
EditSettings ==
  /\ GateEvent
  /\ \/ \E r \in RuleChoice :
          /\ rules' = IF r \in rules THEN rules \ {r} ELSE rules \cup {r}
          /\ UNCHANGED <<gatePolicy, userSensitive>>
     \/ gatePolicy' \in Policy \ {gatePolicy} /\ UNCHANGED <<rules, userSensitive>>
     \/ \E o \in GateOrigin \ userSensitive :
          userSensitive' = userSensitive \cup {o} /\ UNCHANGED <<rules, gatePolicy>>
  /\ UNCHANGED <<hostAccess, grantVars, gateCall>>

GateNext ==
  \/ \E call \in GateCall : CheckCall(call)
  \/ \E decision \in Decision : Accept(decision)
  \/ Decline \/ AcceptOnce \/ AcceptForSession \/ AcceptForSite \/ Dispatch \/ EndCallAtGate
  \/ BeginMutation \/ StoreMutation \/ EndMutation \/ FailMutation \/ DecisionThrows
  \/ \E o \in GateOrigin : RemoveAccess(o)
  \/ RestartGate \/ HydrateGrants \/ EditSettings

GateSpec == GateInit /\ [][GateNext]_gateVars

(* ------------------------------ properties ------------------------------ *)

GateTypeOK ==
  /\ rules \subseteq PermissionRule /\ gatePolicy \in Policy /\ userSensitive \subseteq GateOrigin
  /\ hostAccess \subseteq GateOrigin /\ grants \subseteq Grant /\ grantsStored \subseteq Grant
  /\ grantTail \in Seq(SUBSET Grant)
  /\ mutation \in [at : {"none", "storing", "stored"}, next : SUBSET Grant]
  /\ gateReady \in {"hydrating", "revoked", "ready", "failed"}
  /\ gateCall.at \in {"none", "asked", "deciding", "granting", "accepted", "dispatching", "ran",
                     "refused"}
  /\ given \subseteq Grant /\ clearLost \in BOOLEAN /\ gateEvents \in 0..MaxGateEvents

(* Once no mutation is under way, a grant that silences the gate is one that was chained   *)
(* behind the last removal of site access, in memory and in what a restarted worker will   *)
(* read - whatever order grants, removals and restarts came in. (A decision made before    *)
(* the removal and applied after it is chained behind it, and stays.) The exception is a   *)
(* clearing that never reached the storage, because the worker stopped before it or the    *)
(* storage refused: a restarted worker reads the grants that were taken away.              *)
GrantsAreGiven ==
  gateReady \in {"ready", "failed"} /\ mutation.at = "none" /\ grantTail = <<>>
    => /\ ~clearLost => grants \subseteq given
       /\ gateReady = "ready" => grants = grantsStored
================================================================================
