------------------------------- MODULE OAuthLogin -------------------------------
(* Authorizing one remote MCP server (src/mcp/oauth.ts, the permission stages of           *)
(* src/mcp/manager.ts, src/ui/settings/McpPage.tsx).                                       *)
(*                                                                                         *)
(* A flow discovers, in order, the resource's metadata, its authorization server's, and    *)
(* from them the plan: the endpoints to log in at. Before each request the stage asks      *)
(* whether the origin is permitted; what is missing becomes a pending plan with a digest,  *)
(* ends the flow and is shown to the user, who grants it and approves that digest. The     *)
(* servers may publish something else by the time the flow runs again, flows of the        *)
(* settings page, of a 401 and of a connect overlap, each acts on the credentials it read  *)
(* when it began, and the worker may stop between any two of their writes.                 *)
EXTENDS FiniteSets, Naturals

CONSTANTS
  LoginPlan,   \* what discovery may find: an issuer and its endpoints
  IssuerOf,    \* the issuer of a plan
  EndpointOf,  \* the origin of its endpoints
  Resource,    \* the origin of the MCP server
  NoLogin,     \* no plan, no digest, no client
  Configured,  \* the client id that an imported server came with
  MaxPublish,  \* bound: changes of the published plan and of site access, and worker stops
  MaxFlows     \* bound: flows

ASSUME LoginAssumption ==
  /\ NoLogin \notin LoginPlan /\ Configured \notin LoginPlan \cup {NoLogin} /\ MaxPublish \in Nat /\ MaxFlows \in Nat
  /\ \A p \in LoginPlan : Resource \notin {IssuerOf[p], EndpointOf[p]}

VARIABLES
  published,    \* the plan the servers publish now
  permitted,    \* origins the extension may reach
  auth,         \* local storage: client, binding and refresh token, each with its plan
  access,       \* session storage: the access token kept for an issuer, with its plan
  pendingPlan,  \* pendingPermissionPlans: the digest waiting for approval, by stage
  pagePlan,     \* the plan the settings page shows
  login,        \* the flows, by who began them
  publishes, flows,
  strayed,      \* a refresh token or a client was used with a plan it is not bound to
  unapproved    \* an approved login or refresh went to another plan

loginVars == <<published, permitted, auth, access, pendingPlan, pagePlan, login, publishes, flows,
               strayed, unapproved>>

Stage == {"resource", "authorization_server", "oauth_endpoints", "token_refresh"}
Beginner == {"settings", "challenge", "connect"}
LoginAt == {"idle", "resource", "issuer", "endpoints", "invalidating", "refresh", "registering",
            "window", "exchanging", "refreshing", "persisting", "storing", "saving"}
Issuers == {IssuerOf[p] : p \in LoginPlan}
NoAuth == [client |-> NoLogin, binding |-> NoLogin, tokens |-> NoLogin]
ConfiguredAuth == [NoAuth EXCEPT !.client = Configured]
NoApproval == [stage |-> "none", digest |-> NoLogin]
IdleLogin == [at |-> "idle", token |-> FALSE, read |-> NoAuth, issuer |-> NoLogin, plan |-> NoLogin,
              client |-> NoLogin, approval |-> NoApproval]

(* What an earlier session of the browser left: origins it was granted, a configured client *)
(* or credentials of some plan, and session storage empty.                                 *)
Origins == Issuers \cup {EndpointOf[p] : p \in LoginPlan}
BoundAuth(p) == [client |-> p, binding |-> p, tokens |-> p]

LoginInit ==
  /\ published \in LoginPlan /\ permitted \in {{Resource} \cup o : o \in SUBSET Origins}
  /\ auth \in {NoAuth, ConfiguredAuth} \cup {BoundAuth(p) : p \in LoginPlan}
  /\ access = [i \in Issuers |-> NoLogin]
  /\ pendingPlan = [s \in Stage |-> NoLogin] /\ pagePlan = NoApproval
  /\ login = [b \in Beginner |-> IdleLogin] /\ publishes = 0 /\ flows = 0
  /\ strayed = FALSE /\ unapproved = FALSE

(* ------------------------------ the world ------------------------------ *)

(* The servers publish something else; the user takes access to a site back.               *)
WorldChanges ==
  /\ publishes < MaxPublish /\ publishes' = publishes + 1
  /\ \/ published' \in LoginPlan \ {published} /\ UNCHANGED permitted
     \/ \E o \in permitted \ {Resource} : permitted' = permitted \ {o} /\ UNCHANGED published
  /\ UNCHANGED <<auth, access, pendingPlan, pagePlan, login, flows, strayed, unapproved>>

(* The worker stops: flows and pending plans are in its memory.                            *)
StopWorker ==
  /\ publishes < MaxPublish /\ publishes' = publishes + 1
  /\ login' = [b \in Beginner |-> IdleLogin] /\ pendingPlan' = [s \in Stage |-> NoLogin]
  /\ UNCHANGED <<published, permitted, auth, access, pagePlan, flows, strayed, unapproved>>

(* A pending plan expires after five minutes.                                              *)
PlanExpires(s) ==
  /\ pendingPlan[s] # NoLogin /\ pendingPlan' = [pendingPlan EXCEPT ![s] = NoLogin]
  /\ UNCHANGED <<published, permitted, auth, access, pagePlan, login, publishes, flows, strayed,
                 unapproved>>

(* ------------------------------ a stage ------------------------------ *)

To(b, at) == login' = [login EXCEPT ![b].at = at]
EndFlow(b) == login' = [login EXCEPT ![b] = IdleLogin]

AnyApproval(b, s, digest) == pendingPlan[s] # NoLogin
(* preparePermissionStage: an approval counts for its own stage, while the plan it names   *)
(* is pending and is what was found; without one the origins must be permitted.            *)
ApprovalHolds(b, s, digest) ==
  pendingPlan[s] # NoLogin /\ pendingPlan[s] = login[b].approval.digest
  /\ login[b].approval.digest = digest

Passes(b, s, origins, digest) ==
  /\ origins \subseteq permitted
  /\ login[b].approval.stage = s => ApprovalHolds(b, s, digest)

(* What is asked is shown by the page, whoever began the flow.                             *)
Require(b, s, digest) ==
  /\ pendingPlan' = [pendingPlan EXCEPT ![s] = digest]
  /\ pagePlan' = [stage |-> s, digest |-> digest] /\ EndFlow(b)

(* What a digest is taken of: the resource, the issuer, or the issuer and its endpoints.    *)
DigestOf(b, s) ==
  CASE s = "resource" -> Resource
    [] s = "authorization_server" -> login[b].issuer
    [] OTHER -> login[b].plan

PassOrRequire(b, s, origins, next) ==
  IF Passes(b, s, origins, DigestOf(b, s))
  THEN /\ pendingPlan' = IF login[b].approval.stage = s
                         THEN [pendingPlan EXCEPT ![s] = NoLogin] ELSE pendingPlan
       /\ login' = next /\ UNCHANGED pagePlan
  ELSE Require(b, s, DigestOf(b, s))

(* endpointFetchGuard, which every request to an endpoint passes: the stage again, without *)
(* an approval.                                                                            *)
MayFetch(b) == EndpointOf[login[b].plan] \in permitted
RequireAgain(b, s) == ~MayFetch(b) /\ Require(b, s, login[b].plan)

Digests == {Resource, NoLogin} \cup LoginPlan \cup Issuers

(* ------------------------------ a flow ------------------------------ *)

(* runOAuthFlow from the page, with the approval of the plan it shows and after granting   *)
(* its origins, or from a worker that was answered 401. validOAuthToken, which needs stored *)
(* tokens and their binding, is asked before a connect, and first of all by a flow that    *)
(* carries the approval of a refresh.                                                      *)
OriginsOf(s, digest) ==
  CASE s = "resource" -> {Resource}
    [] s = "authorization_server" -> {digest}
    [] s \in {"oauth_endpoints", "token_refresh"} -> {EndpointOf[digest]}
    [] OTHER -> {}

HasTokens == auth.tokens # NoLogin /\ auth.binding # NoLogin

BeginFlow(b) ==
  /\ login[b].at = "idle" /\ flows < MaxFlows /\ flows' = flows + 1
  /\ b = "connect" => HasTokens
  /\ \E approval \in {NoApproval} \cup (IF b = "settings" THEN {pagePlan} ELSE {}) :
       /\ login' = [login EXCEPT ![b] =
            [IdleLogin EXCEPT !.at = "resource", !.read = auth, !.approval = approval,
             !.token = HasTokens /\ (b = "connect" \/ approval.stage = "token_refresh")]]
       /\ permitted' = permitted \cup OriginsOf(approval.stage, approval.digest)
  /\ UNCHANGED <<published, auth, access, pendingPlan, pagePlan, publishes, strayed, unapproved>>

(* validOAuthToken returns null. The page's flow then returns what the connection's state  *)
(* still asks for, and where it asks nothing goes on to log in, with what it had read.     *)
GiveUpToken(b) ==
  \/ EndFlow(b)
  \/ /\ b # "connect"
     /\ login' = [login EXCEPT ![b] = [IdleLogin EXCEPT !.at = "resource", !.read = login[b].read,
                                       !.approval = login[b].approval]]

(* discoverProtectedResourceMetadata names the issuer.                                     *)
DiscoverResource(b) ==
  /\ login[b].at = "resource"
  /\ PassOrRequire(b, "resource", {Resource},
                   [login EXCEPT ![b].at = "issuer", ![b].issuer = IssuerOf[published]])
  /\ UNCHANGED <<published, permitted, auth, access, publishes, flows, strayed, unapproved>>

(* discoverAuthorizationMetadata, from what answers as the issuer that was named.          *)
AnswersAsNamed(b) == IssuerOf[published] = login[b].issuer

DiscoverIssuer(b) ==
  /\ login[b].at = "issuer" /\ AnswersAsNamed(b)
  /\ PassOrRequire(b, "authorization_server", {login[b].issuer},
                   [login EXCEPT ![b].at = "endpoints", ![b].plan = published])
  /\ UNCHANGED <<published, permitted, auth, access, publishes, flows, strayed, unapproved>>

(* discoverAuthServer throws: what was published is missing, unusable, about another       *)
(* resource or another issuer's.                                                           *)
DiscoveryFails(b) ==
  /\ login[b].at \in {"resource", "issuer"}
  /\ IF login[b].token THEN GiveUpToken(b) ELSE EndFlow(b)
  /\ UNCHANGED <<published, permitted, auth, access, pendingPlan, pagePlan, publishes, flows,
                 strayed, unapproved>>

(* prepareOAuthEndpointStage: the plan against the credentials that were read. A client is *)
(* used again with the plan it is bound to, and a configured one that is bound to none with *)
(* any. Credentials of another plan are deleted, and the user is asked, whatever is        *)
(* permitted; so they are when what the user approved is not what was found.               *)
SameBinding(read, p) == read.binding = p
UnboundClient(read) == read.client # NoLogin /\ read.binding = NoLogin /\ read.tokens = NoLogin
ReusesClient(b) ==
  /\ login[b].read.client # NoLogin
  /\ SameBinding(login[b].read, login[b].plan) \/ UnboundClient(login[b].read)
Changed(b) == login[b].read.binding # NoLogin /\ ~SameBinding(login[b].read, login[b].plan)
ApprovedOther(b) ==
  /\ login[b].approval.stage = "oauth_endpoints" /\ pendingPlan["oauth_endpoints"] # NoLogin
  /\ ~ApprovalHolds(b, "oauth_endpoints", login[b].plan)

(* deleteMcpAccess: the access token kept for the issuer that is bound now.                *)
WithoutAccess ==
  IF auth.binding = NoLogin THEN access
  ELSE [access EXCEPT ![IssuerOf[auth.binding]] = NoLogin]

(* invalidateOAuthCredentials deletes the access token and then everything else, the       *)
(* configured client included.                                                             *)
DropAccess(b) ==
  /\ login[b].at = "endpoints" /\ (Changed(b) \/ (ApprovedOther(b) /\ ~login[b].token))
  /\ access' = WithoutAccess /\ To(b, "invalidating")
  /\ UNCHANGED <<published, permitted, auth, pendingPlan, pagePlan, publishes, flows, strayed,
                 unapproved>>

DropChangedPlan(b) ==
  /\ login[b].at = "invalidating"
  /\ auth' = NoAuth /\ Require(b, "oauth_endpoints", login[b].plan)
  /\ UNCHANGED <<published, permitted, access, publishes, flows, strayed, unapproved>>

CheckEndpoints(b) ==
  /\ login[b].at = "endpoints" /\ ~Changed(b) /\ ~ApprovedOther(b) /\ ~login[b].token
  /\ PassOrRequire(b, "oauth_endpoints", {EndpointOf[login[b].plan]},
       [login EXCEPT ![b].at = IF ReusesClient(b) THEN "window" ELSE "registering",
                     ![b].client = login[b].read.client])
  /\ UNCHANGED <<published, permitted, auth, access, publishes, flows, strayed, unapproved>>

(* The rest of validOAuthToken, with credentials of this plan: the access token that is    *)
(* stored by now, unless it is expired or gone; else the refresh token, if there is one.   *)
UseToken(b) ==
  /\ login[b].at = "endpoints" /\ ~Changed(b) /\ login[b].token
  /\ \/ EndFlow(b) /\ auth.binding # NoLogin /\ access[IssuerOf[auth.binding]] # NoLogin
     \/ To(b, "refresh")
     \/ GiveUpToken(b)
  /\ UNCHANGED <<published, permitted, auth, access, pendingPlan, pagePlan, publishes, flows,
                 strayed, unapproved>>

CheckRefresh(b) ==
  /\ login[b].at = "refresh"
  /\ PassOrRequire(b, "token_refresh", {EndpointOf[login[b].plan]},
                   [login EXCEPT ![b].at = "refreshing", ![b].client = login[b].read.client])
  /\ UNCHANGED <<published, permitted, auth, access, publishes, flows, strayed, unapproved>>

(* registerClient, which may fail.                                                         *)
Register(b) ==
  /\ login[b].at = "registering"
  /\ \/ /\ MayFetch(b) /\ UNCHANGED <<pendingPlan, pagePlan>>
        /\ login' \in {[login EXCEPT ![b].at = "window", ![b].client = login[b].plan],
                       [login EXCEPT ![b] = IdleLogin]}
     \/ RequireAgain(b, "oauth_endpoints")
  /\ UNCHANGED <<published, permitted, auth, access, publishes, flows, strayed, unapproved>>

(* A client is used away from its plan: it was registered with another, or it was read     *)
(* together with a binding to another.                                                     *)
AwayFromPlan(b) ==
  \/ login[b].client \notin {login[b].plan, Configured}
  \/ login[b].client = Configured /\ login[b].read.binding \notin {NoLogin, login[b].plan}
ApprovedElsewhere(b, s) == login[b].approval.stage = s /\ login[b].approval.digest # login[b].plan

(* authorize: the window comes back with a code, or without.                               *)
OpenWindow(b) ==
  /\ login[b].at = "window"
  /\ To(b, "exchanging") \/ EndFlow(b)
  /\ strayed' = (strayed \/ AwayFromPlan(b))
  /\ unapproved' = (unapproved \/ ApprovedElsewhere(b, "oauth_endpoints"))
  /\ UNCHANGED <<published, permitted, auth, access, pendingPlan, pagePlan, publishes, flows>>

(* toTokens: the endpoint answers with tokens, or with nothing usable.                     *)
Exchange(b) ==
  /\ login[b].at = "exchanging"
  /\ \/ MayFetch(b) /\ (To(b, "persisting") \/ EndFlow(b)) /\ UNCHANGED <<pendingPlan, pagePlan>>
     \/ RequireAgain(b, "oauth_endpoints")
  /\ UNCHANGED <<published, permitted, auth, access, publishes, flows, strayed, unapproved>>

(* refreshTokens, with the client and the refresh token the flow read when it began.       *)
Refresh(b) ==
  /\ login[b].at = "refreshing"
  /\ \/ /\ MayFetch(b) /\ (To(b, "persisting") \/ GiveUpToken(b))
        /\ UNCHANGED <<pendingPlan, pagePlan>>
        /\ strayed' = (strayed \/ AwayFromPlan(b) \/ login[b].read.tokens # login[b].plan)
        /\ unapproved' = (unapproved \/ ApprovedElsewhere(b, "token_refresh"))
     \/ RequireAgain(b, "token_refresh") /\ UNCHANGED <<strayed, unapproved>>
  /\ UNCHANGED <<published, permitted, auth, access, publishes, flows>>

(* persistTokens, which deletes the access token of credentials bound otherwise,           *)
Persist(b) ==
  /\ login[b].at = "persisting" /\ To(b, "storing")
  /\ access' = IF SameBinding(auth, login[b].plan) THEN access ELSE WithoutAccess
  /\ UNCHANGED <<published, permitted, auth, pendingPlan, pagePlan, publishes, flows, strayed,
                 unapproved>>

(* and protectMcpServer, which keeps the new one in session storage under its issuer,      *)
StoreAccess(b) ==
  /\ login[b].at = "storing" /\ To(b, "saving")
  /\ access' = [access EXCEPT ![IssuerOf[login[b].plan]] = login[b].plan]
  /\ UNCHANGED <<published, permitted, auth, pendingPlan, pagePlan, publishes, flows, strayed,
                 unapproved>>

(* before client, binding and refresh token are written with the list of servers.          *)
SaveTokens(b) ==
  /\ login[b].at = "saving" /\ EndFlow(b)
  /\ auth' = [client |-> login[b].client, binding |-> login[b].plan, tokens |-> login[b].plan]
  /\ UNCHANGED <<published, permitted, access, pendingPlan, pagePlan, publishes, flows, strayed,
                 unapproved>>

LoginNext ==
  \/ WorldChanges \/ StopWorker \/ \E s \in Stage : PlanExpires(s)
  \/ \E b \in Beginner :
       \/ BeginFlow(b) \/ DiscoverResource(b) \/ DiscoverIssuer(b) \/ DiscoveryFails(b)
       \/ DropAccess(b) \/ DropChangedPlan(b)
       \/ CheckEndpoints(b) \/ UseToken(b) \/ CheckRefresh(b) \/ Register(b) \/ OpenWindow(b)
       \/ Exchange(b) \/ Refresh(b) \/ Persist(b) \/ StoreAccess(b) \/ SaveTokens(b)

LoginSpec == LoginInit /\ [][LoginNext]_loginVars

(* ------------------------------ what holds ------------------------------ *)

Credentials == [client : LoginPlan \cup {NoLogin, Configured}, binding : LoginPlan \cup {NoLogin},
                tokens : LoginPlan \cup {NoLogin}]
Approval == [stage : Stage \cup {"none"}, digest : Digests]
LoginTypeOK ==
  /\ published \in LoginPlan /\ strayed \in BOOLEAN /\ unapproved \in BOOLEAN
  /\ auth \in Credentials /\ access \in [Issuers -> LoginPlan \cup {NoLogin}]
  /\ pendingPlan \in [Stage -> Digests] /\ pagePlan \in Approval
  /\ login \in [Beginner -> [at : LoginAt, token : BOOLEAN, read : Credentials, issuer : Digests,
                            plan : LoginPlan \cup {NoLogin},
                            client : LoginPlan \cup {NoLogin, Configured}, approval : Approval]]

(* docs/en/development/mcp.md: resource, issuer, client and tokens remain bound, so that   *)
(* credentials cannot move to a changed server or issuer. Whatever the servers publish     *)
(* between two stages, whichever flow finishes last and wherever the worker stops, what is *)
(* stored locally belongs to one plan (the client unless it was configured), the access    *)
(* token kept for an issuer was issued by it, and no client or refresh token is used with  *)
(* a plan other than the one it is bound to; a login and a refresh that the user approved  *)
(* go to the plan they approved.                                                           *)
CredentialsBound ==
  /\ ~strayed /\ ~unapproved
  /\ auth.tokens = auth.binding /\ auth.client \in {auth.binding, Configured}
  /\ \A i \in Issuers : access[i] # NoLogin => IssuerOf[access[i]] = i
================================================================================
