------------------------------- MODULE McpServers -------------------------------
(* One remote MCP server as the background worker sees it: the stored configuration, the   *)
(* client that is connected, and everything that races over them (src/mcp/manager.ts,      *)
(* src/mcp/store.ts, src/mcp/oauth.ts, src/ui/settings/McpPage.tsx).                       *)
(*                                                                                         *)
(* Connects and disconnects of a server are chained on one tail. A connect reads the       *)
(* configuration, remembers its fingerprint, authorizes, shakes hands and reads the        *)
(* configuration again; every change of the stored configuration starts a reconciliation   *)
(* that closes what no longer matches. Authorization rewrites the configuration it read    *)
(* some awaits ago, and so does the settings page with the list it loaded when it opened.  *)
EXTENDS Naturals, Sequences, SequencesExt

CONSTANTS
  Url,          \* the addresses a configuration may name
  Issuer,       \* the authorization servers discovery may find behind an address
  None,         \* no binding, no client, no fingerprint
  MaxWrites,    \* bound: writes of the stored configuration
  MaxAsks       \* bound: requests of runs and of the settings page, and worker restarts

ASSUME ServersAssumption ==
  Url # {} /\ None \notin Url /\ MaxWrites \in Nat /\ MaxAsks \in Nat

VARIABLES
  serverConfig,   \* the stored configuration
  settingsCopy,   \* the configuration the settings page loaded, or None while it is closed
  connectTail,    \* the chained connects and disconnects; the head is at work
  connectStep,    \* where the head is, the configuration it read, and whether it may retry
  fingerprint,    \* connectionFingerprints
  connected,      \* the fingerprint of the connected client
  shown,          \* the connection state the settings page shows
  reconciler,     \* the reconciliations of stored changes, one for each write
  flow,           \* the OAuth flows, by who asked
  writes, asks

serverVars == <<serverConfig, settingsCopy, connectTail, connectStep, fingerprint, connected,
                shown, reconciler, flow, writes, asks>>

Binding == {<<u, i>> : u \in Url, i \in Issuer} \cup {None}
Config == [on : BOOLEAN, url : Url, binding : Binding]
(* Who asks for an OAuth flow: the settings page's button, or a server that answered 401.  *)
Asker == {"settings", "challenge"}

FingerprintOf(c) == <<c.url, c.binding>>
Fingerprint == {FingerprintOf(c) : c \in Config} \cup {None}

ASSUME FingerprintAssumption == \A c \in Config : FingerprintOf(c) # None

IdleFlow == [at |-> "idle", binding |-> None, base |-> None]
IdleReconciler == [at |-> "idle", seen |-> None, mark |-> None]
NotStarted == [at |-> "queued", read |-> None, latest |-> None, retried |-> FALSE]

(* A write of the stored list is an event: it starts a reconciliation of its own.          *)
Store(c) ==
  /\ writes < MaxWrites
  /\ serverConfig' = c /\ writes' = writes + 1
  /\ reconciler' = [reconciler EXCEPT ![writes + 1].at = "reading"]

(* connect: a pending attempt is shared, otherwise a new one is chained after the tail.    *)
WithConnect(tail, by) ==
  IF tail # <<>> /\ Last(tail).kind = "connect"
  THEN tail
  ELSE Append(tail, [kind |-> "connect", by |-> by])
(* disconnect: always chained, and no later connect shares an attempt before it.           *)
WithDisconnect(tail, by) == Append(tail, [kind |-> "disconnect", by |-> by])

ServersInit ==
  /\ serverConfig = [on |-> TRUE, url |-> CHOOSE u \in Url : TRUE, binding |-> None]
  /\ settingsCopy = None /\ connectTail = <<>> /\ connectStep = NotStarted
  /\ fingerprint = None /\ connected = None /\ shown = "disconnected"
  /\ reconciler = [w \in 1..MaxWrites |-> IdleReconciler]
  /\ flow = [a \in Asker |-> IdleFlow]
  /\ writes = 0 /\ asks = 0

(* ------------------------------ connect ------------------------------ *)

(* ensureConnected, before a run and for the catalogue, and the page's connect button.     *)
AskConnect ==
  /\ asks < MaxAsks /\ asks' = asks + 1
  /\ serverConfig.on /\ connected = None /\ Len(connectTail) < 2
  /\ connectTail' = WithConnect(connectTail, 0)
  /\ connectTail' # connectTail
  /\ UNCHANGED <<serverConfig, settingsCopy, connectStep, fingerprint, connected, shown,
                 reconciler, flow, writes>>

Working(kind, at) ==
  connectTail # <<>> /\ Head(connectTail).kind = kind /\ connectStep.at = at

EndOperation == connectTail' = Tail(connectTail) /\ connectStep' = NotStarted

(* connectCandidate up to the digest of the configuration it read.                         *)
BeginConnect ==
  /\ Working("connect", "queued")
  /\ IF serverConfig.on /\ connected = None
     THEN /\ connectStep' = [connectStep EXCEPT !.at = "digesting", !.read = serverConfig]
          /\ UNCHANGED connectTail
     ELSE EndOperation
  /\ UNCHANGED <<serverConfig, settingsCopy, fingerprint, connected, shown, reconciler, flow,
                 writes, asks>>

(* The digest is back: the attempt is visible to reconciliation from here on.              *)
MarkConnect ==
  /\ Working("connect", "digesting")
  /\ fingerprint' = FingerprintOf(connectStep.read) /\ shown' = "connecting"
  /\ connectStep' = [connectStep EXCEPT !.at = "authorizing"]
  /\ UNCHANGED <<serverConfig, settingsCopy, connectTail, connected, reconciler, flow,
                 writes, asks>>

(* preparePermissionStage refuses: the site access was never given, or was taken back.     *)
DenyHost ==
  /\ Working("connect", "authorizing")
  /\ connectStep' = [connectStep EXCEPT !.at = "closing"]
  /\ UNCHANGED <<serverConfig, settingsCopy, connectTail, fingerprint, connected, shown,
                 reconciler, flow, writes, asks>>

(* authHeaderFor: no usable token leaves the header out, and so does a token whose binding *)
(* discovery no longer confirms; that one is also wiped (invalidateOAuthCredentials).      *)
Authorize ==
  /\ Working("connect", "authorizing")
  /\ \/ /\ connectStep' = [connectStep EXCEPT !.at = "shaking"]
        /\ UNCHANGED <<serverConfig, reconciler, writes, shown>>
     \/ \E i \in Issuer :
          /\ serverConfig.binding \notin {None, <<serverConfig.url, i>>}
          /\ connectStep' = [connectStep EXCEPT !.at = "shaking"]
          /\ Store([serverConfig EXCEPT !.binding = None]) /\ shown' = "error"
  /\ UNCHANGED <<settingsCopy, connectTail, fingerprint, connected, flow,
                 asks>>

(* The handshake through the offscreen document: it succeeds, fails, or the server answers *)
(* 401 and the document asks the background worker to authorize again, once.               *)
Handshake ==
  /\ Working("connect", "shaking")
  /\ \/ /\ connectStep' = [connectStep EXCEPT !.at = "rereading"] /\ UNCHANGED flow
     \/ /\ connectStep' = [connectStep EXCEPT !.at = "closing"] /\ UNCHANGED flow
     \/ /\ ~connectStep.retried /\ flow["challenge"].at = "idle"
        /\ connectStep' = [connectStep EXCEPT !.at = "challenged", !.retried = TRUE]
        /\ flow' = [flow EXCEPT !["challenge"].at = "discovering"]
  /\ UNCHANGED <<serverConfig, settingsCopy, connectTail, fingerprint, connected, shown,
                 reconciler, writes, asks>>

(* reauthorizeWorker answered: the request is repeated with whatever token there is.       *)
RetryHandshake ==
  /\ Working("connect", "challenged") /\ flow["challenge"].at = "idle"
  /\ connectStep' = [connectStep EXCEPT !.at = "shaking"]
  /\ UNCHANGED <<serverConfig, settingsCopy, connectTail, fingerprint, connected, shown,
                 reconciler, flow, writes, asks>>

(* The configuration is read once more, and digested.                                      *)
Reread ==
  /\ Working("connect", "rereading")
  /\ connectStep' = [connectStep EXCEPT !.at = "verifying", !.latest = serverConfig]
  /\ UNCHANGED <<serverConfig, settingsCopy, connectTail, fingerprint, connected, shown,
                 reconciler, flow, writes, asks>>

AlwaysAsRead == TRUE
StillAsRead == connectStep.latest.on
               /\ FingerprintOf(connectStep.latest) = FingerprintOf(connectStep.read)

FinishConnect ==
  /\ Working("connect", "verifying")
  /\ IF StillAsRead
     THEN connected' = FingerprintOf(connectStep.read) /\ shown' = "ready" /\ EndOperation
     ELSE /\ connectStep' = [connectStep EXCEPT !.at = "closing"]
          /\ UNCHANGED <<connected, shown, connectTail>>
  /\ UNCHANGED <<serverConfig, settingsCopy, fingerprint, reconciler, flow,
                 writes, asks>>

(* A failed attempt closes its candidate and forgets the fingerprint it set.               *)
FailConnect ==
  /\ Working("connect", "closing")
  /\ fingerprint' = IF connected = None /\ fingerprint = FingerprintOf(connectStep.read)
                    THEN None ELSE fingerprint
  /\ shown' = "error" /\ EndOperation
  /\ UNCHANGED <<serverConfig, settingsCopy, connected, reconciler, flow, writes, asks>>

(* ------------------------------ disconnect ------------------------------ *)

AskDisconnect ==
  /\ asks < MaxAsks /\ asks' = asks + 1
  /\ connected # None /\ Len(connectTail) < 2
  /\ \A n \in DOMAIN connectTail : connectTail[n].kind # "disconnect"
  /\ connectTail' = WithDisconnect(connectTail, 0)
  /\ UNCHANGED <<serverConfig, settingsCopy, connectStep, fingerprint, connected, shown,
                 reconciler, flow, writes>>

BeginDisconnect ==
  /\ Working("disconnect", "queued")
  /\ connected' = None /\ fingerprint' = None
  /\ connectStep' = [connectStep EXCEPT !.at = "closing"]
  /\ UNCHANGED <<serverConfig, settingsCopy, connectTail, shown, reconciler, flow,
                 writes, asks>>

FinishDisconnect ==
  /\ Working("disconnect", "closing")
  /\ shown' = "disconnected" /\ EndOperation
  /\ UNCHANGED <<serverConfig, settingsCopy, fingerprint, connected, reconciler, flow,
                 writes, asks>>

(* ------------------------------ reconciliation ------------------------------ *)

(* reconcileStorage reads the list, and takes the fingerprint it will compare with it.     *)
ReadStored(w) ==
  /\ reconciler[w].at = "reading"
  /\ reconciler' = [reconciler EXCEPT ![w] =
                      [at |-> "comparing", seen |-> serverConfig, mark |-> fingerprint]]
  /\ UNCHANGED <<serverConfig, settingsCopy, connectTail, connectStep, fingerprint, connected,
                 shown, flow, writes, asks>>

OnlySwitchedOff(w) == reconciler[w].mark # None /\ ~reconciler[w].seen.on
Stale(w) == LET r == reconciler[w]
            IN r.mark # None /\ (~r.seen.on \/ FingerprintOf(r.seen) # r.mark)

(* The digest is back: what is stale, or connected to a server now off, is disconnected.   *)
CompareStored(w) ==
  /\ reconciler[w].at = "comparing"
  /\ LET close == Stale(w) \/ (connected # None /\ ~reconciler[w].seen.on)
     IN /\ reconciler' = [reconciler EXCEPT ![w].at = "closing"]
        /\ connectTail' = IF close THEN WithDisconnect(connectTail, w) ELSE connectTail
  /\ UNCHANGED <<serverConfig, settingsCopy, connectStep, fingerprint, connected, shown, flow,
                 writes, asks>>

(* Its disconnect is over: the servers that connect on startup are connected again.        *)
Reconnect(w) ==
  /\ reconciler[w].at = "closing"
  /\ \A n \in DOMAIN connectTail : connectTail[n].by # w
  /\ reconciler' = [reconciler EXCEPT ![w] = IdleReconciler]
  /\ connectTail' = IF serverConfig.on /\ connected = None
                    THEN WithConnect(connectTail, 0) ELSE connectTail
  /\ UNCHANGED <<serverConfig, settingsCopy, connectStep, fingerprint, connected, shown, flow,
                 writes, asks>>

(* ------------------------------ OAuth ------------------------------ *)

AskAuthorization ==
  /\ asks < MaxAsks /\ asks' = asks + 1
  /\ settingsCopy # None /\ flow["settings"].at = "idle"
  /\ flow' = [flow EXCEPT !["settings"].at = "discovering"]
  /\ UNCHANGED <<serverConfig, settingsCopy, connectTail, connectStep, fingerprint, connected,
                 shown, reconciler, writes>>

(* runOAuthFlow: discovery finds the issuer. A plan that changed wipes the credentials and *)
(* ends the flow with a question for the user; otherwise the login window opens.           *)
Discover(a) ==
  /\ flow[a].at = "discovering"
  /\ \/ \E i \in Issuer :
          LET found == <<serverConfig.url, i>>
          IN \/ /\ serverConfig.binding \in {None, found}
                /\ flow' = [flow EXCEPT ![a].at = "login", ![a].binding = found]
                /\ UNCHANGED <<serverConfig, reconciler, writes, shown>>
             \/ /\ serverConfig.binding \notin {None, found}
                /\ Store([serverConfig EXCEPT !.binding = None])
                /\ flow' = [flow EXCEPT ![a] = IdleFlow] /\ shown' = "error"
     \/ /\ flow' = [flow EXCEPT ![a] = IdleFlow] /\ shown' = "error"
        /\ UNCHANGED <<serverConfig, reconciler, writes>>
  /\ UNCHANGED <<settingsCopy, connectTail, connectStep, fingerprint, connected, asks>>

(* The login window ends; the tokens are exchanged and the list is read to add them to it. *)
FinishLogin(a) ==
  /\ flow[a].at = "login"
  /\ \/ /\ flow' = [flow EXCEPT ![a].at = "saving", ![a].base = serverConfig] /\ UNCHANGED shown
     \/ /\ flow' = [flow EXCEPT ![a] = IdleFlow] /\ shown' = "error"
  /\ UNCHANGED <<serverConfig, settingsCopy, connectTail, connectStep, fingerprint, connected,
                 reconciler, writes, asks>>

(* persistTokens writes the whole list it read; the settings page then asks to connect.    *)
PersistTokens(a) ==
  /\ flow[a].at = "saving"
  /\ Store([flow[a].base EXCEPT !.binding = flow[a].binding])
  /\ flow' = [flow EXCEPT ![a] = IdleFlow]
  /\ connectTail' = IF a = "settings" THEN WithConnect(connectTail, 0) ELSE connectTail
  /\ UNCHANGED <<settingsCopy, connectStep, fingerprint, connected, shown,
                 asks>>

(* ------------------------------ the settings page and imports ------------------------------ *)

OpenSettings ==
  /\ settingsCopy = None /\ settingsCopy' = serverConfig
  /\ UNCHANGED <<serverConfig, connectTail, connectStep, fingerprint, connected, shown,
                 reconciler, flow, writes, asks>>

(* The enabled switch: the page saves the list it holds, with the one field changed.       *)
SwitchServer ==
  /\ settingsCopy # None
  /\ settingsCopy' = [settingsCopy EXCEPT !.on = ~@]
  /\ Store(settingsCopy')
  /\ UNCHANGED <<connectTail, connectStep, fingerprint, connected, shown, flow,
                 asks>>

(* A data import replaces the list: the same server may come back at another address.      *)
ReplaceConfig ==
  /\ \E u \in Url \ {serverConfig.url} : Store([on |-> TRUE, url |-> u, binding |-> None])
  /\ UNCHANGED <<settingsCopy, connectTail, connectStep, fingerprint, connected, shown, flow,
                 asks>>

(* The background worker is stopped and started: only what is stored survives, and the     *)
(* servers that connect on startup are connected.                                          *)
RestartManager ==
  /\ asks < MaxAsks /\ asks' = asks + 1
  /\ connectTail' = IF serverConfig.on THEN WithConnect(<<>>, 0) ELSE <<>>
  /\ connectStep' = NotStarted /\ fingerprint' = None /\ connected' = None
  /\ shown' = "disconnected"
  /\ reconciler' = [w \in 1..MaxWrites |-> IdleReconciler]
  /\ flow' = [a \in Asker |-> IdleFlow]
  /\ UNCHANGED <<serverConfig, settingsCopy, writes>>

ServersNext ==
  \/ AskConnect \/ BeginConnect \/ MarkConnect \/ DenyHost \/ Authorize \/ Handshake
  \/ RetryHandshake \/ Reread \/ FinishConnect \/ FailConnect
  \/ AskDisconnect \/ BeginDisconnect \/ FinishDisconnect
  \/ \E w \in 1..MaxWrites : ReadStored(w) \/ CompareStored(w) \/ Reconnect(w)
  \/ AskAuthorization
  \/ \E a \in Asker : Discover(a) \/ FinishLogin(a) \/ PersistTokens(a)
  \/ OpenSettings \/ SwitchServer \/ ReplaceConfig \/ RestartManager

ServersSpec == ServersInit /\ [][ServersNext]_serverVars

(* ------------------------------ properties ------------------------------ *)

ServersTypeOK ==
  /\ serverConfig \in Config /\ settingsCopy \in Config \cup {None}
  /\ connectTail \in Seq([kind : {"connect", "disconnect"}, by : 0..MaxWrites])
  /\ connectStep \in
       [at : {"queued", "digesting", "authorizing", "shaking", "challenged", "rereading",
              "verifying", "closing"},
        read : Config \cup {None}, latest : Config \cup {None}, retried : BOOLEAN]
  /\ fingerprint \in Fingerprint /\ connected \in Fingerprint
  /\ shown \in {"disconnected", "connecting", "ready", "error"}
  /\ reconciler \in [1..MaxWrites ->
       [at : {"idle", "reading", "comparing", "closing"}, seen : Config \cup {None},
        mark : Fingerprint]]
  /\ flow \in [Asker -> [at : {"idle", "discovering", "login", "saving"}, binding : Binding,
                         base : Config \cup {None}]]
  /\ writes \in 0..MaxWrites /\ asks \in 0..MaxAsks

Settled == connectTail = <<>> /\ \A w \in 1..MaxWrites : reconciler[w].at = "idle"

(* However connects, disconnects, stored changes and authorizations interleave: once no    *)
(* operation and no reconciliation is under way, a connected client is the one of an       *)
(* enabled server at its stored address and with its stored authorization, its fingerprint *)
(* is remembered (or the next change would miss it), and "ready" is shown only for it      *)
(* (connectCandidate's second reading, disconnect as a barrier, reconcileStorage).         *)
ConnectedAsStored ==
  Settled => /\ connected # None => /\ serverConfig.on
                                    /\ connected = FingerprintOf(serverConfig)
                                    /\ fingerprint = connected
             /\ shown = "ready" => connected # None
================================================================================
