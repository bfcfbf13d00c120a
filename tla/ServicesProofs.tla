---------------------------- MODULE ServicesProofs ----------------------------
(****************************************************************************)
(* What is proved of the worker's services: the client of an MCP server is     *)
(* always of the settings stored, a cancelled call never reaches the server,   *)
(* the grants of the gatekeeper are those the user gave, an update of a list   *)
(* of settings is never undone, a message goes where it was typed, a branch of *)
(* a conversation keeps what was written, and a run keeps the environment it    *)
(* resolved.                                                                    *)
(****************************************************************************)
EXTENDS McpServers, McpSession, Gatekeeper, ConversationTree, SettingsSync, Composer,
        RunEnvironment, DataLemmas

USE DEF serverVars, sessionVars, callVars, gateVars, settingVars, grantVars,
        settingsVars, storage, mirror, environmentVars, composer, drafts, pageVars,
        composerVars, treeVars

-------------------------------------------------------------------------------
(****************************************************************************)
(* The connection to an MCP server.  A connected client that no longer is what  *)
(* is stored has something on its way that closes it: a disconnect in the chain,*)
(* a reconciliation that has yet to read what is stored, or one that read it    *)
(* and will find the client stale.                                              *)
(****************************************************************************)
Operations == [kind : {"connect", "disconnect"}, by : 0..MaxWrites]
StepAt == {"queued", "digesting", "authorizing", "shaking", "challenged", "rereading",
           "verifying", "closing"}
Steps == [at : StepAt, read : Config \cup {None}, latest : Config \cup {None}, retried : BOOLEAN]
Reconciliations ==
  [at : {"idle", "reading", "comparing", "closing"}, seen : Config \cup {None},
   mark : Fingerprint]
Flows == [at : {"idle", "discovering", "login", "saving"}, binding : Binding,
          base : Config \cup {None}]

ServerTypes ==
  /\ serverConfig \in Config /\ settingsCopy \in Config \cup {None}
  /\ connectTail \in Seq(Operations) /\ connectStep \in Steps
  /\ fingerprint \in Fingerprint /\ connected \in Fingerprint
  /\ reconciler \in [1..MaxWrites -> Reconciliations]
  /\ flow \in [Asker -> Flows] /\ writes \in 0..MaxWrites
  /\ \A a \in Asker : flow[a].at = "saving" => flow[a].base \in Config
  /\ \A w \in 1..MaxWrites : reconciler[w].at = "comparing" => reconciler[w].seen \in Config

Good(c) == serverConfig.on /\ c = FingerprintOf(serverConfig)

Fixing ==
  \/ \E n \in 1..Len(connectTail) : connectTail[n].kind = "disconnect"
  \/ \E w \in 1..MaxWrites :
       reconciler[w].at = "reading" \/ (reconciler[w].at = "comparing" /\ Stale(w))

\* Where the operation at the head of the chain stands.
HeadInv ==
  /\ connectStep.at # "queued" => connectTail # <<>> /\ connected = None
  /\ connectStep.at \notin {"queued", "closing"} =>
       Head(connectTail).kind = "connect" /\ connectStep.read \in Config
  /\ connectStep.at \in {"authorizing", "shaking", "challenged", "rereading", "verifying"} =>
       fingerprint = FingerprintOf(connectStep.read)

\* What was read again is what is stored, or will be looked at once more.
VerifyInv ==
  connectStep.at = "verifying" =>
    connectStep.latest = serverConfig \/ Good(FingerprintOf(connectStep.read)) \/ Fixing

ClientInv == connected # None => fingerprint = connected /\ (Good(connected) \/ Fixing)

ShownInv ==
  shown = "ready" =>
    \/ connected # None
    \/ connectTail # <<>> /\ Head(connectTail).kind = "disconnect" /\ connectStep.at = "closing"

ServerInv == ServerTypes /\ HeadInv /\ VerifyInv /\ ClientInv /\ ShownInv

LEMMA NothingStarted == NotStarted \in Steps /\ NotStarted.at = "queued"
BY DEF NotStarted, Steps, StepAt

LEMMA IdleTyped ==
  /\ IdleReconciler \in Reconciliations /\ IdleReconciler.at = "idle"
  /\ IdleFlow \in Flows /\ IdleFlow.at = "idle"
BY DEF IdleReconciler, Reconciliations, IdleFlow, Flows, Fingerprint, Binding

LEMMA ServersStart == ASSUME ServersInit PROVE ServerInv
<1>1. /\ connectTail = <<>> /\ connectStep = NotStarted /\ settingsCopy = None
      /\ fingerprint = None /\ connected = None /\ shown = "disconnected"
      /\ reconciler = [w \in 1..MaxWrites |-> IdleReconciler]
      /\ flow = [a \in Asker |-> IdleFlow] /\ writes = 0
  BY DEF ServersInit
<1>2. serverConfig \in Config
  <2>1. (CHOOSE u \in Url : TRUE) \in Url
    BY ServersAssumption
  <2> QED BY <2>1 DEF ServersInit, Config, Binding
<1>3. connectTail \in Seq(Operations) /\ None \in Fingerprint /\ writes \in 0..MaxWrites
  BY <1>1, ServersAssumption DEF Fingerprint
<1>4. ServerTypes
  BY <1>1, <1>2, <1>3, NothingStarted, IdleTyped DEF ServerTypes
<1>5. HeadInv /\ VerifyInv /\ ClientInv /\ ShownInv
  BY <1>1, NothingStarted DEF HeadInv, VerifyInv, ClientInv, ShownInv
<1> QED BY <1>4, <1>5 DEF ServerInv

\* The head of a chain stays where it is when an operation is chained after it.
LEMMA TailGrown ==
  ASSUME NEW t \in Seq(Operations), NEW o \in Operations, NEW s, s = Append(t, o)
  PROVE  /\ s \in Seq(Operations) /\ s # <<>> /\ Len(t) \in Nat
         /\ Len(s) = Len(t) + 1 /\ s[Len(t) + 1] = o
         /\ \A n \in 1..Len(t) : n \in 1..Len(s) /\ s[n] = t[n]
         /\ t # <<>> => Head(s) = Head(t)
<1>1. s \in Seq(Operations) /\ Len(t) \in Nat /\ Len(s) = Len(t) + 1 /\ s[Len(t) + 1] = o
      /\ \A n \in 1..Len(t) : n \in 1..Len(s) /\ s[n] = t[n]
  OBVIOUS
<1>2. s # <<>>
  BY <1>1, EmptySeq
<1>3. t # <<>> => Head(s) = Head(t)
  BY <1>1, <1>2, EmptySeq, HeadTailProperties
<1> QED BY <1>1, <1>2, <1>3

\* Chaining leaves the chain as it is or adds an operation.
LEMMA ChainedOne ==
  ASSUME NEW t \in Seq(Operations), NEW by \in 0..MaxWrites
  PROVE  /\ WithConnect(t, by) = t \/ \E o \in Operations : WithConnect(t, by) = Append(t, o)
         /\ \E o \in Operations : o.kind = "disconnect" /\ WithDisconnect(t, by) = Append(t, o)
<1>1. [kind |-> "connect", by |-> by] \in Operations
      /\ [kind |-> "disconnect", by |-> by] \in Operations
  BY DEF Operations
<1> QED BY <1>1 DEF WithConnect, WithDisconnect

\* An operation is chained and nothing else changes.
LEMMA ChainGrows ==
  ASSUME ServerInv, NEW o \in Operations, connectTail' = Append(connectTail, o),
         UNCHANGED <<serverConfig, settingsCopy, connectStep, fingerprint, connected, shown,
                     reconciler, flow, writes>>
  PROVE  ServerInv' /\ (o.kind = "disconnect" => Fixing')
<1>1. connectTail \in Seq(Operations)
  BY DEF ServerInv, ServerTypes
<1>2. /\ connectTail' \in Seq(Operations) /\ connectTail' # <<>> /\ Len(connectTail) \in Nat
      /\ Len(connectTail') = Len(connectTail) + 1 /\ connectTail'[Len(connectTail) + 1] = o
      /\ \A n \in 1..Len(connectTail) : n \in 1..Len(connectTail') /\ connectTail'[n] = connectTail[n]
      /\ connectTail # <<>> => Head(connectTail') = Head(connectTail)
  BY <1>1, TailGrown
<1>3. Fixing => Fixing'
  BY <1>2 DEF Fixing, Stale
<1>4. ServerTypes'
  BY <1>2 DEF ServerInv, ServerTypes
<1>5. HeadInv'
  BY <1>2 DEF ServerInv, HeadInv
<1>6. VerifyInv' /\ ClientInv'
  BY <1>3 DEF ServerInv, VerifyInv, ClientInv, Good
<1>7. ShownInv'
  BY <1>2 DEF ServerInv, ShownInv
<1>8. o.kind = "disconnect" => Fixing'
  BY <1>2 DEF Fixing
<1> QED BY <1>4, <1>5, <1>6, <1>7, <1>8 DEF ServerInv

\* Nothing the invariant is about changes.
LEMMA ServerIdles ==
  ASSUME ServerInv, UNCHANGED <<serverConfig, connectTail, connectStep, fingerprint, connected,
                                reconciler, writes>>,
         shown' = shown \/ shown' = "error",
         settingsCopy' \in Config \cup {None}, flow' \in [Asker -> Flows],
         \A a \in Asker : flow'[a].at = "saving" => flow'[a].base \in Config
  PROVE  ServerInv'
<1>1. ServerTypes'
  BY DEF ServerInv, ServerTypes
<1>2. HeadInv' /\ ShownInv'
  BY DEF ServerInv, HeadInv, ShownInv
<1>3. VerifyInv' /\ ClientInv'
  BY DEF ServerInv, VerifyInv, ClientInv, Good, Fixing, Stale
<1> QED BY <1>1, <1>2, <1>3 DEF ServerInv

\* What is stored changes: the reconciliation of the write has yet to read it.
LEMMA StoreFixes ==
  ASSUME ServerTypes, NEW c \in Config, Store(c)
  PROVE  /\ serverConfig' = c /\ writes' \in 0..MaxWrites
         /\ reconciler' \in [1..MaxWrites -> Reconciliations]
         /\ \A w \in 1..MaxWrites : reconciler'[w].at = "comparing" => reconciler'[w].seen \in Config
         /\ \E w \in 1..MaxWrites : reconciler'[w].at = "reading"
<1>1. writes + 1 \in 1..MaxWrites
  BY ServersAssumption DEF Store, ServerTypes
<1>2. PICK w \in 1..MaxWrites : w = writes + 1
  BY <1>1
<1>3. PICK r : r = [reconciler[w] EXCEPT !.at = "reading"]
  OBVIOUS
<1>4. reconciler[w] \in Reconciliations
  BY DEF ServerTypes
<1>5. r \in Reconciliations /\ r.at = "reading"
  BY <1>3, <1>4 DEF Reconciliations
<1>6. reconciler' = [reconciler EXCEPT ![w] = r]
  BY <1>2, <1>3 DEF Store, ServerTypes
<1>7. /\ reconciler' \in [1..MaxWrites -> Reconciliations] /\ reconciler'[w] = r
      /\ \A v \in 1..MaxWrites : v # w => reconciler'[v] = reconciler[v]
  BY <1>5, <1>6 DEF ServerTypes
<1> QED BY <1>1, <1>2, <1>5, <1>7, ServersAssumption DEF Store, ServerTypes

LEMMA StoredChanges ==
  ASSUME ServerInv, NEW c \in Config, Store(c),
         UNCHANGED <<fingerprint, connected>>, shown' = shown \/ shown' = "error",
         settingsCopy' \in Config \cup {None}, flow' \in [Asker -> Flows],
         \A a \in Asker : flow'[a].at = "saving" => flow'[a].base \in Config,
         connectTail' = connectTail \/ \E o \in Operations : connectTail' = Append(connectTail, o),
         connectStep' \in Steps,
         connectStep' = connectStep \/ (/\ connectStep.at = "authorizing" /\ connectStep'.at = "shaking"
                                        /\ connectStep'.read = connectStep.read)
  PROVE  ServerInv'
<1>1. /\ serverConfig' = c /\ writes' \in 0..MaxWrites
      /\ reconciler' \in [1..MaxWrites -> Reconciliations]
      /\ \A w \in 1..MaxWrites : reconciler'[w].at = "comparing" => reconciler'[w].seen \in Config
      /\ \E w \in 1..MaxWrites : reconciler'[w].at = "reading"
  BY StoreFixes DEF ServerInv
<1>2. connectTail \in Seq(Operations)
  BY DEF ServerInv, ServerTypes
<1>3. /\ connectTail' \in Seq(Operations)
      /\ connectTail # <<>> => connectTail' # <<>> /\ Head(connectTail') = Head(connectTail)
  BY <1>2, TailGrown
<1>4. Fixing'
  BY <1>1 DEF Fixing
<1>5. ServerTypes'
  BY <1>1, <1>3 DEF ServerInv, ServerTypes
<1>6. HeadInv'
  BY <1>3 DEF ServerInv, HeadInv
<1>7. VerifyInv' /\ ClientInv'
  BY <1>4 DEF ServerInv, VerifyInv, ClientInv
<1>8. ShownInv'
  BY <1>3 DEF ServerInv, ShownInv
<1> QED BY <1>5, <1>6, <1>7, <1>8 DEF ServerInv

\* The attempt at the head of the chain takes a step.
LEMMA AttemptMoves ==
  ASSUME ServerInv, NEW e \in Steps, connectStep' = e,
         connectTail # <<>>, connected = None, Head(connectTail).kind = "connect",
         UNCHANGED <<serverConfig, settingsCopy, connectTail, connected, reconciler, writes>>,
         flow' \in [Asker -> Flows],
         \A a \in Asker : flow'[a].at = "saving" => flow'[a].base \in Config,
         fingerprint' \in Fingerprint,
         shown' = shown \/ shown' = "connecting", shown # "ready",
         e.at \notin {"queued", "closing"} => e.read \in Config,
         e.at \in {"authorizing", "shaking", "challenged", "rereading", "verifying"} =>
           fingerprint' = FingerprintOf(e.read),
         e.at = "verifying" => e.latest = serverConfig
  PROVE  ServerInv'
<1>1. ServerTypes'
  BY DEF ServerInv, ServerTypes
<1>2. HeadInv' /\ VerifyInv' /\ ClientInv' /\ ShownInv'
  BY DEF HeadInv, VerifyInv, ClientInv, ShownInv
<1> QED BY <1>1, <1>2 DEF ServerInv

\* The attempt the step Working names.
LEMMA AttemptAt ==
  ASSUME ServerInv, NEW a \in StepAt, Working("connect", a)
  PROVE  /\ connectTail # <<>> /\ Head(connectTail).kind = "connect" /\ connectStep.at = a
         /\ a # "queued" => connected = None /\ shown # "ready"
         /\ a \notin {"queued", "closing"} => connectStep.read \in Config
         /\ a \in {"authorizing", "shaking", "challenged", "rereading", "verifying"} =>
              fingerprint = FingerprintOf(connectStep.read)
         /\ connectStep \in Steps
BY DEF Working, ServerInv, HeadInv, ShownInv, ServerTypes

LEMMA FlowStep ==
  ASSUME ServerTypes, NEW a \in Asker, NEW f \in Flows, flow' = [flow EXCEPT ![a] = f],
         f.at = "saving" => f.base \in Config
  PROVE  /\ flow' \in [Asker -> Flows]
         /\ \A b \in Asker : flow'[b].at = "saving" => flow'[b].base \in Config
BY DEF ServerTypes

LEMMA FlowKept ==
  ASSUME ServerTypes, flow' = flow
  PROVE  /\ flow' \in [Asker -> Flows]
         /\ \A b \in Asker : flow'[b].at = "saving" => flow'[b].base \in Config
BY DEF ServerTypes

\* The stages of an attempt that only move its place.
LEMMA AttemptSteps ==
  ASSUME ServerInv, MarkConnect \/ DenyHost \/ Handshake \/ RetryHandshake \/ Reread
  PROVE  ServerInv'
<1>0. ServerTypes /\ connectStep \in Steps
  BY DEF ServerInv, ServerTypes
<1>1. CASE MarkConnect
  <2>1. PICK e : e = [connectStep EXCEPT !.at = "authorizing"]
    OBVIOUS
  <2>2. /\ Working("connect", "digesting") /\ connectStep' = e /\ flow' = flow
        /\ fingerprint' = FingerprintOf(connectStep.read) /\ shown' = "connecting"
        /\ UNCHANGED <<serverConfig, settingsCopy, connectTail, connected, reconciler, writes>>
    BY <1>1, <2>1 DEF MarkConnect
  <2>3. e \in Steps /\ e.at = "authorizing" /\ e.read = connectStep.read
    BY <1>0, <2>1 DEF Steps, StepAt
  <2>4. /\ connectTail # <<>> /\ Head(connectTail).kind = "connect" /\ connected = None
        /\ shown # "ready" /\ connectStep.read \in Config
    BY <2>2, AttemptAt DEF StepAt
  <2>5. fingerprint' \in Fingerprint
    BY <2>2, <2>4 DEF Fingerprint
  <2> QED BY <1>0, <2>2, <2>3, <2>4, <2>5, FlowKept, AttemptMoves
<1>2. CASE DenyHost
  <2>1. PICK e : e = [connectStep EXCEPT !.at = "closing"]
    OBVIOUS
  <2>2. /\ Working("connect", "authorizing") /\ connectStep' = e /\ flow' = flow
        /\ UNCHANGED <<serverConfig, settingsCopy, connectTail, connected, fingerprint, shown,
                       reconciler, writes>>
    BY <1>2, <2>1 DEF DenyHost
  <2>3. e \in Steps /\ e.at = "closing"
    BY <1>0, <2>1 DEF Steps, StepAt
  <2>4. /\ connectTail # <<>> /\ Head(connectTail).kind = "connect" /\ connected = None
        /\ shown # "ready"
    BY <2>2, AttemptAt DEF StepAt
  <2> QED BY <1>0, <2>2, <2>3, <2>4, FlowKept, AttemptMoves DEF ServerTypes
<1>3. CASE Handshake
  <2>1. /\ Working("connect", "shaking")
        /\ UNCHANGED <<serverConfig, settingsCopy, connectTail, connected, fingerprint, shown,
                       reconciler, writes>>
    BY <1>3 DEF Handshake
  <2>2. /\ connectTail # <<>> /\ Head(connectTail).kind = "connect" /\ connected = None
        /\ shown # "ready" /\ connectStep.read \in Config
        /\ fingerprint = FingerprintOf(connectStep.read)
    BY <2>1, AttemptAt DEF StepAt
  <2>3. ASSUME NEW s \in {"rereading", "closing"}, connectStep' = [connectStep EXCEPT !.at = s],
               flow' = flow
        PROVE  ServerInv'
    <3>1. PICK e : e = [connectStep EXCEPT !.at = s]
      OBVIOUS
    <3>2. e \in Steps /\ e.at = s /\ e.read = connectStep.read
      BY <1>0, <3>1 DEF Steps, StepAt
    <3> QED BY <1>0, <2>1, <2>2, <2>3, <3>1, <3>2, FlowKept, AttemptMoves DEF ServerTypes
  <2>4. ASSUME connectStep' = [connectStep EXCEPT !.at = "challenged", !.retried = TRUE],
               flow' = [flow EXCEPT !["challenge"].at = "discovering"]
        PROVE  ServerInv'
    <3>1. PICK e : e = [connectStep EXCEPT !.at = "challenged", !.retried = TRUE]
      OBVIOUS
    <3>2. e \in Steps /\ e.at = "challenged" /\ e.read = connectStep.read
      BY <1>0, <3>1 DEF Steps, StepAt
    <3>3. PICK f : f = [flow["challenge"] EXCEPT !.at = "discovering"]
      OBVIOUS
    <3>4. flow["challenge"] \in Flows /\ "challenge" \in Asker
      BY <1>0 DEF ServerTypes, Asker
    <3>5. f \in Flows /\ f.at = "discovering"
      BY <3>3, <3>4 DEF Flows
    <3>6. flow' = [flow EXCEPT !["challenge"] = f]
      BY <1>0, <2>4, <3>3, <3>4 DEF ServerTypes
    <3>7. /\ flow' \in [Asker -> Flows]
          /\ \A b \in Asker : flow'[b].at = "saving" => flow'[b].base \in Config
      BY <1>0, <3>4, <3>5, <3>6, FlowStep
    <3> QED BY <1>0, <2>1, <2>2, <2>4, <3>1, <3>2, <3>7, AttemptMoves DEF ServerTypes
  <2> QED BY <1>3, <2>3, <2>4 DEF Handshake
<1>4. CASE RetryHandshake
  <2>1. PICK e : e = [connectStep EXCEPT !.at = "shaking"]
    OBVIOUS
  <2>2. /\ Working("connect", "challenged") /\ connectStep' = e /\ flow' = flow
        /\ UNCHANGED <<serverConfig, settingsCopy, connectTail, connected, fingerprint, shown,
                       reconciler, writes>>
    BY <1>4, <2>1 DEF RetryHandshake
  <2>3. e \in Steps /\ e.at = "shaking" /\ e.read = connectStep.read
    BY <1>0, <2>1 DEF Steps, StepAt
  <2>4. /\ connectTail # <<>> /\ Head(connectTail).kind = "connect" /\ connected = None
        /\ shown # "ready" /\ connectStep.read \in Config
        /\ fingerprint = FingerprintOf(connectStep.read)
    BY <2>2, AttemptAt DEF StepAt
  <2> QED BY <1>0, <2>2, <2>3, <2>4, FlowKept, AttemptMoves DEF ServerTypes
<1>5. CASE Reread
  <2>1. PICK e : e = [connectStep EXCEPT !.at = "verifying", !.latest = serverConfig]
    OBVIOUS
  <2>2. /\ Working("connect", "rereading") /\ connectStep' = e /\ flow' = flow
        /\ UNCHANGED <<serverConfig, settingsCopy, connectTail, connected, fingerprint, shown,
                       reconciler, writes>>
    BY <1>5, <2>1 DEF Reread
  <2>3. e \in Steps /\ e.at = "verifying" /\ e.read = connectStep.read /\ e.latest = serverConfig
    BY <1>0, <2>1 DEF Steps, StepAt, ServerTypes
  <2>4. /\ connectTail # <<>> /\ Head(connectTail).kind = "connect" /\ connected = None
        /\ shown # "ready" /\ connectStep.read \in Config
        /\ fingerprint = FingerprintOf(connectStep.read)
    BY <2>2, AttemptAt DEF StepAt
  <2> QED BY <1>0, <2>2, <2>3, <2>4, FlowKept, AttemptMoves DEF ServerTypes
<1> QED BY <1>1, <1>2, <1>3, <1>4, <1>5

LEMMA UnboundConfig ==
  ASSUME NEW c \in Config, NEW b \in Binding
  PROVE  [c EXCEPT !.binding = b] \in Config
BY DEF Config

LEMMA ServerAuthorized == ASSUME ServerInv, Authorize PROVE ServerInv'
<1>0. ServerTypes /\ connectStep \in Steps /\ flow' = flow
  BY DEF ServerInv, ServerTypes, Authorize
<1>1. PICK e : e = [connectStep EXCEPT !.at = "shaking"]
  OBVIOUS
<1>2. /\ Working("connect", "authorizing") /\ connectStep' = e
      /\ UNCHANGED <<settingsCopy, connectTail, connected, fingerprint>>
  BY <1>1 DEF Authorize
<1>3. e \in Steps /\ e.at = "shaking" /\ e.read = connectStep.read
  BY <1>0, <1>1 DEF Steps, StepAt
<1>4. /\ connectTail # <<>> /\ Head(connectTail).kind = "connect" /\ connected = None
      /\ connectStep.at = "authorizing" /\ shown # "ready" /\ connectStep.read \in Config
      /\ fingerprint = FingerprintOf(connectStep.read)
  BY <1>2, AttemptAt DEF StepAt
<1>5. CASE UNCHANGED <<serverConfig, reconciler, writes, shown>>
  BY <1>0, <1>2, <1>3, <1>4, <1>5, FlowKept, AttemptMoves DEF ServerTypes
<1>6. CASE Store([serverConfig EXCEPT !.binding = None]) /\ shown' = "error"
  <2>1. PICK c : c = [serverConfig EXCEPT !.binding = None]
    OBVIOUS
  <2>2. c \in Config
    <3>1. serverConfig \in Config /\ None \in Binding
      BY <1>0 DEF ServerTypes, Binding
    <3>2. [serverConfig EXCEPT !.binding = None] \in Config
      BY <3>1, UnboundConfig
    <3> QED BY <2>1, <3>2
  <2>3. Store(c) /\ shown' = "error"
    BY <1>6, <2>1
  <2>4. settingsCopy' \in Config \cup {None}
    BY <1>0, <1>2 DEF ServerTypes
  <2> QED BY <1>0, <1>2, <1>3, <1>4, <2>2, <2>3, <2>4, FlowKept, StoredChanges
<1> QED BY <1>5, <1>6 DEF Authorize

\* The operation at the head of the chain is over: what is to be fixed still is, unless
\* it was a disconnect.
LEMMA OperationEnded ==
  ASSUME ServerInv, connectTail # <<>>, EndOperation, UNCHANGED <<serverConfig, settingsCopy, reconciler, flow, writes>>,
         connected' \in Fingerprint, fingerprint' \in Fingerprint,
         (Head(connectTail).kind = "connect" /\ Fixing) \/ (connected' # None => Good(connected')),
         connected' # None => fingerprint' = connected',
         shown' = "ready" => connected' # None
  PROVE  ServerInv'
<1>1. /\ connectTail' = Tail(connectTail) /\ connectStep' = NotStarted
      /\ connectTail \in Seq(Operations) /\ ServerTypes
  BY DEF EndOperation, ServerInv, ServerTypes
<1>2. /\ Tail(connectTail) \in Seq(Operations) /\ Len(Tail(connectTail)) = Len(connectTail) - 1
      /\ Head(connectTail) = connectTail[1] /\ Len(connectTail) \in Nat \ {0}
      /\ \A i \in 1..Len(connectTail) - 1 : Tail(connectTail)[i] = connectTail[i + 1]
  BY <1>1, EmptySeq, HeadTailProperties
<1>3. Head(connectTail).kind = "connect" /\ Fixing => Fixing'
  <2> SUFFICES ASSUME Head(connectTail).kind = "connect",
                      NEW n \in 1..Len(connectTail), connectTail[n].kind = "disconnect"
               PROVE  Fixing'
    BY DEF Fixing, Stale
  <2>1. n # 1
    BY <1>2
  <2>2. n - 1 \in 1..Len(connectTail') /\ connectTail'[n - 1] = connectTail[n]
    BY <1>1, <1>2, <2>1
  <2> QED BY <2>2 DEF Fixing
<1>4. ServerTypes'
  BY <1>1, <1>2, NothingStarted DEF ServerTypes
<1>5. HeadInv' /\ VerifyInv'
  BY <1>1, NothingStarted DEF HeadInv, VerifyInv
<1>6. ClientInv' /\ ShownInv'
  BY <1>3 DEF ClientInv, ShownInv, Good
<1> QED BY <1>4, <1>5, <1>6 DEF ServerInv

LEMMA AttemptBegun == ASSUME ServerInv, BeginConnect PROVE ServerInv'
<1>0. /\ ServerTypes /\ connectStep \in Steps /\ Working("connect", "queued")
      /\ UNCHANGED <<serverConfig, settingsCopy, fingerprint, connected, shown, reconciler, flow,
                     writes>>
  BY DEF ServerInv, ServerTypes, BeginConnect
<1>1. /\ connectTail # <<>> /\ Head(connectTail).kind = "connect" /\ connectStep.at = "queued"
  BY <1>0, AttemptAt DEF StepAt
<1>2. CASE serverConfig.on /\ connected = None
  <2>1. PICK e : e = [connectStep EXCEPT !.at = "digesting", !.read = serverConfig]
    OBVIOUS
  <2>2. connectStep' = e /\ connectTail' = connectTail
    BY <1>2, <2>1 DEF BeginConnect
  <2>3. e \in Steps /\ e.at = "digesting" /\ e.read = serverConfig /\ serverConfig \in Config
    BY <1>0, <2>1 DEF Steps, StepAt, ServerTypes
  <2>4. shown # "ready"
    BY <1>1, <1>2 DEF ServerInv, ShownInv
  <2> QED BY <1>0, <1>1, <1>2, <2>2, <2>3, <2>4, FlowKept, AttemptMoves DEF ServerTypes
<1>3. CASE ~(serverConfig.on /\ connected = None)
  <2>1. EndOperation
    BY <1>3 DEF BeginConnect
  <2>2. shown = "ready" => connected # None
    BY <1>1 DEF ServerInv, ShownInv
  <2>3. connected # None => fingerprint = connected /\ (Good(connected) \/ Fixing)
    BY DEF ServerInv, ClientInv
  <2> QED BY <1>0, <1>1, <2>1, <2>2, <2>3, OperationEnded DEF ServerTypes, Good
<1> QED BY <1>2, <1>3

LEMMA AttemptVerified == ASSUME ServerInv, FinishConnect PROVE ServerInv'
<1>0. /\ ServerTypes /\ connectStep \in Steps /\ Working("connect", "verifying")
      /\ UNCHANGED <<serverConfig, settingsCopy, fingerprint, reconciler, flow, writes>>
  BY DEF ServerInv, ServerTypes, FinishConnect
<1>1. /\ connectTail # <<>> /\ Head(connectTail).kind = "connect" /\ connected = None
      /\ connectStep.at = "verifying" /\ shown # "ready" /\ connectStep.read \in Config
      /\ fingerprint = FingerprintOf(connectStep.read)
  BY <1>0, AttemptAt DEF StepAt
<1>2. CASE StillAsRead
  <2>1. connected' = FingerprintOf(connectStep.read) /\ shown' = "ready" /\ EndOperation
    BY <1>2 DEF FinishConnect
  <2>2. connected' # None /\ connected' \in Fingerprint
    BY <1>1, <2>1, FingerprintAssumption DEF Fingerprint
  <2>3. Good(connected') \/ Fixing
    <3>1. CASE connectStep.latest = serverConfig
      BY <1>2, <2>1, <3>1 DEF StillAsRead, Good
    <3> QED BY <1>1, <2>1, <3>1 DEF ServerInv, VerifyInv
  <2> QED BY <1>0, <1>1, <2>1, <2>2, <2>3, OperationEnded DEF ServerTypes
<1>3. CASE ~StillAsRead
  <2>1. PICK e : e = [connectStep EXCEPT !.at = "closing"]
    OBVIOUS
  <2>2. connectStep' = e /\ UNCHANGED <<connected, shown, connectTail>>
    BY <1>3, <2>1 DEF FinishConnect
  <2>3. e \in Steps /\ e.at = "closing"
    BY <1>0, <2>1 DEF Steps, StepAt
  <2> QED BY <1>0, <1>1, <2>2, <2>3, FlowKept, AttemptMoves DEF ServerTypes
<1> QED BY <1>2, <1>3

LEMMA AttemptFailed == ASSUME ServerInv, FailConnect PROVE ServerInv'
<1>1. /\ ServerTypes /\ Working("connect", "closing") /\ EndOperation /\ shown' = "error"
      /\ UNCHANGED <<serverConfig, settingsCopy, connected, reconciler, flow, writes>>
      /\ fingerprint' \in {None, fingerprint}
  BY DEF ServerInv, FailConnect
<1>2. connectTail # <<>> /\ connected = None
  BY <1>1, AttemptAt DEF StepAt
<1>3. fingerprint' \in Fingerprint
  BY <1>1 DEF ServerTypes, Fingerprint
<1> QED BY <1>1, <1>2, <1>3, OperationEnded DEF ServerTypes

LEMMA Disconnects == ASSUME ServerInv, BeginDisconnect \/ FinishDisconnect PROVE ServerInv'
<1>0. ServerTypes /\ connectStep \in Steps
  BY DEF ServerInv, ServerTypes
<1>1. CASE BeginDisconnect
  <2>1. PICK e : e = [connectStep EXCEPT !.at = "closing"]
    OBVIOUS
  <2>2. /\ connectTail # <<>> /\ Head(connectTail).kind = "disconnect" /\ connected' = None
        /\ fingerprint' = None /\ connectStep' = e
        /\ UNCHANGED <<serverConfig, settingsCopy, connectTail, shown, reconciler, flow, writes>>
    BY <1>1, <2>1 DEF BeginDisconnect, Working
  <2>3. e \in Steps /\ e.at = "closing" /\ None \in Fingerprint
    BY <1>0, <2>1 DEF Steps, StepAt, Fingerprint
  <2>4. ServerTypes'
    BY <1>0, <2>2, <2>3 DEF ServerTypes
  <2>5. HeadInv' /\ VerifyInv' /\ ClientInv' /\ ShownInv'
    BY <2>2, <2>3 DEF HeadInv, VerifyInv, ClientInv, ShownInv
  <2> QED BY <2>4, <2>5 DEF ServerInv
<1>2. CASE FinishDisconnect
  <2>1. /\ connectTail # <<>> /\ connectStep.at = "closing" /\ EndOperation
        /\ shown' = "disconnected"
        /\ UNCHANGED <<serverConfig, settingsCopy, fingerprint, connected, reconciler, flow, writes>>
    BY <1>2 DEF FinishDisconnect, Working
  <2>2. connected = None
    BY <2>1 DEF ServerInv, HeadInv
  <2> QED BY <1>0, <2>1, <2>2, OperationEnded DEF ServerTypes
<1> QED BY <1>1, <1>2

\* A reconciliation moves; whatever it would have found stale is still to be fixed.
LEMMA ReconcilerMoves ==
  ASSUME ServerInv, NEW w \in 1..MaxWrites, NEW r \in Reconciliations,
         reconciler' = [reconciler EXCEPT ![w] = r], r.at = "comparing" => r.seen \in Config,
         connectTail' = connectTail \/ \E o \in Operations : connectTail' = Append(connectTail, o),
         UNCHANGED <<serverConfig, settingsCopy, connectStep, fingerprint, connected, shown, flow,
                     writes>>,
         connected # None /\ ~Good(connected) /\ Fixing => Fixing',
         connectStep.at = "verifying" /\ Fixing /\ ~Good(FingerprintOf(connectStep.read)) => Fixing'
  PROVE  ServerInv'
<1>1. connectTail \in Seq(Operations) /\ ServerTypes
  BY DEF ServerInv, ServerTypes
<1>2. /\ connectTail' \in Seq(Operations)
      /\ connectTail # <<>> => connectTail' # <<>> /\ Head(connectTail') = Head(connectTail)
  BY <1>1, TailGrown
<1>3. ServerTypes'
  BY <1>1, <1>2 DEF ServerTypes
<1>4. HeadInv' /\ ShownInv'
  BY <1>2 DEF ServerInv, HeadInv, ShownInv
<1>5. VerifyInv' /\ ClientInv'
  BY DEF ServerInv, VerifyInv, ClientInv, Good
<1> QED BY <1>3, <1>4, <1>5 DEF ServerInv

LEMMA StoredRead ==
  ASSUME ServerInv, NEW w \in 1..MaxWrites, ReadStored(w) PROVE ServerInv'
<1>1. PICK r : r = [at |-> "comparing", seen |-> serverConfig, mark |-> fingerprint]
  OBVIOUS
<1>2. /\ reconciler[w].at = "reading" /\ reconciler' = [reconciler EXCEPT ![w] = r]
      /\ UNCHANGED <<serverConfig, settingsCopy, connectTail, connectStep, fingerprint, connected,
                     shown, flow, writes>>
      /\ ServerTypes
  BY <1>1 DEF ReadStored, ServerInv
<1>3. /\ r \in Reconciliations /\ r.at = "comparing" /\ r.seen = serverConfig /\ r.mark = fingerprint
      /\ serverConfig \in Config
  BY <1>1, <1>2 DEF Reconciliations, ServerTypes
<1>4. reconciler'[w] = r /\ \A v \in 1..MaxWrites : v # w => reconciler'[v] = reconciler[v]
  BY <1>2, <1>3 DEF ServerTypes
<1>5. ASSUME fingerprint # None, ~Good(fingerprint) PROVE Fixing'
  BY <1>3, <1>4, <1>5 DEF Fixing, Stale, Good
<1>6. connected # None => fingerprint = connected
  BY DEF ServerInv, ClientInv
<1>7. connectStep.at = "verifying" => fingerprint = FingerprintOf(connectStep.read) /\ fingerprint # None
  BY FingerprintAssumption DEF ServerInv, HeadInv
<1> QED BY <1>2, <1>3, <1>5, <1>6, <1>7, ReconcilerMoves

LEMMA StoredCompared ==
  ASSUME ServerInv, NEW w \in 1..MaxWrites, CompareStored(w) PROVE ServerInv'
<1>1. PICK r : r = [reconciler[w] EXCEPT !.at = "closing"]
  OBVIOUS
<1>2. /\ reconciler[w].at = "comparing" /\ reconciler' = [reconciler EXCEPT ![w].at = "closing"]
      /\ UNCHANGED <<serverConfig, settingsCopy, connectStep, fingerprint, connected, shown, flow,
                     writes>>
      /\ ServerTypes /\ reconciler[w] \in Reconciliations /\ connectTail \in Seq(Operations)
  BY DEF CompareStored, ServerInv, ServerTypes
<1>3. reconciler' = [reconciler EXCEPT ![w] = r]
  BY <1>1, <1>2 DEF ServerTypes
<1>4. r \in Reconciliations /\ r.at = "closing"
  BY <1>1, <1>2 DEF Reconciliations
<1>5. reconciler'[w] = r /\ \A v \in 1..MaxWrites : v # w => reconciler'[v] = reconciler[v]
  BY <1>2, <1>3, <1>4 DEF ServerTypes
<1>6. \/ connectTail' = connectTail /\ ~Stale(w)
      \/ \E o \in Operations : o.kind = "disconnect" /\ connectTail' = Append(connectTail, o)
  <2>1. w \in 0..MaxWrites
    BY ServersAssumption
  <2> QED BY <1>2, <2>1, ChainedOne DEF CompareStored
<1>7. Fixing => Fixing'
  <2>1. CASE connectTail' = connectTail /\ ~Stale(w)
    BY <1>2, <1>4, <1>5, <2>1 DEF Fixing, Stale
  <2>2. ASSUME NEW o \in Operations, o.kind = "disconnect", connectTail' = Append(connectTail, o)
        PROVE  Fixing'
    <3>1. Len(connectTail') = Len(connectTail) + 1 /\ connectTail'[Len(connectTail) + 1] = o
          /\ Len(connectTail) \in Nat
      BY <1>2, <2>2, TailGrown
    <3> QED BY <2>2, <3>1 DEF Fixing
  <2> QED BY <1>6, <2>1, <2>2
<1> QED BY <1>2, <1>3, <1>4, <1>6, <1>7, ReconcilerMoves

LEMMA Reconnected ==
  ASSUME ServerInv, NEW w \in 1..MaxWrites, Reconnect(w) PROVE ServerInv'
<1>2. /\ reconciler[w].at = "closing" /\ reconciler' = [reconciler EXCEPT ![w] = IdleReconciler]
      /\ UNCHANGED <<serverConfig, settingsCopy, connectStep, fingerprint, connected, shown, flow,
                     writes>>
      /\ ServerTypes /\ connectTail \in Seq(Operations)
  BY DEF Reconnect, ServerInv, ServerTypes
<1>3. connectTail' = connectTail \/ \E o \in Operations : connectTail' = Append(connectTail, o)
  <2>1. 0 \in 0..MaxWrites
    BY ServersAssumption
  <2> QED BY <1>2, <2>1, ChainedOne DEF Reconnect
<1>4. \A v \in 1..MaxWrites : v # w => reconciler'[v] = reconciler[v]
  BY <1>2 DEF ServerTypes
<1>5. \A n \in 1..Len(connectTail) : n \in 1..Len(connectTail') /\ connectTail'[n] = connectTail[n]
  BY <1>2, <1>3, TailGrown
<1>6. Fixing => Fixing'
  BY <1>2, <1>4, <1>5 DEF Fixing, Stale
<1> QED BY <1>2, <1>3, <1>6, IdleTyped, ReconcilerMoves

LEMMA ConnectsAsked == ASSUME ServerInv, AskConnect \/ AskDisconnect PROVE ServerInv'
<1>1. /\ UNCHANGED <<serverConfig, settingsCopy, connectStep, fingerprint, connected, shown,
                     reconciler, flow, writes>>
      /\ connectTail' = WithConnect(connectTail, 0) \/ connectTail' = WithDisconnect(connectTail, 0)
      /\ connectTail \in Seq(Operations) /\ ServerTypes
  BY DEF AskConnect, AskDisconnect, ServerInv, ServerTypes
<1>2. 0 \in 0..MaxWrites
  BY ServersAssumption
<1>3. connectTail' = connectTail \/ \E o \in Operations : connectTail' = Append(connectTail, o)
  BY <1>1, <1>2, ChainedOne
<1>4. CASE connectTail' = connectTail
  BY <1>1, <1>4, FlowKept, ServerIdles DEF ServerTypes
<1> QED BY <1>1, <1>3, <1>4, ChainGrows

\* A flow that ends, or that was found out how to go on.
LEMMA FlowMoves ==
  ASSUME ServerTypes, NEW a \in Asker
  PROVE  /\ \A s \in {"discovering", "login"} : [flow[a] EXCEPT !.at = s] \in Flows
         /\ \A b \in Binding : [flow[a] EXCEPT !.at = "login", !.binding = b] \in Flows
         /\ [flow[a] EXCEPT !.at = "saving", !.base = serverConfig] \in Flows
         /\ flow[a] \in Flows
<1>1. flow[a] \in Flows /\ serverConfig \in Config
  BY DEF ServerTypes
<1> QED BY <1>1 DEF Flows

LEMMA FlowsMove ==
  ASSUME ServerInv,
         UNCHANGED <<serverConfig, settingsCopy, connectTail, connectStep, fingerprint, connected,
                     reconciler, writes>>,
         shown' = shown \/ shown' = "error",
         NEW a \in Asker, NEW f \in Flows, flow' = [flow EXCEPT ![a] = f],
         f.at = "saving" => f.base \in Config
  PROVE  ServerInv'
<1>1. ServerTypes
  BY DEF ServerInv
<1> QED BY <1>1, FlowStep, ServerIdles DEF ServerTypes

LEMMA AuthorizationAsked == ASSUME ServerInv, AskAuthorization PROVE ServerInv'
<1>1. ServerTypes /\ "settings" \in Asker
  BY DEF ServerInv, Asker
<1>2. PICK f : f = [flow["settings"] EXCEPT !.at = "discovering"]
  OBVIOUS
<1>3. f \in Flows /\ f.at = "discovering"
  BY <1>1, <1>2, FlowMoves DEF Flows
<1>4. flow' = [flow EXCEPT !["settings"] = f]
  BY <1>1, <1>2 DEF AskAuthorization, ServerTypes
<1> QED BY <1>1, <1>3, <1>4, FlowsMove DEF AskAuthorization

LEMMA Discovered == ASSUME ServerInv, NEW a \in Asker, Discover(a) PROVE ServerInv'
<1>0. /\ ServerTypes /\ flow[a] \in Flows
      /\ UNCHANGED <<settingsCopy, connectTail, connectStep, fingerprint, connected>>
  BY DEF ServerInv, ServerTypes, Discover
<1>1. ASSUME NEW i \in Issuer, UNCHANGED <<serverConfig, reconciler, writes, shown>>,
             flow' = [flow EXCEPT ![a].at = "login", ![a].binding = <<serverConfig.url, i>>]
      PROVE  ServerInv'
  <2>1. PICK b : b = <<serverConfig.url, i>>
    OBVIOUS
  <2>2. b \in Binding
    BY <1>0, <2>1 DEF ServerTypes, Config, Binding
  <2>3. PICK f : f = [flow[a] EXCEPT !.at = "login", !.binding = b]
    OBVIOUS
  <2>4. f \in Flows /\ f.at = "login"
    BY <1>0, <2>2, <2>3 DEF Flows
  <2>5. flow' = [flow EXCEPT ![a] = f]
    BY <1>0, <1>1, <2>1, <2>3 DEF ServerTypes
  <2> QED BY <1>0, <1>1, <2>4, <2>5, FlowsMove
<1>2. ASSUME Store([serverConfig EXCEPT !.binding = None]), shown' = "error",
             flow' = [flow EXCEPT ![a] = IdleFlow]
      PROVE  ServerInv'
  <2>1. /\ flow' \in [Asker -> Flows]
        /\ \A b \in Asker : flow'[b].at = "saving" => flow'[b].base \in Config
    BY <1>0, <1>2, IdleTyped, FlowStep
  <2>2. PICK c : c = [serverConfig EXCEPT !.binding = None]
    OBVIOUS
  <2>3. c \in Config
    BY <1>0, <2>2, UnboundConfig DEF ServerTypes, Binding
  <2> QED BY <1>0, <1>2, <2>1, <2>2, <2>3, StoredChanges DEF ServerTypes
<1>3. ASSUME UNCHANGED <<serverConfig, reconciler, writes>>, shown' = "error",
             flow' = [flow EXCEPT ![a] = IdleFlow]
      PROVE  ServerInv'
  BY <1>0, <1>3, IdleTyped, FlowsMove
<1> QED BY <1>1, <1>2, <1>3 DEF Discover

LEMMA LoginFinished == ASSUME ServerInv, NEW a \in Asker, FinishLogin(a) PROVE ServerInv'
<1>0. /\ ServerTypes /\ flow[a] \in Flows /\ serverConfig \in Config
      /\ UNCHANGED <<serverConfig, settingsCopy, connectTail, connectStep, fingerprint, connected,
                     reconciler, writes>>
  BY DEF ServerInv, ServerTypes, FinishLogin
<1>1. CASE flow' = [flow EXCEPT ![a].at = "saving", ![a].base = serverConfig] /\ UNCHANGED shown
  <2>1. PICK f : f = [flow[a] EXCEPT !.at = "saving", !.base = serverConfig]
    OBVIOUS
  <2>2. f \in Flows /\ f.base = serverConfig
    BY <1>0, <2>1 DEF Flows
  <2>3. flow' = [flow EXCEPT ![a] = f]
    BY <1>0, <1>1, <2>1 DEF ServerTypes
  <2> QED BY <1>0, <1>1, <2>2, <2>3, FlowsMove
<1>2. CASE flow' = [flow EXCEPT ![a] = IdleFlow] /\ shown' = "error"
  BY <1>0, <1>2, IdleTyped, FlowsMove
<1> QED BY <1>1, <1>2 DEF FinishLogin

LEMMA TokensPersisted == ASSUME ServerInv, NEW a \in Asker, PersistTokens(a) PROVE ServerInv'
<1>0. /\ ServerTypes /\ flow[a].at = "saving" /\ flow[a] \in Flows /\ flow[a].base \in Config
      /\ connectTail \in Seq(Operations) /\ flow' = [flow EXCEPT ![a] = IdleFlow]
      /\ UNCHANGED <<settingsCopy, connectStep, fingerprint, connected, shown>>
  BY DEF ServerInv, ServerTypes, PersistTokens
<1>1. PICK c : c = [flow[a].base EXCEPT !.binding = flow[a].binding]
  OBVIOUS
<1>2. c \in Config
  <2>1. flow[a].binding \in Binding
    BY <1>0 DEF Flows
  <2> QED BY <1>0, <1>1, <2>1, UnboundConfig
<1>3. /\ flow' \in [Asker -> Flows]
      /\ \A b \in Asker : flow'[b].at = "saving" => flow'[b].base \in Config
  BY <1>0, IdleTyped, FlowStep
<1>4. connectTail' = connectTail \/ \E o \in Operations : connectTail' = Append(connectTail, o)
  <2>1. 0 \in 0..MaxWrites
    BY ServersAssumption
  <2> QED BY <1>0, <2>1, ChainedOne DEF PersistTokens
<1>5. Store(c)
  BY <1>1 DEF PersistTokens
<1> QED BY <1>0, <1>2, <1>3, <1>4, <1>5, StoredChanges DEF ServerTypes

LEMMA PagesWrite ==
  ASSUME ServerInv, OpenSettings \/ SwitchServer \/ ReplaceConfig PROVE ServerInv'
<1>0. /\ ServerTypes /\ connectStep \in Steps
      /\ UNCHANGED <<connectTail, connectStep, fingerprint, connected, shown, flow>>
      /\ flow' \in [Asker -> Flows]
      /\ \A b \in Asker : flow'[b].at = "saving" => flow'[b].base \in Config
  BY FlowKept DEF ServerInv, ServerTypes, OpenSettings, SwitchServer, ReplaceConfig
<1>1. CASE OpenSettings
  BY <1>0, <1>1, ServerIdles DEF OpenSettings, ServerTypes
<1>2. CASE SwitchServer
  <2>1. settingsCopy \in Config
    BY <1>0, <1>2 DEF ServerTypes, SwitchServer
  <2>2. PICK c : c = [settingsCopy EXCEPT !.on = ~@]
    OBVIOUS
  <2>3. c \in Config
    BY <2>1, <2>2 DEF Config
  <2>4. Store(c) /\ settingsCopy' = c
    BY <1>2, <2>2 DEF SwitchServer
  <2> QED BY <1>0, <2>3, <2>4, StoredChanges
<1>3. CASE ReplaceConfig
  <2>1. PICK u \in Url : Store([on |-> TRUE, url |-> u, binding |-> None])
    BY <1>3 DEF ReplaceConfig
  <2>2. PICK c : c = [on |-> TRUE, url |-> u, binding |-> None]
    OBVIOUS
  <2>3. c \in Config /\ Store(c)
    BY <2>1, <2>2 DEF Config, Binding
  <2>4. settingsCopy' \in Config \cup {None}
    BY <1>0, <1>3 DEF ReplaceConfig, ServerTypes
  <2> QED BY <1>0, <2>3, <2>4, StoredChanges
<1> QED BY <1>1, <1>2, <1>3

LEMMA ManagerRestarted == ASSUME ServerInv, RestartManager PROVE ServerInv'
<1>1. /\ connectStep' = NotStarted /\ fingerprint' = None /\ connected' = None
      /\ shown' = "disconnected" /\ reconciler' = [w \in 1..MaxWrites |-> IdleReconciler]
      /\ flow' = [a \in Asker |-> IdleFlow] /\ UNCHANGED <<serverConfig, settingsCopy, writes>>
      /\ ServerTypes
  BY DEF RestartManager, ServerInv
<1>2. connectTail' \in Seq(Operations)
  <2>1. <<>> \in Seq(Operations) /\ 0 \in 0..MaxWrites
    BY ServersAssumption
  <2>2. WithConnect(<<>>, 0) = <<>> \/ \E o \in Operations : WithConnect(<<>>, 0) = Append(<<>>, o)
    BY <2>1, ChainedOne
  <2>3. WithConnect(<<>>, 0) \in Seq(Operations)
    BY <2>1, <2>2, TailGrown
  <2> QED BY <2>1, <2>3 DEF RestartManager
<1>3. ServerTypes'
  BY <1>1, <1>2, NothingStarted, IdleTyped DEF ServerTypes, Fingerprint
<1>4. HeadInv' /\ VerifyInv' /\ ClientInv' /\ ShownInv'
  BY <1>1, NothingStarted DEF HeadInv, VerifyInv, ClientInv, ShownInv
<1> QED BY <1>3, <1>4 DEF ServerInv

\* Once no operation and no reconciliation is under way, a connected client is the one of
\* an enabled server at its stored address with its stored authorization, its fingerprint
\* is remembered, and "ready" is shown only for it (mcp/manager.ts: connectCandidate,
\* disconnect, reconcileStorage).
THEOREM ClientsAreAsStored == ServersSpec => []ConnectedAsStored
<1>1. ServersInit => ServerInv
  BY ServersStart
<1>2. ServerInv /\ [ServersNext]_serverVars => ServerInv'
  <2> SUFFICES ASSUME ServerInv, [ServersNext]_serverVars PROVE ServerInv'
    OBVIOUS
  <2>1. CASE AskConnect \/ AskDisconnect
    BY <2>1, ConnectsAsked
  <2>2. CASE MarkConnect \/ DenyHost \/ Handshake \/ RetryHandshake \/ Reread
    BY <2>2, AttemptSteps
  <2>3. CASE BeginConnect \/ Authorize \/ FinishConnect \/ FailConnect
    BY <2>3, AttemptBegun, ServerAuthorized, AttemptVerified, AttemptFailed
  <2>4. CASE BeginDisconnect \/ FinishDisconnect
    BY <2>4, Disconnects
  <2>5. ASSUME NEW w \in 1..MaxWrites, ReadStored(w) \/ CompareStored(w) \/ Reconnect(w)
        PROVE  ServerInv'
    BY <2>5, StoredRead, StoredCompared, Reconnected
  <2>6. CASE AskAuthorization
    BY <2>6, AuthorizationAsked
  <2>7. ASSUME NEW a \in Asker, Discover(a) \/ FinishLogin(a) \/ PersistTokens(a)
        PROVE  ServerInv'
    BY <2>7, Discovered, LoginFinished, TokensPersisted
  <2>8. CASE OpenSettings \/ SwitchServer \/ ReplaceConfig
    BY <2>8, PagesWrite
  <2>9. CASE RestartManager
    BY <2>9, ManagerRestarted
  <2>10. CASE UNCHANGED serverVars
    <3>1. ServerTypes
      BY DEF ServerInv
    <3> QED BY <2>10, <3>1, FlowKept, ServerIdles DEF ServerTypes
  <2> QED BY <2>1, <2>2, <2>3, <2>4, <2>5, <2>6, <2>7, <2>8, <2>9, <2>10 DEF ServersNext
<1>3. ServerInv => ConnectedAsStored
  <2> SUFFICES ASSUME ServerInv, Settled
               PROVE  /\ connected # None => /\ serverConfig.on
                                             /\ connected = FingerprintOf(serverConfig)
                                             /\ fingerprint = connected
                      /\ shown = "ready" => connected # None
    BY DEF ConnectedAsStored
  <2>1. connectTail = <<>> /\ Len(connectTail) = 0
    BY EmptySeq DEF Settled
  <2>2. ~Fixing
    BY <2>1 DEF Fixing, Settled
  <2> QED BY <2>1, <2>2 DEF ServerInv, ClientInv, ShownInv, Good
<1> QED BY <1>1, <1>2, <1>3, PTL DEF ServersSpec

-------------------------------------------------------------------------------
(****************************************************************************)
(* Calls on an MCP session.  A call travels on a connection that was opened and *)
(* may since be closed; a cancellation that was seen first is kept until the    *)
(* call arrives, and the call at work is the one at the head of its turns.      *)
(****************************************************************************)
Stages == {"none", "sent", "waiting", "running", "done"}
SessTypes ==
  /\ owner \in Connection \cup {NoOne} /\ session \in Connection \cup {NoOne}
  /\ handshake \in [Connection -> {"none", "shaking", "open", "failed", "closed"}]
  /\ opCall \in [OpCall -> Stages] /\ callOn \in [OpCall -> Connection \cup {NoOne}]
  /\ turns \in [Connection -> Seq(OpCall)] /\ cancelAt \in [OpCall -> {"none", "sent", "seen"}]

OwnedInv ==
  /\ OpenIsOwned
  /\ session # NoOne => handshake[session] = "open"

CallsInv ==
  \A k \in OpCall :
    /\ opCall[k] # "none" =>
         callOn[k] \in Connection /\ handshake[callOn[k]] \in {"open", "closed"}
    /\ cancelAt[k] = "seen" /\ opCall[k] = "sent" =>
         k \in tombstones \/ handshake[callOn[k]] = "closed"
    /\ cancelAt[k] = "seen" /\ opCall[k] = "waiting" => k \in opSignal
    /\ cancelAt[k] # "none" => opCall[k] # "none"

TurnsInv ==
  /\ \A c \in Connection : \A i \in 1..Len(turns[c]) :
       opCall[turns[c][i]] # "none" /\ callOn[turns[c][i]] = c
  /\ \A k \in OpCall : opCall[k] = "running" =>
       turns[callOn[k]] # <<>> /\ k = Head(turns[callOn[k]])

SessInv == SessTypes /\ OwnedInv /\ CallsInv /\ TurnsInv

LEMMA SessionStarts == ASSUME SessionInit PROVE SessInv
<1>1. SessTypes
  BY DEF SessionInit, SessTypes, Stages
<1>2. OwnedInv /\ CallsInv
  BY SessionAssumption DEF SessionInit, OwnedInv, OpenIsOwned, CallsInv
<1>3. TurnsInv
  <2>1. \A c \in Connection : turns[c] = <<>> /\ Len(turns[c]) = 0
    BY DEF SessionInit
  <2> QED BY <2>1 DEF SessionInit, TurnsInv
<1> QED BY <1>1, <1>2, <1>3 DEF SessInv

\* A connection moves; the calls on connections that were never opened, or that are
\* closed already, are as before.
LEMMA ConnectionMoves ==
  ASSUME SessInv, NEW h \in [Connection -> {"none", "shaking", "open", "failed", "closed"}],
         handshake' = h, owner' \in Connection \cup {NoOne}, session' \in Connection \cup {NoOne},
         UNCHANGED <<opCall, callOn, turns, atWork, cancelAt>>, OwnedInv',
         \A c \in Connection : handshake[c] \in {"open", "closed"} =>
           h[c] \in {"open", "closed"} /\ (handshake[c] = "closed" => h[c] = "closed"),
         opSignal \subseteq opSignal',
         \A k \in OpCall : k \in tombstones /\ callOn[k] \in Connection =>
           k \in tombstones' \/ h[callOn[k]] = "closed" \/ handshake[callOn[k]] \notin {"open", "closed"}
  PROVE  SessInv'
<1>1. SessTypes'
  BY DEF SessInv, SessTypes
<1>2. TurnsInv'
  BY DEF SessInv, TurnsInv
<1>3. CallsInv'
  <2> SUFFICES ASSUME NEW k \in OpCall
               PROVE  /\ opCall[k] # "none" =>
                           callOn[k] \in Connection /\ h[callOn[k]] \in {"open", "closed"}
                      /\ cancelAt[k] = "seen" /\ opCall[k] = "sent" =>
                           k \in tombstones' \/ h[callOn[k]] = "closed"
                      /\ cancelAt[k] = "seen" /\ opCall[k] = "waiting" => k \in opSignal'
                      /\ cancelAt[k] # "none" => opCall[k] # "none"
    BY DEF CallsInv
  <2>1. /\ opCall[k] # "none" =>
             callOn[k] \in Connection /\ handshake[callOn[k]] \in {"open", "closed"}
        /\ cancelAt[k] = "seen" /\ opCall[k] = "sent" =>
             k \in tombstones \/ handshake[callOn[k]] = "closed"
        /\ cancelAt[k] = "seen" /\ opCall[k] = "waiting" => k \in opSignal
        /\ cancelAt[k] # "none" => opCall[k] # "none"
    BY DEF SessInv, CallsInv
  <2> QED BY <2>1
<1> QED BY <1>1, <1>2, <1>3 DEF SessInv

LEMMA ConnectionClaimed ==
  ASSUME SessInv, NEW c \in Connection, ClaimConnection(c) PROVE SessInv'
<1>1. /\ handshake[c] = "none" /\ owner' = c /\ UNCHANGED <<opCall, callOn, turns, atWork, cancelAt>>
      /\ SessTypes
  BY DEF ClaimConnection, SessInv
<1>2. CASE session # NoOne
  <2>1. /\ session \in Connection /\ handshake[session] = "open" /\ session' = NoOne
        /\ ClearOperations(session)
        /\ handshake' = [handshake EXCEPT ![c] = "shaking", ![session] = "closed"]
    BY <1>1, <1>2 DEF ClaimConnection, SessInv, SessTypes, OwnedInv
  <2>2. PICK h : h = [handshake EXCEPT ![c] = "shaking", ![session] = "closed"]
    OBVIOUS
  <2>3. /\ h \in [Connection -> {"none", "shaking", "open", "failed", "closed"}]
        /\ h[c] = "shaking" /\ h[session] = "closed"
        /\ \A d \in Connection : d # c /\ d # session => h[d] = handshake[d]
    BY <1>1, <2>1, <2>2 DEF SessTypes
  <2>4. \A d \in Connection : h[d] # "open"
    BY <2>3 DEF SessInv, OwnedInv, OpenIsOwned
  <2>5. OwnedInv'
    BY <2>1, <2>2, <2>4 DEF OwnedInv, OpenIsOwned
  <2>6. /\ opSignal \subseteq opSignal'
        /\ \A k \in tombstones : k \in tombstones' \/ callOn[k] = session
    BY <2>1 DEF ClearOperations
  <2> QED BY <1>1, <2>1, <2>2, <2>3, <2>5, <2>6, ConnectionMoves
<1>3. CASE session = NoOne
  <2>1. /\ handshake' = [handshake EXCEPT ![c] = "shaking"]
        /\ UNCHANGED <<session, opSignal, tombstones>>
    BY <1>3 DEF ClaimConnection
  <2>2. PICK h : h = [handshake EXCEPT ![c] = "shaking"]
    OBVIOUS
  <2>3. /\ h \in [Connection -> {"none", "shaking", "open", "failed", "closed"}]
        /\ h[c] = "shaking" /\ \A d \in Connection : d # c => h[d] = handshake[d]
    BY <1>1, <2>2 DEF SessTypes
  <2>4. \A d \in Connection : h[d] # "open"
    BY <1>3, <2>3, SessionAssumption DEF SessInv, OwnedInv, OpenIsOwned
  <2>5. OwnedInv'
    BY <1>3, <2>1, <2>2, <2>4 DEF OwnedInv, OpenIsOwned
  <2> QED BY <1>1, <2>1, <2>2, <2>3, <2>5, ConnectionMoves DEF SessTypes
<1> QED BY <1>2, <1>3

LEMMA HandshakeEnded ==
  ASSUME SessInv, NEW c \in Connection, EndHandshake(c) PROVE SessInv'
<1>1. /\ handshake[c] = "shaking" /\ UNCHANGED <<owner, opCall, callOn, opSignal, turns, atWork, cancelAt, tombstones>>
      /\ SessTypes
  BY DEF EndHandshake, SessInv
<1>2. PICK s \in {"open", "closed", "failed"} :
        /\ handshake' = [handshake EXCEPT ![c] = s]
        /\ s = "open" => owner = c /\ session' = c
        /\ s # "open" => session' = session
  BY DEF EndHandshake, CurrentOwner
<1>3. PICK h : h = [handshake EXCEPT ![c] = s]
  OBVIOUS
<1>4. /\ h \in [Connection -> {"none", "shaking", "open", "failed", "closed"}] /\ h[c] = s
      /\ \A d \in Connection : d # c => h[d] = handshake[d]
  BY <1>1, <1>3 DEF SessTypes
<1>5. session' \in Connection \cup {NoOne}
  BY <1>1, <1>2 DEF SessTypes
<1>6. OwnedInv'
  <2>1. CASE s = "open"
    BY <1>1, <1>2, <1>3, <1>4, <2>1 DEF SessInv, OwnedInv, OpenIsOwned
  <2>2. CASE s # "open"
    <3>1. session # NoOne => session \in Connection /\ session # c
      BY <1>1 DEF SessInv, SessTypes, OwnedInv
    <3> QED BY <1>1, <1>2, <1>3, <1>4, <2>2, <3>1 DEF SessInv, OwnedInv, OpenIsOwned
  <2> QED BY <2>1, <2>2
<1> QED BY <1>1, <1>2, <1>3, <1>4, <1>5, <1>6, ConnectionMoves DEF SessTypes

LEMMA ConnectionClosed ==
  ASSUME SessInv, NEW c \in Connection, CloseConnection(c) PROVE SessInv'
<1>1. /\ handshake[c] \in {"shaking", "open", "failed"} /\ owner = c /\ owner' = NoOne
      /\ session' = IF session = c THEN NoOne ELSE session
      /\ ClearOperations(c) /\ UNCHANGED <<opCall, callOn, turns, atWork, cancelAt>> /\ SessTypes
  BY DEF CloseConnection, CurrentOwner, SessInv
<1>2. PICK s \in {"shaking", "closed"} :
        /\ handshake' = [handshake EXCEPT ![c] = s]
        /\ s = "shaking" <=> handshake[c] = "shaking"
  BY <1>1 DEF CloseConnection, SessTypes
<1>3. PICK h : h = [handshake EXCEPT ![c] = s]
  OBVIOUS
<1>4. /\ h \in [Connection -> {"none", "shaking", "open", "failed", "closed"}] /\ h[c] = s
      /\ \A d \in Connection : d # c => h[d] = handshake[d]
  BY <1>1, <1>3 DEF SessTypes
<1>5. \A d \in Connection : h[d] # "open"
  BY <1>1, <1>4 DEF SessInv, OwnedInv, OpenIsOwned
<1>6. session' = NoOne
  <2>1. session # NoOne => session = c
    BY <1>1 DEF SessInv, SessTypes, OwnedInv, OpenIsOwned
  <2> QED BY <1>1, <2>1
<1>7. OwnedInv'
  BY <1>2, <1>3, <1>5, <1>6 DEF OwnedInv, OpenIsOwned
<1>8. /\ opSignal \subseteq opSignal'
      /\ \A k \in tombstones : k \in tombstones' \/ callOn[k] = c
  BY <1>1 DEF ClearOperations
<1> QED BY <1>1, <1>2, <1>3, <1>4, <1>6, <1>7, <1>8, ConnectionMoves

\* A call moves to the stage s, and its cancellation to the stage x; the turns of the
\* connections change so that they hold calls that were sent on them, and the one at
\* work stays at the head.
LEMMA CallSteps ==
  ASSUME SessInv, UNCHANGED <<owner, session, handshake, callOn>>,
         NEW k \in OpCall, NEW s \in Stages, opCall' = [opCall EXCEPT ![k] = s], s # "none",
         NEW x \in {"none", "sent", "seen"}, cancelAt' = [cancelAt EXCEPT ![k] = x],
         opCall[k] # "none",
         turns' \in [Connection -> Seq(OpCall)], TurnsInv',
         opSignal \subseteq opSignal', tombstones \ {k} \subseteq tombstones',
         x = "seen" /\ s = "sent" => k \in tombstones' \/ handshake[callOn[k]] = "closed",
         x = "seen" /\ s = "waiting" => k \in opSignal'
  PROVE  SessInv'
<1>1. SessTypes /\ CallsInv
  BY DEF SessInv
<1>2. /\ opCall'[k] = s /\ cancelAt'[k] = x
      /\ \A j \in OpCall : j # k => opCall'[j] = opCall[j] /\ cancelAt'[j] = cancelAt[j]
  BY <1>1 DEF SessTypes
<1>3. SessTypes'
  BY <1>1 DEF SessTypes
<1>4. OwnedInv'
  BY DEF SessInv, OwnedInv, OpenIsOwned
<1>5. CallsInv'
  <2>1. callOn[k] \in Connection /\ handshake[callOn[k]] \in {"open", "closed"}
    BY <1>1 DEF CallsInv
  <2>2. \A j \in OpCall \ {k} :
          /\ opCall[j] # "none" =>
               callOn[j] \in Connection /\ handshake[callOn[j]] \in {"open", "closed"}
          /\ cancelAt[j] = "seen" /\ opCall[j] = "sent" =>
               j \in tombstones' \/ handshake[callOn[j]] = "closed"
          /\ cancelAt[j] = "seen" /\ opCall[j] = "waiting" => j \in opSignal'
          /\ cancelAt[j] # "none" => opCall[j] # "none"
    BY <1>1 DEF CallsInv
  <2> QED BY <1>2, <2>1, <2>2 DEF CallsInv
<1> QED BY <1>3, <1>4, <1>5 DEF SessInv

\* The turns stand, and no call starts to run.
LEMMA TurnsStand ==
  ASSUME SessInv, UNCHANGED <<callOn, turns>>, NEW k \in OpCall, NEW s \in Stages \ {"running", "none"},
         opCall' = [opCall EXCEPT ![k] = s]
  PROVE  TurnsInv' /\ turns' \in [Connection -> Seq(OpCall)]
<1>1. SessTypes /\ TurnsInv
  BY DEF SessInv
<1>2. \A j \in OpCall : (j # k => opCall'[j] = opCall[j]) /\ opCall'[k] = s
  BY <1>1 DEF SessTypes
<1>3. \A c \in Connection : \A i \in 1..Len(turns[c]) : turns[c][i] \in OpCall
  BY <1>1 DEF SessTypes
<1> QED BY <1>1, <1>2, <1>3 DEF TurnsInv, SessTypes

LEMMA TurnsKept ==
  ASSUME SessInv, UNCHANGED <<opCall, callOn, turns>>
  PROVE  TurnsInv' /\ turns' \in [Connection -> Seq(OpCall)]
BY DEF SessInv, TurnsInv, SessTypes

\* What a step that leaves the call or its cancellation alone writes.
LEMMA Unmoved ==
  ASSUME SessInv, NEW k \in OpCall
  PROVE  /\ opCall = [opCall EXCEPT ![k] = opCall[k]] /\ opCall[k] \in Stages
         /\ cancelAt = [cancelAt EXCEPT ![k] = cancelAt[k]]
         /\ cancelAt[k] \in {"none", "sent", "seen"}
<1>1. SessTypes
  BY DEF SessInv
<1> QED BY <1>1 DEF SessTypes

LEMMA CallSent ==
  ASSUME SessInv, NEW k \in OpCall, NEW c \in Connection, SendCall(k, c) PROVE SessInv'
<1>1. /\ opCall[k] = "none" /\ handshake[c] \in {"open", "closed"}
      /\ opCall' = [opCall EXCEPT ![k] = "sent"] /\ callOn' = [callOn EXCEPT ![k] = c]
      /\ UNCHANGED <<owner, session, handshake, opSignal, turns, cancelAt, tombstones>>
      /\ SessTypes /\ CallsInv /\ TurnsInv
  BY DEF SendCall, SessInv
<1>2. /\ opCall'[k] = "sent" /\ callOn'[k] = c
      /\ \A j \in OpCall : j # k => opCall'[j] = opCall[j] /\ callOn'[j] = callOn[j]
  BY <1>1 DEF SessTypes
<1>3. SessTypes'
  BY <1>1 DEF SessTypes, Stages
<1>4. OwnedInv'
  BY <1>1 DEF SessInv, OwnedInv, OpenIsOwned
<1>5. CallsInv'
  <2>1. cancelAt[k] = "none"
    BY <1>1 DEF CallsInv, SessTypes
  <2> QED BY <1>1, <1>2, <2>1 DEF CallsInv
<1>6. TurnsInv'
  <2>1. \A d \in Connection : \A i \in 1..Len(turns[d]) : turns[d][i] \in OpCall \ {k}
    BY <1>1 DEF SessTypes, TurnsInv
  <2> QED BY <1>1, <1>2, <2>1 DEF TurnsInv
<1> QED BY <1>3, <1>4, <1>5, <1>6 DEF SessInv

LEMMA CallAdmitted ==
  ASSUME SessInv, NEW k \in OpCall, AdmitCall(k) PROVE SessInv'
<1>1. /\ opCall[k] = "sent" /\ UNCHANGED <<owner, session, handshake, callOn, cancelAt>>
      /\ SessTypes /\ CallsInv /\ TurnsInv
  BY DEF AdmitCall, SessInv
<1>2. callOn[k] \in Connection
  BY <1>1 DEF CallsInv
<1>3. CASE session # callOn[k]
  <2>1. opCall' = [opCall EXCEPT ![k] = "done"] /\ UNCHANGED <<turns, opSignal, tombstones>>
    BY <1>3 DEF AdmitCall
  <2> QED BY <1>1, <2>1, TurnsStand, Unmoved, CallSteps DEF Stages
<1>4. CASE session = callOn[k]
  <2>1. PICK s \in {"done", "waiting"} :
          opCall' = [opCall EXCEPT ![k] = s] /\ (s = "done" <=> k \in tombstones)
    BY <1>4 DEF AdmitCall
  <2>2. /\ turns' = [turns EXCEPT ![callOn[k]] = Append(@, k)] /\ tombstones' = tombstones \ {k}
        /\ opSignal \subseteq opSignal'
    BY <1>4 DEF AdmitCall
  <2>3. handshake[callOn[k]] = "open"
    BY <1>2, <1>4, SessionAssumption DEF SessInv, OwnedInv
  <2>4. cancelAt[k] = "seen" => s = "done"
    BY <1>1, <2>1, <2>3 DEF CallsInv
  <2>5. PICK q : q = Append(turns[callOn[k]], k)
    OBVIOUS
  <2>6. /\ turns[callOn[k]] \in Seq(OpCall) /\ q \in Seq(OpCall)
        /\ Len(q) = Len(turns[callOn[k]]) + 1 /\ q # <<>>
        /\ \A i \in 1..Len(q) : q[i] = k \/ (i \in 1..Len(turns[callOn[k]]) /\ q[i] = turns[callOn[k]][i])
        /\ turns[callOn[k]] # <<>> => Head(q) = Head(turns[callOn[k]])
    <3>1. turns[callOn[k]] \in Seq(OpCall)
      BY <1>1, <1>2 DEF SessTypes
    <3>2. /\ q \in Seq(OpCall) /\ Len(q) = Len(turns[callOn[k]]) + 1
          /\ \A i \in 1..Len(q) : q[i] = k \/ (i \in 1..Len(turns[callOn[k]]) /\ q[i] = turns[callOn[k]][i])
      BY <2>5, <3>1
    <3>3. Len(turns[callOn[k]]) \in Nat /\ q # <<>>
      BY <3>1, <3>2, EmptySeq
    <3>4. turns[callOn[k]] # <<>> => Head(q) = Head(turns[callOn[k]])
      BY <2>5, <3>1, <3>2, <3>3, EmptySeq, HeadTailProperties
    <3> QED BY <3>1, <3>2, <3>3, <3>4
  <2>7. /\ turns' \in [Connection -> Seq(OpCall)] /\ turns'[callOn[k]] = q
        /\ \A d \in Connection : d # callOn[k] => turns'[d] = turns[d]
    BY <1>1, <1>2, <2>2, <2>5, <2>6 DEF SessTypes
  <2>8. opCall'[k] = s /\ \A j \in OpCall : j # k => opCall'[j] = opCall[j]
    BY <1>1, <2>1 DEF SessTypes
  <2>9. TurnsInv'
    <3>1. ASSUME NEW d \in Connection, NEW i \in 1..Len(turns'[d])
          PROVE  opCall'[turns'[d][i]] # "none" /\ callOn'[turns'[d][i]] = d
      <4>1. CASE turns'[d][i] = k /\ d = callOn[k]
        BY <1>1, <2>1, <2>8, <4>1
      <4>2. CASE i \in 1..Len(turns[d]) /\ turns'[d][i] = turns[d][i]
        <5>1. turns[d][i] \in OpCall
          BY <1>1, <4>2 DEF SessTypes
        <5> QED BY <1>1, <2>1, <2>8, <4>2, <5>1 DEF TurnsInv
      <4> QED BY <2>6, <2>7, <4>1, <4>2
    <3>2. ASSUME NEW j \in OpCall, opCall'[j] = "running"
          PROVE  turns'[callOn'[j]] # <<>> /\ j = Head(turns'[callOn'[j]])
      <4>1. j # k /\ opCall[j] = "running" /\ callOn[j] \in Connection
        BY <1>1, <2>1, <2>8, <3>2 DEF CallsInv
      <4>2. turns[callOn[j]] # <<>> /\ j = Head(turns[callOn[j]])
        BY <1>1, <4>1 DEF TurnsInv
      <4> QED BY <1>1, <2>6, <2>7, <4>1, <4>2
    <3> QED BY <3>1, <3>2 DEF TurnsInv
  <2> QED BY <1>1, <2>1, <2>2, <2>4, <2>7, <2>9, Unmoved, CallSteps DEF Stages
<1> QED BY <1>3, <1>4

LEMMA CancelAdmitted ==
  ASSUME SessInv, NEW k \in OpCall, AdmitCancel(k) PROVE SessInv'
<1>1. /\ cancelAt[k] = "sent" /\ cancelAt' = [cancelAt EXCEPT ![k] = "seen"]
      /\ UNCHANGED <<owner, session, handshake, opCall, callOn, turns>>
  BY DEF AdmitCancel
<1>2. opCall[k] # "none"
  BY <1>1 DEF SessInv, CallsInv
<1>3. /\ opSignal \subseteq opSignal' /\ tombstones \ {k} \subseteq tombstones'
      /\ opCall[k] = "waiting" => k \in opSignal'
      /\ opCall[k] = "sent" => k \in tombstones'
  BY DEF AdmitCancel, Active
<1> QED BY <1>1, <1>2, <1>3, TurnsKept, Unmoved, CallSteps

LEMMA TurnPassed ==
  ASSUME SessInv, NEW c \in Connection, PassTurn(c) PROVE SessInv'
<1>1. /\ turns[c] # <<>> /\ opCall[Head(turns[c])] = "done"
      /\ turns' = [turns EXCEPT ![c] = Tail(turns[c])]
      /\ UNCHANGED <<owner, session, handshake, opCall, callOn, opSignal, cancelAt, tombstones>>
      /\ SessTypes /\ CallsInv /\ TurnsInv
  BY DEF PassTurn, SessInv
<1>2. turns[c] \in Seq(OpCall)
  BY <1>1 DEF SessTypes
<1>3. /\ Tail(turns[c]) \in Seq(OpCall) /\ Len(Tail(turns[c])) = Len(turns[c]) - 1
      /\ Len(turns[c]) \in Nat \ {0}
      /\ \A i \in 1..Len(turns[c]) - 1 : Tail(turns[c])[i] = turns[c][i + 1]
  BY <1>1, <1>2, EmptySeq, HeadTailProperties
<1>4. PICK q : q = Tail(turns[c])
  OBVIOUS
<1>5. /\ turns' \in [Connection -> Seq(OpCall)] /\ turns'[c] = q
      /\ \A d \in Connection : d # c => turns'[d] = turns[d]
  BY <1>1, <1>3, <1>4 DEF SessTypes
<1>6. \A i \in 1..Len(q) : \E j \in 1..Len(turns[c]) : q[i] = turns[c][j]
  <2>1. ASSUME NEW i \in 1..Len(q) PROVE \E j \in 1..Len(turns[c]) : q[i] = turns[c][j]
    <3>1. i \in 1..Len(turns[c]) - 1 /\ i + 1 \in 1..Len(turns[c])
      BY <1>3, <1>4
    <3>2. q[i] = turns[c][i + 1]
      BY <1>3, <1>4, <3>1
    <3> QED BY <3>1, <3>2
  <2> QED BY <2>1
<1>7. TurnsInv'
  <2>1. ASSUME NEW d \in Connection, NEW i \in 1..Len(turns'[d])
        PROVE  opCall[turns'[d][i]] # "none" /\ callOn[turns'[d][i]] = d
    <3>1. CASE d = c
      <4>2. PICK j \in 1..Len(turns[c]) : turns'[d][i] = turns[c][j]
        BY <1>5, <1>6, <3>1
      <4>3. opCall[turns[c][j]] # "none" /\ callOn[turns[c][j]] = c
        BY <1>1, <4>2 DEF TurnsInv
      <4> QED BY <3>1, <4>2, <4>3
    <3>2. CASE d # c
      BY <1>1, <1>5, <3>2 DEF TurnsInv
    <3> QED BY <3>1, <3>2
  <2>2. ASSUME NEW j \in OpCall, opCall[j] = "running"
        PROVE  turns'[callOn[j]] # <<>> /\ j = Head(turns'[callOn[j]])
    <3>1. turns[callOn[j]] # <<>> /\ j = Head(turns[callOn[j]]) /\ callOn[j] \in Connection
      BY <1>1, <2>2 DEF TurnsInv, CallsInv
    <3>2. callOn[j] # c
      BY <1>1, <2>2, <3>1
    <3> QED BY <1>5, <3>1, <3>2
  <2> QED BY <1>1, <2>1, <2>2 DEF TurnsInv
<1>8. SessTypes' /\ OwnedInv' /\ CallsInv'
  BY <1>1, <1>5 DEF SessTypes, SessInv, OwnedInv, OpenIsOwned, CallsInv
<1> QED BY <1>7, <1>8 DEF SessInv

\* The call whose turn it is: it waits, it was not aborted, and no other call of its
\* connection is at work.
LEMMA TurnIs ==
  ASSUME SessInv, NEW c \in Connection, TakeTurn(c)
  PROVE  \E k \in OpCall : /\ k = Head(turns[c]) /\ opCall[k] = "waiting" /\ k \notin opSignal
                           /\ callOn[k] = c /\ cancelAt[k] # "seen"
                           /\ \A x \in OpCall : opCall[x] = "running" => callOn[x] # c
<1>1. /\ turns[c] # <<>> /\ opCall[Head(turns[c])] = "waiting" /\ Head(turns[c]) \notin opSignal
      /\ SessTypes /\ CallsInv /\ TurnsInv
  BY DEF TakeTurn, SessInv
<1>2. turns[c] \in Seq(OpCall)
  BY <1>1 DEF SessTypes
<1>3. Head(turns[c]) = turns[c][1] /\ Head(turns[c]) \in OpCall /\ 1 \in 1..Len(turns[c])
  BY <1>1, <1>2, EmptySeq, HeadTailProperties
<1>4. callOn[Head(turns[c])] = c
  BY <1>1, <1>3 DEF TurnsInv
<1>5. cancelAt[Head(turns[c])] # "seen"
  BY <1>1, <1>3 DEF CallsInv
<1>6. \A x \in OpCall : opCall[x] = "running" => callOn[x] # c
  BY <1>1 DEF TurnsInv
<1> QED BY <1>1, <1>3, <1>4, <1>5, <1>6

LEMMA TurnTaken ==
  ASSUME SessInv, NEW c \in Connection, TakeTurn(c) PROVE SessInv'
<1>1. PICK k \in OpCall : /\ k = Head(turns[c]) /\ opCall[k] = "waiting" /\ callOn[k] = c
                          /\ cancelAt[k] # "seen"
  BY TurnIs
<1>2. PICK s \in {"running", "done"} : opCall' = [opCall EXCEPT ![k] = s]
  BY <1>1 DEF TakeTurn
<1>3. UNCHANGED <<owner, session, handshake, callOn, opSignal, turns, cancelAt, tombstones>>
      /\ turns[c] # <<>> /\ SessTypes /\ TurnsInv /\ CallsInv
  BY DEF TakeTurn, SessInv
<1>4. opCall'[k] = s /\ \A j \in OpCall : j # k => opCall'[j] = opCall[j]
  BY <1>2, <1>3 DEF SessTypes
<1>5. TurnsInv'
  <2>1. \A d \in Connection : \A i \in 1..Len(turns[d]) : turns[d][i] \in OpCall
    BY <1>3 DEF SessTypes
  <2> QED BY <1>1, <1>3, <1>4, <2>1 DEF TurnsInv
<1>6. turns' \in [Connection -> Seq(OpCall)]
  BY <1>3 DEF SessTypes
<1> QED BY <1>1, <1>2, <1>3, <1>5, <1>6, Unmoved, CallSteps DEF Stages

LEMMA CallDone ==
  ASSUME SessInv, NEW k \in OpCall, GiveUpWaiting(k) \/ EndCall(k) PROVE SessInv'
<1>1. /\ opCall[k] # "none" /\ opCall' = [opCall EXCEPT ![k] = "done"]
      /\ UNCHANGED <<owner, session, handshake, callOn, opSignal, turns, cancelAt, tombstones>>
  BY DEF GiveUpWaiting, EndCall
<1> QED BY <1>1, TurnsStand, Unmoved, CallSteps DEF Stages

LEMMA CancelMoves ==
  ASSUME SessInv, NEW k \in OpCall, SendCancel(k) \/ ExpireCancel(k) PROVE SessInv'
<1>1. CASE SendCancel(k)
  <2>1. /\ opCall[k] # "none" /\ cancelAt' = [cancelAt EXCEPT ![k] = "sent"]
        /\ UNCHANGED <<owner, session, handshake, opCall, callOn, opSignal, turns, tombstones>>
    BY <1>1 DEF SendCancel
  <2> QED BY <2>1, TurnsKept, Unmoved, CallSteps
<1>2. CASE ExpireCancel(k)
  <2>1. /\ opCall[k] # "sent" /\ tombstones' = tombstones \ {k}
        /\ UNCHANGED <<owner, session, handshake, opCall, callOn, opSignal, turns, cancelAt>>
    BY <1>2 DEF ExpireCancel
  <2>2. CallsInv'
    BY <2>1 DEF SessInv, CallsInv
  <2> QED BY <2>1, <2>2 DEF SessInv, SessTypes, OwnedInv, OpenIsOwned, TurnsInv
<1> QED BY <1>1, <1>2

DispatchedRightly ==
  \A k \in OpCall :
    opCall[k] # "running" /\ opCall'[k] = "running"
      => /\ cancelAt[k] # "seen"
         /\ \A x \in OpCall \ {k} : ~(opCall[x] = "running" /\ callOn[x] = callOn[k])

LEMMA SessionStep ==
  ASSUME SessInv, [SessionNext]_sessionVars PROVE SessInv' /\ DispatchedRightly
<1>0. SessTypes
  BY DEF SessInv
<1>1. ASSUME NEW c \in Connection, ClaimConnection(c) \/ EndHandshake(c) \/ CloseConnection(c)
      PROVE  SessInv' /\ DispatchedRightly
  <2>1. opCall' = opCall
    BY <1>1 DEF ClaimConnection, EndHandshake, CloseConnection
  <2> QED BY <1>1, <2>1, ConnectionClaimed, HandshakeEnded, ConnectionClosed DEF DispatchedRightly
<1>2. ASSUME NEW c \in Connection, PassTurn(c) PROVE SessInv' /\ DispatchedRightly
  BY <1>2, TurnPassed DEF DispatchedRightly, PassTurn
<1>3. ASSUME NEW c \in Connection, TakeTurn(c) PROVE SessInv' /\ DispatchedRightly
  <2>1. PICK k \in OpCall : /\ k = Head(turns[c]) /\ callOn[k] = c /\ cancelAt[k] # "seen"
                            /\ \A x \in OpCall : opCall[x] = "running" => callOn[x] # c
    BY <1>3, TurnIs
  <2>2. \A j \in OpCall : j # k => opCall'[j] = opCall[j]
    BY <1>0, <1>3, <2>1 DEF TakeTurn, SessTypes
  <2>3. DispatchedRightly
    BY <2>1, <2>2 DEF DispatchedRightly
  <2> QED BY <1>3, <2>3, TurnTaken
<1>4. ASSUME NEW k \in OpCall, NEW c \in Connection, SendCall(k, c)
      PROVE  SessInv' /\ DispatchedRightly
  <2>1. \A j \in OpCall : opCall'[j] = "running" => opCall[j] = "running"
    BY <1>0, <1>4 DEF SendCall, SessTypes
  <2> QED BY <1>4, <2>1, CallSent DEF DispatchedRightly
<1>5. ASSUME NEW k \in OpCall, AdmitCall(k) PROVE SessInv' /\ DispatchedRightly
  <2>1. \A j \in OpCall : opCall'[j] = "running" => opCall[j] = "running"
    BY <1>0, <1>5 DEF AdmitCall, SessTypes
  <2> QED BY <1>5, <2>1, CallAdmitted DEF DispatchedRightly
<1>6. ASSUME NEW k \in OpCall, GiveUpWaiting(k) \/ EndCall(k) PROVE SessInv' /\ DispatchedRightly
  <2>1. \A j \in OpCall : opCall'[j] = "running" => opCall[j] = "running"
    BY <1>0, <1>6 DEF GiveUpWaiting, EndCall, SessTypes
  <2> QED BY <1>6, <2>1, CallDone DEF DispatchedRightly
<1>7. ASSUME NEW k \in OpCall, SendCancel(k) \/ ExpireCancel(k) \/ AdmitCancel(k)
      PROVE  SessInv' /\ DispatchedRightly
  <2>1. opCall' = opCall
    BY <1>7 DEF SendCancel, ExpireCancel, AdmitCancel
  <2> QED BY <1>7, <2>1, CancelMoves, CancelAdmitted DEF DispatchedRightly
<1>8. CASE UNCHANGED sessionVars
  <2>1. UNCHANGED <<owner, session, handshake, opCall, callOn, opSignal, turns, cancelAt, tombstones>>
    BY <1>8
  <2>2. SessInv'
    BY <2>1 DEF SessInv, SessTypes, OwnedInv, OpenIsOwned, CallsInv, TurnsInv
  <2> QED BY <2>1, <2>2 DEF DispatchedRightly
<1> QED BY <1>1, <1>2, <1>3, <1>4, <1>5, <1>6, <1>7, <1>8 DEF SessionNext

\* At most the owner's client is open; a call whose cancellation was seen is never
\* dispatched, whichever of the two arrived first, and a client has one call at work
\* (mcp/workerSessions.ts: claimConnection, cancelToolCall; mcp/client.ts: callTool).
THEOREM CancelledStaysCancelled == SessionSpec => CancelledNeverRuns
<1>1. SessionInit => SessInv
  BY SessionStarts
<1>2. SessInv /\ [SessionNext]_sessionVars => SessInv'
  BY SessionStep
<1>3. SessInv /\ [SessionNext]_sessionVars => [DispatchedRightly]_sessionVars
  BY SessionStep
<1>4. SessInv => OpenIsOwned
  BY DEF SessInv, OwnedInv
<1>5. SessionSpec => []OpenIsOwned /\ [][DispatchedRightly]_sessionVars
  BY <1>1, <1>2, <1>3, <1>4, PTL DEF SessionSpec
<1> QED BY <1>5 DEF CancelledNeverRuns, DispatchedRightly

-------------------------------------------------------------------------------
(****************************************************************************)
(* The grants of the gatekeeper.  A clearing that waits behind other mutations  *)
(* makes what memory and storage hold irrelevant; where none waits, and none    *)
(* was lost, both hold what the user gave.                                      *)
(****************************************************************************)
Grants == SUBSET Grant

\* A call the user was asked about is a call of the gate, until it is dispatched.
Held == {"asked", "deciding", "granting", "accepted"}
CallFine ==
  /\ DOMAIN gateCall = {"at", "call", "revision", "decision", "recovered"}
  /\ gateCall.at \in Held => gateCall.call \in GateCall

GateTypes ==
  /\ grantTail \in Seq(Grants)
  /\ mutation \in [at : {"none", "storing", "stored"}, next : Grants]
  /\ grants \in Grants /\ grantsStored \in Grants
  /\ gateReady \in {"hydrating", "revoked", "ready", "failed"}
  /\ clearLost \in BOOLEAN
  /\ CallFine

ClearWaits == \E n \in 1..Len(grantTail) : grantTail[n] = {}

\* While the state is read back, or after a failure, nothing is being changed.
ReadyInv ==
  /\ gateReady = "ready" /\ mutation.at = "none" /\ ~ClearWaits => grants = grantsStored
  /\ mutation.at = "stored" => grantsStored = mutation.next
  /\ gateReady # "ready" => mutation.at = "none"
  /\ gateReady \in {"hydrating", "failed"} => grantTail = <<>> /\ grants = {}
  /\ gateReady = "revoked" => ClearWaits /\ grants = {}

\* What waits behind the last clearing was given after it.
TailInv ==
  \A n \in 1..Len(grantTail) :
    grantTail[n] \subseteq given \/ \E m \in 1..Len(grantTail) : m > n /\ grantTail[m] = {}

GivenInv ==
  ~clearLost /\ ~ClearWaits /\ ~(mutation.at = "storing" /\ mutation.next = {})
    => /\ grantsStored \subseteq given
       /\ mutation.at = "none" => grants \subseteq given
       /\ mutation.at # "none" => mutation.next \subseteq given

GateInv == GateTypes /\ ReadyInv /\ TailInv /\ GivenInv

LEMMA GateStarts == ASSUME GateInit PROVE GateInv
<1>1. /\ grants = {} /\ grantsStored = {} /\ grantTail = <<>> /\ gateReady = "ready"
      /\ mutation = [at |-> "none", next |-> {}] /\ clearLost = FALSE /\ given = {}
      /\ gateCall = NoCall
  BY DEF GateInit
<1>2. grantTail \in Seq(Grants) /\ Len(grantTail) = 0
  BY <1>1
<1>3. mutation \in [at : {"none", "storing", "stored"}, next : Grants] /\ mutation.at = "none"
  BY <1>1 DEF Grants
<1>4. CallFine
  BY <1>1 DEF CallFine, NoCall, Held
<1>5. GateTypes
  BY <1>1, <1>2, <1>3, <1>4 DEF GateTypes, Grants
<1>6. ReadyInv /\ TailInv /\ GivenInv
  BY <1>1, <1>2, <1>3 DEF ReadyInv, TailInv, GivenInv
<1> QED BY <1>5, <1>6 DEF GateInv

\* A call moves on at the gate, and nothing else does.
LEMMA CallMoves ==
  ASSUME GateInv, UNCHANGED <<grants, grantsStored, grantTail, mutation, gateReady, given, clearLost>>,
         CallFine'
  PROVE  GateInv'
<1>1. GateTypes'
  BY DEF GateInv, GateTypes
<1>2. ReadyInv' /\ TailInv' /\ GivenInv'
  BY DEF GateInv, ReadyInv, TailInv, GivenInv, ClearWaits
<1> QED BY <1>1, <1>2 DEF GateInv

\* A call that stays the same.
LEMMA CallStays == ASSUME GateInv, UNCHANGED gateCall PROVE CallFine'
BY DEF GateInv, GateTypes, CallFine

\* An update of a call the user was asked about keeps its fields.
LEMMA CallUpdated ==
  ASSUME GateInv, gateCall.at \in Held, NEW f, gateCall' = [gateCall EXCEPT !.at = f]
  PROVE  CallFine'
<1>1. DOMAIN gateCall = {"at", "call", "revision", "decision", "recovered"}
      /\ gateCall.call \in GateCall
  BY DEF GateInv, GateTypes, CallFine
<1>2. DOMAIN gateCall' = DOMAIN gateCall /\ gateCall'.call = gateCall.call
  BY <1>1
<1> QED BY <1>1, <1>2 DEF CallFine

LEMMA CallDecided ==
  ASSUME GateInv, NEW d, Accept(d) PROVE CallFine'
<1>1. /\ gateCall.at = "asked"
      /\ gateCall' = [gateCall EXCEPT !.at = "deciding", !.decision = d]
  BY DEF Accept
<1>2. DOMAIN gateCall = {"at", "call", "revision", "decision", "recovered"}
      /\ gateCall.call \in GateCall
  BY <1>1 DEF GateInv, GateTypes, CallFine, Held
<1>3. DOMAIN gateCall' = DOMAIN gateCall /\ gateCall'.call = gateCall.call
  BY <1>1, <1>2
<1> QED BY <1>2, <1>3 DEF CallFine

\* A call that is over.
LEMMA CallEnds ==
  ASSUME gateCall' = NoCall \/ \E f \in {"ran", "refused"} : gateCall' = [NoCall EXCEPT !.at = f]
  PROVE  CallFine'
<1>1. CASE gateCall' = NoCall
  BY <1>1 DEF NoCall, CallFine, Held
<1>2. ASSUME NEW f \in {"ran", "refused"}, gateCall' = [NoCall EXCEPT !.at = f] PROVE CallFine'
  <2>1. DOMAIN NoCall = {"at", "call", "revision", "decision", "recovered"}
    BY DEF NoCall
  <2>2. DOMAIN gateCall' = DOMAIN NoCall /\ gateCall'.at = f
    BY <1>2, <2>1
  <2> QED BY <2>1, <2>2 DEF CallFine, Held
<1> QED BY <1>1, <1>2

\* What recovery finds of a call.
LEMMA CallRecovered ==
  ASSUME GateInv, gateCall' \in Recoverable PROVE CallFine'
<1>1. CASE gateCall' = NoCall
  BY <1>1, CallEnds
<1>2. CASE gateCall' # NoCall
  <2>1. PICK to \in {"asked", "deciding"} :
          /\ gateCall' = [gateCall EXCEPT !.at = to, !.revision = Quiet, !.recovered = TRUE]
          /\ gateCall.at \in Held
    BY <1>2 DEF Recoverable, Held
  <2>2. DOMAIN gateCall = {"at", "call", "revision", "decision", "recovered"}
        /\ gateCall.call \in GateCall
    BY <2>1 DEF GateInv, GateTypes, CallFine
  <2>3. DOMAIN gateCall' = DOMAIN gateCall /\ gateCall'.call = gateCall.call
    BY <2>1, <2>2
  <2> QED BY <2>2, <2>3 DEF CallFine
<1> QED BY <1>1, <1>2

\* What a mutation chained behind the others changes.
LEMMA Chained ==
  ASSUME GateTypes, NEW m \in Grants, grantTail' = Append(grantTail, m)
  PROVE  /\ grantTail' \in Seq(Grants) /\ Len(grantTail') = Len(grantTail) + 1
         /\ Len(grantTail) \in Nat
         /\ grantTail'[Len(grantTail) + 1] = m
         /\ \A n \in 1..Len(grantTail) : grantTail'[n] = grantTail[n]
         /\ ClearWaits' <=> ClearWaits \/ m = {}
<1>1. /\ grantTail' \in Seq(Grants) /\ Len(grantTail') = Len(grantTail) + 1
      /\ Len(grantTail) \in Nat
      /\ grantTail'[Len(grantTail) + 1] = m
      /\ \A n \in 1..Len(grantTail) : grantTail'[n] = grantTail[n]
  BY DEF GateTypes
<1>2. ClearWaits' <=> ClearWaits \/ m = {}
  BY <1>1 DEF ClearWaits
<1> QED BY <1>1, <1>2

LEMMA GrantChained ==
  ASSUME GateInv, NEW g \in Grant, grantTail' = Append(grantTail, {g}), given' = given \cup {g},
         gateReady = "ready", UNCHANGED <<grants, grantsStored, mutation, gateReady, clearLost>>,
         CallFine'
  PROVE  GateInv'
<1>1. GateTypes /\ {g} \in Grants /\ {g} # {}
  BY DEF GateInv, Grants
<1>2. /\ grantTail' \in Seq(Grants) /\ Len(grantTail') = Len(grantTail) + 1
      /\ Len(grantTail) \in Nat
      /\ grantTail'[Len(grantTail) + 1] = {g}
      /\ \A n \in 1..Len(grantTail) : grantTail'[n] = grantTail[n]
      /\ ClearWaits' <=> ClearWaits
  BY <1>1, Chained
<1>3. GateTypes'
  BY <1>1, <1>2 DEF GateTypes
<1>4. ReadyInv'
  BY <1>2 DEF GateInv, ReadyInv
<1>5. GivenInv'
  BY <1>2 DEF GateInv, GivenInv
<1>6. TailInv'
  <2> SUFFICES ASSUME NEW n \in 1..Len(grantTail')
               PROVE  grantTail'[n] \subseteq given' \/
                      \E m \in 1..Len(grantTail') : m > n /\ grantTail'[m] = {}
    BY DEF TailInv
  <2>1. CASE n = Len(grantTail) + 1
    BY <1>2, <2>1
  <2>2. CASE n \in 1..Len(grantTail)
    <3>1. grantTail[n] \subseteq given \/ \E m \in 1..Len(grantTail) : m > n /\ grantTail[m] = {}
      BY <2>2 DEF GateInv, TailInv
    <3> QED BY <1>2, <2>2, <3>1
  <2> QED BY <1>2, <2>1, <2>2
<1> QED BY <1>3, <1>4, <1>5, <1>6 DEF GateInv

LEMMA MutationBegins == ASSUME GateInv, BeginMutation PROVE GateInv'
<1>1. /\ gateReady = "ready" /\ mutation.at = "none" /\ grantTail # <<>>
      /\ mutation' = [at |-> "storing", next |-> Apply(Head(grantTail), grants)]
      /\ grantTail' = Tail(grantTail)
      /\ UNCHANGED <<grants, grantsStored, gateReady, gateCall, given, clearLost>>
  BY DEF BeginMutation
<1>2. /\ grantTail \in Seq(Grants) /\ grants \in Grants /\ GateTypes
  BY DEF GateInv, GateTypes
<1>3. /\ Tail(grantTail) \in Seq(Grants) /\ Len(Tail(grantTail)) = Len(grantTail) - 1
      /\ Head(grantTail) \in Grants /\ Head(grantTail) = grantTail[1]
      /\ Len(grantTail) \in Nat \ {0}
      /\ \A i \in 1..Len(grantTail) - 1 : Tail(grantTail)[i] = grantTail[i + 1]
  BY <1>1, <1>2, EmptySeq, HeadTailProperties
<1>4. ClearWaits => ClearWaits' \/ Head(grantTail) = {}
  <2> SUFFICES ASSUME NEW n \in 1..Len(grantTail), grantTail[n] = {}, Head(grantTail) # {}
               PROVE  ClearWaits'
    BY DEF ClearWaits
  <2>1. n - 1 \in 1..Len(grantTail') /\ grantTail'[n - 1] = grantTail[n]
    <3>1. n # 1
      BY <1>3
    <3> QED BY <1>1, <1>3, <3>1
  <2> QED BY <2>1 DEF ClearWaits
<1>5. PICK next \in Grants : next = Apply(Head(grantTail), grants)
  BY <1>2, <1>3 DEF Apply, Grants
<1>6. mutation'.at = "storing" /\ mutation'.next = next
      /\ mutation' \in [at : {"none", "storing", "stored"}, next : Grants]
  BY <1>1, <1>5
<1>7. GateTypes'
  BY <1>1, <1>2, <1>3, <1>6 DEF GateTypes, CallFine
<1>8. ReadyInv'
  BY <1>1, <1>6 DEF ReadyInv
<1>9. TailInv'
  <2> SUFFICES ASSUME NEW n \in 1..Len(grantTail')
               PROVE  grantTail'[n] \subseteq given' \/
                      \E m \in 1..Len(grantTail') : m > n /\ grantTail'[m] = {}
    BY DEF TailInv
  <2>1. n + 1 \in 1..Len(grantTail) /\ grantTail'[n] = grantTail[n + 1]
    BY <1>1, <1>3
  <2>2. CASE grantTail[n + 1] \subseteq given
    BY <1>1, <2>1, <2>2
  <2>3. CASE \E m \in 1..Len(grantTail) : m > n + 1 /\ grantTail[m] = {}
    <3>1. PICK m \in 1..Len(grantTail) : m > n + 1 /\ grantTail[m] = {}
      BY <2>3
    <3>2. m - 1 \in 1..Len(grantTail') /\ m - 1 > n /\ grantTail'[m - 1] = {}
      BY <1>1, <1>3, <3>1
    <3> QED BY <3>2
  <2> QED BY <2>1, <2>2, <2>3 DEF GateInv, TailInv
<1>10. GivenInv'
  <2> SUFFICES ASSUME ~clearLost, ~ClearWaits', next # {}
               PROVE  grantsStored \subseteq given /\ next \subseteq given
    BY <1>1, <1>6 DEF GivenInv
  <2>1. Head(grantTail) # {}
    BY <1>5 DEF Apply
  <2>2. ~ClearWaits
    BY <1>4, <2>1
  <2>3. grantTail[1] \subseteq given
    <3>1. 1 \in 1..Len(grantTail)
      BY <1>3
    <3> QED BY <2>2, <3>1 DEF GateInv, TailInv, ClearWaits
  <2>4. grantsStored \subseteq given /\ grants \subseteq given
    BY <1>1, <2>2 DEF GateInv, GivenInv
  <2>5. next = grants \cup Head(grantTail)
    BY <1>5, <2>1 DEF Apply
  <2> QED BY <1>3, <2>3, <2>4, <2>5
<1> QED BY <1>7, <1>8, <1>9, <1>10 DEF GateInv

LEMMA MutationStored == ASSUME GateInv, StoreMutation PROVE GateInv'
<1>1. /\ mutation.at = "storing" /\ grantsStored' = mutation.next
      /\ mutation \in [at : {"none", "storing", "stored"}, next : Grants]
      /\ UNCHANGED <<grants, grantTail, gateReady, gateCall, given, clearLost>>
      /\ mutation' = [mutation EXCEPT !.at = "stored"]
  BY DEF StoreMutation, GateInv, GateTypes
<1>2. /\ mutation' \in [at : {"none", "storing", "stored"}, next : Grants]
      /\ mutation'.at = "stored" /\ mutation'.next = mutation.next /\ mutation.next \in Grants
  BY <1>1
<1>3. ClearWaits' <=> ClearWaits
  BY <1>1 DEF ClearWaits
<1>4. GateTypes'
  BY <1>1, <1>2 DEF GateInv, GateTypes, CallFine
<1>5. ReadyInv'
  BY <1>1, <1>2, <1>3 DEF GateInv, ReadyInv
<1>6. TailInv'
  BY <1>1 DEF GateInv, TailInv
<1>7. GivenInv'
  BY <1>1, <1>2, <1>3 DEF GateInv, GivenInv
<1> QED BY <1>4, <1>5, <1>6, <1>7 DEF GateInv

LEMMA MutationEnds == ASSUME GateInv, EndMutation PROVE GateInv'
<1>1. /\ mutation.at = "stored" /\ grants' = mutation.next
      /\ mutation' = [at |-> "none", next |-> {}]
      /\ mutation \in [at : {"none", "storing", "stored"}, next : Grants]
      /\ UNCHANGED <<grantsStored, grantTail, gateReady, given, clearLost>>
  BY DEF EndMutation, GateInv, GateTypes
<1>2. /\ mutation' \in [at : {"none", "storing", "stored"}, next : Grants]
      /\ mutation'.at = "none" /\ mutation.next \in Grants
  BY <1>1 DEF Grants
<1>3. ClearWaits' <=> ClearWaits
  BY <1>1 DEF ClearWaits
<1>4. CallFine'
  <2>1. \/ gateCall' = gateCall
        \/ gateCall.at = "granting" /\ gateCall' = [gateCall EXCEPT !.at = "accepted"]
    BY DEF EndMutation
  <2> QED BY <2>1, CallStays, CallUpdated DEF Held
<1>5. GateTypes'
  BY <1>1, <1>2, <1>4 DEF GateInv, GateTypes
<1>6. gateReady = "ready" /\ grantsStored = mutation.next
  BY <1>1 DEF GateInv, ReadyInv
<1>7. ReadyInv'
  BY <1>1, <1>2, <1>6 DEF ReadyInv
<1>8. TailInv'
  BY <1>1 DEF GateInv, TailInv
<1>9. GivenInv'
  BY <1>1, <1>2, <1>3, <1>6 DEF GateInv, GivenInv
<1> QED BY <1>5, <1>7, <1>8, <1>9 DEF GateInv

\* A chain of mutations that is dropped leaves the storage to what was given, unless a
\* clearing was among it.
LEMMA ChainDropped ==
  ASSUME GateInv, grants' = {}, grantTail' = <<>>, mutation' = [at |-> "none", next |-> {}],
         CallFine', clearLost' = (clearLost \/ ClearPending),
         grantsStored' = grantsStored, gateReady' \in {"hydrating", "failed"},
         given' \in {given, given \cap grantsStored}
  PROVE  GateInv'
<1>1. grantTail' \in Seq(Grants) /\ Len(grantTail') = 0
  OBVIOUS
<1>2. mutation' \in [at : {"none", "storing", "stored"}, next : Grants] /\ mutation'.at = "none"
  BY DEF Grants
<1>3. clearLost' \in BOOLEAN
  BY DEF GateInv, GateTypes
<1>4. GateTypes'
  BY <1>1, <1>2, <1>3 DEF GateInv, GateTypes, Grants
<1>5. ReadyInv' /\ TailInv'
  BY <1>1, <1>2 DEF ReadyInv, TailInv
<1>6. GivenInv'
  <2> SUFFICES ASSUME ~clearLost' PROVE grantsStored \subseteq given'
    BY <1>1, <1>2 DEF GivenInv
  <2>1. ~clearLost /\ ~(mutation.at = "storing" /\ mutation.next = {})
        /\ ~\E n \in DOMAIN grantTail : grantTail[n] = {}
    BY DEF ClearPending
  <2>2. ~ClearWaits
    <3>1. DOMAIN grantTail = 1..Len(grantTail)
      BY DEF GateInv, GateTypes
    <3> QED BY <2>1, <3>1 DEF ClearWaits
  <2>3. grantsStored \subseteq given
    BY <2>1, <2>2 DEF GateInv, GivenInv
  <2> QED BY <2>3
<1> QED BY <1>4, <1>5, <1>6 DEF GateInv

LEMMA AccessRemoved == ASSUME GateInv, NEW o, RemoveAccess(o) PROVE GateInv'
<1>1. /\ given' = {} /\ grants' = {} /\ UNCHANGED <<grantsStored, mutation>>
      /\ gateReady' = IF gateReady = "hydrating" THEN "revoked" ELSE gateReady
      /\ clearLost' = (clearLost \/ gateReady = "failed")
      /\ gateCall' = gateCall
  BY DEF RemoveAccess
<1>2. CallFine'
  BY <1>1, CallStays
<1>3. CASE gateReady = "failed"
  <2>1. grantTail' = grantTail /\ clearLost' = TRUE /\ gateReady' = "failed"
    BY <1>1, <1>3 DEF RemoveAccess
  <2>2. grantTail = <<>> /\ Len(grantTail) = 0 /\ mutation.at = "none"
    <3>1. grantTail = <<>> /\ mutation.at = "none"
      BY <1>3 DEF GateInv, ReadyInv
    <3> QED BY <3>1, EmptySeq
  <2>3. GateTypes'
    BY <1>1, <1>2, <2>1 DEF GateInv, GateTypes, Grants
  <2>4. ReadyInv' /\ TailInv' /\ GivenInv'
    BY <1>1, <2>1, <2>2 DEF ReadyInv, TailInv, GivenInv, ClearWaits
  <2> QED BY <2>3, <2>4 DEF GateInv
<1>4. CASE gateReady # "failed"
  <2>1. grantTail' = Append(grantTail, {}) /\ GateTypes /\ {} \in Grants
    BY <1>4 DEF RemoveAccess, GateInv, Grants
  <2>2. /\ grantTail' \in Seq(Grants) /\ Len(grantTail') = Len(grantTail) + 1
        /\ Len(grantTail) \in Nat
        /\ grantTail'[Len(grantTail) + 1] = {}
        /\ \A n \in 1..Len(grantTail) : grantTail'[n] = grantTail[n]
        /\ ClearWaits'
    BY <2>1, Chained
  <2>3. gateReady' \in {"hydrating", "revoked", "ready", "failed"} /\ clearLost' \in BOOLEAN
    BY <1>1, <2>1 DEF GateTypes
  <2>4. GateTypes'
    BY <1>1, <1>2, <2>1, <2>2, <2>3 DEF GateTypes, Grants
  <2>5. ReadyInv'
    BY <1>1, <1>4, <2>2, <2>1 DEF GateInv, ReadyInv, GateTypes
  <2>6. TailInv'
    <3> SUFFICES ASSUME NEW n \in 1..Len(grantTail')
                 PROVE  grantTail'[n] \subseteq given' \/
                        \E m \in 1..Len(grantTail') : m > n /\ grantTail'[m] = {}
      BY DEF TailInv
    <3>1. CASE n = Len(grantTail) + 1
      BY <2>2, <3>1
    <3>2. CASE n # Len(grantTail) + 1
      <4>1. Len(grantTail) + 1 \in 1..Len(grantTail') /\ Len(grantTail) + 1 > n
        BY <2>2, <3>2
      <4> QED BY <2>2, <4>1
    <3> QED BY <3>1, <3>2
  <2>7. GivenInv'
    BY <2>2 DEF GivenInv
  <2> QED BY <2>4, <2>5, <2>6, <2>7 DEF GateInv
<1> QED BY <1>3, <1>4

LEMMA GrantsRead == ASSUME GateInv, HydrateGrants PROVE GateInv'
<1>1. /\ gateReady' = "ready" /\ UNCHANGED <<grantsStored, grantTail, mutation, gateCall, given, clearLost>>
      /\ grants' = IF gateReady = "revoked" THEN {} ELSE grantsStored
      /\ gateReady \in {"hydrating", "revoked"}
  BY DEF HydrateGrants
<1>2. mutation.at = "none" /\ (ClearWaits' <=> ClearWaits)
  BY <1>1 DEF GateInv, ReadyInv, ClearWaits
<1>3. GateTypes'
  BY <1>1 DEF GateInv, GateTypes, CallFine, Grants
<1>4. ReadyInv' /\ GivenInv'
  BY <1>1, <1>2 DEF GateInv, ReadyInv, GivenInv
<1>5. TailInv'
  BY <1>1 DEF GateInv, TailInv
<1> QED BY <1>3, <1>4, <1>5 DEF GateInv

\* Once nothing is under way, every grant is one the user gave since access was last
\* taken away, in memory and in the storage - unless a clearing never reached it
\* (gatekeeper/service.ts: mutateSessionGrants, handleHostPermissionsRemoved).
THEOREM GrantsStayGiven == GateSpec => []GrantsAreGiven
<1>1. GateInit => GateInv
  BY GateStarts
<1>2. GateInv /\ [GateNext]_gateVars => GateInv'
  <2> SUFFICES ASSUME GateInv, [GateNext]_gateVars PROVE GateInv'
    OBVIOUS
  <2>1. ASSUME NEW call \in GateCall, CheckCall(call) PROVE GateInv'
    <3>1. CASE gateCall' = NoCall
      BY <2>1, <3>1, CallEnds, CallMoves DEF CheckCall
    <3>2. ASSUME NEW a, gateCall' = [at |-> a, call |-> call, revision |-> Revision,
                                     decision |-> "none", recovered |-> FALSE]
          PROVE GateInv'
      <4>1. CallFine'
        BY <3>2 DEF CallFine
      <4> QED BY <2>1, <4>1, CallMoves DEF CheckCall
    <3> QED BY <2>1, <3>1, <3>2 DEF CheckCall
  <2>2. CASE Decline \/ DecisionThrows
    BY <2>2, CallEnds, CallMoves DEF Decline, DecisionThrows
  <2>3. CASE AcceptOnce
    BY <2>3, CallUpdated, CallMoves DEF AcceptOnce, CallAccepted, Applies, Held
  <2>4. CASE AcceptForSession
    <3>1. gateCall.at \in Held /\ gateCall.call \in GateCall
      BY <2>4 DEF AcceptForSession, Applies, Held, GateInv, GateTypes, CallFine
    <3>2. PICK g : g = <<gateCall.call.tool, gateCall.call.origin>>
      OBVIOUS
    <3>3. g \in Grant
      BY <3>1, <3>2 DEF GateCall, Grant
    <3>4. CallFine'
      BY <2>4, <3>1, CallUpdated DEF AcceptForSession
    <3> QED BY <2>4, <3>2, <3>3, <3>4, GrantChained DEF AcceptForSession, Applies
  <2>5. CASE AcceptForSite
    BY <2>5, CallUpdated, CallMoves DEF AcceptForSite, CallAccepted, Applies, Held
  <2>6. CASE Dispatch
    BY <2>6, CallEnds, CallMoves DEF Dispatch
  <2>7. CASE EndCallAtGate
    BY <2>7, CallEnds, CallMoves DEF EndCallAtGate
  <2>8. CASE BeginMutation
    BY <2>8, MutationBegins
  <2>9. CASE StoreMutation
    BY <2>9, MutationStored
  <2>10. CASE EndMutation
    BY <2>10, MutationEnds
  <2>11. CASE FailMutation
    BY <2>11, CallStays, CallEnds, ChainDropped DEF FailMutation
  <2>12. ASSUME NEW o \in GateOrigin, RemoveAccess(o) PROVE GateInv'
    BY <2>12, AccessRemoved
  <2>13. CASE RestartGate
    BY <2>13, CallRecovered, ChainDropped DEF RestartGate
  <2>14. CASE HydrateGrants
    BY <2>14, GrantsRead
  <2>15. CASE EditSettings
    BY <2>15, CallStays, CallMoves DEF EditSettings
  <2>16. CASE UNCHANGED gateVars
    <3>1. UNCHANGED <<grants, grantsStored, grantTail, mutation, gateReady, given, clearLost, gateCall>>
      BY <2>16
    <3> QED BY <3>1, CallStays, CallMoves
  <2>17. ASSUME NEW d \in Decision, Accept(d) PROVE GateInv'
    BY <2>17, CallDecided, CallMoves DEF Accept
  <2> QED BY <2>1, <2>2, <2>3, <2>4, <2>5, <2>6, <2>7, <2>8, <2>9, <2>10, <2>11, <2>12, <2>13,
             <2>14, <2>15, <2>16, <2>17 DEF GateNext
<1>3. GateInv => GrantsAreGiven
  <2> SUFFICES ASSUME GateInv, gateReady \in {"ready", "failed"}, mutation.at = "none",
                      grantTail = <<>>
               PROVE  (~clearLost => grants \subseteq given)
                      /\ (gateReady = "ready" => grants = grantsStored)
    BY DEF GrantsAreGiven
  <2>1. ~ClearWaits
    BY EmptySeq DEF ClearWaits
  <2> QED BY <2>1 DEF GateInv, ReadyInv, GivenInv
<1> QED BY <1>1, <1>2, <1>3, PTL DEF GateSpec

-------------------------------------------------------------------------------
(****************************************************************************)
(* A list of settings and the page that watches it.  An update under the lock   *)
(* reads what is stored and writes it back changed, so it undoes nothing unless *)
(* a list of the old form was written back meanwhile; what the page shows is    *)
(* the last notification, or a read that no notification has overtaken.         *)
(****************************************************************************)
Work == [does : {"nothing", "read", "write", "writeBack"}, adds : BOOLEAN,
         entries : SUBSET Entry, had : List]
Reading == [life : Nat, rev : Nat, answered : BOOLEAN, value : List]

SettingsTypes ==
  /\ list \in List /\ editing \in [Document -> Work] /\ wanted \in SUBSET Entry
  /\ overwritten \in BOOLEAN /\ changes \in Seq(List) /\ watching \in BOOLEAN
  /\ lifecycle \in Nat /\ revision \in Nat /\ snapshot \in List /\ reads \subseteq Reading

(* What is being changed is locked, and was read as it is now unless an old list has been   *)
(* written back since.                                                                     *)
LockInv ==
  \A d \in Document :
    /\ editing[d].does \in {"read", "write"} => lock = d
    /\ editing[d].does = "write" => editing[d].had.entries = list.entries \/ overwritten

(* The last notification is of what is stored; with none on its way, the page shows that or *)
(* has a read under way which will.                                                        *)
Current(r) == r.life = lifecycle /\ r.rev = revision
MirrorInv ==
  /\ changes # <<>> => changes[Len(changes)] = list
  /\ \A r \in reads : /\ r.life <= lifecycle /\ r.rev <= revision
                      /\ watching /\ changes = <<>> /\ Current(r) /\ r.answered => r.value = list
  /\ watching /\ changes = <<>> =>
       snapshot = list \/ \E r \in reads : Current(r) /\ (r.answered => r.value = list)

SettingsInv ==
  /\ SettingsTypes /\ LockInv /\ MirrorInv
  /\ list.entries = wanted \/ overwritten

LEMMA KeptIs == SettingsInv => UpdatesKept
<1> SUFFICES ASSUME SettingsInv PROVE UpdatesKept
  OBVIOUS
<1>1. ASSUME watching, changes = <<>>, \A r \in reads : r.life # lifecycle
      PROVE  snapshot = list
  BY <1>1 DEF SettingsInv, MirrorInv, Current
<1> QED BY <1>1 DEF SettingsInv, UpdatesKept

(* A document changes, and the list does not. *)
LEMMA DocumentWorks ==
  ASSUME SettingsInv, NEW d \in Document, NEW w \in Work, editing' = [editing EXCEPT ![d] = w],
         UNCHANGED <<list, wanted, overwritten, changes, mirror>>,
         \A e \in Document \ {d} : editing[e].does \in {"read", "write"} => lock' = e,
         w.does \in {"read", "write"} => lock' = d,
         w.does = "write" => w.had.entries = list.entries \/ overwritten
  PROVE  SettingsInv'
<1>1. editing \in [Document -> Work]
  BY DEF SettingsInv, SettingsTypes
<1>2. SettingsTypes'
  BY <1>1 DEF SettingsInv, SettingsTypes
<1>3. LockInv'
  BY <1>1 DEF SettingsInv, LockInv
<1>4. MirrorInv'
  BY DEF SettingsInv, MirrorInv, Current
<1> QED BY <1>2, <1>3, <1>4 DEF SettingsInv

LEMMA WorkAtRest == AtRest \in Work /\ AtRest.does = "nothing"
  BY DEF AtRest, Work, List, EmptyList

(* The list is written, and whoever watches it is told. *)
LEMMA ListWritten ==
  ASSUME SettingsInv, NEW d \in Document, NEW new \in List, list' = new,
         changes' = Append(changes, new), editing' = [editing EXCEPT ![d] = AtRest],
         UNCHANGED mirror, wanted' \in SUBSET Entry, overwritten' \in BOOLEAN,
         new.entries = wanted' \/ overwritten',
         \A e \in Document \ {d} : editing[e].does \in {"read", "write"} => lock' = e,
         \A e \in Document \ {d} : editing[e].does = "write" =>
           editing[e].had.entries = new.entries \/ overwritten'
  PROVE  SettingsInv'
<1>1. editing \in [Document -> Work] /\ changes \in Seq(List)
  BY DEF SettingsInv, SettingsTypes
<1>2. /\ changes' \in Seq(List) /\ changes' # <<>> /\ changes'[Len(changes')] = new
  <2>1. Append(changes, new) \in Seq(List) /\ Len(Append(changes, new)) = Len(changes) + 1
    BY <1>1
  <2>2. Append(changes, new)[Len(changes) + 1] = new
    BY <1>1
  <2> QED BY <2>1, <2>2, EmptySeq
<1>3. SettingsTypes'
  BY <1>1, <1>2, WorkAtRest DEF SettingsInv, SettingsTypes
<1>4. LockInv'
  BY <1>1, WorkAtRest DEF SettingsInv, LockInv
<1>5. MirrorInv'
  BY <1>2 DEF SettingsInv, MirrorInv, Current
<1> QED BY <1>3, <1>4, <1>5 DEF SettingsInv

LEMMA Works ==
  ASSUME SettingsInv, NEW d \in Document
  PROVE  /\ editing[d] \in Work /\ editing \in [Document -> Work] /\ list \in List
         /\ wanted \in SUBSET Entry /\ overwritten \in BOOLEAN
         /\ \A e \in Document : editing[e].does \in {"read", "write"} => lock = e
         /\ editing[d].does = "write" => editing[d].had.entries = list.entries \/ overwritten
         /\ list.entries = wanted \/ overwritten
  BY DEF SettingsInv, SettingsTypes, LockInv

LEMMA UpdateBegins ==
  ASSUME SettingsInv, NEW d \in Document, NEW e \in Entry, NEW adds \in BOOLEAN,
         BeginUpdate(d, e, adds)
  PROVE  SettingsInv'
<1>1. PICK w : w = [AtRest EXCEPT !.does = "read", !.adds = adds, !.entries = {e}]
  OBVIOUS
<1>2. w \in Work /\ w.does = "read"
  BY <1>1 DEF AtRest, Work, List, EmptyList
<1>3. /\ editing' = [editing EXCEPT ![d] = w] /\ lock' = d /\ lock = NoDocument
      /\ UNCHANGED <<list, wanted, overwritten, changes, mirror>>
  BY <1>1 DEF BeginUpdate, LockFree
<1>4. \A f \in Document : editing[f].does \notin {"read", "write"}
  BY <1>3, Works, SettingsAssumption
<1> QED BY <1>2, <1>3, <1>4, DocumentWorks

LEMMA ListRead ==
  ASSUME SettingsInv, NEW d \in Document, ReadForUpdate(d) \/ GetLegacy(d) PROVE SettingsInv'
<1>1. lock' = lock /\ UNCHANGED <<list, wanted, overwritten, changes, mirror>>
  BY DEF ReadForUpdate, GetLegacy
<1>2. CASE ReadForUpdate(d)
  <2>1. PICK w : w = [editing[d] EXCEPT !.does = "write", !.had = list]
    OBVIOUS
  <2>2. w \in Work /\ w.does = "write" /\ w.had = list
    BY <2>1, Works DEF Work
  <2>3. editing' = [editing EXCEPT ![d] = w] /\ editing[d].does = "read"
    BY <1>2, <2>1, Works DEF ReadForUpdate
  <2> QED BY <1>1, <2>2, <2>3, Works, DocumentWorks
<1>3. CASE GetLegacy(d)
  <2>1. PICK w : w = [AtRest EXCEPT !.does = "writeBack", !.had = list]
    OBVIOUS
  <2>2. w \in Work /\ w.does = "writeBack"
    BY <2>1, Works DEF AtRest, Work, List, EmptyList
  <2>3. editing' = [editing EXCEPT ![d] = w]
    BY <1>3, <2>1 DEF GetLegacy
  <2> QED BY <1>1, <2>2, <2>3, Works, DocumentWorks
<1> QED BY <1>2, <1>3

LEMMA UpdateEnds ==
  ASSUME SettingsInv, NEW d \in Document, CommitUpdate(d) \/ RefuseUpdate(d) PROVE SettingsInv'
<1>1. editing[d].does = "write" /\ lock = d
  BY Works DEF CommitUpdate, RefuseUpdate
<1>2. \A e \in Document \ {d} : editing[e].does \notin {"read", "write"}
  BY <1>1, Works
<1>3. CASE RefuseUpdate(d)
  <2>1. editing' = [editing EXCEPT ![d] = AtRest]
        /\ UNCHANGED <<list, wanted, overwritten, changes, mirror>>
    BY <1>3 DEF RefuseUpdate
  <2> QED BY <1>2, <2>1, WorkAtRest, DocumentWorks
<1>4. CASE CommitUpdate(d)
  <2>1. PICK new : new = [entries |-> Changed(editing[d].had.entries, editing[d]),
                          legacy |-> editing[d].had.legacy /\ ~editing[d].adds]
    OBVIOUS
  <2>2. /\ list' = new /\ changes' = Append(changes, new) /\ wanted' = Changed(wanted, editing[d])
        /\ editing' = [editing EXCEPT ![d] = AtRest] /\ UNCHANGED mirror
        /\ overwritten' = overwritten
    BY <1>4, <2>1 DEF CommitUpdate
  <2>3. editing[d].had \in List /\ editing[d].entries \in SUBSET Entry /\ editing[d].adds \in BOOLEAN
    BY Works DEF Work
  <2>4. new \in List /\ new.entries = Changed(editing[d].had.entries, editing[d])
    BY <2>1, <2>3 DEF List, Changed
  <2>5. wanted' \in SUBSET Entry
    BY <2>2, <2>3, Works DEF Changed
  <2>6. new.entries = wanted' \/ overwritten'
    BY <1>1, <2>2, <2>4, Works
  <2> QED BY <1>2, <2>2, <2>4, <2>5, <2>6, Works, ListWritten
<1> QED BY <1>3, <1>4

LEMMA OldListWritten == ASSUME SettingsInv, NEW d \in Document, WriteBack(d) PROVE SettingsInv'
<1>1. PICK new : new = [editing[d].had EXCEPT !.legacy = FALSE]
  OBVIOUS
<1>2. editing[d].had \in List
  BY Works DEF Work
<1>3. new \in List
  BY <1>1, <1>2 DEF List
<1>4. /\ list' = new /\ changes' = Append(changes, new) /\ UNCHANGED <<lock, wanted, mirror>>
      /\ editing' = [editing EXCEPT ![d] = AtRest]
      /\ overwritten' = (overwritten \/ new.entries # list.entries)
  BY <1>1 DEF WriteBack
<1>5. overwritten' \in BOOLEAN /\ (overwritten' \/ (new.entries = list.entries /\ ~overwritten))
  BY <1>4, Works
<1>6. \A e \in Document \ {d} : editing[e].does = "write" =>
        editing[e].had.entries = new.entries \/ overwritten'
  BY <1>5 DEF SettingsInv, LockInv
<1>7. new.entries = wanted' \/ overwritten'
  BY <1>4, <1>5, Works
<1> QED BY <1>3, <1>4, <1>5, <1>6, <1>7, Works, ListWritten

(* The page's store changes, and nothing that is stored. *)
LEMMA MirrorChanges ==
  ASSUME SettingsInv, UNCHANGED storage, changes' \in Seq(List), watching' \in BOOLEAN,
         lifecycle' \in Nat, revision' \in Nat, snapshot' \in List, reads' \subseteq Reading, MirrorInv'
  PROVE  SettingsInv'
<1>1. SettingsTypes'
  BY DEF SettingsInv, SettingsTypes
<1>2. LockInv'
  BY DEF SettingsInv, LockInv
<1> QED BY <1>1, <1>2 DEF SettingsInv

LEMMA MirrorTypes ==
  ASSUME SettingsInv
  PROVE  /\ changes \in Seq(List) /\ watching \in BOOLEAN /\ lifecycle \in Nat /\ revision \in Nat
         /\ snapshot \in List /\ reads \subseteq Reading /\ list \in List /\ MirrorInv
  BY DEF SettingsInv, SettingsTypes

LEMMA PageWatches == ASSUME SettingsInv, Start \/ StopWatching PROVE SettingsInv'
<1>1. CASE Start
  <2>1. PICK r : r = [life |-> lifecycle + 1, rev |-> revision, answered |-> FALSE,
                      value |-> EmptyList]
    OBVIOUS
  <2>2. r \in Reading /\ r.life = lifecycle + 1 /\ r.rev = revision /\ ~r.answered
    BY <2>1, MirrorTypes DEF Reading, EmptyList, List
  <2>3. /\ watching' /\ watching' \in BOOLEAN /\ lifecycle' = lifecycle + 1
        /\ reads' = reads \cup {r} /\ UNCHANGED <<storage, changes, revision, snapshot>>
    BY <1>1, <2>1 DEF Start
  <2>4. MirrorInv'
    <3>1. \A q \in reads : q.life <= lifecycle /\ q.rev <= revision /\ q \in Reading
      BY MirrorTypes DEF MirrorInv
    <3>2. \A q \in reads' : /\ q.life <= lifecycle' /\ q.rev <= revision'
                            /\ q.life = lifecycle' => ~q.answered
      BY <2>2, <2>3, <3>1, MirrorTypes DEF Reading
    <3>3. r \in reads' /\ r.life = lifecycle' /\ r.rev = revision' /\ ~r.answered
      BY <2>2, <2>3
    <3> QED BY <2>3, <3>2, <3>3, MirrorTypes DEF MirrorInv, Current
  <2> QED BY <2>2, <2>3, <2>4, MirrorTypes, MirrorChanges
<1>2. CASE StopWatching
  <2>1. /\ ~watching' /\ watching' \in BOOLEAN /\ lifecycle' = lifecycle + 1
        /\ UNCHANGED <<storage, changes, revision, snapshot, reads>>
    BY <1>2 DEF StopWatching
  <2>2. \A q \in reads : q.life <= lifecycle' /\ q.rev <= revision'
    BY <2>1, MirrorTypes DEF MirrorInv, Reading
  <2>3. MirrorInv'
    BY <2>1, <2>2, MirrorTypes DEF MirrorInv
  <2> QED BY <2>1, <2>3, MirrorTypes, MirrorChanges
<1> QED BY <1>1, <1>2

LEMMA PageNotified == ASSUME SettingsInv, Notify PROVE SettingsInv'
<1>1. changes # <<>> /\ changes' = Tail(changes) /\ UNCHANGED <<storage, watching, lifecycle, reads>>
  BY DEF Notify
<1>2. /\ Tail(changes) \in Seq(List) /\ Len(Tail(changes)) = Len(changes) - 1
      /\ Head(changes) \in List /\ Head(changes) = changes[1] /\ Len(changes) \in Nat \ {0}
      /\ \A i \in 1 .. Len(changes) - 1 : Tail(changes)[i] = changes[i + 1]
  BY <1>1, MirrorTypes, EmptySeq, HeadTailProperties
<1>3. changes' # <<>> => changes'[Len(changes')] = list'
  <2>1. changes' # <<>> => Len(changes') \in 1 .. Len(changes) - 1
    BY <1>1, <1>2, EmptySeq
  <2> QED BY <1>1, <1>2, <2>1, MirrorTypes DEF MirrorInv
<1>4. changes' = <<>> => Head(changes) = list
  <2>1. changes' = <<>> => Len(changes) = 1
    <3>1. changes' = <<>> => Len(Tail(changes)) = 0
      <4>1. Len(<<>>) = 0
        OBVIOUS
      <4> QED BY <1>1, <4>1, Zenon
    <3> QED BY <1>2, <3>1
  <2> QED BY <1>1, <1>2, <2>1, MirrorTypes DEF MirrorInv
<1>5. CASE watching
  <2>1. revision' = revision + 1 /\ snapshot' = Head(changes)
    BY <1>5 DEF Notify
  <2>2. \A q \in reads : q.life <= lifecycle' /\ q.rev <= revision' /\ q.rev # revision'
    BY <1>1, <2>1, MirrorTypes DEF MirrorInv, Reading
  <2>3. MirrorInv'
    BY <1>1, <1>3, <1>4, <2>1, <2>2 DEF MirrorInv, Current
  <2> QED BY <1>1, <1>2, <2>1, <2>3, MirrorTypes, MirrorChanges
<1>6. CASE ~watching
  <2>1. revision' = revision /\ snapshot' = snapshot
    BY <1>6 DEF Notify
  <2>2. \A q \in reads : q.life <= lifecycle' /\ q.rev <= revision'
    BY <1>1, <2>1, MirrorTypes DEF MirrorInv
  <2>3. MirrorInv'
    BY <1>1, <1>3, <1>6, <2>1, <2>2 DEF MirrorInv
  <2> QED BY <1>1, <1>2, <2>1, <2>3, MirrorTypes, MirrorChanges
<1> QED BY <1>5, <1>6

LEMMA ReadsDone ==
  ASSUME SettingsInv, NEW r \in reads, StorageAnswers(r) \/ Hydrate(r) PROVE SettingsInv'
<1>0. r \in Reading
  BY MirrorTypes
<1>1. CASE StorageAnswers(r)
  <2>1. PICK a : a = [r EXCEPT !.answered = TRUE, !.value = list]
    OBVIOUS
  <2>2. a \in Reading /\ a.life = r.life /\ a.rev = r.rev /\ a.value = list
    BY <1>0, <2>1, MirrorTypes DEF Reading
  <2>3. /\ reads' = (reads \ {r}) \cup {a}
        /\ UNCHANGED <<storage, changes, watching, lifecycle, revision, snapshot>>
    BY <1>1, <2>1 DEF StorageAnswers
  <2>4. \A q \in reads' : /\ q.life <= lifecycle /\ q.rev <= revision
                          /\ watching /\ changes = <<>> /\ Current(q) /\ q.answered => q.value = list
    BY <2>2, <2>3, MirrorTypes DEF MirrorInv
  <2>5. watching /\ changes = <<>> =>
          snapshot = list \/ \E q \in reads' : Current(q) /\ (q.answered => q.value = list)
    BY <2>2, <2>3, MirrorTypes DEF MirrorInv, Current
  <2>6. MirrorInv'
    BY <2>3, <2>4, <2>5, MirrorTypes DEF MirrorInv, Current
  <2> QED BY <2>2, <2>3, <2>6, MirrorTypes, MirrorChanges
<1>2. CASE Hydrate(r)
  <2>1. /\ reads' = reads \ {r} /\ r.answered
        /\ snapshot' = IF StillCurrent(r) THEN r.value ELSE snapshot
        /\ UNCHANGED <<storage, changes, watching, lifecycle, revision>>
    BY <1>2 DEF Hydrate
  <2>2. snapshot' \in List
    BY <1>0, <2>1, MirrorTypes DEF Reading
  <2>3. watching /\ changes = <<>> =>
          snapshot' = list \/ \E q \in reads' : Current(q) /\ (q.answered => q.value = list)
    <3>1. CASE StillCurrent(r)
      BY <2>1, <3>1, MirrorTypes DEF MirrorInv, Current, StillCurrent
    <3>2. CASE ~StillCurrent(r)
      BY <2>1, <3>2, MirrorTypes DEF MirrorInv, Current, StillCurrent
    <3> QED BY <3>1, <3>2
  <2>4. MirrorInv'
    BY <2>1, <2>3, MirrorTypes DEF MirrorInv, Current
  <2> QED BY <2>1, <2>2, <2>4, MirrorTypes, MirrorChanges
<1> QED BY <1>1, <1>2

\* Whatever is edited in however many documents, the changes made under the lock are
\* what is stored, unless a list of the old form was written back over a later one; and
\* a page that watches the list shows what is stored once its reads and notifications
\* are done (settings/store.ts: storageUpdate; ui/useStorageValue.ts).
THEOREM UpdatesAreKept == SettingsSpec => []UpdatesKept
<1>1. SettingsInit => SettingsInv
  <2> SUFFICES ASSUME SettingsInit PROVE SettingsInv
    OBVIOUS
  <2>1. EmptyList \in List /\ list \in List /\ list.entries \in SUBSET Entry
    BY DEF SettingsInit, EmptyList, List
  <2>2. editing \in [Document -> Work] /\ \A d \in Document : editing[d].does = "nothing"
    BY WorkAtRest DEF SettingsInit
  <2>3. SettingsTypes
    <3>1. changes \in Seq(List) /\ reads \subseteq Reading
      BY DEF SettingsInit
    <3>2. wanted \in SUBSET Entry /\ overwritten \in BOOLEAN /\ watching \in BOOLEAN
      BY <2>1 DEF SettingsInit
    <3>3. lifecycle \in Nat /\ revision \in Nat /\ snapshot \in List
      BY <2>1 DEF SettingsInit
    <3> QED BY <2>1, <2>2, <3>1, <3>2, <3>3 DEF SettingsTypes
  <2>4. LockInv
    BY <2>2 DEF LockInv
  <2>5. MirrorInv
    BY DEF SettingsInit, MirrorInv
  <2> QED BY <2>3, <2>4, <2>5 DEF SettingsInit, SettingsInv
<1>2. SettingsInv /\ [SettingsNext]_settingsVars => SettingsInv'
  <2> SUFFICES ASSUME SettingsInv, [SettingsNext]_settingsVars PROVE SettingsInv'
    OBVIOUS
  <2>1. CASE SettingsNext
    BY <2>1, UpdateBegins, ListRead, UpdateEnds, OldListWritten, PageWatches, PageNotified,
       ReadsDone DEF SettingsNext
  <2>2. CASE UNCHANGED settingsVars
    <3>1. MirrorInv'
      BY <2>2 DEF SettingsInv, MirrorInv, Current
    <3> QED BY <2>2, <3>1, MirrorTypes, MirrorChanges
  <2> QED BY <2>1, <2>2
<1>3. SettingsInv => UpdatesKept
  BY KeptIs
<1> QED BY <1>1, <1>2, <1>3, PTL DEF SettingsSpec

-------------------------------------------------------------------------------
(****************************************************************************)
(* Run environments.  The invariant follows the keys from the connection a run  *)
(* read to the adapter it uses: everything that was ever saved together is in   *)
(* "entered", so it is enough that each place holds an entered pair.            *)
(****************************************************************************)
Phases == {"queued", "reading", "chosen", "running", "stopped", "resuming", "failed"}
EnvRecords ==
  [phase : Phases, read : Connections \cup {NoConnection},
   adapter : Adapters \cup {NoAdapter}, tool : Nat, binding : Bindings \cup {NoBinding}]

EnvTypes ==
  /\ conn \in Connections
  /\ adapters \in [mark : Connections, adapter : Adapters] \cup {NoCache}
  /\ env \in [EnvRun -> EnvRecords]
  /\ since \in [EnvRun -> SUBSET Connections]

\* The cached adapter is the one its connection makes.
CacheFits ==
  adapters # NoCache =>
    /\ adapters.adapter = AdapterOf(adapters.mark)
    /\ Pairs(adapters.adapter) \subseteq entered

\* What run r holds was saved, and while it is being resolved it is recent.
EnvRunFits(r) ==
  /\ env[r].phase = "reading" =>
       /\ env[r].read \in since[r]
       /\ Pairs(AdapterOf(env[r].read)) \subseteq entered
  /\ env[r].phase = "chosen" =>
       /\ \E c \in since[r] : env[r].adapter = AdapterOf(c)
       /\ Pairs(env[r].adapter) \subseteq entered
  /\ env[r].phase = "resuming" =>
       /\ env[r].read \in Connections
       /\ env[r].read.url = env[r].binding.url
       /\ Pairs(AdapterOf(env[r].read)) \subseteq entered
  /\ env[r].phase = "running" =>
       /\ Pairs(env[r].adapter) \subseteq entered
       /\ env[r].tool = env[r].binding.tool

EnvInv ==
  /\ EnvTypes
  /\ Pairs(AdapterOf(conn)) \subseteq entered
  /\ CacheFits
  /\ \A r \in EnvRun : EnvRunFits(r)

LEMMA EnvStarts == ASSUME EnvironmentInit PROVE EnvInv
<1>1. conn \in Connections /\ entered = Pairs(AdapterOf(conn)) /\ adapters = NoCache
  BY DEF EnvironmentInit
<1>2. FreshRun \in EnvRecords /\ FreshRun.phase = "queued"
  BY DEF FreshRun, EnvRecords, Phases
<1>3. /\ env \in [EnvRun -> EnvRecords] /\ since \in [EnvRun -> SUBSET Connections]
      /\ \A r \in EnvRun : env[r].phase = "queued"
  BY <1>2 DEF EnvironmentInit
<1> QED BY <1>1, <1>3 DEF EnvInv, EnvTypes, CacheFits, EnvRunFits

\* The pairs a step leaves in "entered" stay there: a run the step does not touch
\* fits as before.
LEMMA EnvRunKept ==
  ASSUME NEW r \in EnvRun, EnvRunFits(r), env'[r] = env[r], entered \subseteq entered',
         since[r] \subseteq since'[r]
  PROVE  EnvRunFits(r)'
BY DEF EnvRunFits

\* A run in another phase than these fits whatever the settings are.
LEMMA EnvRunIdle ==
  ASSUME NEW r, env'[r].phase \in {"queued", "stopped", "failed"} PROVE EnvRunFits(r)'
BY DEF EnvRunFits

\* A failed run holds nothing.
LEMMA EnvRunFails ==
  ASSUME EnvTypes, NEW r \in EnvRun, FailRun(r)
  PROVE  /\ env' \in [EnvRun -> EnvRecords] /\ env'[r].phase = "failed"
         /\ \A q \in EnvRun : q # r => env'[q] = env[q]
<1>1. [FreshRun EXCEPT !.phase = "failed"] \in EnvRecords
      /\ [FreshRun EXCEPT !.phase = "failed"].phase = "failed"
  BY DEF FreshRun, EnvRecords, Phases
<1>2. PICK f : f = [FreshRun EXCEPT !.phase = "failed"]
  OBVIOUS
<1>3. env' = [env EXCEPT ![r] = f] /\ env \in [EnvRun -> EnvRecords]
  BY <1>2 DEF FailRun, EnvTypes
<1> QED BY <1>1, <1>2, <1>3

LEMMA EnvSaved ==
  ASSUME EnvInv, NEW c \in Connections, SaveConnection(c) PROVE EnvInv'
<1>1. /\ conn' = c /\ entered' = entered \cup Pairs(AdapterOf(c))
      /\ UNCHANGED <<adapters, env>>
  BY DEF SaveConnection
<1>2. /\ since' \in [EnvRun -> SUBSET Connections]
      /\ \A r \in EnvRun : since[r] \subseteq since'[r]
  <2>1. \A r \in EnvRun :
          /\ since'[r] = IF env[r].phase \in {"reading", "chosen"} THEN since[r] \cup {c}
                         ELSE since[r]
          /\ since[r] \subseteq Connections
    BY DEF SaveConnection, EnvInv, EnvTypes
  <2>2. DOMAIN since' = EnvRun /\ since' = [r \in EnvRun |-> since'[r]]
    BY DEF SaveConnection
  <2> QED BY <2>1, <2>2
<1>3. EnvTypes'
  BY <1>1, <1>2 DEF EnvInv, EnvTypes
<1>4. Pairs(AdapterOf(conn))' \subseteq entered' /\ CacheFits'
  BY <1>1 DEF EnvInv, CacheFits, Pairs, AdapterOf
<1>5. \A r \in EnvRun : EnvRunFits(r)'
  BY <1>1, <1>2, EnvRunKept DEF EnvInv
<1> QED BY <1>3, <1>4, <1>5 DEF EnvInv

LEMMA EnvRead ==
  ASSUME EnvInv, NEW r \in EnvRun, ReadConnection(r) PROVE EnvInv'
<1>1. UNCHANGED <<conn, adapters, entered>>
  BY DEF ReadConnection
<1>2. Pairs(AdapterOf(conn))' \subseteq entered' /\ CacheFits'
  BY <1>1 DEF EnvInv, CacheFits, Pairs, AdapterOf
<1>3. EnvTypes /\ env[r] \in EnvRecords
  BY DEF EnvInv, EnvTypes
<1>4. CASE conn.state = "on"
  <2>1. PICK e : e = [env[r] EXCEPT !.phase = "reading", !.read = conn]
    OBVIOUS
  <2>2. /\ env' = [env EXCEPT ![r] = e] /\ since' = [since EXCEPT ![r] = {conn}]
    BY <1>4, <1>3, <2>1 DEF ReadConnection, EnvTypes
  <2>3. e \in EnvRecords /\ e.phase = "reading" /\ e.read = conn
    BY <1>3, <2>1 DEF EnvRecords, Phases, EnvTypes
  <2>4. EnvTypes' /\ env'[r] = e /\ since'[r] = {conn}
    BY <1>1, <1>3, <2>2, <2>3 DEF EnvTypes
  <2>5. EnvRunFits(r)'
    BY <1>1, <2>3, <2>4 DEF EnvRunFits, EnvInv
  <2>6. \A q \in EnvRun : q # r => EnvRunFits(q)'
    BY <1>1, <1>3, <2>2, EnvRunKept DEF EnvInv, EnvTypes
  <2> QED BY <1>2, <2>4, <2>5, <2>6 DEF EnvInv
<1>5. CASE conn.state # "on"
  <2>1. FailRun(r) /\ since' = since
    BY <1>5 DEF ReadConnection
  <2>2. EnvTypes'
    BY <1>1, <1>3, <2>1, EnvRunFails DEF EnvTypes
  <2>3. \A q \in EnvRun : EnvRunFits(q)'
    BY <1>1, <1>3, <2>1, EnvRunFails, EnvRunKept, EnvRunIdle DEF EnvInv
  <2> QED BY <1>2, <2>2, <2>3 DEF EnvInv
<1> QED BY <1>4, <1>5

LEMMA EnvBuilt ==
  ASSUME EnvInv, NEW r \in EnvRun, BuildAdapter(r) PROVE EnvInv'
<1>1. UNCHANGED <<conn, entered, since>> /\ env[r].phase = "reading"
  BY DEF BuildAdapter
<1>2. EnvTypes /\ env[r] \in EnvRecords
  BY DEF EnvInv, EnvTypes
<1>3. /\ env[r].read \in since[r] /\ env[r].read \in Connections
      /\ Pairs(AdapterOf(env[r].read)) \subseteq entered
  BY <1>1, <1>2 DEF EnvInv, EnvRunFits, EnvTypes
<1>4. AdapterOf(env[r].read) \in Adapters
  BY <1>3 DEF AdapterOf, Adapters, Connections
<1>5. /\ \E a \in Adapters : /\ env' = [env EXCEPT ![r].phase = "chosen",
                                        ![r].read = NoConnection, ![r].adapter = a]
                             /\ a = AdapterOf(env[r].read)
      /\ CacheFits' /\ adapters' \in [mark : Connections, adapter : Adapters] \cup {NoCache}
  <2>1. CASE UsesCache(env[r].read)
    <3>1. adapters # NoCache /\ adapters.mark = env[r].read /\ UNCHANGED adapters
      BY <2>1 DEF UsesCache, Cached, BuildAdapter
    <3>2. adapters.adapter = AdapterOf(env[r].read)
      BY <3>1 DEF EnvInv, CacheFits
    <3>3. CacheFits'
      BY <1>1, <3>1 DEF EnvInv, CacheFits, Pairs
    <3> QED BY <2>1, <1>2, <1>4, <3>1, <3>2, <3>3 DEF BuildAdapter, EnvTypes
  <2>2. CASE ~UsesCache(env[r].read)
    <3>1. /\ adapters' = [mark |-> env[r].read, adapter |-> AdapterOf(env[r].read)]
          /\ env' = [env EXCEPT ![r].phase = "chosen", ![r].read = NoConnection,
                                ![r].adapter = AdapterOf(env[r].read)]
      BY <2>2 DEF BuildAdapter
    <3>2. CacheFits'
      BY <1>1, <1>3, <3>1 DEF CacheFits
    <3> QED BY <1>3, <1>4, <3>1, <3>2
  <2> QED BY <2>1, <2>2
<1>6. PICK a \in Adapters : /\ env' = [env EXCEPT ![r].phase = "chosen",
                                      ![r].read = NoConnection, ![r].adapter = a]
                            /\ a = AdapterOf(env[r].read)
  BY <1>5
<1>7. PICK e : e = [env[r] EXCEPT !.phase = "chosen", !.read = NoConnection, !.adapter = a]
  OBVIOUS
<1>8. env' = [env EXCEPT ![r] = e]
  BY <1>2, <1>6, <1>7 DEF EnvTypes
<1>9. e \in EnvRecords /\ e.phase = "chosen" /\ e.adapter = a
  BY <1>2, <1>7 DEF EnvRecords, Phases
<1>10. EnvTypes' /\ env'[r] = e
  BY <1>1, <1>2, <1>5, <1>8, <1>9 DEF EnvTypes
<1>11. EnvRunFits(r)'
  BY <1>1, <1>3, <1>6, <1>9, <1>10 DEF EnvRunFits
<1>12. \A q \in EnvRun : q # r => EnvRunFits(q)'
  BY <1>1, <1>2, <1>8, EnvRunKept DEF EnvInv, EnvTypes
<1>13. Pairs(AdapterOf(conn))' \subseteq entered'
  BY <1>1 DEF EnvInv, Pairs, AdapterOf
<1> QED BY <1>5, <1>10, <1>11, <1>12, <1>13 DEF EnvInv

\* The lists of keys are short: a binding holds one slot or two.
LEMMA KeyListsShort == ASSUME NEW c \in Connections PROVE Len(c.keys) \in 1..2
<1>1. c.keys \in KeyLists
  BY DEF Connections
<1> QED BY <1>1 DEF KeyLists

LEMMA EnvCaptured ==
  ASSUME EnvInv, toolNow \in Nat, NEW r \in EnvRun, CaptureBinding(r) PROVE EnvInv'
<1>1. /\ UNCHANGED <<conn, entered, adapters>> /\ env[r].phase = "chosen"
      /\ since' = [since EXCEPT ![r] = {}]
  BY DEF CaptureBinding
<1>2. EnvTypes /\ env[r] \in EnvRecords /\ Pairs(env[r].adapter) \subseteq entered
  BY <1>1 DEF EnvInv, EnvTypes, EnvRunFits
<1>3. Pairs(AdapterOf(conn))' \subseteq entered' /\ CacheFits'
  BY <1>1 DEF EnvInv, CacheFits, Pairs, AdapterOf
<1>4. since' \in [EnvRun -> SUBSET Connections]
      /\ \A q \in EnvRun : q # r => since'[q] = since[q]
  BY <1>1, <1>2 DEF EnvTypes
<1>5. CASE conn.state = "gone"
  <2>1. FailRun(r)
    BY <1>5 DEF CaptureBinding
  <2>2. EnvTypes'
    BY <1>1, <1>2, <1>4, <2>1, EnvRunFails DEF EnvTypes
  <2>3. \A q \in EnvRun : EnvRunFits(q)'
    BY <1>1, <1>2, <1>4, <2>1, EnvRunFails, EnvRunKept, EnvRunIdle DEF EnvInv
  <2> QED BY <1>3, <2>2, <2>3 DEF EnvInv
<1>6. CASE conn.state # "gone"
  <2>1. PICK b : b = [url |-> conn.url, slots |-> Len(conn.keys), tool |-> toolNow]
    OBVIOUS
  <2>2. b \in Bindings /\ b.tool = toolNow
    <3>1. conn \in Connections /\ Len(conn.keys) \in 1..2 /\ conn.url \in Endpoint
      BY <1>2, KeyListsShort DEF EnvTypes, Connections
    <3> QED BY <2>1, <3>1 DEF Bindings
  <2>3. PICK e : e = [env[r] EXCEPT !.phase = "running", !.tool = toolNow, !.binding = b]
    OBVIOUS
  <2>4. env' = [env EXCEPT ![r] = e]
    BY <1>2, <1>6, <2>1, <2>3 DEF CaptureBinding, EnvTypes
  <2>5. /\ e \in EnvRecords /\ e.phase = "running" /\ e.adapter = env[r].adapter
        /\ e.tool = toolNow /\ e.binding = b
    BY <1>2, <2>2, <2>3 DEF EnvRecords, Phases
  <2>6. EnvTypes' /\ env'[r] = e
    BY <1>1, <1>2, <1>4, <2>4, <2>5 DEF EnvTypes
  <2>7. EnvRunFits(r)'
    BY <1>1, <1>2, <2>2, <2>5, <2>6 DEF EnvRunFits
  <2>8. \A q \in EnvRun : q # r => EnvRunFits(q)'
    BY <1>1, <1>2, <1>4, <2>4, EnvRunKept DEF EnvInv, EnvTypes
  <2> QED BY <1>3, <2>6, <2>7, <2>8 DEF EnvInv
<1> QED BY <1>5, <1>6

LEMMA EnvStopped == ASSUME EnvInv, StopEnvironments PROVE EnvInv'
<1>1. UNCHANGED <<conn, entered>> /\ adapters' = NoCache
      /\ since' = [r \in EnvRun |-> {}] /\ EnvTypes
  BY DEF StopEnvironments, EnvInv
<1>2. \A r \in EnvRun : /\ env'[r] \in EnvRecords
                        /\ env'[r].phase \in {"queued", "stopped", "failed"}
  <2> SUFFICES ASSUME NEW r \in EnvRun
               PROVE  /\ env'[r] \in EnvRecords
                      /\ env'[r].phase \in {"queued", "stopped", "failed"}
    OBVIOUS
  <2>0. env[r] \in EnvRecords
    BY <1>1 DEF EnvTypes
  <2>1. CASE env[r].phase \in {"reading", "chosen"}
    <3>1. env'[r] = FreshRun
      BY <2>1 DEF StopEnvironments
    <3> QED BY <3>1 DEF FreshRun, EnvRecords, Phases
  <2>2. CASE env[r].phase \in {"running", "resuming"}
    <3>1. env'[r] = [FreshRun EXCEPT !.phase = "stopped", !.binding = env[r].binding]
      BY <2>2 DEF StopEnvironments
    <3>2. env[r].binding \in Bindings \cup {NoBinding}
      BY <2>0 DEF EnvRecords
    <3>3. env'[r] = [phase |-> "stopped", read |-> NoConnection, adapter |-> NoAdapter,
                     tool |-> 0, binding |-> env[r].binding]
      BY <3>1 DEF FreshRun
    <3> QED BY <3>2, <3>3 DEF EnvRecords, Phases
  <2>3. CASE env[r].phase \notin {"reading", "chosen", "running", "resuming"}
    <3>1. env'[r] = env[r]
      BY <2>3 DEF StopEnvironments
    <3> QED BY <2>0, <2>3, <3>1 DEF EnvRecords, Phases
  <2> QED BY <2>1, <2>2, <2>3
<1>3. env' \in [EnvRun -> EnvRecords]
  <2>1. env' = [r \in EnvRun |-> env'[r]]
    BY DEF StopEnvironments
  <2> QED BY <1>2, <2>1
<1>4. EnvTypes'
  BY <1>1, <1>3 DEF EnvTypes
<1>5. \A r \in EnvRun : EnvRunFits(r)'
  BY <1>2, EnvRunIdle
<1>6. Pairs(AdapterOf(conn))' \subseteq entered' /\ CacheFits'
  BY <1>1 DEF EnvInv, CacheFits, Pairs, AdapterOf
<1> QED BY <1>4, <1>5, <1>6 DEF EnvInv

LEMMA EnvResumed == ASSUME EnvInv, NEW r \in EnvRun, Resume(r) PROVE EnvInv'
<1>1. UNCHANGED <<conn, adapters, entered, since>> /\ EnvTypes /\ env[r] \in EnvRecords
  BY DEF Resume, EnvInv, EnvTypes
<1>2. Pairs(AdapterOf(conn))' \subseteq entered' /\ CacheFits'
  BY <1>1 DEF EnvInv, CacheFits, Pairs, AdapterOf
<1>3. CASE conn.state = "on" /\ BindingHolds(conn, env[r].binding)
  <2>1. PICK e : e = [env[r] EXCEPT !.phase = "resuming", !.read = conn]
    OBVIOUS
  <2>2. env' = [env EXCEPT ![r] = e]
    BY <1>1, <1>3, <2>1 DEF Resume, EnvTypes
  <2>3. /\ e \in EnvRecords /\ e.phase = "resuming" /\ e.read = conn /\ conn \in Connections
        /\ e.binding = env[r].binding
    BY <1>1, <2>1 DEF EnvRecords, Phases, EnvTypes
  <2>4. EnvTypes' /\ env'[r] = e
    BY <1>1, <2>2, <2>3 DEF EnvTypes
  <2>5. conn.url = env[r].binding.url
    BY <1>3 DEF BindingHolds, Unchanged
  <2>6. EnvRunFits(r)'
    BY <1>1, <2>3, <2>4, <2>5 DEF EnvRunFits, EnvInv
  <2>7. \A q \in EnvRun : q # r => EnvRunFits(q)'
    BY <1>1, <2>2, EnvRunKept DEF EnvInv, EnvTypes
  <2> QED BY <1>2, <2>4, <2>6, <2>7 DEF EnvInv
<1>4. CASE ~(conn.state = "on" /\ BindingHolds(conn, env[r].binding))
  <2>1. FailRun(r)
    BY <1>4 DEF Resume
  <2>2. EnvTypes'
    BY <1>1, <2>1, EnvRunFails DEF EnvTypes
  <2>3. \A q \in EnvRun : EnvRunFits(q)'
    BY <1>1, <2>1, EnvRunFails, EnvRunKept, EnvRunIdle DEF EnvInv
  <2> QED BY <1>2, <2>2, <2>3 DEF EnvInv
<1> QED BY <1>3, <1>4

LEMMA EnvFinished ==
  ASSUME EnvInv, toolNow \in Nat, NEW r \in EnvRun, FinishResume(r) PROVE EnvInv'
<1>1. /\ UNCHANGED <<conn, adapters, entered, since>> /\ env[r].phase = "resuming"
      /\ EnvTypes /\ env[r] \in EnvRecords
  BY DEF FinishResume, EnvInv, EnvTypes
<1>2. Pairs(AdapterOf(conn))' \subseteq entered' /\ CacheFits'
  BY <1>1 DEF EnvInv, CacheFits, Pairs, AdapterOf
<1>3. CASE ToolBinds(env[r].binding)
  <2>1. PICK a : a = [url |-> env[r].binding.url, keys |-> env[r].read.keys]
    OBVIOUS
  <2>2. /\ env[r].read \in Connections /\ env[r].read.url = env[r].binding.url
        /\ Pairs(AdapterOf(env[r].read)) \subseteq entered
    BY <1>1 DEF EnvInv, EnvRunFits
  <2>3. a = AdapterOf(env[r].read) /\ a \in Adapters
    BY <2>1, <2>2 DEF AdapterOf, Adapters, Connections
  <2>4. PICK e : e = [env[r] EXCEPT !.phase = "running", !.read = NoConnection,
                                    !.adapter = a, !.tool = toolNow]
    OBVIOUS
  <2>5. env' = [env EXCEPT ![r] = e]
    BY <1>1, <1>3, <2>1, <2>4 DEF FinishResume, EnvTypes
  <2>6. /\ e \in EnvRecords /\ e.phase = "running" /\ e.adapter = a /\ e.tool = toolNow
        /\ e.binding = env[r].binding
    BY <1>1, <2>3, <2>4 DEF EnvRecords, Phases
  <2>7. EnvTypes' /\ env'[r] = e
    BY <1>1, <2>5, <2>6 DEF EnvTypes
  <2>8. toolNow = env[r].binding.tool
    BY <1>3 DEF ToolBinds, SameDigest
  <2>9. EnvRunFits(r)'
    BY <1>1, <2>2, <2>3, <2>6, <2>7, <2>8 DEF EnvRunFits
  <2>10. \A q \in EnvRun : q # r => EnvRunFits(q)'
    BY <1>1, <2>5, EnvRunKept DEF EnvInv, EnvTypes
  <2> QED BY <1>2, <2>7, <2>9, <2>10 DEF EnvInv
<1>4. CASE ~ToolBinds(env[r].binding)
  <2>1. FailRun(r)
    BY <1>4 DEF FinishResume
  <2>2. EnvTypes'
    BY <1>1, <2>1, EnvRunFails DEF EnvTypes
  <2>3. \A q \in EnvRun : EnvRunFits(q)'
    BY <1>1, <2>1, EnvRunFails, EnvRunKept, EnvRunIdle DEF EnvInv
  <2> QED BY <1>2, <2>2, <2>3 DEF EnvInv
<1> QED BY <1>3, <1>4

EnvSteady == EnvInv /\ toolNow \in Nat

\* Where nothing the invariant is about changes, it holds as before.
LEMMA EnvStutters ==
  ASSUME EnvInv, UNCHANGED <<conn, adapters, env, entered, since>> PROVE EnvInv'
BY DEF EnvInv, EnvTypes, CacheFits, EnvRunFits, Pairs, AdapterOf

\* A run uses the connection and the tools it was resolved with: its keys go only to
\* the endpoint they were saved for, its adapter is a connection that was in the
\* settings while it was being resolved, and its tool is the one that was described
\* to the model, whatever is edited and whenever the worker stops
\* (engine/providerResolver.ts, engine/runEnvironmentSnapshot.ts).
THEOREM RunsUseTheirEnvironment == EnvironmentSpec => []RunsAsResolved
<1>1. EnvironmentInit => EnvSteady
  BY EnvStarts DEF EnvironmentInit, EnvSteady
<1>2. EnvSteady /\ [EnvironmentNext]_environmentVars => EnvSteady'
  <2> SUFFICES ASSUME EnvInv, toolNow \in Nat, [EnvironmentNext]_environmentVars
               PROVE  EnvInv' /\ toolNow' \in Nat
    BY DEF EnvSteady
  <2>1. ASSUME NEW c \in Connections, SaveConnection(c) PROVE EnvInv' /\ toolNow' = toolNow
    BY <2>1, EnvSaved DEF SaveConnection
  <2>2. CASE ChangeTool
    BY <2>2, EnvStutters DEF ChangeTool
  <2>3. ASSUME NEW r \in EnvRun, ReadConnection(r) PROVE EnvInv' /\ toolNow' = toolNow
    BY <2>3, EnvRead DEF ReadConnection
  <2>4. ASSUME NEW r \in EnvRun, BuildAdapter(r) PROVE EnvInv' /\ toolNow' = toolNow
    BY <2>4, EnvBuilt DEF BuildAdapter
  <2>5. ASSUME NEW r \in EnvRun, CaptureBinding(r) PROVE EnvInv' /\ toolNow' = toolNow
    BY <2>5, EnvCaptured DEF CaptureBinding
  <2>6. ASSUME NEW r \in EnvRun, Resume(r) PROVE EnvInv' /\ toolNow' = toolNow
    BY <2>6, EnvResumed DEF Resume
  <2>7. ASSUME NEW r \in EnvRun, FinishResume(r) PROVE EnvInv' /\ toolNow' = toolNow
    BY <2>7, EnvFinished DEF FinishResume
  <2>8. CASE StopEnvironments
    BY <2>8, EnvStopped DEF StopEnvironments
  <2>9. CASE UNCHANGED environmentVars
    BY <2>9, EnvStutters
  <2> QED BY <2>1, <2>2, <2>3, <2>4, <2>5, <2>6, <2>7, <2>8, <2>9 DEF EnvironmentNext
<1>3. EnvSteady => RunsAsResolved
  <2>1. EnvInv => KeySentWhereEntered /\ AdapterIsFresh
    BY DEF EnvInv, EnvRunFits, KeySentWhereEntered, AdapterIsFresh
  <2>2. EnvInv => ToolsAsBound
    BY DEF EnvInv, EnvRunFits, ToolsAsBound
  <2> QED BY <2>1, <2>2 DEF RunsAsResolved, EnvSteady
<1> QED BY <1>1, <1>2, <1>3, PTL DEF EnvironmentSpec

-------------------------------------------------------------------------------
(****************************************************************************)
(* The composer.  Every place a text can be in (the composer, the storage, a    *)
(* read or a write under way, a submission, a message that waits for its        *)
(* thread) goes with the view it was typed in, and the submissions are numbered *)
(* so that whatever is still to go out comes after all that went out.           *)
(****************************************************************************)
Readings == [key : Views, gen : Nat, answered : BOOLEAN, value : Nat]
Writings == [key : Views, value : Nat]
Messages == [number : Nat, text : Nat, for : Views]

\* Text x, if it is one, was typed in view k.
TypedAt(x, k) == x > 0 => x \in 1..Len(typedIn) /\ typedIn[x] = k

DraftInv ==
  /\ view \in Views /\ typedIn \in Seq(Views) /\ generation \in Nat
  /\ draft \in [key : Views, value : Nat, dirty : BOOLEAN]
  /\ draft.key = view /\ TypedAt(draft.value, view)
  /\ saved \in [Views -> Nat] /\ \A k \in Views : TypedAt(saved[k], k)
  /\ readings \subseteq Readings
  /\ \A r \in readings : /\ TypedAt(r.value, r.key) /\ r.gen <= generation
                         /\ r.gen = generation => r.key = view
  /\ writings \in Seq(Writings)
  /\ \A i \in DOMAIN writings : TypedAt(writings[i].value, writings[i].key)

\* A message as it was submitted.
Genuine(m) == m \in Messages /\ m.number \in 1..submitted /\ m.text > 0 /\ TypedAt(m.text, m.for)

OutgoingInv ==
  /\ submitted \in Nat /\ outgoing \in Seq([m : Messages, by : Nat])
  /\ \A i \in DOMAIN outgoing : Genuine(outgoing[i].m)
  /\ \A i, j \in DOMAIN outgoing : i < j => outgoing[i].m.number < outgoing[j].m.number

SentInv ==
  /\ sent \in Seq([m : Messages, to : Conversation])
  /\ \A i \in DOMAIN sent : /\ Genuine(sent[i].m) /\ sent[i].m.for \in {sent[i].to, NewChat}
                            /\ \A j \in DOMAIN outgoing : sent[i].m.number < outgoing[j].m.number
  /\ \A i, j \in DOMAIN sent :
       i < j => /\ sent[i].m.number # sent[j].m.number
                /\ sent[i].m.for = sent[j].m.for => sent[i].m.number < sent[j].m.number

\* What waits for its thread was submitted before what is outgoing, and after
\* what went to threads made earlier.
PendingInv ==
  pendingDraft # NoMessage =>
    /\ Genuine(pendingDraft) /\ pendingDraft.for = NewChat
    /\ \A j \in DOMAIN outgoing : pendingDraft.number < outgoing[j].m.number
    /\ \A i \in DOMAIN sent : /\ sent[i].m.number # pendingDraft.number
                              /\ sent[i].m.for = NewChat => sent[i].m.number < pendingDraft.number

MessageInv == OutgoingInv /\ SentInv /\ PendingInv
Composers == instance \in Nat /\ instances \in Nat

ComposerInv == Composers /\ DraftInv /\ MessageInv

\* A text stays where it was typed when more is typed.
LEMMA TypedStays ==
  ASSUME typedIn \in Seq(Views), NEW k \in Views, typedIn' = typedIn \/ typedIn' = Append(typedIn, k),
         NEW x \in Nat, NEW q, TypedAt(x, q)
  PROVE  TypedAt(x, q)'
<1>1. CASE typedIn' = typedIn
  BY <1>1 DEF TypedAt
<1>2. CASE typedIn' = Append(typedIn, k)
  <2>1. Len(typedIn) \in Nat /\ Len(typedIn') = Len(typedIn) + 1
        /\ \A i \in 1..Len(typedIn) : typedIn'[i] = typedIn[i]
    BY <1>2
  <2> QED BY <2>1 DEF TypedAt
<1> QED BY <1>1, <1>2

LEMMA NothingTyped == ASSUME NEW k PROVE TypedAt(0, k) /\ TypedAt(0, k)'
BY DEF TypedAt

LEMMA NoneSent == NoMessage \in Messages /\ NoMessage.number = 0
BY DEF NoMessage, Messages, Views

LEMMA ComposerStarts == ASSUME ComposerInit PROVE ComposerInv
<1>1. /\ view = NewChat /\ draft = Unread(NewChat) /\ saved = [k \in Views |-> 0] /\ generation = 1
      /\ readings = {[key |-> NewChat, gen |-> 1, answered |-> FALSE, value |-> 0]}
      /\ writings = <<>> /\ outgoing = <<>> /\ submitted = 0 /\ pendingDraft = NoMessage
      /\ sent = <<>> /\ typedIn = <<>>
  BY DEF ComposerInit
<1>2. NewChat \in Views
  BY DEF Views
<1>3. DOMAIN writings = {} /\ DOMAIN outgoing = {} /\ DOMAIN sent = {}
  BY <1>1, NothingIn
<1>4. DraftInv
  <2>1. draft \in [key : Views, value : Nat, dirty : BOOLEAN] /\ draft.key = view /\ draft.value = 0
    BY <1>1, <1>2 DEF Unread
  <2>2. readings \subseteq Readings
        /\ \A r \in readings : r.value = 0 /\ r.gen <= generation /\ r.key = view
    BY <1>1, <1>2 DEF Readings
  <2>3. typedIn \in Seq(Views) /\ writings \in Seq(Writings) /\ saved \in [Views -> Nat]
        /\ \A k \in Views : saved[k] = 0
    BY <1>1
  <2> QED BY <1>1, <1>2, <1>3, <2>1, <2>2, <2>3, NothingTyped DEF DraftInv
<1>5. OutgoingInv
  BY <1>1, <1>3 DEF OutgoingInv
<1>6. SentInv
  BY <1>1, <1>3 DEF SentInv
<1>7. PendingInv
  BY <1>1 DEF PendingInv
<1> QED BY <1>4, <1>5, <1>6, <1>7 DEF ComposerInv, MessageInv, Composers, ComposerInit

\* What was submitted stays so when more is typed and submitted.
LEMMA GenuineStays ==
  ASSUME DraftInv, submitted \in Nat, submitted' \in Nat, submitted <= submitted',
         NEW k \in Views, typedIn' = typedIn \/ typedIn' = Append(typedIn, k),
         NEW m, Genuine(m)
  PROVE  Genuine(m)'
<1>1. m \in Messages /\ m.number \in 1..submitted' /\ m.text > 0 /\ TypedAt(m.text, m.for)
      /\ m.text \in Nat
  BY DEF Genuine, Messages
<1>2. TypedAt(m.text, m.for)'
  BY <1>1, TypedStays DEF DraftInv
<1> QED BY <1>1, <1>2 DEF Genuine

\* The messages do not notice what happens to drafts.
LEMMA MessagesUntouched ==
  ASSUME ComposerInv, UNCHANGED <<instance, instances, outgoing, submitted, pendingDraft, sent>>,
         NEW k \in Views, typedIn' = typedIn \/ typedIn' = Append(typedIn, k)
  PROVE  Composers' /\ MessageInv'
<1>1. OutgoingInv /\ SentInv /\ PendingInv /\ DraftInv
  BY DEF ComposerInv, MessageInv
<1>2. submitted \in Nat /\ submitted <= submitted'
  BY <1>1 DEF OutgoingInv
<1>3. ASSUME NEW m, Genuine(m) PROVE Genuine(m)'
  BY <1>1, <1>2, <1>3, GenuineStays
<1>4. OutgoingInv'
  BY <1>1, <1>3 DEF OutgoingInv
<1>5. SentInv'
  BY <1>1, <1>3 DEF SentInv
<1>6. PendingInv'
  BY <1>1, <1>3 DEF PendingInv
<1> QED BY <1>4, <1>5, <1>6 DEF MessageInv, Composers, ComposerInv

LEMMA DraftUntouched ==
  ASSUME ComposerInv, UNCHANGED <<view, draft, saved, generation, readings, writings, typedIn>>
  PROVE  DraftInv'
BY DEF ComposerInv, DraftInv, TypedAt

LEMMA DraftAnswered ==
  ASSUME ComposerInv, NEW r \in readings, StorageReads(r) PROVE ComposerInv'
<1>1. /\ UNCHANGED <<view, draft, saved, generation, writings, typedIn>>
      /\ UNCHANGED <<instance, instances, outgoing, submitted, pendingDraft, sent>>
      /\ readings' = (readings \ {r}) \cup {[r EXCEPT !.answered = TRUE, !.value = saved[r.key]]}
  BY DEF StorageReads
<1>2. DraftInv
  BY DEF ComposerInv
<1>3. PICK s : s = [r EXCEPT !.answered = TRUE, !.value = saved[r.key]]
  OBVIOUS
<1>4. r \in Readings /\ saved[r.key] \in Nat /\ TypedAt(saved[r.key], r.key) /\ r.gen <= generation
      /\ (r.gen = generation => r.key = view)
  BY <1>2 DEF DraftInv, Readings
<1>5. s \in Readings /\ s.key = r.key /\ s.gen = r.gen /\ s.value = saved[r.key]
  BY <1>3, <1>4 DEF Readings
<1>6. readings' = (readings \ {r}) \cup {s}
  BY <1>1, <1>3
<1>7. readings' \subseteq Readings
      /\ \A q \in readings' : /\ TypedAt(q.value, q.key) /\ q.gen <= generation
                              /\ q.gen = generation => q.key = view
  BY <1>2, <1>4, <1>5, <1>6 DEF DraftInv
<1>8. DraftInv'
  BY <1>1, <1>2, <1>7 DEF DraftInv, TypedAt
<1> QED BY <1>1, <1>2, <1>8, MessagesUntouched DEF ComposerInv, DraftInv

LEMMA DraftComes ==
  ASSUME ComposerInv, NEW r \in readings, DraftRead(r) PROVE ComposerInv'
<1>1. /\ UNCHANGED <<view, saved, generation, writings, typedIn>>
      /\ UNCHANGED <<instance, instances, outgoing, submitted, pendingDraft, sent>>
      /\ readings' = readings \ {r}
      /\ draft' = IF Wanted(r) THEN [draft EXCEPT !.value = r.value] ELSE draft
  BY DEF DraftRead
<1>2. DraftInv
  BY DEF ComposerInv
<1>3. r \in Readings /\ TypedAt(r.value, r.key) /\ (r.gen = generation => r.key = view)
  BY <1>2 DEF DraftInv
<1>4. draft' \in [key : Views, value : Nat, dirty : BOOLEAN] /\ draft'.key = view
      /\ TypedAt(draft'.value, view)
  BY <1>1, <1>2, <1>3 DEF DraftInv, Wanted, Readings
<1>5. DraftInv'
  BY <1>1, <1>2, <1>4 DEF DraftInv, TypedAt
<1> QED BY <1>1, <1>2, <1>5, MessagesUntouched DEF ComposerInv, DraftInv

LEMMA DraftWritten ==
  ASSUME ComposerInv, NEW fails \in BOOLEAN, WriteDraft(fails) PROVE ComposerInv'
<1>1. /\ UNCHANGED <<view, draft, generation, readings, typedIn>>
      /\ UNCHANGED <<instance, instances, outgoing, submitted, pendingDraft, sent>>
      /\ writings # <<>> /\ writings' = Tail(writings)
      /\ saved' = IF fails THEN saved ELSE [saved EXCEPT ![Head(writings).key] = Head(writings).value]
  BY DEF WriteDraft
<1>2. DraftInv
  BY DEF ComposerInv
<1>3. PICK w : w = Head(writings)
  OBVIOUS
<1>4. w \in Writings /\ TypedAt(w.value, w.key)
  BY <1>1, <1>2, <1>3, Taken DEF DraftInv
<1>5. writings' \in Seq(Writings)
      /\ \A i \in DOMAIN writings' : TypedAt(writings'[i].value, writings'[i].key)
  BY <1>1, <1>2, Taken DEF DraftInv
<1>6. saved' \in [Views -> Nat] /\ \A k \in Views : TypedAt(saved'[k], k)
  BY <1>1, <1>2, <1>3, <1>4 DEF DraftInv, Writings
<1>7. DraftInv'
  BY <1>1, <1>2, <1>5, <1>6 DEF DraftInv, TypedAt
<1> QED BY <1>1, <1>2, <1>7, MessagesUntouched DEF ComposerInv, DraftInv

\* Another view, and the read of its draft.
LEMMA ViewShown ==
  ASSUME DraftInv, NEW k \in Views, Show(k), UNCHANGED <<saved, writings, typedIn>>
  PROVE  DraftInv'
<1>1. CASE k = view
  BY <1>1 DEF Show, DraftInv, TypedAt
<1>2. CASE k # view
  <2>1. /\ view' = k /\ draft' = Unread(k) /\ generation' = generation + 1
        /\ readings' = readings \cup {[key |-> k, gen |-> generation + 1, answered |-> FALSE,
                                       value |-> 0]}
    BY <1>2 DEF Show
  <2>2. PICK s : s = [key |-> k, gen |-> generation + 1, answered |-> FALSE, value |-> 0]
    OBVIOUS
  <2>3. s \in Readings /\ s.key = k /\ s.value = 0 /\ s.gen = generation'
    BY <2>1, <2>2 DEF Readings, DraftInv
  <2>4. draft' \in [key : Views, value : Nat, dirty : BOOLEAN] /\ draft'.key = k /\ draft'.value = 0
    BY <2>1 DEF Unread
  <2>5. generation' \in Nat /\ \A r \in readings : r.gen < generation'
    BY <2>1 DEF DraftInv, Readings
  <2>6. readings' \subseteq Readings
        /\ \A r \in readings' : /\ TypedAt(r.value, r.key) /\ r.gen <= generation'
                                /\ r.gen = generation' => r.key = view'
    <3>1. readings' = readings \cup {s} /\ readings \subseteq Readings
      BY <2>1, <2>2 DEF DraftInv
    <3>2. \A r \in readings : TypedAt(r.value, r.key) /\ r.gen < generation' /\ r.gen \in Nat
      BY <3>1, <2>5 DEF DraftInv, Readings
    <3>3. TypedAt(s.value, s.key)
      BY <2>3 DEF TypedAt
    <3>4. s.gen <= generation' /\ s.key = view'
      BY <2>1, <2>3, <2>5
    <3>5. \A r \in readings : r.gen <= generation' /\ r.gen # generation'
      BY <3>2, <2>5
    <3> QED BY <2>3, <3>1, <3>2, <3>3, <3>4, <3>5
  <2> QED BY <2>1, <2>4, <2>5, <2>6, NothingTyped DEF DraftInv, TypedAt
<1> QED BY <1>1, <1>2

\* What is set in the composer is written to the storage of its view.
LEMMA DraftSet ==
  ASSUME DraftInv, NEW x \in Nat, SetDraft(x), TypedAt(x, view)',
         typedIn' = typedIn \/ typedIn' = Append(typedIn, view),
         UNCHANGED <<view, saved, generation, readings>>
  PROVE  DraftInv'
<1>1. PICK w : w = [key |-> view, value |-> x]
  OBVIOUS
<1>2. w \in Writings /\ w.key = view /\ w.value = x
  BY <1>1 DEF Writings, DraftInv
<1>3. writings' = Append(writings, w) /\ writings \in Seq(Writings)
  BY <1>1 DEF SetDraft, DraftInv
<1>4. writings' \in Seq(Writings) /\ DOMAIN writings' = DOMAIN writings \cup {Len(writings) + 1}
      /\ \A i \in DOMAIN writings : writings'[i] = writings[i] /\ writings[i] \in Writings
  BY <1>2, <1>3, Added
<1>5. writings'[Len(writings) + 1] = w
  BY <1>2, <1>3, Added
<1>6. ASSUME NEW y \in Nat, NEW k, TypedAt(y, k) PROVE TypedAt(y, k)'
  BY <1>6, TypedStays DEF DraftInv
<1>7. (\A i \in DOMAIN writings : TypedAt(writings[i].value, writings[i].key))'
  <2> SUFFICES ASSUME NEW i \in DOMAIN writings' PROVE TypedAt(writings[i].value, writings[i].key)'
    OBVIOUS
  <2>1. PICK v : v = writings'[i]
    OBVIOUS
  <2>2. TypedAt(v.value, v.key)'
    <3>1. CASE i = Len(writings) + 1
      BY <1>2, <1>5, <2>1, <3>1
    <3>2. CASE i \in DOMAIN writings
      <4>1. v \in Writings /\ TypedAt(v.value, v.key)
        BY <1>4, <2>1, <3>2 DEF DraftInv
      <4> QED BY <1>6, <4>1 DEF Writings
    <3> QED BY <1>4, <3>1, <3>2
  <2> QED BY <2>1, <2>2 DEF TypedAt
<1>8. (\A r \in readings : TypedAt(r.value, r.key))'
  BY <1>6 DEF DraftInv, Readings
<1>9. (\A k \in Views : TypedAt(saved[k], k))'
  <2> SUFFICES ASSUME NEW k \in Views PROVE TypedAt(saved[k], k)'
    OBVIOUS
  <2>1. PICK y \in Nat : y = saved[k] /\ TypedAt(y, k)
    BY DEF DraftInv
  <2>2. TypedAt(y, k)'
    BY <1>6, <2>1
  <2> QED BY <2>1, <2>2 DEF TypedAt
<1>10. draft' \in [key : Views, value : Nat, dirty : BOOLEAN] /\ draft'.key = view /\ draft'.value = x
  BY DEF SetDraft, DraftInv
<1>11. typedIn' \in Seq(Views)
  <2>1. typedIn \in Seq(Views) /\ view \in Views
    BY DEF DraftInv
  <2> QED BY <2>1, Added
<1>12. /\ view' = view /\ generation' = generation /\ saved' = saved /\ readings' = readings
       /\ view \in Views /\ generation \in Nat /\ saved \in [Views -> Nat] /\ readings \subseteq Readings
       /\ \A r \in readings : r.gen <= generation /\ (r.gen = generation => r.key = view)
  BY DEF DraftInv
<1>13. TypedAt(draft.value, view)'
  BY <1>10 DEF TypedAt
<1> QED BY <1>4, <1>7, <1>8, <1>9, <1>10, <1>11, <1>12, <1>13 DEF DraftInv

LEMMA TextTyped ==
  ASSUME ComposerInv, Type PROVE ComposerInv'
<1>1. /\ typedIn' = Append(typedIn, view) /\ SetDraft(Len(typedIn) + 1)
      /\ UNCHANGED <<view, saved, generation, readings>>
      /\ UNCHANGED <<instance, instances, outgoing, submitted, pendingDraft, sent>>
  BY DEF Type
<1>2. DraftInv /\ view \in Views
  BY DEF ComposerInv, DraftInv
<1>3. PICK n \in Nat : n = Len(typedIn) + 1 /\ TypedAt(n, view)'
  <2>1. typedIn \in Seq(Views)
    BY <1>2 DEF DraftInv
  <2>2. Len(typedIn) \in Nat /\ Len(typedIn') = Len(typedIn) + 1 /\ typedIn'[Len(typedIn) + 1] = view
    BY <1>1, <1>2, <2>1
  <2>3. PICK n \in Nat : n = Len(typedIn) + 1
    BY <2>2
  <2>4. TypedAt(n, view)'
    BY <1>1, <2>2, <2>3 DEF TypedAt
  <2> QED BY <2>3, <2>4
<1>4. DraftInv'
  BY <1>1, <1>2, <1>3, DraftSet
<1> QED BY <1>1, <1>2, <1>4, MessagesUntouched DEF ComposerInv

LEMMA TextSubmitted ==
  ASSUME ComposerInv, SubmitText PROVE ComposerInv'
<1>1. /\ submitted' = submitted + 1 /\ SetDraft(0)
      /\ outgoing' = Append(outgoing, [m |-> [number |-> submitted', text |-> draft.value,
                                              for |-> view], by |-> instance])
      /\ instance > 0 /\ draft.value > 0
      /\ UNCHANGED <<view, saved, generation, readings, typedIn, instance, instances, pendingDraft,
                     sent>>
  BY DEF SubmitText
<1>2. DraftInv /\ OutgoingInv /\ SentInv /\ PendingInv /\ view \in Views
  BY DEF ComposerInv, DraftInv, MessageInv
<1>3. DraftInv'
  BY <1>1, <1>2, DraftSet, NothingTyped
<1>4. PICK m : m = [number |-> submitted + 1, text |-> draft.value, for |-> view]
  OBVIOUS
<1>5. m \in Messages /\ m.number = submitted + 1 /\ Genuine(m)'
  <2>1. submitted' \in Nat /\ submitted' = submitted + 1 /\ submitted + 1 \in 1..submitted'
    BY <1>1, <1>2 DEF OutgoingInv
  <2>2. m \in Messages /\ m.number = submitted + 1 /\ m.text = draft.value /\ m.for = view
    BY <1>2, <1>4, <2>1, <1>1 DEF Messages, DraftInv
  <2>3. TypedAt(m.text, m.for)'
    BY <1>1, <1>2, <2>2 DEF DraftInv, TypedAt
  <2> QED BY <1>1, <2>1, <2>2, <2>3 DEF Genuine
<1>6. ASSUME NEW q, Genuine(q) PROVE Genuine(q)' /\ q.number < m.number /\ q.number \in Nat
  <2>1. q.number \in 1..submitted /\ submitted \in Nat
    BY <1>6, <1>2 DEF Genuine, OutgoingInv
  <2>2. Genuine(q)'
    BY <1>1, <1>2, <1>6, <2>1, GenuineStays
  <2> QED BY <1>5, <2>1, <2>2
<1>7. PICK o : o = [m |-> m, by |-> instance]
  OBVIOUS
<1>8. outgoing' = Append(outgoing, o)
  BY <1>1, <1>4, <1>7
<1>9. outgoing' \in Seq([m : Messages, by : Nat]) /\ o.m = m
      /\ outgoing \in Seq([m : Messages, by : Nat]) /\ o \in [m : Messages, by : Nat]
  <2>1. instance \in Nat /\ outgoing \in Seq([m : Messages, by : Nat])
    BY <1>2 DEF OutgoingInv, ComposerInv, Composers
  <2>2. o \in [m : Messages, by : Nat] /\ o.m = m
    BY <1>5, <1>7, <2>1
  <2> QED BY <1>8, <2>1, <2>2, Added
<1>10. /\ DOMAIN outgoing' = DOMAIN outgoing \cup {Len(outgoing) + 1}
       /\ \A i \in DOMAIN outgoing : outgoing'[i] = outgoing[i] /\ i < Len(outgoing) + 1
       /\ outgoing'[Len(outgoing) + 1] = o /\ DOMAIN outgoing \subseteq Nat /\ Len(outgoing) \in Nat
  BY <1>8, <1>9, Added
<1>11. \A i \in DOMAIN outgoing' :
         outgoing'[i].m = m \/ (i \in DOMAIN outgoing /\ outgoing'[i] = outgoing[i])
  BY <1>9, <1>10
<1>12. OutgoingInv'
  <2>1. submitted' \in Nat
    BY <1>1, <1>2 DEF OutgoingInv
  <2>2. (\A i \in DOMAIN outgoing : Genuine(outgoing[i].m))'
    <3> SUFFICES ASSUME NEW i \in DOMAIN outgoing' PROVE Genuine(outgoing[i].m)'
      OBVIOUS
    <3>1. PICK q : q = outgoing'[i].m
      OBVIOUS
    <3>2. q = m \/ Genuine(q)
      BY <1>2, <1>11, <3>1 DEF OutgoingInv
    <3>3. Genuine(q)'
      BY <1>5, <1>6, <3>2
    <3> QED BY <3>1, <3>3 DEF Genuine, TypedAt
  <2>3. ASSUME NEW i \in DOMAIN outgoing', NEW j \in DOMAIN outgoing', i < j
        PROVE  outgoing'[i].m.number < outgoing'[j].m.number
    <3>1. i \in DOMAIN outgoing
      BY <1>10, <2>3
    <3>2. CASE j \in DOMAIN outgoing
      BY <1>2, <1>10, <2>3, <3>1, <3>2 DEF OutgoingInv
    <3>3. CASE j = Len(outgoing) + 1
      <4>1. Genuine(outgoing[i].m)
        BY <1>2, <3>1 DEF OutgoingInv
      <4> QED BY <1>6, <1>9, <1>10, <3>1, <3>3, <4>1
    <3> QED BY <1>10, <3>2, <3>3
  <2> QED BY <1>9, <2>1, <2>2, <2>3 DEF OutgoingInv
<1>13. SentInv'
  BY <1>1, <1>2, <1>6, <1>11 DEF SentInv
<1>14. PendingInv'
  BY <1>1, <1>2, <1>6, <1>11 DEF PendingInv
<1> QED BY <1>1, <1>3, <1>12, <1>13, <1>14 DEF ComposerInv, MessageInv, Composers

\* The first submission leaves, whatever becomes of it.
LEMMA FirstLeaves ==
  ASSUME OutgoingInv, outgoing # <<>>, outgoing' = Tail(outgoing), UNCHANGED <<submitted, typedIn>>
  PROVE  /\ OutgoingInv'
         /\ Head(outgoing) = outgoing[1]
         /\ \A m : Genuine(m) => Genuine(m)'
         /\ \A i \in DOMAIN outgoing' :
              /\ Head(outgoing).m.number < outgoing'[i].m.number
              /\ \E j \in DOMAIN outgoing : outgoing'[i] = outgoing[j]
<1>1. outgoing \in Seq([m : Messages, by : Nat]) /\ submitted \in Nat
  BY DEF OutgoingInv
<1>2. /\ outgoing' \in Seq([m : Messages, by : Nat])
      /\ Head(outgoing) = outgoing[1] /\ 1 \in DOMAIN outgoing
      /\ \A i \in DOMAIN outgoing' : i + 1 \in DOMAIN outgoing /\ outgoing'[i] = outgoing[i + 1]
                                     /\ i \in Nat
  BY <1>1, Taken
<1>3. \A m : Genuine(m) => Genuine(m)'
  BY DEF Genuine, TypedAt
<1>4. \A i \in DOMAIN outgoing' : i > 0
  BY <1>2
<1>5. \A i, j \in DOMAIN outgoing' : i < j => outgoing'[i].m.number < outgoing'[j].m.number
  <2> SUFFICES ASSUME NEW i \in DOMAIN outgoing', NEW j \in DOMAIN outgoing', i < j
               PROVE  outgoing'[i].m.number < outgoing'[j].m.number
    OBVIOUS
  <2>1. i + 1 < j + 1
    BY <1>2
  <2> QED BY <1>2, <2>1 DEF OutgoingInv
<1>6. \A i \in DOMAIN outgoing' : Head(outgoing).m.number < outgoing'[i].m.number
  <2> SUFFICES ASSUME NEW i \in DOMAIN outgoing'
               PROVE  Head(outgoing).m.number < outgoing'[i].m.number
    OBVIOUS
  <2>1. 1 < i + 1 /\ i + 1 \in DOMAIN outgoing
    BY <1>2, <1>4
  <2> QED BY <1>2, <2>1 DEF OutgoingInv
<1>7. (\A i \in DOMAIN outgoing : Genuine(outgoing[i].m))'
  <2> SUFFICES ASSUME NEW i \in DOMAIN outgoing' PROVE Genuine(outgoing[i].m)'
    OBVIOUS
  <2>1. PICK q : q = outgoing'[i].m
    OBVIOUS
  <2>2. Genuine(q)'
    BY <1>2, <1>3, <2>1 DEF OutgoingInv
  <2> QED BY <2>1, <2>2 DEF Genuine, TypedAt
<1>8. OutgoingInv'
  <2>1. submitted' \in Nat /\ outgoing' \in Seq([m : Messages, by : Nat])
    BY <1>1, <1>2
  <2> QED BY <1>5, <1>7, <2>1 DEF OutgoingInv
<1> QED BY <1>2, <1>3, <1>6, <1>8 DEF OutgoingInv

\* The messages that are out, or wait, keep their places.
LEMMA OthersWait ==
  ASSUME OutgoingInv, SentInv, PendingInv, UNCHANGED <<submitted, typedIn>>,
         outgoing # <<>>, outgoing' = Tail(outgoing), sent' = sent \/ sent' = <<>>
  PROVE  /\ sent' = sent => SentInv'
         /\ sent' = sent /\ pendingDraft' \in {pendingDraft, NoMessage} => PendingInv'
<1>1. /\ \A m : Genuine(m) => Genuine(m)'
      /\ \A i \in DOMAIN outgoing' : \E j \in DOMAIN outgoing : outgoing'[i] = outgoing[j]
  BY FirstLeaves
<1>2. sent' = sent => SentInv'
  BY <1>1 DEF SentInv
<1>3. sent' = sent /\ pendingDraft' \in {pendingDraft, NoMessage} => PendingInv'
  BY <1>1 DEF PendingInv
<1> QED BY <1>2, <1>3

LEMMA FirstDropped ==
  ASSUME ComposerInv, outgoing # <<>>, outgoing' = Tail(outgoing),
         UNCHANGED <<instance, instances, submitted, pendingDraft, sent>>,
         UNCHANGED <<view, draft, saved, generation, readings, writings, typedIn>>
  PROVE  ComposerInv'
<1>1. DraftInv'
  BY DraftUntouched
<1>2. OutgoingInv' /\ SentInv' /\ PendingInv'
  BY FirstLeaves, OthersWait DEF ComposerInv, MessageInv
<1> QED BY <1>1, <1>2 DEF ComposerInv, MessageInv, Composers

LEMMA MessageNew ==
  ASSUME NEW m, Genuine(m) PROVE m # NoMessage /\ m.number \in Nat /\ m.number > 0
<1>1. m.number \in 1..submitted
  BY DEF Genuine
<1> QED BY <1>1, NoneSent

\* What a message that goes out finds among those that are out already.
LEMMA SentNext ==
  ASSUME OutgoingInv, SentInv, NEW m, Genuine(m), NEW k \in Conversation, m.for \in {k, NewChat},
         \A j \in DOMAIN outgoing' : /\ m.number < outgoing'[j].m.number
                                     /\ \E n \in DOMAIN outgoing : outgoing'[j] = outgoing[n],
         \A i \in DOMAIN sent : /\ sent[i].m.number # m.number
                                /\ sent[i].m.for = m.for => sent[i].m.number < m.number,
         sent' = Append(sent, [m |-> m, to |-> k]), UNCHANGED <<submitted, typedIn>>
  PROVE  /\ SentInv'
         /\ \A i \in DOMAIN sent' : sent'[i].m = m \/ (i \in DOMAIN sent /\ sent'[i] = sent[i])
<1>1. PICK s : s = [m |-> m, to |-> k]
  OBVIOUS
<1>2. s \in [m : Messages, to : Conversation] /\ s.m = m /\ s.to = k
  BY <1>1 DEF Genuine
<1>3. sent \in Seq([m : Messages, to : Conversation]) /\ sent' = Append(sent, s)
  BY <1>1 DEF SentInv
<1>4. /\ sent' \in Seq([m : Messages, to : Conversation])
      /\ DOMAIN sent' = DOMAIN sent \cup {Len(sent) + 1}
      /\ \A i \in DOMAIN sent : sent'[i] = sent[i] /\ i < Len(sent) + 1
      /\ sent'[Len(sent) + 1] = s /\ DOMAIN sent \subseteq Nat /\ Len(sent) \in Nat
  BY <1>2, <1>3, Added
<1>5. \A i \in DOMAIN sent' : sent'[i].m = m \/ (i \in DOMAIN sent /\ sent'[i] = sent[i])
  BY <1>2, <1>4
<1>6. (\A i \in DOMAIN sent : Genuine(sent[i].m))'
  <2> SUFFICES ASSUME NEW i \in DOMAIN sent' PROVE Genuine(sent[i].m)'
    OBVIOUS
  <2>1. PICK q : q = sent'[i].m
    OBVIOUS
  <2>2. Genuine(q)
    BY <1>5, <2>1 DEF SentInv
  <2>3. Genuine(q)'
    BY <2>2 DEF Genuine, TypedAt
  <2> QED BY <2>1, <2>3 DEF Genuine, TypedAt
<1>7. \A i \in DOMAIN sent' :
        /\ sent'[i].m.for \in {sent'[i].to, NewChat}
        /\ \A j \in DOMAIN outgoing' : sent'[i].m.number < outgoing'[j].m.number
  <2> SUFFICES ASSUME NEW i \in DOMAIN sent'
               PROVE  /\ sent'[i].m.for \in {sent'[i].to, NewChat}
                      /\ \A j \in DOMAIN outgoing' : sent'[i].m.number < outgoing'[j].m.number
    OBVIOUS
  <2>1. CASE i \in DOMAIN sent
    BY <1>4, <2>1 DEF SentInv
  <2>2. CASE i = Len(sent) + 1
    BY <1>2, <1>4, <2>2
  <2> QED BY <1>4, <2>1, <2>2
<1>8. ASSUME NEW i \in DOMAIN sent', NEW j \in DOMAIN sent', i < j
      PROVE  /\ sent'[i].m.number # sent'[j].m.number
             /\ sent'[i].m.for = sent'[j].m.for => sent'[i].m.number < sent'[j].m.number
  <2>1. i \in DOMAIN sent /\ sent'[i] = sent[i]
    BY <1>4, <1>8
  <2>2. CASE j \in DOMAIN sent
    BY <1>4, <1>8, <2>1, <2>2 DEF SentInv
  <2>3. CASE j = Len(sent) + 1
    BY <1>2, <1>4, <2>1, <2>3
  <2> QED BY <1>4, <2>2, <2>3
<1>9. SentInv'
  BY <1>4, <1>6, <1>7, <1>8 DEF SentInv
<1> QED BY <1>5, <1>9

LEMMA TextDispatched ==
  ASSUME ComposerInv, DispatchText PROVE ComposerInv'
<1>1. /\ UNCHANGED <<view, draft, saved, generation, readings, writings, typedIn>>
      /\ UNCHANGED <<instance, instances, submitted>> /\ outgoing # <<>>
  BY DEF DispatchText
<1>2. OutgoingInv /\ SentInv /\ PendingInv /\ DraftInv
  BY DEF ComposerInv, MessageInv
<1>3. outgoing' = Tail(outgoing)
  BY <1>1, <1>2, FirstRemoved DEF DispatchText, NextSubmission, OutgoingInv
<1>4. DraftInv' /\ Composers'
  BY <1>1, DraftUntouched DEF ComposerInv, Composers
<1>5. PICK m : m = outgoing[1].m
  OBVIOUS
<1>6. 1 \in DOMAIN outgoing /\ Genuine(m)
  <2>1. 1 \in DOMAIN outgoing
    BY <1>1, <1>2, Taken DEF OutgoingInv
  <2> QED BY <1>2, <1>5, <2>1 DEF OutgoingInv
<1>7. /\ OutgoingInv' /\ Genuine(m)'
      /\ \A q : Genuine(q) => Genuine(q)'
      /\ \A j \in DOMAIN outgoing' : m.number < outgoing'[j].m.number
  <2>1. outgoing[1] = Head(outgoing)
    BY <1>1, <1>2, <1>3, FirstLeaves
  <2> QED BY <1>1, <1>2, <1>3, <1>5, <1>6, <2>1, FirstLeaves
<1>8. \A i \in DOMAIN sent : sent[i].m.number < m.number /\ sent[i].m.number \in Nat
  <2>1. \A i \in DOMAIN sent : Genuine(sent[i].m)
    BY <1>2 DEF SentInv
  <2> QED BY <1>2, <1>5, <1>6, <2>1, MessageNew DEF SentInv
<1>9. /\ sent' = sent => SentInv'
      /\ sent' = sent /\ pendingDraft' \in {pendingDraft, NoMessage} => PendingInv'
  <2>1. CASE sent' = sent
    BY <1>1, <1>2, <1>3, <2>1, OthersWait
  <2> QED BY <2>1
<1>10. CASE sent' = sent /\ pendingDraft' = pendingDraft
  BY <1>4, <1>7, <1>9, <1>10 DEF ComposerInv, MessageInv
<1>11. CASE view = NewChat /\ sent' = sent /\ pendingDraft' = m /\ m.for = view
  <2>1. PendingInv'
    <3>1. pendingDraft' = m /\ m.for = NewChat
      BY <1>11
    <3>2. Genuine(pendingDraft)'
      BY <1>7, <3>1 DEF Genuine, TypedAt
    <3>3. \A i \in DOMAIN sent : sent[i].m.number # m.number
      BY <1>6, <1>8, MessageNew
    <3> QED BY <1>7, <1>8, <1>11, <3>1, <3>2, <3>3 DEF PendingInv
  <2> QED BY <1>4, <1>7, <1>9, <1>11, <2>1 DEF ComposerInv, MessageInv
<1>12. CASE view # NewChat /\ pendingDraft' = pendingDraft /\ m.for = view
            /\ sent' = Append(sent, [m |-> m, to |-> view])
  <2>1. view \in Conversation
    BY <1>2, <1>12 DEF DraftInv, Views
  <2>2. \A j \in DOMAIN outgoing' : /\ m.number < outgoing'[j].m.number
                                    /\ \E n \in DOMAIN outgoing : outgoing'[j] = outgoing[n]
    BY <1>1, <1>2, <1>3, <1>7, FirstLeaves
  <2>3. \A i \in DOMAIN sent : sent[i].m.number # m.number
    BY <1>6, <1>8, MessageNew
  <2>4. PICK k \in Conversation : k = view
    BY <2>1
  <2>5. /\ SentInv'
        /\ \A i \in DOMAIN sent' : sent'[i].m = m \/ (i \in DOMAIN sent /\ sent'[i] = sent[i])
    BY <1>1, <1>2, <1>6, <1>8, <1>12, <2>2, <2>3, <2>4, SentNext
  <2>6. PendingInv'
    <3> SUFFICES ASSUME pendingDraft # NoMessage PROVE PendingInv'
      BY <1>12 DEF PendingInv
    <3>1. /\ Genuine(pendingDraft) /\ pendingDraft.for = NewChat
          /\ pendingDraft.number < m.number
          /\ \A j \in DOMAIN outgoing' : pendingDraft.number < outgoing'[j].m.number
      <4>1. \A j \in DOMAIN outgoing' : \E n \in DOMAIN outgoing : outgoing'[j] = outgoing[n]
        BY <1>1, <1>2, <1>3, FirstLeaves
      <4> QED BY <1>2, <1>5, <1>6, <4>1 DEF PendingInv
    <3>2. PICK p : p = pendingDraft
      OBVIOUS
    <3>3. Genuine(p)' /\ p.number \in Nat
      BY <1>7, <3>1, <3>2, MessageNew
    <3>4. Genuine(pendingDraft)'
      BY <1>12, <3>2, <3>3 DEF Genuine, TypedAt
    <3>5. \A i \in DOMAIN sent' : /\ sent'[i].m.number # pendingDraft.number
                                  /\ sent'[i].m.for = NewChat =>
                                       sent'[i].m.number < pendingDraft.number
      <4> SUFFICES ASSUME NEW i \in DOMAIN sent'
                   PROVE  /\ sent'[i].m.number # pendingDraft.number
                          /\ sent'[i].m.for = NewChat => sent'[i].m.number < pendingDraft.number
        OBVIOUS
      <4>1. CASE sent'[i].m = m
        <5>1. m.number \in Nat
          BY <1>6, MessageNew
        <5> QED BY <1>12, <2>3, <3>1, <3>2, <3>3, <4>1, <5>1
      <4>2. CASE i \in DOMAIN sent /\ sent'[i] = sent[i]
        BY <1>2, <4>2 DEF PendingInv
      <4> QED BY <2>5, <4>1, <4>2
    <3>6. UNCHANGED pendingDraft
      BY <1>12
    <3> QED BY <3>1, <3>4, <3>5, <3>6 DEF PendingInv
  <2> QED BY <1>4, <1>7, <2>5, <2>6 DEF ComposerInv, MessageInv
<1> QED
  <2>1. NextSubmission = 1
    BY DEF NextSubmission
  <2>2. CASE ~(outgoing[1].by = instance /\ Accepted(outgoing[1].m.for))
    BY <1>10, <2>1, <2>2 DEF DispatchText
  <2>3. CASE outgoing[1].by = instance /\ Accepted(outgoing[1].m.for)
    BY <1>5, <1>11, <1>12, <2>1, <2>3 DEF DispatchText, Accepted
  <2> QED BY <2>2, <2>3

LEMMA ComposerReplaced ==
  ASSUME ComposerInv, Replace PROVE ComposerInv'
<1>1. /\ UNCHANGED <<view, draft, saved, generation, readings, writings, typedIn>>
      /\ UNCHANGED <<outgoing, submitted, pendingDraft, sent>>
  BY DEF Replace
<1>2. Composers'
  BY DEF Replace, Composers, ComposerInv
<1>3. DraftInv'
  BY <1>1, DraftUntouched
<1>4. MessageInv'
  BY <1>1 DEF ComposerInv, MessageInv, OutgoingInv, SentInv, PendingInv, Genuine, TypedAt
<1> QED BY <1>2, <1>3, <1>4 DEF ComposerInv

LEMMA VariablesMissing ==
  ASSUME ComposerInv, VariablesFail PROVE ComposerInv'
BY FirstDropped DEF VariablesFail

LEMMA ConversationOpened ==
  ASSUME ComposerInv, NEW k \in Conversation, OpenConversation(k) PROVE ComposerInv'
<1>1. /\ Show(k) /\ UNCHANGED <<saved, writings, typedIn>>
      /\ UNCHANGED <<instance, instances, outgoing, submitted, pendingDraft, sent>>
  BY DEF OpenConversation
<1>2. k \in Views
  BY DEF Views
<1>3. DraftInv'
  BY <1>1, <1>2, ViewShown DEF ComposerInv
<1> QED BY <1>1, <1>2, <1>3, MessagesUntouched DEF ComposerInv

\* A message that no longer waits is in nobody's way.
LEMMA PendingForgotten ==
  ASSUME pendingDraft' = NoMessage PROVE PendingInv'
BY DEF PendingInv

LEMMA NewChatStarted ==
  ASSUME ComposerInv, StartNewChat PROVE ComposerInv'
<1>1. /\ Show(NewChat) /\ pendingDraft' = NoMessage /\ UNCHANGED <<saved, writings, typedIn>>
      /\ UNCHANGED <<instance, instances, outgoing, submitted, sent>>
  BY DEF StartNewChat
<1>2. NewChat \in Views
  BY DEF Views
<1>3. DraftInv' /\ PendingInv'
  BY <1>1, <1>2, ViewShown, PendingForgotten DEF ComposerInv
<1>4. OutgoingInv' /\ SentInv' /\ Composers'
  BY <1>1 DEF ComposerInv, Composers, MessageInv, OutgoingInv, SentInv, Genuine, TypedAt
<1> QED BY <1>3, <1>4 DEF ComposerInv, MessageInv

LEMMA ConversationMade ==
  ASSUME ComposerInv, NEW k \in Conversation, ThreadCreated(k) PROVE ComposerInv'
<1>1. /\ Show(k) /\ pendingDraft' = NoMessage /\ UNCHANGED <<saved, writings, typedIn>>
      /\ UNCHANGED <<instance, instances, outgoing, submitted>>
      /\ sent' = IF pendingDraft = NoMessage THEN sent
                 ELSE Append(sent, [m |-> pendingDraft, to |-> k])
  BY DEF ThreadCreated
<1>2. k \in Views
  BY DEF Views
<1>3. DraftInv' /\ PendingInv'
  BY <1>1, <1>2, ViewShown, PendingForgotten DEF ComposerInv
<1>4. OutgoingInv' /\ Composers'
  BY <1>1 DEF ComposerInv, Composers, MessageInv, OutgoingInv, Genuine, TypedAt
<1>5. OutgoingInv /\ SentInv /\ PendingInv
  BY DEF ComposerInv, MessageInv
<1>6. CASE pendingDraft = NoMessage
  BY <1>1, <1>3, <1>4, <1>5, <1>6
     DEF ComposerInv, MessageInv, SentInv, Genuine, TypedAt
<1>7. CASE pendingDraft # NoMessage
  <2>1. PICK m : m = pendingDraft
    OBVIOUS
  <2>2. /\ Genuine(m) /\ m.for = NewChat
        /\ \A j \in DOMAIN outgoing : m.number < outgoing[j].m.number
        /\ \A i \in DOMAIN sent : /\ sent[i].m.number # m.number
                                  /\ sent[i].m.for = NewChat => sent[i].m.number < m.number
    BY <1>5, <1>7, <2>1 DEF PendingInv
  <2>3. sent' = Append(sent, [m |-> m, to |-> k])
    BY <1>1, <1>7, <2>1
  <2>4. SentInv'
    BY <1>1, <1>5, <2>2, <2>3, SentNext
  <2> QED BY <1>3, <1>4, <2>4 DEF ComposerInv, MessageInv
<1> QED BY <1>6, <1>7

\* What is typed stays in its place: however the views change and the composer comes
\* and goes between typing and sending (PromptInput.tsx, useThreadDraft.ts,
\* engineClient.ts), a message goes to the thread it was written for or to one made
\* for it, at most once and in order, and a draft is only shown where it was typed.
THEOREM TextGoesWhereTyped == ComposerSpec => []SentWhereTyped
<1>1. ComposerInit => ComposerInv
  BY ComposerStarts
<1>2. ComposerInv /\ [ComposerNext]_composerVars => ComposerInv'
  <2> SUFFICES ASSUME ComposerInv, [ComposerNext]_composerVars PROVE ComposerInv'
    OBVIOUS
  <2>1. CASE UNCHANGED composerVars
    <3>1. DraftInv'
      BY <2>1, DraftUntouched
    <3> QED BY <2>1, <3>1 DEF ComposerInv, Composers, MessageInv, OutgoingInv, SentInv,
                              PendingInv, Genuine, TypedAt
  <2>2. CASE ComposerNext
    BY <2>2, DraftAnswered, DraftComes, DraftWritten, TextTyped, TextSubmitted, ComposerReplaced,
       TextDispatched, VariablesMissing, ConversationOpened, ConversationMade, NewChatStarted
       DEF ComposerNext
  <2> QED BY <2>1, <2>2
<1>3. ComposerInv => SentWhereTyped
  <2> SUFFICES ASSUME ComposerInv PROVE SentWhereTyped
    OBVIOUS
  <2>1. SentInv /\ DraftInv
    BY DEF ComposerInv, MessageInv
  <2>2. \A i \in DOMAIN sent : typedIn[sent[i].m.text] = sent[i].m.for
    BY <2>1 DEF SentInv, Genuine, TypedAt
  <2>3. draft.key = view /\ (draft.value > 0 => typedIn[draft.value] = view)
    BY <2>1 DEF DraftInv, TypedAt
  <2>4. \A k \in Views : saved[k] > 0 => typedIn[saved[k]] = k
    BY <2>1 DEF DraftInv, TypedAt
  <2> QED BY <2>1, <2>2, <2>3, <2>4 DEF SentInv, SentWhereTyped
<1> QED BY <1>1, <1>2, <1>3, PTL DEF ComposerSpec

-------------------------------------------------------------------------------
(****************************************************************************)
(* The conversation tree.  A node's parent comes before it, so the functions    *)
(* that walk up and down the tree are defined; a tree that grew has the paths   *)
(* it had.                                                                      *)
(****************************************************************************)
Tree(nd) ==
  /\ nd \in Seq([kind : NodeKind, parent : Nat, run : Turn])
  /\ \A i \in 1..Len(nd) : nd[i].parent < i

IsPath(nd, f) == f = [n \in 0..Len(nd) |-> IF n = 0 THEN {} ELSE {n} \cup f[nd[n].parent]]
PathIn(nd, leaf) == (CHOOSE f : IsPath(nd, f))[leaf]

LEMMA PathToIs == ASSUME NEW leaf PROVE PathTo(leaf) = PathIn(node, leaf)
BY DEF PathTo, PathIn, IsPath

LEMMA PathToIsNext == PathTo(leafId)' = PathIn(node', leafId')
BY DEF PathTo, PathIn, IsPath

LEMMA TreeNodes ==
  ASSUME NEW nd, Tree(nd)
  PROVE  /\ Len(nd) \in Nat /\ DOMAIN nd = 1..Len(nd)
         /\ \A i \in 1..Len(nd) : /\ nd[i].parent \in 0..i - 1 /\ nd[i].parent \in 0..Len(nd)
                                  /\ nd[i].kind \in NodeKind /\ nd[i].run \in Turn
<1>1. nd \in Seq([kind : NodeKind, parent : Nat, run : Turn])
  BY DEF Tree
<1>2. Len(nd) \in Nat /\ DOMAIN nd = 1..Len(nd)
      /\ \A i \in 1..Len(nd) : nd[i] \in [kind : NodeKind, parent : Nat, run : Turn]
  <2>1. PICK S : S = [kind : NodeKind, parent : Nat, run : Turn]
    OBVIOUS
  <2>2. nd \in Seq(S)
    BY <1>1, <2>1
  <2>3. Len(nd) \in Nat /\ DOMAIN nd = 1..Len(nd) /\ \A i \in 1..Len(nd) : nd[i] \in S
    BY <2>2
  <2> QED BY <2>1, <2>3
<1>3. \A i \in 1..Len(nd) : nd[i].parent \in Nat /\ nd[i].parent < i
  BY <1>2 DEF Tree
<1> QED BY <1>2, <1>3

\* The walk up to node k, for trees of any length.
LEMMA PathPiece ==
  ASSUME NEW nd, Tree(nd), NEW k \in 0..Len(nd)
  PROVE  \E f : f = [n \in 0..k |-> IF n = 0 THEN {} ELSE {n} \cup f[nd[n].parent]]
<1> DEFINE Piece(f, j) == f = [n \in 0..j |-> IF n = 0 THEN {} ELSE {n} \cup f[nd[n].parent]]
           Bad == {j \in 0..Len(nd) : ~ \E f : Piece(f, j)}
<1> SUFFICES ASSUME Bad # {} PROVE FALSE
  OBVIOUS
<1>0. Len(nd) \in Nat /\ \A i \in 1..Len(nd) : nd[i].parent \in 0..i - 1
  BY TreeNodes
<1>1. PICK j \in Bad : \A m \in Bad : j <= m
  <2>1. Bad \subseteq Nat
    BY <1>0
  <2> HIDE DEF Bad
  <2> QED BY <2>1, Least
<1>2. j \in 0..Len(nd) /\ j \in Nat
  BY <1>0
<1>3. CASE j = 0
  <2>1. Piece([n \in 0..0 |-> {}], 0)
    OBVIOUS
  <2> QED BY <2>1, <1>3
<1>4. CASE j # 0
  <2>1. j - 1 \in 0..Len(nd) /\ j - 1 \notin Bad
    <3>1. j - 1 \in 0..Len(nd) /\ ~(j <= j - 1)
      BY <1>2, <1>0, <1>4
    <3> HIDE DEF Bad
    <3> QED BY <3>1, <1>1
  <2>2. PICK g : Piece(g, j - 1)
    BY <2>1
  <2> DEFINE h == [n \in 0..j |-> IF n = j THEN {j} \cup g[nd[j].parent] ELSE g[n]]
  <2>3. ASSUME NEW n \in 0..j PROVE h[n] = IF n = 0 THEN {} ELSE {n} \cup h[nd[n].parent]
    <3>1. CASE n = 0
      BY <2>2, <3>1, <1>4, <1>2
    <3>2. CASE n # 0
      <4>1. nd[n].parent \in 0..n - 1 /\ nd[n].parent \in 0..j /\ nd[n].parent # j
        BY <1>0, <1>2, <3>2
      <4>2. h[nd[n].parent] = g[nd[n].parent]
        BY <4>1
      <4>3. CASE n = j
        BY <4>2, <4>3, <3>2
      <4>4. CASE n # j
        <5>1. n \in 0..j - 1 /\ h[n] = g[n]
          BY <1>2, <4>4
        <5> QED BY <2>2, <3>2, <4>2, <5>1
      <4> QED BY <4>3, <4>4
    <3> QED BY <3>1, <3>2
  <2>4. Piece(h, j)
    <3>1. h = [n \in 0..j |-> h[n]]
      OBVIOUS
    <3> HIDE DEF h
    <3> QED BY <3>1, <2>3
  <2>5. j \notin Bad
    <3> HIDE DEF h, Piece
    <3> QED BY <2>4
  <2> QED BY <2>5
<1> QED BY <1>3, <1>4

LEMMA PathUp ==
  ASSUME NEW nd, Tree(nd)
  PROVE  /\ PathIn(nd, 0) = {}
         /\ \A n \in 1..Len(nd) : PathIn(nd, n) = {n} \cup PathIn(nd, nd[n].parent)
<1>1. Len(nd) \in Nat /\ \A i \in 1..Len(nd) : nd[i].parent \in 0..Len(nd)
  BY TreeNodes
<1>2. PICK g : IsPath(nd, g)
  <2>1. Len(nd) \in 0..Len(nd)
    BY <1>1
  <2> QED BY <2>1, PathPiece DEF IsPath
<1>3. PICK f : f = CHOOSE x : IsPath(nd, x)
  OBVIOUS
<1>4. IsPath(nd, f)
  BY <1>2, <1>3
<1>5. \A n : PathIn(nd, n) = f[n]
  BY <1>3 DEF PathIn
<1>6. f[0] = {} /\ \A n \in 1..Len(nd) : f[n] = {n} \cup f[nd[n].parent]
  BY <1>1, <1>4 DEF IsPath
<1> QED BY <1>5, <1>6

-------------------------------------------------------------------------------
\* A tree that grew by nodes appended to it.
Grew(nd, ne) ==
  Tree(nd) /\ Tree(ne) /\ Len(nd) <= Len(ne) /\ \A i \in 1..Len(nd) : ne[i] = nd[i]

\* A path holds nodes up to its end only, and stays when the tree grows.
LEMMA PathBelow ==
  ASSUME NEW nd, Tree(nd)
  PROVE  \A n \in 0..Len(nd) : PathIn(nd, n) \subseteq 1..n
<1> DEFINE Bad == {n \in 0..Len(nd) : ~(PathIn(nd, n) \subseteq 1..n)}
<1> SUFFICES ASSUME Bad # {} PROVE FALSE
  OBVIOUS
<1>1. Len(nd) \in Nat /\ \A i \in 1..Len(nd) : nd[i].parent \in 0..i - 1
  BY TreeNodes
<1>2. PICK n \in Bad : \A m \in Bad : n <= m
  <2>1. Bad \subseteq Nat
    BY <1>1
  <2> HIDE DEF Bad
  <2> QED BY <2>1, Least
<1>3. n \in 0..Len(nd) /\ ~(PathIn(nd, n) \subseteq 1..n)
  OBVIOUS
<1>4. n # 0 /\ n \in 1..Len(nd) /\ n \in Nat
  BY <1>1, <1>3, PathUp
<1>5. PICK p : p = nd[n].parent
  OBVIOUS
<1>6. p \in 0..n - 1 /\ p \in 0..Len(nd) /\ ~(n <= p)
  BY <1>1, <1>4, <1>5
<1>7. PathIn(nd, p) \subseteq 1..p
  <2>1. p \notin Bad
    <3> HIDE DEF Bad
    <3> QED BY <1>2, <1>6
  <2> QED BY <1>6, <2>1
<1>8. PathIn(nd, n) = {n} \cup PathIn(nd, p)
  BY <1>4, <1>5, PathUp
<1> QED BY <1>3, <1>4, <1>6, <1>7, <1>8

LEMMA PathStays ==
  ASSUME NEW nd, NEW ne, Grew(nd, ne)
  PROVE  \A n \in 0..Len(nd) : PathIn(ne, n) = PathIn(nd, n)
<1> DEFINE Bad == {n \in 0..Len(nd) : PathIn(ne, n) # PathIn(nd, n)}
<1> SUFFICES ASSUME Bad # {} PROVE FALSE
  OBVIOUS
<1>1. /\ Len(nd) \in Nat /\ Len(ne) \in Nat /\ Len(nd) <= Len(ne) /\ Tree(nd) /\ Tree(ne)
      /\ \A i \in 1..Len(nd) : nd[i].parent \in 0..i - 1 /\ ne[i] = nd[i]
  BY TreeNodes DEF Grew
<1>2. PICK n \in Bad : \A m \in Bad : n <= m
  <2>1. Bad \subseteq Nat
    BY <1>1
  <2> HIDE DEF Bad
  <2> QED BY <2>1, Least
<1>3. n \in 0..Len(nd) /\ PathIn(ne, n) # PathIn(nd, n)
  OBVIOUS
<1>4. n # 0 /\ n \in 1..Len(nd) /\ n \in 1..Len(ne)
  <2>1. PathIn(nd, 0) = {} /\ PathIn(ne, 0) = {}
    BY <1>1, PathUp
  <2> QED BY <1>1, <1>3, <2>1
<1>5. PICK p : p = nd[n].parent
  OBVIOUS
<1>6. p \in 0..n - 1 /\ p \in 0..Len(nd) /\ ~(n <= p)
  BY <1>1, <1>4, <1>5
<1>7. PathIn(ne, p) = PathIn(nd, p)
  <2>1. p \notin Bad
    <3> HIDE DEF Bad
    <3> QED BY <1>2, <1>6
  <2> QED BY <1>6, <2>1
<1>8. ne[n].parent = p
  BY <1>1, <1>4, <1>5
<1>9. PathIn(nd, n) = {n} \cup PathIn(nd, p)
  BY <1>1, <1>4, <1>5, PathUp
<1>10. PathIn(ne, n) = {n} \cup PathIn(ne, p)
  BY <1>1, <1>4, <1>8, PathUp
<1> QED BY <1>3, <1>7, <1>9, <1>10

-------------------------------------------------------------------------------
\* Up to the nearest node that is not a context, from p on.
IsVisible(nd, f) ==
  f = [p \in 0..Len(nd) |-> IF p = 0 \/ nd[p].kind # "turn_context" THEN p ELSE f[nd[p].parent]]
VisibleIn(nd, p) == (CHOOSE f : IsVisible(nd, f))[p]

LEMMA VisibleIs == ASSUME NEW n PROVE VisibleAncestor(n) = VisibleIn(node, node[n].parent)
BY DEF VisibleAncestor, VisibleIn, IsVisible

LEMMA VisibleIsNext ==
  ASSUME NEW n PROVE VisibleAncestor(n)' = VisibleIn(node', node'[n].parent)
BY DEF VisibleAncestor, VisibleIn, IsVisible

LEMMA VisiblePiece ==
  ASSUME NEW nd, Tree(nd), NEW k \in 0..Len(nd)
  PROVE  \E f : f = [p \in 0..k |-> IF p = 0 \/ nd[p].kind # "turn_context" THEN p
                                    ELSE f[nd[p].parent]]
<1> DEFINE Piece(f, j) == f = [p \in 0..j |-> IF p = 0 \/ nd[p].kind # "turn_context" THEN p
                                              ELSE f[nd[p].parent]]
           Bad == {j \in 0..Len(nd) : ~ \E f : Piece(f, j)}
<1> SUFFICES ASSUME Bad # {} PROVE FALSE
  OBVIOUS
<1>0. Len(nd) \in Nat /\ \A i \in 1..Len(nd) : nd[i].parent \in 0..i - 1
  BY TreeNodes
<1>1. PICK j \in Bad : \A m \in Bad : j <= m
  <2>1. Bad \subseteq Nat
    BY <1>0
  <2> HIDE DEF Bad
  <2> QED BY <2>1, Least
<1>2. j \in 0..Len(nd) /\ j \in Nat
  BY <1>0
<1>3. CASE j = 0
  <2>1. Piece([n \in 0..0 |-> 0], 0)
    OBVIOUS
  <2> QED BY <2>1, <1>3
<1>4. CASE j # 0
  <2>1. j - 1 \in 0..Len(nd) /\ j - 1 \notin Bad
    <3>1. j - 1 \in 0..Len(nd) /\ ~(j <= j - 1)
      BY <1>2, <1>0, <1>4
    <3> HIDE DEF Bad
    <3> QED BY <3>1, <1>1
  <2>2. PICK g : Piece(g, j - 1)
    BY <2>1
  <2> DEFINE last == IF nd[j].kind # "turn_context" THEN j ELSE g[nd[j].parent]
             h == [p \in 0..j |-> IF p = j THEN last ELSE g[p]]
  <2>3. ASSUME NEW p \in 0..j
        PROVE  h[p] = IF p = 0 \/ nd[p].kind # "turn_context" THEN p ELSE h[nd[p].parent]
    <3>1. CASE p = 0
      BY <2>2, <3>1, <1>4, <1>2
    <3>2. CASE p # 0
      <4>1. nd[p].parent \in 0..p - 1 /\ nd[p].parent \in 0..j /\ nd[p].parent # j
        BY <1>0, <1>2, <3>2
      <4>2. h[nd[p].parent] = g[nd[p].parent]
        BY <4>1
      <4>3. CASE p = j
        BY <4>2, <4>3, <3>2
      <4>4. CASE p # j
        <5>1. p \in 0..j - 1 /\ h[p] = g[p]
          BY <1>2, <4>4
        <5> QED BY <2>2, <3>2, <4>2, <5>1
      <4> QED BY <4>3, <4>4
    <3> QED BY <3>1, <3>2
  <2>4. Piece(h, j)
    <3>1. h = [n \in 0..j |-> h[n]]
      OBVIOUS
    <3> HIDE DEF h
    <3> QED BY <3>1, <2>3
  <2>5. j \notin Bad
    <3> HIDE DEF h, Piece
    <3> QED BY <2>4
  <2> QED BY <2>5
<1> QED BY <1>3, <1>4

LEMMA VisibleUp ==
  ASSUME NEW nd, Tree(nd)
  PROVE  /\ VisibleIn(nd, 0) = 0
         /\ \A p \in 1..Len(nd) :
              VisibleIn(nd, p) = IF nd[p].kind # "turn_context" THEN p
                                 ELSE VisibleIn(nd, nd[p].parent)
<1>1. Len(nd) \in Nat /\ \A i \in 1..Len(nd) : nd[i].parent \in 0..Len(nd)
  BY TreeNodes
<1>2. PICK g : IsVisible(nd, g)
  <2>1. Len(nd) \in 0..Len(nd)
    BY <1>1
  <2> QED BY <2>1, VisiblePiece DEF IsVisible
<1>3. PICK f : f = CHOOSE x : IsVisible(nd, x)
  OBVIOUS
<1>4. IsVisible(nd, f)
  BY <1>2, <1>3
<1>5. \A p : VisibleIn(nd, p) = f[p]
  BY <1>3 DEF VisibleIn
<1>6. f[0] = 0 /\ \A p \in 1..Len(nd) : f[p] = IF nd[p].kind # "turn_context" THEN p
                                               ELSE f[nd[p].parent]
  BY <1>1, <1>4 DEF IsVisible
<1> QED BY <1>5, <1>6

\* It ends at the root or at a message, and stays when the tree grows.
LEMMA VisibleFound ==
  ASSUME NEW nd, NEW ne, Grew(nd, ne)
  PROVE  \A p \in 0..Len(nd) :
           /\ VisibleIn(nd, p) \in 0..p
           /\ VisibleIn(nd, p) # 0 => nd[VisibleIn(nd, p)].kind # "turn_context"
           /\ VisibleIn(ne, p) = VisibleIn(nd, p)
<1> DEFINE Fine(p) == /\ VisibleIn(nd, p) \in 0..p
                      /\ VisibleIn(nd, p) # 0 => nd[VisibleIn(nd, p)].kind # "turn_context"
                      /\ VisibleIn(ne, p) = VisibleIn(nd, p)
           Bad == {p \in 0..Len(nd) : ~Fine(p)}
<1> SUFFICES ASSUME Bad # {} PROVE FALSE
  OBVIOUS
<1>1. /\ Len(nd) \in Nat /\ Len(ne) \in Nat /\ Len(nd) <= Len(ne) /\ Tree(nd) /\ Tree(ne)
      /\ \A i \in 1..Len(nd) : nd[i].parent \in 0..i - 1 /\ ne[i] = nd[i]
  BY TreeNodes DEF Grew
<1>2. PICK n \in Bad : \A m \in Bad : n <= m
  <2>1. Bad \subseteq Nat
    BY <1>1
  <2> HIDE DEF Bad
  <2> QED BY <2>1, Least
<1>3. n \in 0..Len(nd) /\ ~Fine(n)
  OBVIOUS
<1>4. n # 0 /\ n \in 1..Len(nd) /\ n \in 1..Len(ne) /\ n \in Nat
  BY <1>1, <1>3, VisibleUp
<1>5. PICK p : p = nd[n].parent
  OBVIOUS
<1>6. p \in 0..n - 1 /\ p \in 0..Len(nd) /\ ~(n <= p)
  BY <1>1, <1>4, <1>5
<1>7. Fine(p)
  <2>1. p \notin Bad
    <3> HIDE DEF Bad
    <3> QED BY <1>2, <1>6
  <2> HIDE DEF Fine
  <2> QED BY <1>6, <2>1
<1>8. ne[n] = nd[n] /\ ne[n].parent = p
  BY <1>1, <1>4, <1>5
<1>9. VisibleIn(nd, n) = IF nd[n].kind # "turn_context" THEN n ELSE VisibleIn(nd, p)
  BY <1>1, <1>4, <1>5, VisibleUp
<1>10. VisibleIn(ne, n) = IF nd[n].kind # "turn_context" THEN n ELSE VisibleIn(ne, p)
  BY <1>1, <1>4, <1>8, VisibleUp
<1> QED BY <1>3, <1>4, <1>6, <1>7, <1>9, <1>10

-------------------------------------------------------------------------------
\* Down to the newest leaf.
Kids(nd, p) == {n \in DOMAIN nd : nd[n].parent = p}
IsNewest(nd, f) ==
  f = [k \in DOMAIN nd |-> IF Kids(nd, k) = {} THEN k ELSE f[Largest(Kids(nd, k))]]
NewestIn(nd, n) == (CHOOSE f : IsNewest(nd, f))[n]

LEMMA ChildrenAre == ASSUME NEW p PROVE Children(p) = Kids(node, p)
BY DEF Children, Id, Kids

LEMMA ChildrenAreNext == ASSUME NEW p PROVE Children(p)' = Kids(node', p)
BY DEF Children, Id, Kids

LEMMA NewestIs == ASSUME NEW n PROVE NewestBelow(n) = NewestIn(node, n)
BY DEF NewestBelow, NewestIn, IsNewest, Children, Id, Kids

LEMMA LargestIs ==
  ASSUME NEW L \in Nat, NEW S \in SUBSET (1..L), S # {}
  PROVE  Largest(S) \in S
<1> DEFINE T == {d \in Nat : \E x \in S : d = L - x}
<1>1. T # {}
  <2>1. PICK x \in S : TRUE
    OBVIOUS
  <2>2. L - x \in T
    BY <2>1
  <2> QED BY <2>2
<1>2. PICK d \in T : \A e \in T : d <= e
  <2>1. T \in SUBSET Nat
    OBVIOUS
  <2> HIDE DEF T
  <2> QED BY <1>1, <2>1, Least
<1>3. PICK x \in S : d = L - x
  OBVIOUS
<1>4. ASSUME NEW y \in S PROVE y <= x
  <2>1. L - y \in T
    OBVIOUS
  <2>2. d <= L - y
    BY <1>2, <2>1
  <2> QED BY <1>3, <2>2
<1>5. \E z \in S : \A y \in S : y <= z
  BY <1>4
<1> QED BY <1>5 DEF Largest

LEMMA KidsBelow ==
  ASSUME NEW nd, Tree(nd), NEW k \in Nat
  PROVE  /\ Kids(nd, k) \in SUBSET (1..Len(nd)) /\ \A n \in Kids(nd, k) : n > k
         /\ Kids(nd, k) # {} => Largest(Kids(nd, k)) \in 1..Len(nd) /\ Largest(Kids(nd, k)) > k
<1>1. Len(nd) \in Nat /\ DOMAIN nd = 1..Len(nd) /\ \A i \in 1..Len(nd) : nd[i].parent \in 0..i - 1
  BY TreeNodes
<1>2. Kids(nd, k) \in SUBSET (1..Len(nd)) /\ \A n \in Kids(nd, k) : n > k
  BY <1>1 DEF Kids
<1>3. Kids(nd, k) # {} => Largest(Kids(nd, k)) \in Kids(nd, k)
  BY <1>1, <1>2, LargestIs
<1> QED BY <1>2, <1>3

LEMMA NewestPiece ==
  ASSUME NEW nd, Tree(nd), NEW d \in 0..Len(nd)
  PROVE  \E f : f = [k \in Len(nd) - d + 1..Len(nd) |->
                       IF Kids(nd, k) = {} THEN k ELSE f[Largest(Kids(nd, k))]]
<1> DEFINE Piece(f, j) == f = [k \in Len(nd) - j + 1..Len(nd) |->
                                 IF Kids(nd, k) = {} THEN k ELSE f[Largest(Kids(nd, k))]]
           Bad == {j \in 0..Len(nd) : ~ \E f : Piece(f, j)}
<1> SUFFICES ASSUME Bad # {} PROVE FALSE
  OBVIOUS
<1>0. Len(nd) \in Nat
  BY TreeNodes
<1>1. PICK j \in Bad : \A m \in Bad : j <= m
  <2>1. Bad \subseteq Nat
    BY <1>0
  <2> HIDE DEF Bad
  <2> QED BY <2>1, Least
<1>2. j \in 0..Len(nd) /\ j \in Nat
  BY <1>0
<1>3. CASE j = 0
  <2>1. Len(nd) - 0 + 1..Len(nd) = {}
    BY <1>0
  <2>2. Piece([n \in {} |-> 0], 0)
    BY <2>1
  <2> QED BY <2>2, <1>3
<1>4. CASE j # 0
  <2>1. j - 1 \in 0..Len(nd) /\ j - 1 \notin Bad
    <3>1. j - 1 \in 0..Len(nd) /\ ~(j <= j - 1)
      BY <1>2, <1>0, <1>4
    <3> HIDE DEF Bad
    <3> QED BY <3>1, <1>1
  <2>2. PICK g : Piece(g, j - 1)
    BY <2>1
  <2>3. PICK i \in 1..Len(nd) : i = Len(nd) - j + 1
    BY <1>0, <1>2, <1>4
  <2>4. /\ Len(nd) - (j - 1) + 1 = i + 1 /\ i \in Nat
        /\ i..Len(nd) = {i} \cup (i + 1..Len(nd)) /\ i \notin i + 1..Len(nd)
    BY <1>0, <1>2, <1>4, <2>3
  <2>5. \A k \in i..Len(nd) : Kids(nd, k) # {} => Largest(Kids(nd, k)) \in i + 1..Len(nd)
    BY <1>0, <2>4, KidsBelow
  <2> DEFINE last == IF Kids(nd, i) = {} THEN i ELSE g[Largest(Kids(nd, i))]
             h == [k \in i..Len(nd) |-> IF k = i THEN last ELSE g[k]]
  <2>6. ASSUME NEW k \in i..Len(nd)
        PROVE  h[k] = IF Kids(nd, k) = {} THEN k ELSE h[Largest(Kids(nd, k))]
    <3>1. Kids(nd, k) # {} => h[Largest(Kids(nd, k))] = g[Largest(Kids(nd, k))]
      BY <2>4, <2>5
    <3>2. CASE k = i
      BY <3>1, <3>2
    <3>3. CASE k # i
      <4>1. k \in i + 1..Len(nd) /\ h[k] = g[k]
        BY <2>4, <3>3
      <4>2. g[k] = IF Kids(nd, k) = {} THEN k ELSE g[Largest(Kids(nd, k))]
        BY <2>2, <2>4, <4>1
      <4> QED BY <3>1, <4>1, <4>2
    <3> QED BY <3>2, <3>3
  <2>7. Piece(h, j)
    <3>1. h = [k \in i..Len(nd) |-> h[k]]
      OBVIOUS
    <3> HIDE DEF h
    <3> QED BY <3>1, <2>3, <2>6
  <2>8. j \notin Bad
    <3> HIDE DEF h, Piece
    <3> QED BY <2>7
  <2> QED BY <2>8
<1> QED BY <1>3, <1>4

LEMMA NewestDown ==
  ASSUME NEW nd, Tree(nd)
  PROVE  \A k \in 1..Len(nd) : NewestIn(nd, k) = IF Kids(nd, k) = {} THEN k
                                                 ELSE NewestIn(nd, Largest(Kids(nd, k)))
<1>1. Len(nd) \in Nat /\ DOMAIN nd = 1..Len(nd) /\ Len(nd) - Len(nd) + 1 = 1
  BY TreeNodes
<1>2. PICK g : IsNewest(nd, g)
  <2>1. Len(nd) \in 0..Len(nd) /\ Len(nd) - Len(nd) + 1..Len(nd) = DOMAIN nd
    BY <1>1
  <2>2. \E f : f = [k \in Len(nd) - Len(nd) + 1..Len(nd) |->
                     IF Kids(nd, k) = {} THEN k ELSE f[Largest(Kids(nd, k))]]
    BY <2>1, NewestPiece
  <2> QED BY <2>1, <2>2 DEF IsNewest
<1>3. PICK f : f = CHOOSE x : IsNewest(nd, x)
  OBVIOUS
<1>4. IsNewest(nd, f)
  BY <1>2, <1>3
<1>5. \A k : NewestIn(nd, k) = f[k]
  BY <1>3 DEF NewestIn
<1>6. \A k \in 1..Len(nd) : f[k] = IF Kids(nd, k) = {} THEN k ELSE f[Largest(Kids(nd, k))]
  BY <1>1, <1>4 DEF IsNewest
<1> QED BY <1>5, <1>6

\* It is a leaf.
LEMMA NewestIsLeaf ==
  ASSUME NEW nd, Tree(nd), NEW t \in 1..Len(nd)
  PROVE  NewestIn(nd, t) \in 1..Len(nd) /\ Kids(nd, NewestIn(nd, t)) = {}
<1> DEFINE Leaf(k) == NewestIn(nd, k) \in 1..Len(nd) /\ Kids(nd, NewestIn(nd, k)) = {}
           Bad == {d \in Nat : \E k \in 1..Len(nd) : d = Len(nd) - k /\ ~Leaf(k)}
<1> SUFFICES ASSUME ~Leaf(t) PROVE FALSE
  OBVIOUS
<1>1. Len(nd) \in Nat
  BY TreeNodes
<1>2. Bad # {}
  <2>1. Len(nd) - t \in Bad
    BY <1>1
  <2> QED BY <2>1
<1>3. PICK d \in Bad : \A e \in Bad : d <= e
  <2>1. Bad \in SUBSET Nat
    OBVIOUS
  <2> HIDE DEF Bad
  <2> QED BY <1>2, <2>1, Least
<1>4. PICK k \in 1..Len(nd) : d = Len(nd) - k /\ ~Leaf(k)
  OBVIOUS
<1>5. Kids(nd, k) # {} /\ k \in Nat
  BY <1>1, <1>4, NewestDown
<1>6. PICK m : m = Largest(Kids(nd, k))
  OBVIOUS
<1>7. m \in 1..Len(nd) /\ m > k
  BY <1>5, <1>6, KidsBelow
<1>8. Len(nd) - m \notin Bad
  <2>1. ~(d <= Len(nd) - m)
    BY <1>1, <1>4, <1>7
  <2> HIDE DEF Bad
  <2> QED BY <1>3, <2>1
<1>9. Leaf(m)
  <2>1. Len(nd) - m \in Nat
    BY <1>1, <1>7
  <2> HIDE DEF Leaf
  <2> QED BY <1>7, <1>8, <2>1
<1>10. NewestIn(nd, k) = NewestIn(nd, m)
  BY <1>4, <1>5, <1>6, NewestDown
<1> QED BY <1>4, <1>9, <1>10

-------------------------------------------------------------------------------
(****************************************************************************)
(* The turns on the tree.  A fork has left the cursor above the message it      *)
(* branches at, and remembers a leaf to go back to; any other cursor is at a    *)
(* leaf.  A run that may go on has its nodes above the cursor, or is known to   *)
(* have lost them.                                                              *)
(****************************************************************************)
Busy == {"starting", "streaming", "asked", "executing"}
Stopped == {"interrupted", "uncertain"}

TreeTypes ==
  /\ Tree(node) /\ leafId \in 0..Len(node)
  /\ turnAt \in [Turn -> Busy \cup Stopped \cup {"new", "queued", "ended"}]
  /\ fork \in [Turn -> [anchor : Nat, before : Nat]]

OwnerInv == \A r \in Turn : turnAt[r] \in Busy <=> runOwner = r

Forking(r) == turnAt[r] = "starting" /\ fork[r] # NoFork

WrittenInv == \A n \in DOMAIN node : turnAt[node[n].run] \notin {"new", "queued", "starting"}

CursorInv ==
  /\ \A r \in Turn : Forking(r) => /\ fork[r].before \in 0..Len(node)
                                   /\ ~forkLost => Kids(node, fork[r].before) = {}
  /\ ~forkLost /\ (\A r \in Turn : ~Forking(r)) => Kids(node, leafId) = {}

BranchInv ==
  \A r \in Turn \ moved : turnAt[r] \in Busy \cup Stopped =>
    \A n \in DOMAIN node : node[n].run = r => n \in PathIn(node, leafId)

ForkInv ==
  \A r \in Turn : fork[r] # NoFork =>
    /\ turnAt[r] \notin {"new", "queued"} /\ fork[r].anchor \in DOMAIN node
    /\ \A u \in DOMAIN node : node[u].run = r /\ node[u].kind = "user_message" =>
         VisibleIn(node, node[u].parent) = VisibleIn(node, node[fork[r].anchor].parent)
    /\ turnAt[r] = "starting" =>
         /\ leafId = VisibleIn(node, node[fork[r].anchor].parent)
         /\ \A x \in Turn : turnAt[x] \in Stopped => x \in moved

TreeInv == TreeTypes /\ OwnerInv /\ WrittenInv /\ CursorInv /\ BranchInv /\ ForkInv

LEMMA TreeStays ==
  ASSUME NEW nd, Tree(nd) PROVE Grew(nd, nd)
BY TreeNodes DEF Grew

\* Nodes appended to the tree, one or two at a time.
LEMMA Appended ==
  ASSUME Tree(node), leafId \in 0..Len(node), NEW r \in Turn, NEW kinds \in Seq(NodeKind),
         Len(kinds) \in 1..2, AppendKinds(r, kinds)
  PROVE  /\ Grew(node, node') /\ leafId' = Len(node') /\ Len(node') = Len(node) + Len(kinds)
         /\ Len(node) \in Nat
         /\ \A i \in 1..Len(kinds) :
              /\ node'[Len(node) + i].run = r /\ node'[Len(node) + i].kind = kinds[i]
              /\ node'[Len(node) + i].parent = IF i = 1 THEN leafId ELSE Len(node) + i - 1
<1>1. Len(node) \in Nat /\ DOMAIN kinds = 1..Len(kinds)
      /\ \A i \in 1..Len(kinds) : kinds[i] \in NodeKind
  BY TreeNodes
<1>2. PICK R : R = [kind : NodeKind, parent : Nat, run : Turn]
  OBVIOUS
<1>3. PICK new : new = [i \in 1..Len(kinds) |->
                          [kind |-> kinds[i], run |-> r,
                           parent |-> IF i = 1 THEN leafId ELSE Len(node) + i - 1]]
  OBVIOUS
<1>4. node' = node \o new /\ leafId' = Len(node) + Len(kinds)
  BY <1>1, <1>3 DEF AppendKinds
<1>5. /\ \A i \in 1..Len(kinds) :
           /\ new[i].run = r /\ new[i].kind = kinds[i]
           /\ new[i].parent = IF i = 1 THEN leafId ELSE Len(node) + i - 1
           /\ new[i].parent < Len(node) + i /\ new[i] \in R
  <2> SUFFICES ASSUME NEW i \in 1..Len(kinds)
               PROVE  /\ new[i].run = r /\ new[i].kind = kinds[i]
                      /\ new[i].parent = IF i = 1 THEN leafId ELSE Len(node) + i - 1
                      /\ new[i].parent < Len(node) + i /\ new[i] \in R
    OBVIOUS
  <2>1. PICK p : p = IF i = 1 THEN leafId ELSE Len(node) + i - 1
    OBVIOUS
  <2>2. p \in Nat /\ p < Len(node) + i
    BY <1>1, <2>1
  <2>3. new[i] = [kind |-> kinds[i], run |-> r, parent |-> p]
    BY <1>3, <2>1
  <2> QED BY <1>1, <1>2, <2>1, <2>2, <2>3
<1>6. new \in Seq(R) /\ Len(new) = Len(kinds)
  BY <1>3, <1>5
<1>7. node \in Seq(R)
  BY <1>2 DEF Tree
<1>8. /\ node' \in Seq(R) /\ Len(node') = Len(node) + Len(kinds)
      /\ \A i \in 1..Len(node) : node'[i] = node[i]
      /\ \A i \in 1..Len(kinds) : node'[Len(node) + i] = new[i]
  <2>1. /\ node \o new \in Seq(R) /\ Len(node \o new) = Len(node) + Len(new)
        /\ \A i \in 1..Len(node) + Len(new) :
             (node \o new)[i] = IF i <= Len(node) THEN node[i] ELSE new[i - Len(node)]
    BY <1>6, <1>7, ConcatProperties
  <2>2. \A i \in 1..Len(node) : i \in 1..Len(node) + Len(new) /\ i <= Len(node)
    BY <1>1, <1>6
  <2>3. \A i \in 1..Len(kinds) : /\ Len(node) + i \in 1..Len(node) + Len(new)
                                 /\ ~(Len(node) + i <= Len(node))
                                 /\ Len(node) + i - Len(node) = i
    BY <1>1, <1>6
  <2> QED BY <1>4, <1>6, <2>1, <2>2, <2>3
<1>9. \A i \in 1..Len(node') : node'[i].parent < i
  <2> SUFFICES ASSUME NEW i \in 1..Len(node') PROVE node'[i].parent < i
    OBVIOUS
  <2>1. CASE i \in 1..Len(node)
    BY <1>8, <2>1 DEF Tree
  <2>2. CASE i \notin 1..Len(node)
    <3>1. PICK j \in 1..Len(kinds) : i = Len(node) + j
      <4>1. i - Len(node) \in 1..Len(kinds)
        BY <1>1, <1>8, <2>2
      <4> QED BY <1>1, <4>1
    <3> QED BY <1>5, <1>8, <3>1
  <2> QED BY <2>1, <2>2
<1>10. Grew(node, node')
  BY <1>1, <1>2, <1>8, <1>9 DEF Grew, Tree
<1> QED BY <1>1, <1>4, <1>5, <1>8, <1>10

\* The path to what was appended holds it and the path that was there.
LEMMA PathExtended ==
  ASSUME Tree(node), leafId \in 0..Len(node), NEW r \in Turn, NEW kinds \in Seq(NodeKind),
         Len(kinds) \in 1..2, AppendKinds(r, kinds)
  PROVE  PathIn(node', leafId') = PathIn(node, leafId) \cup (Len(node) + 1..Len(node'))
<1>1. /\ Grew(node, node') /\ leafId' = Len(node') /\ Len(node') = Len(node) + Len(kinds)
      /\ Len(node) \in Nat
      /\ \A i \in 1..Len(kinds) :
           node'[Len(node) + i].parent = IF i = 1 THEN leafId ELSE Len(node) + i - 1
  BY Appended
<1>2. PathIn(node', leafId) = PathIn(node, leafId)
  BY <1>1, PathStays
<1>3. Tree(node') /\ Len(node) + 1 \in 1..Len(node') /\ 1 \in 1..Len(kinds)
  <2>1. Tree(node')
    BY <1>1 DEF Grew
  <2>2. PICK k : k = Len(kinds)
    OBVIOUS
  <2>3. PICK m \in Nat : m = Len(node)
    BY <1>1
  <2>4. k \in Nat /\ 1 <= k /\ k <= 2
    BY <2>2
  <2>5. m + 1 \in 1..m + k /\ 1 \in 1..k
    BY <2>3, <2>4
  <2> QED BY <1>1, <2>1, <2>2, <2>3, <2>5
<1>4. PathIn(node', Len(node) + 1) = {Len(node) + 1} \cup PathIn(node, leafId)
  <2>1. node'[Len(node) + 1].parent = leafId
    BY <1>1, <1>3
  <2> QED BY <1>2, <1>3, <2>1, PathUp
<1>5. CASE Len(kinds) = 1
  <2>1. Len(node) + 1..Len(node') = {Len(node) + 1} /\ leafId' = Len(node) + 1
    BY <1>1, <1>5
  <2> QED BY <1>4, <2>1
<1>6. CASE Len(kinds) = 2
  <2>1. /\ Len(node) + 1..Len(node') = {Len(node) + 1, Len(node) + 2}
        /\ leafId' = Len(node) + 2 /\ Len(node) + 2 \in 1..Len(node')
        /\ node'[Len(node) + 2].parent = Len(node) + 1
    BY <1>1, <1>6
  <2>2. PathIn(node', Len(node) + 2) = {Len(node) + 2} \cup PathIn(node', Len(node) + 1)
    BY <1>3, <2>1, PathUp
  <2> QED BY <1>4, <2>1, <2>2
<1> QED BY <1>5, <1>6

\* A leaf at the end of the tree.
LEMMA LastIsLeaf ==
  ASSUME NEW nd, Tree(nd) PROVE Kids(nd, Len(nd)) = {} /\ Len(nd) \in 0..Len(nd)
<1>1. Len(nd) \in Nat
  BY TreeNodes
<1> QED BY <1>1, KidsBelow

\* A run writes nodes.  A user message is what a turn begins with.
Opening == <<"turn_context", "user_message">>

LEMMA NodesWritten ==
  ASSUME TreeInv, NEW r \in Turn, NEW kinds \in Seq(NodeKind), Len(kinds) \in 1..2,
         AppendKinds(r, kinds), NEW p \in (Busy \cup Stopped \cup {"ended"}) \ {"starting"},
         turnAt[r] \in Busy \cup {"uncertain"}, turnAt' = [turnAt EXCEPT ![r] = p],
         \A q \in Turn : q # r => turnAt[q] \notin Busy,
         \A q \in Turn : (p \in Busy /\ q = r) <=> runOwner' = q,
         \/ turnAt[r] = "starting" /\ kinds = Opening
         \/ turnAt[r] # "starting" /\ (\A i \in 1..Len(kinds) : kinds[i] # "user_message"),
         UNCHANGED <<fork, moved>>
  PROVE  TreeInv'
<1>1. /\ Grew(node, node') /\ leafId' = Len(node') /\ Len(node') = Len(node) + Len(kinds)
      /\ Len(node) \in Nat
      /\ \A i \in 1..Len(kinds) :
           /\ node'[Len(node) + i].run = r /\ node'[Len(node) + i].kind = kinds[i]
           /\ node'[Len(node) + i].parent = IF i = 1 THEN leafId ELSE Len(node) + i - 1
  BY Appended DEF TreeInv, TreeTypes
<1>2. /\ Tree(node) /\ Tree(node') /\ DOMAIN node = 1..Len(node) /\ DOMAIN node' = 1..Len(node')
      /\ DOMAIN node \subseteq DOMAIN node' /\ \A n \in DOMAIN node : node'[n] = node[n]
  <2>1. Tree(node) /\ Tree(node')
    BY <1>1 DEF Grew
  <2>2. DOMAIN node = 1..Len(node) /\ DOMAIN node' = 1..Len(node')
    BY <2>1, TreeNodes
  <2> QED BY <1>1, <2>1, <2>2 DEF Grew
<1>3. \A n \in DOMAIN node' : n \in DOMAIN node \/ \E i \in 1..Len(kinds) : n = Len(node) + i
  <2> SUFFICES ASSUME NEW n \in DOMAIN node', n \notin DOMAIN node
               PROVE  \E i \in 1..Len(kinds) : n = Len(node) + i
    OBVIOUS
  <2>1. n - Len(node) \in 1..Len(kinds) /\ n = Len(node) + (n - Len(node))
    BY <1>1, <1>2
  <2> QED BY <2>1
<1>4. turnAt'[r] = p /\ \A q \in Turn : q # r => turnAt'[q] = turnAt[q]
  BY DEF TreeInv, TreeTypes
<1>5. \A q \in Turn : ~Forking(q)'
  BY <1>4 DEF Forking, Busy
<1>6. TreeTypes'
  <2>1. leafId' \in 0..Len(node')
    BY <1>1, <1>2, LastIsLeaf
  <2>2. turnAt' \in [Turn -> Busy \cup Stopped \cup {"new", "queued", "ended"}]
    BY DEF TreeInv, TreeTypes
  <2> QED BY <1>2, <2>1, <2>2 DEF TreeInv, TreeTypes
<1>7. OwnerInv'
  BY <1>4 DEF TreeInv, OwnerInv
<1>8. WrittenInv'
  <2>1. \A n \in DOMAIN node' : node'[n].run = r \/ n \in DOMAIN node
    BY <1>1, <1>3
  <2>2. \A n \in DOMAIN node : node[n].run \in Turn
    BY <1>2, TreeNodes
  <2>3. p \notin {"new", "queued", "starting"}
    BY DEF Busy, Stopped
  <2> QED BY <1>2, <1>4, <2>1, <2>2, <2>3 DEF TreeInv, WrittenInv
<1>9. CursorInv'
  <2>1. Kids(node', leafId') = {}
    BY <1>1, <1>2, LastIsLeaf
  <2> QED BY <1>5, <2>1 DEF CursorInv
<1>10. BranchInv'
  <2> SUFFICES ASSUME NEW q \in Turn \ moved', turnAt'[q] \in Busy \cup Stopped,
                      NEW n \in DOMAIN node', node'[n].run = q
               PROVE  n \in PathIn(node', leafId')
    BY DEF BranchInv
  <2>1. PathIn(node', leafId') = PathIn(node, leafId) \cup (Len(node) + 1..Len(node'))
    BY PathExtended DEF TreeInv, TreeTypes
  <2>2. turnAt[q] \in Busy \cup Stopped
    BY <1>4 DEF Stopped
  <2>3. CASE n \in DOMAIN node
    BY <1>2, <2>1, <2>2, <2>3 DEF TreeInv, BranchInv
  <2>4. CASE n \notin DOMAIN node
    BY <1>1, <1>2, <2>1, <2>4
  <2> QED BY <2>3, <2>4
<1>11. ForkInv'
  <2> SUFFICES ASSUME NEW q \in Turn, fork[q] # NoFork
               PROVE  /\ turnAt'[q] \notin {"new", "queued"} /\ fork[q].anchor \in DOMAIN node'
                      /\ turnAt'[q] # "starting"
                      /\ \A u \in DOMAIN node' :
                           node'[u].run = q /\ node'[u].kind = "user_message" =>
                             VisibleIn(node', node'[u].parent)
                               = VisibleIn(node', node'[fork[q].anchor].parent)
    BY DEF ForkInv
  <2>1. turnAt'[q] \notin {"new", "queued"} /\ turnAt'[q] # "starting"
    BY <1>4 DEF TreeInv, ForkInv, Busy, Stopped
  <2>2. PICK a \in DOMAIN node : a = fork[q].anchor
    BY DEF TreeInv, ForkInv
  <2>3. PICK v : v = VisibleIn(node, node[a].parent)
    OBVIOUS
  <2>4. \A n \in DOMAIN node : VisibleIn(node', node'[n].parent) = VisibleIn(node, node[n].parent)
    <3>1. \A n \in DOMAIN node : node[n].parent \in 0..Len(node)
      BY <1>2, TreeNodes
    <3> QED BY <1>1, <1>2, <3>1, VisibleFound
  <2>5. ASSUME NEW u \in DOMAIN node', node'[u].run = q, node'[u].kind = "user_message"
        PROVE  VisibleIn(node', node'[u].parent) = v
    <3>1. CASE u \in DOMAIN node
      BY <1>2, <2>2, <2>3, <2>4, <2>5, <3>1 DEF TreeInv, ForkInv
    <3>2. CASE u \notin DOMAIN node
      <4>1. PICK i \in 1..Len(kinds) : u = Len(node) + i
        BY <1>3, <3>2
      <4>2. q = r /\ turnAt[r] = "starting" /\ kinds = Opening
        BY <1>1, <2>5, <4>1
      <4>3. Len(kinds) = 2 /\ kinds[1] = "turn_context" /\ kinds[2] = "user_message" /\ i = 2
        BY <1>1, <2>5, <4>1, <4>2 DEF Opening
      <4>4. /\ u = Len(node) + 2 /\ node'[u].parent = Len(node) + 1
            /\ Len(node) + 1 \in 1..Len(node')
            /\ node'[Len(node) + 1].kind = "turn_context"
            /\ node'[Len(node) + 1].parent = leafId
        BY <1>1, <4>1, <4>3
      <4>5. VisibleIn(node', node'[u].parent) = VisibleIn(node', leafId)
        BY <1>2, <4>4, VisibleUp
      <4>6. leafId = v /\ leafId \in 0..Len(node)
        BY <2>2, <2>3, <4>2 DEF TreeInv, TreeTypes, ForkInv
      <4>7. VisibleIn(node', leafId) = VisibleIn(node, leafId)
        BY <1>1, <4>6, VisibleFound
      <4>8. VisibleIn(node, leafId) = leafId
        <5>1. node[a].parent \in 0..Len(node)
          BY <1>2, TreeNodes
        <5>2. v # 0 => node[v].kind # "turn_context"
          BY <1>1, <2>3, <5>1, VisibleFound
        <5>3. CASE leafId = 0
          BY <1>2, <5>3, VisibleUp
        <5>4. CASE leafId # 0
          BY <1>1, <1>2, <4>6, <5>2, <5>4, VisibleUp
        <5> QED BY <5>3, <5>4
      <4> QED BY <4>5, <4>6, <4>7, <4>8
    <3> QED BY <3>1, <3>2
  <2>6. VisibleIn(node', node'[a].parent) = v
    BY <2>3, <2>4
  <2> QED BY <1>2, <2>1, <2>2, <2>5, <2>6
<1> QED BY <1>6, <1>7, <1>8, <1>9, <1>10, <1>11 DEF TreeInv

\* Nothing is written, and the cursor stays: the runs may go on or stop, and a fork may be
\* forgotten.
LEMMA NodesStay ==
  ASSUME TreeInv, UNCHANGED <<node, moved, leafId>>,
         fork' \in [Turn -> [anchor : Nat, before : Nat]],
         \A q \in Turn : fork'[q] \in {fork[q], NoFork},
         turnAt' \in [Turn -> Busy \cup Stopped \cup {"new", "queued", "ended"}],
         \A q \in Turn : (turnAt'[q] \in Busy) <=> (runOwner' = q),
         \A q \in Turn : /\ turnAt'[q] \in {"new", "queued", "starting"} =>
                              turnAt[q] \in {"new", "queued", "starting"}
                         /\ turnAt'[q] \in Busy \cup Stopped =>
                              \/ turnAt[q] \in Busy \cup Stopped
                              \/ \A n \in DOMAIN node : node[n].run # q,
         \A q \in Turn : fork'[q] # NoFork =>
           turnAt'[q] \notin {"new", "queued"} /\ (turnAt'[q] = "starting" => turnAt' = turnAt),
         CursorInv'
  PROVE  TreeInv'
<1>1. TreeTypes'
  BY DEF TreeInv, TreeTypes
<1>2. OwnerInv'
  BY DEF OwnerInv
<1>3. WrittenInv'
  <2>1. Tree(node) /\ \A n \in DOMAIN node : node[n].run \in Turn
    BY TreeNodes DEF TreeInv, TreeTypes
  <2> QED BY <2>1 DEF TreeInv, WrittenInv
<1>4. BranchInv'
  BY DEF TreeInv, BranchInv
<1>5. ForkInv'
  BY DEF TreeInv, ForkInv
<1> QED BY <1>1, <1>2, <1>3, <1>4, <1>5 DEF TreeInv

LEMMA TreeStarts == ASSUME TreeInit PROVE TreeInv
<1>1. /\ node = <<>> /\ leafId = 0 /\ runOwner = Nobody /\ \A r \in Turn : turnAt[r] = "new"
      /\ turnAt \in [Turn -> {"new"}] /\ fork = [r \in Turn |-> NoFork]
  BY DEF TreeInit
<1>2. DOMAIN node = {} /\ Len(node) = 0 /\ Tree(node)
  <2>1. DOMAIN node = {} /\ Len(node) = 0
    BY <1>1, NothingIn
  <2>2. node \in Seq([kind : NodeKind, parent : Nat, run : Turn])
    BY <1>1
  <2> QED BY <2>1, <2>2 DEF Tree
<1>3. TreeTypes
  BY <1>1, <1>2 DEF TreeTypes, NoFork
<1>4. OwnerInv
  BY <1>1, TreeAssumption DEF OwnerInv, Busy
<1>5. WrittenInv /\ CursorInv
  BY <1>1, <1>2 DEF WrittenInv, CursorInv, Kids, Forking
<1>6. BranchInv /\ ForkInv
  BY <1>1, <1>2 DEF BranchInv, ForkInv
<1> QED BY <1>3, <1>4, <1>5, <1>6 DEF TreeInv

\* No fork is under way while nobody owns the thread.
LEMMA NoneForking ==
  ASSUME TreeInv, runOwner = Nobody
  PROVE  \A q \in Turn : turnAt[q] \notin Busy /\ ~Forking(q)
BY TreeAssumption DEF TreeInv, OwnerInv, Forking, Busy

LEMMA ForksStay ==
  ASSUME TreeInv, UNCHANGED fork
  PROVE  /\ fork' \in [Turn -> [anchor : Nat, before : Nat]]
         /\ \A q \in Turn : fork'[q] \in {fork[q], NoFork}
BY DEF TreeInv, TreeTypes

LEMMA TurnStarts ==
  ASSUME TreeInv, NEW r \in Turn, SubmitTurn(r) \/ DrainQueue(r) PROVE TreeInv'
<1>1. /\ runOwner = Nobody /\ turnAt[r] \in {"new", "queued"}
      /\ turnAt' = [turnAt EXCEPT ![r] = "starting"]
      /\ runOwner' = r /\ UNCHANGED <<node, leafId, fork, moved, forkLost>>
  BY DEF SubmitTurn, DrainQueue, Idle, Fresh
<1>2. /\ turnAt' \in [Turn -> Busy \cup Stopped \cup {"new", "queued", "ended"}]
      /\ turnAt'[r] = "starting" /\ \A q \in Turn : q # r => turnAt'[q] = turnAt[q]
  BY <1>1 DEF TreeInv, TreeTypes, Busy
<1>3. \A q \in Turn : turnAt[q] \notin Busy /\ ~Forking(q)
  BY <1>1, NoneForking
<1>4. fork[r] = NoFork /\ \A n \in DOMAIN node : node[n].run # r
  BY <1>1 DEF TreeInv, ForkInv, WrittenInv
<1>5. \A q \in Turn : (turnAt'[q] \in Busy) <=> (runOwner' = q)
  BY <1>1, <1>2, <1>3 DEF Busy
<1>6. \A q \in Turn : ~Forking(q)'
  BY <1>1, <1>2, <1>3, <1>4 DEF Forking
<1>7. CursorInv'
  BY <1>1, <1>3, <1>6 DEF CursorInv, TreeInv
<1>8. \A q \in Turn : fork'[q] # NoFork =>
        turnAt'[q] \notin {"new", "queued"} /\ (turnAt'[q] = "starting" => turnAt' = turnAt)
  <2>1. \A q \in Turn : fork[q] # NoFork =>
          q # r /\ turnAt[q] \notin {"new", "queued"} /\ turnAt[q] # "starting"
    BY <1>3, <1>4 DEF TreeInv, ForkInv, Busy
  <2> QED BY <1>1, <1>2, <2>1
<1> QED BY <1>1, <1>2, <1>4, <1>5, <1>7, <1>8, ForksStay, NodesStay

LEMMA TurnEnqueued ==
  ASSUME TreeInv, NEW r \in Turn, EnqueueTurn(r) PROVE TreeInv'
<1>1. /\ turnAt[r] = "new" /\ turnAt' = [turnAt EXCEPT ![r] = "queued"]
      /\ UNCHANGED <<node, leafId, runOwner, fork, moved, forkLost>>
  BY DEF EnqueueTurn, Fresh
<1>2. /\ turnAt' \in [Turn -> Busy \cup Stopped \cup {"new", "queued", "ended"}]
      /\ turnAt'[r] = "queued" /\ \A q \in Turn : q # r => turnAt'[q] = turnAt[q]
  BY <1>1 DEF TreeInv, TreeTypes
<1>3. fork[r] = NoFork
  BY <1>1 DEF TreeInv, ForkInv
<1>4. \A q \in Turn : /\ Forking(q)' <=> Forking(q)
                      /\ turnAt'[q] \in Busy <=> turnAt[q] \in Busy
                      /\ turnAt'[q] \in Stopped <=> turnAt[q] \in Stopped
  BY <1>1, <1>2, <1>3 DEF Forking, Busy, Stopped
<1>5. TreeTypes' /\ OwnerInv'
  BY <1>1, <1>2, <1>4 DEF TreeInv, TreeTypes, OwnerInv
<1>6. WrittenInv'
  <2>1. \A n \in DOMAIN node : node[n].run \in Turn
    BY TreeNodes DEF TreeInv, TreeTypes
  <2> QED BY <1>1, <1>2, <2>1 DEF TreeInv, WrittenInv
<1>7. CursorInv'
  BY <1>1, <1>4 DEF TreeInv, CursorInv
<1>8. BranchInv'
  BY <1>1, <1>4 DEF TreeInv, BranchInv
<1>9. ForkInv'
  BY <1>1, <1>2, <1>3, <1>4 DEF TreeInv, ForkInv
<1> QED BY <1>5, <1>6, <1>7, <1>8, <1>9 DEF TreeInv

LEMMA TurnForked ==
  ASSUME TreeInv, NEW r \in Turn, NEW a \in DOMAIN node, ForkTurn(r, a) PROVE TreeInv'
<1>1. /\ runOwner = Nobody /\ turnAt[r] = "new" /\ turnAt' = [turnAt EXCEPT ![r] = "starting"]
      /\ runOwner' = r /\ UNCHANGED <<node, forkLost>>
      /\ fork' = [fork EXCEPT ![r] = [anchor |-> a, before |-> leafId]]
      /\ leafId' = VisibleAncestor(a)
      /\ moved' = moved \cup {x \in Turn : turnAt[x] \in {"interrupted", "uncertain"}}
  BY DEF ForkTurn, Idle, Fresh
<1>2. /\ turnAt' \in [Turn -> Busy \cup Stopped \cup {"new", "queued", "ended"}]
      /\ turnAt'[r] = "starting" /\ \A q \in Turn : q # r => turnAt'[q] = turnAt[q]
  BY <1>1 DEF TreeInv, TreeTypes, Busy
<1>3. \A q \in Turn : turnAt[q] \notin Busy /\ ~Forking(q)
  BY <1>1, NoneForking
<1>4. fork[r] = NoFork /\ \A n \in DOMAIN node : node[n].run # r
  BY <1>1 DEF TreeInv, ForkInv, WrittenInv
<1>5. Tree(node) /\ leafId \in 0..Len(node) /\ Len(node) \in Nat /\ DOMAIN node = 1..Len(node)
  BY TreeNodes DEF TreeInv, TreeTypes
<1>6. PICK f : f = [anchor |-> a, before |-> leafId]
  OBVIOUS
<1>7. /\ fork' \in [Turn -> [anchor : Nat, before : Nat]] /\ fork'[r] = f
      /\ f.anchor = a /\ f.before = leafId /\ \A q \in Turn : q # r => fork'[q] = fork[q]
  <2>1. f \in [anchor : Nat, before : Nat] /\ f.anchor = a /\ f.before = leafId
    BY <1>5, <1>6
  <2> QED BY <1>1, <1>6, <2>1 DEF TreeInv, TreeTypes
<1>8. leafId' = VisibleIn(node, node[a].parent) /\ leafId' \in 0..Len(node)
  <2>1. leafId' = VisibleIn(node, node[a].parent)
    BY <1>1, VisibleIs
  <2>2. node[a].parent \in 0..Len(node)
    BY <1>5, TreeNodes
  <2>3. VisibleIn(node, node[a].parent) \in 0..node[a].parent
    BY <1>5, <2>2, TreeStays, VisibleFound
  <2> QED BY <1>5, <2>1, <2>2, <2>3
<1>9. TreeTypes'
  BY <1>1, <1>2, <1>5, <1>7, <1>8 DEF TreeTypes
<1>10. OwnerInv'
  BY <1>1, <1>2, <1>3 DEF OwnerInv, Busy
<1>11. WrittenInv'
  <2>1. \A n \in DOMAIN node : node[n].run \in Turn
    BY <1>5, TreeNodes
  <2> QED BY <1>1, <1>2, <1>4, <2>1 DEF TreeInv, WrittenInv
<1>12. CursorInv'
  <2>1. Forking(r)'
    <3>1. fork'[r] # NoFork
      BY <1>5, <1>7 DEF NoFork
    <3> QED BY <1>2, <3>1 DEF Forking
  <2>2. \A q \in Turn : Forking(q)' => q = r
    BY <1>2, <1>3, <1>7 DEF Forking
  <2>3. ~forkLost => Kids(node, leafId) = {}
    BY <1>3 DEF TreeInv, CursorInv
  <2> QED BY <1>1, <1>5, <1>7, <2>1, <2>2, <2>3 DEF CursorInv
<1>13. BranchInv'
  <2> SUFFICES ASSUME NEW q \in Turn \ moved', turnAt'[q] \in Busy \cup Stopped
               PROVE  \A n \in DOMAIN node : node[n].run # q
    BY <1>1 DEF BranchInv
  <2>1. q = r
    BY <1>1, <1>2, <1>3 DEF Stopped
  <2> QED BY <1>4, <2>1
<1>14. ForkInv'
  <2> SUFFICES ASSUME NEW q \in Turn, fork'[q] # NoFork
               PROVE  /\ turnAt'[q] \notin {"new", "queued"} /\ fork'[q].anchor \in DOMAIN node
                      /\ \A u \in DOMAIN node : node[u].run = q /\ node[u].kind = "user_message" =>
                           VisibleIn(node, node[u].parent)
                             = VisibleIn(node, node[fork'[q].anchor].parent)
                      /\ turnAt'[q] = "starting" =>
                           /\ leafId' = VisibleIn(node, node[fork'[q].anchor].parent)
                           /\ \A x \in Turn : turnAt'[x] \in Stopped => x \in moved'
    BY <1>1 DEF ForkInv
  <2>1. \A x \in Turn : turnAt'[x] \in Stopped => x \in moved'
    BY <1>1, <1>2 DEF Stopped
  <2>2. CASE q = r
    BY <1>2, <1>4, <1>7, <1>8, <2>1, <2>2
  <2>3. CASE q # r
    <3>1. fork'[q] = fork[q] /\ turnAt'[q] = turnAt[q] /\ turnAt[q] # "starting"
      BY <1>2, <1>3, <1>7, <2>3 DEF Busy
    <3> QED BY <3>1 DEF TreeInv, ForkInv
  <2> QED BY <2>2, <2>3
<1> QED BY <1>9, <1>10, <1>11, <1>12, <1>13, <1>14 DEF TreeInv

LEMMA StartFailed ==
  ASSUME TreeInv, NEW r \in Turn, FailStart(r) PROVE TreeInv'
<1>1. /\ turnAt[r] = "starting" /\ turnAt' = [turnAt EXCEPT ![r] = "ended"] /\ runOwner' = Nobody
      /\ leafId' = IF fork[r] # NoFork THEN fork[r].before ELSE leafId
      /\ UNCHANGED <<node, fork, moved, forkLost>>
  BY DEF FailStart, RestoreCursor
<1>2. /\ turnAt' \in [Turn -> Busy \cup Stopped \cup {"new", "queued", "ended"}]
      /\ turnAt'[r] = "ended" /\ \A q \in Turn : q # r => turnAt'[q] = turnAt[q]
  BY <1>1 DEF TreeInv, TreeTypes
<1>3. runOwner = r /\ \A q \in Turn : q # r => turnAt[q] \notin Busy
  BY <1>1 DEF TreeInv, OwnerInv, Busy
<1>4. \A q \in Turn : turnAt'[q] \notin Busy /\ ~Forking(q)' /\ (q # r => ~Forking(q))
  BY <1>2, <1>3 DEF Forking, Busy
<1>5. leafId' \in 0..Len(node)
  BY <1>1 DEF TreeInv, TreeTypes, CursorInv, Forking
<1>6. TreeTypes'
  BY <1>1, <1>2, <1>5 DEF TreeInv, TreeTypes
<1>7. OwnerInv'
  BY <1>1, <1>4, TreeAssumption DEF OwnerInv
<1>8. WrittenInv'
  <2>1. \A n \in DOMAIN node : node[n].run \in Turn
    BY TreeNodes DEF TreeInv, TreeTypes
  <2> QED BY <1>1, <1>2, <2>1 DEF TreeInv, WrittenInv
<1>9. CursorInv'
  <2>1. ~forkLost => Kids(node, leafId') = {}
    BY <1>1, <1>4 DEF TreeInv, CursorInv, Forking
  <2> QED BY <1>1, <1>4, <2>1 DEF CursorInv
<1>10. BranchInv'
  <2> SUFFICES ASSUME NEW q \in Turn \ moved, turnAt'[q] \in Busy \cup Stopped
               PROVE  \A n \in DOMAIN node : node[n].run = q => n \in PathIn(node, leafId')
    BY <1>1 DEF BranchInv
  <2>1. q # r /\ turnAt[q] \in Stopped
    BY <1>2, <1>4 DEF Busy, Stopped
  <2>2. fork[r] = NoFork
    BY <1>1, <2>1 DEF TreeInv, ForkInv
  <2> QED BY <1>1, <2>1, <2>2 DEF TreeInv, BranchInv
<1>11. ForkInv'
  BY <1>1, <1>2, <1>4 DEF TreeInv, ForkInv, Busy
<1> QED BY <1>6, <1>7, <1>8, <1>9, <1>10, <1>11 DEF TreeInv

\* The cursor of a fork that never wrote its first nodes stays where the fork moved it.
LEMMA FirstNodesFailed ==
  ASSUME TreeInv, NEW r \in Turn, FailFirstNodes(r) PROVE TreeInv'
<1>1. /\ turnAt[r] = "starting" /\ turnAt' = [turnAt EXCEPT ![r] = "ended"] /\ runOwner' = Nobody
      /\ forkLost' = (forkLost \/ fork[r] # NoFork)
      /\ UNCHANGED <<node, leafId, fork, moved>>
  BY DEF FailFirstNodes
<1>2. /\ turnAt' \in [Turn -> Busy \cup Stopped \cup {"new", "queued", "ended"}]
      /\ turnAt'[r] = "ended" /\ \A q \in Turn : q # r => turnAt'[q] = turnAt[q]
  BY <1>1 DEF TreeInv, TreeTypes
<1>3. runOwner = r /\ \A q \in Turn : q # r => turnAt[q] \notin Busy
  BY <1>1 DEF TreeInv, OwnerInv, Busy
<1>4. \A q \in Turn : turnAt'[q] \notin Busy /\ ~Forking(q)' /\ (q # r => ~Forking(q))
  BY <1>2, <1>3 DEF Forking, Busy
<1>5. \A q \in Turn : (turnAt'[q] \in Busy) <=> (runOwner' = q)
  <2> SUFFICES ASSUME NEW q \in Turn PROVE turnAt'[q] \notin Busy /\ runOwner' # q
    OBVIOUS
  <2> QED BY <1>1, <1>4, TreeAssumption
<1>6. CursorInv'
  BY <1>1, <1>4 DEF TreeInv, CursorInv, Forking
<1>7. \A q \in Turn : /\ turnAt'[q] \in {"new", "queued", "starting"} =>
                            turnAt[q] \in {"new", "queued", "starting"}
                      /\ turnAt'[q] \in Busy \cup Stopped => turnAt[q] \in Busy \cup Stopped
  BY <1>2 DEF Busy, Stopped
<1>8. \A q \in Turn : fork'[q] # NoFork =>
        turnAt'[q] \notin {"new", "queued"} /\ turnAt'[q] # "starting"
  BY <1>1, <1>2, <1>4 DEF TreeInv, ForkInv, Busy
<1> QED BY <1>1, <1>2, <1>5, <1>6, <1>7, <1>8, ForksStay, NodesStay

\* What a run writes, one node or two.
LEMMA Written ==
  /\ Opening \in Seq(NodeKind) /\ Len(Opening) = 2
  /\ \A k \in NodeKind : <<k>> \in Seq(NodeKind) /\ Len(<<k>>) = 1 /\ <<k>>[1] = k
  /\ \A k, l \in NodeKind : /\ <<k, l>> \in Seq(NodeKind) /\ Len(<<k, l>>) = 2
                            /\ <<k, l>>[1] = k /\ <<k, l>>[2] = l
<1>1. "turn_context" \in NodeKind /\ "user_message" \in NodeKind
  BY DEF NodeKind
<1> QED BY <1>1 DEF Opening

\* One run works at a time.
LEMMA OneBusy ==
  ASSUME TreeInv, NEW r \in Turn, turnAt[r] \in Busy \/ runOwner = Nobody
  PROVE  \A q \in Turn : q # r => turnAt[q] \notin Busy
BY TreeAssumption DEF TreeInv, OwnerInv

\* A run writes nodes and goes on, or ends.
LEMMA RunWrites ==
  ASSUME TreeInv, NEW r \in Turn, NEW kinds \in Seq(NodeKind), Len(kinds) \in 1..2,
         AppendKinds(r, kinds), NEW p \in (Busy \cup Stopped \cup {"ended"}) \ {"starting"},
         turnAt[r] \in Busy \/ (turnAt[r] = "uncertain" /\ runOwner = Nobody),
         turnAt' = [turnAt EXCEPT ![r] = p],
         p \in Busy => runOwner' = r, p \notin Busy => runOwner' = Nobody,
         \/ turnAt[r] = "starting" /\ kinds = Opening
         \/ turnAt[r] # "starting" /\ (\A i \in 1..Len(kinds) : kinds[i] # "user_message"),
         UNCHANGED <<fork, moved>>
  PROVE  TreeInv'
<1>1. \A q \in Turn : q # r => turnAt[q] \notin Busy
  BY OneBusy
<1>2. \A q \in Turn : (p \in Busy /\ q = r) <=> runOwner' = q
  BY TreeAssumption
<1> QED BY <1>1, <1>2, NodesWritten

\* The same for one node that is not a user message.
LEMMA RunWritesOne ==
  ASSUME TreeInv, NEW r \in Turn, NEW k \in NodeKind \ {"user_message"},
         AppendKinds(r, <<k>>), NEW p \in (Busy \cup Stopped \cup {"ended"}) \ {"starting"},
         turnAt[r] \in Busy \/ (turnAt[r] = "uncertain" /\ runOwner = Nobody),
         turnAt[r] # "starting", turnAt' = [turnAt EXCEPT ![r] = p],
         p \in Busy => runOwner' = r, p \notin Busy => runOwner' = Nobody,
         UNCHANGED <<fork, moved>>
  PROVE  TreeInv'
<1>1. PICK ks : ks = <<k>>
  OBVIOUS
<1>2. ks \in Seq(NodeKind) /\ Len(ks) = 1 /\ ks[1] = k
  BY <1>1, Written
<1>3. Len(ks) \in 1..2 /\ \A i \in 1..Len(ks) : ks[i] # "user_message"
  BY <1>2
<1>4. AppendKinds(r, ks)
  BY <1>1
<1> QED BY <1>2, <1>3, <1>4, RunWrites

LEMMA TurnBegun ==
  ASSUME TreeInv, NEW r \in Turn, BeginTurn(r) PROVE TreeInv'
<1>1. /\ turnAt[r] = "starting" /\ AppendKinds(r, Opening)
      /\ turnAt' = [turnAt EXCEPT ![r] = "streaming"]
      /\ UNCHANGED <<runOwner, fork, moved>>
  BY DEF BeginTurn, Opening
<1>2. runOwner = r /\ turnAt[r] \in Busy
  BY <1>1 DEF TreeInv, OwnerInv, Busy
<1>3. "streaming" \in (Busy \cup Stopped \cup {"ended"}) \ {"starting"} /\ "streaming" \in Busy
  BY DEF Busy
<1>4. Opening \in Seq(NodeKind) /\ Len(Opening) \in 1..2
  BY Written
<1> QED BY <1>1, <1>2, <1>3, <1>4, RunWrites

LEMMA ModelAnswered ==
  ASSUME TreeInv, NEW r \in Turn, Answer(r) PROVE TreeInv'
<1>1. turnAt[r] = "streaming" /\ AppendKinds(r, <<"assistant_message">>)
      /\ UNCHANGED <<fork, moved>>
  BY DEF Answer
<1>2. "assistant_message" \in NodeKind \ {"user_message"}
  BY DEF NodeKind
<1>3. /\ "asked" \in (Busy \cup Stopped \cup {"ended"}) \ {"starting"} /\ "asked" \in Busy
      /\ "ended" \in (Busy \cup Stopped \cup {"ended"}) \ {"starting"} /\ "ended" \notin Busy
      /\ turnAt[r] \in Busy /\ turnAt[r] # "starting"
  BY <1>1 DEF Busy
<1>4. CASE turnAt' = [turnAt EXCEPT ![r] = "asked"] /\ runOwner' = r
  BY <1>1, <1>2, <1>3, <1>4, RunWritesOne
<1>5. CASE turnAt' = [turnAt EXCEPT ![r] = "ended"] /\ runOwner' = Nobody
  BY <1>1, <1>2, <1>3, <1>5, RunWritesOne
<1> QED BY <1>4, <1>5 DEF Answer

LEMMA ToolCalled ==
  ASSUME TreeInv, NEW r \in Turn, CallTool(r) PROVE TreeInv'
<1>1. turnAt[r] = "asked" /\ runOwner = r /\ UNCHANGED <<runOwner, fork, moved>>
  BY DEF CallTool
<1>2. /\ "tool_call" \in NodeKind \ {"user_message"} /\ "tool_call" \in NodeKind
      /\ "tool_result" \in NodeKind
  BY DEF NodeKind
<1>3. /\ "executing" \in (Busy \cup Stopped \cup {"ended"}) \ {"starting"}
      /\ "streaming" \in (Busy \cup Stopped \cup {"ended"}) \ {"starting"}
      /\ "executing" \in Busy /\ "streaming" \in Busy
      /\ turnAt[r] \in Busy /\ turnAt[r] # "starting"
  BY <1>1 DEF Busy
<1>4. CASE AppendKinds(r, <<"tool_call">>) /\ turnAt' = [turnAt EXCEPT ![r] = "executing"]
  BY <1>1, <1>2, <1>3, <1>4, RunWritesOne
<1>5. CASE AppendKinds(r, <<"tool_call", "tool_result">>)
           /\ turnAt' = [turnAt EXCEPT ![r] = "streaming"]
  <2>1. PICK ks : ks = <<"tool_call", "tool_result">>
    OBVIOUS
  <2>2. ks \in Seq(NodeKind) /\ Len(ks) = 2 /\ ks[1] = "tool_call" /\ ks[2] = "tool_result"
    BY <1>2, <2>1, Written
  <2>3. Len(ks) \in 1..2 /\ \A i \in 1..Len(ks) : ks[i] # "user_message"
    <3>1. \A i \in 1..Len(ks) : i = 1 \/ i = 2
      BY <2>2
    <3> QED BY <2>2, <3>1
  <2>4. AppendKinds(r, ks)
    BY <1>5, <2>1
  <2> QED BY <1>1, <1>3, <1>5, <2>2, <2>3, <2>4, RunWrites
<1> QED BY <1>4, <1>5 DEF CallTool

LEMMA ToolAnswered ==
  ASSUME TreeInv, NEW r \in Turn, ToolResult(r) PROVE TreeInv'
<1>1. /\ turnAt[r] = "executing" /\ runOwner = r /\ UNCHANGED <<runOwner, fork, moved>>
      /\ AppendKinds(r, <<"tool_result">>) /\ turnAt' = [turnAt EXCEPT ![r] = "streaming"]
  BY DEF ToolResult
<1>2. "tool_result" \in NodeKind \ {"user_message"}
  BY DEF NodeKind
<1>3. /\ "streaming" \in (Busy \cup Stopped \cup {"ended"}) \ {"starting"} /\ "streaming" \in Busy
      /\ turnAt[r] \in Busy /\ turnAt[r] # "starting"
  BY <1>1 DEF Busy
<1> QED BY <1>1, <1>2, <1>3, RunWritesOne

\* A run that goes on or stops without a node written.
LEMMA RunMoves ==
  ASSUME TreeInv, NEW r \in Turn, NEW p \in Busy \cup Stopped \cup {"ended"}, p # "starting",
         turnAt[r] \in Busy \cup Stopped, turnAt[r] # "starting",
         turnAt[r] \in Busy \/ runOwner = Nobody,
         turnAt' = [turnAt EXCEPT ![r] = p],
         p \in Busy => runOwner' = r, p \notin Busy => runOwner' = Nobody,
         UNCHANGED <<node, leafId, fork, moved, forkLost>>
  PROVE  TreeInv'
<1>1. /\ turnAt' \in [Turn -> Busy \cup Stopped \cup {"new", "queued", "ended"}]
      /\ turnAt'[r] = p /\ \A q \in Turn : q # r => turnAt'[q] = turnAt[q]
  BY DEF TreeInv, TreeTypes
<1>2. \A q \in Turn : q # r => turnAt[q] \notin Busy
  BY OneBusy
<1>3. \A q \in Turn : (turnAt'[q] \in Busy) <=> (runOwner' = q)
  BY <1>1, <1>2, TreeAssumption
<1>4. \A q \in Turn : ~Forking(q) /\ ~Forking(q)'
  BY <1>1, <1>2 DEF Forking, Busy
<1>5. CursorInv'
  BY <1>4 DEF TreeInv, CursorInv
<1>6. \A q \in Turn : fork'[q] # NoFork =>
        turnAt'[q] \notin {"new", "queued"} /\ (turnAt'[q] = "starting" => turnAt' = turnAt)
  <2>1. p \notin {"new", "queued"} /\ \A q \in Turn : turnAt[q] # "starting"
    BY <1>2 DEF Busy, Stopped
  <2> QED BY <1>1, <2>1 DEF TreeInv, ForkInv
<1>7. p \notin {"new", "queued", "starting"}
  BY DEF Busy, Stopped
<1> QED BY <1>1, <1>3, <1>5, <1>6, <1>7, ForksStay, NodesStay

LEMMA TurnStopped ==
  ASSUME TreeInv, NEW r \in Turn, StopTurn(r) PROVE TreeInv'
<1>1. /\ runOwner = r /\ turnAt[r] \in {"streaming", "asked"} /\ runOwner' = Nobody
      /\ turnAt' = [turnAt EXCEPT ![r] = "interrupted"]
      /\ UNCHANGED <<node, leafId, fork, moved, forkLost>>
  BY DEF StopTurn
<1>2. /\ "interrupted" \in Stopped /\ "interrupted" \notin Busy
      /\ turnAt[r] \in Busy /\ turnAt[r] # "starting"
  BY <1>1 DEF Busy, Stopped
<1> QED BY <1>1, <1>2, RunMoves

LEMMA TurnResumed ==
  ASSUME TreeInv, NEW r \in Turn, ResumeTurn(r) PROVE TreeInv'
<1>1. /\ runOwner = Nobody /\ turnAt[r] = "interrupted" /\ runOwner' = r
      /\ turnAt' = [turnAt EXCEPT ![r] = "streaming"]
      /\ UNCHANGED <<node, leafId, fork, moved, forkLost>>
  BY DEF ResumeTurn, Idle
<1>2. turnAt[r] \in Stopped /\ "streaming" \in Busy
  BY <1>1 DEF Busy, Stopped
<1> QED BY <1>1, <1>2, RunMoves

LEMMA TurnResolved ==
  ASSUME TreeInv, NEW r \in Turn, ResolveTurn(r) PROVE TreeInv'
<1>1. runOwner = Nobody /\ turnAt[r] = "uncertain" /\ UNCHANGED <<fork, moved>>
  BY DEF ResolveTurn, Idle
<1>2. /\ turnAt[r] \in Stopped /\ turnAt[r] # "starting"
      /\ "streaming" \in (Busy \cup Stopped \cup {"ended"}) \ {"starting"} /\ "streaming" \in Busy
      /\ "ended" \notin Busy
  BY <1>1 DEF Busy, Stopped
<1>3. CASE AppendKinds(r, <<"tool_result">>) /\ turnAt' = [turnAt EXCEPT ![r] = "streaming"]
           /\ runOwner' = r
  <2>1. "tool_result" \in NodeKind \ {"user_message"}
    BY DEF NodeKind
  <2> QED BY <1>1, <1>2, <1>3, <2>1, RunWritesOne
<1>4. CASE turnAt' = [turnAt EXCEPT ![r] = "ended"]
           /\ UNCHANGED <<node, leafId, runOwner, forkLost>>
  BY <1>1, <1>2, <1>4, RunMoves
<1> QED BY <1>3, <1>4 DEF ResolveTurn

LEMMA WorkerRestarted ==
  ASSUME TreeInv, RestartWorker PROVE TreeInv'
<1>1. /\ runOwner # Nobody /\ runOwner' = Nobody
      /\ UNCHANGED <<node, leafId, moved>>
      /\ forkLost' = (forkLost \/ (turnAt[runOwner] = "starting" /\ fork[runOwner] # NoFork))
      /\ fork' = [fork EXCEPT ![runOwner] = IF turnAt[runOwner] = "starting" THEN NoFork ELSE @]
  BY DEF RestartWorker
<1>2. PICK p : /\ turnAt' = [turnAt EXCEPT ![runOwner] = p]
               /\ p \in {"queued", "ended", "uncertain", "interrupted"}
               /\ p \in {"queued", "ended"} <=> turnAt[runOwner] = "starting"
  BY DEF RestartWorker
<1>3. fork' \in [Turn -> [anchor : Nat, before : Nat]]
      /\ \A q \in Turn : fork'[q] \in {fork[q], NoFork}
  BY <1>1 DEF TreeInv, TreeTypes, NoFork
<1>4. CASE runOwner \notin Turn
  <2>1. \A q \in Turn : turnAt[q] \notin Busy /\ ~Forking(q)
    BY <1>4 DEF TreeInv, OwnerInv, Forking, Busy
  <2>2. turnAt' = turnAt /\ fork' = fork
    BY <1>1, <1>2, <1>4 DEF TreeInv, TreeTypes
  <2>3. CursorInv'
    BY <1>1, <2>1, <2>2 DEF TreeInv, CursorInv, Forking
  <2>4. \A q \in Turn : (turnAt'[q] \in Busy) <=> (runOwner' = q)
    <3> SUFFICES ASSUME NEW q \in Turn PROVE turnAt'[q] \notin Busy /\ runOwner' # q
      OBVIOUS
    <3> QED BY <1>1, <2>1, <2>2, TreeAssumption
  <2>5. TreeTypes /\ ForkInv
    BY DEF TreeInv
  <2> QED BY <1>1, <1>3, <2>1, <2>2, <2>3, <2>4, <2>5, NodesStay DEF TreeTypes, ForkInv
<1>5. CASE runOwner \in Turn
  <2>1. PICK r \in Turn : r = runOwner
    BY <1>5
  <2>2. turnAt[r] \in Busy /\ \A q \in Turn : q # r => turnAt[q] \notin Busy
    BY <2>1 DEF TreeInv, OwnerInv
  <2>3. p \in Stopped \cup {"queued", "ended"} /\ p \notin Busy
        /\ (p \in Stopped => turnAt[r] # "starting") /\ (p = "queued" => turnAt[r] = "starting")
    BY <1>2, <2>1 DEF Busy, Stopped
  <2>4. /\ turnAt' \in [Turn -> Busy \cup Stopped \cup {"new", "queued", "ended"}]
        /\ turnAt'[r] = p /\ \A q \in Turn : q # r => turnAt'[q] = turnAt[q]
    BY <1>2, <2>1, <2>3 DEF TreeInv, TreeTypes
  <2>5. /\ \A q \in Turn : q # r => fork'[q] = fork[q]
        /\ turnAt[r] = "starting" => fork'[r] = NoFork
    BY <1>1, <2>1 DEF TreeInv, TreeTypes
  <2>6. \A q \in Turn : turnAt'[q] \notin Busy /\ ~Forking(q)' /\ (q # r => ~Forking(q))
    BY <2>2, <2>3, <2>4 DEF Forking, Busy
  <2>7. CursorInv'
    BY <1>1, <2>1, <2>6 DEF TreeInv, CursorInv, Forking
  <2>8. \A q \in Turn : (turnAt'[q] \in Busy) <=> (runOwner' = q)
    <3> SUFFICES ASSUME NEW q \in Turn PROVE turnAt'[q] \notin Busy /\ runOwner' # q
      OBVIOUS
    <3> QED BY <1>1, <2>6, TreeAssumption
  <2>9. \A q \in Turn : /\ turnAt'[q] \in {"new", "queued", "starting"} =>
                              turnAt[q] \in {"new", "queued", "starting"}
                        /\ turnAt'[q] \in Busy \cup Stopped => turnAt[q] \in Busy \cup Stopped
    BY <2>2, <2>3, <2>4 DEF Busy, Stopped
  <2>10. \A q \in Turn : fork'[q] # NoFork =>
           turnAt'[q] \notin {"new", "queued"} /\ turnAt'[q] # "starting"
    <3> SUFFICES ASSUME NEW q \in Turn, fork'[q] # NoFork
                 PROVE  turnAt'[q] \notin {"new", "queued", "starting"}
      OBVIOUS
    <3>1. CASE q = r
      BY <2>3, <2>4, <2>5, <3>1 DEF Busy, Stopped
    <3>2. CASE q # r
      BY <2>4, <2>5, <2>6, <3>2 DEF TreeInv, ForkInv, Busy
    <3> QED BY <3>1, <3>2
  <2> QED BY <1>1, <1>3, <2>4, <2>7, <2>8, <2>9, <2>10, NodesStay
<1> QED BY <1>4, <1>5

LEMMA BranchSelected ==
  ASSUME TreeInv, NEW t \in DOMAIN node, SelectBranch(t) PROVE TreeInv'
<1>1. /\ runOwner = Nobody /\ leafId' = NewestBelow(t)
      /\ moved' = moved \cup {r \in Turn : turnAt[r] \in {"interrupted", "uncertain"}}
      /\ UNCHANGED <<node, runOwner, turnAt, fork>>
  BY DEF SelectBranch, Idle
<1>2. Tree(node) /\ Len(node) \in Nat /\ DOMAIN node = 1..Len(node)
  BY TreeNodes DEF TreeInv, TreeTypes
<1>3. leafId' \in 0..Len(node) /\ Kids(node, leafId') = {}
  BY <1>1, <1>2, NewestIs, NewestIsLeaf
<1>4. \A q \in Turn : turnAt[q] \notin Busy /\ ~Forking(q)
  BY <1>1, NoneForking
<1>5. TreeTypes' /\ OwnerInv' /\ WrittenInv'
  BY <1>1, <1>3 DEF TreeInv, TreeTypes, OwnerInv, WrittenInv
<1>6. CursorInv'
  BY <1>1, <1>3, <1>4 DEF CursorInv, Forking
<1>7. BranchInv'
  BY <1>1, <1>4 DEF BranchInv, Stopped
<1>8. ForkInv'
  BY <1>1, <1>4 DEF TreeInv, ForkInv, Busy
<1> QED BY <1>5, <1>6, <1>7, <1>8 DEF TreeInv

LEMMA ThreadDeleted ==
  ASSUME TreeInv, DeleteThread PROVE TreeInv'
<1>1. /\ node' = <<>> /\ leafId' = 0 /\ runOwner = Nobody /\ runOwner' = Nobody
      /\ turnAt' = [r \in Turn |-> "ended"] /\ fork' = [r \in Turn |-> NoFork]
  BY DEF DeleteThread, Idle
<1>2. DOMAIN node' = {} /\ Len(node') = 0 /\ Tree(node')
  <2>1. DOMAIN node' = {} /\ Len(node') = 0
    BY <1>1, NothingIn
  <2>2. node' \in Seq([kind : NodeKind, parent : Nat, run : Turn])
    BY <1>1
  <2> QED BY <2>1, <2>2 DEF Tree
<1>3. TreeTypes'
  BY <1>1, <1>2 DEF TreeTypes, NoFork
<1>4. OwnerInv'
  BY <1>1, TreeAssumption DEF OwnerInv, Busy
<1>5. WrittenInv' /\ CursorInv'
  BY <1>1, <1>2 DEF WrittenInv, CursorInv, Kids, Forking
<1>6. BranchInv' /\ ForkInv'
  BY <1>1, <1>2 DEF BranchInv, ForkInv, Busy, Stopped
<1> QED BY <1>3, <1>4, <1>5, <1>6 DEF TreeInv

\* The branch under the cursor is the conversation that goes on: however messages are
\* forked, branches chosen, runs stopped and workers restarted (tree.ts,
\* sessionContext.ts, core.ts), an idle thread shows a whole branch, a run that owns the
\* thread has all it wrote in its history, and a forked message is a branch of the one
\* it was forked at. The trees are of any size.
THEOREM BranchesAlwaysHold == TreeSpec => []BranchesHold
<1>1. TreeInit => TreeInv
  BY TreeStarts
<1>2. TreeInv /\ [TreeNext]_treeVars => TreeInv'
  <2> SUFFICES ASSUME TreeInv, [TreeNext]_treeVars PROVE TreeInv'
    OBVIOUS
  <2>1. CASE UNCHANGED treeVars
    BY <2>1 DEF TreeInv, TreeTypes, OwnerInv, WrittenInv, CursorInv, BranchInv, ForkInv, Forking
  <2>2. CASE TreeNext
    BY <2>2, TurnStarts, TurnEnqueued, TurnForked, StartFailed, FirstNodesFailed, TurnBegun, ModelAnswered, ToolCalled,
       ToolAnswered, TurnStopped, TurnResumed, TurnResolved, WorkerRestarted, BranchSelected,
       ThreadDeleted DEF TreeNext, Id
  <2> QED BY <2>1, <2>2
<1>3. TreeInv => BranchesHold
  <2> SUFFICES ASSUME TreeInv PROVE BranchesHold
    OBVIOUS
  <2>1. WholeBranchShown
    <3> SUFFICES ASSUME runOwner = Nobody, ~forkLost PROVE Children(leafId) = {}
      BY DEF WholeBranchShown
    <3>1. Kids(node, leafId) = {}
      BY NoneForking DEF TreeInv, CursorInv
    <3> QED BY <3>1, ChildrenAre
  <2>2. HistoryHoldsRun
    <3> SUFFICES ASSUME runOwner # Nobody, runOwner \notin moved, NEW n \in DOMAIN node,
                        node[n].run = runOwner
                 PROVE  n \in PathTo(leafId)
      BY DEF HistoryHoldsRun, Id
    <3>1. PICK r \in Turn : r = node[n].run
      BY TreeNodes DEF TreeInv, TreeTypes
    <3>2. turnAt[r] \in Busy
      BY <3>1 DEF TreeInv, OwnerInv
    <3>3. n \in PathIn(node, leafId)
      BY <3>1, <3>2 DEF TreeInv, BranchInv
    <3> QED BY <3>3, PathToIs
  <2>3. ForkIsBranch
    <3> SUFFICES ASSUME NEW r \in Turn, fork[r] # NoFork, NEW u \in DOMAIN node,
                        node[u].run = r, node[u].kind = "user_message"
                 PROVE  u \in LogicalSiblings(fork[r].anchor)
      BY DEF ForkIsBranch, Id
    <3>1. VisibleAncestor(u) = VisibleAncestor(fork[r].anchor)
      BY VisibleIs DEF TreeInv, ForkInv
    <3> QED BY <3>1 DEF LogicalSiblings, Id
  <2> QED BY <2>1, <2>2, <2>3 DEF BranchesHold
<1> QED BY <1>1, <1>2, <1>3, PTL DEF TreeSpec

===============================================================================
