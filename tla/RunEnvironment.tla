---------------------------- MODULE RunEnvironment ----------------------------
(* What a run works with: the connection it was resolved to, the adapter built *)
(* from it, and the tools it was shown, against settings that change meanwhile *)
(* (engine/providerResolver.ts, engine/runEnvironmentSnapshot.ts, and the      *)
(* resolution in core.startTurn).  A fresh run reads the settings several      *)
(* times; what it bound is stored, and after a stop of the worker the run goes *)
(* on only if the stored binding still fits.  One connection and one tool      *)
(* stand for each, a tool for its latest version.                              *)
EXTENDS Integers, Sequences, FiniteSets

CONSTANTS EnvRun,    \* runs, of different threads
          Endpoint,  \* base URLs
          ApiKey,    \* keys
          MaxEdits   \* how often the settings and the tools are changed

ASSUME EnvironmentAssumption == MaxEdits \in Nat

VARIABLES
  conn,      \* the connection in the settings
  toolNow,   \* the version of the tool the registry offers
  adapters,  \* adapterCache: the last adapter with the connection it was made from
  env,       \* the runs
  edits,     \* the changes made
  entered,   \* ghost: the endpoints and keys the user has saved together
  since      \* ghost: the connections stored since the run began to resolve
environmentVars == <<conn, toolNow, adapters, env, edits, entered, since>>

\* One key or two: enough to replace a key, to add a slot and to take one away.
KeyLists == {<<k>> : k \in ApiKey} \cup {p \in ApiKey \X ApiKey : p[1] # p[2]}
Connections == [url : Endpoint, keys : KeyLists, state : {"on", "off", "gone"}]
Adapters == [url : Endpoint, keys : KeyLists]
Nowhere == "nowhere"
NoConnection == [url |-> Nowhere, keys |-> <<>>, state |-> "gone"]
NoAdapter == [url |-> Nowhere, keys |-> <<>>]
NoBinding == [url |-> Nowhere, slots |-> 0, tool |-> 0]
NoCache == [mark |-> NoConnection, adapter |-> NoAdapter]
AdapterOf(c) == [url |-> c.url, keys |-> c.keys]
Pairs(a) == {<<a.url, a.keys[i]>> : i \in DOMAIN a.keys}

FreshRun == [phase |-> "queued", read |-> NoConnection, adapter |-> NoAdapter, tool |-> 0,
             binding |-> NoBinding]
Bindings == [url : Endpoint, slots : 1..2, tool : Nat]

EnvironmentTypeOK ==
  /\ conn \in Connections
  /\ toolNow \in Nat /\ edits \in 0..MaxEdits
  /\ adapters \in [mark : Connections, adapter : Adapters] \cup {NoCache}
  /\ env \in [EnvRun ->
       [phase : {"queued", "reading", "chosen", "running", "stopped", "resuming", "failed"},
        read : Connections \cup {NoConnection}, adapter : Adapters \cup {NoAdapter}, tool : Nat,
        binding : Bindings \cup {NoBinding}]]
  /\ entered \subseteq Endpoint \X ApiKey
  /\ since \in [EnvRun -> SUBSET Connections]

EnvironmentInit ==
  /\ conn \in {c \in Connections : c.state = "on" /\ Len(c.keys) = 1}
  /\ toolNow = 1 /\ edits = 0
  /\ adapters = NoCache
  /\ env = [r \in EnvRun |-> FreshRun]
  /\ entered = Pairs(AdapterOf(conn))
  /\ since = [r \in EnvRun |-> {}]

(****************************************************************************)
(* The settings pages and the tools' servers.                                 *)
(****************************************************************************)
\* connections.upsert and remove write the connection whole.
SaveConnection(c) ==
  /\ edits < MaxEdits /\ c # conn
  /\ edits' = edits + 1
  /\ conn' = c
  /\ entered' = entered \cup Pairs(AdapterOf(c))
  /\ since' = [r \in EnvRun |->
                 IF env[r].phase \in {"reading", "chosen"} THEN since[r] \cup {c} ELSE since[r]]
  /\ UNCHANGED <<toolNow, adapters, env>>

ChangeTool ==
  /\ edits < MaxEdits
  /\ edits' = edits + 1
  /\ toolNow' = toolNow + 1
  /\ UNCHANGED <<conn, adapters, env, entered, since>>

(****************************************************************************)
(* A fresh run.                                                               *)
(****************************************************************************)
FailRun(r) == env' = [env EXCEPT ![r] = [FreshRun EXCEPT !.phase = "failed"]]

\* adapterFor reads the connections and decrypts the keys it found.
ReadConnection(r) ==
  /\ env[r].phase = "queued"
  /\ IF conn.state = "on"
     THEN /\ env' = [env EXCEPT ![r].phase = "reading", ![r].read = conn]
          /\ since' = [since EXCEPT ![r] = {conn}]
     ELSE FailRun(r) /\ UNCHANGED since
  /\ UNCHANGED <<conn, toolNow, adapters, edits, entered>>

\* Its adapter is the cached one if that was made from the same connection.
Cached(c) == adapters # NoCache /\ adapters.mark = c
MutAnyCached(c) == adapters # NoCache
UsesCache(c) == Cached(c)

BuildAdapter(r) ==
  /\ env[r].phase = "reading"
  /\ IF UsesCache(env[r].read)
     THEN /\ env' = [env EXCEPT ![r].phase = "chosen", ![r].read = NoConnection,
                                ![r].adapter = adapters.adapter]
          /\ UNCHANGED adapters
     ELSE /\ env' = [env EXCEPT ![r].phase = "chosen", ![r].read = NoConnection,
                                ![r].adapter = AdapterOf(env[r].read)]
          /\ adapters' = [mark |-> env[r].read, adapter |-> AdapterOf(env[r].read)]
  /\ UNCHANGED <<conn, toolNow, edits, entered, since>>

\* captureEnvironmentBinding reads the connections again; the snapshot is stored with
\* the tools the run is given, and the run starts.
CaptureBinding(r) ==
  /\ env[r].phase = "chosen"
  /\ IF conn.state = "gone" THEN FailRun(r)
     ELSE env' = [env EXCEPT ![r].phase = "running", ![r].tool = toolNow,
                    ![r].binding = [url |-> conn.url, slots |-> Len(conn.keys),
                                    tool |-> toolNow]]
  /\ since' = [since EXCEPT ![r] = {}]
  /\ UNCHANGED <<conn, toolNow, adapters, edits, entered>>

(****************************************************************************)
(* A stop of the worker, and a run that is taken up again.                    *)
(****************************************************************************)
StopEnvironments ==
  /\ \E r \in EnvRun : env[r].phase \notin {"queued", "failed", "stopped"}
  /\ adapters' = NoCache
  /\ env' = [r \in EnvRun |->
               CASE env[r].phase \in {"reading", "chosen"} -> FreshRun
                 [] env[r].phase \in {"running", "resuming"} ->
                      [FreshRun EXCEPT !.phase = "stopped", !.binding = env[r].binding]
                 [] OTHER -> env[r]]
  /\ since' = [r \in EnvRun |-> {}]
  /\ UNCHANGED <<conn, toolNow, edits, entered>>

\* assertEnvironmentBindingUnchanged: the endpoint and the slots of the credentials.
Unchanged(c, b) == c.url = b.url /\ Len(c.keys) = b.slots
BindingHolds(c, b) == Unchanged(c, b)

\* bindToolRegistry: the live tool has the digest of the one in the snapshot.
SameDigest(b) == toolNow = b.tool
ToolBinds(b) == SameDigest(b)

\* resolveFromEnvironmentBinding reads the connection, compares it with the binding
\* and decrypts the keys at its slots.
Resume(r) ==
  /\ env[r].phase = "stopped"
  /\ IF conn.state = "on" /\ BindingHolds(conn, env[r].binding)
     THEN env' = [env EXCEPT ![r].phase = "resuming", ![r].read = conn]
     ELSE FailRun(r)
  /\ UNCHANGED <<conn, toolNow, adapters, edits, entered, since>>

FinishResume(r) ==
  /\ env[r].phase = "resuming"
  /\ IF ToolBinds(env[r].binding)
     THEN env' = [env EXCEPT ![r].phase = "running", ![r].read = NoConnection,
                    ![r].adapter = [url |-> env[r].binding.url, keys |-> env[r].read.keys],
                    ![r].tool = toolNow]
     ELSE FailRun(r)
  /\ UNCHANGED <<conn, toolNow, adapters, edits, entered, since>>

EnvironmentNext ==
  \/ \E c \in Connections : SaveConnection(c)
  \/ ChangeTool
  \/ \E r \in EnvRun :
       ReadConnection(r) \/ BuildAdapter(r) \/ CaptureBinding(r) \/ Resume(r) \/ FinishResume(r)
  \/ StopEnvironments

EnvironmentSpec == EnvironmentInit /\ [][EnvironmentNext]_environmentVars

(****************************************************************************)
(* Properties.                                                                *)
(****************************************************************************)
\* A key is sent only to an endpoint the user saved it for, whatever was edited while
\* the run was away (providerResolver.ts: assertEnvironmentBindingUnchanged).
KeySentWhereEntered ==
  \A r \in EnvRun : env[r].phase = "running" => Pairs(env[r].adapter) \subseteq entered

\* A fresh run's adapter is a connection that was in the settings while the run was
\* being resolved, never an older one from the cache (adapterFor's fingerprint).
AdapterIsFresh ==
  \A r \in EnvRun : env[r].phase = "chosen" => \E c \in since[r] : env[r].adapter = AdapterOf(c)

\* A run executes the tool as it was described to the model, before a stop and after
\* it (runEnvironmentSnapshot.ts: bindToolRegistry).
ToolsAsBound ==
  \A r \in EnvRun : env[r].phase = "running" => env[r].tool = env[r].binding.tool
\* A run uses the connection and the tools it was resolved with, and no newer or older
\* ones.
RunsAsResolved == KeySentWhereEntered /\ AdapterIsFresh /\ ToolsAsBound
=============================================================================
