------------------------------- MODULE SecretVault -------------------------------
(* The credentials the extension keeps and moves with a backup                             *)
(* (src/security/secretStore.ts, src/settings/crypto.ts, src/mcp/store.ts,                 *)
(* src/data/importSettings.ts, src/data/exportImport.ts, src/data/importValidator.ts).     *)
(*                                                                                         *)
(* Each is stored in an envelope: encrypted under the profile's one key and bound to what  *)
(* it is for. The key is made by whoever needs it first. A backup holds the plain values   *)
(* under a passphrase; an import seals them again, in one context, and another context     *)
(* opens every envelope before it writes them.                                             *)
EXTENDS Naturals, FiniteSets

CONSTANTS
  Sealer,      \* the contexts and parallel saves that seal
  Value,       \* values of a credential
  Nothing,     \* no envelope, no value, no file
  MaxKeys,     \* bound: local keys ever made
  MaxSaves     \* bound: credentials saved

Credential == {"provider key", "header", "bearer", "refresh"}

VARIABLES
  bound,       \* the OAuth server's tokens are bound to a resource and an issuer
  envelope,    \* stored credentials: value, purpose and the key they were sealed with
  access,      \* the OAuth access token, in session storage only
  localKey,    \* the stored local key, 0 for none
  sealer,      \* what each sealing has got so far
  keysMade,
  backup,      \* the backup file's secrets, and the binding it was exported with
  importing,   \* the import: materialized by the page, then vetted by the worker
  restored,    \* the backup the stored credentials were last replaced by
  saves

vaultVars == <<bound, envelope, access, localKey, sealer, keysMade, backup, importing, restored,
               saves>>

(* What a credential is sealed for: a refresh token, for the resource and issuer it is     *)
(* bound to. A header's name is lowered by all who seal or open it.                        *)
PurposeOf(c, b) == IF c = "refresh" /\ b THEN <<c, "bound">> ELSE <<c, "server">>
(* refreshPurpose of src/data/importSettings.ts, and the validator's.                      *)
ForServerOnly(c, b) == <<c, "server">>
ImportPurpose(c, b) == PurposeOf(c, b)

Envelope == [value : Value, purpose : Credential \X {"bound", "server"}, key : 1..MaxKeys]
ASSUME VaultAssumption ==
  Nothing \notin Value \cup Envelope /\ MaxKeys \in Nat /\ MaxSaves \in Nat

Seal(v, p, k) == [value |-> v, purpose |-> p, key |-> k]
OpensWith(e, p, k) == e # Nothing /\ e.purpose = p /\ e.key = k

IdleSealer == [at |-> "idle", key |-> 0]
NotImporting == [at |-> "none", key |-> 0, made |-> FALSE]

VaultInit ==
  /\ bound \in BOOLEAN
  /\ envelope = [c \in Credential |-> Nothing] /\ access = Nothing /\ localKey = 0
  /\ sealer = [w \in Sealer |-> IdleSealer] /\ keysMade = 0
  /\ backup = Nothing /\ importing = NotImporting /\ restored = Nothing /\ saves = 0

(* ------------------------------ sealing ------------------------------ *)

(* localKey: the key is read, and made if there is none; making one and storing it are     *)
(* steps apart, and nothing keeps two sealings from doing both.                            *)
BeginSeal(w) ==
  /\ sealer[w].at = "idle" /\ saves < MaxSaves /\ saves' = saves + 1
  /\ \/ /\ localKey # 0 /\ sealer' = [sealer EXCEPT ![w] = [at |-> "sealing", key |-> localKey]]
        /\ UNCHANGED keysMade
     \/ /\ localKey = 0 /\ keysMade < MaxKeys /\ keysMade' = keysMade + 1
        /\ sealer' = [sealer EXCEPT ![w] = [at |-> "storing", key |-> keysMade + 1]]
  /\ UNCHANGED <<bound, envelope, access, localKey, backup, importing, restored>>

StoreKey(w) ==
  /\ sealer[w].at = "storing" /\ localKey' = sealer[w].key
  /\ sealer' = [sealer EXCEPT ![w].at = "sealing"]
  /\ UNCHANGED <<bound, envelope, access, keysMade, backup, importing, restored, saves>>

(* The envelope is stored with the setting it belongs to; with a refresh token comes an    *)
(* access token, which is kept for the browser session.                                    *)
SaveCredential(w, c, v) ==
  /\ sealer[w].at = "sealing" /\ sealer' = [sealer EXCEPT ![w] = IdleSealer]
  /\ envelope' = [envelope EXCEPT ![c] = Seal(v, PurposeOf(c, bound), sealer[w].key)]
  /\ access' = IF c = "refresh" /\ bound THEN v ELSE access
  /\ restored' = Nothing
  /\ UNCHANGED <<bound, localKey, keysMade, backup, importing, saves>>

(* ------------------------------ backups ------------------------------ *)

Readable(c) == OpensWith(envelope[c], PurposeOf(c, bound), localKey)

(* collectSecrets opens everything there is and fails on what does not open; only an       *)
(* unreadable refresh token, or one without a binding, is left out.                        *)
ExportSecrets ==
  /\ importing = NotImporting /\ backup = Nothing
  /\ \A c \in Credential \ {"refresh"} : envelope[c] = Nothing \/ Readable(c)
  /\ backup' = [secrets |-> [c \in Credential |->
                  IF Readable(c) /\ (c = "refresh" => bound)
                  THEN envelope[c].value ELSE Nothing],
                access |-> access, bound |-> bound]
  /\ UNCHANGED <<bound, envelope, access, localKey, sealer, keysMade, importing, restored,
                 saves>>

(* The browser closes, or the file goes to another profile, where nothing is stored yet.   *)
CloseBrowser ==
  /\ access # Nothing /\ access' = Nothing
  /\ importing' = NotImporting /\ sealer' = [w \in Sealer |-> IdleSealer]
  /\ UNCHANGED <<bound, envelope, localKey, keysMade, backup, restored, saves>>

NewProfile ==
  /\ backup # Nothing /\ localKey # 0 /\ localKey' = 0
  /\ envelope' = [c \in Credential |-> Nothing] /\ access' = Nothing
  /\ bound' = FALSE /\ restored' = Nothing
  /\ importing' = NotImporting /\ sealer' = [w \in Sealer |-> IdleSealer]
  /\ UNCHANGED <<keysMade, backup, saves>>

(* materializeImportSettings: the page seals the backup's values with the key there is, or *)
(* with one it makes and leaves to the worker to store.                                    *)
Materialize ==
  /\ backup # Nothing /\ importing.at = "none"
  /\ \/ /\ localKey # 0
        /\ importing' = [at |-> "materialized", key |-> localKey, made |-> FALSE]
        /\ UNCHANGED keysMade
     \/ /\ localKey = 0 /\ keysMade < MaxKeys /\ keysMade' = keysMade + 1
        /\ importing' = [at |-> "materialized", key |-> keysMade + 1, made |-> TRUE]
  /\ UNCHANGED <<bound, envelope, access, localKey, sealer, backup, restored, saves>>

AnyKey == TRUE
(* validateMaterializedSettings: a key of the page must be the stored one if there is one, *)
(* and every envelope must open with it for its purpose.                                   *)
KeyAgrees == IF importing.made THEN localKey \in {0, importing.key}
             ELSE localKey = importing.key

Vet ==
  /\ importing.at = "materialized"
  /\ importing' = IF KeyAgrees THEN [importing EXCEPT !.at = "vetted"] ELSE NotImporting
  /\ UNCHANGED <<bound, envelope, access, localKey, sealer, keysMade, backup, restored, saves>>

(* applySettings: what the backup holds replaces every credential, and the page's key the  *)
(* stored one. Access tokens are not restored.                                             *)
ApplyImport ==
  /\ importing.at = "vetted" /\ importing' = NotImporting
  /\ bound' = backup.bound
  /\ envelope' = [c \in Credential |->
       IF backup.secrets[c] = Nothing THEN Nothing
       ELSE Seal(backup.secrets[c], ImportPurpose(c, backup.bound), importing.key)]
  /\ localKey' = IF importing.made THEN importing.key ELSE localKey
  /\ access' = Nothing /\ restored' = backup
  /\ UNCHANGED <<sealer, keysMade, backup, saves>>

VaultNext ==
  \/ \E w \in Sealer : BeginSeal(w) \/ StoreKey(w)
       \/ \E c \in Credential, v \in Value : SaveCredential(w, c, v)
  \/ ExportSecrets \/ CloseBrowser \/ NewProfile \/ Materialize \/ Vet \/ ApplyImport

VaultSpec == VaultInit /\ [][VaultNext]_vaultVars

(* ------------------------------ properties ------------------------------ *)

VaultTypeOK ==
  /\ envelope \in [Credential -> Envelope \cup {Nothing}] /\ access \in Value \cup {Nothing}
  /\ localKey \in 0..MaxKeys /\ keysMade \in 0..MaxKeys /\ bound \in BOOLEAN
  /\ \A w \in Sealer : sealer[w].at \in {"idle", "storing", "sealing"}
  /\ importing.at \in {"none", "materialized", "vetted"} /\ saves \in 0..MaxSaves

(* What an import has put in place opens, until the next save, to what was exported: in    *)
(* this profile or another, whether or not the token was bound, and whatever was sealed    *)
(* between the page's sealing and the worker's writing, unless that made a key of its own. *)
ImportOpens ==
  restored # Nothing /\ (\A w \in Sealer : sealer[w].at # "storing") =>
    \A c \in Credential : restored.secrets[c] # Nothing =>
      /\ envelope[c] # Nothing /\ envelope[c].value = restored.secrets[c]
      /\ localKey = envelope[c].key => OpensWith(envelope[c], PurposeOf(c, bound), localKey)
================================================================================
