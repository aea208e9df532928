--------------------------- MODULE CredentialVault ---------------------------
(***************************************************************************)
(* security/credentials-vault.ts: credentials in one encrypted file, and   *)
(* its key in another.  setCredential, deleteCredential and getCredential  *)
(* are called by chats, tools and the dashboard without a lock: each reads *)
(* the vault, then the key, and the first two write the vault back.  The   *)
(* key is created by whoever finds neither file.                           *)
(***************************************************************************)
EXTENDS Naturals, Sequences, FiniteSets

CONSTANTS
    Services,
    Absent,       \* the credential that is not there
    MaxCalls,     \* bound on calls of the vault
    MaxBusy,      \* bound on calls under way at once
    MaxCrashes    \* bound on deaths of the process

ASSUME VaultAssumption == MaxCalls \in Nat /\ MaxBusy \in Nat /\ MaxCrashes \in Nat

VARIABLES
    key,       \* the key file: [is, by], by the call that created the key
    vault,     \* the vault file: [is, key, records]; records is service -> credential
    call,      \* the calls so far: [at, kind, service, credential, ...]
    crashes,
    \* History.
    raced,     \* two calls were under way at once, or a crash cut the file short
    saved      \* service -> what was last reported as saved, or Absent; kept
               \* until calls overlap

files == <<key, vault>>
vaultVars == <<key, vault, call, crashes, saved, raced>>

NoKey == [is |-> "missing", by |-> 0]
NoRecords == [s \in Services |-> Absent]
Sealed(k, records) == [is |-> "sealed", key |-> k, records |-> records]
Unsealed(is) == [is |-> is, key |-> NoKey, records |-> NoRecords]
Missing == Unsealed("missing")
Truncated == Unsealed("truncated")
Damaged == Unsealed("damaged")

VaultInit ==
    /\ key = NoKey /\ vault = Missing
    /\ call = <<>>
    /\ crashes = 0
    /\ saved = NoRecords
    /\ raced = FALSE

Calls == DOMAIN call
Busy(c) == call[c].at # "over"

\* Calls that have the vault open for writing.
Writers == {c \in Calls : call[c].at \in {"open", "contended"}}

Over(c, outcome, found) ==
    call' = [call EXCEPT ![c] = [at |-> "over", outcome |-> outcome, found |-> found]]

Reject(c) == Over(c, "error", Absent)

\* setCredential, deleteCredential or getCredential is called.
Call(kind, service, credential) ==
    /\ Len(call) < MaxCalls /\ Cardinality({c \in Calls : Busy(c)}) < MaxBusy
    /\ call' = Append(call, [at |-> "called", kind |-> kind, service |-> service,
                             credential |-> credential])
    /\ raced' = (raced \/ \E c \in Calls : Busy(c))
    /\ saved' = IF raced' THEN NoRecords ELSE saved
    /\ UNCHANGED <<files, crashes>>

-----------------------------------------------------------------------------
(* readVaultStore.                                                         *)

ReadVault(c) ==
    /\ call[c].at = "called"
    /\ call' = [call EXCEPT ![c] = [at |-> "vault_read", kind |-> @.kind, service |-> @.service,
                                    credential |-> @.credential, payload |-> vault]]
    /\ UNCHANGED <<files, crashes, saved, raced>>

\* A missing or empty file is an empty store; another one must parse and be
\* sealed with the key.
CanDecrypt(payload, k) ==
    \/ payload.is \in {"missing", "truncated"}
    \/ payload.is = "sealed" /\ payload.key = k

Modified(c, k, records) ==
    call' = [call EXCEPT ![c] = [at |-> "modified", kind |-> @.kind, service |-> @.service,
                                 credential |-> @.credential, key |-> k, records |-> records]]

\* Mutant: the record replaces the whole store.
ProceedAlone(c, k, records) ==
    /\ call[c].kind = "set"
    /\ Modified(c, k, [NoRecords EXCEPT ![call[c].service] = call[c].credential])

\* setCredential adds its record, deleteCredential removes one that is there,
\* getCredential returns.
Proceed(c, k, records) ==
    LET s == call[c].service IN
    \/ /\ call[c].kind = "set"
       /\ Modified(c, k, [records EXCEPT ![s] = call[c].credential])
    \/ /\ call[c].kind = "delete" /\ records[s] # Absent
       /\ Modified(c, k, [records EXCEPT ![s] = Absent])
    \/ /\ call[c].kind = "get" \/ (call[c].kind = "delete" /\ records[s] = Absent)
       /\ Over(c, "done", records[s])

\* readOrCreateVaultKey finds a key: the vault is decrypted with it.
ReadKey(c) ==
    /\ call[c].at = "vault_read" /\ key.is = "key"
    /\ \/ CanDecrypt(call[c].payload, key) /\ Proceed(c, key, call[c].payload.records)
       \/ ~ CanDecrypt(call[c].payload, key) /\ Reject(c)
    /\ UNCHANGED <<files, crashes, saved, raced>>

\* It finds none.  Without a vault file a key is created, else the call fails.
MissKey(c) ==
    /\ call[c].at = "vault_read" /\ key.is # "key"
    /\ \/ call[c].payload.is # "missing" /\ Reject(c)
       \/ call[c].payload.is = "missing" /\ call' = [call EXCEPT ![c].at = "creating"]
    /\ UNCHANGED <<files, crashes, saved, raced>>

OpenKey(c) ==
    /\ call[c].at = "creating"
    /\ call' = [call EXCEPT ![c].at = "key_open"]
    /\ key' = [is |-> "truncated", by |-> 0]
    /\ UNCHANGED <<vault, crashes, saved, raced>>

\* Keys have one length: the later of two writers simply wins.
WriteKey(c) ==
    /\ call[c].at = "key_open"
    /\ key' = [is |-> "key", by |-> c]
    /\ Proceed(c, key', NoRecords)
    /\ UNCHANGED <<vault, crashes, saved, raced>>

-----------------------------------------------------------------------------
(* writeVaultStore.                                                        *)

OpenVault(c) ==
    /\ call[c].at = "modified"
    /\ call' = [d \in Calls |->
                   IF d = c /\ Writers = {} THEN [call[d] EXCEPT !.at = "open"]
                   ELSE IF d = c \/ d \in Writers THEN [call[d] EXCEPT !.at = "contended"]
                   ELSE call[d]]
    /\ vault' = Truncated
    /\ UNCHANGED <<key, crashes, saved, raced>>

\* The envelope is written and success is reported; two writers may leave a
\* mixture.
WriteVault(c) ==
    /\ c \in Writers
    /\ \/ vault' = Sealed(call[c].key, call[c].records)
       \/ call[c].at = "contended" /\ vault' = Damaged
    /\ Over(c, "done", Absent)
    /\ saved' = IF raced THEN saved
                ELSE [saved EXCEPT ![call[c].service] =
                         IF call[c].kind = "set" THEN call[c].credential ELSE Absent]
    /\ UNCHANGED <<key, crashes, raced>>

VaultStep ==
    \E c \in Calls :
       \/ ReadVault(c) \/ ReadKey(c) \/ MissKey(c) \/ OpenKey(c) \/ WriteKey(c)
       \/ OpenVault(c) \/ WriteVault(c)

\* The process dies during a call; files stay as they are.
Die ==
    /\ crashes < MaxCrashes
    /\ \E c \in Calls : Busy(c)
    /\ crashes' = crashes + 1
    /\ raced' = (raced \/ Writers # {})
    /\ saved' = IF raced' THEN NoRecords ELSE saved
    /\ call' = [c \in Calls |->
                   IF Busy(c) THEN [at |-> "over", outcome |-> "error", found |-> Absent]
                   ELSE call[c]]
    /\ UNCHANGED files

\* If calls follow one another and no crash interrupts the writing of the vault,
\* the vault opens and holds exactly what was reported as saved, also when the
\* process died while it created the key.
SerialVaultIsExact ==
    (~ raced /\ \A c \in Calls : ~ Busy(c)) =>
        CanDecrypt(vault, key) /\ vault.records = saved
=============================================================================
