---------------------------- MODULE ChannelProofs ----------------------------
(***************************************************************************)
(* What the dialogues of a chat and the vault page store, for any number   *)
(* of sessions, services, dialogues, overlapping calls of the vault and    *)
(* crashes; and who gets through to the agent from Telegram, and that no   *)
(* update is lost or handled twice, for any number of users, updates,      *)
(* failures and approvals.                                                 *)
(***************************************************************************)
EXTENDS SetupFlow, TelegramBridge, TLAPS

\* A credential typed for service t, when the dialogues so far are about `about`.
TypedFor(about, t, r) ==
    /\ \A f \in {r.secret, r.identifier} : f = Dashboard \/ (f \in 1..Len(about) /\ about[f] = t)
    /\ r.secret \in {r.identifier, Dashboard}

AllTyped(about, records) ==
    /\ DOMAIN records = Services
    /\ \A t \in Services : records[t] = Absent \/ TypedFor(about, t, records[t])

\* A call of the vault carries only such credentials: in its arguments until it
\* has read the vault and the key, in the store it has read, and in the one it
\* is about to write.
Reading == {"called", "vault_read", "creating", "key_open"}
Writing == {"modified", "open", "contended"}
CarriesTyped(about, k) ==
    /\ "at" \in DOMAIN k
    /\ k.at \in Reading =>
          /\ {"kind", "service", "credential"} \subseteq DOMAIN k
          /\ k.service \in Services
          /\ k.kind = "set" => TypedFor(about, k.service, k.credential)
    /\ k.at \in {"vault_read", "creating"} =>
          "payload" \in DOMAIN k /\ AllTyped(about, k.payload.records)
    /\ k.at \in Writing => "records" \in DOMAIN k /\ AllTyped(about, k.records)

\* A look-up of the page returns what is stored for the service it is about.
LooksUp(about, t, k) ==
    /\ k.at \in Reading => k.service = t /\ k.kind = "get"
    /\ k.at \notin Writing
    /\ k.at = "over" => k.found = Absent \/ TypedFor(about, t, k.found)

FlowsOK == service \in Seq(Services) /\ Len(service) <= MaxFlows
PendingOK ==
    /\ DOMAIN pending = Sessions
    /\ \A s \in Sessions :
          /\ {"flow", "step", "identifier"} \subseteq DOMAIN pending[s]
          /\ pending[s] = NoFlow \/ pending[s].flow \in 1..Len(service)
          /\ pending[s].identifier \in {None, pending[s].flow}
CallsOK ==
    /\ \E S : call \in Seq(S)
    /\ \A c \in Calls : CarriesTyped(service, call[c])
EditingOK ==
    \A w \in editing : /\ w.call \in Calls /\ w.service \in Services
                        /\ LooksUp(service, w.service, call[w.call])
VaultOK == AllTyped(service, vault.records)

StoreInv == FlowsOK /\ PendingOK /\ CallsOK /\ EditingOK /\ VaultOK

\* The dialogues so far keep their services when another one begins.
LEMMA Grows ==
    ASSUME NEW about \in Seq(Services), NEW x \in Services
    PROVE  /\ \A t, r : TypedFor(about, t, r) => TypedFor(Append(about, x), t, r)
           /\ \A records : AllTyped(about, records) => AllTyped(Append(about, x), records)
           /\ \A k : CarriesTyped(about, k) => CarriesTyped(Append(about, x), k)
           /\ \A t, k : LooksUp(about, t, k) => LooksUp(Append(about, x), t, k)
  <1>1. \A t, r : TypedFor(about, t, r) => TypedFor(Append(about, x), t, r)
    <2>1. \A f \in 1..Len(about) : f \in 1..Len(Append(about, x)) /\ Append(about, x)[f] = about[f]
      OBVIOUS
    <2> QED
      BY <2>1, Zenon DEF TypedFor
  <1>2. \A records : AllTyped(about, records) => AllTyped(Append(about, x), records)
    BY <1>1, Zenon DEF AllTyped
  <1>3. \A k : CarriesTyped(about, k) => CarriesTyped(Append(about, x), k)
    BY <1>1, <1>2, Zenon DEF CarriesTyped
  <1>4. \A t, k : LooksUp(about, t, k) => LooksUp(Append(about, x), t, k)
    BY <1>1, Zenon DEF LooksUp
  <1> QED
    BY <1>1, <1>2, <1>3, <1>4, Zenon

LEMMA NothingTyped == \A about : AllTyped(about, NoRecords)
  BY Zenon DEF AllTyped, NoRecords

-----------------------------------------------------------------------------
(* The vault.                                                              *)

\* A new call leaves the others as they are.
LEMMA NewCall ==
    ASSUME CallsOK, NEW kind, NEW t \in Services, NEW r, Call(kind, t, r)
    PROVE  /\ \E S : call' \in Seq(S)
           /\ Calls' = Calls \cup {NextCall} /\ NextCall \notin Calls
           /\ \A c \in Calls : call'[c] = call[c]
           /\ call'[NextCall] = [at |-> "called", kind |-> kind, service |-> t, credential |-> r]
           /\ UNCHANGED vault
  <1>1. PICK S : call \in Seq(S)
    BY Zenon DEF CallsOK
  <1> DEFINE new == [at |-> "called", kind |-> kind, service |-> t, credential |-> r]
  <1>2. call' = Append(call, new)
    BY Zenon DEF Call
  <1>3. call \in Seq(S \cup {new})
    BY <1>1
  <1>4. call' \in Seq(S \cup {new})
    BY <1>2, <1>3
  <1>5. Calls' = 1..Len(call) + 1 /\ Calls = 1..Len(call) /\ Len(call) \in Nat
    BY <1>2, <1>3, <1>4 DEF Calls
  <1>6. (\A c \in Calls : call'[c] = call[c]) /\ call'[NextCall] = new
    BY <1>2, <1>3, <1>5 DEF NextCall
  <1>7. UNCHANGED vault
    BY Zenon DEF Call, files
  <1> QED
    BY <1>4, <1>5, <1>6, <1>7 DEF NextCall

\* It carries what it was called with.
LEMMA CallKeeps ==
    ASSUME CallsOK, EditingOK, VaultOK, UNCHANGED service,
           NEW kind, NEW t \in Services, NEW r, Call(kind, t, r),
           kind = "set" => TypedFor(service, t, r)
    PROVE  /\ CallsOK' /\ VaultOK'
           /\ editing' \subseteq editing => EditingOK'
           /\ kind = "get" /\ editing' = editing \cup {[service |-> t, call |-> NextCall]}
                 => EditingOK'
  <1> DEFINE new == [at |-> "called", kind |-> kind, service |-> t, credential |-> r]
  <1>1. CarriesTyped(service, new)
    BY Zenon DEF CarriesTyped, Reading, Writing
  <1>2. CallsOK'
    BY <1>1, NewCall DEF CallsOK
  <1>3. VaultOK'
    BY NewCall, Zenon DEF VaultOK
  <1>4. \A w \in editing : /\ w.call \in Calls' /\ w.service \in Services
                           /\ LooksUp(service', w.service, call'[w.call])
    BY NewCall, Zenon DEF EditingOK
  <1>5. ASSUME kind = "get" PROVE LooksUp(service', t, call'[NextCall])
    <2>1. call'[NextCall] = new
      BY NewCall, ZenonT(60)
    <2>2. new.at = "called" /\ new.service = t /\ new.kind = "get"
      BY <1>5, Zenon
    <2> HIDE DEF new
    <2> QED
      BY <2>1, <2>2, Zenon DEF LooksUp, Writing
  <1>6. NextCall \in Calls'
    BY NewCall, Zenon
  <1>7. ASSUME editing' \subseteq editing PROVE EditingOK'
    <2> SUFFICES ASSUME NEW w \in editing'
                 PROVE  /\ w.call \in Calls' /\ w.service \in Services
                        /\ LooksUp(service', w.service, call'[w.call])
      BY Zenon DEF EditingOK
    <2> QED
      BY <1>4, <1>7, Zenon
  <1>8. ASSUME kind = "get", editing' = editing \cup {[service |-> t, call |-> NextCall]}
        PROVE  EditingOK'
    <2> SUFFICES ASSUME NEW w \in editing'
                 PROVE  /\ w.call \in Calls' /\ w.service \in Services
                        /\ LooksUp(service', w.service, call'[w.call])
      BY Zenon DEF EditingOK
    <2>1. CASE w \in editing
      BY <2>1, <1>4, Zenon
    <2>2. CASE w = [service |-> t, call |-> NextCall]
      BY <2>2, <1>5, <1>6, <1>8, Zenon
    <2> QED
      BY <1>8, <2>1, <2>2, Zenon
  <1> QED
    BY <1>2, <1>3, <1>7, <1>8, Zenon

\* Every step keeps what the calls carry.
LEMMA StepsKeep ==
    ASSUME CallsOK, EditingOK, UNCHANGED <<service, editing>>, NEW f,
           call' = [c \in Calls |-> f[c]],
           \A c \in Calls : CarriesTyped(service, f[c]),
           \A c \in Calls, t \in Services :
              LooksUp(service, t, call[c]) => LooksUp(service, t, f[c])
    PROVE  CallsOK' /\ EditingOK'
  <1>1. PICK S : call \in Seq(S)
    BY Zenon DEF CallsOK
  <1>2. Calls = 1..Len(call) /\ Len(call) \in Nat
    BY <1>1 DEF Calls
  <1>3. call' \in Seq({f[c] : c \in Calls})
    BY <1>2
  <1>4. Calls' = Calls /\ \A c \in Calls : call'[c] = f[c]
    BY Zenon DEF Calls
  <1>5. CallsOK'
    BY <1>3, <1>4, Zenon DEF CallsOK
  <1>6. EditingOK'
    <2> SUFFICES ASSUME NEW w \in editing
                 PROVE  /\ w.call \in Calls' /\ w.service \in Services
                        /\ LooksUp(service, w.service, call'[w.call])
      BY Zenon DEF EditingOK
    <2>1. w.call \in Calls /\ w.service \in Services /\ LooksUp(service, w.service, call[w.call])
      BY Zenon DEF EditingOK
    <2> QED
      BY <2>1, <1>4, Zenon
  <1> QED
    BY <1>5, <1>6, Zenon

\* A step of one call.
LEMMA StepKeeps ==
    ASSUME CallsOK, EditingOK, UNCHANGED <<service, editing>>, NEW c \in Calls,
           NEW k, call' = [call EXCEPT ![c] = k],
           CarriesTyped(service, k),
           \A t \in Services : LooksUp(service, t, call[c]) => LooksUp(service, t, k)
    PROVE  CallsOK' /\ EditingOK'
  <1> DEFINE f == [d \in Calls |-> IF d = c THEN k ELSE call[d]]
  <1>1. PICK S : call \in Seq(S)
    BY Zenon DEF CallsOK
  <1>2. call' = [d \in Calls |-> f[d]]
    BY <1>1, Zenon DEF Calls
  <1>3. \A d \in Calls : CarriesTyped(service, f[d])
    BY Zenon DEF CallsOK
  <1>4. \A d \in Calls, t \in Services : LooksUp(service, t, call[d]) => LooksUp(service, t, f[d])
    BY Zenon
  <1> HIDE DEF f
  <1> QED
    BY <1>2, <1>3, <1>4, StepsKeep, Zenon

\* Proceed turns the arguments of a call and the store it read into the store it
\* will write, or into its result.
LEMMA ProceedKeeps ==
    ASSUME CallsOK, EditingOK, UNCHANGED <<service, editing>>, NEW c \in Calls,
           call[c].at \in Reading, NEW key0, NEW records, AllTyped(service, records),
           Proceed(c, key0, records)
    PROVE  CallsOK' /\ EditingOK'
  <1> DEFINE s == call[c].service
  <1>0. /\ s \in Services
        /\ call[c].kind = "set" => TypedFor(service, s, call[c].credential)
    BY Zenon DEF CallsOK, CarriesTyped
  <1>1. ASSUME NEW r, r = Absent \/ TypedFor(service, s, r), call[c].kind # "get",
               Modified(c, key0, [records EXCEPT ![s] = r])
        PROVE  CallsOK' /\ EditingOK'
    <2> DEFINE k == [at |-> "modified", kind |-> call[c].kind, service |-> s,
                     credential |-> call[c].credential, key |-> key0,
                     records |-> [records EXCEPT ![s] = r]]
    <2>1. AllTyped(service, [records EXCEPT ![s] = r])
      BY <1>0, <1>1, Zenon DEF AllTyped
    <2>2. CarriesTyped(service, k)
      BY <2>1, Zenon DEF CarriesTyped, Reading, Writing
    <2>3. \A t \in Services : ~ LooksUp(service, t, call[c])
      BY <1>1, Zenon DEF LooksUp
    <2>4. call' = [call EXCEPT ![c] = k]
      BY <1>1, Zenon DEF Modified
    <2> HIDE DEF k
    <2> QED
      BY <2>2, <2>3, <2>4, StepKeeps, Zenon
  <1>2. ASSUME Over(c, "done", records[s])
        PROVE  CallsOK' /\ EditingOK'
    <2> DEFINE k == [at |-> "over", outcome |-> "done", found |-> records[s]]
    <2>1. CarriesTyped(service, k)
      BY Zenon DEF CarriesTyped, Reading, Writing
    <2>2. \A t \in Services : LooksUp(service, t, call[c]) => LooksUp(service, t, k)
      BY <1>0, Zenon DEF LooksUp, AllTyped, Reading, Writing
    <2>3. call' = [call EXCEPT ![c] = k]
      BY <1>2, Zenon DEF Over
    <2> HIDE DEF k
    <2> QED
      BY <2>1, <2>2, <2>3, StepKeeps, Zenon
  <1> QED
    BY <1>0, <1>1, <1>2, Zenon DEF Proceed

\* So do the file operations of a call: the vault holds what some call carried.
LEMMA VaultStepKeeps ==
    ASSUME CallsOK, EditingOK, VaultOK, UNCHANGED <<service, editing>>, VaultStep
    PROVE  CallsOK' /\ EditingOK' /\ VaultOK'
  <1> PICK c \in Calls : \/ ReadVault(c) \/ ReadKey(c) \/ MissKey(c) \/ OpenKey(c) \/ WriteKey(c)
                         \/ OpenVault(c) \/ WriteVault(c)
    BY Zenon DEF VaultStep
  <1>0. CarriesTyped(service, call[c])
    BY Zenon DEF CallsOK
  <1>a. ASSUME Reject(c) PROVE CallsOK' /\ EditingOK'
    <2> DEFINE k == [at |-> "over", outcome |-> "error", found |-> Absent]
    <2>1. CarriesTyped(service, k) /\ \A t \in Services : LooksUp(service, t, k)
      BY Zenon DEF CarriesTyped, LooksUp, Reading, Writing
    <2>2. call' = [call EXCEPT ![c] = k]
      BY <1>a, Zenon DEF Reject, Over
    <2> HIDE DEF k
    <2> QED
      BY <2>1, <2>2, StepKeeps, Zenon
  <1>b. ASSUME NEW at \in Reading, call[c].at \in Reading, at \notin {"called", "vault_read"},
               at = "creating" => call[c].at = "vault_read",
               call' = [call EXCEPT ![c].at = at]
        PROVE  CallsOK' /\ EditingOK'
    <2> DEFINE k == [call[c] EXCEPT !.at = at]
    <2>1. CarriesTyped(service, k)
      BY <1>0, <1>b, Zenon DEF CarriesTyped, Reading, Writing
    <2>2. \A t \in Services : LooksUp(service, t, call[c]) => LooksUp(service, t, k)
      BY <1>0, <1>b, Zenon DEF CarriesTyped, LooksUp, Reading, Writing
    <2>3. call' = [call EXCEPT ![c] = k]
      BY <1>b, Zenon
    <2> HIDE DEF k
    <2> QED
      BY <2>1, <2>2, <2>3, StepKeeps, Zenon
  <1>1. CASE ReadVault(c)
    <2> DEFINE k == [at |-> "vault_read", kind |-> call[c].kind, service |-> call[c].service,
                     credential |-> call[c].credential, payload |-> vault]
    <2>1. CarriesTyped(service, k)
      BY <1>0, <1>1, Zenon DEF ReadVault, CarriesTyped, Reading, Writing, VaultOK
    <2>2. \A t \in Services : LooksUp(service, t, call[c]) => LooksUp(service, t, k)
      BY <1>1, Zenon DEF ReadVault, LooksUp, Reading, Writing
    <2>3. call' = [call EXCEPT ![c] = k] /\ UNCHANGED vault
      BY <1>1, Zenon DEF ReadVault, files
    <2> HIDE DEF k
    <2> QED
      BY <2>1, <2>2, <2>3, StepKeeps, Zenon DEF VaultOK
  <1>2. CASE ReadKey(c)
    <2>1. UNCHANGED vault /\ call[c].at \in Reading /\ AllTyped(service, call[c].payload.records)
      BY <1>0, <1>2, Zenon DEF ReadKey, files, Reading, CarriesTyped
    <2>2. CASE Reject(c)
      BY <2>1, <2>2, <1>a, Zenon DEF VaultOK
    <2>3. CASE Proceed(c, key, call[c].payload.records)
      BY <2>1, <2>3, ProceedKeeps, Zenon DEF VaultOK
    <2> QED
      BY <1>2, <2>2, <2>3, Zenon DEF ReadKey
  <1>3. CASE MissKey(c)
    <2>1. UNCHANGED vault /\ call[c].at = "vault_read"
      BY <1>3, Zenon DEF MissKey, files
    <2>2. CASE Reject(c)
      BY <2>1, <2>2, <1>a, Zenon DEF VaultOK
    <2>3. CASE call' = [call EXCEPT ![c].at = "creating"]
      BY <2>1, <2>3, <1>b, Zenon DEF VaultOK, Reading
    <2> QED
      BY <1>3, <2>2, <2>3, Zenon DEF MissKey
  <1>4. CASE OpenKey(c)
    BY <1>4, <1>b, Zenon DEF OpenKey, VaultOK, Reading
  <1>5. CASE WriteKey(c)
    BY <1>5, ProceedKeeps, NothingTyped, Zenon DEF WriteKey, VaultOK, Reading
  <1>6. CASE OpenVault(c)
    <2> DEFINE f == [d \in Calls |->
                       IF d = c /\ Writers = {} THEN [call[d] EXCEPT !.at = "open"]
                       ELSE IF d = c \/ d \in Writers THEN [call[d] EXCEPT !.at = "contended"]
                       ELSE call[d]]
    <2>1. \A d \in Calls : CarriesTyped(service, f[d])
      BY <1>6, ZenonT(60) DEF OpenVault, Writers, CallsOK, CarriesTyped, Reading, Writing
    <2>2. \A d \in Calls, t \in Services : LooksUp(service, t, call[d]) => LooksUp(service, t, f[d])
      BY <1>6, ZenonT(60) DEF OpenVault, Writers, LooksUp, Writing
    <2>3. call' = [d \in Calls |-> f[d]] /\ vault' = Truncated
      BY <1>6, Zenon DEF OpenVault
    <2>4. VaultOK'
      BY <2>3, NothingTyped, Zenon DEF VaultOK, Truncated, Unsealed
    <2> HIDE DEF f
    <2> QED
      BY <2>1, <2>2, <2>3, <2>4, StepsKeep, Zenon
  <1>7. CASE WriteVault(c)
    <2>1. call[c].at \in Writing /\ AllTyped(service, call[c].records)
      BY <1>0, <1>7, Zenon DEF WriteVault, Writers, Writing, CarriesTyped
    <2>2. VaultOK'
      BY <1>7, <2>1, NothingTyped DEF WriteVault, VaultOK, Sealed, Damaged, Unsealed
    <2> DEFINE k == [at |-> "over", outcome |-> "done", found |-> Absent]
    <2>3. CarriesTyped(service, k) /\ \A t \in Services : LooksUp(service, t, k)
      BY Zenon DEF CarriesTyped, LooksUp, Reading, Writing
    <2>4. call' = [call EXCEPT ![c] = k]
      BY <1>7, Zenon DEF WriteVault, Over
    <2> HIDE DEF k
    <2> QED
      BY <2>2, <2>3, <2>4, StepKeeps, Zenon
  <1> QED
    BY <1>1, <1>2, <1>3, <1>4, <1>5, <1>6, <1>7, Zenon

-----------------------------------------------------------------------------
(* The dialogues.                                                          *)

LEMMA StoreStarts == FlowInit => StoreInv
  <1> SUFFICES ASSUME FlowInit PROVE StoreInv
    BY Zenon
  <1>1. FlowsOK /\ PendingOK /\ EditingOK
    BY SetupAssumption DEF FlowInit, FlowsOK, PendingOK, EditingOK, NoFlow
  <1>2. CallsOK
    <2>1. call = <<>>
      BY Zenon DEF FlowInit, VaultInit
    <2>2. call \in Seq({})
      BY <2>1
    <2> QED
      BY <2>1, <2>2 DEF CallsOK, Calls
  <1>3. VaultOK
    BY NothingTyped, Zenon DEF FlowInit, VaultInit, VaultOK, Missing, Unsealed
  <1> QED
    BY <1>1, <1>2, <1>3, Zenon DEF StoreInv

\* Nothing about the vault changes, except that a look-up may be over.
LEMMA Untouched ==
    ASSUME StoreInv, UNCHANGED <<vaultVars, service>>, editing' \subseteq editing
    PROVE  FlowsOK' /\ CallsOK' /\ EditingOK' /\ VaultOK'
  <1>1. UNCHANGED <<call, vault>>
    BY Zenon DEF vaultVars, files
  <1>2. FlowsOK' /\ VaultOK'
    BY <1>1, Zenon DEF StoreInv, FlowsOK, VaultOK
  <1>3. CallsOK'
    BY <1>1, Zenon DEF StoreInv, CallsOK, Calls
  <1>4. EditingOK'
    BY <1>1, Zenon DEF StoreInv, EditingOK, Calls
  <1> QED
    BY <1>2, <1>3, <1>4, Zenon

\* "/setup service" begins a dialogue.
LEMMA SetupServiceKeeps ==
    ASSUME StoreInv, NEW s \in Sessions, NEW target \in Services, SetupService(s, target)
    PROVE  StoreInv'
  <1>1. /\ service' = Append(service, target) /\ service \in Seq(Services)
        /\ UNCHANGED <<call, vault, editing>>
    BY Zenon DEF SetupService, vaultVars, files, awaits, StoreInv, FlowsOK
  <1>2. FlowsOK' /\ Len(service') = Len(service) + 1
    BY <1>1, SetupAssumption DEF SetupService, StoreInv, FlowsOK
  <1>3. PendingOK'
    <2>1. Len(service) \in Nat
      BY <1>1
    <2> QED
      BY <1>2, <2>1 DEF SetupService, StoreInv, PendingOK, NoFlow, None
  <1>4. CallsOK'
    BY <1>1, Grows, Zenon DEF StoreInv, CallsOK, Calls
  <1>5. VaultOK'
    BY <1>1, Grows, Zenon DEF StoreInv, VaultOK
  <1>6. EditingOK'
    <2> SUFFICES ASSUME NEW w \in editing
                 PROVE  /\ w.call \in Calls /\ w.service \in Services
                        /\ LooksUp(service', w.service, call[w.call])
      BY <1>1, Zenon DEF EditingOK, Calls
    <2> QED
      BY <1>1, Grows, Zenon DEF StoreInv, EditingOK
  <1> QED
    BY <1>2, <1>3, <1>4, <1>5, <1>6, Zenon DEF StoreInv

\* Commands and answers that change only the dialogue.
LEMMA DialogueKeeps ==
    ASSUME StoreInv, NEW s \in Sessions,
           SetupCancel(s) \/ SetupMode(s) \/ Identifier(s) \/ AuthMode(s)
    PROVE  StoreInv'
  <1>1. UNCHANGED <<vaultVars, service, editing>>
    BY Zenon DEF SetupCancel, SetupMode, Identifier, AuthMode, awaits
  <1>2. PendingOK'
    <2> USE DEF StoreInv, PendingOK, NoFlow, None
    <2>1. CASE SetupCancel(s)
      BY <2>1, Zenon DEF SetupCancel, Forget
    <2>2. CASE SetupMode(s)
      BY <2>2 DEF SetupMode, Active
    <2>3. CASE Identifier(s)
      BY <2>3 DEF Identifier
    <2>4. CASE AuthMode(s)
      BY <2>4 DEF AuthMode
    <2> QED
      BY <2>1, <2>2, <2>3, <2>4, Zenon
  <1> QED
    BY <1>1, <1>2, Untouched, Zenon DEF StoreInv

\* A dialogue awaits a call no more: it ends, or goes on.
LEMMA AwaitKeeps ==
    ASSUME StoreInv,
           \/ \E w \in clearing : ClearEnds(w)
           \/ \E w \in saving : Stored(w) \/ StoreFails(w)
    PROVE  StoreInv'
  <1>1. UNCHANGED <<vaultVars, service, editing>>
    BY Zenon DEF ClearEnds, Stored, StoreFails
  <1>2. UNCHANGED pending \/ \E s : Forget(s)
    BY Zenon DEF ClearEnds, Stored, StoreFails
  <1>3. PendingOK'
    BY <1>1, <1>2 DEF StoreInv, PendingOK, Forget, NoFlow, None
  <1> QED
    BY <1>1, <1>3, Untouched, Zenon DEF StoreInv

\* A call begins while the dialogues stay as they are.
LEMMA BeginsKeeps ==
    ASSUME StoreInv, UNCHANGED <<pending, service>>,
           NEW kind, NEW t \in Services, NEW r, Call(kind, t, r),
           kind = "set" => TypedFor(service, t, r),
           \/ editing' \subseteq editing
           \/ kind = "get" /\ editing' = editing \cup {[service |-> t, call |-> NextCall]}
    PROVE  StoreInv'
  <1>1. FlowsOK' /\ PendingOK'
    BY Zenon DEF StoreInv, FlowsOK, PendingOK
  <1>2. CallsOK' /\ VaultOK' /\ EditingOK'
    BY CallKeeps, Zenon DEF StoreInv
  <1> QED
    BY <1>1, <1>2, Zenon DEF StoreInv

\* The secret completes the credential of the dialogue in hand, whose identifier
\* is its own.
LEMMA SecretKeeps ==
    ASSUME StoreInv, NEW s \in Sessions, Secret(s)
    PROVE  StoreInv'
  <1>1. UNCHANGED <<service, editing>>
    BY Zenon DEF Secret
  <1>2. CASE Forget(s) /\ UNCHANGED vaultVars
    <2>1. PendingOK'
      BY <1>1, <1>2, Zenon DEF StoreInv, PendingOK, Forget, NoFlow, None
    <2> QED
      BY <1>1, <1>2, <2>1, Untouched, Zenon DEF StoreInv
  <1>3. CASE pending[s].identifier # None /\ Save(s)
    <2> DEFINE flow == pending[s].flow
               r == [secret |-> flow, identifier |-> pending[s].identifier]
    <2>1. flow \in 1..Len(service) /\ pending[s].identifier = flow
      BY <1>3 DEF StoreInv, PendingOK, NoFlow, None
    <2>2. service[flow] \in Services
      BY <2>1 DEF StoreInv, FlowsOK
    <2>3. TypedFor(service, service[flow], r)
      BY <2>1, Zenon DEF TypedFor
    <2>4. Call("set", service[flow], r) /\ UNCHANGED pending
      BY <1>3, Zenon DEF Save
    <2> HIDE DEF r, flow
    <2> QED
      BY <1>1, <2>2, <2>3, <2>4, BeginsKeeps, Zenon
  <1> QED
    BY <1>2, <1>3, Zenon DEF Secret

\* The page stores what was typed there, with the identifier it found or with
\* the one that was typed too.
LEMMA PageKeeps ==
    ASSUME StoreInv,
           \/ \E s \in Sessions, target \in Services : SetupClear(s, target)
           \/ \E target \in Services : Others(target) \/ PutBlank(target)
           \/ \E w \in editing : PutReuses(w)
    PROVE  StoreInv'
  <1>1. ASSUME NEW s \in Sessions, NEW target \in Services, SetupClear(s, target)
        PROVE  StoreInv'
    BY <1>1, BeginsKeeps, Zenon DEF SetupClear
  <1>2. ASSUME NEW target \in Services, Others(target)
        PROVE  StoreInv'
    <2> DEFINE r == [secret |-> Dashboard, identifier |-> Dashboard]
    <2>1. TypedFor(service, target, r)
      BY Zenon DEF TypedFor
    <2>2. \/ Call("set", target, r) \/ Call("delete", target, Absent) \/ Call("get", target, Absent)
      BY <1>2, Zenon DEF Others
    <2>3. UNCHANGED <<pending, service, editing>>
      BY <1>2, Zenon DEF Others, awaits
    <2> HIDE DEF r
    <2> QED
      BY <2>1, <2>2, <2>3, BeginsKeeps, Zenon
  <1>3. ASSUME NEW target \in Services, PutBlank(target)
        PROVE  StoreInv'
    BY <1>3, BeginsKeeps, Zenon DEF PutBlank
  <1>4. ASSUME NEW w \in editing, PutReuses(w)
        PROVE  StoreInv'
    <2>1. /\ UNCHANGED <<pending, service>> /\ editing' \subseteq editing
          /\ call[w.call].at = "over" /\ w.service \in Services
          /\ LooksUp(service, w.service, call[w.call])
      BY <1>4, Zenon DEF PutReuses, StoreInv, EditingOK
    <2>2. CASE UNCHANGED vaultVars
      <3>1. PendingOK'
        BY <2>1, Zenon DEF StoreInv, PendingOK
      <3> QED
        BY <2>1, <2>2, <3>1, Untouched, Zenon DEF StoreInv
    <2> DEFINE found == call[w.call].found
               r == [secret |-> Dashboard, identifier |-> found.identifier]
    <2>3. CASE found # Absent /\ Call("set", w.service, r)
      <3>1. TypedFor(service, w.service, found)
        BY <2>1, <2>3, Zenon DEF LooksUp
      <3>2. TypedFor(service, w.service, r)
        BY <3>1, Zenon DEF TypedFor
      <3> HIDE DEF r
      <3> QED
        BY <2>1, <2>3, <3>2, BeginsKeeps, Zenon
    <2> QED
      BY <1>4, <2>2, <2>3, Zenon DEF PutReuses
  <1> QED
    BY <1>1, <1>2, <1>3, <1>4, Zenon

\* The process dies with its calls and dialogues; the vault stays.
LEMMA CrashKeeps ==
    ASSUME StoreInv, Crash
    PROVE  StoreInv'
  <1>1. UNCHANGED <<service, vault>> /\ editing' = {}
    BY Zenon DEF Crash, Die, files
  <1>2. FlowsOK' /\ EditingOK' /\ VaultOK'
    BY <1>1, Zenon DEF StoreInv, FlowsOK, EditingOK, VaultOK
  <1>3. PendingOK'
    BY <1>1, Zenon DEF Crash, PendingOK, NoFlow
  <1>4. CallsOK'
    <2> DEFINE over == [at |-> "over", outcome |-> "error", found |-> Absent]
               f == [c \in Calls |-> IF Busy(c) THEN over ELSE call[c]]
    <2>1. PICK S : call \in Seq(S)
      BY Zenon DEF StoreInv, CallsOK
    <2>2. Calls = 1..Len(call) /\ Len(call) \in Nat
      BY <2>1 DEF Calls
    <2>3. call' = f
      BY Zenon DEF Crash, Die
    <2>4. call' \in Seq({f[c] : c \in Calls})
      BY <2>2, <2>3
    <2>5. CarriesTyped(service, over)
      BY Zenon DEF CarriesTyped, Reading, Writing
    <2> HIDE DEF over
    <2> QED
      BY <1>1, <2>3, <2>4, <2>5, Zenon DEF StoreInv, CallsOK, Calls
  <1> QED
    BY <1>2, <1>3, <1>4, Zenon DEF StoreInv

\* Every step of the program.
LEMMA StoreKeeps == StoreInv /\ [FlowNext]_flowVars => StoreInv'
  <1> SUFFICES ASSUME StoreInv, [FlowNext]_flowVars PROVE StoreInv'
    BY Zenon
  <1>1. CASE VaultStep /\ UNCHANGED <<pending, awaits, service, prompted>>
    <2>1. CallsOK' /\ EditingOK' /\ VaultOK'
      BY <1>1, VaultStepKeeps, Zenon DEF StoreInv, awaits
    <2>2. FlowsOK' /\ PendingOK'
      BY <1>1, Zenon DEF StoreInv, FlowsOK, PendingOK
    <2> QED
      BY <2>1, <2>2, Zenon DEF StoreInv
  <1>2. CASE UNCHANGED flowVars
    <2>1. UNCHANGED <<vaultVars, pending, service, editing>>
      BY <1>2, Zenon DEF flowVars, awaits
    <2>2. PendingOK'
      BY <2>1, Zenon DEF StoreInv, PendingOK
    <2> QED
      BY <2>1, <2>2, Untouched, Zenon DEF StoreInv
  <1>3. CASE \E s \in Sessions :
                \/ \E target \in Services : SetupService(s, target)
                \/ SetupCancel(s) \/ SetupMode(s) \/ Identifier(s) \/ AuthMode(s) \/ Secret(s)
    BY <1>3, SetupServiceKeeps, DialogueKeeps, SecretKeeps, Zenon
  <1>4. CASE \/ \E s \in Sessions, target \in Services : SetupClear(s, target)
             \/ \E target \in Services : Others(target) \/ PutBlank(target)
             \/ \E w \in editing : PutReuses(w)
    BY <1>4, PageKeeps, Zenon
  <1>5. CASE \/ \E w \in clearing : ClearEnds(w)
             \/ \E w \in saving : Stored(w) \/ StoreFails(w)
    BY <1>5, AwaitKeeps, Zenon
  <1>6. CASE Crash
    BY <1>6, CrashKeeps, Zenon
  <1> QED
    BY <1>1, <1>2, <1>3, <1>4, <1>5, <1>6, Zenon DEF FlowNext

-----------------------------------------------------------------------------
(* Calls of the vault that follow one another.                             *)

\* The files between two calls: v is the vault, k the key, and s what was
\* reported as saved.  The key may be there before the vault, or be cut short.
AtRest(v, k, s) ==
    \/ v = Missing /\ s = NoRecords
    \/ v.is = "sealed" /\ v.key = k /\ k.is = "key" /\ v.records = s

\* What a call that is alone has in hand: the vault as it is, no vault at all,
\* or what was saved with its own change.
InHand(e, v, k, s) ==
    \/ e.at = "called"
    \/ e.at = "vault_read" /\ e.payload = v
    \/ e.at \in {"creating", "key_open"} /\ v = Missing
    \/ /\ e.at \in {"modified", "open"}
       /\ {"at", "kind", "service", "credential", "key", "records"} \subseteq DOMAIN e
       /\ k.is = "key" /\ e.key = k
       /\ e.records = [s EXCEPT ![e.service] = IF e.kind = "set" THEN e.credential ELSE Absent]

Alone ==
    /\ \A c, d \in Calls : Busy(c) /\ Busy(d) => c = d
    /\ \A c \in Calls : Busy(c) => InHand(call[c], vault, key, saved)
    /\ Writers = {} => AtRest(vault, key, saved)

SerialInv == ~ raced => Alone

\* A step of the call that is under way.
LEMMA AloneSteps ==
    ASSUME CallsOK, Alone, NEW c \in Calls, Busy(c), NEW e, call' = [call EXCEPT ![c] = e],
           e.at # "over" => InHand(e, vault', key', saved'),
           e.at \notin {"open", "contended"} => AtRest(vault', key', saved')
    PROVE  Alone'
  <1>1. PICK S : call \in Seq(S)
    BY Zenon DEF CallsOK
  <1>2. Calls' = Calls /\ call'[c] = e /\ \A d \in Calls : d # c => call'[d] = call[d]
    BY <1>1, Zenon DEF Calls
  <1>3. \A d \in Calls : Busy(d)' => d = c
    BY <1>2, ZenonT(60) DEF Alone, Busy
  <1>4. \A d \in Calls' : Busy(d)' => InHand(call'[d], vault', key', saved')
    BY <1>2, <1>3, Zenon DEF Busy
  <1>5. Writers' = {} => e.at \notin {"open", "contended"}
    BY <1>2, Zenon DEF Writers
  <1> QED
    BY <1>2, <1>3, <1>4, <1>5, Zenon DEF Alone

\* Proceed, with the store as it was saved.
LEMMA AloneProceeds ==
    ASSUME CallsOK, Alone, NEW c \in Calls, Busy(c), UNCHANGED <<vault, saved>>,
           key'.is = "key", AtRest(vault, key', saved), Proceed(c, key', saved)
    PROVE  Alone'
  <1> DEFINE s == call[c].service
             r == IF call[c].kind = "set" THEN call[c].credential ELSE Absent
             e == [at |-> "modified", kind |-> call[c].kind, service |-> s,
                   credential |-> call[c].credential, key |-> key',
                   records |-> [saved EXCEPT ![s] = r]]
             o == [at |-> "over", outcome |-> "done", found |-> saved[s]]
  <1>1. call' = [call EXCEPT ![c] = e] \/ call' = [call EXCEPT ![c] = o]
    BY Zenon DEF Proceed, Modified, Over
  <1>2. e.at = "modified" /\ InHand(e, vault', key', saved') /\ o.at = "over"
    BY Zenon DEF InHand
  <1>3. AtRest(vault', key', saved')
    BY Zenon
  <1> HIDE DEF e, o
  <1> QED
    BY <1>1, <1>2, <1>3, AloneSteps, Zenon

\* The file operations of a call.
LEMMA AloneKeeps ==
    ASSUME CallsOK, Alone, ~ raced, VaultStep
    PROVE  Alone'
  <1> PICK c \in Calls : \/ ReadVault(c) \/ ReadKey(c) \/ MissKey(c) \/ OpenKey(c) \/ WriteKey(c)
                         \/ OpenVault(c) \/ WriteVault(c)
    BY Zenon DEF VaultStep
  <1>0. "at" \in DOMAIN call[c]
    BY Zenon DEF CallsOK, CarriesTyped
  <1>1. Busy(c) /\ InHand(call[c], vault, key, saved)
    BY Zenon DEF Alone, Busy, ReadVault, ReadKey, MissKey, OpenKey, WriteKey, OpenVault, WriteVault, Writers
  <1>2. call[c].at \notin {"open", "contended"} => AtRest(vault, key, saved) /\ Writers = {}
    BY <1>1, Zenon DEF Alone, Busy, Writers
  <1>a. ASSUME Reject(c), call[c].at \notin {"open", "contended"}, UNCHANGED <<vault, key, saved>>
        PROVE  Alone'
    <2> DEFINE e == [at |-> "over", outcome |-> "error", found |-> Absent]
    <2>1. call' = [call EXCEPT ![c] = e] /\ e.at = "over"
      BY <1>a, Zenon DEF Reject, Over
    <2> HIDE DEF e
    <2> QED
      BY <1>a, <1>1, <1>2, <2>1, AloneSteps, Zenon
  <1>3. CASE ReadVault(c)
    <2> DEFINE e == [at |-> "vault_read", kind |-> call[c].kind, service |-> call[c].service,
                     credential |-> call[c].credential, payload |-> vault]
    <2>1. call' = [call EXCEPT ![c] = e] /\ call[c].at = "called" /\ UNCHANGED <<vault, key, saved>>
      BY <1>3, Zenon DEF ReadVault, files
    <2>2. e.at = "vault_read" /\ e.payload = vault
      BY Zenon
    <2> HIDE DEF e
    <2>3. InHand(e, vault', key', saved')
      BY <2>1, <2>2, Zenon DEF InHand
    <2> QED
      BY <1>1, <1>2, <2>1, <2>2, <2>3, AloneSteps, Zenon
  <1>4. CASE ReadKey(c)
    <2>1. call[c].at = "vault_read" /\ key.is = "key" /\ UNCHANGED <<vault, key, saved>>
      BY <1>4, Zenon DEF ReadKey, files
    <2>2. call[c].payload = vault /\ AtRest(vault, key, saved)
      BY <1>1, <1>2, <2>1, Zenon DEF InHand
    <2>3. vault.records = saved
      BY <2>2 DEF AtRest, Missing, Unsealed
    <2>4. CASE Reject(c)
      BY <2>1, <2>4, <1>a, Zenon
    <2>5. CASE Proceed(c, key, call[c].payload.records)
      BY <1>1, <2>1, <2>2, <2>3, <2>5, AloneProceeds, Zenon
    <2> QED
      BY <1>4, <2>4, <2>5, Zenon DEF ReadKey
  <1>5. CASE MissKey(c)
    <2>1. call[c].at = "vault_read" /\ UNCHANGED <<vault, key, saved>>
      BY <1>5, Zenon DEF MissKey, files
    <2>2. call[c].payload = vault /\ AtRest(vault, key, saved)
      BY <1>1, <1>2, <2>1, Zenon DEF InHand
    <2>3. CASE Reject(c)
      BY <2>1, <2>3, <1>a, Zenon
    <2>4. CASE call[c].payload.is = "missing" /\ call' = [call EXCEPT ![c].at = "creating"]
      <3> DEFINE e == [call[c] EXCEPT !.at = "creating"]
      <3>1. call' = [call EXCEPT ![c] = e] /\ e.at = "creating"
        BY <1>0, <2>4, Zenon
      <3> HIDE DEF e
      <3>2. vault = Missing
        BY <2>2, <2>4, Zenon DEF AtRest
      <3>3. InHand(e, vault', key', saved')
        BY <2>1, <3>1, <3>2, Zenon DEF InHand
      <3> QED
        BY <1>1, <2>1, <2>2, <3>1, <3>3, AloneSteps, Zenon
    <2> QED
      BY <1>5, <2>3, <2>4, Zenon DEF MissKey
  <1>6. CASE OpenKey(c)
    <2> DEFINE e == [call[c] EXCEPT !.at = "key_open"]
    <2>1. call' = [call EXCEPT ![c] = e] /\ e.at = "key_open"
      BY <1>0, <1>6, Zenon DEF OpenKey
    <2>2. call[c].at = "creating" /\ UNCHANGED <<vault, saved>>
      BY <1>6, Zenon DEF OpenKey
    <2> HIDE DEF e
    <2>3. vault = Missing /\ saved = NoRecords
      BY <1>1, <1>2, <2>2 DEF InHand, AtRest, Missing, Unsealed
    <2>4. InHand(e, vault', key', saved') /\ AtRest(vault', key', saved')
      BY <2>1, <2>2, <2>3, Zenon DEF InHand, AtRest
    <2> QED
      BY <1>1, <2>1, <2>4, AloneSteps, Zenon
  <1>7. CASE WriteKey(c)
    <2>1. call[c].at = "key_open" /\ UNCHANGED <<vault, saved>> /\ key'.is = "key"
      BY <1>7, Zenon DEF WriteKey
    <2>2. vault = Missing /\ saved = NoRecords
      BY <1>1, <1>2, <2>1, SMTT(60) DEF InHand, AtRest, Missing, Unsealed
    <2>3. AtRest(vault, key', saved) /\ Proceed(c, key', saved)
      BY <1>7, <2>2, Zenon DEF WriteKey, AtRest
    <2> QED
      BY <1>1, <2>1, <2>3, AloneProceeds, Zenon
  <1>8. CASE OpenVault(c)
    <2> DEFINE e == [call[c] EXCEPT !.at = "open"]
    <2>1. call[c].at = "modified" /\ UNCHANGED <<key, saved>>
      BY <1>8, Zenon DEF OpenVault
    <2>2. PICK S : call \in Seq(S)
      BY Zenon DEF CallsOK
    <2>3. call' = [call EXCEPT ![c] = e]
      BY <1>2, <1>8, <2>1, <2>2, Zenon DEF OpenVault, Calls
    <2>4. e.at = "open"
      BY <1>0, Zenon
    <2>5. InHand(e, vault', key', saved')
      BY <1>1, <2>1, Zenon DEF InHand
    <2> HIDE DEF e
    <2> QED
      BY <1>1, <2>3, <2>4, <2>5, AloneSteps, Zenon
  <1>9. CASE WriteVault(c)
    <2> DEFINE e == [at |-> "over", outcome |-> "done", found |-> Absent]
    <2>1. call' = [call EXCEPT ![c] = e] /\ e.at = "over"
      BY <1>9, Zenon DEF WriteVault, Over
    <2> HIDE DEF e
    <2>2. call[c].at = "open" /\ key.is = "key" /\ call[c].key = key
      BY <1>1, <1>9, Zenon DEF WriteVault, Writers, InHand
    <2>3. vault' = Sealed(key, call[c].records) /\ UNCHANGED key
      BY <1>9, <2>2, Zenon DEF WriteVault
    <2>4. saved' = call[c].records
      <3>1. call[c].at \notin {"called", "vault_read", "creating", "key_open"}
        BY <2>2, Zenon
      <3>2. call[c].records = [saved EXCEPT ![call[c].service] =
                                 IF call[c].kind = "set" THEN call[c].credential ELSE Absent]
        BY <1>1, <3>1, Zenon DEF InHand
      <3> QED BY <1>9, <3>2, Zenon DEF WriteVault
    <2>5. AtRest(vault', key', saved')
      BY <2>2, <2>3, <2>4, Zenon DEF AtRest, Sealed
    <2> QED
      BY <1>1, <2>1, <2>5, AloneSteps, Zenon
  <1> QED
    BY <1>3, <1>4, <1>5, <1>6, <1>7, <1>8, <1>9, Zenon

\* A call that finds no other under way.
LEMMA AloneBegins ==
    ASSUME CallsOK, SerialInv, NEW kind, NEW t \in Services, NEW r, Call(kind, t, r)
    PROVE  SerialInv'
  <1> SUFFICES ASSUME ~ raced' PROVE Alone'
    BY Zenon DEF SerialInv
  <1>1. ~ raced /\ (\A c \in Calls : ~ Busy(c)) /\ UNCHANGED saved
    BY Zenon DEF Call
  <1>2. UNCHANGED <<vault, key>>
    BY Zenon DEF Call, files
  <1>3. Alone /\ Writers = {}
    BY <1>1, Zenon DEF SerialInv, Writers, Busy
  <1>4. /\ Calls' = Calls \cup {NextCall} /\ call'[NextCall].at = "called"
        /\ \A c \in Calls : call'[c] = call[c]
    <2> DEFINE new == [at |-> "called", kind |-> kind, service |-> t, credential |-> r]
    <2>1. new.at = "called"
      BY Zenon
    <2> HIDE DEF new
    <2>2. Calls' = Calls \cup {NextCall} /\ call'[NextCall] = new /\ \A c \in Calls : call'[c] = call[c]
      BY NewCall, ZenonT(60) DEF new
    <2> QED
      BY <2>1, <2>2, Zenon
  <1>5. \A c \in Calls' : Busy(c)' => c = NextCall
    BY <1>1, <1>4, Zenon DEF Busy
  <1>6. \A c \in Calls' : Busy(c)' => InHand(call'[c], vault', key', saved')
    BY <1>4, <1>5, Zenon DEF InHand
  <1>7. AtRest(vault', key', saved')
    BY <1>1, <1>2, <1>3, Zenon DEF Alone
  <1> QED
    BY <1>5, <1>6, <1>7, Zenon DEF Alone

\* A crash that does not interrupt the writing of the vault.
LEMMA AloneDies == ASSUME SerialInv, Die PROVE SerialInv'
  <1> SUFFICES ASSUME ~ raced' PROVE Alone'
    BY Zenon DEF SerialInv
  <1>1. ~ raced /\ Writers = {} /\ UNCHANGED saved
    BY Zenon DEF Die
  <1>2. UNCHANGED <<vault, key>>
    BY Zenon DEF Die, files
  <1>3. \A c \in Calls' : ~ Busy(c)'
    BY Zenon DEF Die, Calls, Busy
  <1>4. AtRest(vault', key', saved')
    BY <1>1, <1>2, Zenon DEF SerialInv, Alone
  <1> QED
    BY <1>3, <1>4, Zenon DEF Alone

-----------------------------------------------------------------------------
\* Every credential in the vault was typed for its service, whatever dialogues,
\* vault calls, edits and crashes overlap: handlePendingSetupInput passes to
\* setCredential what it read before the await, and handlePutVaultCredential an
\* identifier that was stored for the same service.
THEOREM StoredIsTyped == FlowSpec => []StoredForItsService
  <1>1. StoreInv => StoredForItsService
    <2> SUFFICES ASSUME StoreInv, NEW t \in Services, vault.records[t] # Absent
                 PROVE  LET r == vault.records[t] IN
                        /\ \A f \in {r.secret, r.identifier} :
                              f = Dashboard \/ (f \in Flows /\ service[f] = t)
                        /\ r.secret \in {r.identifier, Dashboard}
      BY Zenon DEF StoredForItsService
    <2>1. TypedFor(service, t, vault.records[t])
      BY Zenon DEF StoreInv, VaultOK, AllTyped
    <2>2. 1..Len(service) \subseteq Flows
      BY SetupAssumption DEF StoreInv, FlowsOK, Flows
    <2> QED
      BY <2>1, <2>2, Zenon DEF TypedFor
  <1> QED
    BY StoreStarts, StoreKeeps, <1>1, PTL DEF FlowSpec

\* The dialogue in progress is the one that prompted last, whichever calls of
\* the vault return late (pendingBySessionId).
THEOREM InputIsForTheDialogue == FlowSpec => []NoFlowStealsInput
  <1> DEFINE Inv == /\ DOMAIN pending = Sessions /\ DOMAIN prompted = Sessions
                    /\ \A s \in Sessions : "flow" \in DOMAIN pending[s]
                    /\ NoFlowStealsInput
  <1>1. FlowInit => Inv
    BY SMTT(60) DEF FlowInit, NoFlowStealsInput, Active, NoFlow
  <1>2. Inv /\ [FlowNext]_flowVars => Inv'
    <2> SUFFICES ASSUME Inv, [FlowNext]_flowVars PROVE Inv'
      BY Zenon
    <2> USE DEF NoFlowStealsInput, Active, NoFlow, None
    <2>1. ASSUME NEW s \in Sessions, NEW target \in Services, SetupService(s, target) PROVE Inv'
      BY <2>1, Zenon DEF SetupService, Prompt
    <2>2. ASSUME NEW s \in Sessions, SetupCancel(s) PROVE Inv'
      BY <2>2, Zenon DEF SetupCancel, Forget, Prompt
    <2>3. ASSUME NEW s \in Sessions, SetupMode(s) PROVE Inv'
      BY <2>3, Zenon DEF SetupMode, Prompt
    <2>4. ASSUME NEW s \in Sessions, Identifier(s) \/ AuthMode(s) PROVE Inv'
      BY <2>4, SMTT(60) DEF Identifier, AuthMode
    <2>5. ASSUME NEW s \in Sessions, Secret(s) PROVE Inv'
      BY <2>5, SMTT(60) DEF Secret, Forget, Prompt, Save
    <2>6. ASSUME NEW w \in clearing, ClearEnds(w) PROVE Inv'
      BY <2>6, SMTT(60) DEF ClearEnds, Forget, Prompt
    <2>7. ASSUME NEW w \in saving, Stored(w) \/ StoreFails(w) PROVE Inv'
      BY <2>7, SMTT(60) DEF Stored, StoreFails, Forget, Prompt
    <2>8. CASE Crash
      BY <2>8, Zenon DEF Crash
    <2>9. CASE UNCHANGED <<pending, prompted>>
      BY <2>9, Zenon
    <2> QED
      BY <2>1, <2>2, <2>3, <2>4, <2>5, <2>6, <2>7, <2>8, <2>9, Zenon
         DEF FlowNext, flowVars, SetupClear, PutReuses, Others, PutBlank
  <1>3. Inv => NoFlowStealsInput
    BY Zenon
  <1> QED
    BY <1>1, <1>2, <1>3, PTL DEF FlowSpec

\* Calls of the vault that follow one another, dialogues, edits and crashes
\* included, leave a vault that opens and holds exactly what was reported as
\* saved (readVaultStore, readOrCreateVaultKey, writeVaultStore).
THEOREM SerialUseIsExact == FlowSpec => []SerialVaultIsExact
  <1>1. FlowInit => SerialInv
    BY DEF FlowInit, VaultInit, SerialInv, Alone, Calls, AtRest
  <1>2. StoreInv /\ SerialInv /\ [FlowNext]_flowVars => SerialInv'
    <2> SUFFICES ASSUME StoreInv, SerialInv, [FlowNext]_flowVars PROVE SerialInv'
      BY Zenon
    <2>0. CallsOK
      BY Zenon DEF StoreInv
    <2>1. CASE UNCHANGED vaultVars
      BY <2>1, ZenonT(60) DEF vaultVars, files, SerialInv, Alone, Calls, Busy, Writers, InHand, AtRest
    <2>2. CASE \E kind, t, r : t \in Services /\ Call(kind, t, r)
      BY <2>0, <2>2, AloneBegins, Zenon
    <2>3. CASE VaultStep
      <3>1. UNCHANGED raced
        BY <2>3, Zenon DEF VaultStep, ReadVault, ReadKey, MissKey, OpenKey, WriteKey, OpenVault, WriteVault
      <3>2. ~ raced' => ~ raced
        BY <3>1, Zenon
      <3> QED
        BY <2>0, <2>3, <3>2, AloneKeeps, Zenon DEF SerialInv
    <2>4. CASE Die
      BY <2>4, AloneDies, Zenon
    <2>5. ASSUME NEW s \in Sessions, Secret(s)
          PROVE  UNCHANGED vaultVars \/ \E kind, t, r : t \in Services /\ Call(kind, t, r)
      <3>1. CASE UNCHANGED vaultVars
        BY <3>1, Zenon
      <3>2. CASE pending[s].identifier # None /\ Save(s)
        <4>1. service[pending[s].flow] \in Services
          BY <3>2, SMTT(60) DEF StoreInv, PendingOK, FlowsOK, NoFlow, None
        <4> QED
          BY <3>2, <4>1, Zenon DEF Save
      <3> QED
        BY <2>5, <3>1, <3>2, Zenon DEF Secret
    <2>6. ASSUME NEW w \in editing, PutReuses(w)
          PROVE  UNCHANGED vaultVars \/ \E kind, t, r : t \in Services /\ Call(kind, t, r)
      BY <2>6, Zenon DEF PutReuses, StoreInv, EditingOK
    <2> QED
      BY <2>1, <2>2, <2>3, <2>4, <2>5, <2>6, Zenon
         DEF FlowNext, flowVars, SetupService, SetupClear, SetupCancel, SetupMode, Identifier,
             AuthMode, ClearEnds, Stored, StoreFails, Others, PutBlank, Crash
  <1>3. SerialInv => SerialVaultIsExact
    <2> SUFFICES ASSUME SerialInv, ~ raced, \A c \in Calls : ~ Busy(c)
                 PROVE  CanDecrypt(vault, key) /\ vault.records = saved
      BY Zenon DEF SerialVaultIsExact
    <2>1. Writers = {}
      BY Zenon DEF Writers, Busy
    <2> QED
      BY <2>1 DEF SerialInv, Alone, AtRest, CanDecrypt, Missing, Unsealed
  <1> QED
    BY StoreStarts, StoreKeeps, <1>1, <1>2, <1>3, PTL DEF FlowSpec

-----------------------------------------------------------------------------

-----------------------------------------------------------------------------
(* The offset.                                                             *)

\* What has been fetched and not yet taken follows on what was taken.
BatchFollows ==
    /\ batch \in Seq(Nat)
    /\ offset + Len(batch) <= Len(updates) + 1
    /\ \A i \in 1..Len(batch) : batch[i] = offset + i - 1

OffsetInv ==
    /\ updates \in Seq(Kinds)
    /\ offset \in 1..Len(updates) + 1
    /\ UpdatesTakenOnce
    /\ BatchFollows

LEMMA OffsetStarts == Init => OffsetInv
  <1> SUFFICES ASSUME Init PROVE OffsetInv
    BY Zenon
  <1>1. updates = <<>> /\ offset = 1 /\ batch = <<>> /\ taken = <<>>
    BY Zenon DEF Init
  <1>2. taken = [i \in 1..offset - 1 |-> i]
    BY <1>1
  <1> QED
    BY <1>1, <1>2 DEF OffsetInv, BatchFollows, UpdatesTakenOnce

LEMMA TakeKeeps ==
    ASSUME OffsetInv, NEW next, Take(next), UNCHANGED updates
    PROVE  /\ OffsetInv'
           /\ taken'[Len(taken')] = Head(batch) /\ Head(batch) \in 1..Len(updates)
  <1>1. /\ batch \in Seq(Nat) /\ batch # <<>> /\ Len(batch) \in Nat /\ Len(batch) > 0
        /\ offset \in Nat /\ Len(updates) \in Nat
    BY DEF OffsetInv, BatchFollows, Take
  <1>2. Head(batch) = offset /\ offset \in 1..Len(updates)
    BY <1>1 DEF OffsetInv, BatchFollows
  <1>3. offset' = offset + 1 /\ taken' = Append(taken, offset) /\ batch' = Tail(batch)
    BY <1>1, <1>2 DEF Take
  <1>4. taken \in Seq(Nat) /\ Len(taken) = offset - 1
    <2>1. taken = [i \in 1..offset - 1 |-> i] /\ offset - 1 \in Nat
      BY <1>2 DEF OffsetInv, UpdatesTakenOnce
    <2> QED
      BY <2>1
  <1>5. /\ taken' \in Seq(Nat) /\ Len(taken') = offset
        /\ \A i \in 1..offset : taken'[i] = i
    BY <1>1, <1>2, <1>3, <1>4 DEF OffsetInv, UpdatesTakenOnce
  <1>6. UpdatesTakenOnce'
    <2>1. taken' = [i \in 1..offset |-> taken'[i]]
      BY <1>1, <1>5
    <2>2. offset' - 1 = offset
      BY <1>1, <1>3
    <2>3. taken' = [i \in 1..offset' - 1 |-> i]
      BY <2>1, <2>2, <1>5, Zenon
    <2> QED
      BY <2>3, Zenon DEF UpdatesTakenOnce
  <1>7. BatchFollows'
    <2>1. batch' \in Seq(Nat) /\ Len(batch') = Len(batch) - 1
      BY <1>1, <1>3
    <2>2. \A i \in 1..Len(batch') : batch'[i] = batch[i + 1]
      BY <1>1, <1>3, <2>1
    <2> QED
      BY <1>1, <1>3, <2>1, <2>2 DEF OffsetInv, BatchFollows
  <1>8. taken'[Len(taken')] = offset
    BY <1>1, <1>2, <1>5
  <1> QED
    BY <1>1, <1>2, <1>3, <1>6, <1>7, <1>8 DEF OffsetInv

LEMMA OffsetKeeps == OffsetInv /\ [Next]_vars => OffsetInv'
  <1> SUFFICES ASSUME OffsetInv, [Next]_vars PROVE OffsetInv'
    BY Zenon
  <1>1. ASSUME UNCHANGED <<updates, offset, taken>>, batch' \in {batch, <<>>}
        PROVE  OffsetInv'
    <2>1. CASE UNCHANGED batch
      BY <1>1, <2>1, Zenon DEF OffsetInv, BatchFollows, UpdatesTakenOnce
    <2>2. CASE batch' = <<>>
      BY <1>1, <2>2 DEF OffsetInv, BatchFollows, UpdatesTakenOnce
    <2> QED
      BY <1>1, <2>1, <2>2, Zenon
  <1>2. ASSUME NEW kind \in Kinds, Arrive(kind) PROVE OffsetInv'
    <2>1. updates' = Append(updates, kind) /\ UNCHANGED <<offset, taken, batch>>
      BY <1>2, Zenon DEF Arrive
    <2>2. updates' \in Seq(Kinds) /\ Len(updates') = Len(updates) + 1 /\ Len(updates) \in Nat
      BY <2>1 DEF OffsetInv
    <2> QED
      BY <2>1, <2>2 DEF OffsetInv, BatchFollows, UpdatesTakenOnce
  <1>3. CASE Poll
    <2> DEFINE n == Len(updates) - offset + 1
    <2>1. n \in Nat /\ offset \in Nat /\ Len(updates) \in Nat
      BY DEF OffsetInv
    <2>2. batch' = [i \in 1..n |-> offset + i - 1] /\ UNCHANGED <<updates, offset, taken>>
      BY <1>3, Zenon DEF Poll
    <2>3. batch' \in Seq(Nat) /\ Len(batch') = n
      BY <2>1, <2>2
    <2> QED
      BY <2>1, <2>2, <2>3 DEF OffsetInv, BatchFollows, UpdatesTakenOnce
  <1>4. CASE SkipNoise \/ TakeCommand \/ TakeMessage
    BY <1>4, TakeKeeps, Zenon DEF SkipNoise, TakeCommand, TakeMessage
  <1>5. CASE Stop \/ EndBatch \/ Resume \/ Sent \/ AskForCode \/ IssueCode \/ HandlerSettles
    BY <1>1, <1>5, Zenon DEF Stop, EndBatch, Resume, Sent, AskForCode, IssueCode, HandlerSettles
  <1>6. CASE Fail \/ RelayClosed
    BY <1>1, <1>6, Zenon DEF Fail, RelayClosed, Throw
  <1>7. CASE \E policy \in Policies : Refuse(policy) \/ Accept(policy)
    BY <1>1, <1>7, Zenon DEF Refuse, Accept
  <1>8. CASE OwnerCommand \/ RelayWorks \/ UNCHANGED vars
    BY <1>1, <1>8, Zenon DEF OwnerCommand, RelayWorks, vars, loopVars
  <1> QED
    BY <1>2, <1>3, <1>4, <1>5, <1>6, <1>7, <1>8, Zenon DEF Next, Loop

\* Every update before the offset was taken exactly once and in order, however
\* often batches are given up and fetched again (the loop of startTelegramBridge).
THEOREM TakenOnce == Spec => []UpdatesTakenOnce
  <1>1. OffsetInv => UpdatesTakenOnce
    BY Zenon DEF OffsetInv
  <1> QED
    BY OffsetStarts, OffsetKeeps, <1>1, PTL DEF Spec

-----------------------------------------------------------------------------
(* The pairing store.                                                      *)

\* What approving the senders g puts into a store.
Keys(g) == UNION {{s, s[1], s[2]} : s \in g}

HasStore(p) == p.at \in {"read", "open", "contended"}

\* Nothing is approved in the file, or in the copy that either process holds, but
\* what the owner approved, or is about to.
StoresOK ==
    /\ granted \subseteq Senders
    /\ {"whole", "store"} \subseteq DOMAIN file
    /\ "approved" \in DOMAIN file.store /\ file.store.approved \subseteq Keys(granted)
    /\ "at" \in DOMAIN gateway /\ "at" \in DOMAIN cli
    /\ HasStore(gateway) => /\ "store" \in DOMAIN gateway
                            /\ "approved" \in DOMAIN gateway.store
                            /\ gateway.store.approved \subseteq Keys(granted)
    /\ HasStore(cli) => /\ {"store", "sender"} \subseteq DOMAIN cli
                        /\ cli.sender \in Senders
                        /\ "approved" \in DOMAIN cli.store
                        /\ cli.store.approved \subseteq Keys(granted \cup {cli.sender})

\* The bridge decides about the sender of an update that it has.
DecidesOnSender ==
    loop = "deciding" =>
        taken[Len(taken)] \in 1..Len(updates) /\ Sender \in Senders

PassInv == OffsetInv /\ StoresOK /\ DecidesOnSender /\ OnlyApprovedPass

LEMMA MoreKeys == \A g, h : Keys(g) \subseteq Keys(g \cup h)
  BY Zenon DEF Keys

\* A sender who passes as paired shares a user or a chat with one that was approved.
LEMMA PairedIsGranted ==
    ASSUME StoresOK, NEW sender \in Senders, Pairing!Paired(sender)
    PROVE  \E s \in granted : s[1] = sender[1] \/ s[2] = sender[2]
  <1>1. PICK x \in {sender, sender[1], sender[2]} : x \in Keys(granted)
    BY Zenon DEF StoresOK, Pairing!Paired, Pairing!IsApproved, Pairing!ReadStore
  <1>2. PICK s \in granted : x \in {s, s[1], s[2]}
    BY <1>1, Zenon DEF Keys
  <1>3. /\ s \in Senders /\ s[1] \in Users /\ s[2] \in Chats
        /\ sender[1] \in Users /\ sender[2] \in Chats
    BY BridgeAssumption, Zenon DEF StoresOK
  <1> QED
    BY <1>1, <1>2, <1>3, BridgeAssumption, Zenon

\* Either process, step by step.
LEMMA RequestKeeps ==
    ASSUME StoresOK, Pairing!Request
    PROVE  StoresOK' /\ UNCHANGED granted
  <1> USE DEF StoresOK, HasStore
  <1>1. CASE Pairing!RequestCode
    BY <1>1 DEF Pairing!RequestCode, Pairing!ReadStore
  <1>2. CASE Pairing!GatewayOpens
    BY <1>2, Zenon DEF Pairing!GatewayOpens, Pairing!Opened, Pairing!Met, Pairing!Writing, Pairing!history
  <1>3. CASE Pairing!GatewayWrites
    BY <1>3, SMTT(60) DEF Pairing!GatewayWrites, Pairing!Write, Pairing!Writing, Pairing!Idle
  <1> QED
    BY <1>1, <1>2, <1>3, Zenon DEF Pairing!Request

LEMMA CommandKeeps ==
    ASSUME StoresOK, Pairing!Command
    PROVE  StoresOK' /\ granted \subseteq granted'
  <1> USE DEF StoresOK, HasStore
  <1>1. ASSUME NEW code \in Codes, Pairing!Approve(code) PROVE StoresOK' /\ UNCHANGED granted
    <2>1. PICK sender \in Senders :
             cli' = [at |-> "read", sender |-> sender,
                     store |-> [approved |-> Pairing!ReadStore(Pairing!NoCodes).approved
                                                \cup {sender, sender[1], sender[2]},
                                pending |-> [Pairing!ReadStore(Pairing!NoCodes).pending
                                                EXCEPT ![sender] = Pairing!None]]]
      BY <1>1, Zenon DEF Pairing!Approve
    <2>2. Pairing!ReadStore(Pairing!NoCodes).approved \subseteq Keys(granted)
      BY Zenon DEF Pairing!ReadStore
    <2>3. cli'.store.approved \subseteq Keys(granted \cup {sender})
      BY <2>1, <2>2 DEF Keys
    <2>4. UNCHANGED <<file, gateway, granted>>
      BY <1>1, Zenon DEF Pairing!Approve
    <2> QED
      BY <2>1, <2>3, <2>4, Zenon
  <1>2. CASE Pairing!CliOpens
    BY <1>2, Zenon DEF Pairing!CliOpens, Pairing!Opened, Pairing!Met, Pairing!Writing, Pairing!history
  <1>3. CASE Pairing!CliWrites
    <2>1. /\ HasStore(cli) /\ granted' = granted \cup {cli.sender} /\ cli' = [at |-> "idle"]
          /\ UNCHANGED gateway /\ file'.store = cli.store
          /\ {"whole", "store"} \subseteq DOMAIN file'
      BY <1>3 DEF Pairing!CliWrites, Pairing!Write, Pairing!Writing, Pairing!Idle
    <2>2. Keys(granted) \subseteq Keys(granted')
      BY <2>1, MoreKeys, Zenon
    <2> QED
      BY <2>1, <2>2, Zenon
  <1> QED
    BY <1>1, <1>2, <1>3, Zenon DEF Pairing!Command

-----------------------------------------------------------------------------
(* Who passes.                                                             *)

LEMMA PassStarts == Init => PassInv
  <1> SUFFICES ASSUME Init PROVE PassInv
    BY Zenon
  <1>1. StoresOK
    BY Zenon DEF Init, Pairing!Init, Pairing!Idle, Pairing!Empty, StoresOK, HasStore, Keys
  <1>2. DecidesOnSender /\ OnlyApprovedPass
    BY Zenon DEF Init, DecidesOnSender, OnlyApprovedPass
  <1> QED
    BY <1>1, <1>2, OffsetStarts, Zenon DEF PassInv

\* Nobody is decided about, and nobody new is passed on.
LEMMA NobodyPasses ==
    ASSUME PassInv, StoresOK', granted \subseteq granted', accepted' \in {accepted, {}},
           \/ loop' # "deciding"
           \/ UNCHANGED <<loop, taken, updates>>
    PROVE  DecidesOnSender' /\ OnlyApprovedPass'
  <1>1. DecidesOnSender'
    BY Zenon DEF PassInv, DecidesOnSender, Sender
  <1>2. OnlyApprovedPass'
    BY Zenon DEF PassInv, OnlyApprovedPass
  <1> QED
    BY <1>1, <1>2, Zenon

LEMMA PassKeeps == PassInv /\ [Next]_vars => PassInv'
  <1> SUFFICES ASSUME PassInv, [Next]_vars PROVE PassInv'
    BY Zenon
  <1>1. OffsetInv'
    BY OffsetKeeps, Zenon DEF PassInv
  <1>2. ASSUME UNCHANGED pairingVars PROVE StoresOK' /\ UNCHANGED granted
    BY <1>2, Zenon DEF pairingVars, PassInv, StoresOK, HasStore
  <1> SUFFICES StoresOK' /\ DecidesOnSender' /\ OnlyApprovedPass'
    BY <1>1, Zenon DEF PassInv
  <1>3. ASSUME NEW kind \in Kinds, Arrive(kind) PROVE StoresOK' /\ DecidesOnSender' /\ OnlyApprovedPass'
    <2>1. updates' = Append(updates, kind) /\ UNCHANGED <<pairingVars, loop, taken, accepted>>
      BY <1>3, Zenon DEF Arrive
    <2>2. /\ Len(updates') = Len(updates) + 1 /\ Len(updates) \in Nat
          /\ \A i \in 1..Len(updates) : updates'[i] = updates[i]
      BY <2>1 DEF PassInv, OffsetInv
    <2>3. DecidesOnSender'
      BY <2>1, <2>2 DEF PassInv, DecidesOnSender, Sender
    <2>4. StoresOK' /\ UNCHANGED granted
      BY <1>2, <2>1, Zenon
    <2> QED
      BY <2>1, <2>3, <2>4, Zenon DEF PassInv, OnlyApprovedPass
  <1>4. CASE TakeMessage
    <2>1. UNCHANGED <<pairingVars, updates, accepted>> /\ Take("deciding")
          /\ updates[Head(batch)] \in Senders
      BY <1>4, Zenon DEF TakeMessage
    <2>2. DecidesOnSender'
      BY <2>1, TakeKeeps, Zenon DEF PassInv, DecidesOnSender, Sender
    <2> QED
      BY <1>2, <2>1, <2>2, Zenon DEF PassInv, OnlyApprovedPass
  <1>5. ASSUME NEW policy \in Policies, Accept(policy)
        PROVE  StoresOK' /\ DecidesOnSender' /\ OnlyApprovedPass'
    <2>1. /\ UNCHANGED pairingVars /\ loop' = "handling" /\ Sender \in Senders
          /\ accepted' = {[sender |-> Sender, policy |-> policy]}
      BY <1>5, Zenon DEF Accept, PassInv, DecidesOnSender
    <2>2. \/ policy = "open" \/ InAllowlist(Sender)
          \/ policy = "pairing" /\ \E s \in granted : s[1] = Sender[1] \/ s[2] = Sender[2]
      BY <1>5, <2>1, PairedIsGranted, Zenon DEF Accept, Accepts, PassInv
    <2>3. OnlyApprovedPass'
      BY <1>2, <2>1, <2>2 DEF OnlyApprovedPass, InAllowlist
    <2> QED
      BY <1>2, <2>1, <2>3, Zenon DEF DecidesOnSender
  <1>6. CASE OwnerCommand
    BY <1>6, CommandKeeps, NobodyPasses, Zenon DEF OwnerCommand, loopVars, PassInv
  <1>7. CASE IssueCode
    BY <1>7, RequestKeeps, NobodyPasses, Zenon DEF IssueCode, PassInv
  <1>8. CASE AskForCode
    <2>1. StoresOK' /\ UNCHANGED granted
      BY <1>8, Zenon DEF AskForCode, Pairing!Ask, Pairing!history, PassInv, StoresOK, HasStore
    <2> QED
      BY <1>8, <2>1, NobodyPasses, Zenon DEF AskForCode
  <1>9. CASE \/ Stop \/ Poll \/ SkipNoise \/ TakeCommand \/ EndBatch \/ Fail \/ Resume \/ Sent
             \/ HandlerSettles \/ RelayClosed \/ RelayWorks \/ UNCHANGED vars
             \/ \E policy \in Policies : Refuse(policy)
    <2>1. UNCHANGED pairingVars
      BY <1>9, Zenon DEF Stop, Poll, SkipNoise, TakeCommand, EndBatch, Fail, Resume, Sent, HandlerSettles,
                  RelayClosed, RelayWorks, Refuse, vars
    <2>2. accepted' \in {accepted, {}}
      BY <1>9, Zenon DEF Stop, Poll, SkipNoise, TakeCommand, EndBatch, Fail, Throw, Resume, Sent,
                  HandlerSettles, RelayClosed, RelayWorks, Refuse, vars, loopVars
    <2>3. loop' # "deciding" \/ UNCHANGED <<loop, taken, updates>>
      BY <1>9, Zenon DEF Stop, Poll, SkipNoise, TakeCommand, Take, EndBatch, Fail, Throw, Resume, Sent,
                  HandlerSettles, RelayClosed, RelayWorks, Refuse, vars, loopVars
    <2> QED
      BY <1>2, <2>1, <2>2, <2>3, NobodyPasses, Zenon
  <1> QED
    BY <1>3, <1>4, <1>5, <1>6, <1>7, <1>8, <1>9, Zenon DEF Next, Loop

\* Only approved senders pass, however the bridge and the command line read,
\* truncate, mix and overwrite the store (isPairingApproved, approvePairingCode).
THEOREM OnlyTheApprovedPass == Spec => []OnlyApprovedPass
  <1>1. PassInv => OnlyApprovedPass
    BY Zenon DEF PassInv
  <1> QED
    BY PassStarts, PassKeeps, <1>1, PTL DEF Spec

-----------------------------------------------------------------------------
(* The store while the two processes take turns.                           *)

\* A store that has the owner's approvals, and every code that was told.
Right(store, codes, owners) ==
    /\ {"approved", "pending"} \subseteq DOMAIN store /\ DOMAIN store.pending = Senders
    /\ \A s \in owners : s \in store.approved
    /\ \A s \in Senders :
          codes[s] # Pairing!None => s \in store.approved \/ store.pending[s] = codes[s]

\* One process has the store in hand at most, with nothing lost in its copy, and
\* the file is whole unless it is being written, or never was.
TakesTurns ==
    /\ gateway.at \in {"idle", "checked", "read", "open"} /\ cli.at \in {"idle", "read", "open"}
    /\ ~ HasStore(gateway) \/ ~ HasStore(cli)
    /\ file.whole => Right(file.store, told, granted)
    /\ HasStore(gateway) => {"at", "sender", "store"} \subseteq DOMAIN gateway /\ Right(gateway.store, told, granted)
    /\ HasStore(cli) => /\ {"at", "sender", "store"} \subseteq DOMAIN cli /\ Right(cli.store, told, granted)
                        /\ cli.sender \in cli.store.approved
    /\ file.whole \/ gateway.at = "open" \/ cli.at = "open" \/ (told = Pairing!NoCodes /\ granted = {})

TurnsInv ==
    /\ DOMAIN told = Senders /\ DOMAIN default = Senders
    /\ {"whole", "store"} \subseteq DOMAIN file
    /\ ~ overlap => TakesTurns

LEMMA TurnsStart == Init => TurnsInv
  BY DEF Init, Pairing!Init, Pairing!Idle, Pairing!Empty, Pairing!NoCodes, TurnsInv, TakesTurns, HasStore

\* What a process reads while the other one has nothing in hand.
LEMMA ReadsRight ==
    ASSUME TurnsInv, TakesTurns, ~ HasStore(gateway), ~ HasStore(cli), NEW dflt, DOMAIN dflt = Senders
    PROVE  Right(Pairing!ReadStore(dflt), told, granted)
  <1>1. CASE file.whole
    BY <1>1, Zenon DEF TakesTurns, Pairing!ReadStore
  <1>2. CASE ~ file.whole
    <2>1. told = Pairing!NoCodes /\ granted = {}
      BY <1>2, Zenon DEF TakesTurns, HasStore
    <2>2. Pairing!ReadStore(dflt) = [approved |-> {}, pending |-> dflt]
      BY <1>2, Zenon DEF Pairing!ReadStore
    <2> QED
      BY <2>1, <2>2 DEF Right, Pairing!NoCodes
  <1> QED
    BY <1>1, <1>2, Zenon

LEMMA TurnsOfRequest ==
    ASSUME TurnsInv, Pairing!Request
    PROVE  TurnsInv'
  <1>1. CASE Pairing!RequestCode
    <2> DEFINE store == Pairing!ReadStore(default)
               sender == gateway.sender
    <2>1. PICK code :
             LET asked == [store.pending EXCEPT ![sender] = code] IN
             /\ store.pending[sender] # Pairing!None => code = store.pending[sender]
             /\ gateway' = [at |-> "read", sender |-> sender,
                            store |-> [store EXCEPT !.pending = asked]]
             /\ default' = IF file.whole THEN default ELSE asked
      BY <1>1, Zenon DEF Pairing!RequestCode
    <2>2. UNCHANGED <<file, cli, told, granted>> /\ gateway.at = "checked"
      BY <1>1, Zenon DEF Pairing!RequestCode
    <2>3. ~ overlap' => ~ overlap /\ cli.at = "idle"
      BY <1>1, Zenon DEF Pairing!RequestCode
    <2>4. DOMAIN default' = Senders
      BY <2>1, Zenon DEF TurnsInv, Pairing!ReadStore
    <2>5. ASSUME ~ overlap' PROVE TakesTurns'
      <3>1. TakesTurns /\ cli.at = "idle" /\ ~ HasStore(gateway) /\ ~ HasStore(cli)
        BY <2>2, <2>3, <2>5, Zenon DEF TurnsInv, HasStore
      <3>2. Right(store, told, granted)
        BY <3>1, ReadsRight, Zenon DEF TurnsInv
      <3> HIDE DEF store, sender
      <3> DEFINE asked == [store.pending EXCEPT ![sender] = code]
                 next == [store EXCEPT !.pending = asked]
      <3>3. {"approved", "pending"} \subseteq DOMAIN store /\ DOMAIN store.pending = Senders
        BY <3>2, Zenon DEF Right
      <3>4. next.approved = store.approved /\ next.pending = asked /\ DOMAIN next = DOMAIN store
        BY <3>3, Zenon
      <3>5. DOMAIN asked = Senders /\ \A s \in Senders : store.pending[s] # Pairing!None => asked[s] = store.pending[s]
        BY <2>1, <3>3, Zenon
      <3>6. gateway' = [at |-> "read", sender |-> sender, store |-> next]
        BY <2>1, Zenon
      <3> HIDE DEF asked, next
      <3>7. Right(next, told, granted)
        BY <3>2, <3>3, <3>4, <3>5, Zenon DEF Right
      <3>8. Right(next, told', granted')
        BY <2>2, <3>7, Zenon DEF Right
      <3> QED
        BY <2>2, <3>1, <3>6, <3>8, Zenon DEF TakesTurns, HasStore, Right
    <2> QED
      BY <2>2, <2>4, <2>5, Zenon DEF TurnsInv
  <1>2. CASE Pairing!GatewayOpens
    <2>1. /\ UNCHANGED <<default, told, granted, overlap>> /\ gateway.at = "read"
          /\ file' = [file EXCEPT !.whole = FALSE]
          /\ gateway' = Pairing!Opened(gateway, cli) /\ cli' = Pairing!Met(cli)
      BY <1>2, Zenon DEF Pairing!GatewayOpens, Pairing!history
    <2>2. ASSUME TakesTurns PROVE TakesTurns'
      <3>1. HasStore(gateway) /\ cli.at = "idle"
        BY <2>1, <2>2, Zenon DEF TakesTurns, HasStore
      <3>2. gateway' = [gateway EXCEPT !.at = "open"] /\ cli' = cli
        BY <2>1, <3>1, Zenon DEF Pairing!Opened, Pairing!Met, Pairing!Writing
      <3>3. gateway'.at = "open" /\ DOMAIN gateway' = DOMAIN gateway /\ gateway'.store = gateway.store
        BY <3>1, <3>2, <2>2, Zenon DEF TakesTurns
      <3> QED
        BY <2>1, <2>2, <3>1, <3>2, <3>3, ZenonT(60) DEF TakesTurns, HasStore, Right, TurnsInv
    <2>3. ~ overlap' => ~ overlap
      BY <2>1, Zenon
    <2> QED
      BY <2>1, <2>2, <2>3, Zenon DEF TurnsInv
  <1>3. CASE Pairing!GatewayWrites
    <2>1. /\ UNCHANGED <<default, cli, granted, overlap>> /\ gateway' = [at |-> "idle"]
          /\ told' = [told EXCEPT ![gateway.sender] = gateway.store.pending[gateway.sender]]
          /\ gateway.at \in {"open", "contended"}
      BY <1>3, Zenon DEF Pairing!GatewayWrites, Pairing!Write, Pairing!Writing, Pairing!Idle
    <2>2. PICK whole \in BOOLEAN : /\ file' = [whole |-> whole, store |-> gateway.store]
                                   /\ gateway.at # "contended" => whole = TRUE
      BY <1>3, Zenon DEF Pairing!GatewayWrites, Pairing!Write
    <2>3. ASSUME TakesTurns PROVE TakesTurns'
      <3>1. HasStore(gateway) /\ gateway.at = "open" /\ cli.at = "idle" /\ Right(gateway.store, told, granted)
        BY <2>1, <2>3, Zenon DEF TakesTurns, HasStore
      <3>2. file' = [whole |-> TRUE, store |-> gateway.store]
        BY <2>2, <3>1, Zenon
      <3>3. Right(gateway.store, told, granted) => \A s \in Senders :
               told'[s] # Pairing!None =>
                  s \in gateway.store.approved \/ gateway.store.pending[s] = told'[s]
        BY <2>1, Zenon DEF TurnsInv, Right
      <3>4. Right(file'.store, told', granted')
        BY <2>1, <3>1, <3>2, <3>3, Zenon DEF Right
      <3> QED
        BY <2>1, <3>1, <3>2, <3>4, Zenon DEF TakesTurns, HasStore, Right
    <2>4. ~ overlap' => ~ overlap
      BY <2>1, Zenon
    <2>5. DOMAIN told' = Senders /\ DOMAIN default' = Senders /\ {"whole", "store"} \subseteq DOMAIN file'
      BY <2>1, <2>2, Zenon DEF TurnsInv
    <2> QED
      BY <2>3, <2>4, <2>5, Zenon DEF TurnsInv
  <1> QED
    BY <1>1, <1>2, <1>3, Zenon DEF Pairing!Request

LEMMA TurnsOfCommand ==
    ASSUME TurnsInv, Pairing!Command
    PROVE  TurnsInv'
  <1>1. ASSUME NEW code \in Codes, Pairing!Approve(code) PROVE TurnsInv'
    <2> DEFINE store == Pairing!ReadStore(Pairing!NoCodes)
    <2>1. PICK sender \in Senders :
             cli' = [at |-> "read", sender |-> sender,
                     store |-> [approved |-> store.approved \cup {sender, sender[1], sender[2]},
                                pending |-> [store.pending EXCEPT ![sender] = Pairing!None]]]
      BY <1>1, Zenon DEF Pairing!Approve
    <2>2. UNCHANGED <<file, default, gateway, told, granted>> /\ cli.at = "idle"
      BY <1>1, Zenon DEF Pairing!Approve
    <2>3. ~ overlap' => ~ overlap /\ gateway.at \in {"idle", "checked"}
      BY <1>1, Zenon DEF Pairing!Approve
    <2>4. ASSUME ~ overlap' PROVE TakesTurns'
      <3>1. TakesTurns /\ ~ HasStore(gateway) /\ ~ HasStore(cli)
        BY <2>2, <2>3, <2>4, Zenon DEF TurnsInv, HasStore
      <3>2. Right(store, told, granted)
        BY <3>1, ReadsRight, Zenon DEF Pairing!NoCodes
      <3> HIDE DEF store
      <3> DEFINE next == [approved |-> store.approved \cup {sender, sender[1], sender[2]},
                          pending |-> [store.pending EXCEPT ![sender] = Pairing!None]]
      <3>3. Right(next, told, granted) /\ sender \in next.approved
        BY <3>2, Zenon DEF Right
      <3>4. cli' = [at |-> "read", sender |-> sender, store |-> next]
        BY <2>1, Zenon
      <3> HIDE DEF next
      <3>5. Right(cli'.store, told', granted')
        BY <2>2, <3>3, <3>4, Zenon DEF Right
      <3> QED
        BY <2>2, <3>1, <3>3, <3>4, <3>5, Zenon DEF TakesTurns, HasStore, Right
    <2> QED
      BY <2>2, <2>4, Zenon DEF TurnsInv
  <1>2. CASE Pairing!CliOpens
    <2>1. /\ UNCHANGED <<default, told, granted, overlap>> /\ cli.at = "read"
          /\ file' = [file EXCEPT !.whole = FALSE]
          /\ cli' = Pairing!Opened(cli, gateway) /\ gateway' = Pairing!Met(gateway)
      BY <1>2, Zenon DEF Pairing!CliOpens, Pairing!history
    <2>2. ASSUME TakesTurns PROVE TakesTurns'
      <3>1. HasStore(cli) /\ gateway.at \in {"idle", "checked"}
        BY <2>1, <2>2, Zenon DEF TakesTurns, HasStore
      <3>2. cli' = [cli EXCEPT !.at = "open"] /\ gateway' = gateway
        BY <2>1, <3>1, Zenon DEF Pairing!Opened, Pairing!Met, Pairing!Writing
      <3>3. /\ cli'.at = "open" /\ DOMAIN cli' = DOMAIN cli
            /\ cli'.store = cli.store /\ cli'.sender = cli.sender
        BY <3>1, <3>2, <2>2, Zenon DEF TakesTurns
      <3> QED
        BY <2>1, <2>2, <3>1, <3>2, <3>3, ZenonT(60) DEF TakesTurns, HasStore, Right, TurnsInv
    <2>3. ~ overlap' => ~ overlap
      BY <2>1, Zenon
    <2> QED
      BY <2>1, <2>2, <2>3, Zenon DEF TurnsInv
  <1>3. CASE Pairing!CliWrites
    <2>1. /\ UNCHANGED <<default, gateway, told, overlap>> /\ cli' = [at |-> "idle"]
          /\ granted' = granted \cup {cli.sender} /\ cli.at \in {"open", "contended"}
      BY <1>3, Zenon DEF Pairing!CliWrites, Pairing!Write, Pairing!Writing, Pairing!Idle
    <2>2. PICK whole \in BOOLEAN : /\ file' = [whole |-> whole, store |-> cli.store]
                                   /\ cli.at # "contended" => whole = TRUE
      BY <1>3, Zenon DEF Pairing!CliWrites, Pairing!Write
    <2>3. ASSUME TakesTurns PROVE TakesTurns'
      <3>1. /\ HasStore(cli) /\ cli.at = "open" /\ gateway.at \in {"idle", "checked"}
            /\ Right(cli.store, told, granted) /\ cli.sender \in cli.store.approved
        BY <2>1, <2>3, Zenon DEF TakesTurns, HasStore
      <3>2. file' = [whole |-> TRUE, store |-> cli.store]
        BY <2>2, <3>1, Zenon
      <3>3. Right(file'.store, told', granted')
        BY <2>1, <3>1, <3>2, Zenon DEF Right
      <3> QED
        BY <2>1, <3>1, <3>2, <3>3, Zenon DEF TakesTurns, HasStore, Right
    <2>4. ~ overlap' => ~ overlap
      BY <2>1, Zenon
    <2>5. DOMAIN told' = Senders /\ DOMAIN default' = Senders /\ {"whole", "store"} \subseteq DOMAIN file'
      BY <2>1, <2>2, Zenon DEF TurnsInv
    <2> QED
      BY <2>3, <2>4, <2>5, Zenon DEF TurnsInv
  <1> QED
    BY <1>1, <1>2, <1>3, Zenon DEF Pairing!Command

\* As long as the bridge and the command line never had the store in hand at
\* once, every approval is in it and every code that was told still works
\* (requestPairingCode and approvePairingCode, each a read and a rewrite).
THEOREM StoreInTurnsIsExact == Spec => []SerialStoreIsExact
  <1>1. TurnsInv /\ [Next]_vars => TurnsInv'
    <2> SUFFICES ASSUME TurnsInv, [Next]_vars PROVE TurnsInv'
      BY Zenon
    <2>1. CASE UNCHANGED pairingVars
      BY <2>1, Zenon DEF pairingVars, TurnsInv, TakesTurns, HasStore, Right
    <2>2. CASE OwnerCommand
      BY <2>2, TurnsOfCommand, Zenon DEF OwnerCommand
    <2>3. CASE IssueCode
      BY <2>3, TurnsOfRequest, Zenon DEF IssueCode
    <2>4. CASE AskForCode
      <3>1. /\ UNCHANGED <<file, default, cli, told, granted, overlap>>
            /\ gateway.at = "idle" /\ gateway'.at = "checked"
        BY <2>4, Zenon DEF AskForCode, Pairing!Ask, Pairing!history
      <3> QED
        BY <3>1, Zenon DEF TurnsInv, TakesTurns, HasStore, Right
    <2> QED
      BY <2>1, <2>2, <2>3, <2>4, Zenon
         DEF Next, Loop, vars, Arrive, Stop, Poll, SkipNoise, TakeCommand, TakeMessage, EndBatch,
             Fail, Resume, Sent, Refuse, Accept, HandlerSettles, RelayClosed, RelayWorks
  <1>2. TurnsInv => SerialStoreIsExact
    BY Zenon DEF TurnsInv, TakesTurns, Right, SerialStoreIsExact, Pairing!Exact, Pairing!IsApproved
  <1> QED
    BY TurnsStart, <1>1, <1>2, PTL DEF Spec

-----------------------------------------------------------------------------
(* The relay (ProgressRelay.tla).  A chat's order and limit depend on all that is
   between the assistant and the chat, so the invariant speaks of the queue, the
   chain of sends and the chat together, and numbers the messages of the chain. *)

\* The texts of a queue, that they are in the order they were said, and that all of
\* one set were said before all of another.
Members(q) == {q[i] : i \in 1..Len(q)}
Rising(q) == \A i, j \in 1..Len(q) : i < j => q[i] < q[j]
Below(S, T) == \A m \in S : \A n \in T : m < n

\* What the proof needs of the types.
RelayTypes ==
    /\ said \in Nat /\ sentCount \in Nat
    /\ queue \in Seq(Nat) /\ delivered \in Seq(Nat) /\ chain \in Seq(Seq(Nat))
    /\ DOMAIN armed = {"schedule", "rearm"} /\ armed.schedule \in Nat /\ armed.rearm \in Nat

\* The timer that flushTimer names is armed.
HandleIsArmed ==
    /\ flushTimer = "schedule" => armed.schedule > 0
    /\ flushTimer = "rearm" => armed.rearm > 0
    /\ flushTimer \in {"null", "schedule", "rearm", "fired"}

\* What waits is taken by a timer, or by the end of a send.
Batches == {i \in 1..Len(chain) : chain[i] # <<>>}
QueueIsServed ==
    Progress!Open /\ queue # <<>> /\ sentCount < MaxProgress
    => armed.schedule + armed.rearm > 0 \/ flushTimer = "fired" \/ Batches # {}

\* Each message of the chain with a number of the batches up to it: those of the
\* chat come first, and no number is beyond those that were counted.
Numbers(c) ==
    /\ c \in [0..Len(chain) -> 0..sentCount]
    /\ Len(delivered) <= c[0] * BatchLines
    /\ \A i \in 1..Len(chain) : c[i - 1] <= c[i] /\ (chain[i] # <<>> => c[i - 1] < c[i])
CountIsKept ==
    /\ sentCount <= MaxProgress
    /\ \A i \in 1..Len(chain) : Len(chain[i]) <= BatchLines
    /\ \E c \in [0..Len(chain) -> 0..sentCount] : Numbers(c)

\* The chat, the chain and the queue, one after the other, are in order.
OrderIsKept ==
    /\ Rising(delivered) /\ Rising(queue) /\ \A i \in 1..Len(chain) : Rising(chain[i])
    /\ Below(Members(delivered), Members(queue))
    /\ \A i \in 1..Len(chain) : /\ Below(Members(delivered), Members(chain[i]))
                                /\ Below(Members(chain[i]), Members(queue))
                                /\ Members(chain[i]) \subseteq 0..said
    /\ \A i, j \in 1..Len(chain) : i < j => Below(Members(chain[i]), Members(chain[j]))
    /\ Members(delivered) \subseteq 0..said /\ Members(queue) \subseteq 0..said

\* The invariant of a relay.
RelayInv == RelayTypes /\ HandleIsArmed /\ QueueIsServed /\ CountIsKept /\ OrderIsKept

\* A sequence without its first element.
LEMMA TailAt ==
    ASSUME NEW S, NEW q \in Seq(S), q # <<>>
    PROVE  /\ Tail(q) \in Seq(S) /\ Head(q) \in S /\ Head(q) = q[1] /\ Len(q) \in Nat \ {0}
           /\ Len(Tail(q)) = Len(q) - 1
           /\ \A i \in 1..Len(q) - 1 : Tail(q)[i] = q[i + 1]
  OBVIOUS

\* A sequence with one element more.
LEMMA AddAt ==
    ASSUME NEW S, NEW q \in Seq(S), NEW x \in S
    PROVE  /\ Append(q, x) \in Seq(S) /\ Len(q) \in Nat /\ Len(Append(q, x)) = Len(q) + 1
           /\ \A i \in 1..Len(q) : Append(q, x)[i] = q[i]
           /\ Append(q, x)[Len(q) + 1] = x
  OBVIOUS

\* The two parts of a sequence.
LEMMA CutAt ==
    ASSUME NEW S, NEW q \in Seq(S), NEW n \in 0..Len(q)
    PROVE  LET front == SubSeq(q, 1, n)
               back == SubSeq(q, n + 1, Len(q))
           IN  /\ front \in Seq(S) /\ Len(front) = n /\ \A i \in 1..n : front[i] = q[i]
               /\ back \in Seq(S) /\ Len(back) = Len(q) - n /\ \A i \in 1..Len(q) - n : back[i] = q[i + n]
  <1>1. Len(q) \in Nat /\ n \in Nat /\ n <= Len(q)
    OBVIOUS
  <1>2. LET front == SubSeq(q, 1, n) IN front \in Seq(S) /\ Len(front) = n /\ \A i \in 1..n : front[i] = q[i]
    BY <1>1
  <1>3. LET back == SubSeq(q, n + 1, Len(q))
        IN  back \in Seq(S) /\ Len(back) = Len(q) - n /\ \A i \in 1..Len(q) - n : back[i] = q[i + n]
    BY <1>1
  <1> QED BY <1>2, <1>3, Zenon

\* Two sequences, one after the other.
LEMMA JoinAt ==
    ASSUME NEW S, NEW c \in Seq(S), NEW d \in Seq(S)
    PROVE  /\ c \o d \in Seq(S) /\ Len(c) \in Nat /\ Len(d) \in Nat /\ Len(c \o d) = Len(c) + Len(d)
           /\ \A i \in 1..Len(c) + Len(d) : (c \o d)[i] = IF i <= Len(c) THEN c[i] ELSE d[i - Len(c)]
  OBVIOUS

\* A text said later than those before it keeps the order.
LEMMA AddRising ==
    ASSUME NEW q \in Seq(Nat), NEW n \in Nat, Rising(q), Below(Members(q), {n})
    PROVE  Append(q, n) \in Seq(Nat) /\ Rising(Append(q, n)) /\ Members(Append(q, n)) \subseteq Members(q) \cup {n}
  <1> DEFINE a == Append(q, n)
  <1>1. /\ a \in Seq(Nat) /\ Len(q) \in Nat /\ Len(a) = Len(q) + 1
        /\ \A i \in 1..Len(q) : a[i] = q[i]
        /\ a[Len(q) + 1] = n
    BY AddAt, ZenonT(60)
  <1> HIDE DEF a
  <1>2. \A i \in 1..Len(a) : (i = Len(q) + 1 /\ a[i] = n) \/ (i \in 1..Len(q) /\ a[i] = q[i])
    <2>1. \A i \in 1..Len(a) : i = Len(q) + 1 \/ i \in 1..Len(q)
      BY <1>1
    <2> QED BY <1>1, <2>1, Zenon
  <1>3. Members(a) \subseteq Members(q) \cup {n}
    BY <1>2, Zenon DEF Members
  <1>4. ASSUME NEW i \in 1..Len(a), NEW j \in 1..Len(a), i < j PROVE a[i] < a[j]
    <2>1. i \in 1..Len(q) /\ a[i] = q[i] /\ q[i] \in Members(q)
      <3>1. Len(q) \in Nat /\ Len(a) = Len(q) + 1
        BY <1>1, Zenon
      <3>2. i \in 1..Len(q)
        BY <1>4, <3>1
      <3> QED BY <1>1, <3>2, Zenon DEF Members
    <2>2. CASE a[j] = n
      BY <2>1, <2>2, Zenon DEF Below
    <2>3. CASE j \in 1..Len(q) /\ a[j] = q[j]
      BY <2>1, <2>3, <1>4, Zenon DEF Rising
    <2> QED BY <1>2, <2>2, <2>3, Zenon
  <1> QED BY <1>1, <1>3, <1>4, Zenon DEF Rising, a

\* A batch taken from the front of the queue: both parts are in order, and the
\* batch is before what is left.
LEMMA CutRising ==
    ASSUME NEW q \in Seq(Nat), NEW n \in 0..Len(q), Rising(q)
    PROVE  LET front == SubSeq(q, 1, n)
               back == SubSeq(q, n + 1, Len(q))
           IN  /\ front \in Seq(Nat) /\ Rising(front) /\ Members(front) \subseteq Members(q) /\ Len(front) = n
               /\ back \in Seq(Nat) /\ Rising(back) /\ Members(back) \subseteq Members(q)
               /\ Below(Members(front), Members(back))
  <1> DEFINE front == SubSeq(q, 1, n)
             back == SubSeq(q, n + 1, Len(q))
  <1>1. /\ front \in Seq(Nat) /\ Len(front) = n /\ \A i \in 1..n : front[i] = q[i]
        /\ back \in Seq(Nat) /\ Len(back) = Len(q) - n /\ \A i \in 1..Len(q) - n : back[i] = q[i + n]
    BY CutAt, Zenon
  <1> HIDE DEF front, back
  <1>2. n \in Nat /\ Len(q) \in Nat /\ n <= Len(q)
    OBVIOUS
  <1>3. \A i \in 1..Len(front) : i \in 1..Len(q) /\ i <= n /\ front[i] = q[i]
    BY <1>1, <1>2
  <1>4. \A i \in 1..Len(back) : i + n \in 1..Len(q) /\ i + n > n /\ back[i] = q[i + n]
    BY <1>1, <1>2
  <1>5. Rising(front) /\ Members(front) \subseteq Members(q)
    BY <1>3, Zenon DEF Rising, Members
  <1>6. Rising(back)
    <2> SUFFICES ASSUME NEW i \in 1..Len(back), NEW j \in 1..Len(back), i < j PROVE back[i] < back[j]
      BY Zenon DEF Rising
    <2>1. i + n < j + n
      BY <1>2
    <2> QED BY <1>4, <2>1, Zenon DEF Rising
  <1>7. Members(back) \subseteq Members(q)
    BY <1>4, Zenon DEF Members
  <1>8. Below(Members(front), Members(back))
    <2> SUFFICES ASSUME NEW i \in 1..Len(front), NEW j \in 1..Len(back) PROVE front[i] < back[j]
      BY Zenon DEF Below, Members
    <2>1. /\ i \in 1..Len(q) /\ i <= n /\ front[i] = q[i]
          /\ j + n \in 1..Len(q) /\ j + n > n /\ back[j] = q[j + n]
      BY <1>3, <1>4, Zenon
    <2>2. i < j + n
      BY <1>2, <2>1
    <2> QED BY <2>1, <2>2, Zenon DEF Rising
  <1> QED BY <1>1, <1>5, <1>6, <1>7, <1>8, Zenon DEF front, back

\* A batch behind what the chat has already.
LEMMA JoinRising ==
    ASSUME NEW c \in Seq(Nat), NEW d \in Seq(Nat), Rising(c), Rising(d), Below(Members(c), Members(d))
    PROVE  c \o d \in Seq(Nat) /\ Rising(c \o d) /\ Members(c \o d) \subseteq Members(c) \cup Members(d)
  <1> DEFINE a == c \o d
  <1>1. /\ a \in Seq(Nat) /\ Len(c) \in Nat /\ Len(d) \in Nat /\ Len(a) = Len(c) + Len(d)
        /\ \A i \in 1..Len(c) + Len(d) : a[i] = IF i <= Len(c) THEN c[i] ELSE d[i - Len(c)]
    BY JoinAt, Zenon
  <1> HIDE DEF a
  <1>2. \A i \in 1..Len(a) : \/ i \in 1..Len(c) /\ a[i] = c[i]
                             \/ i > Len(c) /\ i - Len(c) \in 1..Len(d) /\ a[i] = d[i - Len(c)]
    <2> TAKE i \in 1..Len(a)
    <2>1. CASE i <= Len(c)
      BY <1>1, <2>1
    <2>2. CASE i > Len(c)
      BY <1>1, <2>2
    <2> QED BY <1>1, <2>1, <2>2
  <1>3. \A i \in 1..Len(c) : c[i] \in Members(c)
    BY Zenon DEF Members
  <1>4. \A i \in 1..Len(d) : d[i] \in Members(d)
    BY Zenon DEF Members
  <1>5. Members(a) \subseteq Members(c) \cup Members(d)
    BY <1>2, <1>3, <1>4, Zenon DEF Members
  <1>6. ASSUME NEW i \in 1..Len(a), NEW j \in 1..Len(a), i < j PROVE a[i] < a[j]
    <2>1. CASE i \in 1..Len(c) /\ a[i] = c[i] /\ j \in 1..Len(c) /\ a[j] = c[j]
      BY <1>6, <2>1, Zenon DEF Rising
    <2>2. CASE i \in 1..Len(c) /\ a[i] = c[i] /\ j > Len(c) /\ j - Len(c) \in 1..Len(d) /\ a[j] = d[j - Len(c)]
      BY <1>3, <1>4, <2>2, Zenon DEF Below
    <2>3. CASE /\ i > Len(c) /\ i - Len(c) \in 1..Len(d) /\ a[i] = d[i - Len(c)]
               /\ j > Len(c) /\ j - Len(c) \in 1..Len(d) /\ a[j] = d[j - Len(c)]
      <3>1. i - Len(c) < j - Len(c)
        BY <1>1, <1>6
      <3> QED BY <2>3, <3>1, Zenon DEF Rising
    <2>4. ~ (i > Len(c) /\ j \in 1..Len(c))
      BY <1>1, <1>6
    <2> QED BY <1>2, <2>1, <2>2, <2>3, <2>4, Zenon
  <1> QED BY <1>1, <1>5, <1>6, Zenon DEF Rising, a

-----------------------------------------------------------------------------
(* The chain.                                                              *)

\* The limits of a relay.
LEMMA RelayConstants == MaxProgress \in Nat /\ BatchLines \in Nat /\ BatchLines # 0
  BY BridgeAssumption, Zenon

\* More batches hold no fewer texts.
LEMMA MoreTimes == \A m, n, k \in Nat : m <= n => m * k <= n * k
  OBVIOUS

\* One batch more.
LEMMA OnceMore == \A m, k \in Nat : (m + 1) * k = m * k + k
  OBVIOUS

\* A number of texts.
LEMMA TimesNat == \A m, k \in Nat : m * k \in Nat
  OBVIOUS

\* One batch more holds the texts of one message more.
LEMMA MoreTexts == \A l, x, b, p, q \in Nat : l <= p /\ x <= b /\ p + b <= q => l + x <= q
  OBVIOUS

\* One timer more is armed.
LEMMA OneMore == \A m, n \in Nat : m + 1 \in Nat /\ m + 1 > 0 /\ (m + 1) + n > 0 /\ n + (m + 1) > 0
  OBVIOUS

\* One timer less is armed.
LEMMA OneLess == \A m \in Nat : m > 0 => m - 1 \in Nat
  OBVIOUS

\* flushNow: a message for the chain is counted, and numbered after the others.
LEMMA AddNumber ==
    ASSUME RelayTypes, CountIsKept, NEW b \in Seq(Nat), Len(b) <= BatchLines,
           chain' = Append(chain, b), delivered' = delivered,
           sentCount' \in Nat, sentCount <= sentCount', sentCount' <= MaxProgress,
           b # <<>> => sentCount < sentCount'
    PROVE  CountIsKept'
  <1>1. PICK c \in [0..Len(chain) -> 0..sentCount] : Numbers(c)
    BY Zenon DEF CountIsKept
  <1> DEFINE n == Len(chain)
             d == [i \in 0..n + 1 |-> IF i = n + 1 THEN sentCount' ELSE c[i]]
  <1>2. /\ n \in Nat /\ Len(chain') = n + 1 /\ chain'[n + 1] = b
        /\ \A i \in 1..n : chain'[i] = chain[i]
    BY AddAt DEF RelayTypes
  <1>3. \A i \in 0..n : c[i] \in 0..sentCount /\ c[i] \in 0..sentCount'
    <2>1. 0..sentCount \subseteq 0..sentCount'
      BY DEF RelayTypes
    <2> QED BY <1>1, <2>1, Zenon
  <1>4. /\ d \in [0..Len(chain') -> 0..sentCount']
        /\ d[n + 1] = sentCount' /\ d[0] = c[0] /\ \A i \in 0..n : d[i] = c[i]
    <2>1. /\ n + 1 \in 0..n + 1 /\ 0 \in 0..n /\ sentCount' \in 0..sentCount'
          /\ \A i \in 0..n : i # n + 1 /\ i \in 0..n + 1
          /\ \A i \in 0..n + 1 : i = n + 1 \/ i \in 0..n
      BY <1>2
    <2>2. \A i \in 0..n + 1 : d[i] = IF i = n + 1 THEN sentCount' ELSE c[i]
      BY Zenon
    <2>3. d \in [0..n + 1 -> 0..sentCount']
      BY <1>3, <2>1, Zenon
    <2> QED BY <1>2, <2>1, <2>2, <2>3, Zenon
  <1> HIDE DEF n, d
  <1>5. ASSUME NEW i \in 1..n + 1
        PROVE  d[i - 1] <= d[i] /\ (chain'[i] # <<>> => d[i - 1] < d[i]) /\ Len(chain'[i]) <= BatchLines
    <2>1. CASE i \in 1..n
      <3>1. i - 1 \in 0..n /\ i \in 0..n
        BY <1>2, <2>1
      <3>2. d[i - 1] = c[i - 1] /\ d[i] = c[i] /\ chain'[i] = chain[i]
        BY <1>2, <1>4, <2>1, <3>1, Zenon
      <3> QED BY <1>1, <2>1, <3>2, Zenon DEF Numbers, CountIsKept, n
    <2>2. CASE i = n + 1
      <3>1. i - 1 = n /\ n \in 0..n
        BY <1>2, <2>2
      <3>2. d[i - 1] \in 0..sentCount /\ d[i] = sentCount' /\ chain'[i] = b
        BY <1>2, <1>3, <1>4, <2>2, <3>1, Zenon
      <3>3. sentCount \in Nat /\ d[i - 1] \in Nat /\ d[i - 1] <= sentCount
        BY <3>2 DEF RelayTypes
      <3> QED BY <3>2, <3>3
    <2> QED BY <1>2, <2>1, <2>2
  <1>6. Len(delivered') <= d[0] * BatchLines
    BY <1>1, <1>4, Zenon DEF Numbers
  <1> QED BY <1>2, <1>4, <1>5, <1>6, Zenon DEF CountIsKept, Numbers

\* A send ends: the first message of the chain leaves it, and the chat's number
\* becomes that message's.
LEMMA TakeNumber ==
    ASSUME RelayTypes, CountIsKept, chain # <<>>, chain' = Tail(chain), sentCount' = sentCount,
           delivered' \in Seq(Nat),
           \/ Len(delivered') = Len(delivered)
           \/ Head(chain) # <<>> /\ Len(delivered') = Len(delivered) + Len(Head(chain))
    PROVE  CountIsKept'
  <1>1. PICK c \in [0..Len(chain) -> 0..sentCount] : Numbers(c)
    BY Zenon DEF CountIsKept
  <1> DEFINE n == Len(chain')
             d == [i \in 0..n |-> c[i + 1]]
  <1>2. /\ n \in Nat /\ Len(chain) = n + 1 /\ Head(chain) = chain[1] /\ Head(chain) \in Seq(Nat)
        /\ \A i \in 1..n : chain'[i] = chain[i + 1]
    BY TailAt DEF RelayTypes
  <1>3. \A i \in 0..n + 1 : c[i] \in 0..sentCount
    BY <1>1, <1>2, Zenon DEF RelayTypes
  <1>4. \A i \in 0..n : i + 1 \in 0..n + 1
    BY <1>2
  <1>5. d \in [0..n -> 0..sentCount] /\ \A i \in 0..n : d[i] = c[i + 1]
    BY <1>3, <1>4, Zenon
  <1>6. d[0] = c[1] /\ c[0] \in Nat /\ c[1] \in Nat
    BY <1>2, <1>3, <1>5 DEF RelayTypes
  <1> HIDE DEF d
  <1>7. ASSUME NEW i \in 1..n
        PROVE  d[i - 1] <= d[i] /\ (chain'[i] # <<>> => d[i - 1] < d[i]) /\ Len(chain'[i]) <= BatchLines
    <2>1. i + 1 \in 1..Len(chain) /\ i - 1 \in 0..n /\ i \in 0..n /\ (i + 1) - 1 = i /\ (i - 1) + 1 = i
      BY <1>2
    <2>2. d[i - 1] = c[(i + 1) - 1] /\ d[i] = c[i + 1] /\ chain'[i] = chain[i + 1]
      BY <1>2, <1>5, <2>1, Zenon
    <2> QED BY <1>1, <2>1, <2>2, Zenon DEF Numbers, CountIsKept
  <1>8. Len(delivered') <= d[0] * BatchLines
    <2>1. 1 \in 1..Len(chain) /\ 1 - 1 = 0
      BY <1>2
    <2>2. /\ c[0] <= c[1] /\ (chain[1] # <<>> => c[0] < c[1]) /\ Len(delivered) <= c[0] * BatchLines
          /\ Len(chain[1]) <= BatchLines
      BY <1>1, <2>1, Zenon DEF Numbers, CountIsKept
    <2>3. BatchLines \in Nat /\ Len(delivered) \in Nat /\ Len(delivered') \in Nat /\ Len(chain[1]) \in Nat
      BY <1>2, RelayConstants DEF RelayTypes
    <2>4. c[0] * BatchLines <= c[1] * BatchLines /\ c[0] * BatchLines \in Nat /\ c[1] * BatchLines \in Nat
      BY <1>6, <2>2, <2>3, MoreTimes, TimesNat, Zenon
    <2>5. CASE Len(delivered') = Len(delivered)
      BY <1>6, <2>2, <2>3, <2>4, <2>5
    <2>6. CASE Head(chain) # <<>> /\ Len(delivered') = Len(delivered) + Len(Head(chain))
      <3>1. c[0] + 1 <= c[1] /\ c[0] + 1 \in Nat
        BY <1>2, <1>6, <2>2, <2>6
      <3>2. (c[0] + 1) * BatchLines <= c[1] * BatchLines
        BY <1>6, <2>3, <3>1, MoreTimes, Zenon
      <3>3. (c[0] + 1) * BatchLines = c[0] * BatchLines + BatchLines
        BY <1>6, <2>3, OnceMore, Zenon
      <3>4. c[0] * BatchLines + BatchLines <= c[1] * BatchLines
        BY <3>2, <3>3, Zenon
      <3>5. Len(delivered) + Len(chain[1]) <= c[1] * BatchLines
        BY <2>2, <2>3, <2>4, <3>4, MoreTexts, ZenonT(60)
      <3> QED BY <1>2, <1>6, <2>6, <3>5, Zenon
    <2> QED BY <2>5, <2>6, Zenon
  <1> QED BY <1>5, <1>7, <1>8, Zenon DEF CountIsKept, Numbers

\* Fewer texts stay before fewer texts.
LEMMA FewerBelow ==
    \A S, T, U, V : Below(S, T) /\ U \subseteq S /\ V \subseteq T => Below(U, V)
  BY Zenon DEF Below

\* Less waits, and the chain stays.
LEMMA LessOrder ==
    ASSUME OrderIsKept, said \in Nat, said' \in Nat, said <= said', chain' = chain, delivered' = delivered,
           Rising(queue'), Members(queue') \subseteq Members(queue)
    PROVE  OrderIsKept'
  <1>1. 0..said \subseteq 0..said'
    OBVIOUS
  <1>2. Below(Members(delivered), Members(queue'))
    BY FewerBelow DEF OrderIsKept
  <1>3. \A i \in 1..Len(chain) : Below(Members(chain[i]), Members(queue'))
    BY FewerBelow, Zenon DEF OrderIsKept
  <1> QED BY <1>1, <1>2, <1>3, Zenon DEF OrderIsKept

\* One text more waits.
LEMMA MoreOrder ==
    ASSUME RelayTypes, OrderIsKept, said' = said + 1, chain' = chain, delivered' = delivered,
           queue' = Append(queue, said + 1)
    PROVE  OrderIsKept' /\ queue' \in Seq(Nat) /\ queue' # <<>>
  <1>0. said \in Nat /\ said + 1 \in Nat /\ queue \in Seq(Nat) /\ 0..said \subseteq 0..said' /\ said + 1 \in 0..said'
    BY DEF RelayTypes
  <1>1. \A S : S \subseteq 0..said => Below(S, {said + 1})
    BY <1>0 DEF Below
  <1>2. Below(Members(queue), {said + 1}) /\ Below(Members(delivered), {said + 1})
    BY <1>1, Zenon DEF OrderIsKept
  <1>3. \A i \in 1..Len(chain) : Below(Members(chain[i]), {said + 1})
    BY <1>1, Zenon DEF OrderIsKept
  <1>4. queue' \in Seq(Nat) /\ Rising(queue') /\ Members(queue') \subseteq Members(queue) \cup {said + 1}
    BY <1>0, <1>2, AddRising, Zenon DEF OrderIsKept
  <1>5. \A S : Below(S, Members(queue)) /\ Below(S, {said + 1}) => Below(S, Members(queue'))
    BY <1>4, Zenon DEF Below
  <1>6. queue' # <<>>
    BY <1>0
  <1>7. Below(Members(delivered), Members(queue'))
    BY <1>2, <1>5, Zenon DEF OrderIsKept
  <1>8. \A i \in 1..Len(chain) : Below(Members(chain[i]), Members(queue'))
    BY <1>3, <1>5, Zenon DEF OrderIsKept
  <1>9. Members(queue') \subseteq 0..said'
    BY <1>0, <1>4, Zenon DEF OrderIsKept
  <1> QED BY <1>0, <1>4, <1>6, <1>7, <1>8, <1>9, Zenon DEF OrderIsKept

\* A message is added to the chain.
LEMMA ChainOrder ==
    ASSUME RelayTypes, OrderIsKept, NEW b \in Seq(Nat), chain' = Append(chain, b), delivered' = delivered,
           said' \in Nat, said <= said', Rising(b), Members(b) \subseteq 0..said',
           Rising(queue'), Members(queue') \subseteq Members(queue), Below(Members(b), Members(queue')),
           Below(Members(delivered), Members(b)), \A i \in 1..Len(chain) : Below(Members(chain[i]), Members(b))
    PROVE  OrderIsKept'
  <1> DEFINE n == Len(chain)
  <1>1. /\ n \in Nat /\ Len(chain') = n + 1 /\ chain'[n + 1] = b
        /\ \A i \in 1..n : chain'[i] = chain[i]
    BY AddAt DEF RelayTypes
  <1>2. 0..said \subseteq 0..said'
    BY DEF RelayTypes
  <1>3. \A i \in 1..Len(chain') : (i \in 1..n /\ chain'[i] = chain[i]) \/ (i = n + 1 /\ chain'[i] = b)
    BY <1>1
  <1>4. Below(Members(delivered), Members(queue'))
    BY FewerBelow, Zenon DEF OrderIsKept
  <1>5. ASSUME NEW i \in 1..Len(chain')
        PROVE  /\ Rising(chain'[i])
               /\ Below(Members(delivered), Members(chain'[i]))
               /\ Below(Members(chain'[i]), Members(queue'))
               /\ Members(chain'[i]) \subseteq 0..said'
    <2>1. CASE i \in 1..n /\ chain'[i] = chain[i]
      <3>1. Below(Members(chain[i]), Members(queue'))
        BY <2>1, FewerBelow DEF OrderIsKept
      <3> QED BY <1>2, <2>1, <3>1, Zenon DEF OrderIsKept
    <2> QED BY <1>3, <2>1, Zenon
  <1>6. ASSUME NEW i \in 1..Len(chain'), NEW j \in 1..Len(chain'), i < j
        PROVE  Below(Members(chain'[i]), Members(chain'[j]))
    <2>1. i \in 1..n /\ chain'[i] = chain[i]
      BY <1>1, <1>6
    <2>2. CASE j \in 1..n /\ chain'[j] = chain[j]
      BY <1>6, <2>1, <2>2, Zenon DEF OrderIsKept
    <2> QED BY <1>3, <2>1, <2>2, Zenon
  <1> QED BY <1>2, <1>4, <1>5, <1>6, Zenon DEF OrderIsKept

\* The first message of the chain is sent, or lost.
LEMMA SendOrder ==
    ASSUME RelayTypes, OrderIsKept, chain # <<>>, chain' = Tail(chain), UNCHANGED <<queue, said>>,
           delivered' \in {delivered, delivered \o Head(chain)}
    PROVE  OrderIsKept' /\ delivered' \in Seq(Nat)
  <1>1. /\ Len(chain') \in Nat /\ Len(chain) = Len(chain') + 1 /\ Head(chain) = chain[1] /\ chain[1] \in Seq(Nat)
        /\ \A i \in 1..Len(chain') : chain'[i] = chain[i + 1]
    BY TailAt DEF RelayTypes
  <1>2. /\ 1 \in 1..Len(chain)
        /\ \A i \in 1..Len(chain') : i + 1 \in 1..Len(chain) /\ 1 < i + 1 /\ chain'[i] = chain[i + 1]
    BY <1>1
  <1>3. /\ delivered' \in Seq(Nat) /\ Rising(delivered')
        /\ Members(delivered') \subseteq Members(delivered) \cup Members(chain[1])
    <2>1. CASE delivered' = delivered
      BY <2>1, Zenon DEF OrderIsKept, RelayTypes
    <2>2. CASE delivered' = delivered \o chain[1]
      BY <1>1, <1>2, <2>2, JoinRising, Zenon DEF OrderIsKept, RelayTypes
    <2> QED BY <1>1, <2>1, <2>2, Zenon
  <1>4. \A T : Below(Members(delivered), T) /\ Below(Members(chain[1]), T) => Below(Members(delivered'), T)
    BY <1>3, Zenon DEF Below
  <1>5. Below(Members(delivered'), Members(queue')) /\ Members(delivered') \subseteq 0..said'
    BY <1>2, <1>3, <1>4, Zenon DEF OrderIsKept
  <1>6. ASSUME NEW i \in 1..Len(chain')
        PROVE  /\ Rising(chain'[i])
               /\ Below(Members(delivered'), Members(chain'[i]))
               /\ Below(Members(chain'[i]), Members(queue'))
               /\ Members(chain'[i]) \subseteq 0..said'
    <2>1. i + 1 \in 1..Len(chain) /\ 1 < i + 1 /\ chain'[i] = chain[i + 1]
      BY <1>2, Zenon
    <2>2. Below(Members(delivered), Members(chain[i + 1])) /\ Below(Members(chain[1]), Members(chain[i + 1]))
      BY <1>2, <2>1, Zenon DEF OrderIsKept
    <2> QED BY <1>4, <2>1, <2>2, Zenon DEF OrderIsKept
  <1>7. ASSUME NEW i \in 1..Len(chain'), NEW j \in 1..Len(chain'), i < j
        PROVE  Below(Members(chain'[i]), Members(chain'[j]))
    <2>1. i + 1 < j + 1
      BY <1>7
    <2> QED BY <1>2, <2>1, Zenon DEF OrderIsKept
  <1> QED BY <1>3, <1>5, <1>6, <1>7, Zenon DEF OrderIsKept

-----------------------------------------------------------------------------
(* The steps of the relay.                                                 *)

\* Nothing that is counted changes.
LEMMA SameCount == ASSUME CountIsKept, UNCHANGED <<chain, sentCount, delivered>> PROVE CountIsKept'
  BY Zenon DEF CountIsKept, Numbers

\* Nothing is in order.
LEMMA EmptyRising == Rising(<<>>) /\ Members(<<>>) = {} /\ \A S : Below(S, {}) /\ Below({}, S)
  BY DEF Rising, Members, Below

\* A batch goes to the chain, or what waits is given up.
LEMMA FlushKeeps ==
    ASSUME RelayTypes, CountIsKept, OrderIsKept, Progress!Flush, UNCHANGED <<said, delivered>>
    PROVE  /\ CountIsKept' /\ OrderIsKept'
           /\ queue' \in Seq(Nat) /\ chain' \in Seq(Seq(Nat)) /\ sentCount' \in Nat
           /\ queue' = <<>> \/ Batches' # {}
  <1>1. CASE queue = <<>> \/ sentCount >= MaxProgress
    <2>1. queue' = <<>> /\ UNCHANGED <<sentCount, chain>>
      BY <1>1, Zenon DEF Progress!Flush
    <2>2. CountIsKept'
      BY <2>1, SameCount, Zenon
    <2>3. OrderIsKept'
      BY <2>1, EmptyRising, LessOrder DEF RelayTypes
    <2> QED BY <2>1, <2>2, <2>3 DEF RelayTypes
  <1>2. CASE queue # <<>> /\ ~ (sentCount >= MaxProgress)
    <2> DEFINE n == IF Len(queue) < BatchLines THEN Len(queue) ELSE BatchLines
               b == SubSeq(queue, 1, n)
               q == SubSeq(queue, n + 1, Len(queue))
    <2>1. sentCount' = sentCount + 1 /\ queue' = q /\ chain' = Append(chain, b)
      BY <1>2, Zenon DEF Progress!Flush
    <2>2. n \in 0..Len(queue) /\ n <= BatchLines /\ n # 0 /\ queue \in Seq(Nat)
      BY <1>2, RelayConstants DEF RelayTypes
    <2> HIDE DEF n
    <2>3. /\ b \in Seq(Nat) /\ Rising(b) /\ Members(b) \subseteq Members(queue) /\ Len(b) = n
          /\ q \in Seq(Nat) /\ Rising(q) /\ Members(q) \subseteq Members(queue)
          /\ Below(Members(b), Members(q))
      <3>1. Rising(queue)
        BY Zenon DEF OrderIsKept
      <3> QED BY <2>2, <3>1, CutRising, Zenon
    <2> HIDE DEF b, q
    <2>4. sentCount \in Nat /\ sentCount' \in Nat /\ sentCount <= sentCount' /\ sentCount < sentCount'
          /\ sentCount' <= MaxProgress
      BY <1>2, <2>1, RelayConstants DEF RelayTypes
    <2>5. CountIsKept'
      BY <2>1, <2>2, <2>3, <2>4, AddNumber, Zenon
    <2>6. OrderIsKept'
      <3>1. /\ Below(Members(delivered), Members(b)) /\ Members(b) \subseteq 0..said
            /\ \A i \in 1..Len(chain) : Below(Members(chain[i]), Members(b))
        BY <2>3, FewerBelow, Zenon DEF OrderIsKept
      <3>2. said \in Nat /\ said' = said /\ said <= said'
        BY DEF RelayTypes
      <3> QED BY <2>1, <2>3, <3>1, <3>2, ChainOrder, Zenon
    <2>7. chain' \in Seq(Seq(Nat)) /\ Len(chain) + 1 \in Batches'
      <3>1. /\ Append(chain, b) \in Seq(Seq(Nat)) /\ Len(Append(chain, b)) = Len(chain) + 1 /\ Len(chain) \in Nat
            /\ Append(chain, b)[Len(chain) + 1] = b
        BY <2>3, AddAt DEF RelayTypes
      <3>2. b # <<>>
        BY <2>2, <2>3
      <3>3. Len(chain) + 1 \in 1..Len(chain')
        BY <2>1, <3>1
      <3> QED BY <2>1, <3>1, <3>2, <3>3, Zenon DEF Batches
    <2> QED BY <2>1, <2>3, <2>4, <2>5, <2>6, <2>7, Zenon
  <1> QED BY <1>1, <1>2, Zenon

\* An assistant text is queued (onEvent).
LEMMA TextKeeps == ASSUME RelayInv, Progress!Text PROVE RelayInv'
  <1> USE DEF RelayInv
  <1>1. /\ said' = said + 1 /\ said \in Nat /\ said' \in Nat /\ said <= said'
        /\ UNCHANGED <<sentCount, chain, closing, delivered>> /\ Progress!Open
    BY DEF Progress!Text, RelayTypes
  <1>2. CountIsKept'
    BY <1>1, SameCount, Zenon
  <1>3. CASE UNCHANGED <<queue, flushTimer, armed>>
    <2>1. OrderIsKept'
      BY <1>1, <1>3, LessOrder, Zenon DEF OrderIsKept
    <2>2. HandleIsArmed' /\ RelayTypes'
      BY <1>1, <1>3, Zenon DEF HandleIsArmed, RelayTypes
    <2>3. QueueIsServed'
      BY <1>1, <1>3, Zenon DEF QueueIsServed, Batches, Progress!Open
    <2> QED BY <1>2, <2>1, <2>2, <2>3, Zenon
  <1>4. CASE queue' = Append(queue, said') /\ Progress!ScheduleFlush
    <2>1. OrderIsKept' /\ queue' \in Seq(Nat)
      BY <1>1, <1>4, MoreOrder, Zenon
    <2>2. CASE flushTimer = "null"
      <3>1. flushTimer' = "schedule" /\ armed' = [armed EXCEPT !.schedule = armed.schedule + 1]
        BY <1>4, <2>2, Zenon DEF Progress!ScheduleFlush
      <3>2. /\ DOMAIN armed' = {"schedule", "rearm"} /\ armed'.schedule = armed.schedule + 1
            /\ armed'.rearm = armed.rearm
        BY <3>1, Zenon DEF RelayTypes
      <3>3. armed'.schedule \in Nat /\ armed'.schedule > 0 /\ armed'.schedule + armed'.rearm > 0
        BY <3>2, OneMore, Zenon DEF RelayTypes
      <3>4. RelayTypes' /\ HandleIsArmed'
        BY <1>1, <2>1, <3>1, <3>2, <3>3, Zenon DEF RelayTypes, HandleIsArmed
      <3>5. QueueIsServed'
        BY <3>3, Zenon DEF QueueIsServed
      <3> QED BY <1>2, <2>1, <3>4, <3>5, Zenon
    <2>3. CASE flushTimer # "null"
      <3>1. UNCHANGED <<flushTimer, armed>>
        BY <1>4, <2>3, Zenon DEF Progress!ScheduleFlush
      <3>2. RelayTypes' /\ HandleIsArmed' /\ QueueIsServed'
        BY <1>1, <2>1, <2>3, <3>1 DEF RelayTypes, HandleIsArmed, QueueIsServed
      <3> QED BY <1>2, <2>1, <3>2, Zenon
    <2> QED BY <2>2, <2>3, Zenon
  <1> QED BY <1>3, <1>4, Zenon DEF Progress!Text

\* A captcha's notice goes to the chain at once (onEvent).
LEMMA CaptchaKeeps == ASSUME RelayInv, Progress!Captcha PROVE RelayInv'
  <1> USE DEF RelayInv
  <1>1. /\ said' = said + 1 /\ said \in Nat /\ said' \in Nat /\ said <= said' /\ chain' = Append(chain, <<>>)
        /\ UNCHANGED <<queue, sentCount, flushTimer, armed, closing, delivered>>
    BY DEF Progress!Captcha, RelayTypes
  <1>2. <<>> \in Seq(Nat) /\ Len(<<>>) <= BatchLines
    BY RelayConstants
  <1>3. CountIsKept'
    <2>1. sentCount' \in Nat /\ sentCount <= sentCount' /\ sentCount' <= MaxProgress
      BY <1>1 DEF RelayTypes, CountIsKept
    <2> QED BY <1>1, <1>2, <2>1, AddNumber, Zenon
  <1>4. OrderIsKept'
    <2>1. Rising(queue) /\ Members(<<>>) \subseteq 0..said'
      BY EmptyRising, Zenon DEF OrderIsKept
    <2> QED BY <1>1, <1>2, <2>1, EmptyRising, ChainOrder, Zenon
  <1>5. /\ chain' \in Seq(Seq(Nat)) /\ Len(chain') = Len(chain) + 1 /\ Len(chain) \in Nat
        /\ \A i \in 1..Len(chain) : chain'[i] = chain[i]
    BY <1>1, <1>2, AddAt DEF RelayTypes
  <1>6. Batches \subseteq Batches'
    BY <1>5 DEF Batches
  <1>7. RelayTypes' /\ HandleIsArmed'
    BY <1>1, <1>5, Zenon DEF RelayTypes, HandleIsArmed
  <1>8. QueueIsServed'
    BY <1>1, <1>6, Zenon DEF QueueIsServed, Progress!Open
  <1> QED BY <1>3, <1>4, <1>7, <1>8, Zenon

\* A timer fires: scheduleFlush's clears the handle, flushNow's own does not.
LEMMA TimerKeeps == ASSUME RelayInv, Progress!ScheduledTimer \/ Progress!RearmedTimer PROVE RelayInv'
  <1> USE DEF RelayInv
  <1>1. Progress!Flush /\ UNCHANGED <<said, closing, delivered>>
    BY Zenon DEF Progress!ScheduledTimer, Progress!RearmedTimer
  <1>2. /\ CountIsKept' /\ OrderIsKept'
        /\ queue' \in Seq(Nat) /\ chain' \in Seq(Seq(Nat)) /\ sentCount' \in Nat
        /\ queue' = <<>> \/ Batches' # {}
    BY <1>1, FlushKeeps, Zenon
  <1>3. CASE Progress!ScheduledTimer
    <2>1. armed' = [armed EXCEPT !.schedule = armed.schedule - 1] /\ armed.schedule > 0 /\ flushTimer' = "null"
      BY <1>3, Zenon DEF Progress!ScheduledTimer
    <2>2. /\ DOMAIN armed' = {"schedule", "rearm"} /\ armed'.schedule = armed.schedule - 1
          /\ armed'.rearm = armed.rearm
      BY <2>1, Zenon DEF RelayTypes
    <2>3. armed'.schedule \in Nat
      BY <2>1, <2>2, OneLess, Zenon DEF RelayTypes
    <2>4. RelayTypes'
      BY <1>1, <1>2, <2>2, <2>3, Zenon DEF RelayTypes
    <2>5. HandleIsArmed'
      BY <2>1, <2>2, Zenon DEF HandleIsArmed
    <2>6. QueueIsServed'
      BY <1>2, Zenon DEF QueueIsServed
    <2> QED BY <1>2, <2>4, <2>5, <2>6, Zenon
  <1>4. CASE Progress!RearmedTimer
    <2>1. /\ armed' = [armed EXCEPT !.rearm = armed.rearm - 1] /\ armed.rearm > 0
          /\ flushTimer' = IF flushTimer = "rearm" THEN "fired" ELSE flushTimer
      BY <1>4, Zenon DEF Progress!RearmedTimer
    <2>2. /\ DOMAIN armed' = {"schedule", "rearm"} /\ armed'.rearm = armed.rearm - 1
          /\ armed'.schedule = armed.schedule
      BY <2>1, Zenon DEF RelayTypes
    <2>3. armed'.rearm \in Nat
      BY <2>1, <2>2, OneLess, Zenon DEF RelayTypes
    <2>4. RelayTypes'
      BY <1>1, <1>2, <2>2, <2>3, Zenon DEF RelayTypes
    <2>5. HandleIsArmed'
      BY <2>1, <2>2, Zenon DEF HandleIsArmed
    <2>6. QueueIsServed'
      BY <1>2, Zenon DEF QueueIsServed
    <2> QED BY <1>2, <2>4, <2>5, <2>6, Zenon
  <1> QED BY <1>3, <1>4, Zenon

\* A message of the chain is sent, or its send throws; after a batch flushNow arms
\* a timer of its own if more waits.
LEMMA SendKeeps == ASSUME RelayInv, Progress!Send PROVE RelayInv'
  <1> USE DEF RelayInv
  <1>1. chain # <<>> /\ chain' = Tail(chain) /\ UNCHANGED <<said, queue, sentCount, closing>>
    BY Zenon DEF Progress!Send
  <1>2. delivered' \in {delivered, delivered \o Head(chain)}
    BY Zenon DEF Progress!Send
  <1>3. OrderIsKept' /\ delivered' \in Seq(Nat)
    BY <1>1, <1>2, SendOrder, Zenon
  <1>4. /\ chain' \in Seq(Seq(Nat)) /\ Len(chain') \in Nat /\ Len(chain) = Len(chain') + 1 /\ Head(chain) = chain[1]
        /\ Head(chain) \in Seq(Nat) /\ \A i \in 1..Len(chain') : chain'[i] = chain[i + 1]
    BY <1>1, TailAt DEF RelayTypes
  <1>5. CountIsKept'
    <2>1. CASE delivered' = delivered
      BY <1>1, <1>3, <2>1, TakeNumber, Zenon
    <2>2. CASE Head(chain) # <<>> /\ delivered' = delivered \o Head(chain)
      <3>1. Len(delivered') = Len(delivered) + Len(Head(chain))
        BY <1>4, <2>2, JoinAt, Zenon DEF RelayTypes
      <3> QED BY <1>1, <1>3, <2>2, <3>1, TakeNumber, Zenon
    <2> QED BY <2>1, <2>2, Zenon DEF Progress!Send
  <1>6. CASE Head(chain) = <<>>
    <2>1. UNCHANGED <<flushTimer, armed>>
      BY <1>6, Zenon DEF Progress!Send
    <2>2. Batches # {} => Batches' # {}
      <3> SUFFICES ASSUME NEW i \in Batches PROVE i - 1 \in Batches'
        BY Zenon
      <3>1. i \in 1..Len(chain) /\ chain[i] # <<>> /\ i # 1
        BY <1>4, <1>6, Zenon DEF Batches
      <3>2. i - 1 \in 1..Len(chain') /\ (i - 1) + 1 = i
        BY <1>4, <3>1
      <3>3. chain'[i - 1] = chain[i]
        BY <1>4, <3>2, Zenon
      <3> QED BY <3>1, <3>2, <3>3, Zenon DEF Batches
    <2>3. RelayTypes' /\ HandleIsArmed'
      BY <1>1, <1>3, <1>4, <2>1, Zenon DEF RelayTypes, HandleIsArmed
    <2>4. QueueIsServed'
      BY <1>1, <2>1, <2>2, Zenon DEF QueueIsServed, Progress!Open
    <2> QED BY <1>3, <1>5, <2>3, <2>4, Zenon
  <1>7. CASE Head(chain) # <<>>
    <2>1. Progress!AfterSend
      BY <1>7, Zenon DEF Progress!Send
    <2>2. CASE Progress!Open /\ queue # <<>> /\ sentCount < MaxProgress
      <3>1. flushTimer' = "rearm" /\ armed' = [armed EXCEPT !.rearm = armed.rearm + 1]
        BY <2>1, <2>2, Zenon DEF Progress!AfterSend
      <3>2. /\ DOMAIN armed' = {"schedule", "rearm"} /\ armed'.rearm = armed.rearm + 1
            /\ armed'.schedule = armed.schedule
        BY <3>1, Zenon DEF RelayTypes
      <3>3. armed'.rearm \in Nat /\ armed'.rearm > 0 /\ armed'.schedule + armed'.rearm > 0
        BY <3>2, OneMore, Zenon DEF RelayTypes
      <3>4. RelayTypes' /\ HandleIsArmed'
        BY <1>1, <1>3, <1>4, <3>1, <3>2, <3>3, Zenon DEF RelayTypes, HandleIsArmed
      <3>5. QueueIsServed'
        BY <3>3, Zenon DEF QueueIsServed
      <3> QED BY <1>3, <1>5, <3>4, <3>5, Zenon
    <2>3. CASE ~ (Progress!Open /\ queue # <<>> /\ sentCount < MaxProgress)
      <3>1. UNCHANGED <<flushTimer, armed>>
        BY <2>1, <2>3, Zenon DEF Progress!AfterSend
      <3>2. RelayTypes' /\ HandleIsArmed'
        BY <1>1, <1>3, <1>4, <3>1, Zenon DEF RelayTypes, HandleIsArmed
      <3>3. QueueIsServed'
        BY <1>1, <2>3, Zenon DEF QueueIsServed, Progress!Open
      <3> QED BY <1>3, <1>5, <3>2, <3>3, Zenon
    <2> QED BY <2>2, <2>3, Zenon
  <1> QED BY <1>6, <1>7, Zenon

\* close clears the timer whose handle it has, and flushes.
LEMMA CloseKeeps == ASSUME RelayInv, Progress!Close PROVE RelayInv'
  <1> USE DEF RelayInv
  <1>1. Progress!Flush /\ UNCHANGED <<said, delivered>> /\ closing' = "flushing" /\ flushTimer' = "null"
    BY Zenon DEF Progress!Close
  <1>2. /\ CountIsKept' /\ OrderIsKept'
        /\ queue' \in Seq(Nat) /\ chain' \in Seq(Seq(Nat)) /\ sentCount' \in Nat
    BY <1>1, FlushKeeps, Zenon
  <1>3. DOMAIN armed' = {"schedule", "rearm"} /\ armed'.schedule \in Nat /\ armed'.rearm \in Nat
    <2>1. CASE flushTimer = "schedule"
      <3>1. armed' = [armed EXCEPT !["schedule"] = armed["schedule"] - 1] /\ armed.schedule > 0
        BY <2>1, Zenon DEF Progress!Close, RelayTypes, HandleIsArmed
      <3> QED BY <3>1 DEF RelayTypes
    <2>2. CASE flushTimer = "rearm"
      <3>1. armed' = [armed EXCEPT !["rearm"] = armed["rearm"] - 1] /\ armed.rearm > 0
        BY <2>2, Zenon DEF Progress!Close, RelayTypes, HandleIsArmed
      <3> QED BY <3>1 DEF RelayTypes
    <2>3. CASE flushTimer \notin {"schedule", "rearm"}
      BY <2>3, Zenon DEF Progress!Close, RelayTypes
    <2> QED BY <2>1, <2>2, <2>3, Zenon
  <1>4. HandleIsArmed' /\ QueueIsServed'
    BY <1>1, Zenon DEF HandleIsArmed, QueueIsServed, Progress!Open
  <1> QED BY <1>1, <1>2, <1>3, <1>4, Zenon DEF RelayTypes

\* Nothing of the relay changes but that it is closed further, and what was said stays.
LEMMA QuietKeeps ==
    ASSUME RelayInv, UNCHANGED <<said, queue, sentCount, flushTimer, armed, chain, delivered>>,
           closing' = closing \/ closing' # "no"
    PROVE  RelayInv'
  <1>1. RelayTypes' /\ HandleIsArmed' /\ CountIsKept' /\ OrderIsKept'
    BY SameCount, Zenon DEF RelayInv, RelayTypes, HandleIsArmed, OrderIsKept
  <1>2. QueueIsServed'
    BY Zenon DEF RelayInv, QueueIsServed, Batches, Progress!Open
  <1> QED BY <1>1, <1>2, Zenon DEF RelayInv

\* A new relay, or none.
LEMMA NewRelay ==
    ASSUME said = 0, queue = <<>>, sentCount = 0, flushTimer = "null",
           armed = [schedule |-> 0, rearm |-> 0], chain = <<>>, delivered = <<>>
    PROVE  RelayInv
  <1>1. RelayTypes /\ HandleIsArmed /\ QueueIsServed
    <2>1. /\ DOMAIN armed = {"schedule", "rearm"} /\ armed.schedule \in Nat /\ armed.rearm \in Nat
          /\ said \in Nat /\ sentCount \in Nat
      BY Zenon
    <2>2. queue \in Seq(Nat) /\ delivered \in Seq(Nat) /\ chain \in Seq(Seq(Nat))
      OBVIOUS
    <2> QED BY <2>1, <2>2, Zenon DEF RelayTypes, HandleIsArmed, QueueIsServed
  <1>2. OrderIsKept
    <2>1. 1..Len(chain) = {}
      OBVIOUS
    <2>2. /\ Rising(delivered) /\ Rising(queue) /\ Members(delivered) = {} /\ Members(queue) = {}
          /\ Below({}, {})
      BY EmptyRising, Zenon
    <2> QED BY <2>1, <2>2, Zenon DEF OrderIsKept
  <1>3. CountIsKept
    <2> DEFINE c == [i \in 0..0 |-> 0]
    <2>1. c \in [0..Len(chain) -> 0..sentCount] /\ c[0] = 0
      OBVIOUS
    <2>2. Numbers(c)
      BY <2>1, RelayConstants DEF Numbers
    <2> QED BY <2>1, <2>2, RelayConstants DEF CountIsKept
  <1> QED BY <1>1, <1>2, <1>3, Zenon DEF RelayInv

\* The same of the relay after a step.
LEMMA FreshRelay ==
    ASSUME NEW state, Progress!Fresh(state)
    PROVE  RelayInv'
  <1> USE DEF Progress!Fresh
  <1>1. RelayTypes' /\ HandleIsArmed' /\ QueueIsServed'
    <2>1. /\ DOMAIN armed' = {"schedule", "rearm"} /\ armed'.schedule \in Nat /\ armed'.rearm \in Nat
          /\ said' \in Nat /\ sentCount' \in Nat
      BY Zenon
    <2>2. queue' \in Seq(Nat) /\ delivered' \in Seq(Nat) /\ chain' \in Seq(Seq(Nat))
      OBVIOUS
    <2> QED BY <2>1, <2>2, Zenon DEF RelayTypes, HandleIsArmed, QueueIsServed
  <1>2. OrderIsKept'
    <2>1. 1..Len(chain') = {}
      OBVIOUS
    <2>2. /\ Rising(delivered') /\ Rising(queue') /\ Members(delivered') = {} /\ Members(queue') = {}
          /\ Below({}, {})
      BY EmptyRising, Zenon
    <2> QED BY <2>1, <2>2, Zenon DEF OrderIsKept
  <1>3. CountIsKept'
    <2> DEFINE c == [i \in 0..0 |-> 0]
    <2>1. c \in [0..Len(chain') -> 0..sentCount'] /\ c[0] = 0
      OBVIOUS
    <2>2. Numbers(c)'
      BY <2>1, RelayConstants DEF Numbers
    <2> QED BY <2>1, <2>2, RelayConstants DEF CountIsKept
  <1> QED BY <1>1, <1>2, <1>3, Zenon DEF RelayInv

\* No relay is open when the bridge starts.
LEMMA RelayStarts == Init => RelayInv
  BY NewRelay, Zenon DEF Init, Progress!Init

\* Every step of the bridge keeps the invariant of the relay.
LEMMA RelayKeeps == RelayInv /\ [Next]_vars => RelayInv'
  <1> SUFFICES ASSUME RelayInv, [Next]_vars PROVE RelayInv'
    BY Zenon
  <1>1. CASE UNCHANGED relayVars
    BY <1>1, QuietKeeps, Zenon DEF relayVars
  <1>2. CASE Progress!Create \/ Progress!Forget
    BY <1>2, FreshRelay, Zenon DEF Progress!Create, Progress!Forget
  <1>3. CASE Progress!Closed \/ Progress!TimePasses \/ Progress!Drain
    BY <1>3, QuietKeeps, Zenon DEF Progress!Closed, Progress!TimePasses, Progress!Drain
  <1>4. CASE Progress!Relay
    BY <1>3, <1>4, TextKeeps, CaptchaKeeps, TimerKeeps, SendKeeps, ZenonT(60) DEF Progress!Relay
  <1>5. CASE Progress!Close
    BY <1>5, CloseKeeps, Zenon
  <1>6. CASE UNCHANGED vars
    BY <1>1, <1>6, Zenon DEF vars
  <1>7. CASE Stop \/ OwnerCommand \/ \E kind \in Kinds : Arrive(kind)
    BY <1>1, <1>7, Zenon DEF Stop, OwnerCommand, Arrive
  <1>8. CASE Poll \/ SkipNoise \/ TakeCommand \/ TakeMessage \/ EndBatch \/ Resume
    BY <1>1, <1>8, Zenon DEF Poll, SkipNoise, TakeCommand, TakeMessage, EndBatch, Resume
  <1>9. CASE Fail \/ Sent \/ RelayClosed
    BY <1>2, <1>3, <1>9, Zenon DEF Fail, Throw, Sent, RelayClosed
  <1>10. CASE AskForCode \/ IssueCode \/ \E policy \in Policies : Refuse(policy) \/ Accept(policy)
    BY <1>1, <1>2, <1>10, Zenon DEF AskForCode, IssueCode, Refuse, Accept
  <1>11. CASE HandlerSettles \/ RelayWorks
    BY <1>4, <1>5, <1>11, Zenon DEF HandlerSettles, RelayWorks
  <1> QED BY <1>6, <1>7, <1>8, <1>9, <1>10, <1>11, ZenonT(60) DEF Next, Loop

\* The inductive invariant of createTelegramProgressRelay, beside the polling loop
\* that creates, closes and forgets relays.
THEOREM RelayIsKept == Spec => []RelayInv
  BY RelayStarts, RelayKeeps, PTL DEF Spec

\* What the invariant says of the chat.
LEMMA KeptIsOrdered == RelayInv => RelayKeepsOrderAndLimit
  <1> SUFFICES ASSUME RelayInv PROVE RelayKeepsOrderAndLimit
    BY Zenon
  <1>1. Progress!Ordered
    BY Zenon DEF RelayInv, OrderIsKept, Rising, Progress!Ordered
  <1>2. PICK c \in [0..Len(chain) -> 0..sentCount] : Numbers(c)
    BY Zenon DEF RelayInv, CountIsKept
  <1>3. sentCount \in Nat /\ Len(delivered) \in Nat /\ Len(chain) \in Nat
    BY DEF RelayInv, RelayTypes
  <1>4. 0 \in 0..Len(chain)
    BY <1>3
  <1>5. c[0] \in 0..sentCount /\ sentCount \in Nat /\ Len(delivered) \in Nat
    BY <1>2, <1>3, <1>4, Zenon
  <1>6. c[0] * BatchLines <= sentCount * BatchLines
    BY <1>5, RelayConstants, MoreTimes
  <1>7. Len(delivered) <= c[0] * BatchLines
    BY <1>2, Zenon DEF Numbers
  <1>8. c[0] * BatchLines \in Nat /\ sentCount * BatchLines \in Nat
    BY <1>5, RelayConstants
  <1>9. Len(delivered) <= sentCount * BatchLines
    BY <1>5, <1>6, <1>7, <1>8
  <1> QED BY <1>1, <1>9, Zenon DEF RelayInv, CountIsKept, Progress!WithinLimit, RelayKeepsOrderAndLimit

\* With an empty chain only a timer serves the queue.
LEMMA ServedIsArmed == RelayInv => ATimerIsArmedUnlessStale
  <1>1. chain = <<>> => Batches = {}
    BY DEF Batches
  <1> QED BY <1>1, Zenon DEF RelayInv, QueueIsServed, ATimerIsArmedUnlessStale, Progress!Waiting

\* However timers, sends, captchas and the loop's steps interleave, a message's relay
\* (createTelegramProgressRelay) sends at most MAX_PROGRESS_MESSAGES batches of at
\* most BATCH_LINES texts, and the texts reach the chat in the order the assistant
\* said them, each at most once.
THEOREM RelayKeepsItsOrder == Spec => []RelayKeepsOrderAndLimit
  BY RelayIsKept, KeptIsOrdered, PTL

\* While texts wait below the limit and no send is under way, a timer is armed or
\* flushTimer holds the handle of one that fired (scheduleFlush and the rearm in
\* flushNow): no order of events leaves the queue with neither.
THEOREM QueuedIsServed == Spec => []ATimerIsArmedUnlessStale
  BY RelayIsKept, ServedIsArmed, PTL

=============================================================================
