---------------------------- MODULE MemoryStore ----------------------------
(***************************************************************************)
(* The durable memory of src/src/agents/tools/memory-tools.ts: one         *)
(* append-only file of lines, each an entry or a delete marker, that every *)
(* chat session of the process reads and writes without a lock.  A tool    *)
(* call reads the whole file, decides, and then appends; memory_compact    *)
(* writes the live entries to a temporary file and renames it over the     *)
(* store; the dashboard truncates the file.  A call is suspended at each   *)
(* of those file operations and any other call may run there.              *)
(*                                                                         *)
(* Text is abstracted: which entry a save updates and which ones it        *)
(* contradicts (string similarity), which entry has the least signal, and  *)
(* which entries a trust tier makes visible are arbitrary choices.  The    *)
(* content of an entry is the set of saves whose text it contains, and its *)
(* size is the number of them.                                             *)
(***************************************************************************)
EXTENDS ArrayFilter

CONSTANTS Calls,        \* slots for concurrent tool calls
          Namespaces,   \* memory namespaces
          Kinds,        \* the kinds of calls made
          MaxStarted,   \* bound on calls; a call's number is also its clock
          MaxCrashes,   \* bound on restarts of the process
          MaxEntries,   \* quota.maxEntries of a namespace
          MaxBytes      \* quota.maxBytes of a namespace

VARIABLES log,          \* memory.jsonl
          call,         \* each slot's call and what it has read
          started, crashes,
          saved,        \* history: [id, text] of the saves that returned
          removed,      \* history: ids for which a removal was written
          stale,        \* history: a rewrite of an entry was overtaken
          loose         \* history: namespaces whose quota is still to be applied

memoryVars == <<log, call, started, crashes, saved, removed, stale, loose>>

ASSUME MemoryAssumption == {MaxStarted, MaxCrashes, MaxEntries, MaxBytes} \subseteq Nat

Entry(id, ns, at, content) ==
  [kind |-> "entry", ids |-> {id}, ns |-> ns, at |-> at, content |-> content]

\* The markers of one appendFile, as one line.
Markers(ids) == [kind |-> "delete", ids |-> ids]

(***************************************************************************)
(* Reading                                                                 *)
(***************************************************************************)

\* loadStoreEntries: scanning backwards, an entry counts unless a later line
\* deletes or repeats its id.
Live(lines) ==
  {k \in DOMAIN lines :
     /\ lines[k].kind = "entry"
     /\ \A j \in k + 1 .. Len(lines) : lines[j].ids \cap lines[k].ids = {}}

Loaded(lines) == {lines[k] : k \in Live(lines)}

LoadedIds(lines) == UNION {e.ids : e \in Loaded(lines)}

InNamespace(ns) == {e \in Loaded(log) : e.ns = ns}

IdsOf(entries) == UNION {e.ids : e \in entries}

\* Mutant: a compaction that goes by the last line of each id and overlooks
\* the delete markers.
CompactedWithDeleted(lines) ==
  InOrder(lines, {k \in DOMAIN lines :
                    /\ lines[k].kind = "entry"
                    /\ \A j \in k + 1 .. Len(lines) :
                         lines[j].kind = "entry" => lines[j].ids # lines[k].ids})

\* What memory_compact writes: the live entries in the order of the file.
Compacted(lines) == InOrder(lines, Live(lines))

(***************************************************************************)
(* Quota                                                                   *)
(***************************************************************************)

Bytes(entries) ==
  Cardinality({p \in entries \X (1 .. MaxStarted) : p[2] \in p[1].content})

Over(entries) == Cardinality(entries) > MaxEntries \/ Bytes(entries) > MaxBytes

\* Mutant: eviction stops one entry early.
VictimsButOne(entries, id) ==
  LET candidates == {e \in entries : e.ids # {id}}
  IN  {V \in SUBSET candidates : \E v \in candidates : ~Over(entries \ (V \cup {v}))}

\* The sets enforceNamespaceQuota may evict: victims are taken one by one
\* until the rest fits or only the protected entry is left.
Victims(entries, id) ==
  LET candidates == {e \in entries : e.ids # {id}}
  IN  {V \in SUBSET candidates :
         /\ ~Over(entries \ V) \/ V = candidates
         /\ V = {} \/ \E v \in V : Over((entries \ V) \cup {v})}

(***************************************************************************)
(* Calls                                                                   *)
(***************************************************************************)

Idle == [op |-> "idle", todo |-> <<>>, base |-> {}, ns |-> {}, save |-> {}]

MemoryInit ==
  /\ log = <<>>
  /\ call = [c \in Calls |-> Idle]
  /\ started = 0 /\ crashes = 0
  /\ saved = {} /\ removed = {} /\ stale = FALSE /\ loose = {}

\* A call of kind op has read the file: it will append the lines todo, which
\* rewrite the entries base.  save names the entry and the text of a save.
Read(c, op, todo, base, ns, save) ==
  /\ op \in Kinds
  /\ call[c] = Idle
  /\ started < MaxStarted
  /\ started' = started + 1
  /\ call' = [call EXCEPT ![c] =
       [op |-> op, todo |-> todo, base |-> base, ns |-> ns, save |-> save]]
  /\ UNCHANGED <<log, crashes, saved, removed, stale, loose>>

\* mergeMemoryContent keeps both texts.
Merge(existing, text) == existing.content \cup {text}

\* pickStoreEntryForUpsert: the entry of the same title or the most similar one,
\* if any.
PickForUpsert(entries) == {{}} \cup {{e} : e \in entries}

\* findPotentialConflicts: entries about the same that say something else.
Conflicts(entries) == SUBSET entries \ {{}}

\* memory_save without a contradiction to replace: a new entry, or an update
\* of the entry picked for upsert under its old id.
Upsert(c, ns) ==
  LET now == started + 1
  IN  \E pick \in PickForUpsert(InNamespace(ns)) :
        \/ /\ pick = {}
           /\ Read(c, "save", <<Entry(now, ns, now, {now})>>, {}, {ns}, {[id |-> now, text |-> now]})
        \/ \E e \in pick :
             Read(c, "save", <<[e EXCEPT !.at = now, !.content = Merge(e, now)]>>,
                  {e}, {ns}, {[id |-> i, text |-> now] : i \in e.ids})

\* maybeAutoSaveMemoryFromUserMessage: at the start of a turn, what the message
\* asks to remember is saved like any other memory; failures are ignored.
AutoSave(c, ns) == Upsert(c, ns)

\* memory_save with onConflict "replace": markers first, then a new entry.
Replace(c, ns) ==
  LET now == started + 1
  IN  /\ "replace" \in Kinds
      /\ \E conflicts \in Conflicts(InNamespace(ns)) :
           Read(c, "save", <<Markers(IdsOf(conflicts)), Entry(now, ns, now, {now})>>,
                {}, {ns}, {[id |-> now, text |-> now]})

\* memory_delete, by id or by title.
Delete(c) ==
  \E e \in Loaded(log) : Read(c, "delete", <<Markers(e.ids)>>, {}, {}, {})

\* An entry is written back as it was read, with new counters.
Touch(c) ==
  \E e \in Loaded(log) :
    Read(c, "touch", <<[e EXCEPT !.at = started + 1]>>, {e}, {}, {})

Feedback(c) == Touch(c)

\* memory_get reinforces what it reads, unless told not to.
Get(c) == Touch(c)

\* memory_prune: of the entries the scope shows, those beyond the keep newest
\* ones and those last updated by threshold.
Pruned(visible, keep, threshold) ==
  {e \in visible : \/ Cardinality({f \in visible : f.at > e.at}) >= keep
                   \/ e.at <= threshold}

Prune(c, ns) ==
  \E visible \in SUBSET InNamespace(ns), keep \in 1 .. MaxStarted, threshold \in 0 .. started :
    /\ Pruned(visible, keep, threshold) # {}
    /\ Read(c, "prune", <<Markers(IdsOf(Pruned(visible, keep, threshold)))>>, {}, {}, {})

\* memory_compact has loaded the entries.
Compact(c) ==
  /\ log # <<>>
  /\ Read(c, "compact", Compacted(log), Loaded(log), {}, {})

(***************************************************************************)
(* Writing                                                                 *)
(***************************************************************************)

Done(c) ==
  /\ call' = [call EXCEPT ![c] = Idle]
  /\ saved' = saved \cup call[c].save

\* appendStoreEntry, appendStoreDeleteMarker(s): the next line is appended.
\* A save goes on to the quota, every other call returns.
AppendLine(c) ==
  LET line == Head(call[c].todo)
      overtaken == line.kind = "entry" /\ ~(call[c].base \subseteq Loaded(log))
  IN  /\ call[c].op # "compact"
      /\ call[c].todo # <<>>
      /\ log' = Append(log, line)
      /\ removed' = IF line.kind = "delete" THEN removed \cup line.ids ELSE removed
      /\ stale' = (stale \/ overtaken)
      /\ loose' = IF overtaken \/ call[c].op = "touch" THEN loose \cup {line.ns} ELSE loose
      /\ \/ /\ call[c].op # "save"
            /\ Done(c)
         \/ /\ call[c].op = "save"
            /\ call' = [call EXCEPT ![c].todo = Tail(@)]
            /\ UNCHANGED saved
      /\ UNCHANGED <<started, crashes>>

\* enforceNamespaceQuota has read the file after the entry was appended.
QuotaReads(c) ==
  /\ call[c].op = "save"
  /\ call[c].todo = <<>>
  /\ \E ns \in call[c].ns, s \in call[c].save :
       \E V \in Victims(InNamespace(ns), s.id) :
         \/ V = {} /\ Done(c)
         \/ /\ V # {}
            /\ call' = [call EXCEPT ![c].op = "evict", ![c].todo = <<Markers(IdsOf(V))>>]
            /\ UNCHANGED saved
  /\ loose' = loose \ call[c].ns
  /\ UNCHANGED <<log, started, crashes, removed, stale>>

\* memory_compact renames the temporary file over the store.
Rename(c) ==
  LET overtaken == call[c].base # Loaded(log)
  IN  /\ call[c].op = "compact"
      /\ log' = call[c].todo
      /\ stale' = (stale \/ overtaken)
      /\ loose' = IF overtaken THEN Namespaces ELSE loose
      /\ Done(c)
      /\ UNCHANGED <<started, crashes, removed>>

\* handleDeleteMemoryStore empties the file from the dashboard.
Erase ==
  /\ "erase" \in Kinds
  /\ log # <<>>
  /\ log' = <<>>
  /\ removed' = removed \cup LoadedIds(log)
  /\ UNCHANGED <<call, started, crashes, saved, stale, loose>>

\* The process stops: every call is lost, between any two of its steps.
Crash ==
  /\ crashes < MaxCrashes
  /\ \E c \in Calls : call[c] # Idle
  /\ crashes' = crashes + 1
  /\ call' = [c \in Calls |-> Idle]
  /\ loose' = loose \cup UNION {call[c].ns : c \in Calls}
  /\ UNCHANGED <<log, started, saved, removed, stale>>

MemoryNext ==
  \/ \E c \in Calls :
       \/ \E ns \in Namespaces : Upsert(c, ns) \/ AutoSave(c, ns) \/ Replace(c, ns) \/ Prune(c, ns)
       \/ Delete(c) \/ Feedback(c) \/ Get(c) \/ Compact(c)
       \/ AppendLine(c) \/ QuotaReads(c) \/ Rename(c)
  \/ Erase
  \/ Crash

MemorySpec == MemoryInit /\ [][MemoryNext]_memoryVars

(***************************************************************************)
(* Properties                                                              *)
(***************************************************************************)

\* As long as no rewrite of an entry was overtaken (stale), however saves,
\* deletions, prunings, touches, compactions and crashes interleave: the text of
\* every memory_save that returned is found in its entry, unless a removal of
\* that entry was written, and no entry comes back after its removal, also once
\* a compaction has dropped the markers.
StoreFollowsCalls ==
  ~stale =>
    /\ \A s \in saved :
         \/ s.id \in removed
         \/ \E e \in Loaded(log) : s.id \in e.ids /\ s.text \in e.content
    /\ removed \cap LoadedIds(log) = {}

\* A namespace within which no save is in progress respects its quota, but
\* for a single entry larger than the quota, although concurrent saves each
\* protect only their own entry.  After an overtaken rewrite, a crash, or a
\* touch (whose counters may lengthen a line) it does so again from the next
\* save on.
QuotaHolds ==
  \A ns \in Namespaces \ loose :
    (\A c \in Calls : ns \notin call[c].ns)
      => ~Over(InNamespace(ns)) \/ Cardinality(InNamespace(ns)) = 1
============================================================================
