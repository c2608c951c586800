------------------------------ MODULE SessionStore ------------------------------
(***************************************************************************)
(* SessionStore (src/src/session/store.ts): session logs, one file each,   *)
(* and an index of them, replaced through a temporary file.  A step is one *)
(* file-system call, the points at which calls of other clients, a failure *)
(* of that call or the end of the process can come in between.             *)
(***************************************************************************)
EXTENDS Naturals, Sequences, SequencesExt, FiniteSets, Selection

CONSTANTS
  Clients,        \* callers of one store, each awaiting its own calls
  Session,        \* session ids; randomUUID() never repeats one
  Calls,          \* the operations that the clients use
  Index,          \* the path of index.json, among those of the session files
  Absent, Torn,   \* no such file; a text that does not parse
  Empty,          \* a file of no text
  ReadsFail,      \* whether reading a session file may fail
  MaxRelabels, MaxAppends, MaxCompacts, MaxFailures, MaxRestarts  \* bounds

ASSUME StoreAssumption ==
  /\ Index \notin Session /\ ReadsFail \in BOOLEAN
  /\ {MaxRelabels, MaxAppends, MaxCompacts, MaxFailures, MaxRestarts} \subseteq Nat

Path == Session \cup {Index}

\* A line of a session file; parent 0 is none, message 0 is a summary.
Entry == [id : Nat, parent : Nat, message : Nat]

\* The index, by the version of each session's name and lane; 0 is not listed.
Indexed == [Session -> Nat]

ASSUME TextAssumption ==
  /\ Absent # Torn /\ Torn # Empty /\ Empty # Absent
  /\ \A text \in {Absent, Torn, Empty} : text \notin Indexed /\ text \notin Seq(Entry)

NoSessions == [s \in Session |-> 0]
Listed(sessions) == {s \in Session : sessions[s] > 0}

VARIABLES
  file, tmp,           \* the texts of the paths and of their temporary files
  initialized, index,  \* the store's memory
  job                  \* of each client: the call it awaits and that call's locals

\* Auxiliary: they record the past and guard nothing but the bounds.
VARIABLES
  used,                \* session ids that have been drawn
  count,               \* of relabels, appends, entry ids, compactions, failures, restarts
  promised             \* what returned calls promised of each session

disk == << file, tmp >>
memory == << initialized, index >>
vars == << disk, memory, job, used, count, promised >>

Idle == [pc |-> "idle", session |-> Index, path |-> Index, handle |-> "none",
         text |-> Absent, entries |-> << >>, todo |-> << >>, said |-> {}]
Nothing == [label |-> 0, messages |-> {}]

Init ==
  /\ file = [p \in Path |-> Absent]
  /\ tmp = [p \in Path |-> Absent]
  /\ initialized = FALSE /\ index = NoSessions
  /\ job = [c \in Clients |-> Idle]
  /\ used = {}
  /\ count = [relabels |-> 0, appends |-> 0, ids |-> 0, compacts |-> 0,
              failures |-> 0, restarts |-> 0]
  /\ promised = [s \in Session |-> Nothing]

At(c, pc) == job[c].pc = pc
Set(c, locals) == job' = [job EXCEPT ![c] = locals]
Goto(c, pc) == Set(c, [job[c] EXCEPT !.pc = pc])

\* A file that does not exist, or has no text that parses, has no entries.
Lines(text) == IF text \in {Absent, Torn, Empty} THEN << >> ELSE text
\* readEntries(): nor has one that cannot be read.
ReadEntries(s) == {Lines(file[s])} \cup (IF ReadsFail THEN {<< >>} ELSE {})
Messages(lines) == [i \in DOMAIN lines |-> lines[i].message]
Ids(lines) == {lines[i].id : i \in DOMAIN lines}
LastId(lines) == IF lines = << >> THEN 0 ELSE Last(lines).id

\* A client whose store is initialized and that has no call under way may call op
\* of a session that requireInfo() finds.
MayCall(c, op) == At(c, "idle") /\ initialized /\ op \in Calls
MayCallOf(c, op, s) == MayCall(c, op) /\ s \in Listed(index)

-------------------------------------------------------------------------------
(* initialize(): the first thing that every call awaits *)

ReadIndex(c) ==
  /\ At(c, "idle") /\ ~ initialized
  /\ Set(c, [Idle EXCEPT !.pc = "load", !.text = file[Index]])
  /\ UNCHANGED << disk, memory, used, count, promised >>

\* A slip: whatever was read is taken for the index.
LoadUnchecked(c) ==
  /\ At(c, "load")
  /\ index' = job[c].text
  /\ initialized' = TRUE
  /\ Set(c, Idle)
  /\ UNCHANGED << disk, used, count, promised >>

\* initialized is not looked at again: of two calls that come first, the one that
\* reads later discards what the other has added meanwhile.
Load(c) ==
  /\ At(c, "load")
  /\ index' = IF job[c].text \in {Absent, Torn, Empty} THEN NoSessions ELSE job[c].text
  /\ initialized' = TRUE
  /\ Set(c, Idle)
  /\ UNCHANGED << disk, used, count, promised >>

-------------------------------------------------------------------------------
(* persistIndex(), whose steps compact() also takes with a session's path *)

\* JSON.stringify(): what is written is the index as it is now.
Persist(c) ==
  /\ At(c, "persist")
  /\ Set(c, [job[c] EXCEPT !.pc = "open", !.path = Index, !.text = index])
  /\ UNCHANGED << disk, memory, used, count, promised >>

\* A slip: the file itself is written, without a temporary one.
OpenInPlace(c) ==
  /\ At(c, "open")
  /\ file' = [file EXCEPT ![job[c].path] = Empty]
  /\ Set(c, [job[c] EXCEPT !.pc = "write", !.handle = "file"])
  /\ UNCHANGED << tmp, memory, used, count, promised >>

\* writeFile() truncates the temporary file, whoever else has it open.
Open(c) ==
  /\ At(c, "open")
  /\ tmp' = [tmp EXCEPT ![job[c].path] = Empty]
  /\ Set(c, [job[c] EXCEPT !.pc = "write", !.handle = "tmp"])
  /\ UNCHANGED << file, memory, used, count, promised >>

\* Over another client's text the end of a longer one remains.
Over(old, new) == IF old = Empty THEN {new} ELSE {new, Torn}

\* It writes to the file it opened, which may have been renamed or replaced since.
Write(c) ==
  LET p == job[c].path
  IN  /\ At(c, "write")
      /\ \/ /\ job[c].handle = "tmp"
            /\ \E text \in Over(tmp[p], job[c].text) : tmp' = [tmp EXCEPT ![p] = text]
            /\ UNCHANGED file
         \/ /\ job[c].handle = "file"
            /\ \E text \in Over(file[p], job[c].text) : file' = [file EXCEPT ![p] = text]
            /\ UNCHANGED tmp
         \/ job[c].handle = "none" /\ UNCHANGED disk
      /\ Set(c, [job[c] EXCEPT !.pc = "rename", !.handle = "none"])
      /\ UNCHANGED << memory, used, count, promised >>

\* The call returns.
Promise(c) ==
  LET s == job[c].session
  IN  promised' = IF s \in Listed(index)
                  THEN [promised EXCEPT ![s].label = index[s],
                                        ![s].messages = @ \cup job[c].said]
                  ELSE promised

\* What a handle of the path refers to once its temporary file is renamed.
Renamed(handle) == IF handle = "tmp" THEN "file" ELSE "none"

Rename(c) ==
  LET p == job[c].path
      next == IF p # Index THEN "persist"                  \* compact()
              ELSE IF job[c].todo # << >> THEN "fill"      \* branch()
              ELSE "idle"
  IN  /\ At(c, "rename")
      /\ tmp[p] # Absent
      /\ file' = [file EXCEPT ![p] = tmp[p]]
      /\ tmp' = [tmp EXCEPT ![p] = Absent]
      /\ job' = [d \in Clients |->
                   IF d = c THEN IF next = "idle" THEN Idle ELSE [job[c] EXCEPT !.pc = next]
                   ELSE IF job[d].path = p
                   THEN [job[d] EXCEPT !.handle = Renamed(job[d].handle)]
                   ELSE job[d]]
      /\ IF next = "idle" THEN Promise(c) ELSE UNCHANGED promised
      /\ UNCHANGED << memory, used, count >>

\* A file-system call fails and the operation rejects, keeping what it has done;
\* a rename fails by itself once another client has renamed the temporary file.
Throws(c) ==
  /\ job[c].pc \in {"create", "append", "fill", "open", "write", "rename"}
  /\ \/ /\ count.failures < MaxFailures
        /\ count' = [count EXCEPT !.failures = @ + 1]
     \/ /\ At(c, "rename") /\ tmp[job[c].path] = Absent
        /\ UNCHANGED count
  /\ Set(c, Idle)
  /\ UNCHANGED << disk, memory, used, promised >>

-------------------------------------------------------------------------------
(* The operations *)

Create(c, s) ==
  /\ MayCall(c, "create") /\ s \notin used
  /\ used' = used \cup {s}
  /\ Set(c, [Idle EXCEPT !.pc = "create", !.session = s])
  /\ UNCHANGED << disk, memory, count, promised >>

\* The file is written and, when that returns, the session indexed.
CreateFile(c) ==
  LET s == job[c].session
  IN  /\ At(c, "create")
      /\ file' = [file EXCEPT ![s] = Empty]
      /\ index' = [index EXCEPT ![s] = 1]
      /\ Goto(c, "persist")
      /\ UNCHANGED << tmp, initialized, used, count, promised >>

\* A slip: the change is not persisted.
RelabelUnsaved(c, s) ==
  /\ MayCallOf(c, "relabel", s) /\ count.relabels < MaxRelabels
  /\ count' = [count EXCEPT !.relabels = @ + 1]
  /\ index' = [index EXCEPT ![s] = @ + 1]
  /\ promised' = [promised EXCEPT ![s].label = index'[s]]
  /\ UNCHANGED << disk, initialized, job, used >>

\* rename() and setLane()
Relabel(c, s) ==
  /\ MayCallOf(c, "relabel", s) /\ count.relabels < MaxRelabels
  /\ count' = [count EXCEPT !.relabels = @ + 1]
  /\ index' = [index EXCEPT ![s] = @ + 1]
  /\ Set(c, [Idle EXCEPT !.pc = "persist", !.session = s])
  /\ UNCHANGED << disk, initialized, used, promised >>

\* The entries are read for the parent that the new one will have.
AppendTo(c, s, lines) ==
  /\ MayCallOf(c, "append", s) /\ count.appends < MaxAppends
  /\ count' = [count EXCEPT !.appends = @ + 1]
  /\ Set(c, [Idle EXCEPT !.pc = "append", !.session = s, !.said = {count'.appends},
                         !.entries = lines])
  /\ UNCHANGED << disk, memory, used, promised >>

\* A slip: the parent is the entry that was appended last, to whichever session.
NewEntryAnywhere(c) == [id |-> count.ids + 1, parent |-> count.ids,
                        message |-> CHOOSE m \in job[c].said : TRUE]

NewEntry(c) == [id |-> count.ids + 1, parent |-> LastId(job[c].entries),
                message |-> CHOOSE m \in job[c].said : TRUE]

\* A slip: the file is rewritten from what was read.
AppendLineRewriting(c) ==
  LET s == job[c].session
  IN  /\ At(c, "append")
      /\ file' = [file EXCEPT ![s] = Append(job[c].entries, NewEntry(c))]
      /\ count' = [count EXCEPT !.ids = @ + 1]
      /\ Goto(c, "persist")
      /\ UNCHANGED << tmp, memory, used, promised >>

AppendLine(c) ==
  LET s == job[c].session
  IN  /\ At(c, "append")
      /\ file' = [file EXCEPT ![s] = Append(Lines(@), NewEntry(c))]
      /\ count' = [count EXCEPT !.ids = @ + 1]
      /\ Goto(c, "persist")
      /\ UNCHANGED << tmp, memory, used, promised >>

\* The entries are read, then the branch is created, then it is filled.
Branch(c, s, t, lines, cutoff) ==
  /\ MayCallOf(c, "branch", s) /\ t \notin used
  /\ used' = used \cup {t}
  /\ Set(c, [Idle EXCEPT !.pc = "create", !.session = t,
                         !.todo = SubSeq(lines, 1, cutoff)])
  /\ UNCHANGED << disk, memory, count, promised >>

\* Every entry gets a new id, and its parent that one's.
Renewed(lines) ==
  [i \in DOMAIN lines |->
     LET parents == {j \in 1 .. i - 1 : lines[j].id = lines[i].parent}
     IN  [lines[i] EXCEPT !.id = count.ids + i,
                          !.parent = IF parents = {} THEN 0
                                     ELSE count.ids + CHOOSE j \in parents : TRUE]]

Fill(c) ==
  LET todo == job[c].todo
  IN  /\ At(c, "fill")
      /\ file' = [file EXCEPT ![job[c].session] = Renewed(todo)]
      /\ count' = [count EXCEPT !.ids = @ + Len(todo)]
      /\ Set(c, [job[c] EXCEPT !.pc = "persist", !.todo = << >>,
                               !.said = ToSet(Messages(todo))])
      /\ UNCHANGED << tmp, memory, used, promised >>

Summary == [id |-> count.ids + 1, parent |-> 0, message |-> 0]

Kept(lines, keep) == {i \in DOMAIN lines : lines[i].id \in keep}

\* A slip: the kept entries keep their parents.
RewrittenUnlinked(lines, keep) == << Summary >> \o ElementsAt(lines, Kept(lines, keep))

\* A slip: the entries that should be kept are the ones dropped.
RewrittenInverted(lines, keep) ==
  << Summary >> \o ElementsAt(lines, DOMAIN lines \ Kept(lines, keep))

\* A summary, then the entries to keep, each the child of the one before.
Rewritten(lines, keep) ==
  LET all == << Summary >> \o ElementsAt(lines, Kept(lines, keep))
  IN  [i \in DOMAIN all |-> IF i = 1 THEN all[1] ELSE [all[i] EXCEPT !.parent = all[i - 1].id]]

\* From here on nobody is promised the entries that are not to be kept.
Compact(c, s, lines, keep) ==
  LET all == Lines(file[s])
      kept == {all[i].message : i \in Kept(all, keep)}
  IN  /\ MayCallOf(c, "compact", s) /\ count.compacts < MaxCompacts
      /\ count' = [count EXCEPT !.compacts = @ + 1, !.ids = @ + 1]
      /\ promised' = [promised EXCEPT ![s].messages = @ \cap kept]
      /\ Set(c, [Idle EXCEPT !.pc = "open", !.session = s, !.path = s,
                             !.text = Rewritten(lines, keep)])
      /\ UNCHANGED << disk, memory, used >>

\* The file is removed and, when that returns, the session struck off the index.
Delete(c, s) ==
  /\ MayCallOf(c, "delete", s)
  /\ file' = [file EXCEPT ![s] = Absent]
  /\ index' = [index EXCEPT ![s] = 0]
  /\ promised' = [promised EXCEPT ![s] = Nothing]
  /\ Set(c, [Idle EXCEPT !.pc = "persist", !.session = s])
  /\ UNCHANGED << tmp, initialized, used, count >>

\* The process ends and another one opens the directory.
Restart ==
  /\ count.restarts < MaxRestarts
  /\ count' = [count EXCEPT !.restarts = @ + 1]
  /\ initialized' = FALSE /\ index' = NoSessions
  /\ job' = [c \in Clients |-> Idle]
  /\ UNCHANGED << disk, used, promised >>

Next ==
  \/ \E c \in Clients :
       \/ ReadIndex(c) \/ Load(c)
       \/ Persist(c) \/ Open(c) \/ Write(c) \/ Rename(c) \/ Throws(c)
       \/ CreateFile(c) \/ AppendLine(c) \/ Fill(c)
       \/ \E s \in Session :
            \/ Create(c, s) \/ Relabel(c, s) \/ Delete(c, s)
            \/ \E lines \in ReadEntries(s) :
                 \/ AppendTo(c, s, lines)
                 \/ \E t \in Session, cutoff \in 0 .. Len(lines) : Branch(c, s, t, lines, cutoff)
                 \/ \E keep \in SUBSET Ids(Lines(file[s])) : Compact(c, s, lines, keep)
  \/ Restart

Spec == Init /\ [][Next]_vars

-------------------------------------------------------------------------------
(* What the store promises *)

Text(p) == {Absent, Torn, Empty} \cup (IF p = Index THEN Indexed ELSE Seq(Entry))

TypeOK ==
  /\ \A p \in Path : file[p] \in Text(p) /\ tmp[p] \in Text(p)
  /\ initialized \in BOOLEAN /\ index \in Indexed
  /\ \A c \in Clients :
       /\ job[c].pc \in {"idle", "load", "create", "append", "fill",
                         "persist", "open", "write", "rename"}
       /\ job[c].session \in Path /\ job[c].path \in Path
       /\ job[c].handle \in {"tmp", "file", "none"}
       /\ job[c].text \in Text(job[c].path)
       /\ job[c].entries \in Seq(Entry) /\ job[c].todo \in Seq(Entry)
       /\ job[c].said \subseteq Nat
  /\ used \subseteq Session
  /\ \A s \in Session : promised[s].label \in Nat /\ promised[s].messages \subseteq Nat

\* index.json is never left unreadable, not even for a moment: store.ts line 28
\* says that index writes are atomic.
IndexReadable == file[Index] \notin {Torn, Empty}

\* A session that a call has created, renamed or branched is in the index on disk
\* with that name or a newer one, until it is deleted, whatever fails and whenever
\* the process ends (store.ts 48-92, 229-234).
SessionsDurable ==
  \A s \in Session : promised[s].label > 0 =>
    file[Index] \in Indexed /\ file[Index][s] >= promised[s].label

\* An entry whose append() has returned, or that a returned branch() inherited, is
\* in the session's file until compact() is told not to keep it (store.ts 103-199).
EntriesDurable ==
  \A s \in Session : promised[s].messages \subseteq ToSet(Messages(Lines(file[s])))

\* Every entry is the child of the one before it and the first has no parent, across
\* appends, branches and compactions that fail half way (store.ts 110, 158, 187-192).
ChainIntact ==
  \A s \in Session : LET lines == Lines(file[s])
                     IN  \A i \in DOMAIN lines :
                           lines[i].parent = IF i = 1 THEN 0 ELSE lines[i - 1].id

\* The parent of an entry is in the same file, before it, even when calls overlap
\* (store.ts 106-119).
ParentsEarlier ==
  \A s \in Session : LET lines == Lines(file[s])
                     IN  \A i \in DOMAIN lines : lines[i].parent # 0 =>
                           \E j \in 1 .. i - 1 : lines[j].id = lines[i].parent

\* What the next process will find.
Contract == INSTANCE SessionLog WITH
  Message <- 0 .. MaxAppends,
  listed <- IF file[Index] \in {Absent, Torn, Empty} THEN {} ELSE Listed(file[Index]),
  log <- [s \in Session |-> Messages(Lines(file[s]))]

\* With calls that are awaited one after the other, every step, failure and end of
\* the process leaves on disk what SessionLog allows.
KeepsContract == Contract!Spec
=============================================================================
