--------------------------- MODULE SessionStoreProofs ---------------------------
(***************************************************************************)
(* Theorems about SessionStore, for any clients, sessions and bounds.      *)
(***************************************************************************)
EXTENDS SessionStore, SequenceLemmas, TLAPS

-------------------------------------------------------------------------------
(* Type correctness *)

Counts == [relabels : Nat, appends : Nat, ids : Nat, compacts : Nat, failures : Nat, restarts : Nat]
Promises == [label : Nat, messages : SUBSET Nat]
AnyText == {Absent, Torn, Empty} \cup Indexed \cup Seq(Entry)
Locals ==
  [pc : {"idle", "load", "create", "append", "fill", "persist", "open", "write", "rename"},
   session : Path, path : Path, handle : {"tmp", "file", "none"}, text : AnyText,
   entries : Seq(Entry), todo : Seq(Entry), said : SUBSET Nat]

\* What a call works on, and the text it writes.
CallTyped(j) ==
  /\ j.text \in Text(j.path)
  /\ j.pc = "load" => j.path = Index
  /\ j.pc \in {"create", "append", "fill"} \/ j.todo # << >> => j.session \in Session
  /\ j.pc = "append" => \E m \in Nat : j.said = {m}

DiskTyped ==
  /\ file \in [Path -> AnyText] /\ tmp \in [Path -> AnyText]
  /\ \A p \in Path : file[p] \in Text(p) /\ tmp[p] \in Text(p)

JobsTyped == job \in [Clients -> Locals] /\ \A c \in Clients : CallTyped(job[c])

Typed ==
  /\ DiskTyped /\ JobsTyped
  /\ initialized \in BOOLEAN /\ index \in Indexed
  /\ used \subseteq Session /\ count \in Counts
  /\ promised \in [Session -> Promises]

LEMMA Texts ==
  /\ \A p \in Path : Text(p) \subseteq AnyText /\ {Absent, Torn, Empty} \subseteq Text(p)
  /\ Text(Index) = {Absent, Torn, Empty} \cup Indexed
  /\ \A s \in Session : s \in Path /\ s # Index /\ Text(s) = {Absent, Torn, Empty} \cup Seq(Entry)
  /\ Index \in Path /\ NoSessions \in Indexed
  /\ \A p \in Path : p # Index => p \in Session
BY StoreAssumption DEF Text, AnyText, Path, NoSessions, Indexed

LEMMA LinesType ==
  ASSUME NEW s \in Session, NEW text \in Text(s)
  PROVE  Lines(text) \in Seq(Entry)
<1>1. << >> \in Seq(Entry)
  OBVIOUS
<1> QED
  BY <1>1, Texts DEF Lines

LEMMA IdleType ==
  /\ Idle \in Locals /\ CallTyped(Idle) /\ Idle.pc = "idle" /\ Idle.session = Index
  /\ Idle.path = Index /\ Idle.todo = << >> /\ Idle.said = {} /\ Idle.text = Absent
  /\ Idle.handle = "none"
<1>1. << >> \in Seq(Entry) /\ {} \in SUBSET Nat /\ Index \in Path /\ Absent \in AnyText
  BY Texts DEF AnyText
<1> QED
  BY <1>1, Texts DEF Idle, Locals, CallTyped

\* The counters stay numbers.
LEMMA Counting ==
  ASSUME count \in Counts
  PROVE  /\ [count EXCEPT !.relabels = @ + 1] \in Counts
         /\ [count EXCEPT !.appends = @ + 1] \in Counts
         /\ [count EXCEPT !.ids = @ + 1] \in Counts
         /\ [count EXCEPT !.failures = @ + 1] \in Counts
         /\ [count EXCEPT !.restarts = @ + 1] \in Counts
         /\ [count EXCEPT !.compacts = @ + 1, !.ids = @ + 1] \in Counts
         /\ \A n \in Nat : [count EXCEPT !.ids = @ + n] \in Counts
<1>1. /\ count.relabels + 1 \in Nat /\ count.appends + 1 \in Nat /\ count.ids + 1 \in Nat
      /\ count.failures + 1 \in Nat /\ count.restarts + 1 \in Nat /\ count.compacts + 1 \in Nat
      /\ \A n \in Nat : count.ids + n \in Nat
  BY DEF Counts
<1> QED
  BY <1>1 DEF Counts

\* A step that sets the locals of one call.
LEMMA SetTyped ==
  ASSUME JobsTyped, NEW c \in Clients, NEW locals \in Locals, CallTyped(locals), Set(c, locals)
  PROVE  JobsTyped' /\ job'[c] = locals /\ \A d \in Clients \ {c} : job'[d] = job[d]
<1>1. /\ job' \in [Clients -> Locals] /\ job'[c] = locals
      /\ \A d \in Clients : d # c => job'[d] = job[d]
  BY DEF Set, JobsTyped
<1>2. \A d \in Clients : CallTyped(job'[d])
  BY <1>1 DEF JobsTyped
<1> QED
  BY <1>1, <1>2 DEF JobsTyped, CallTyped, Text

-------------------------------------------------------------------------------
(* What the helpers return *)

LEMMA EntryFields ==
  /\ \A e \in Entry : e.id \in Nat /\ e.parent \in Nat /\ e.message \in Nat
  /\ \A i, p, m \in Nat : [id |-> i, parent |-> p, message |-> m] \in Entry
BY DEF Entry

LEMMA MessagesProperties ==
  ASSUME NEW lines \in Seq(Entry)
  PROVE  /\ Messages(lines) \in Seq(Nat) /\ Len(Messages(lines)) = Len(lines) /\ Len(lines) \in Nat
         /\ DOMAIN lines = 1 .. Len(lines)
         /\ \A i \in 1 .. Len(lines) : lines[i] \in Entry /\ Messages(lines)[i] = lines[i].message
         /\ ToSet(Messages(lines)) = {lines[i].message : i \in 1 .. Len(lines)}
         /\ ToSet(Messages(lines)) \subseteq Nat
<1>1. /\ Len(lines) \in Nat /\ DOMAIN lines = 1 .. Len(lines)
      /\ \A i \in 1 .. Len(lines) : lines[i] \in Entry
  BY LenProperties, ElementOfSeq
<1>2. \A i \in 1 .. Len(lines) : lines[i].message \in Nat
  BY <1>1, EntryFields
<1>3. Messages(lines) = [i \in 1 .. Len(lines) |-> lines[i].message]
  BY <1>1 DEF Messages
<1>4. Messages(lines) \in Seq(Nat) /\ Len(Messages(lines)) = Len(lines)
  BY <1>1, <1>2, <1>3
<1>5. ToSet(Messages(lines)) = {lines[i].message : i \in 1 .. Len(lines)}
  BY <1>3 DEF ToSet
<1> QED
  BY <1>1, <1>2, <1>3, <1>4, <1>5

LEMMA LastIdType ==
  ASSUME NEW lines \in Seq(Entry)
  PROVE  /\ LastId(lines) \in Nat
         /\ lines = << >> => LastId(lines) = 0
         /\ lines # << >> => LastId(lines) = lines[Len(lines)].id /\ Len(lines) \in 1 .. Len(lines)
<1>1. CASE lines = << >>
  BY <1>1 DEF LastId
<1>2. CASE lines # << >>
  <2>1. Len(lines) \in 1 .. Len(lines)
    BY <1>2, EmptySeq, LenProperties
  <2>2. lines[Len(lines)] \in Entry
    BY <2>1, ElementOfSeq
  <2> QED
    BY <1>2, <2>1, <2>2, EntryFields DEF LastId, Last
<1> QED
  BY <1>1, <1>2

LEMMA NewEntryType ==
  ASSUME Typed, NEW c \in Clients, At(c, "append")
  PROVE  /\ NewEntry(c) \in Entry
         /\ NewEntry(c).id = count.ids + 1 /\ NewEntry(c).parent = LastId(job[c].entries)
         /\ job[c].said = {NewEntry(c).message}
<1>1. PICK m \in Nat : job[c].said = {m}
  BY DEF Typed, JobsTyped, CallTyped, At
<1>2. (CHOOSE x \in job[c].said : TRUE) = m
  BY <1>1
<1>3. job[c].entries \in Seq(Entry) /\ count.ids + 1 \in Nat
  BY DEF Typed, JobsTyped, Locals, Counts
<1>4. NewEntry(c) = [id |-> count.ids + 1, parent |-> LastId(job[c].entries), message |-> m]
  BY <1>2 DEF NewEntry
<1> QED
  BY <1>1, <1>3, <1>4, LastIdType, EntryFields

\* The entries that branch() takes over.
LEMMA PrefixProperties ==
  ASSUME NEW lines \in Seq(Entry), NEW k \in 0 .. Len(lines)
  PROVE  /\ SubSeq(lines, 1, k) \in Seq(Entry) /\ Len(SubSeq(lines, 1, k)) = k
         /\ \A i \in 1 .. k : SubSeq(lines, 1, k)[i] = lines[i] /\ i \in 1 .. Len(lines)
<1>1. Len(lines) \in Nat /\ k \in Int /\ 1 \in Int
      /\ \A i \in 1 .. k : i \in 1 .. Len(lines) /\ lines[i] \in Entry
  BY LenProperties, ElementOfSeq
<1>2. /\ SubSeq(lines, 1, k) \in Seq(Entry)
      /\ Len(SubSeq(lines, 1, k)) = IF 1 <= k THEN k - 1 + 1 ELSE 0
      /\ \A i \in 1 .. k - 1 + 1 : SubSeq(lines, 1, k)[i] = lines[1 + i - 1]
  BY <1>1, SubSeqProperties
<1> QED
  BY <1>1, <1>2

LEMMA RenewedProperties ==
  ASSUME Typed, NEW lines \in Seq(Entry)
  PROVE  /\ Renewed(lines) \in Seq(Entry) /\ Len(Renewed(lines)) = Len(lines)
         /\ \A i \in 1 .. Len(lines) :
              LET parents == {j \in 1 .. i - 1 : lines[j].id = lines[i].parent}
              IN  /\ Renewed(lines)[i].id = count.ids + i
                  /\ Renewed(lines)[i].message = lines[i].message
                  /\ Renewed(lines)[i].parent =
                       IF parents = {} THEN 0 ELSE count.ids + CHOOSE j \in parents : TRUE
<1> DEFINE Parents(i) == {j \in 1 .. i - 1 : lines[j].id = lines[i].parent}
           Parent(i) == IF Parents(i) = {} THEN 0 ELSE count.ids + CHOOSE j \in Parents(i) : TRUE
           Line(i) == [lines[i] EXCEPT !.id = count.ids + i, !.parent = Parent(i)]
<1>1. /\ Len(lines) \in Nat /\ DOMAIN lines = 1 .. Len(lines) /\ count.ids \in Nat
      /\ \A i \in 1 .. Len(lines) : lines[i] \in Entry
  BY MessagesProperties DEF Typed, Counts
<1>2. Renewed(lines) = [i \in 1 .. Len(lines) |-> Line(i)]
  BY <1>1 DEF Renewed
<1>3. ASSUME NEW i \in 1 .. Len(lines)
      PROVE  /\ Line(i) \in Entry /\ Line(i).id = count.ids + i
             /\ Line(i).message = lines[i].message /\ Line(i).parent = Parent(i)
  <2>1. Parent(i) \in Nat
    <3>1. CASE Parents(i) = {}
      BY <3>1
    <3>2. CASE Parents(i) # {}
      <4>1. (CHOOSE j \in Parents(i) : TRUE) \in Parents(i)
        BY <3>2
      <4>2. \A j \in Parents(i) : j \in Nat
        BY <1>1
      <4> QED
        BY <1>1, <3>2, <4>1, <4>2
    <3> QED
      BY <3>1, <3>2
  <2> HIDE DEF Parent
  <2>2. count.ids + i \in Nat /\ lines[i] \in Entry
    BY <1>1
  <2> QED
    BY <2>1, <2>2 DEF Entry
<1> HIDE DEF Line
<1>4. Renewed(lines) \in Seq(Entry) /\ Len(Renewed(lines)) = Len(lines)
  BY <1>1, <1>2, <1>3
<1> QED
  BY <1>2, <1>3, <1>4

\* The kept entries follow the summary, each the child of the one before.
LEMMA RewrittenProperties ==
  ASSUME Typed, NEW lines \in Seq(Entry), NEW keep
  PROVE  LET at == Kept(lines, keep)
             size == Cardinality(at)
             new == Rewritten(lines, keep)
         IN  /\ at \in SUBSET DOMAIN lines /\ size \in Nat
             /\ new \in Seq(Entry) /\ Len(new) = 1 + size
             /\ new[1] = Summary
             /\ \A k \in 2 .. 1 + size :
                  LET i == Nth(at, k - 1)
                  IN  /\ k - 1 \in 1 .. size /\ i \in at
                      /\ new[k].id = lines[i].id /\ new[k].message = lines[i].message
                      /\ new[k].parent = new[k - 1].id
             /\ \A k, l \in 1 .. size : k < l => Nth(at, k) < Nth(at, l)
             /\ \A i \in at : \E k \in 2 .. 1 + size : new[k].message = lines[i].message
<1> DEFINE at == Kept(lines, keep)
           size == Cardinality(at)
           kept == ElementsAt(lines, at)
           all == << Summary >> \o kept
           new == Rewritten(lines, keep)
<1>1. at \in SUBSET DOMAIN lines
  BY DEF Kept
<1>2. /\ size \in Nat /\ kept \in Seq(Entry) /\ Len(kept) = size
      /\ \A k \in 1 .. size : Nth(at, k) \in at /\ kept[k] = lines[Nth(at, k)]
      /\ \A k, l \in 1 .. size : k < l => Nth(at, k) < Nth(at, l)
      /\ \A i \in at : \E k \in 1 .. size : kept[k] = lines[i]
  BY <1>1, ElementsAtProperties
<1>3. Summary \in Entry /\ << Summary >> \in Seq(Entry)
  <2>1. count.ids + 1 \in Nat
    BY DEF Typed, Counts
  <2> QED
    BY <2>1, EntryFields DEF Summary
<1> HIDE DEF kept, at, size
<1>4. /\ all \in Seq(Entry) /\ Len(all) = 1 + size /\ all[1] = Summary
      /\ \A k \in 2 .. 1 + size : all[k] = kept[k - 1]
  BY <1>2, <1>3, ConcatProperties
<1>5. DOMAIN all = 1 .. 1 + size /\ \A k \in 1 .. 1 + size : all[k] \in Entry
  BY <1>2, <1>4, LenProperties, ElementOfSeq
<1>6. new = [k \in 1 .. 1 + size |->
               IF k = 1 THEN all[1] ELSE [all[k] EXCEPT !.parent = all[k - 1].id]]
  BY <1>5 DEF Rewritten, kept, at
<1> HIDE DEF all, new
<1>7. ASSUME NEW k \in 2 .. 1 + size
      PROVE  /\ new[k] \in Entry /\ new[k].id = all[k].id /\ new[k].message = all[k].message
             /\ new[k].parent = all[k - 1].id /\ k - 1 \in 1 .. size /\ k \in 1 .. 1 + size
  <2>1. k - 1 \in 1 .. size /\ k - 1 \in 1 .. 1 + size /\ k \in 1 .. 1 + size /\ k # 1
    BY <1>2
  <2>2. all[k] \in Entry /\ all[k - 1].id \in Nat
    BY <1>5, <2>1, EntryFields
  <2>3. new[k] = [all[k] EXCEPT !.parent = all[k - 1].id]
    BY <1>6, <2>1
  <2> QED
    BY <2>1, <2>2, <2>3 DEF Entry
<1>8. 1 \in 1 .. 1 + size /\ new[1] = Summary
  BY <1>2, <1>4, <1>6
<1>9. \A k \in 1 .. 1 + size : new[k] \in Entry /\ new[k].id = all[k].id
  <2>1. \A k \in 1 .. 1 + size : k = 1 \/ k \in 2 .. 1 + size
    BY <1>2
  <2> QED
    BY <1>3, <1>4, <1>7, <1>8, <2>1
<1>10. new \in Seq(Entry) /\ Len(new) = 1 + size
  <2>1. PICK n \in Nat : n = 1 + size
    BY <1>2
  <2>2. new \in [1 .. n -> Entry]
    BY <1>6, <1>9, <2>1
  <2>3. new \in Seq(Entry) /\ Len(new) = n
    BY <2>1, <2>2
  <2> QED
    BY <2>1, <2>3
<1>11. ASSUME NEW k \in 2 .. 1 + size
       PROVE  /\ k - 1 \in 1 .. size /\ Nth(at, k - 1) \in at
              /\ new[k].id = lines[Nth(at, k - 1)].id
              /\ new[k].message = lines[Nth(at, k - 1)].message
              /\ new[k].parent = new[k - 1].id
  <2>1. k - 1 \in 1 .. size /\ k - 1 \in 1 .. 1 + size
    BY <1>2
  <2>2. all[k] = lines[Nth(at, k - 1)] /\ Nth(at, k - 1) \in at
    BY <1>2, <1>4, <2>1
  <2> QED
    BY <1>7, <1>9, <2>1, <2>2
<1>12. ASSUME NEW i \in at
       PROVE  \E k \in 2 .. 1 + size : new[k].message = lines[i].message
  <2>1. PICK k \in 1 .. size : kept[k] = lines[i]
    BY <1>2
  <2>2. k + 1 \in 2 .. 1 + size /\ (k + 1) - 1 = k
    BY <1>2
  <2>3. all[k + 1] = lines[i]
    BY <1>4, <2>1, <2>2
  <2>4. new[k + 1].message = lines[i].message
    BY <1>7, <2>2, <2>3
  <2> QED
    BY <2>2, <2>4
<1> QED
  BY <1>1, <1>2, <1>8, <1>10, <1>11, <1>12 DEF at, size, new

-------------------------------------------------------------------------------
(* What each step does, and that it keeps the types *)

\* The locals of c after a step, the other calls being left alone.
After(c, pc, session, path, handle, text, entries, todo, said) ==
  /\ job'[c].pc = pc /\ job'[c].session = session /\ job'[c].path = path
  /\ job'[c].handle = handle /\ job'[c].text = text
  /\ job'[c].entries = entries /\ job'[c].todo = todo /\ job'[c].said = said
  /\ \A d \in Clients \ {c} : job'[d] = job[d]

LEMMA SameDisk ==
  ASSUME DiskTyped, UNCHANGED disk
  PROVE  DiskTyped'
BY DEF DiskTyped, disk, Text, AnyText

LEMMA FileTyped ==
  ASSUME DiskTyped, NEW p \in Path, NEW text \in Text(p),
         file' = [file EXCEPT ![p] = text], tmp' = tmp
  PROVE  /\ DiskTyped' /\ file'[p] = text /\ \A q \in Path \ {p} : file'[q] = file[q]
<1>1. text \in AnyText
  BY Texts
<1>2. /\ file' \in [Path -> AnyText] /\ file'[p] = text
      /\ \A q \in Path : q # p => file'[q] = file[q]
  BY <1>1 DEF DiskTyped
<1>3. \A q \in Path : file'[q] \in Text(q)
  BY <1>2 DEF DiskTyped
<1> QED
  BY <1>2, <1>3 DEF DiskTyped, Text, AnyText

LEMMA TmpTyped ==
  ASSUME DiskTyped, NEW p \in Path, NEW text \in Text(p),
         tmp' = [tmp EXCEPT ![p] = text], file' = file
  PROVE  /\ DiskTyped' /\ tmp'[p] = text /\ \A q \in Path \ {p} : tmp'[q] = tmp[q]
<1>1. text \in AnyText
  BY Texts
<1>2. /\ tmp' \in [Path -> AnyText] /\ tmp'[p] = text
      /\ \A q \in Path : q # p => tmp'[q] = tmp[q]
  BY <1>1 DEF DiskTyped
<1>3. \A q \in Path : tmp'[q] \in Text(q)
  BY <1>2 DEF DiskTyped
<1> QED
  BY <1>2, <1>3 DEF DiskTyped, Text, AnyText

\* What the steps of a call start from.
LEMMA LocalTypes ==
  ASSUME Typed, NEW c \in Clients
  PROVE  /\ job[c] \in Locals /\ CallTyped(job[c]) /\ job[c].session \in Path /\ job[c].path \in Path
         /\ job[c].text \in Text(job[c].path) /\ job[c].entries \in Seq(Entry)
         /\ job[c].todo \in Seq(Entry) /\ job[c].said \in SUBSET Nat
         /\ job[c].handle \in {"tmp", "file", "none"}
         /\ job[c].pc = "load" => job[c].path = Index
         /\ job[c].pc \in {"create", "append", "fill"} \/ job[c].todo # << >>
              => job[c].session \in Session
         /\ JobsTyped /\ DiskTyped /\ count \in Counts
         /\ index \in Indexed /\ index \in AnyText /\ index \in Text(Index)
         /\ promised \in [Session -> Promises]
BY Texts DEF Typed, JobsTyped, Locals, CallTyped, AnyText

LEMMA DoReadIndex ==
  ASSUME Typed, NEW c \in Clients, ReadIndex(c)
  PROVE  Typed' /\ After(c, "load", Index, Index, "none", file[Index], << >>, << >>, {})
<1> DEFINE locals == [Idle EXCEPT !.pc = "load", !.text = file[Index]]
<1>1. file[Index] \in AnyText /\ file[Index] \in Text(Index)
  BY Texts DEF Typed, DiskTyped
<1>2. /\ locals \in Locals /\ locals.pc = "load" /\ locals.session = Index /\ locals.path = Index
      /\ locals.handle = "none" /\ locals.text = file[Index] /\ locals.entries = << >>
      /\ locals.todo = << >> /\ locals.said = {}
  BY <1>1, IdleType DEF Locals, Idle
<1>3. Set(c, locals)
  BY DEF ReadIndex
<1> HIDE DEF locals
<1>4. CallTyped(locals)
  BY <1>1, <1>2 DEF CallTyped
<1>5. JobsTyped' /\ job'[c] = locals /\ \A d \in Clients \ {c} : job'[d] = job[d]
  BY <1>2, <1>3, <1>4, LocalTypes, SetTyped
<1> QED
  BY <1>2, <1>5, LocalTypes, SameDisk DEF After, ReadIndex, memory, Typed

LEMMA DoLoad ==
  ASSUME Typed, NEW c \in Clients, Load(c)
  PROVE  /\ Typed' /\ After(c, "idle", Index, Index, "none", Absent, << >>, << >>, {})
         /\ job[c].path = Index
         /\ index' = IF job[c].text \in {Absent, Torn, Empty} THEN NoSessions ELSE job[c].text
<1>1. Set(c, Idle) /\ job[c].path = Index
  BY LocalTypes DEF Load, At
<1>2. JobsTyped' /\ job'[c] = Idle /\ \A d \in Clients \ {c} : job'[d] = job[d]
  BY <1>1, LocalTypes, IdleType, SetTyped
<1>3. index' \in Indexed
  BY <1>1, LocalTypes, Texts DEF Load
<1> QED
  BY <1>1, <1>2, <1>3, LocalTypes, SameDisk DEF After, Load, Typed, Idle

LEMMA DoPersist ==
  ASSUME Typed, NEW c \in Clients, Persist(c)
  PROVE  /\ Typed'
         /\ After(c, "open", job[c].session, Index, job[c].handle, index, job[c].entries,
                  job[c].todo, job[c].said)
<1> DEFINE j == job[c]
           locals == [j EXCEPT !.pc = "open", !.path = Index, !.text = index]
<1>1. /\ locals \in Locals /\ locals.pc = "open" /\ locals.session = j.session
      /\ locals.path = Index /\ locals.handle = j.handle /\ locals.text = index
      /\ locals.entries = j.entries /\ locals.todo = j.todo /\ locals.said = j.said
  BY LocalTypes, Texts DEF Locals
<1>2. Set(c, locals)
  BY DEF Persist
<1> HIDE DEF locals
<1>3. CallTyped(locals)
  BY <1>1, LocalTypes DEF CallTyped
<1>4. JobsTyped' /\ job'[c] = locals /\ \A d \in Clients \ {c} : job'[d] = job[d]
  BY <1>1, <1>2, <1>3, LocalTypes, SetTyped
<1> QED
  BY <1>1, <1>4, LocalTypes, SameDisk DEF After, Persist, memory, Typed

LEMMA DoOpen ==
  ASSUME Typed, NEW c \in Clients, Open(c)
  PROVE  /\ Typed'
         /\ After(c, "write", job[c].session, job[c].path, "tmp", job[c].text, job[c].entries,
                  job[c].todo, job[c].said)
         /\ tmp'[job[c].path] = Empty /\ \A q \in Path \ {job[c].path} : tmp'[q] = tmp[q]
<1> DEFINE j == job[c]
           locals == [j EXCEPT !.pc = "write", !.handle = "tmp"]
<1>1. /\ locals \in Locals /\ locals.pc = "write" /\ locals.session = j.session
      /\ locals.path = j.path /\ locals.handle = "tmp" /\ locals.text = j.text
      /\ locals.entries = j.entries /\ locals.todo = j.todo /\ locals.said = j.said
  BY LocalTypes DEF Locals
<1>2. Set(c, locals)
  BY DEF Open
<1> HIDE DEF locals
<1>3. CallTyped(locals)
  BY <1>1, LocalTypes DEF CallTyped
<1>4. JobsTyped' /\ job'[c] = locals /\ \A d \in Clients \ {c} : job'[d] = job[d]
  BY <1>1, <1>2, <1>3, LocalTypes, SetTyped
<1>5. /\ DiskTyped' /\ tmp'[job[c].path] = Empty
      /\ \A q \in Path \ {job[c].path} : tmp'[q] = tmp[q]
  BY LocalTypes, Texts, TmpTyped DEF Open
<1> QED
  BY <1>1, <1>4, <1>5, LocalTypes DEF After, Open, memory, Typed

LEMMA DoWrite ==
  ASSUME Typed, NEW c \in Clients, Write(c)
  PROVE  /\ Typed'
         /\ After(c, "rename", job[c].session, job[c].path, "none", job[c].text, job[c].entries,
                  job[c].todo, job[c].said)
         /\ \A q \in Path \ {job[c].path} : file'[q] = file[q] /\ tmp'[q] = tmp[q]
         /\ \A p \in {job[c].path} :
              /\ file'[p] \in {file[p], job[c].text, Torn}
              /\ tmp'[p] \in {tmp[p], job[c].text, Torn}
              /\ job[c].handle = "tmp" => file'[p] = file[p] /\ tmp'[p] \in Over(tmp[p], job[c].text)
<1> DEFINE j == job[c]
           locals == [j EXCEPT !.pc = "rename", !.handle = "none"]
<1>1. /\ locals \in Locals /\ locals.pc = "rename" /\ locals.session = j.session
      /\ locals.path = j.path /\ locals.handle = "none" /\ locals.text = j.text
      /\ locals.entries = j.entries /\ locals.todo = j.todo /\ locals.said = j.said
  BY LocalTypes DEF Locals
<1>2. Set(c, locals)
  BY DEF Write
<1> HIDE DEF locals
<1>3. CallTyped(locals)
  BY <1>1, LocalTypes DEF CallTyped
<1>4. JobsTyped' /\ job'[c] = locals /\ \A d \in Clients \ {c} : job'[d] = job[d]
  BY <1>1, <1>2, <1>3, LocalTypes, SetTyped
<1>5. PICK p \in Path : p = j.path
  BY LocalTypes
<1>6. j.text \in Text(p) /\ Torn \in Text(p) /\ \A old : Over(old, j.text) \subseteq {j.text, Torn}
  BY <1>5, LocalTypes, Texts DEF Over
<1>7. /\ DiskTyped' /\ \A q \in Path \ {p} : file'[q] = file[q] /\ tmp'[q] = tmp[q]
      /\ file'[p] \in {file[p], j.text, Torn} /\ tmp'[p] \in {tmp[p], j.text, Torn}
      /\ j.handle = "tmp" => file'[p] = file[p] /\ tmp'[p] \in Over(tmp[p], j.text)
  <2>1. CASE /\ j.handle = "tmp" /\ file' = file
             /\ \E text \in Over(tmp[p], j.text) : tmp' = [tmp EXCEPT ![p] = text]
    <3>1. PICK text \in Over(tmp[p], j.text) : tmp' = [tmp EXCEPT ![p] = text]
      BY <2>1
    <3>2. text \in Text(p) /\ text \in {j.text, Torn}
      BY <1>6
    <3>3. DiskTyped' /\ tmp'[p] = text /\ \A q \in Path \ {p} : tmp'[q] = tmp[q]
      BY <2>1, <3>1, <3>2, LocalTypes, TmpTyped
    <3> QED
      BY <2>1, <3>2, <3>3
  <2>2. CASE /\ j.handle = "file" /\ tmp' = tmp
             /\ \E text \in Over(file[p], j.text) : file' = [file EXCEPT ![p] = text]
    <3>1. PICK text \in Over(file[p], j.text) : file' = [file EXCEPT ![p] = text]
      BY <2>2
    <3>2. text \in Text(p) /\ text \in {j.text, Torn}
      BY <1>6
    <3>3. DiskTyped' /\ file'[p] = text /\ \A q \in Path \ {p} : file'[q] = file[q]
      BY <2>2, <3>1, <3>2, LocalTypes, FileTyped
    <3> QED
      BY <2>2, <3>2, <3>3
  <2>3. CASE j.handle = "none" /\ UNCHANGED disk
    BY <2>3, LocalTypes, SameDisk DEF disk
  <2> QED
    BY <1>5, <2>1, <2>2, <2>3 DEF Write
<1> QED
  BY <1>1, <1>4, <1>5, <1>7, LocalTypes DEF After, Write, memory, Typed

\* A handle of another call may follow the file that is renamed; nothing else of it changes.
LEMMA DoRenameJobs ==
  ASSUME Typed, NEW c \in Clients, Rename(c)
  PROVE  /\ JobsTyped'
         /\ \A d \in Clients \ {c} :
              /\ job'[d].pc = job[d].pc /\ job'[d].session = job[d].session
              /\ job'[d].path = job[d].path /\ job'[d].text = job[d].text
              /\ job'[d].entries = job[d].entries /\ job'[d].todo = job[d].todo
              /\ job'[d].said = job[d].said
         /\ \/ /\ job[c].path # Index \/ job[c].todo # << >>
               /\ job'[c].pc = (IF job[c].path # Index THEN "persist" ELSE "fill")
               /\ job'[c].session = job[c].session /\ job'[c].path = job[c].path
               /\ job'[c].handle = job[c].handle /\ job'[c].text = job[c].text
               /\ job'[c].entries = job[c].entries /\ job'[c].todo = job[c].todo
               /\ job'[c].said = job[c].said /\ promised' = promised
            \/ /\ job[c].path = Index /\ job[c].todo = << >>
               /\ job'[c] = Idle /\ Promise(c)
<1> DEFINE j == job[c]
           p == j.path
           next == IF p # Index THEN "persist" ELSE IF j.todo # << >> THEN "fill" ELSE "idle"
           own == IF next = "idle" THEN Idle ELSE [j EXCEPT !.pc = next]
           Other(d) == IF job[d].path = p THEN [job[d] EXCEPT !.handle = Renamed(job[d].handle)]
                       ELSE job[d]
<1>2. /\ \A d \in Clients : job'[d] = IF d = c THEN own ELSE Other(d)
      /\ DOMAIN job' = Clients /\ job' = [d \in Clients |-> job'[d]]
      /\ IF next = "idle" THEN Promise(c) ELSE promised' = promised
  BY DEF Rename
<1>3. \/ /\ next \in {"persist", "fill"} /\ (p # Index \/ j.todo # << >>)
         /\ next = (IF p # Index THEN "persist" ELSE "fill")
      \/ next = "idle" /\ p = Index /\ j.todo = << >>
  OBVIOUS
<1> HIDE DEF next
<1>4. \A d \in Clients : /\ Other(d) \in Locals /\ CallTyped(Other(d))
                         /\ Other(d).pc = job[d].pc /\ Other(d).session = job[d].session
                         /\ Other(d).path = job[d].path /\ Other(d).text = job[d].text
                         /\ Other(d).entries = job[d].entries /\ Other(d).todo = job[d].todo
                         /\ Other(d).said = job[d].said
  <2> SUFFICES ASSUME NEW d \in Clients, job[d].path = p
               PROVE  LET o == [job[d] EXCEPT !.handle = Renamed(job[d].handle)]
                      IN  /\ o \in Locals /\ CallTyped(o)
                          /\ o.pc = job[d].pc /\ o.session = job[d].session
                          /\ o.path = job[d].path /\ o.text = job[d].text
                          /\ o.entries = job[d].entries /\ o.todo = job[d].todo
                          /\ o.said = job[d].said
    BY LocalTypes
  <2> DEFINE o == [job[d] EXCEPT !.handle = Renamed(job[d].handle)]
  <2>1. Renamed(job[d].handle) \in {"tmp", "file", "none"}
    BY DEF Renamed
  <2>2. /\ o \in Locals
        /\ o.pc = job[d].pc /\ o.session = job[d].session
        /\ o.path = job[d].path /\ o.text = job[d].text
        /\ o.entries = job[d].entries /\ o.todo = job[d].todo
        /\ o.said = job[d].said
    BY <2>1, LocalTypes DEF Locals
  <2>3. CallTyped(o)
    BY <2>2, LocalTypes DEF CallTyped
  <2> QED
    BY <2>2, <2>3
<1> HIDE DEF Other
<1>5. CASE next = "idle"
  <2>1. \A d \in Clients : job'[d] \in Locals /\ CallTyped(job'[d])
    BY <1>2, <1>4, <1>5, IdleType
  <2>2. JobsTyped'
    BY <1>2, <2>1 DEF JobsTyped, CallTyped, Text
  <2> QED
    BY <1>2, <1>3, <1>4, <1>5, <2>2
<1>6. CASE next \in {"persist", "fill"}
  <2>1. /\ [j EXCEPT !.pc = next] \in Locals /\ [j EXCEPT !.pc = next].pc = next
        /\ [j EXCEPT !.pc = next].session = j.session /\ [j EXCEPT !.pc = next].path = j.path
        /\ [j EXCEPT !.pc = next].handle = j.handle /\ [j EXCEPT !.pc = next].text = j.text
        /\ [j EXCEPT !.pc = next].entries = j.entries /\ [j EXCEPT !.pc = next].todo = j.todo
        /\ [j EXCEPT !.pc = next].said = j.said
    BY <1>6, LocalTypes DEF Locals
  <2>2. job'[c] = [j EXCEPT !.pc = next]
    BY <1>2, <1>6
  <2>3. CallTyped(job'[c])
    BY <1>3, <1>6, <2>1, <2>2, LocalTypes DEF CallTyped
  <2>4. \A d \in Clients : job'[d] \in Locals /\ CallTyped(job'[d])
    BY <1>2, <1>4, <2>1, <2>2, <2>3
  <2>5. JobsTyped'
    BY <1>2, <2>4 DEF JobsTyped, CallTyped, Text
  <2> QED
    BY <1>2, <1>3, <1>4, <1>6, <2>1, <2>2, <2>5
<1> QED
  BY <1>3, <1>5, <1>6

LEMMA DoPromise ==
  ASSUME Typed, NEW c \in Clients, Promise(c)
  PROVE  /\ promised' \in [Session -> Promises]
         /\ \A s \in Session :
              \/ promised'[s] = promised[s] /\ (s # job[c].session \/ s \notin Listed(index))
              \/ /\ s = job[c].session /\ s \in Listed(index)
                 /\ promised'[s].label = index[s]
                 /\ promised'[s].messages = promised[s].messages \cup job[c].said
<1>1. CASE job[c].session \notin Listed(index)
  BY <1>1, LocalTypes DEF Promise
<1>2. CASE job[c].session \in Listed(index)
  <2>1. PICK s \in Session : s = job[c].session
    BY <1>2 DEF Listed
  <2>2. index[s] \in Nat /\ job[c].said \in SUBSET Nat /\ promised[s] \in Promises
    BY LocalTypes DEF Indexed
  <2>3. promised' = [promised EXCEPT ![s].label = index[s],
                                     ![s].messages = @ \cup job[c].said]
    BY <1>2, <2>1 DEF Promise
  <2>4. /\ promised' \in [Session -> Promises]
        /\ promised'[s].label = index[s]
        /\ promised'[s].messages = promised[s].messages \cup job[c].said
        /\ \A t \in Session : t # s => promised'[t] = promised[t]
    BY <2>2, <2>3, LocalTypes DEF Promises
  <2> QED
    BY <1>2, <2>1, <2>4
<1> QED
  BY <1>1, <1>2

LEMMA DoRename ==
  ASSUME Typed, NEW c \in Clients, Rename(c)
  PROVE  /\ Typed'
         /\ file'[job[c].path] = tmp[job[c].path] /\ tmp'[job[c].path] = Absent
         /\ \A q \in Path \ {job[c].path} : file'[q] = file[q] /\ tmp'[q] = tmp[q]
<1>1. PICK p \in Path : p = job[c].path
  BY LocalTypes
<1>2. file' = [file EXCEPT ![p] = tmp[p]] /\ tmp' = [tmp EXCEPT ![p] = Absent]
  BY <1>1 DEF Rename
<1>3. tmp[p] \in Text(p) /\ tmp[p] \in AnyText /\ Absent \in Text(p) /\ Absent \in AnyText
  BY Texts DEF Typed, DiskTyped
<1>4. /\ file' \in [Path -> AnyText] /\ tmp' \in [Path -> AnyText]
      /\ file'[p] = tmp[p] /\ tmp'[p] = Absent
      /\ \A q \in Path \ {p} : file'[q] = file[q] /\ tmp'[q] = tmp[q]
  BY <1>2, <1>3 DEF Typed, DiskTyped
<1>5. \A q \in Path : file'[q] \in Text(q) /\ tmp'[q] \in Text(q)
  BY <1>3, <1>4 DEF Typed, DiskTyped
<1>6. DiskTyped'
  BY <1>4, <1>5 DEF DiskTyped, Text, AnyText
<1>7. JobsTyped' /\ promised' \in [Session -> Promises]
  BY DoRenameJobs, DoPromise, LocalTypes
<1> QED
  BY <1>1, <1>4, <1>6, <1>7, LocalTypes DEF Rename, memory, Typed

LEMMA DoThrows ==
  ASSUME Typed, NEW c \in Clients, Throws(c)
  PROVE  Typed' /\ job'[c] = Idle /\ \A d \in Clients \ {c} : job'[d] = job[d]
<1>1. JobsTyped' /\ job'[c] = Idle /\ \A d \in Clients \ {c} : job'[d] = job[d]
  BY LocalTypes, IdleType, SetTyped DEF Throws
<1>2. count' \in Counts
  BY LocalTypes, Counting DEF Throws
<1> QED
  BY <1>1, <1>2, LocalTypes, SameDisk DEF Throws, memory, Typed

LEMMA ReadsType ==
  ASSUME Typed, NEW s \in Session, NEW lines \in ReadEntries(s)
  PROVE  /\ lines \in Seq(Entry) /\ Lines(file[s]) \in Seq(Entry)
         /\ lines = Lines(file[s]) \/ (ReadsFail /\ lines = << >>)
<1>1. Lines(file[s]) \in Seq(Entry)
  BY Texts, LinesType DEF Typed, DiskTyped
<1>2. << >> \in Seq(Entry)
  OBVIOUS
<1>3. lines = Lines(file[s]) \/ (ReadsFail /\ lines = << >>)
  BY DEF ReadEntries
<1> QED
  BY <1>1, <1>2, <1>3

LEMMA DoCreate ==
  ASSUME Typed, NEW c \in Clients, NEW s \in Session, Create(c, s)
  PROVE  Typed' /\ After(c, "create", s, Index, "none", Absent, << >>, << >>, {})
<1> DEFINE locals == [Idle EXCEPT !.pc = "create", !.session = s]
<1>1. /\ locals \in Locals /\ locals.pc = "create" /\ locals.session = s /\ locals.path = Index
      /\ locals.handle = "none" /\ locals.text = Absent /\ locals.entries = << >>
      /\ locals.todo = << >> /\ locals.said = {}
  BY Texts, IdleType DEF Locals, Idle
<1>2. Set(c, locals)
  BY DEF Create
<1> HIDE DEF locals
<1>3. CallTyped(locals)
  BY <1>1, Texts DEF CallTyped
<1>4. JobsTyped' /\ job'[c] = locals /\ \A d \in Clients \ {c} : job'[d] = job[d]
  BY <1>1, <1>2, <1>3, LocalTypes, SetTyped
<1> QED
  BY <1>1, <1>4, LocalTypes, SameDisk DEF After, Create, memory, Typed

\* A call goes on, and only where it is changes.
LEMMA DoGoto ==
  ASSUME Typed, NEW c \in Clients, Goto(c, "persist")
  PROVE  /\ JobsTyped'
         /\ After(c, "persist", job[c].session, job[c].path, job[c].handle, job[c].text,
                  job[c].entries, job[c].todo, job[c].said)
<1> DEFINE j == job[c]
           locals == [j EXCEPT !.pc = "persist"]
<1>1. /\ locals \in Locals /\ locals.pc = "persist" /\ locals.session = j.session
      /\ locals.path = j.path /\ locals.handle = j.handle /\ locals.text = j.text
      /\ locals.entries = j.entries /\ locals.todo = j.todo /\ locals.said = j.said
  BY LocalTypes DEF Locals
<1>2. Set(c, locals)
  BY DEF Goto
<1> HIDE DEF locals
<1>3. CallTyped(locals)
  BY <1>1, LocalTypes DEF CallTyped
<1>4. JobsTyped' /\ job'[c] = locals /\ \A d \in Clients \ {c} : job'[d] = job[d]
  BY <1>1, <1>2, <1>3, LocalTypes, SetTyped
<1> QED
  BY <1>1, <1>4 DEF After

LEMMA DoCreateFile ==
  ASSUME Typed, NEW c \in Clients, CreateFile(c)
  PROVE  /\ Typed' /\ job[c].session \in Session
         /\ After(c, "persist", job[c].session, job[c].path, job[c].handle, job[c].text,
                  job[c].entries, job[c].todo, job[c].said)
         /\ file'[job[c].session] = Empty
         /\ \A q \in Path \ {job[c].session} : file'[q] = file[q]
         /\ index'[job[c].session] = 1
         /\ \A t \in Session \ {job[c].session} : index'[t] = index[t]
<1>1. PICK s \in Session : s = job[c].session
  BY LocalTypes DEF CreateFile, At
<1>2. /\ DiskTyped' /\ file'[s] = Empty /\ \A q \in Path \ {s} : file'[q] = file[q]
  <2>1. PICK text : text = Empty
    OBVIOUS
  <2>2. s \in Path /\ text \in Text(s) /\ DiskTyped
    BY <2>1, Texts, LocalTypes
  <2>3. file' = [file EXCEPT ![s] = text] /\ tmp' = tmp
    BY <1>1, <2>1 DEF CreateFile
  <2> QED
    BY <2>1, <2>2, <2>3, FileTyped
<1>3. index' \in Indexed /\ index'[s] = 1 /\ \A t \in Session \ {s} : index'[t] = index[t]
  BY <1>1, LocalTypes DEF CreateFile, Indexed
<1>4. Goto(c, "persist")
  BY DEF CreateFile
<1> QED
  BY <1>1, <1>2, <1>3, <1>4, DoGoto, LocalTypes DEF CreateFile, Typed

\* A call that has only the index to persist.
LEMMA PersistOnly ==
  ASSUME Typed, NEW c \in Clients, NEW s \in Session,
         Set(c, [Idle EXCEPT !.pc = "persist", !.session = s])
  PROVE  JobsTyped' /\ After(c, "persist", s, Index, "none", Absent, << >>, << >>, {})
<1> DEFINE locals == [Idle EXCEPT !.pc = "persist", !.session = s]
<1>1. /\ locals \in Locals /\ locals.pc = "persist" /\ locals.session = s /\ locals.path = Index
      /\ locals.handle = "none" /\ locals.text = Absent /\ locals.entries = << >>
      /\ locals.todo = << >> /\ locals.said = {}
  BY Texts, IdleType DEF Locals, Idle
<1>2. Set(c, locals)
  OBVIOUS
<1> HIDE DEF locals
<1>3. CallTyped(locals)
  BY <1>1, Texts DEF CallTyped
<1>4. JobsTyped' /\ job'[c] = locals /\ \A d \in Clients \ {c} : job'[d] = job[d]
  BY <1>1, <1>2, <1>3, LocalTypes, SetTyped
<1> QED
  BY <1>1, <1>4 DEF After

LEMMA DoRelabel ==
  ASSUME Typed, NEW c \in Clients, NEW s \in Session, Relabel(c, s)
  PROVE  /\ Typed' /\ After(c, "persist", s, Index, "none", Absent, << >>, << >>, {})
         /\ index'[s] = index[s] + 1 /\ \A t \in Session \ {s} : index'[t] = index[t]
<1>1. index' \in Indexed /\ index'[s] = index[s] + 1 /\ \A t \in Session \ {s} : index'[t] = index[t]
  BY LocalTypes DEF Relabel, Indexed
<1>2. count' \in Counts
  BY LocalTypes, Counting DEF Relabel
<1>3. Set(c, [Idle EXCEPT !.pc = "persist", !.session = s])
  BY DEF Relabel
<1> QED
  BY <1>1, <1>2, <1>3, PersistOnly, LocalTypes, SameDisk DEF Relabel, Typed

LEMMA DoDelete ==
  ASSUME Typed, NEW c \in Clients, NEW s \in Session, Delete(c, s)
  PROVE  /\ Typed' /\ After(c, "persist", s, Index, "none", Absent, << >>, << >>, {})
         /\ file'[s] = Absent /\ \A q \in Path \ {s} : file'[q] = file[q]
         /\ index'[s] = 0 /\ \A t \in Session \ {s} : index'[t] = index[t]
         /\ promised'[s] = Nothing /\ \A t \in Session \ {s} : promised'[t] = promised[t]
<1>1. index' \in Indexed /\ index'[s] = 0 /\ \A t \in Session \ {s} : index'[t] = index[t]
  BY LocalTypes DEF Delete, Indexed
<1>2. /\ DiskTyped' /\ file'[s] = Absent /\ \A q \in Path \ {s} : file'[q] = file[q]
  <2>1. s \in Path /\ Absent \in Text(s) /\ DiskTyped
    BY Texts, LocalTypes
  <2>2. file' = [file EXCEPT ![s] = Absent] /\ tmp' = tmp
    BY DEF Delete
  <2> QED
    BY <2>1, <2>2, FileTyped
<1>3. Set(c, [Idle EXCEPT !.pc = "persist", !.session = s])
  BY DEF Delete
<1>4. /\ promised' \in [Session -> Promises] /\ promised'[s] = Nothing
      /\ \A t \in Session \ {s} : promised'[t] = promised[t]
  <2>1. Nothing \in Promises
    BY DEF Nothing, Promises
  <2> QED
    BY <2>1, LocalTypes DEF Delete
<1> QED
  BY <1>1, <1>2, <1>3, <1>4, PersistOnly, LocalTypes DEF Delete, Typed

LEMMA DoAppendTo ==
  ASSUME Typed, NEW c \in Clients, NEW s \in Session, NEW lines \in ReadEntries(s),
         AppendTo(c, s, lines)
  PROVE  /\ Typed'
         /\ After(c, "append", s, Index, "none", Absent, lines, << >>, {count.appends + 1})
         /\ count.appends + 1 \in 1 .. MaxAppends
<1> DEFINE locals == [Idle EXCEPT !.pc = "append", !.session = s, !.said = {count'.appends},
                                  !.entries = lines]
<1>1. count' \in Counts /\ count'.appends = count.appends + 1 /\ count.appends + 1 \in Nat
      /\ count.appends + 1 \in 1 .. MaxAppends
  <2>1. count \in Counts /\ [count EXCEPT !.appends = @ + 1] \in Counts
    BY LocalTypes, Counting
  <2>2. count' = [count EXCEPT !.appends = @ + 1] /\ count.appends < MaxAppends
    BY DEF AppendTo
  <2>3. MaxAppends \in Nat /\ count.appends \in Nat
    BY <2>1, StoreAssumption DEF Counts
  <2> QED
    BY <2>1, <2>2, <2>3 DEF Counts
<1>2. /\ locals \in Locals /\ locals.pc = "append" /\ locals.session = s /\ locals.path = Index
      /\ locals.handle = "none" /\ locals.text = Absent /\ locals.entries = lines
      /\ locals.todo = << >> /\ locals.said = {count.appends + 1}
  <2>1. PICK said \in SUBSET Nat : said = {count'.appends} /\ said = {count.appends + 1}
    BY <1>1
  <2>2. locals = [Idle EXCEPT !.pc = "append", !.session = s, !.said = said, !.entries = lines]
    BY <2>1
  <2>3. lines \in Seq(Entry) /\ s \in Path /\ Idle \in Locals
    BY Texts, IdleType, ReadsType
  <2> QED
    BY <2>1, <2>2, <2>3 DEF Locals, Idle
<1>3. Set(c, locals)
  BY DEF AppendTo
<1> HIDE DEF locals
<1>4. CallTyped(locals)
  BY <1>1, <1>2, Texts DEF CallTyped
<1>5. JobsTyped' /\ job'[c] = locals /\ \A d \in Clients \ {c} : job'[d] = job[d]
  BY <1>2, <1>3, <1>4, LocalTypes, SetTyped
<1> QED
  BY <1>1, <1>2, <1>5, LocalTypes, SameDisk DEF After, AppendTo, memory, Typed

LEMMA DoAppendLine ==
  ASSUME Typed, NEW c \in Clients, AppendLine(c)
  PROVE  /\ Typed' /\ job[c].session \in Session
         /\ After(c, "persist", job[c].session, job[c].path, job[c].handle, job[c].text,
                  job[c].entries, job[c].todo, job[c].said)
         /\ file'[job[c].session] = Append(Lines(file[job[c].session]), NewEntry(c))
         /\ \A q \in Path \ {job[c].session} : file'[q] = file[q]
         /\ count'.ids = count.ids + 1 /\ count.ids \in Nat
<1>1. PICK s \in Session : s = job[c].session
  BY LocalTypes DEF AppendLine, At
<1>2. Lines(file[s]) \in Seq(Entry) /\ NewEntry(c) \in Entry
  BY Texts, LinesType, NewEntryType DEF Typed, DiskTyped, AppendLine
<1>3. PICK text \in Seq(Entry) : text = Append(Lines(file[s]), NewEntry(c))
  BY <1>2, AppendProperties
<1>4. file' = [file EXCEPT ![s] = text] /\ tmp' = tmp
  BY <1>1, <1>3 DEF AppendLine
<1>5. /\ DiskTyped' /\ file'[s] = text /\ \A q \in Path \ {s} : file'[q] = file[q]
  <2>1. s \in Path /\ text \in Text(s) /\ DiskTyped
    BY Texts, LocalTypes
  <2> QED
    BY <1>4, <2>1, FileTyped
<1>6. count' \in Counts /\ count'.ids = count.ids + 1 /\ count.ids \in Nat
  BY LocalTypes, Counting DEF AppendLine, Counts
<1>7. Goto(c, "persist")
  BY DEF AppendLine
<1> QED
  BY <1>1, <1>3, <1>5, <1>6, <1>7, DoGoto, LocalTypes DEF AppendLine, memory, Typed

LEMMA DoBranch ==
  ASSUME Typed, NEW c \in Clients, NEW s \in Session, NEW t \in Session,
         NEW lines \in ReadEntries(s), NEW cutoff \in 0 .. Len(lines),
         Branch(c, s, t, lines, cutoff)
  PROVE  /\ Typed'
         /\ After(c, "create", t, Index, "none", Absent, << >>, SubSeq(lines, 1, cutoff), {})
<1>1. lines \in Seq(Entry) /\ Idle \in Locals
  BY ReadsType, IdleType
<1>2. PICK todo \in Seq(Entry) : todo = SubSeq(lines, 1, cutoff)
  <2>1. SubSeq(lines, 1, cutoff) \in Seq(Entry)
    BY <1>1, PrefixProperties
  <2> QED
    BY <2>1
<1> DEFINE locals == [Idle EXCEPT !.pc = "create", !.session = t, !.todo = todo]
<1>3. /\ locals \in Locals /\ locals.pc = "create" /\ locals.session = t /\ locals.path = Index
      /\ locals.handle = "none" /\ locals.text = Absent /\ locals.entries = << >>
      /\ locals.todo = todo /\ locals.said = {}
  BY <1>1, Texts DEF Locals, Idle
<1>4. Set(c, locals)
  BY <1>2 DEF Branch
<1> HIDE DEF locals
<1>5. CallTyped(locals)
  BY <1>3, Texts DEF CallTyped
<1>6. JobsTyped' /\ job'[c] = locals /\ \A d \in Clients \ {c} : job'[d] = job[d]
  BY <1>3, <1>4, <1>5, LocalTypes, SetTyped
<1> QED
  BY <1>2, <1>3, <1>6, LocalTypes, SameDisk DEF After, Branch, memory, Typed

LEMMA DoFill ==
  ASSUME Typed, NEW c \in Clients, Fill(c)
  PROVE  /\ Typed' /\ job[c].session \in Session
         /\ After(c, "persist", job[c].session, job[c].path, job[c].handle, job[c].text,
                  job[c].entries, << >>, ToSet(Messages(job[c].todo)))
         /\ file'[job[c].session] = Renewed(job[c].todo)
         /\ \A q \in Path \ {job[c].session} : file'[q] = file[q]
         /\ count'.ids = count.ids + Len(job[c].todo) /\ count.ids \in Nat
<1> DEFINE j == job[c]
<1>1. PICK s \in Session, todo \in Seq(Entry) : s = j.session /\ todo = j.todo
  BY LocalTypes DEF Fill, At
<1>2. PICK said \in SUBSET Nat : said = ToSet(Messages(todo))
  BY MessagesProperties
<1>3. PICK text \in Seq(Entry) : text = Renewed(todo)
  BY RenewedProperties
<1> DEFINE locals == [j EXCEPT !.pc = "persist", !.todo = << >>, !.said = said]
<1>4. /\ locals \in Locals /\ locals.pc = "persist" /\ locals.session = j.session
      /\ locals.path = j.path /\ locals.handle = j.handle /\ locals.text = j.text
      /\ locals.entries = j.entries /\ locals.todo = << >> /\ locals.said = said
  <2>1. << >> \in Seq(Entry)
    OBVIOUS
  <2> QED
    BY <2>1, LocalTypes DEF Locals
<1>5. Set(c, locals)
  BY <1>1, <1>2 DEF Fill
<1> HIDE DEF locals
<1>6. CallTyped(locals)
  BY <1>4, LocalTypes DEF CallTyped
<1>7. JobsTyped' /\ job'[c] = locals /\ \A d \in Clients \ {c} : job'[d] = job[d]
  BY <1>4, <1>5, <1>6, LocalTypes, SetTyped
<1>8. /\ DiskTyped' /\ file'[s] = text /\ \A q \in Path \ {s} : file'[q] = file[q]
  <2>1. s \in Path /\ text \in Text(s) /\ DiskTyped
    BY Texts, LocalTypes
  <2>2. file' = [file EXCEPT ![s] = text] /\ tmp' = tmp
    BY <1>1, <1>3 DEF Fill
  <2> QED
    BY <2>1, <2>2, FileTyped
<1>9. count' \in Counts /\ count'.ids = count.ids + Len(todo) /\ count.ids \in Nat
  <2>1. Len(todo) \in Nat /\ count' = [count EXCEPT !.ids = @ + Len(todo)] /\ count \in Counts
    BY <1>1, LenProperties, LocalTypes DEF Fill
  <2> QED
    BY <2>1, Counting DEF Counts
<1> QED
  BY <1>1, <1>2, <1>3, <1>4, <1>7, <1>8, <1>9, LocalTypes DEF After, Fill, memory, Typed

LEMMA DoCompact ==
  ASSUME Typed, NEW c \in Clients, NEW s \in Session, NEW lines \in ReadEntries(s), NEW keep,
         Compact(c, s, lines, keep)
  PROVE  /\ Typed'
         /\ After(c, "open", s, s, "none", Rewritten(lines, keep), << >>, << >>, {})
         /\ count'.ids = count.ids + 1 /\ count.ids \in Nat
         /\ promised'[s].label = promised[s].label
         /\ promised'[s].messages =
              promised[s].messages \cap
                {Lines(file[s])[i].message : i \in Kept(Lines(file[s]), keep)}
         /\ \A t \in Session \ {s} : promised'[t] = promised[t]
<1>1. lines \in Seq(Entry) /\ Idle \in Locals
  BY ReadsType, IdleType
<1>2. PICK text \in Seq(Entry) : text = Rewritten(lines, keep)
  BY <1>1, RewrittenProperties
<1> DEFINE locals == [Idle EXCEPT !.pc = "open", !.session = s, !.path = s, !.text = text]
<1>3. text \in AnyText /\ s \in Path
  BY Texts DEF AnyText
<1>4. /\ locals \in Locals /\ locals.pc = "open" /\ locals.session = s /\ locals.path = s
      /\ locals.handle = "none" /\ locals.text = text /\ locals.entries = << >>
      /\ locals.todo = << >> /\ locals.said = {}
  BY <1>1, <1>3 DEF Locals, Idle
<1>5. Set(c, locals)
  BY <1>2 DEF Compact
<1> HIDE DEF locals
<1>6. CallTyped(locals)
  BY <1>4, Texts DEF CallTyped
<1>7. JobsTyped' /\ job'[c] = locals /\ \A d \in Clients \ {c} : job'[d] = job[d]
  BY <1>4, <1>5, <1>6, LocalTypes, SetTyped
<1>8. PICK kept : kept = {Lines(file[s])[i].message : i \in Kept(Lines(file[s]), keep)}
  OBVIOUS
<1>9. promised' = [promised EXCEPT ![s].messages = @ \cap kept]
  BY <1>8 DEF Compact
<1>10. /\ promised' \in [Session -> Promises]
       /\ promised'[s].label = promised[s].label
       /\ promised'[s].messages = promised[s].messages \cap kept
       /\ \A t \in Session \ {s} : promised'[t] = promised[t]
  BY <1>9, LocalTypes DEF Promises
<1>11. count' \in Counts /\ count'.ids = count.ids + 1 /\ count.ids \in Nat
  <2>1. count' = [count EXCEPT !.compacts = @ + 1, !.ids = @ + 1] /\ count \in Counts
    BY LocalTypes DEF Compact
  <2> QED
    BY <2>1, Counting DEF Counts
<1> QED
  BY <1>2, <1>4, <1>7, <1>8, <1>10, <1>11, LocalTypes, SameDisk DEF After, Compact, memory, Typed

LEMMA DoRestart ==
  ASSUME Typed, Restart
  PROVE  Typed' /\ \A c \in Clients : job'[c] = Idle
<1>1. JobsTyped' /\ \A c \in Clients : job'[c] = Idle
  <2>1. job' = [c \in Clients |-> Idle]
    BY DEF Restart
  <2>2. job' \in [Clients -> Locals] /\ \A c \in Clients : job'[c] = Idle /\ CallTyped(job'[c])
    BY <2>1, IdleType
  <2> QED
    BY <2>2 DEF JobsTyped, CallTyped, Text
<1>2. count' \in Counts
  BY Counting DEF Restart, Typed
<1> QED
  BY <1>1, <1>2, Texts, SameDisk DEF Restart, Typed

LEMMA InitTyped ==
  ASSUME Init
  PROVE  Typed
<1>1. DiskTyped
  BY Texts DEF Init, DiskTyped, AnyText
<1>2. JobsTyped
  BY IdleType DEF Init, JobsTyped
<1>3. promised \in [Session -> Promises]
  BY DEF Init, Promises, Nothing
<1>4. count \in Counts
  BY DEF Init, Counts
<1> QED
  BY <1>1, <1>2, <1>3, <1>4, Texts DEF Init, Typed

LEMMA StepTyped ==
  ASSUME Typed, [Next]_vars
  PROVE  Typed'
<1>1. CASE \E c \in Clients :
             \/ ReadIndex(c) \/ Load(c)
             \/ Persist(c) \/ Open(c) \/ Write(c) \/ Rename(c) \/ Throws(c)
             \/ CreateFile(c) \/ AppendLine(c) \/ Fill(c)
  BY <1>1, DoReadIndex, DoLoad, DoPersist, DoOpen, DoWrite, DoRename, DoThrows, DoCreateFile,
     DoAppendLine, DoFill
<1>2. CASE \E c \in Clients, s \in Session : Create(c, s) \/ Relabel(c, s) \/ Delete(c, s)
  BY <1>2, DoCreate, DoRelabel, DoDelete
<1>3. CASE \E c \in Clients, s \in Session : \E lines \in ReadEntries(s) : AppendTo(c, s, lines)
  BY <1>3, DoAppendTo
<1>4. CASE \E c \in Clients, s \in Session : \E lines \in ReadEntries(s) :
             \E t \in Session, cutoff \in 0 .. Len(lines) : Branch(c, s, t, lines, cutoff)
  BY <1>4, DoBranch
<1>5. CASE \E c \in Clients, s \in Session : \E lines \in ReadEntries(s) :
             \E keep \in SUBSET Ids(Lines(file[s])) : Compact(c, s, lines, keep)
  BY <1>5, DoCompact
<1>6. CASE Restart
  BY <1>6, DoRestart
<1>7. CASE UNCHANGED vars
  BY <1>7 DEF vars, disk, memory, Typed, DiskTyped, JobsTyped, CallTyped, Text
<1> QED
  BY <1>1, <1>2, <1>3, <1>4, <1>5, <1>6, <1>7 DEF Next

\* Whatever the clients call and in whatever order, the texts of the files, the store's
\* memory and what every call holds are of the kinds the code gives them
\* (store.ts lines 28-234).
THEOREM TypeCorrect == Spec => []TypeOK
<1>1. Typed => TypeOK
  BY Texts DEF Typed, DiskTyped, JobsTyped, Locals, CallTyped, Promises, TypeOK
<1>2. Spec => []Typed
  <2>1. Init => Typed
    BY InitTyped
  <2>2. Typed /\ [Next]_vars => Typed'
    BY StepTyped
  <2> QED
    BY <2>1, <2>2, PTL DEF Spec
<1> QED
  BY <1>1, <1>2, PTL

-------------------------------------------------------------------------------
(* Session ids are fresh *)

\* A session whose file has been created, or was at least tried to.
Made(s) == s \in used /\ \A c \in Clients : ~ (At(c, "create") /\ job[c].session = s)

\* Calls work on drawn ids and a session is created by one call, the only one that knows it.
CallsApart ==
  /\ \A c \in Clients : job[c].session \in used \cup {Index} /\ job[c].path \in {Index, job[c].session}
  /\ \A c, d \in Clients : At(c, "create") /\ job[d].session = job[c].session => c = d

Unlisted(text, s) == text \in {Absent, Torn, Empty} \/ text[s] = 0

\* No index, in memory, on disk or about to be written, lists the session and nothing is
\* promised or kept of it.
Hidden(s) ==
  /\ index[s] = 0 /\ Unlisted(file[Index], s) /\ Unlisted(tmp[Index], s)
  /\ \A c \in Clients : job[c].path = Index => Unlisted(job[c].text, s)
  /\ promised[s] = Nothing /\ Lines(file[s]) = << >>

Fresh == CallsApart /\ \A s \in Session : Made(s) \/ Hidden(s)

\* A call that creates nothing works on a session that has been made.
LEMMA WorksOnMade ==
  ASSUME Fresh, NEW c \in Clients, NEW s \in Session, job[c].session = s, ~ At(c, "create")
  PROVE  Made(s)
<1>1. s \in used
  BY StoreAssumption DEF Fresh, CallsApart
<1>2. \A d \in Clients : At(d, "create") /\ job[d].session = s => d = c
  BY DEF Fresh, CallsApart
<1> QED
  BY <1>1, <1>2 DEF Made

LEMMA ListedMade ==
  ASSUME Typed, Fresh, NEW s \in Listed(index)
  PROVE  s \in Session /\ Made(s)
BY DEF Fresh, Hidden, Listed

\* A step of one call that starts creating nothing.
LEMMA CallGoesOn ==
  ASSUME Typed, Fresh, NEW c \in Clients, used' = used, job'[c].pc # "create",
         \/ job'[c].session \in {job[c].session, Index}
         \/ job'[c].session \in Session /\ Made(job'[c].session),
         job'[c].path \in {Index, job'[c].session},
         \A d \in Clients \ {c} : /\ job'[d].pc = job[d].pc /\ job'[d].session = job[d].session
                                  /\ job'[d].path = job[d].path
  PROVE  CallsApart' /\ \A s \in Session : Made(s) => Made(s)'
<1>1. \A d \in Clients : job'[d].session \in used' \cup {Index}
                         /\ job'[d].path \in {Index, job'[d].session}
  BY DEF Fresh, CallsApart, Made
<1>2. \A d \in Clients : job'[d].pc = "create" =>
        d # c /\ At(d, "create") /\ job'[d].session = job[d].session
  BY DEF At
<1>3. ASSUME NEW a \in Clients, NEW b \in Clients, job'[a].pc = "create",
             job'[b].session = job'[a].session
      PROVE  a = b
  <2>1. a # c /\ At(a, "create") /\ job'[a].session = job[a].session
    BY <1>2, <1>3
  <2>2. CASE b # c
    BY <1>3, <2>1, <2>2 DEF Fresh, CallsApart
  <2>3. CASE b = c
    <3>1. job[a].session \in Session /\ job[a].session # Index
      BY <2>1, LocalTypes, StoreAssumption DEF At
    <3>2. CASE job'[c].session = job[c].session
      BY <1>3, <2>1, <2>3, <3>2 DEF Fresh, CallsApart
    <3>3. CASE Made(job'[c].session)
      BY <1>3, <2>1, <2>3, <3>3 DEF Made
    <3> QED
      BY <1>3, <2>1, <2>3, <3>1, <3>2, <3>3
  <2> QED
    BY <2>2, <2>3
<1>4. CallsApart'
  BY <1>1, <1>3 DEF CallsApart, At
<1>5. \A s \in Session : Made(s) => Made(s)'
  BY <1>2 DEF Made, At
<1> QED
  BY <1>4, <1>5

\* A step that starts to create a session of a new id.
LEMMA CallCreates ==
  ASSUME Typed, Fresh, NEW c \in Clients, NEW t \in Session, t \notin used,
         used' = used \cup {t}, job'[c].pc = "create", job'[c].session = t, job'[c].path = Index,
         job'[c].text = Absent, \A d \in Clients \ {c} : job'[d] = job[d],
         UNCHANGED << disk, memory, promised >>
  PROVE  Fresh'
<1>1. \A d \in Clients : job'[d].session \in used' \cup {Index}
                         /\ job'[d].path \in {Index, job'[d].session}
  BY DEF Fresh, CallsApart
<1>2. ASSUME NEW a \in Clients, NEW b \in Clients, job'[a].pc = "create",
             job'[b].session = job'[a].session
      PROVE  a = b
  <2>1. \A d \in Clients : d # c => job[d].session # t
    BY StoreAssumption DEF Fresh, CallsApart
  <2> QED
    BY <1>2, <2>1 DEF Fresh, CallsApart, At
<1>3. CallsApart'
  BY <1>1, <1>2 DEF CallsApart, At
<1>4. ASSUME NEW s \in Session
      PROVE  Made(s)' \/ Hidden(s)'
  <2>1. CASE Made(s)
    BY <2>1 DEF Made, At
  <2>2. CASE Hidden(s)
    BY <2>2 DEF Hidden, Unlisted, Lines, disk, memory
  <2> QED
    BY <2>1, <2>2 DEF Fresh
<1> QED
  BY <1>3, <1>4 DEF Fresh

\* What a step of one call must leave of a session that no index lists.
LEMMA StaysHidden ==
  ASSUME NEW s \in Session, NEW c \in Clients, Hidden(s), promised'[s] = promised[s],
         index'[s] = 0, Unlisted(file'[Index], s), Unlisted(tmp'[Index], s),
         job'[c].path = Index => Unlisted(job'[c].text, s),
         \A d \in Clients \ {c} : job'[d].path = job[d].path /\ job'[d].text = job[d].text,
         Lines(file'[s]) = << >>
  PROVE  Hidden(s)'
<1>1. \A d \in Clients : job'[d].path = Index => Unlisted(job'[d].text, s)
  BY DEF Hidden
<1> QED
  BY <1>1 DEF Hidden, Unlisted, Lines

LEMMA FreshInit ==
  ASSUME Init
  PROVE  Fresh
<1>1. \A c \in Clients : job[c] = Idle
  BY DEF Init
<1>2. CallsApart
  BY <1>1, IdleType DEF CallsApart, At
<1>3. \A s \in Session : Hidden(s)
  <2>1. Index \in Path /\ \A s \in Session : s \in Path
    BY DEF Path
  <2> QED
    BY <1>1, <2>1, IdleType DEF Init, Hidden, Unlisted, Lines, NoSessions
<1> QED
  BY <1>2, <1>3 DEF Fresh

LEMMA FreshWhileIndexing ==
  ASSUME Typed, Fresh, NEW c \in Clients, ReadIndex(c) \/ Load(c) \/ Persist(c)
  PROVE  Fresh'
<1>1. CASE ReadIndex(c)
  <2>1. After(c, "load", Index, Index, "none", file[Index], << >>, << >>, {})
    BY <1>1, DoReadIndex
  <2>2. CallsApart' /\ \A s \in Session : Made(s) => Made(s)'
    BY <1>1, <2>1, CallGoesOn DEF ReadIndex, After
  <2>3. ASSUME NEW s \in Session, Hidden(s)
        PROVE  Hidden(s)'
    BY <1>1, <2>1, <2>3, StaysHidden DEF ReadIndex, After, Hidden, disk, memory
  <2> QED
    BY <2>2, <2>3 DEF Fresh
<1>2. CASE Load(c)
  <2>1. /\ After(c, "idle", Index, Index, "none", Absent, << >>, << >>, {})
        /\ job[c].path = Index
        /\ index' = IF job[c].text \in {Absent, Torn, Empty} THEN NoSessions ELSE job[c].text
    BY <1>2, DoLoad
  <2>2. CallsApart' /\ \A s \in Session : Made(s) => Made(s)'
    BY <1>2, <2>1, CallGoesOn DEF Load, After
  <2>3. ASSUME NEW s \in Session, Hidden(s)
        PROVE  Hidden(s)'
    <3>1. index'[s] = 0
      BY <2>1, <2>3 DEF Hidden, Unlisted, NoSessions
    <3> QED
      BY <1>2, <2>1, <2>3, <3>1, StaysHidden DEF Load, After, Hidden, Unlisted, disk
  <2> QED
    BY <2>2, <2>3 DEF Fresh
<1>3. CASE Persist(c)
  <2>1. After(c, "open", job[c].session, Index, job[c].handle, index, job[c].entries,
              job[c].todo, job[c].said)
    BY <1>3, DoPersist
  <2>2. CallsApart' /\ \A s \in Session : Made(s) => Made(s)'
    BY <1>3, <2>1, CallGoesOn DEF Persist, After
  <2>3. ASSUME NEW s \in Session, Hidden(s)
        PROVE  Hidden(s)'
    BY <1>3, <2>1, <2>3, StaysHidden DEF Persist, After, Hidden, Unlisted, disk, memory
  <2> QED
    BY <2>2, <2>3 DEF Fresh
<1> QED
  BY <1>1, <1>2, <1>3

LEMMA FreshWhileReplacing ==
  ASSUME Typed, Fresh, NEW c \in Clients, Open(c) \/ Write(c) \/ Rename(c) \/ Throws(c)
  PROVE  Fresh'
<1> DEFINE p == job[c].path
<1>p. /\ Index \in Path /\ (\A s \in Session : s \in Path /\ s # Index)
      /\ p \in Path /\ p \in {Index, job[c].session}
  BY Texts, LocalTypes DEF Fresh, CallsApart
<1>m. ASSUME NEW s \in Session, ~ Made(s), ~ At(c, "create")
      PROVE  s # p /\ s # job[c].session
  BY <1>p, <1>m, WorksOnMade
<1>1. CASE Open(c)
  <2>1. /\ After(c, "write", job[c].session, job[c].path, "tmp", job[c].text, job[c].entries,
                 job[c].todo, job[c].said)
        /\ tmp'[job[c].path] = Empty /\ \A q \in Path \ {job[c].path} : tmp'[q] = tmp[q]
    BY <1>1, DoOpen
  <2>2. CallsApart' /\ \A s \in Session : Made(s) => Made(s)'
    BY <1>1, <1>p, <2>1, CallGoesOn DEF Open, After
  <2>3. ASSUME NEW s \in Session, Hidden(s)
        PROVE  Hidden(s)'
    <3>1. Unlisted(tmp'[Index], s)
      BY <1>p, <2>1, <2>3 DEF Hidden, Unlisted
    <3> QED
      BY <1>1, <2>1, <2>3, <3>1, StaysHidden DEF Open, After, Hidden, memory
  <2> QED
    BY <2>2, <2>3 DEF Fresh
<1>2. CASE Write(c)
  <2>1. /\ After(c, "rename", job[c].session, job[c].path, "none", job[c].text, job[c].entries,
                 job[c].todo, job[c].said)
        /\ \A q \in Path \ {p} : file'[q] = file[q] /\ tmp'[q] = tmp[q]
        /\ file'[p] \in {file[p], job[c].text, Torn} /\ tmp'[p] \in {tmp[p], job[c].text, Torn}
    BY <1>2, DoWrite
  <2>2. CallsApart' /\ \A s \in Session : Made(s) => Made(s)'
    BY <1>2, <1>p, <2>1, CallGoesOn DEF Write, After
  <2>3. ASSUME NEW s \in Session, Hidden(s), ~ Made(s)
        PROVE  Hidden(s)'
    <3>1. Unlisted(file'[Index], s) /\ Unlisted(tmp'[Index], s)
      BY <1>p, <2>1, <2>3 DEF Hidden, Unlisted
    <3>2. file'[s] = file[s]
      BY <1>2, <1>p, <1>m, <2>1, <2>3 DEF Write, At
    <3> QED
      BY <1>2, <2>1, <2>3, <3>1, <3>2, StaysHidden DEF Write, After, Hidden, memory
  <2> QED
    BY <2>2, <2>3 DEF Fresh
<1>3. CASE Rename(c)
  <2>1. /\ file'[p] = tmp[p] /\ tmp'[p] = Absent
        /\ \A q \in Path \ {p} : file'[q] = file[q] /\ tmp'[q] = tmp[q]
    BY <1>3, DoRename
  <2>2. /\ \A d \in Clients \ {c} :
             /\ job'[d].pc = job[d].pc /\ job'[d].session = job[d].session
             /\ job'[d].path = job[d].path /\ job'[d].text = job[d].text
        /\ \/ /\ job'[c].pc \in {"persist", "fill"} /\ job'[c].session = job[c].session
              /\ job'[c].path = job[c].path /\ job'[c].text = job[c].text /\ promised' = promised
           \/ job'[c] = Idle /\ Promise(c)
    BY <1>3, DoRenameJobs
  <2>3. job'[c].pc # "create" /\ job'[c].session \in {job[c].session, Index}
        /\ job'[c].path \in {Index, job'[c].session}
    BY <1>p, <2>2, IdleType
  <2>4. CallsApart' /\ \A s \in Session : Made(s) => Made(s)'
    BY <1>3, <2>2, <2>3, CallGoesOn DEF Rename
  <2>5. ASSUME NEW s \in Session, Hidden(s), ~ Made(s)
        PROVE  Hidden(s)'
    <3>1. Unlisted(file'[Index], s) /\ Unlisted(tmp'[Index], s)
      BY <1>p, <2>1, <2>5 DEF Hidden, Unlisted
    <3>2. file'[s] = file[s]
      BY <1>3, <1>p, <1>m, <2>1, <2>5 DEF Rename, At
    <3>3. promised'[s] = promised[s]
      BY <2>2, <2>5, DoPromise DEF Hidden, Listed
    <3>4. job'[c].path = Index => Unlisted(job'[c].text, s)
      BY <2>2, <2>5, IdleType DEF Hidden, Unlisted
    <3> QED
      BY <1>3, <2>2, <2>5, <3>1, <3>2, <3>3, <3>4, StaysHidden DEF Rename, Hidden, memory
  <2> QED
    BY <2>4, <2>5 DEF Fresh
<1>4. CASE Throws(c)
  <2>1. job'[c] = Idle /\ \A d \in Clients \ {c} : job'[d] = job[d]
    BY <1>4, DoThrows
  <2>2. CallsApart' /\ \A s \in Session : Made(s) => Made(s)'
    BY <1>4, <2>1, IdleType, CallGoesOn DEF Throws
  <2>3. ASSUME NEW s \in Session, Hidden(s)
        PROVE  Hidden(s)'
    BY <1>4, <2>1, <2>3, IdleType, StaysHidden DEF Throws, Hidden, Unlisted, disk, memory
  <2> QED
    BY <2>2, <2>3 DEF Fresh
<1> QED
  BY <1>1, <1>2, <1>3, <1>4

\* The steps that write to a session's file and go on to the index.
LEMMA FreshWhileFilling ==
  ASSUME Typed, Fresh, NEW c \in Clients, CreateFile(c) \/ AppendLine(c) \/ Fill(c)
  PROVE  Fresh'
<1>x. PICK x \in Session : x = job[c].session
  BY LocalTypes DEF CreateFile, AppendLine, Fill, At
<1>p. /\ Index \in Path /\ (\A s \in Session : s \in Path /\ s # Index)
      /\ job[c].path \in {Index, x}
  BY <1>x, Texts DEF Fresh, CallsApart
<1>1. CASE CreateFile(c)
  <2>1. /\ After(c, "persist", x, job[c].path, job[c].handle, job[c].text,
                 job[c].entries, job[c].todo, job[c].said)
        /\ \A q \in Path \ {x} : file'[q] = file[q]
        /\ \A t \in Session \ {x} : index'[t] = index[t]
    BY <1>1, <1>x, DoCreateFile
  <2>2. CallsApart' /\ \A s \in Session : Made(s) => Made(s)'
    BY <1>1, <1>x, <1>p, <2>1, CallGoesOn DEF CreateFile, After
  <2>3. Made(x)'
    <3>1. x \in used /\ \A d \in Clients : At(d, "create") /\ job[d].session = x => d = c
      BY <1>1, <1>x, <1>p, <2>1 DEF Fresh, CallsApart, CreateFile
    <3> QED
      BY <1>1, <2>1, <3>1 DEF CreateFile, After, Made, At
  <2>4. ASSUME NEW s \in Session, Hidden(s), s # x
        PROVE  Hidden(s)'
    BY <1>1, <1>p, <2>1, <2>4, StaysHidden DEF CreateFile, After, Hidden
  <2> QED
    BY <2>2, <2>3, <2>4 DEF Fresh
<1>2. CASE AppendLine(c) \/ Fill(c)
  <2>1. /\ job'[c].pc = "persist" /\ job'[c].session = x /\ job'[c].path = job[c].path
        /\ job'[c].text = job[c].text /\ \A d \in Clients \ {c} : job'[d] = job[d]
        /\ \A q \in Path \ {x} : file'[q] = file[q]
    BY <1>2, <1>x, DoAppendLine, DoFill DEF After
  <2>2. CallsApart' /\ \A s \in Session : Made(s) => Made(s)'
    BY <1>2, <1>x, <1>p, <2>1, CallGoesOn DEF AppendLine, Fill
  <2>3. Made(x)
    BY <1>2, <1>x, WorksOnMade DEF AppendLine, Fill, At
  <2>4. ASSUME NEW s \in Session, Hidden(s), s # x
        PROVE  Hidden(s)'
    BY <1>2, <1>p, <2>1, <2>4, StaysHidden DEF AppendLine, Fill, Hidden, memory
  <2> QED
    BY <2>2, <2>3, <2>4 DEF Fresh
<1> QED
  BY <1>1, <1>2

\* The steps with which a call of a listed session starts.
LEMMA FreshWhileCalling ==
  ASSUME Typed, Fresh, NEW c \in Clients, NEW x \in Session,
         \/ Relabel(c, x) \/ Delete(c, x)
         \/ \E lines \in ReadEntries(x) : \/ AppendTo(c, x, lines)
                                          \/ \E keep : Compact(c, x, lines, keep)
  PROVE  Fresh'
<1>p. Index \in Path /\ \A s \in Session : s \in Path /\ s # Index
  BY Texts
<1>m. Made(x)
  BY ListedMade DEF Relabel, Delete, AppendTo, Compact, MayCallOf
<1>1. CASE Relabel(c, x) \/ Delete(c, x)
  <2>1. /\ After(c, "persist", x, Index, "none", Absent, << >>, << >>, {})
        /\ \A t \in Session \ {x} : index'[t] = index[t] /\ promised'[t] = promised[t]
        /\ \A q \in Path \ {x} : file'[q] = file[q]
        /\ tmp' = tmp /\ used' = used
    <3>1. CASE Relabel(c, x)
      BY <3>1, DoRelabel DEF Relabel, disk
    <3>2. CASE Delete(c, x)
      BY <3>2, DoDelete DEF Delete
    <3> QED
      BY <1>1, <3>1, <3>2
  <2>2. CallsApart' /\ \A s \in Session : Made(s) => Made(s)'
    BY <1>m, <2>1, CallGoesOn DEF After
  <2>3. ASSUME NEW s \in Session, Hidden(s), s # x
        PROVE  Hidden(s)'
    BY <1>p, <2>1, <2>3, StaysHidden DEF After, Hidden, Unlisted
  <2> QED
    BY <1>m, <2>2, <2>3 DEF Fresh
<1>2. CASE \E lines \in ReadEntries(x) : AppendTo(c, x, lines)
  <2>1. PICK lines \in ReadEntries(x) : AppendTo(c, x, lines)
    BY <1>2
  <2>2. After(c, "append", x, Index, "none", Absent, lines, << >>, {count.appends + 1})
    BY <2>1, DoAppendTo
  <2>3. CallsApart' /\ \A s \in Session : Made(s) => Made(s)'
    BY <1>m, <2>1, <2>2, CallGoesOn DEF After, AppendTo
  <2>4. ASSUME NEW s \in Session, Hidden(s)
        PROVE  Hidden(s)'
    BY <2>1, <2>2, <2>4, StaysHidden DEF After, AppendTo, Hidden, Unlisted, disk, memory
  <2> QED
    BY <2>3, <2>4 DEF Fresh
<1>3. CASE \E lines \in ReadEntries(x) : \E keep : Compact(c, x, lines, keep)
  <2>0. PICK lines \in ReadEntries(x) : \E keep : Compact(c, x, lines, keep)
    BY <1>3
  <2>1. PICK keep : Compact(c, x, lines, keep)
    BY <2>0
  <2>2. /\ After(c, "open", x, x, "none", Rewritten(lines, keep), << >>, << >>, {})
        /\ \A t \in Session \ {x} : promised'[t] = promised[t]
    BY <2>1, DoCompact
  <2>3. CallsApart' /\ \A s \in Session : Made(s) => Made(s)'
    BY <1>m, <2>1, <2>2, CallGoesOn DEF After, Compact
  <2>4. ASSUME NEW s \in Session, Hidden(s), s # x
        PROVE  Hidden(s)'
    BY <1>p, <2>1, <2>2, <2>4, StaysHidden DEF After, Compact, Hidden, disk, memory
  <2> QED
    BY <1>m, <2>3, <2>4 DEF Fresh
<1> QED
  BY <1>1, <1>2, <1>3

LEMMA FreshWhileCreating ==
  ASSUME Typed, Fresh, NEW c \in Clients, NEW t \in Session,
         \/ Create(c, t)
         \/ \E s \in Session : \E lines \in ReadEntries(s) : \E cutoff \in 0 .. Len(lines) :
              Branch(c, s, t, lines, cutoff)
  PROVE  Fresh'
<1>1. CASE Create(c, t)
  <2>1. After(c, "create", t, Index, "none", Absent, << >>, << >>, {})
    BY <1>1, DoCreate
  <2> QED
    BY <1>1, <2>1, CallCreates DEF After, Create
<1>2. CASE \E s \in Session : \E lines \in ReadEntries(s) : \E cutoff \in 0 .. Len(lines) :
             Branch(c, s, t, lines, cutoff)
  <2>1. PICK s \in Session : \E lines \in ReadEntries(s) : \E cutoff \in 0 .. Len(lines) :
             Branch(c, s, t, lines, cutoff)
    BY <1>2
  <2>2. PICK lines \in ReadEntries(s) : \E cutoff \in 0 .. Len(lines) :
             Branch(c, s, t, lines, cutoff)
    BY <2>1
  <2>3. PICK cutoff \in 0 .. Len(lines) : Branch(c, s, t, lines, cutoff)
    BY <2>2
  <2>4. After(c, "create", t, Index, "none", Absent, << >>, SubSeq(lines, 1, cutoff), {})
    BY <2>3, DoBranch
  <2> QED
    BY <2>3, <2>4, CallCreates DEF After, Branch
<1> QED
  BY <1>1, <1>2

LEMMA FreshRestart ==
  ASSUME Typed, Fresh, Restart
  PROVE  Fresh'
<1>1. \A c \in Clients : job'[c] = Idle
  BY DoRestart
<1>2. CallsApart' /\ \A s \in Session : Made(s) => Made(s)'
  BY <1>1, IdleType DEF CallsApart, At, Made, Restart
<1>3. ASSUME NEW s \in Session, Hidden(s)
      PROVE  Hidden(s)'
  BY <1>1, <1>3, IdleType DEF Restart, Hidden, Unlisted, Lines, NoSessions, disk
<1> QED
  BY <1>2, <1>3 DEF Fresh

LEMMA FreshStep ==
  ASSUME Typed, Fresh, [Next]_vars
  PROVE  Fresh'
<1>1. CASE \E c \in Clients : ReadIndex(c) \/ Load(c) \/ Persist(c)
  BY <1>1, FreshWhileIndexing
<1>2. CASE \E c \in Clients : Open(c) \/ Write(c) \/ Rename(c) \/ Throws(c)
  BY <1>2, FreshWhileReplacing
<1>3. CASE \E c \in Clients : CreateFile(c) \/ AppendLine(c) \/ Fill(c)
  BY <1>3, FreshWhileFilling
<1>4. CASE \E c \in Clients, s \in Session : Relabel(c, s) \/ Delete(c, s)
  BY <1>4, FreshWhileCalling
<1>5. CASE \E c \in Clients, s \in Session : \E lines \in ReadEntries(s) :
             \/ AppendTo(c, s, lines)
             \/ \E keep \in SUBSET Ids(Lines(file[s])) : Compact(c, s, lines, keep)
  BY <1>5, FreshWhileCalling
<1>6. CASE \E c \in Clients, s \in Session : Create(c, s)
  BY <1>6, FreshWhileCreating
<1>7. CASE \E c \in Clients, s \in Session : \E lines \in ReadEntries(s) :
             \E t \in Session, cutoff \in 0 .. Len(lines) : Branch(c, s, t, lines, cutoff)
  BY <1>7, FreshWhileCreating
<1>8. CASE Restart
  BY <1>8, FreshRestart
<1>9. CASE UNCHANGED vars
  BY <1>9 DEF vars, disk, memory, Fresh, CallsApart, At, Made, Hidden, Unlisted, Lines
<1> QED
  BY <1>1, <1>2, <1>3, <1>4, <1>5, <1>6, <1>7, <1>8, <1>9 DEF Next

-------------------------------------------------------------------------------
(* Overlapping calls that create, relabel and append *)

Overlapping == Calls \subseteq {"create", "relabel", "append"}

Said(text) == ToSet(Messages(Lines(text)))
Parented(lines) == \A i \in DOMAIN lines : lines[i].parent # 0 =>
                     \E j \in 1 .. i - 1 : lines[j].id = lines[i].parent

\* Nobody rewrites a session's file.  A call that appends has read of it an entry that is
\* still there, and one that has appended finds its message there.
OnlyAppended ==
  /\ \A c \in Clients : job[c].path = Index /\ job[c].todo = << >> /\ job[c].pc # "fill"
  /\ \A s \in Session : promised[s].messages \subseteq Said(file[s]) /\ Parented(Lines(file[s]))
  /\ \A c \in Clients, s \in Session : job[c].session = s =>
       IF At(c, "append") THEN LastId(job[c].entries) \in {0} \cup Ids(Lines(file[s]))
       ELSE job[c].said \subseteq Said(file[s])

LEMMA LinesOf ==
  ASSUME Typed, NEW s \in Session
  PROVE  /\ file[s] \in Text(s) /\ Lines(file[s]) \in Seq(Entry)
         /\ Lines(Empty) = << >> /\ Lines(Absent) = << >> /\ Lines(Torn) = << >>
         /\ \A lines \in Seq(Entry) : Lines(lines) = lines
<1>1. file[s] \in Text(s)
  BY Texts, LocalTypes DEF Typed, DiskTyped
<1> QED
  BY <1>1, LinesType, TextAssumption DEF Lines

LEMMA SaidNothing == ToSet(Messages(<< >>)) = {} /\ Ids(<< >>) = {} /\ Parented(<< >>)
BY DEF ToSet, Messages, Ids, Parented

\* An entry is added at the end and the others stay where they are.
LEMMA AppendedProperties ==
  ASSUME NEW lines \in Seq(Entry), NEW e \in Entry
  PROVE  LET new == Append(lines, e)
             n == Len(lines)
         IN  /\ n \in Nat /\ new \in Seq(Entry) /\ Len(new) = n + 1
             /\ DOMAIN lines = 1 .. n /\ DOMAIN new = 1 .. n + 1
             /\ new[n + 1] = e /\ \A i \in 1 .. n : new[i] = lines[i]
             /\ Ids(new) = Ids(lines) \cup {e.id}
             /\ ToSet(Messages(new)) = ToSet(Messages(lines)) \cup {e.message}
             /\ Messages(new) = Append(Messages(lines), e.message)
<1>1. PICK n \in Nat : n = Len(lines) /\ DOMAIN lines = 1 .. n
  BY LenProperties
<1>2. PICK new \in Seq(Entry) : new = Append(lines, e)
  BY AppendProperties
<1>3. Len(new) = n + 1 /\ new[n + 1] = e /\ \A i \in 1 .. n : new[i] = lines[i]
  BY <1>1, <1>2, AppendProperties
<1>4. DOMAIN new = 1 .. n + 1
  BY <1>2, <1>3, LenProperties
<1>5. 1 .. n + 1 = (1 .. n) \cup {n + 1} /\ n + 1 \notin 1 .. n
  BY <1>1
<1>6. Ids(new) = Ids(lines) \cup {e.id}
  BY <1>1, <1>3, <1>4, <1>5 DEF Ids
<1>7. ToSet(Messages(new)) = ToSet(Messages(lines)) \cup {e.message}
  <2>1. ToSet(Messages(lines)) = {lines[i].message : i \in 1 .. n}
    BY <1>1, MessagesProperties
  <2>2. ToSet(Messages(new)) = {new[i].message : i \in 1 .. n + 1}
    BY <1>2, <1>3, MessagesProperties
  <2> QED
    BY <1>3, <1>5, <2>1, <2>2
<1>8. Messages(new) = Append(Messages(lines), e.message)
  <2>1. /\ Messages(lines) \in Seq(Nat) /\ Len(Messages(lines)) = n /\ e.message \in Nat
        /\ \A i \in 1 .. n : Messages(lines)[i] = lines[i].message
    BY <1>1, MessagesProperties, EntryFields
  <2>2. PICK all \in Seq(Nat) : all = Append(Messages(lines), e.message)
    BY <2>1, AppendProperties
  <2>3. Len(all) = n + 1 /\ all[n + 1] = e.message /\ \A i \in 1 .. n : all[i] = lines[i].message
    BY <2>1, <2>2, AppendProperties
  <2>4. /\ Messages(new) \in Seq(Nat) /\ Len(Messages(new)) = n + 1
        /\ \A i \in 1 .. n + 1 : Messages(new)[i] = new[i].message
    BY <1>2, <1>3, MessagesProperties
  <2>5. \A i \in 1 .. n + 1 : Messages(new)[i] = all[i]
    BY <1>3, <1>5, <2>3, <2>4
  <2>6. Messages(new) = all
    BY <2>2, <2>3, <2>4, <2>5, SeqEqual
  <2> QED
    BY <2>2, <2>6
<1> QED
  BY <1>1, <1>2, <1>3, <1>4, <1>6, <1>7, <1>8

\* A step that leaves the logs alone.
LEMMA LogsStay ==
  ASSUME Typed, OnlyAppended, NEW c \in Clients, \A s \in Session : file'[s] = file[s],
         \A d \in Clients \ {c} :
           /\ job'[d].pc = job[d].pc /\ job'[d].session = job[d].session
           /\ job'[d].path = job[d].path /\ job'[d].entries = job[d].entries
           /\ job'[d].todo = job[d].todo /\ job'[d].said = job[d].said,
         job'[c].path = Index, job'[c].todo = << >>, job'[c].pc # "fill",
         \A s \in Session : job'[c].session = s =>
           IF job'[c].pc = "append"
           THEN LastId(job'[c].entries) \in {0} \cup Ids(Lines(file[s]))
           ELSE job'[c].said \subseteq Said(file[s]),
         \A s \in Session : promised'[s].messages \subseteq Said(file[s])
  PROVE  OnlyAppended'
<1>1. \A s \in Session : /\ promised'[s].messages \subseteq Said(file'[s])
                         /\ Parented(Lines(file'[s]))
  BY DEF OnlyAppended
<1>2. \A d \in Clients, s \in Session : job'[d].session = s =>
        IF job'[d].pc = "append" THEN LastId(job'[d].entries) \in {0} \cup Ids(Lines(file'[s]))
        ELSE job'[d].said \subseteq Said(file'[s])
  BY DEF OnlyAppended, At
<1>3. \A d \in Clients : job'[d].path = Index /\ job'[d].todo = << >> /\ job'[d].pc # "fill"
  BY DEF OnlyAppended
<1> QED
  BY <1>1, <1>2, <1>3 DEF OnlyAppended, At, Said, Parented, Lines, Messages, LastId, Ids

LEMMA OverlapWhileIndexing ==
  ASSUME Typed, Fresh, OnlyAppended, NEW c \in Clients,
         ReadIndex(c) \/ Load(c) \/ Persist(c) \/ Open(c) \/ Write(c) \/ Rename(c) \/ Throws(c)
  PROVE  OnlyAppended'
<1>p. /\ Index \in Path /\ (\A s \in Session : s \in Path /\ s # Index)
      /\ job[c].path = Index /\ job[c].todo = << >>
  BY Texts DEF OnlyAppended
<1>said. \A s \in Session : promised[s].messages \subseteq Said(file[s])
  BY DEF OnlyAppended
<1>1. CASE ReadIndex(c) \/ Load(c)
  <2>1. /\ job'[c].session = Index /\ job'[c].path = Index /\ job'[c].todo = << >>
        /\ job'[c].pc # "fill" /\ \A d \in Clients \ {c} : job'[d] = job[d]
        /\ file' = file /\ promised' = promised
    <3>1. CASE ReadIndex(c)
      BY <3>1, DoReadIndex DEF After, ReadIndex, disk
    <3>2. CASE Load(c)
      BY <3>2, DoLoad DEF After, Load, disk
    <3> QED
      BY <1>1, <3>1, <3>2
  <2> QED
    BY <1>p, <1>said, <2>1, LogsStay
<1>2. CASE Persist(c) \/ Open(c) \/ Write(c)
  <2>1. /\ job'[c].session = job[c].session /\ job'[c].path = Index /\ job'[c].todo = << >>
        /\ job'[c].pc \in {"open", "write", "rename"} /\ job'[c].said = job[c].said
        /\ job[c].pc # "append" /\ \A d \in Clients \ {c} : job'[d] = job[d]
        /\ \A s \in Session : file'[s] = file[s]
        /\ promised' = promised
    <3>1. CASE Persist(c)
      BY <1>p, <3>1, DoPersist DEF After, Persist, At, disk
    <3>2. CASE Open(c)
      BY <1>p, <3>2, DoOpen DEF After, Open, At
    <3>3. CASE Write(c)
      BY <1>p, <3>3, DoWrite DEF After, Write, At
    <3> QED
      BY <1>2, <3>1, <3>2, <3>3
  <2>2. \A s \in Session : job'[c].session = s => job'[c].said \subseteq Said(file[s])
    BY <2>1 DEF OnlyAppended, At
  <2> QED
    BY <1>said, <2>1, <2>2, LogsStay
<1>3. CASE Rename(c)
  <2>1. job'[c] = Idle /\ Promise(c)
        /\ \A d \in Clients \ {c} :
             /\ job'[d].pc = job[d].pc /\ job'[d].session = job[d].session
             /\ job'[d].path = job[d].path /\ job'[d].entries = job[d].entries
             /\ job'[d].todo = job[d].todo /\ job'[d].said = job[d].said
    BY <1>p, <1>3, DoRenameJobs
  <2>2. \A s \in Session : file'[s] = file[s]
    BY <1>p, <1>3, DoRename
  <2>3. \A s \in Session : promised'[s].messages \subseteq Said(file[s])
    <3>1. \A s \in Session : job[c].session = s => job[c].said \subseteq Said(file[s])
      BY <1>3 DEF OnlyAppended, Rename, At
    <3> QED
      BY <1>said, <2>1, <3>1, DoPromise
  <2> QED
    BY <1>p, <2>1, <2>2, <2>3, IdleType, LogsStay
<1>4. CASE Throws(c)
  <2>1. job'[c] = Idle /\ \A d \in Clients \ {c} : job'[d] = job[d]
    BY <1>4, DoThrows
  <2> QED
    BY <1>p, <1>4, <1>said, <2>1, IdleType, LogsStay DEF Throws, disk
<1> QED
  BY <1>1, <1>2, <1>3, <1>4

LEMMA OverlapWhileCalling ==
  ASSUME Typed, Fresh, OnlyAppended, NEW c \in Clients, NEW x \in Session,
         \/ Create(c, x) \/ Relabel(c, x) \/ \E lines \in ReadEntries(x) : AppendTo(c, x, lines)
  PROVE  OnlyAppended'
<1>p. \A s \in Session : s \in Path /\ s # Index
  BY Texts
<1>said. \A s \in Session : promised[s].messages \subseteq Said(file[s])
  BY DEF OnlyAppended
<1>1. CASE Create(c, x) \/ Relabel(c, x)
  <2>1. /\ job'[c].path = Index /\ job'[c].todo = << >> /\ job'[c].said = {}
        /\ job'[c].pc \in {"create", "persist"} /\ \A d \in Clients \ {c} : job'[d] = job[d]
        /\ file' = file /\ promised' = promised
    <3>1. CASE Create(c, x)
      BY <3>1, DoCreate DEF After, Create, disk
    <3>2. CASE Relabel(c, x)
      BY <3>2, DoRelabel DEF After, Relabel, disk
    <3> QED
      BY <1>1, <3>1, <3>2
  <2> QED
    BY <1>said, <2>1, LogsStay
<1>2. CASE \E lines \in ReadEntries(x) : AppendTo(c, x, lines)
  <2>1. PICK lines \in ReadEntries(x) : AppendTo(c, x, lines)
    BY <1>2
  <2>2. After(c, "append", x, Index, "none", Absent, lines, << >>, {count.appends + 1})
    BY <2>1, DoAppendTo
  <2>3. LastId(lines) \in {0} \cup Ids(Lines(file[x]))
    <3>1. CASE lines = << >>
      BY <3>1, LastIdType, ReadsType
    <3>2. CASE lines # << >>
      <4>1. lines = Lines(file[x]) /\ lines \in Seq(Entry)
        BY <3>2, ReadsType
      <4>2. LastId(lines) = lines[Len(lines)].id /\ Len(lines) \in DOMAIN lines
        BY <3>2, <4>1, LastIdType, LenProperties
      <4> QED
        BY <4>1, <4>2 DEF Ids
    <3> QED
      BY <3>1, <3>2
  <2> QED
    BY <1>said, <2>1, <2>2, <2>3, LogsStay DEF After, AppendTo, disk
<1> QED
  BY <1>1, <1>2

LEMMA OverlapWhileCreating ==
  ASSUME Typed, Fresh, OnlyAppended, NEW c \in Clients, CreateFile(c)
  PROVE  OnlyAppended'
<1>x. PICK x \in Session : x = job[c].session
  BY LocalTypes DEF CreateFile, At
<1>p. \A s \in Session : s \in Path
  BY Texts
<1>1. /\ job'[c].pc = "persist" /\ job'[c].session = x /\ job'[c].path = Index
      /\ job'[c].todo = << >> /\ job'[c].said = job[c].said
      /\ \A d \in Clients \ {c} : job'[d] = job[d]
      /\ file'[x] = Empty /\ \A q \in Path \ {x} : file'[q] = file[q]
      /\ promised' = promised
  BY <1>x, DoCreateFile DEF After, CreateFile, OnlyAppended
<1>2. \A d \in Clients \ {c} : job[d].session # x
  BY <1>x DEF CreateFile, Fresh, CallsApart
<1>3. promised[x].messages = {} /\ job[c].said = {}
  <2>1. Hidden(x)
    BY <1>x DEF Fresh, Made, CreateFile
  <2>2. Said(file[x]) = {} /\ promised[x].messages = {}
    BY <2>1, SaidNothing DEF Hidden, Said, Nothing
  <2>3. job[c].said \subseteq Said(file[x])
    BY <1>x DEF OnlyAppended, CreateFile, At
  <2> QED
    BY <2>2, <2>3
<1>4. Said(file'[x]) = {} /\ Parented(Lines(file'[x]))
  BY <1>1, SaidNothing, LinesOf DEF Said
<1>5. \A s \in Session : promised'[s].messages \subseteq Said(file'[s]) /\ Parented(Lines(file'[s]))
  BY <1>1, <1>3, <1>4, <1>p DEF OnlyAppended
<1>6. \A d \in Clients, s \in Session : job'[d].session = s =>
        IF job'[d].pc = "append" THEN LastId(job'[d].entries) \in {0} \cup Ids(Lines(file'[s]))
        ELSE job'[d].said \subseteq Said(file'[s])
  BY <1>1, <1>2, <1>3, <1>p DEF OnlyAppended, At
<1>7. \A d \in Clients : job'[d].path = Index /\ job'[d].todo = << >> /\ job'[d].pc # "fill"
  BY <1>1 DEF OnlyAppended
<1> QED
  BY <1>5, <1>6, <1>7 DEF OnlyAppended, At, Said, Parented, Lines, Messages, LastId, Ids

LEMMA OverlapWhileAppending ==
  ASSUME Typed, OnlyAppended, NEW c \in Clients, AppendLine(c)
  PROVE  OnlyAppended'
<1>x. PICK x \in Session : x = job[c].session
  BY LocalTypes DEF AppendLine, At
<1>p. \A s \in Session : s \in Path
  BY Texts
<1>1. /\ job'[c].pc = "persist" /\ job'[c].session = x /\ job'[c].path = Index
      /\ job'[c].todo = << >> /\ job'[c].said = job[c].said
      /\ \A d \in Clients \ {c} : job'[d] = job[d]
      /\ file'[x] = Append(Lines(file[x]), NewEntry(c))
      /\ \A q \in Path \ {x} : file'[q] = file[q]
      /\ promised' = promised
  BY <1>x, DoAppendLine DEF After, AppendLine, OnlyAppended
<1>2. PICK lines \in Seq(Entry), e \in Entry :
        /\ lines = Lines(file[x]) /\ e = NewEntry(c)
        /\ e.parent = LastId(job[c].entries) /\ job[c].said = {e.message}
  BY NewEntryType, LinesOf DEF AppendLine
<1>3. PICK new : new = Append(lines, e)
  OBVIOUS
<1>4. PICK n \in Nat : /\ n = Len(lines) /\ new \in Seq(Entry)
                       /\ DOMAIN lines = 1 .. n /\ DOMAIN new = 1 .. n + 1
                       /\ new[n + 1] = e /\ \A i \in 1 .. n : new[i] = lines[i]
  BY <1>3, AppendedProperties
<1>5. /\ Ids(new) = Ids(lines) \cup {e.id}
      /\ ToSet(Messages(new)) = ToSet(Messages(lines)) \cup {e.message}
  BY <1>3, AppendedProperties
<1>6. Lines(file'[x]) = new
  BY <1>1, <1>2, <1>3, <1>4, LinesOf
<1>7. Said(file[x]) \subseteq Said(file'[x]) /\ e.message \in Said(file'[x])
  BY <1>2, <1>5, <1>6 DEF Said
<1>8. Parented(new)
  <2> SUFFICES ASSUME NEW i \in 1 .. n + 1, new[i].parent # 0
               PROVE  \E j \in 1 .. i - 1 : new[j].id = new[i].parent
    BY <1>4 DEF Parented
  <2>1. CASE i \in 1 .. n
    <3>1. new[i] = lines[i] /\ i \in DOMAIN lines
      BY <1>4, <2>1
    <3>2. PICK j \in 1 .. i - 1 : lines[j].id = lines[i].parent
      BY <1>2, <3>1 DEF OnlyAppended, Parented
    <3>3. j \in 1 .. n
      BY <2>1
    <3> QED
      BY <1>4, <3>1, <3>2, <3>3
  <2>2. CASE i = n + 1
    <3>1. e.parent \in Ids(lines)
      BY <1>2, <1>4, <1>x, <2>2 DEF OnlyAppended, AppendLine, At
    <3>2. PICK j \in 1 .. n : lines[j].id = e.parent
      BY <1>4, <3>1 DEF Ids
    <3>3. j \in 1 .. i - 1
      BY <2>2
    <3> QED
      BY <1>4, <2>2, <3>2, <3>3
  <2> QED
    BY <2>1, <2>2
<1>9. \A s \in Session : promised'[s].messages \subseteq Said(file'[s]) /\ Parented(Lines(file'[s]))
  BY <1>1, <1>6, <1>7, <1>8, <1>p DEF OnlyAppended
<1>10. \A d \in Clients, s \in Session : job'[d].session = s =>
         IF job'[d].pc = "append" THEN LastId(job'[d].entries) \in {0} \cup Ids(Lines(file'[s]))
         ELSE job'[d].said \subseteq Said(file'[s])
  <2> SUFFICES ASSUME NEW d \in Clients, NEW s \in Session, job'[d].session = s
               PROVE  IF job'[d].pc = "append"
                      THEN LastId(job'[d].entries) \in {0} \cup Ids(Lines(file'[s]))
                      ELSE job'[d].said \subseteq Said(file'[s])
    OBVIOUS
  <2>1. Ids(Lines(file[s])) \subseteq Ids(Lines(file'[s])) /\ Said(file[s]) \subseteq Said(file'[s])
    BY <1>1, <1>2, <1>5, <1>6, <1>7, <1>p
  <2>2. CASE d = c
    BY <1>1, <1>2, <1>7, <2>2
  <2>3. CASE d # c
    BY <1>1, <2>1, <2>3 DEF OnlyAppended, At
  <2> QED
    BY <2>2, <2>3
<1>11. \A d \in Clients : job'[d].path = Index /\ job'[d].todo = << >> /\ job'[d].pc # "fill"
  BY <1>1 DEF OnlyAppended
<1> QED
  BY <1>9, <1>10, <1>11 DEF OnlyAppended, At, Said, Parented, Lines, Messages, LastId, Ids

LEMMA OverlapStep ==
  ASSUME Overlapping, Typed, Fresh, OnlyAppended, [Next]_vars
  PROVE  OnlyAppended'
<1>1. CASE \E c \in Clients :
             ReadIndex(c) \/ Load(c) \/ Persist(c) \/ Open(c) \/ Write(c) \/ Rename(c) \/ Throws(c)
  BY <1>1, OverlapWhileIndexing
<1>2. CASE \E c \in Clients, s \in Session :
             \/ Create(c, s) \/ Relabel(c, s) \/ \E lines \in ReadEntries(s) : AppendTo(c, s, lines)
  BY <1>2, OverlapWhileCalling
<1>3. CASE \E c \in Clients : CreateFile(c)
  BY <1>3, OverlapWhileCreating
<1>4. CASE \E c \in Clients : AppendLine(c)
  BY <1>4, OverlapWhileAppending
<1>5. CASE Restart
  <2>1. \A c \in Clients : job'[c] = Idle
    BY <1>5, DoRestart
  <2>2. file' = file /\ promised' = promised
    BY <1>5 DEF Restart, disk
  <2>3. \A c \in Clients : \A s \in Session : job'[c].session # s
    BY <2>1, IdleType, StoreAssumption
  <2> QED
    BY <2>1, <2>2, <2>3, IdleType DEF OnlyAppended, At, Said, Parented, Lines, Messages, LastId, Ids
<1>6. CASE UNCHANGED vars
  BY <1>6 DEF vars, disk, OnlyAppended, At, Said, Parented, Lines, Messages, LastId, Ids
<1>7. \A c \in Clients : ~ Fill(c)
  BY DEF Fill, At, OnlyAppended
<1>8. \A c \in Clients, s \in Session :
        /\ ~ Delete(c, s)
        /\ \A lines : /\ \A keep : ~ Compact(c, s, lines, keep)
                      /\ \A t, cutoff : ~ Branch(c, s, t, lines, cutoff)
  BY DEF Overlapping, Delete, Compact, Branch, MayCallOf, MayCall
<1> QED
  BY <1>1, <1>2, <1>3, <1>4, <1>5, <1>6, <1>7, <1>8 DEF Next

LEMMA OverlapInvariant ==
  ASSUME Overlapping
  PROVE  Spec => [](Typed /\ Fresh /\ OnlyAppended)
<1>1. Init => OnlyAppended
  <2>1. Init => \A c \in Clients : job[c] = Idle
    BY DEF Init
  <2>2. Init => \A s \in Session : promised[s].messages = {} /\ Lines(file[s]) = << >>
    BY Texts DEF Init, Nothing, Lines
  <2>3. \A s \in Session : Idle.session # s
    BY IdleType, StoreAssumption
  <2> QED
    BY <2>1, <2>2, <2>3, IdleType, SaidNothing DEF OnlyAppended, Said
<1>2. Init => Typed /\ Fresh
  BY InitTyped, FreshInit
<1>3. Typed /\ Fresh /\ OnlyAppended /\ [Next]_vars => Typed' /\ Fresh' /\ OnlyAppended'
  BY StepTyped, FreshStep, OverlapStep
<1> QED
  BY <1>1, <1>2, <1>3, PTL DEF Spec

\* However many clients create, relabel and append to sessions at the same time, and
\* whatever fails, what a returned append() wrote is never lost: appendFile() adds to the
\* file as it is then, not as it was read (store.ts lines 103-123).
THEOREM OverlappingAppendsLast ==
  ASSUME Overlapping
  PROVE  Spec => []EntriesDurable
<1>1. OnlyAppended => EntriesDurable
  BY DEF OnlyAppended, EntriesDurable, Said
<1>2. Spec => [](Typed /\ Fresh /\ OnlyAppended)
  BY OverlapInvariant
<1> QED
  BY <1>1, <1>2, PTL

\* Nor do such calls ever leave an entry without its parent before it: two entries may
\* become the children of the same one, but the one that was read is still there
\* (store.ts lines 106-119).
THEOREM OverlappingParentsEarlier ==
  ASSUME Overlapping
  PROVE  Spec => []ParentsEarlier
<1>1. OnlyAppended => ParentsEarlier
  BY DEF OnlyAppended, ParentsEarlier, Parented
<1>2. Spec => [](Typed /\ Fresh /\ OnlyAppended)
  BY OverlapInvariant
<1> QED
  BY <1>1, <1>2, PTL

-------------------------------------------------------------------------------
(* Calls that are awaited one after the other: the index *)

\* One client, which awaits its calls, and files that can be read.
Serial == ReadsFail = FALSE /\ \E c : Clients = {c}

Client == CHOOSE c \in Clients : TRUE
J == job[Client]
Replacing == J.pc \in {"open", "write", "rename"}

\* The index on disk lists what was promised, and the one in memory, where there is one,
\* what is promised or newer; a session only the one on disk still lists is deleted.
IndexDurable ==
  /\ file[Index] \in Indexed \cup {Absent}
  /\ \A s \in Session : promised[s].label > 0 =>
       file[Index] # Absent /\ file[Index][s] >= promised[s].label
  /\ initialized => \A s \in Session :
       /\ index[s] >= promised[s].label
       /\ file[Index] # Absent /\ file[Index][s] > 0 /\ index[s] = 0 => Lines(file[s]) = << >>

\* What the call under way is about to write is up to date.
CallCurrent ==
  /\ J.pc = "load" => J.text = file[Index]
  /\ J.pc \notin {"idle", "load"} => initialized
  /\ Replacing /\ J.path = Index => J.text = index
  /\ IF J.pc = "write" THEN J.handle = "tmp" /\ tmp[J.path] = Empty ELSE J.handle = "none"
  /\ J.pc = "rename" => tmp[J.path] = J.text
  /\ J.pc = "fill" => J.todo # << >>
  /\ J.pc = "append" \/ (J.todo # << >> /\ J.pc # "create") =>
       J.session \in Session /\ index[J.session] > 0
  /\ Replacing /\ J.path # Index => index[J.path] > 0

IndexKept == IndexDurable /\ CallCurrent

LEMMA OneClient ==
  ASSUME Serial
  PROVE  Client \in Clients /\ \A c \in Clients : c = Client
BY DEF Serial, Client

\* What the proofs about one client start from.
LEMMA SerialTypes ==
  ASSUME Serial, Typed
  PROVE  /\ Client \in Clients /\ J \in Locals /\ CallTyped(J) /\ J.path \in Path
         /\ file[Index] \in {Absent, Torn, Empty} \cup Indexed
         /\ \A s \in Session : /\ index[s] \in Nat /\ promised[s] \in Promises
                               /\ promised[s].label \in Nat /\ s \in Path /\ s # Index
         /\ \A x \in Indexed, s \in Session : x[s] \in Nat
         /\ \A x \in Indexed : x \notin {Absent, Torn, Empty}
         /\ Index \in Path /\ NoSessions \in Indexed /\ \A s \in Session : NoSessions[s] = 0
<1>1. Client \in Clients
  BY OneClient
<1>2. J \in Locals /\ CallTyped(J) /\ J.path \in Path
  BY <1>1, LocalTypes DEF J
<1>3. file[Index] \in {Absent, Torn, Empty} \cup Indexed
  BY Texts DEF Typed, DiskTyped
<1>4. \A s \in Session : /\ index[s] \in Nat /\ promised[s] \in Promises
                         /\ promised[s].label \in Nat /\ s \in Path /\ s # Index
  BY Texts DEF Typed, Indexed, Promises
<1> QED
  BY <1>1, <1>2, <1>3, <1>4, Texts, TextAssumption DEF Indexed, NoSessions

LEMMA IndexStays ==
  ASSUME IndexDurable, file'[Index] = file[Index], index' = index, initialized' = initialized,
         \A s \in Session : promised'[s].label = promised[s].label,
         \A s \in Session : index[s] = 0 => Lines(file'[s]) \in {Lines(file[s]), << >>}
  PROVE  IndexDurable'
<1>1. \A s \in Session : Lines(file[s])' = Lines(file'[s])
  BY DEF Lines
<1> QED
  BY <1>1 DEF IndexDurable, Indexed

LEMMA IndexWhileInitializing ==
  ASSUME Serial, Typed, IndexKept, ReadIndex(Client) \/ Load(Client)
  PROVE  IndexKept'
<1>1. CASE ReadIndex(Client)
  <2>1. After(Client, "load", Index, Index, "none", file[Index], << >>, << >>, {})
    BY <1>1, SerialTypes, DoReadIndex
  <2>2. IndexDurable'
    BY <1>1, IndexStays DEF IndexKept, ReadIndex, disk, memory
  <2>3. CallCurrent'
    BY <1>1, <2>1 DEF CallCurrent, After, J, Replacing, ReadIndex, disk
  <2> QED
    BY <2>2, <2>3 DEF IndexKept
<1>2. CASE Load(Client)
  <2>1. /\ After(Client, "idle", Index, Index, "none", Absent, << >>, << >>, {})
        /\ index' = IF J.text \in {Absent, Torn, Empty} THEN NoSessions ELSE J.text
        /\ J.text = file[Index] /\ file' = file /\ promised' = promised
    BY <1>2, SerialTypes, DoLoad DEF IndexKept, CallCurrent, J, Load, At, disk
  <2>2. IndexDurable'
    <3>1. CASE file[Index] = Absent
      <4>1. \A s \in Session : promised[s].label = 0
        BY <3>1, SerialTypes DEF IndexKept, IndexDurable
      <4>2. \A s \in Session : index'[s] = 0
        BY <2>1, <3>1, SerialTypes
      <4> QED
        BY <2>1, <3>1, <4>1, <4>2 DEF IndexDurable
    <3>2. CASE file[Index] # Absent
      <4>1. file[Index] \in Indexed /\ index' = file[Index]
        BY <2>1, <3>2, SerialTypes DEF IndexKept, IndexDurable
      <4>2. \A s \in Session : index'[s] >= promised[s].label
        BY <4>1, SerialTypes DEF IndexKept, IndexDurable
      <4>3. \A s \in Session : ~ (file[Index][s] > 0 /\ index'[s] = 0)
        BY <4>1, SerialTypes
      <4> QED
        BY <2>1, <4>1, <4>2, <4>3 DEF IndexKept, IndexDurable, Indexed
    <3> QED
      BY <3>1, <3>2
  <2>3. CallCurrent'
    BY <2>1 DEF CallCurrent, After, J, Replacing
  <2> QED
    BY <2>2, <2>3 DEF IndexKept
<1> QED
  BY <1>1, <1>2

LEMMA IndexWhileReplacing ==
  ASSUME Serial, Typed, IndexKept,
         Persist(Client) \/ Open(Client) \/ Write(Client) \/ Throws(Client)
  PROVE  IndexKept'
<1>1. CASE Persist(Client)
  <2>1. After(Client, "open", J.session, Index, J.handle, index, J.entries, J.todo, J.said)
    BY <1>1, SerialTypes, DoPersist DEF J
  <2>2. IndexDurable'
    BY <1>1, IndexStays DEF IndexKept, Persist, disk, memory
  <2>3. CallCurrent'
    BY <1>1, <2>1 DEF IndexKept, CallCurrent, After, J, Replacing, Persist, At, disk, memory
  <2> QED
    BY <2>2, <2>3 DEF IndexKept
<1>2. CASE Open(Client)
  <2>1. /\ After(Client, "write", J.session, J.path, "tmp", J.text, J.entries, J.todo, J.said)
        /\ tmp'[J.path] = Empty
    BY <1>2, SerialTypes, DoOpen DEF J
  <2>2. IndexDurable'
    BY <1>2, IndexStays DEF IndexKept, Open, memory
  <2>3. CallCurrent'
    BY <1>2, <2>1 DEF IndexKept, CallCurrent, After, J, Replacing, Open, At, memory
  <2> QED
    BY <2>2, <2>3 DEF IndexKept
<1>3. CASE Write(Client)
  <2>1. J.pc = "write" /\ J.handle = "tmp" /\ tmp[J.path] = Empty
    BY <1>3 DEF IndexKept, CallCurrent, Write, At, J
  <2>2. /\ After(Client, "rename", J.session, J.path, "none", J.text, J.entries, J.todo, J.said)
        /\ \A q \in Path \ {J.path} : file'[q] = file[q]
        /\ file'[J.path] = file[J.path] /\ tmp'[J.path] \in Over(Empty, J.text)
    BY <1>3, <2>1, SerialTypes, DoWrite DEF J
  <2>3. tmp'[J.path] = J.text
    BY <2>2 DEF Over
  <2>4. \A q \in Path : file'[q] = file[q]
    BY <2>2
  <2>5. IndexDurable'
    BY <1>3, <2>4, SerialTypes, IndexStays DEF IndexKept, Write, memory
  <2>6. CallCurrent'
    BY <1>3, <2>1, <2>2, <2>3 DEF IndexKept, CallCurrent, After, J, Replacing, Write, At, memory
  <2> QED
    BY <2>5, <2>6 DEF IndexKept
<1>4. CASE Throws(Client)
  <2>1. job'[Client] = Idle
    BY <1>4, SerialTypes, DoThrows
  <2>2. IndexDurable'
    BY <1>4, IndexStays DEF IndexKept, Throws, disk, memory
  <2>3. CallCurrent'
    BY <2>1, IdleType DEF CallCurrent, J, Replacing
  <2> QED
    BY <2>2, <2>3 DEF IndexKept
<1> QED
  BY <1>1, <1>2, <1>3, <1>4

LEMMA IndexWhileRenaming ==
  ASSUME Serial, Typed, IndexKept, Rename(Client)
  PROVE  IndexKept'
<1>1. /\ file'[J.path] = tmp[J.path] /\ tmp[J.path] = J.text /\ initialized
      /\ \A q \in Path \ {J.path} : file'[q] = file[q]
      /\ index' = index /\ initialized' = initialized
  BY SerialTypes, DoRename DEF J, IndexKept, CallCurrent, Rename, At, memory
<1>2. CASE J.path # Index
  <2>1. /\ job'[Client].pc = "persist" /\ job'[Client].session = J.session
        /\ job'[Client].path = J.path /\ job'[Client].handle = J.handle
        /\ job'[Client].text = J.text /\ job'[Client].todo = J.todo /\ promised' = promised
    BY <1>2, SerialTypes, DoRenameJobs DEF J
  <2>2. J.path \in Session /\ index[J.path] > 0
    BY <1>2, SerialTypes DEF IndexKept, CallCurrent, Replacing, Rename, At, J, Path
  <2>3. IndexDurable'
    BY <1>1, <1>2, <2>1, <2>2, SerialTypes, IndexStays DEF IndexKept
  <2>4. CallCurrent'
    BY <1>1, <2>1 DEF IndexKept, CallCurrent, J, Replacing, Rename, At
  <2> QED
    BY <2>3, <2>4 DEF IndexKept
<1>3. CASE J.path = Index
  <2>1. J.text = index /\ index \in Indexed /\ file'[Index] = index
    BY <1>1, <1>3 DEF IndexKept, CallCurrent, Replacing, Rename, At, J, Typed
  <2>2. \A s \in Session : promised'[s].label \in {promised[s].label, index[s]}
    BY <1>3, SerialTypes, DoRenameJobs, DoPromise DEF J
  <2>3. \A s \in Session : index[s] >= promised'[s].label
    BY <1>1, <2>2, SerialTypes DEF IndexKept, IndexDurable
  <2>4. IndexDurable'
    <3>1. index \notin {Absent, Torn, Empty}
      BY <2>1, SerialTypes
    <3>2. \A s \in Session : ~ (index[s] > 0 /\ index[s] = 0)
      BY SerialTypes
    <3> QED
      BY <1>1, <2>1, <2>3, <3>1, <3>2 DEF IndexDurable, Indexed
  <2>5. CallCurrent'
    <3>1. CASE J.todo # << >>
      <4>1. /\ job'[Client].pc = "fill" /\ job'[Client].session = J.session
            /\ job'[Client].path = J.path /\ job'[Client].handle = J.handle
            /\ job'[Client].todo = J.todo
        BY <1>3, <3>1, SerialTypes, DoRenameJobs DEF J
      <4> QED
        BY <1>1, <3>1, <4>1 DEF IndexKept, CallCurrent, J, Replacing, Rename, At
    <3>2. CASE J.todo = << >>
      <4>1. job'[Client] = Idle
        BY <1>3, <3>2, SerialTypes, DoRenameJobs DEF J
      <4> QED
        BY <4>1, IdleType DEF CallCurrent, J, Replacing
    <3> QED
      BY <3>1, <3>2
  <2> QED
    BY <2>4, <2>5 DEF IndexKept
<1> QED
  BY <1>2, <1>3

LEMMA IndexWhileFilling ==
  ASSUME Serial, Typed, Fresh, IndexKept,
         CreateFile(Client) \/ AppendLine(Client) \/ Fill(Client)
  PROVE  IndexKept'
<1>1. CASE CreateFile(Client)
  <2>1. PICK x \in Session : x = J.session /\ Hidden(x)
    <3>1. J.session \in Session /\ ~ Made(J.session)
      BY <1>1, SerialTypes, DoCreateFile DEF CreateFile, Made, J
    <3> QED
      BY <3>1 DEF Fresh
  <2>2. /\ After(Client, "persist", x, J.path, J.handle, J.text, J.entries, J.todo, J.said)
        /\ file'[x] = Empty /\ \A q \in Path \ {x} : file'[q] = file[q]
        /\ index'[x] = 1 /\ \A t \in Session \ {x} : index'[t] = index[t]
        /\ initialized' = initialized /\ promised' = promised
    BY <1>1, <2>1, SerialTypes, DoCreateFile DEF J, CreateFile
  <2>3. promised[x].label = 0 /\ file'[Index] = file[Index]
    BY <2>1, <2>2, SerialTypes DEF Hidden, Nothing
  <2>4. \A s \in Session \ {x} : Lines(file'[s]) = Lines(file[s])
    BY <2>2, SerialTypes
  <2>5. \A s \in Session : Lines(file[s])' = Lines(file'[s])
    BY DEF Lines
  <2>6. IndexDurable'
    BY <2>2, <2>3, <2>4, <2>5 DEF IndexKept, IndexDurable, Indexed
  <2>7. CallCurrent'
    BY <1>1, <2>2 DEF IndexKept, CallCurrent, After, J, Replacing, CreateFile, At
  <2> QED
    BY <2>6, <2>7 DEF IndexKept
<1>2. CASE AppendLine(Client) \/ Fill(Client)
  <2>1. PICK x \in Session : x = J.session /\ index[x] > 0
    BY <1>2 DEF IndexKept, CallCurrent, AppendLine, Fill, At, J
  <2>2. /\ job'[Client].pc = "persist" /\ job'[Client].session = x
        /\ job'[Client].path = J.path /\ job'[Client].handle = J.handle
        /\ \A q \in Path \ {x} : file'[q] = file[q]
        /\ index' = index /\ initialized' = initialized /\ promised' = promised
    <3>1. CASE AppendLine(Client)
      BY <2>1, <3>1, SerialTypes, DoAppendLine DEF J, After, AppendLine, memory
    <3>2. CASE Fill(Client)
      BY <2>1, <3>2, SerialTypes, DoFill DEF J, After, Fill, memory
    <3> QED
      BY <1>2, <3>1, <3>2
  <2>3. IndexDurable'
    BY <2>1, <2>2, SerialTypes, IndexStays DEF IndexKept
  <2>4. CallCurrent'
    BY <1>2, <2>1, <2>2 DEF IndexKept, CallCurrent, J, Replacing, AppendLine, Fill, At
  <2> QED
    BY <2>3, <2>4 DEF IndexKept
<1> QED
  BY <1>1, <1>2

LEMMA IndexWhileCalling ==
  ASSUME Serial, Typed, IndexKept, NEW x \in Session,
         \/ Create(Client, x) \/ Relabel(Client, x) \/ Delete(Client, x)
         \/ \E lines \in ReadEntries(x) :
              \/ AppendTo(Client, x, lines)
              \/ \E t \in Session : \E cutoff \in 0 .. Len(lines) : Branch(Client, x, t, lines, cutoff)
              \/ \E keep : Compact(Client, x, lines, keep)
  PROVE  IndexKept'
<1>1. CASE Create(Client, x)
  <2>1. After(Client, "create", x, Index, "none", Absent, << >>, << >>, {})
    BY <1>1, SerialTypes, DoCreate
  <2>2. IndexDurable'
    BY <1>1, IndexStays DEF IndexKept, Create, disk, memory
  <2>3. CallCurrent'
    BY <1>1, <2>1 DEF CallCurrent, After, J, Replacing, Create, MayCall, memory
  <2> QED
    BY <2>2, <2>3 DEF IndexKept
<1>2. CASE Relabel(Client, x)
  <2>1. /\ After(Client, "persist", x, Index, "none", Absent, << >>, << >>, {})
        /\ index'[x] = index[x] + 1 /\ \A t \in Session \ {x} : index'[t] = index[t]
        /\ file' = file /\ promised' = promised /\ initialized' = initialized /\ initialized
    BY <1>2, SerialTypes, DoRelabel DEF Relabel, MayCallOf, MayCall, disk
  <2>2. \A s \in Session : index'[s] \in {index[s], index[s] + 1} /\ index[s] \in Nat
    BY <2>1, SerialTypes
  <2>3. \A s \in Session : index'[s] >= promised[s].label
    BY <2>1, <2>2, SerialTypes DEF IndexKept, IndexDurable
  <2>4. \A s \in Session : index'[s] = 0 => index[s] = 0
    BY <2>2
  <2>5. IndexDurable'
    BY <2>1, <2>3, <2>4 DEF IndexKept, IndexDurable
  <2>6. CallCurrent'
    BY <2>1 DEF CallCurrent, After, J, Replacing
  <2> QED
    BY <2>5, <2>6 DEF IndexKept
<1>3. CASE Delete(Client, x)
  <2>1. /\ After(Client, "persist", x, Index, "none", Absent, << >>, << >>, {})
        /\ file'[x] = Absent /\ \A q \in Path \ {x} : file'[q] = file[q]
        /\ index'[x] = 0 /\ \A t \in Session \ {x} : index'[t] = index[t]
        /\ promised'[x] = Nothing /\ \A t \in Session \ {x} : promised'[t] = promised[t]
        /\ initialized' = initialized /\ initialized
    BY <1>3, SerialTypes, DoDelete DEF Delete, MayCallOf, MayCall
  <2>2. file'[Index] = file[Index] /\ \A s \in Session \ {x} : file'[s] = file[s]
    BY <2>1, SerialTypes
  <2>3. Lines(file'[x]) = << >> /\ promised'[x].label = 0
    BY <2>1 DEF Lines, Nothing
  <2>4. \A s \in Session : Lines(file[s])' = Lines(file'[s])
    BY DEF Lines
  <2>5. IndexDurable'
    BY <2>1, <2>2, <2>3, <2>4 DEF IndexKept, IndexDurable, Indexed
  <2>6. CallCurrent'
    BY <2>1 DEF CallCurrent, After, J, Replacing
  <2> QED
    BY <2>5, <2>6 DEF IndexKept
<1>4. CASE \E lines \in ReadEntries(x) : AppendTo(Client, x, lines)
  <2>1. PICK lines \in ReadEntries(x) : AppendTo(Client, x, lines)
    BY <1>4
  <2>2. /\ After(Client, "append", x, Index, "none", Absent, lines, << >>, {count.appends + 1})
        /\ index[x] > 0 /\ initialized' /\ index' = index
    BY <2>1, SerialTypes, DoAppendTo DEF AppendTo, MayCallOf, MayCall, Listed, memory
  <2>3. IndexDurable'
    BY <2>1, IndexStays DEF IndexKept, AppendTo, disk, memory
  <2>4. CallCurrent'
    BY <2>2 DEF CallCurrent, After, J, Replacing
  <2> QED
    BY <2>3, <2>4 DEF IndexKept
<1>5. CASE \E lines \in ReadEntries(x) : \E t \in Session : \E cutoff \in 0 .. Len(lines) :
             Branch(Client, x, t, lines, cutoff)
  <2>1. PICK lines \in ReadEntries(x) : \E t \in Session : \E cutoff \in 0 .. Len(lines) :
             Branch(Client, x, t, lines, cutoff)
    BY <1>5
  <2>2. PICK t \in Session : \E cutoff \in 0 .. Len(lines) : Branch(Client, x, t, lines, cutoff)
    BY <2>1
  <2>3. PICK cutoff \in 0 .. Len(lines) : Branch(Client, x, t, lines, cutoff)
    BY <2>2
  <2>4. After(Client, "create", t, Index, "none", Absent, << >>, SubSeq(lines, 1, cutoff), {})
    BY <2>3, SerialTypes, DoBranch
  <2>5. IndexDurable'
    BY <2>3, IndexStays DEF IndexKept, Branch, disk, memory
  <2>6. CallCurrent'
    BY <2>3, <2>4 DEF CallCurrent, After, J, Replacing, Branch, MayCallOf, MayCall, memory
  <2> QED
    BY <2>5, <2>6 DEF IndexKept
<1>6. CASE \E lines \in ReadEntries(x) : \E keep : Compact(Client, x, lines, keep)
  <2>1. PICK lines \in ReadEntries(x) : \E keep : Compact(Client, x, lines, keep)
    BY <1>6
  <2>2. PICK keep : Compact(Client, x, lines, keep)
    BY <2>1
  <2>3. /\ After(Client, "open", x, x, "none", Rewritten(lines, keep), << >>, << >>, {})
        /\ \A s \in Session : promised'[s].label = promised[s].label
        /\ x # Index /\ index[x] > 0 /\ initialized' /\ index' = index
    BY <2>2, SerialTypes, DoCompact DEF Compact, MayCallOf, MayCall, Listed, memory
  <2>4. IndexDurable'
    BY <2>2, <2>3, IndexStays DEF IndexKept, Compact, disk, memory
  <2>5. CallCurrent'
    BY <2>3 DEF CallCurrent, After, J, Replacing
  <2> QED
    BY <2>4, <2>5 DEF IndexKept
<1> QED
  BY <1>1, <1>2, <1>3, <1>4, <1>5, <1>6

LEMMA IndexStep ==
  ASSUME Serial, Typed, Fresh, IndexKept, [Next]_vars
  PROVE  IndexKept'
<1>1. CASE \E c \in Clients : ReadIndex(c) \/ Load(c)
  BY <1>1, OneClient, IndexWhileInitializing
<1>2. CASE \E c \in Clients : Persist(c) \/ Open(c) \/ Write(c) \/ Throws(c)
  BY <1>2, OneClient, IndexWhileReplacing
<1>3. CASE \E c \in Clients : Rename(c)
  BY <1>3, OneClient, IndexWhileRenaming
<1>4. CASE \E c \in Clients : CreateFile(c) \/ AppendLine(c) \/ Fill(c)
  BY <1>4, OneClient, IndexWhileFilling
<1>5. CASE \E c \in Clients, s \in Session :
             \/ Create(c, s) \/ Relabel(c, s) \/ Delete(c, s)
             \/ \E lines \in ReadEntries(s) :
                  \/ AppendTo(c, s, lines)
                  \/ \E t \in Session, cutoff \in 0 .. Len(lines) : Branch(c, s, t, lines, cutoff)
                  \/ \E keep \in SUBSET Ids(Lines(file[s])) : Compact(c, s, lines, keep)
  BY <1>5, OneClient, IndexWhileCalling
<1>6. CASE Restart
  <2>1. J' = Idle
    BY <1>6, OneClient, DoRestart DEF J
  <2>2. IndexDurable'
    BY <1>6 DEF IndexKept, IndexDurable, Restart, Indexed, disk
  <2>3. CallCurrent'
    BY <2>1, IdleType DEF CallCurrent, Replacing
  <2> QED
    BY <2>2, <2>3 DEF IndexKept
<1>7. CASE UNCHANGED vars
  BY <1>7 DEF vars, disk, memory, IndexKept, IndexDurable, CallCurrent, J, Replacing, Lines, Indexed
<1> QED
  BY <1>1, <1>2, <1>3, <1>4, <1>5, <1>6, <1>7 DEF Next

LEMMA IndexInit ==
  ASSUME Serial, Init
  PROVE  IndexKept
<1>1. J = Idle
  BY OneClient DEF Init, J
<1>2. CallCurrent
  BY <1>1, IdleType DEF CallCurrent, Replacing
<1>3. IndexDurable
  BY Texts DEF Init, IndexDurable, Nothing
<1> QED
  BY <1>2, <1>3 DEF IndexKept

LEMMA IndexInvariant ==
  ASSUME Serial
  PROVE  Spec => [](Typed /\ Fresh /\ IndexKept)
<1>1. Init => Typed /\ Fresh /\ IndexKept
  BY InitTyped, FreshInit, IndexInit
<1>2. Typed /\ Fresh /\ IndexKept /\ [Next]_vars => Typed' /\ Fresh' /\ IndexKept'
  BY StepTyped, FreshStep, IndexStep
<1> QED
  BY <1>1, <1>2, PTL DEF Spec

\* With calls that are awaited one after the other, what a returned create(), rename(),
\* setLane() or branch() put in the index is on disk with that name or a newer one,
\* whatever fails and whenever the process ends: the index is replaced as a whole
\* (store.ts lines 28-92, 229-234).
THEOREM SessionsAlwaysDurable ==
  ASSUME Serial
  PROVE  Spec => []SessionsDurable
<1>1. Typed /\ Fresh /\ IndexKept => SessionsDurable
  BY DEF IndexKept, IndexDurable, SessionsDurable
<1>2. Spec => [](Typed /\ Fresh /\ IndexKept)
  BY IndexInvariant
<1> QED
  BY <1>1, <1>2, PTL

\* And index.json is a whole index at every moment (store.ts line 28); with several
\* callers it is not.
THEOREM IndexAlwaysReadable ==
  ASSUME Serial
  PROVE  Spec => []IndexReadable
<1>1. IndexKept => IndexReadable
  BY TextAssumption DEF IndexKept, IndexDurable, IndexReadable
<1>2. Spec => [](Typed /\ Fresh /\ IndexKept)
  BY IndexInvariant
<1> QED
  BY <1>1, <1>2, PTL

-------------------------------------------------------------------------------
(* Calls that are awaited one after the other: the logs *)

\* Lines that are each the child of the one before, with ids that were drawn, each once.
Chained(lines, drawn) ==
  /\ \A i \in 1 .. Len(lines) : /\ lines[i].parent = IF i = 1 THEN 0 ELSE lines[i - 1].id
                                /\ lines[i].id \in 1 .. drawn
  /\ \A i, k \in 1 .. Len(lines) : lines[i].id = lines[k].id => i = k

LEMMA ChainedEmpty ==
  ASSUME NEW n \in Nat
  PROVE  Chained(<< >>, n)
BY DEF Chained

LEMMA ChainedLater ==
  ASSUME NEW lines, NEW n \in Nat, NEW m \in Nat, n <= m, Chained(lines, n)
  PROVE  Chained(lines, m)
<1>1. \A i \in 1 .. n : i \in 1 .. m
  OBVIOUS
<1> QED
  BY <1>1 DEF Chained

LEMMA ChainedAppend ==
  ASSUME NEW lines \in Seq(Entry), NEW n \in Nat, Chained(lines, n),
         NEW e \in Entry, e.id = n + 1, e.parent = LastId(lines)
  PROVE  Chained(Append(lines, e), n + 1)
<1>1. PICK new : new = Append(lines, e)
  OBVIOUS
<1>2. PICK len \in Nat : /\ len = Len(lines) /\ Len(new) = len + 1
                         /\ new[len + 1] = e /\ \A i \in 1 .. len : new[i] = lines[i]
  BY <1>1, AppendedProperties
<1>3. \A i \in 1 .. len + 1 : i \in 1 .. len \/ i = len + 1
  BY <1>2
<1>4. \A i \in 1 .. len : lines[i].id \in 1 .. n /\ lines[i].id # n + 1
  BY <1>2 DEF Chained
<1>5. ASSUME NEW i \in 1 .. len + 1
      PROVE  /\ new[i].parent = IF i = 1 THEN 0 ELSE new[i - 1].id
             /\ new[i].id \in 1 .. n + 1
  <2>1. CASE i \in 1 .. len
    <3>1. i = 1 \/ i - 1 \in 1 .. len
      BY <2>1
    <3> QED
      BY <1>2, <1>4, <2>1, <3>1 DEF Chained
  <2>2. CASE i = len + 1
    <3>1. CASE len = 0
      <4>1. lines = << >>
        BY <1>2, <3>1, EmptySeq
      <4>2. e.parent = 0
        BY <4>1, LastIdType
      <4> QED
        BY <1>2, <2>2, <3>1, <4>2
    <3>2. CASE len # 0
      <4>1. lines # << >> /\ len \in 1 .. len
        BY <1>2, <3>2
      <4>2. e.parent = lines[len].id
        BY <1>2, <4>1, LastIdType
      <4> QED
        BY <1>2, <2>2, <3>2, <4>1, <4>2
    <3> QED
      BY <3>1, <3>2
  <2> QED
    BY <1>3, <2>1, <2>2
<1>6. \A i, k \in 1 .. len + 1 : new[i].id = new[k].id => i = k
  BY <1>2, <1>3, <1>4 DEF Chained
<1> QED
  BY <1>1, <1>2, <1>5, <1>6 DEF Chained

LEMMA PrefixOfChain ==
  ASSUME NEW lines \in Seq(Entry), NEW k \in 0 .. Len(lines), NEW n \in Nat, Chained(lines, n)
  PROVE  /\ Chained(SubSeq(lines, 1, k), n)
         /\ Messages(SubSeq(lines, 1, k)) = SubSeq(Messages(lines), 1, k)
         /\ Len(Messages(lines)) = Len(lines)
<1>1. PICK new : new = SubSeq(lines, 1, k)
  OBVIOUS
<1>2. /\ new \in Seq(Entry) /\ Len(new) = k /\ Len(lines) \in Nat /\ k \in Nat
      /\ \A i \in 1 .. k : new[i] = lines[i] /\ i \in 1 .. Len(lines)
  BY <1>1, PrefixProperties, LenProperties
<1>3. Chained(new, n)
  <2>1. \A i \in 1 .. k : i = 1 \/ i - 1 \in 1 .. k
    BY <1>2
  <2> QED
    BY <1>2, <2>1 DEF Chained
<1>4. PICK said \in Seq(Nat) : /\ said = Messages(lines) /\ Len(said) = Len(lines)
                               /\ \A i \in 1 .. Len(lines) : said[i] = lines[i].message
  BY MessagesProperties
<1>5. PICK part : part = SubSeq(said, 1, k)
  OBVIOUS
<1>6. part \in Seq(Nat) /\ Len(part) = k /\ \A i \in 1 .. k : part[i] = said[i]
  <2>1. \A i \in 1 .. k : said[i] \in Nat
    BY <1>2, <1>4, ElementOfSeq
  <2>2. /\ part \in Seq(Nat) /\ Len(part) = (IF 1 <= k THEN k - 1 + 1 ELSE 0)
        /\ \A i \in 1 .. k - 1 + 1 : part[i] = said[1 + i - 1]
    BY <1>2, <1>5, <2>1, SubSeqProperties
  <2> QED
    BY <1>2, <2>2
<1>7. /\ Messages(new) \in Seq(Nat) /\ Len(Messages(new)) = k
      /\ \A i \in 1 .. k : Messages(new)[i] = new[i].message
  BY <1>2, MessagesProperties
<1>8. \A i \in 1 .. k : Messages(new)[i] = part[i]
  BY <1>2, <1>4, <1>6, <1>7
<1>9. Messages(new) = part
  BY <1>6, <1>7, <1>8, SeqEqual
<1> QED
  BY <1>1, <1>3, <1>4, <1>5, <1>9

\* A chain with new ids is a chain of the same messages.
LEMMA RenewedChain ==
  ASSUME Typed, NEW lines \in Seq(Entry), NEW n \in Nat, Chained(lines, n)
  PROVE  /\ Chained(Renewed(lines), count.ids + Len(lines))
         /\ Messages(Renewed(lines)) = Messages(lines)
<1>1. PICK new \in Seq(Entry), len \in Nat, ids \in Nat :
        new = Renewed(lines) /\ len = Len(lines) /\ ids = count.ids /\ Len(new) = len
  BY RenewedProperties, LenProperties DEF Typed, Counts
<1>2. ASSUME NEW i \in 1 .. len
      PROVE  /\ new[i].id = ids + i /\ new[i].message = lines[i].message
             /\ new[i].parent = IF i = 1 THEN 0 ELSE ids + (i - 1)
  <2> DEFINE parents == {j \in 1 .. i - 1 : lines[j].id = lines[i].parent}
  <2>1. /\ new[i].id = ids + i /\ new[i].message = lines[i].message
        /\ new[i].parent = IF parents = {} THEN 0 ELSE ids + CHOOSE j \in parents : TRUE
    BY <1>1, RenewedProperties
  <2>2. CASE i = 1
    <3>1. parents = {}
      BY <2>2
    <3> QED
      BY <2>1, <2>2, <3>1
  <2>3. CASE i # 1
    <3>1. i - 1 \in 1 .. i - 1 /\ i - 1 \in 1 .. len /\ lines[i].parent = lines[i - 1].id
      BY <1>1, <2>3 DEF Chained
    <3>2. \A j \in 1 .. i - 1 : lines[j].id = lines[i - 1].id => j = i - 1
      BY <1>1, <3>1 DEF Chained
    <3>3. parents = {i - 1}
      BY <3>1, <3>2
    <3>4. (CHOOSE j \in {i - 1} : TRUE) = i - 1
      OBVIOUS
    <3> QED
      BY <2>1, <2>3, <3>3, <3>4
  <2> QED
    BY <2>2, <2>3
<1>3. Chained(new, ids + len)
  <2>1. \A i \in 1 .. len : i = 1 \/ i - 1 \in 1 .. len
    OBVIOUS
  <2>2. \A i \in 1 .. len : new[i].id \in 1 .. ids + len
    BY <1>2
  <2>3. \A i \in 1 .. len : new[i].parent = IF i = 1 THEN 0 ELSE new[i - 1].id
    BY <1>2, <2>1
  <2>4. \A i, k \in 1 .. len : new[i].id = new[k].id => i = k
    BY <1>2
  <2> QED
    BY <1>1, <2>2, <2>3, <2>4 DEF Chained
<1>4. Messages(new) = Messages(lines)
  <2>1. /\ Messages(new) \in Seq(Nat) /\ Len(Messages(new)) = len
        /\ \A i \in 1 .. len : Messages(new)[i] = new[i].message
    BY <1>1, MessagesProperties
  <2>2. /\ Messages(lines) \in Seq(Nat) /\ Len(Messages(lines)) = len
        /\ \A i \in 1 .. len : Messages(lines)[i] = lines[i].message
    BY <1>1, MessagesProperties
  <2>3. \A i \in 1 .. len : Messages(new)[i] = Messages(lines)[i]
    BY <1>2, <2>1, <2>2
  <2> QED
    BY <2>1, <2>2, <2>3, SeqEqual
<1> QED
  BY <1>1, <1>3, <1>4

\* A rewritten log and the positions f of the entries it has kept.
Rewrites(lines, keep, size, f, new) ==
  /\ new = Rewritten(lines, keep) /\ Len(new) = 1 + size /\ new[1] = Summary
  /\ \A k, l \in 1 .. size : k < l => f[k] < f[l]
  /\ \A k \in 1 .. size : /\ new[k + 1].id = lines[f[k]].id
                          /\ new[k + 1].message = lines[f[k]].message
                          /\ new[k + 1].parent = new[k].id
  /\ \A i \in Kept(lines, keep) : \E k \in 1 .. size : new[k + 1].message = lines[i].message

LEMMA RewrittenSelects ==
  ASSUME Typed, NEW lines \in Seq(Entry), NEW keep
  PROVE  \E size \in Nat : \E f \in [1 .. size -> 1 .. Len(lines)], new \in Seq(Entry) :
           Rewrites(lines, keep, size, f, new)
<1> DEFINE at == Kept(lines, keep)
           size == Cardinality(at)
           new == Rewritten(lines, keep)
           f == [k \in 1 .. size |-> Nth(at, k)]
<1>1. /\ at \in SUBSET DOMAIN lines /\ size \in Nat
      /\ new \in Seq(Entry) /\ Len(new) = 1 + size /\ new[1] = Summary
  BY RewrittenProperties
<1>2. \A k \in 2 .. 1 + size :
        /\ k - 1 \in 1 .. size /\ Nth(at, k - 1) \in at
        /\ new[k].id = lines[Nth(at, k - 1)].id
        /\ new[k].message = lines[Nth(at, k - 1)].message
        /\ new[k].parent = new[k - 1].id
  BY RewrittenProperties
<1>3. \A k, l \in 1 .. size : k < l => Nth(at, k) < Nth(at, l)
  BY RewrittenProperties
<1>4. \A i \in at : \E k \in 2 .. 1 + size : new[k].message = lines[i].message
  BY RewrittenProperties
<1>5. DOMAIN lines = 1 .. Len(lines)
  BY LenProperties
<1> HIDE DEF at, size, new
<1>6. \A k \in 1 .. size : k + 1 \in 2 .. 1 + size /\ (k + 1) - 1 = k
  BY <1>1
<1>7. \A k \in 1 .. size : /\ Nth(at, k) \in 1 .. Len(lines)
                           /\ new[k + 1].id = lines[Nth(at, k)].id
                           /\ new[k + 1].message = lines[Nth(at, k)].message
                           /\ new[k + 1].parent = new[k].id
  BY <1>1, <1>2, <1>5, <1>6
<1>8. f \in [1 .. size -> 1 .. Len(lines)] /\ \A k \in 1 .. size : f[k] = Nth(at, k)
  BY <1>7
<1> HIDE DEF f
<1>9. \A i \in at : \E k \in 1 .. size : new[k + 1].message = lines[i].message
  <2> SUFFICES ASSUME NEW i \in at
               PROVE  \E k \in 1 .. size : new[k + 1].message = lines[i].message
    OBVIOUS
  <2>1. PICK k \in 2 .. 1 + size : new[k].message = lines[i].message
    BY <1>4
  <2>2. k - 1 \in 1 .. size /\ (k - 1) + 1 = k
    BY <1>1
  <2> QED
    BY <2>1, <2>2
<1>10. /\ \A k, l \in 1 .. size : k < l => f[k] < f[l]
       /\ \A k \in 1 .. size : /\ new[k + 1].id = lines[f[k]].id
                               /\ new[k + 1].message = lines[f[k]].message
                               /\ new[k + 1].parent = new[k].id
  BY <1>3, <1>7, <1>8
<1>11. new = Rewritten(lines, keep) /\ at = Kept(lines, keep)
  BY DEF new, at
<1>12. Rewrites(lines, keep, size, f, new)
  BY <1>1, <1>9, <1>10, <1>11 DEF Rewrites
<1> QED
  BY <1>1, <1>8, <1>12

\* The kept entries of a chain are, after the summary, a chain again, of what they said.
LEMMA RewrittenChain ==
  ASSUME Typed, NEW lines \in Seq(Entry), NEW keep, Chained(lines, count.ids)
  PROVE  LET new == Rewritten(lines, keep)
         IN  /\ new \in Seq(Entry) /\ new # << >>
             /\ Chained(new, count.ids + 1)
             /\ Contract!Subsequence(Tail(Messages(new)), Messages(lines))
             /\ {lines[i].message : i \in Kept(lines, keep)} \subseteq ToSet(Messages(new))
<1>1. PICK size \in Nat : \E f \in [1 .. size -> 1 .. Len(lines)], new \in Seq(Entry) :
                             Rewrites(lines, keep, size, f, new)
  BY RewrittenSelects
<1>2. PICK f \in [1 .. size -> 1 .. Len(lines)], new \in Seq(Entry) :
        Rewrites(lines, keep, size, f, new)
  BY <1>1
<1>3. PICK ids \in Nat : ids = count.ids
  BY DEF Typed, Counts
<1>4. /\ new = Rewritten(lines, keep) /\ Len(new) = 1 + size
      /\ new[1].id = ids + 1 /\ new[1].parent = 0
  BY <1>2, <1>3 DEF Rewrites, Summary
<1>5. /\ \A k \in 1 .. size : f[k] \in 1 .. Len(lines)
      /\ \A k, l \in 1 .. size : k < l => f[k] < f[l]
      /\ Len(lines) \in Nat
  BY <1>2, LenProperties DEF Rewrites
<1>6. /\ \A k \in 1 .. size : new[k + 1].parent = new[k].id
      /\ \A k \in 1 .. size : new[k + 1].id = lines[f[k]].id
      /\ \A k \in 1 .. size : new[k + 1].message = lines[f[k]].message
  BY <1>2 DEF Rewrites
<1>61. \A k \in 1 .. size : new[k + 1].id \in 1 .. ids
  <2> SUFFICES ASSUME NEW k \in 1 .. size
               PROVE  new[k + 1].id \in 1 .. ids
    OBVIOUS
  <2>1. PICK i \in 1 .. Len(lines) : i = f[k]
    BY <1>5
  <2>2. lines[i].id \in 1 .. ids
    BY <1>3 DEF Chained
  <2> QED
    BY <1>6, <2>1, <2>2
<1>7. \A k \in 1 .. 1 + size : k = 1 \/ (k - 1 \in 1 .. size /\ (k - 1) + 1 = k)
  OBVIOUS
<1>8. Chained(new, ids + 1)
  <2>1. ASSUME NEW k \in 1 .. 1 + size
        PROVE  /\ new[k].parent = IF k = 1 THEN 0 ELSE new[k - 1].id
               /\ new[k].id \in 1 .. ids + 1
    <3>1. CASE k = 1
      BY <1>4, <3>1
    <3>2. CASE k # 1
      <4>1. PICK l \in 1 .. size : l = k - 1 /\ k = l + 1
        BY <1>7, <3>2
      <4>2. new[l + 1].parent = new[l].id /\ new[l + 1].id \in 1 .. ids
        BY <1>6, <1>61
      <4>3. new[k].parent = new[k - 1].id
        BY <4>1, <4>2
      <4>4. new[k].id \in 1 .. ids
        BY <4>1, <4>2
      <4>5. new[k].id \in 1 .. ids + 1
        BY <4>4
      <4> QED
        BY <3>2, <4>3, <4>5
    <3> QED
      BY <3>1, <3>2
  <2>2. ASSUME NEW k \in 1 .. 1 + size, NEW l \in 1 .. 1 + size, k < l
        PROVE  new[k].id # new[l].id
    <3>1. PICK b \in 1 .. size : b = l - 1 /\ l = b + 1
      BY <1>7, <2>2
    <3>2. new[b + 1].id \in 1 .. ids /\ new[b + 1].id = lines[f[b]].id
      BY <1>6, <1>61
    <3>3. CASE k = 1
      BY <1>4, <3>1, <3>2, <3>3
    <3>4. CASE k # 1
      <4>1. PICK a \in 1 .. size : a = k - 1 /\ k = a + 1
        BY <1>7, <3>4
      <4>2. new[a + 1].id = lines[f[a]].id /\ f[a] < f[b]
        BY <1>5, <1>6, <2>2, <3>1, <4>1
      <4>3. lines[f[a]].id # lines[f[b]].id
        <5>1. PICK i \in 1 .. Len(lines), j \in 1 .. Len(lines) : i = f[a] /\ j = f[b] /\ i < j
          BY <1>5, <4>2
        <5> QED
          BY <5>1 DEF Chained
      <4> QED
        BY <3>1, <3>2, <4>1, <4>2, <4>3
    <3> QED
      BY <3>3, <3>4
  <2>3. \A k, l \in 1 .. 1 + size : new[k].id = new[l].id => k = l
    <3>1. \A k, l \in 1 .. 1 + size : k = l \/ k < l \/ l < k
      OBVIOUS
    <3> QED
      BY <2>2, <3>1
  <2> QED
    BY <1>4, <2>1, <2>3 DEF Chained
<1>9. new # << >>
  BY <1>4
<1>10. PICK said \in Seq(Nat) : /\ said = Messages(new) /\ Len(said) = 1 + size
                                /\ \A k \in 1 .. 1 + size : said[k] = new[k].message
                                /\ ToSet(said) = {new[k].message : k \in 1 .. 1 + size}
  BY <1>4, MessagesProperties
<1>11. PICK old \in Seq(Nat) : /\ old = Messages(lines) /\ Len(old) = Len(lines)
                               /\ \A i \in 1 .. Len(lines) : old[i] = lines[i].message
  BY MessagesProperties
<1>12. \A k \in 1 .. size : k + 1 \in 1 .. 1 + size
  OBVIOUS
<1>13. Contract!Subsequence(Tail(said), old)
  <2>1. PICK rest \in Seq(Nat) : rest = Tail(said) /\ Len(rest) = Len(said) - 1
                                 /\ \A k \in 1 .. Len(rest) : rest[k] = said[k + 1]
    <3>1. said # << >>
      BY <1>10
    <3>2. /\ Tail(said) \in Seq(Nat) /\ Len(Tail(said)) = Len(said) - 1
          /\ \A k \in 1 .. Len(Tail(said)) : Tail(said)[k] = said[k + 1]
      BY <3>1, HeadTailProperties
    <3> QED
      BY <3>2
  <2>2. Len(rest) = size
    BY <1>10, <2>1
  <2>3. \A i \in 1 .. size : rest[i] = old[f[i]]
    <3> SUFFICES ASSUME NEW k \in 1 .. size
                 PROVE  rest[k] = old[f[k]]
      OBVIOUS
    <3>1. PICK i \in 1 .. Len(lines) : i = f[k]
      BY <1>5
    <3>2. rest[k] = said[k + 1] /\ said[k + 1] = new[k + 1].message
      BY <1>10, <1>12, <2>1, <2>2
    <3>3. new[k + 1].message = lines[i].message /\ old[i] = lines[i].message
      BY <1>6, <1>11, <3>1
    <3> QED
      BY <3>1, <3>2, <3>3
  <2> QED
    BY <1>5, <1>11, <2>1, <2>2, <2>3 DEF Contract!Subsequence
<1>14. {lines[i].message : i \in Kept(lines, keep)} \subseteq ToSet(said)
  <2> SUFFICES ASSUME NEW i \in Kept(lines, keep)
               PROVE  lines[i].message \in ToSet(said)
    OBVIOUS
  <2>1. PICK k \in 1 .. size : new[k + 1].message = lines[i].message
    BY <1>2 DEF Rewrites
  <2> QED
    BY <1>10, <1>12, <2>1
<1> QED
  BY <1>3, <1>4, <1>8, <1>9, <1>10, <1>11, <1>13, <1>14

-------------------------------------------------------------------------------
(* What SessionLog allows *)

\* What Contract calls listed and log.
OnDisk == IF file[Index] \in {Absent, Torn, Empty} THEN {} ELSE Listed(file[Index])
Told == [s \in Session |-> Messages(Lines(file[s]))]

Allowed == [Contract!Next]_<< OnDisk, Told >>

LEMMA AllowedStill ==
  ASSUME file'[Index] = file[Index], \A s \in Session : Lines(file'[s]) = Lines(file[s])
  PROVE  Allowed
BY DEF Allowed, OnDisk, Told

LEMMA AllowedBecomes ==
  ASSUME file'[Index] = file[Index], NEW x \in Session,
         \A s \in Session \ {x} : Lines(file'[s]) = Lines(file[s]),
         NEW new, new = Messages(Lines(file'[x])), NEW old, old = Messages(Lines(file[x])),
         \/ new = << >>
         \/ \E m \in 0 .. MaxAppends : new = Append(old, m)
         \/ new # << >> /\ Contract!Subsequence(Tail(new), old)
         \/ /\ old = << >>
            /\ \E t \in Session \ {x} : \E k \in 0 .. Len(Messages(Lines(file[t]))) :
                 new = SubSeq(Messages(Lines(file[t])), 1, k)
  PROVE  Allowed
<1>1. Contract!Becomes(x, new)
  BY DEF Contract!Becomes
<1>2. CASE new = << >>
  BY <1>1, <1>2 DEF Contract!Clear, Contract!Next, Allowed
<1>3. CASE \E m \in 0 .. MaxAppends : new = Append(old, m)
  BY <1>1, <1>3 DEF Contract!Extend, Contract!Next, Allowed
<1>4. CASE new # << >> /\ Contract!Subsequence(Tail(new), old)
  BY <1>1, <1>4 DEF Contract!Compact, Contract!Next, Allowed
<1>5. CASE /\ old = << >>
           /\ \E t \in Session \ {x} : \E k \in 0 .. Len(Messages(Lines(file[t]))) :
                new = SubSeq(Messages(Lines(file[t])), 1, k)
  BY <1>1, <1>5 DEF Contract!Inherit, Contract!Next, Allowed
<1> QED
  BY <1>2, <1>3, <1>4, <1>5

\* The index on disk is replaced by one that leaves out only sessions with empty logs.
LEMMA AllowedRelist ==
  ASSUME Typed, file'[Index] \in Indexed, \A s \in Session : Lines(file'[s]) = Lines(file[s]),
         \A s \in Session : s \in OnDisk /\ file'[Index][s] = 0 => Lines(file[s]) = << >>
  PROVE  Allowed
<1>1. OnDisk' = Listed(file'[Index])
  BY TextAssumption DEF OnDisk
<1>2. OnDisk' \in SUBSET Session /\ Told' = Told
  BY <1>1 DEF Listed, Told
<1>3. \A s \in OnDisk \ OnDisk' : Told[s] = << >>
  <2> SUFFICES ASSUME NEW s \in OnDisk \ OnDisk'
               PROVE  Told[s] = << >>
    OBVIOUS
  <2>1. s \in Session /\ file'[Index][s] = 0
    BY <1>1 DEF OnDisk, Listed, Indexed
  <2>2. Lines(file[s]) = << >>
    BY <2>1
  <2> QED
    BY <2>1, <2>2 DEF Told, Messages
<1> QED
  BY <1>2, <1>3 DEF Contract!Relist, Contract!Next, Allowed, OnDisk, Told

Logs == [s \in Session |-> Lines(file[s])]

\* Every log on disk is a chain and holds what was promised.
LogsSound ==
  \A s \in Session : /\ Chained(Logs[s], count.ids)
                     /\ promised[s].messages \subseteq ToSet(Messages(Logs[s]))

\* A branch is filled, while its log is empty, with the first entries of another log.
Inherits(logs, s, todo) ==
  /\ logs[s] = << >>
  /\ \E t \in Session \ {s} : \E k \in 1 .. Len(logs[t]) : todo = SubSeq(logs[t], 1, k)

\* The text that is to replace a log says what is promised, in the same order.
Replaces(log, promise, drawn, text) ==
  /\ text \in Seq(Entry) /\ text # << >> /\ Chained(text, drawn)
  /\ promise \subseteq ToSet(Messages(text))
  /\ Contract!Subsequence(Tail(Messages(text)), Messages(log))

\* What the call under way knows of its session's log.
CallSound ==
  \A s \in Session : J.session = s =>
    /\ IF J.pc = "append"
       THEN J.entries = Logs[s] /\ J.todo = << >> /\ J.said \subseteq 1 .. MaxAppends
       ELSE J.said \subseteq ToSet(Messages(Logs[s]))
    /\ J.todo # << >> => J.path = Index /\ Inherits(Logs, s, J.todo)
    /\ J.path = s =>
         /\ J.said = {} /\ J.todo = << >>
         /\ Replacing => Replaces(Logs[s], promised[s].messages, count.ids, J.text)

LogsKept == LogsSound /\ CallSound

LEMMA LogsPrimed ==
  /\ Logs' = [s \in Session |-> Lines(file'[s])]
  /\ LogsSound' <=> \A s \in Session : /\ Chained(Logs'[s], count'.ids)
                                       /\ promised'[s].messages \subseteq ToSet(Messages(Logs'[s]))
<1>1. Logs' = [s \in Session |-> Lines(file'[s])]
  BY DEF Logs
<1>2. LogsSound' <=> \A s \in Session : /\ Chained(Logs'[s], count'.ids)
                                        /\ promised'[s].messages \subseteq ToSet(Messages(Logs'[s]))
  BY DEF LogsSound
<1> QED
  BY <1>1, <1>2

\* What is to be shown of the call after a step, for its session s.
LEMMA CallPrimed ==
  ASSUME NEW j, j = job'[Client], NEW logs, logs = Logs',
         \A s \in Session : j.session = s =>
           /\ IF j.pc = "append"
              THEN j.entries = logs[s] /\ j.todo = << >> /\ j.said \subseteq 1 .. MaxAppends
              ELSE j.said \subseteq ToSet(Messages(logs[s]))
           /\ j.todo # << >> => j.path = Index /\ Inherits(logs, s, j.todo)
           /\ j.path = s =>
                /\ j.said = {} /\ j.todo = << >>
                /\ j.pc \in {"open", "write", "rename"} =>
                     Replaces(logs[s], promised'[s].messages, count'.ids, j.text)
  PROVE  CallSound'
BY DEF CallSound, J, Replacing

LEMMA LogTypes ==
  ASSUME Typed
  PROVE  /\ Logs \in [Session -> Seq(Entry)] /\ \A s \in Session : Logs[s] = Lines(file[s])
         /\ count.ids \in Nat
BY LinesOf DEF Logs, Typed, Counts

LEMMA LogsSame ==
  ASSUME \A s \in Session : file'[s] = file[s]
  PROVE  Logs' = Logs
BY LogsPrimed DEF Logs

LEMMA SoundLogs ==
  ASSUME LogsSound, Logs' = Logs, count'.ids = count.ids,
         \A s \in Session : promised'[s].messages \subseteq ToSet(Messages(Logs[s]))
  PROVE  LogsSound'
BY LogsPrimed DEF LogsSound

\* A call that has said nothing yet and has nothing to fill or to replace.
LEMMA SoundAnew ==
  ASSUME job'[Client].pc # "append", job'[Client].said = {}, job'[Client].todo = << >>,
         job'[Client].path = Index
  PROVE  CallSound'
<1>1. PICK j, logs : j = job'[Client] /\ logs = Logs'
  OBVIOUS
<1>2. \A s \in Session : s # Index
  BY StoreAssumption
<1> QED
  BY <1>1, <1>2, CallPrimed

\* A call that goes on to replace the file it was to replace, or the index.
LEMMA SoundGoesOn ==
  ASSUME CallSound, Logs' = Logs, count'.ids = count.ids, promised' = promised,
         J.pc # "append", job'[Client].pc # "append",
         job'[Client].session = J.session, job'[Client].said = J.said, job'[Client].todo = J.todo,
         \/ job'[Client].path = Index
         \/ /\ job'[Client].path = J.path /\ job'[Client].text = J.text
            /\ job'[Client].pc \in {"open", "write", "rename"} => Replacing
  PROVE  CallSound'
<1>1. PICK j, logs : j = job'[Client] /\ logs = Logs'
  OBVIOUS
<1>2. \A s \in Session : s # Index
  BY StoreAssumption
<1>3. ASSUME NEW s \in Session, j.session = s
      PROVE  /\ j.said \subseteq ToSet(Messages(logs[s]))
             /\ j.todo # << >> => j.path = Index /\ Inherits(logs, s, j.todo)
             /\ j.path = s =>
                  /\ j.said = {} /\ j.todo = << >>
                  /\ j.pc \in {"open", "write", "rename"} =>
                       Replaces(logs[s], promised'[s].messages, count'.ids, j.text)
  BY <1>1, <1>2, <1>3 DEF CallSound
<1> QED
  BY <1>1, <1>3, CallPrimed

LEMMA LogsWhileIndexing ==
  ASSUME Serial, Typed, IndexKept, LogsKept,
         ReadIndex(Client) \/ Load(Client) \/ Persist(Client) \/ Open(Client) \/ Write(Client)
           \/ Throws(Client)
  PROVE  LogsKept' /\ Allowed
<1>s. \A s \in Session : promised[s].messages \subseteq ToSet(Messages(Logs[s]))
  BY DEF LogsKept, LogsSound
<1>c. Client \in Clients
  BY SerialTypes
<1>1. CASE ReadIndex(Client) \/ Load(Client) \/ Throws(Client)
  <2>1. /\ job'[Client].pc # "append" /\ job'[Client].said = {} /\ job'[Client].todo = << >>
        /\ job'[Client].path = Index
        /\ file' = file /\ promised' = promised /\ count'.ids = count.ids
    <3>1. CASE ReadIndex(Client)
      BY <1>c, <3>1, DoReadIndex DEF After, ReadIndex, disk
    <3>2. CASE Load(Client)
      BY <1>c, <3>2, DoLoad DEF After, Load, disk
    <3>3. CASE Throws(Client)
      <4>1. count'.ids = count.ids
        BY <3>3 DEF Throws, Typed, Counts
      <4> QED
        BY <1>c, <3>3, <4>1, DoThrows, IdleType DEF Throws, disk
    <3> QED
      BY <1>1, <3>1, <3>2, <3>3
  <2>2. LogsSound'
    BY <1>s, <2>1, LogsSame, SoundLogs DEF LogsKept
  <2>3. Allowed
    BY <2>1, AllowedStill
  <2> QED
    BY <2>1, <2>2, <2>3, SoundAnew DEF LogsKept
<1>2. CASE Persist(Client) \/ Open(Client) \/ Write(Client)
  <2>1. /\ J.pc # "append" /\ job'[Client].pc # "append"
        /\ job'[Client].session = J.session /\ job'[Client].said = J.said
        /\ job'[Client].todo = J.todo
        /\ \/ job'[Client].path = Index
           \/ /\ job'[Client].path = J.path /\ job'[Client].text = J.text
              /\ job'[Client].pc \in {"open", "write", "rename"} => Replacing
        /\ promised' = promised /\ count' = count
        /\ \A q \in Path : file'[q] = file[q]
    <3>1. CASE Persist(Client)
      BY <1>c, <3>1, DoPersist DEF After, Persist, At, J, disk
    <3>2. CASE Open(Client)
      BY <1>c, <3>2, DoOpen DEF After, Open, At, J, Replacing
    <3>3. CASE Write(Client)
      <4>1. J.pc = "write" /\ J.handle = "tmp"
        BY <3>3 DEF IndexKept, CallCurrent, Write, At, J
      <4>2. \A q \in Path : file'[q] = file[q]
        BY <1>c, <3>3, <4>1, DoWrite DEF J
      <4>3. /\ job'[Client].pc = "rename"
            /\ job'[Client].session = J.session /\ job'[Client].said = J.said
            /\ job'[Client].todo = J.todo /\ job'[Client].path = J.path
            /\ job'[Client].text = J.text
        BY <1>c, <3>3, DoWrite DEF After, J
      <4> QED
        BY <3>3, <4>1, <4>2, <4>3, SerialTypes DEF Write, Replacing
    <3> QED
      BY <1>2, <3>1, <3>2, <3>3
  <2>2. LogsSound'
    BY <1>s, <2>1, SerialTypes, LogsSame, SoundLogs DEF LogsKept
  <2>3. CallSound'
    BY <2>1, SerialTypes, LogsSame, SoundGoesOn DEF LogsKept
  <2>4. Allowed
    BY <2>1, SerialTypes, AllowedStill
  <2> QED
    BY <2>2, <2>3, <2>4 DEF LogsKept
<1> QED
  BY <1>1, <1>2

LEMMA LogsWhileRenaming ==
  ASSUME Serial, Typed, Fresh, IndexKept, LogsKept, Rename(Client)
  PROVE  LogsKept' /\ Allowed
<1>c. Client \in Clients /\ J.pc = "rename" /\ Replacing
  BY SerialTypes DEF Rename, At, J, Replacing
<1>1. /\ file'[J.path] = J.text /\ count' = count
      /\ \A q \in Path \ {J.path} : file'[q] = file[q]
  BY <1>c, DoRename DEF J, IndexKept, CallCurrent, Rename
<1>2. CASE J.path # Index
  <2>1. PICK x \in Session : x = J.path /\ x = J.session
    BY <1>2, <1>c, SerialTypes DEF Fresh, CallsApart, J, Path
  <2>2. /\ job'[Client].pc = "persist" /\ job'[Client].session = x /\ job'[Client].path = x
        /\ job'[Client].said = J.said /\ job'[Client].todo = J.todo /\ promised' = promised
    BY <1>2, <1>c, <2>1, DoRenameJobs DEF J
  <2>3. /\ J.said = {} /\ J.todo = << >>
        /\ Replaces(Logs[x], promised[x].messages, count.ids, J.text)
    BY <1>c, <2>1 DEF LogsKept, CallSound
  <2>4. Logs'[x] = J.text /\ \A s \in Session \ {x} : Logs'[s] = Logs[s]
    BY <1>1, <2>1, <2>3, SerialTypes, LogsPrimed, LogTypes, LinesOf DEF Replaces
  <2>5. LogsSound'
    BY <1>1, <2>2, <2>3, <2>4, LogsPrimed DEF LogsKept, LogsSound, Replaces
  <2>6. CallSound'
    <3>1. PICK j, logs : j = job'[Client] /\ logs = Logs'
      OBVIOUS
    <3> QED
      BY <2>2, <2>3, <3>1, CallPrimed
  <2>7. Allowed
    <3>1. PICK new, old : new = Messages(Lines(file'[x])) /\ old = Messages(Lines(file[x]))
      OBVIOUS
    <3>2. new = Messages(J.text) /\ old = Messages(Logs[x])
      BY <2>4, <3>1, LogsPrimed, LogTypes
    <3>3. Messages(J.text) # << >>
      BY <2>3, MessagesProperties, EmptySeq, LenProperties DEF Replaces
    <3>4. Contract!Subsequence(Tail(new), old)
      BY <2>3, <3>2 DEF Replaces
    <3>5. file'[Index] = file[Index] /\ \A s \in Session \ {x} : Lines(file'[s]) = Lines(file[s])
      BY <1>1, <2>1, SerialTypes
    <3> QED
      BY <3>1, <3>2, <3>3, <3>4, <3>5, AllowedBecomes
  <2> QED
    BY <2>5, <2>6, <2>7 DEF LogsKept
<1>3. CASE J.path = Index
  <2>1. Logs' = Logs
    BY <1>1, <1>3, SerialTypes, LogsSame
  <2>2. \A s \in Session : promised'[s].messages \subseteq ToSet(Messages(Logs[s]))
    <3>1. \A s \in Session : J.session = s => J.said \subseteq ToSet(Messages(Logs[s]))
      BY <1>c DEF LogsKept, CallSound
    <3>2. \A s \in Session : promised[s].messages \subseteq ToSet(Messages(Logs[s]))
      BY DEF LogsKept, LogsSound
    <3>3. promised' = promised \/ Promise(Client)
      BY <1>c, DoRenameJobs
    <3> QED
      BY <1>c, <3>1, <3>2, <3>3, DoPromise DEF J
  <2>3. LogsSound'
    BY <1>1, <2>1, <2>2, SoundLogs DEF LogsKept
  <2>4. CallSound'
    <3>1. CASE J.todo # << >>
      <4>1. /\ job'[Client].pc = "fill" /\ job'[Client].session = J.session
            /\ job'[Client].path = Index /\ job'[Client].said = J.said
            /\ job'[Client].todo = J.todo /\ promised' = promised
        BY <1>3, <1>c, <3>1, DoRenameJobs DEF J
      <4> QED
        BY <1>1, <1>c, <2>1, <4>1, SoundGoesOn DEF LogsKept
    <3>2. CASE J.todo = << >>
      <4>1. job'[Client] = Idle
        BY <1>3, <1>c, <3>2, DoRenameJobs DEF J
      <4> QED
        BY <4>1, IdleType, SoundAnew
    <3> QED
      BY <3>1, <3>2
  <2>5. Allowed
    <3>1. J.text = index /\ index \in Indexed /\ initialized
      BY <1>c, <1>3, LocalTypes DEF IndexKept, CallCurrent
    <3>2. \A s \in Session : s \in OnDisk /\ index[s] = 0 => Lines(file[s]) = << >>
      BY <3>1, TextAssumption, SerialTypes DEF IndexKept, IndexDurable, OnDisk, Listed
    <3>3. file'[Index] = index /\ \A s \in Session : Lines(file'[s]) = Lines(file[s])
      BY <1>1, <1>3, <3>1, SerialTypes
    <3> QED
      BY <3>1, <3>2, <3>3, AllowedRelist
  <2> QED
    BY <2>3, <2>4, <2>5 DEF LogsKept
<1> QED
  BY <1>2, <1>3

LEMMA LogsWhileCreating ==
  ASSUME Serial, Typed, Fresh, IndexKept, LogsKept, CreateFile(Client)
  PROVE  LogsKept' /\ Allowed
<1>1. PICK x \in Session : x = J.session /\ Hidden(x)
  <2>1. J.session \in Session /\ ~ Made(J.session)
    BY SerialTypes, DoCreateFile DEF CreateFile, Made, J
  <2> QED
    BY <2>1 DEF Fresh
<1>2. /\ job'[Client].pc = "persist" /\ job'[Client].session = x /\ job'[Client].path = J.path
      /\ job'[Client].said = J.said /\ job'[Client].todo = J.todo
      /\ file'[x] = Empty /\ \A q \in Path \ {x} : file'[q] = file[q]
      /\ promised' = promised /\ count' = count
  BY <1>1, SerialTypes, DoCreateFile DEF After, J, CreateFile
<1>3. Logs[x] = << >>
  BY <1>1, LogTypes DEF Hidden
<1>4. Logs' = Logs
  <2>1. \A s \in Session : Lines(file'[s]) = Logs[s]
    BY <1>2, <1>3, SerialTypes, LogTypes, LinesOf
  <2> QED
    BY <2>1, LogsPrimed, LogTypes
<1>5. LogsSound'
  BY <1>2, <1>4, SoundLogs DEF LogsKept, LogsSound
<1>6. CallSound'
  <2>1. PICK j, logs : j = job'[Client] /\ logs = Logs'
    OBVIOUS
  <2>2. J.pc = "create"
    BY DEF CreateFile, At, J
  <2>3. /\ J.said \subseteq ToSet(Messages(Logs[x]))
        /\ J.todo # << >> => J.path = Index /\ Inherits(Logs, x, J.todo)
        /\ J.path = x => J.said = {} /\ J.todo = << >>
    BY <1>1, <2>2 DEF LogsKept, CallSound
  <2> QED
    BY <1>1, <1>2, <1>4, <2>1, <2>3, CallPrimed
<1>7. Allowed
  BY <1>1, <1>2, <1>4, SerialTypes, LogsPrimed, LogTypes, AllowedStill
<1> QED
  BY <1>5, <1>6, <1>7 DEF LogsKept

LEMMA LogsWhileAppending ==
  ASSUME Serial, Typed, Fresh, IndexKept, LogsKept, AppendLine(Client)
  PROVE  LogsKept' /\ Allowed
<1>c. Client \in Clients /\ J.pc = "append"
  BY SerialTypes DEF AppendLine, At, J
<1>1. PICK x \in Session : x = J.session
  BY <1>c, DoAppendLine DEF J
<1>2. /\ job'[Client].pc = "persist" /\ job'[Client].session = x /\ job'[Client].path = J.path
      /\ job'[Client].said = J.said /\ job'[Client].todo = J.todo
      /\ file'[x] = Append(Lines(file[x]), NewEntry(Client))
      /\ \A q \in Path \ {x} : file'[q] = file[q]
      /\ promised' = promised /\ count'.ids = count.ids + 1
  BY <1>c, <1>1, DoAppendLine DEF After, J, AppendLine
<1>3. PICK lines \in Seq(Entry), e \in Entry, n \in Nat :
        /\ lines = Logs[x] /\ e = NewEntry(Client) /\ n = count.ids
        /\ e.id = n + 1 /\ e.parent = LastId(J.entries) /\ J.said = {e.message}
  BY <1>c, LogTypes, NewEntryType DEF J, At
<1>4. Chained(lines, n) /\ J.entries = lines /\ J.said \subseteq 1 .. MaxAppends
  BY <1>c, <1>1, <1>3 DEF LogsKept, LogsSound, CallSound
<1>5. PICK new : new = Append(lines, e)
  OBVIOUS
<1>6. /\ new \in Seq(Entry) /\ Chained(new, n + 1)
      /\ ToSet(Messages(new)) = ToSet(Messages(lines)) \cup {e.message}
  BY <1>3, <1>4, <1>5, AppendedProperties, ChainedAppend
<1>7. Logs'[x] = new /\ \A s \in Session \ {x} : Logs'[s] = Logs[s]
  <2>1. Lines(file'[x]) = new
    BY <1>2, <1>3, <1>5, <1>6, LogTypes, LinesOf
  <2> QED
    BY <1>2, <2>1, SerialTypes, LogsPrimed, LogTypes
<1>8. LogsSound'
  <2> SUFFICES ASSUME NEW s \in Session
               PROVE  /\ Chained(Logs'[s], n + 1)
                      /\ promised[s].messages \subseteq ToSet(Messages(Logs'[s]))
    BY <1>2, <1>3, LogsPrimed
  <2>1. CASE s = x
    BY <1>3, <1>6, <1>7, <2>1 DEF LogsKept, LogsSound
  <2>2. CASE s # x
    <3>1. Chained(Logs[s], n)
      BY <1>3 DEF LogsKept, LogsSound
    <3>2. Chained(Logs[s], n + 1)
      BY <3>1, ChainedLater
    <3> QED
      BY <1>7, <2>2, <3>2 DEF LogsKept, LogsSound
  <2> QED
    BY <2>1, <2>2
<1>9. CallSound'
  <2>1. PICK j, logs : j = job'[Client] /\ logs = Logs'
    OBVIOUS
  <2>2. J.path = Index /\ J.todo = << >>
    <3>1. J.said # {}
      BY <1>3
    <3>2. J.path # x
      BY <1>1, <3>1 DEF LogsKept, CallSound
    <3>3. J.path = Index
      BY <1>c, <1>1, <3>2 DEF Fresh, CallsApart, J
    <3>4. J.todo = << >>
      BY <1>c, <1>1 DEF LogsKept, CallSound
    <3> QED
      BY <3>3, <3>4
  <2> QED
    BY <1>2, <1>3, <1>6, <1>7, <2>1, <2>2, SerialTypes, CallPrimed
<1>10. Allowed
  <2>1. PICK told, old : told = Messages(Lines(file'[x])) /\ old = Messages(Lines(file[x]))
    OBVIOUS
  <2>2. PICK m \in 0 .. MaxAppends : m = e.message
    BY <1>3, <1>4, StoreAssumption
  <2>3. told = Append(old, m)
    <3>1. Lines(file'[x]) = new /\ Lines(file[x]) = lines
      BY <1>3, <1>7, LogsPrimed, LogTypes
    <3>2. Messages(new) = Append(Messages(lines), e.message)
      BY <1>5, AppendedProperties
    <3> QED
      BY <2>1, <2>2, <3>1, <3>2
  <2>4. file'[Index] = file[Index] /\ \A s \in Session \ {x} : Lines(file'[s]) = Lines(file[s])
    BY <1>2, SerialTypes
  <2> QED
    BY <2>1, <2>3, <2>4, AllowedBecomes
<1> QED
  BY <1>8, <1>9, <1>10 DEF LogsKept

LEMMA LogsWhileFilling ==
  ASSUME Serial, Typed, Fresh, IndexKept, LogsKept, Fill(Client)
  PROVE  LogsKept' /\ Allowed
<1>c. Client \in Clients /\ J.pc = "fill"
  BY SerialTypes DEF Fill, At, J
<1>1. PICK x \in Session : x = J.session
  BY <1>c, DoFill DEF J
<1>2. J.path = Index /\ J.todo # << >> /\ Inherits(Logs, x, J.todo)
  BY <1>c, <1>1 DEF IndexKept, CallCurrent, LogsKept, CallSound
<1>3. PICK t \in Session \ {x} : \E k \in 1 .. Len(Logs[t]) : J.todo = SubSeq(Logs[t], 1, k)
  BY <1>2 DEF Inherits
<1>4. PICK k \in 1 .. Len(Logs[t]) : J.todo = SubSeq(Logs[t], 1, k)
  BY <1>3
<1>5. PICK other \in Seq(Entry), todo \in Seq(Entry), n \in Nat :
        /\ other = Logs[t] /\ todo = J.todo /\ n = count.ids /\ k \in 0 .. Len(other)
        /\ todo = SubSeq(other, 1, k) /\ Chained(other, n)
  <2>1. PICK other \in Seq(Entry), todo \in Seq(Entry), n \in Nat :
          other = Logs[t] /\ todo = J.todo /\ n = count.ids
    BY <1>c, LogTypes, LocalTypes DEF J
  <2>2. Chained(other, n)
    BY <2>1 DEF LogsKept, LogsSound
  <2>3. k \in 0 .. Len(other) /\ todo = SubSeq(other, 1, k)
    BY <1>4, <2>1, LenProperties
  <2> QED
    BY <2>1, <2>2, <2>3
<1>6. /\ Chained(Renewed(todo), n + Len(todo)) /\ Messages(Renewed(todo)) = Messages(todo)
      /\ Renewed(todo) \in Seq(Entry) /\ Len(todo) \in Nat
  <2>1. Chained(todo, n)
    BY <1>5, PrefixOfChain
  <2> QED
    BY <1>5, <2>1, RenewedChain, RenewedProperties, LenProperties
<1>7. /\ job'[Client].pc = "persist" /\ job'[Client].session = x /\ job'[Client].path = Index
      /\ job'[Client].said = ToSet(Messages(todo)) /\ job'[Client].todo = << >>
      /\ file'[x] = Renewed(todo) /\ \A q \in Path \ {x} : file'[q] = file[q]
      /\ promised' = promised /\ count'.ids = n + Len(todo)
  BY <1>c, <1>1, <1>2, <1>5, DoFill DEF After, J, Fill
<1>8. Logs'[x] = Renewed(todo) /\ \A s \in Session \ {x} : Logs'[s] = Logs[s]
  <2>1. Lines(file'[x]) = Renewed(todo)
    BY <1>6, <1>7, LinesOf
  <2> QED
    BY <1>7, <2>1, SerialTypes, LogsPrimed, LogTypes
<1>9. LogsSound'
  <2> SUFFICES ASSUME NEW s \in Session
               PROVE  /\ Chained(Logs'[s], n + Len(todo))
                      /\ promised[s].messages \subseteq ToSet(Messages(Logs'[s]))
    BY <1>7, LogsPrimed
  <2>1. CASE s = x
    <3>1. promised[s].messages \subseteq ToSet(Messages(<< >>))
      BY <1>2, <2>1 DEF LogsKept, LogsSound, Inherits
    <3> QED
      BY <1>6, <1>8, <2>1, <3>1, SaidNothing
  <2>2. CASE s # x
    <3>1. Chained(Logs[s], n)
      BY <1>5 DEF LogsKept, LogsSound
    <3>2. Chained(Logs[s], n + Len(todo))
      BY <1>6, <3>1, ChainedLater
    <3> QED
      BY <1>8, <2>2, <3>2 DEF LogsKept, LogsSound
  <2> QED
    BY <2>1, <2>2
<1>10. CallSound'
  <2>1. PICK j, logs : j = job'[Client] /\ logs = Logs'
    OBVIOUS
  <2> QED
    BY <1>6, <1>7, <1>8, <2>1, SerialTypes, CallPrimed
<1>11. Allowed
  <2>1. PICK told, old : told = Messages(Lines(file'[x])) /\ old = Messages(Lines(file[x]))
    OBVIOUS
  <2>2. told = Messages(todo) /\ old = << >>
    BY <1>2, <1>6, <1>8, <2>1, LogsPrimed, LogTypes DEF Inherits, Messages
  <2>3. k \in 0 .. Len(Messages(other)) /\ told = SubSeq(Messages(other), 1, k)
    BY <1>5, <2>2, PrefixOfChain
  <2>4. \E l \in 0 .. Len(Messages(Lines(file[t]))) : told = SubSeq(Messages(Lines(file[t])), 1, l)
    BY <1>5, <2>3, LogTypes
  <2>5. file'[Index] = file[Index] /\ \A s \in Session \ {x} : Lines(file'[s]) = Lines(file[s])
    BY <1>7, SerialTypes
  <2> QED
    BY <2>1, <2>2, <2>4, <2>5, AllowedBecomes
<1> QED
  BY <1>9, <1>10, <1>11 DEF LogsKept

\* A call that starts by leaving the files alone.
LEMMA LogsWhileReading ==
  ASSUME Serial, Typed, Fresh, IndexKept, LogsKept, NEW x \in Session,
         NEW lines \in ReadEntries(x),
         \/ AppendTo(Client, x, lines)
         \/ \E t \in Session : \E cutoff \in 0 .. Len(lines) : Branch(Client, x, t, lines, cutoff)
  PROVE  LogsKept' /\ Allowed
<1>c. Client \in Clients /\ lines = Logs[x] /\ lines \in Seq(Entry)
  BY SerialTypes, ReadsType, LogTypes DEF Serial
<1>1. file' = file /\ promised' = promised /\ count'.ids = count.ids
  <2>1. CASE AppendTo(Client, x, lines)
    BY <2>1 DEF AppendTo, disk, Typed, Counts
  <2>2. CASE \E t \in Session : \E cutoff \in 0 .. Len(lines) : Branch(Client, x, t, lines, cutoff)
    BY <2>2 DEF Branch, disk
  <2> QED
    BY <2>1, <2>2
<1>2. Logs' = Logs
  BY <1>1, LogsSame
<1>3. LogsSound'
  BY <1>1, <1>2, SoundLogs DEF LogsKept, LogsSound
<1>31. Allowed
  BY <1>1, AllowedStill
<1>4. PICK j, logs : j = job'[Client] /\ logs = Logs'
  OBVIOUS
<1>5. CASE AppendTo(Client, x, lines)
  <2>1. /\ j.pc = "append" /\ j.session = x /\ j.path = Index /\ j.entries = lines
        /\ j.todo = << >> /\ j.said \subseteq 1 .. MaxAppends
    BY <1>c, <1>4, <1>5, DoAppendTo DEF After
  <2>2. CallSound'
    BY <1>c, <1>2, <1>4, <2>1, SerialTypes, CallPrimed
  <2> QED
    BY <1>3, <1>31, <2>2 DEF LogsKept
<1>6. CASE \E t \in Session : \E cutoff \in 0 .. Len(lines) : Branch(Client, x, t, lines, cutoff)
  <2>1. PICK t \in Session : \E cutoff \in 0 .. Len(lines) : Branch(Client, x, t, lines, cutoff)
    BY <1>6
  <2>2. PICK cutoff \in 0 .. Len(lines) : Branch(Client, x, t, lines, cutoff)
    BY <2>1
  <2>3. /\ j.pc = "create" /\ j.session = t /\ j.path = Index
        /\ j.todo = SubSeq(lines, 1, cutoff) /\ j.said = {}
    BY <1>c, <1>4, <2>2, DoBranch DEF After
  <2>4. x # t /\ Logs[t] = << >>
    <3>1. t \notin used /\ x \in Listed(index)
      BY <2>2 DEF Branch, MayCallOf
    <3>2. Hidden(t) /\ Made(x)
      BY <3>1, ListedMade DEF Fresh, Made
    <3> QED
      BY <3>1, <3>2, LogTypes DEF Hidden, Made
  <2>5. j.todo # << >> => Inherits(logs, t, j.todo)
    <3> SUFFICES ASSUME j.todo # << >>
                 PROVE  cutoff \in 1 .. Len(Logs[x])
      BY <1>c, <1>2, <1>4, <2>3, <2>4 DEF Inherits
    <3>1. cutoff # 0
      BY <1>c, <2>3, PrefixProperties, EmptySeq
    <3> QED
      BY <1>c, <3>1, LenProperties
  <2>6. CallSound'
    BY <1>4, <2>3, <2>5, SerialTypes, CallPrimed
  <2> QED
    BY <1>3, <1>31, <2>6 DEF LogsKept
<1> QED
  BY <1>5, <1>6

LEMMA LogsWhileCompacting ==
  ASSUME Serial, Typed, Fresh, IndexKept, LogsKept, NEW x \in Session,
         NEW lines \in ReadEntries(x), NEW keep, Compact(Client, x, lines, keep)
  PROVE  LogsKept' /\ Allowed
<1>c. Client \in Clients /\ lines = Logs[x] /\ lines \in Seq(Entry) /\ lines = Lines(file[x])
  BY SerialTypes, ReadsType, LogTypes DEF Serial
<1>1. PICK n, new : n \in Nat /\ n = count.ids /\ new = Rewritten(lines, keep)
  BY LogTypes
<1>2. Logs' = Logs
  BY LogsSame DEF Compact, disk
<1>3. /\ job'[Client].pc = "open" /\ job'[Client].session = x /\ job'[Client].path = x
      /\ job'[Client].text = new /\ job'[Client].todo = << >> /\ job'[Client].said = {}
      /\ count'.ids = n + 1 /\ \A s \in Session \ {x} : promised'[s] = promised[s]
  BY <1>c, <1>1, DoCompact DEF After
<1>31. PICK kept : kept = {lines[i].message : i \in Kept(lines, keep)}
  OBVIOUS
<1>32. promised'[x].messages = promised[x].messages \cap kept
  <2>1. promised'[x].messages = promised[x].messages \cap
          {Lines(file[x])[i].message : i \in Kept(Lines(file[x]), keep)}
    BY <1>c, DoCompact
  <2>2. kept = {Lines(file[x])[i].message : i \in Kept(Lines(file[x]), keep)}
    BY <1>c, <1>31
  <2> QED
    BY <2>1, <2>2
<1>4. /\ new \in Seq(Entry) /\ new # << >> /\ Chained(new, n + 1)
      /\ Contract!Subsequence(Tail(Messages(new)), Messages(lines))
      /\ kept \subseteq ToSet(Messages(new))
  <2>1. Chained(lines, count.ids)
    BY <1>c DEF LogsKept, LogsSound
  <2>2. /\ new \in Seq(Entry) /\ new # << >> /\ Chained(new, n + 1)
        /\ Contract!Subsequence(Tail(Messages(new)), Messages(lines))
        /\ {lines[i].message : i \in Kept(lines, keep)} \subseteq ToSet(Messages(new))
    BY <1>c, <1>1, <2>1, RewrittenChain
  <2> QED
    BY <1>31, <2>2
<1>5. Replaces(Logs[x], promised'[x].messages, n + 1, new)
  BY <1>c, <1>32, <1>4 DEF Replaces
<1>6. LogsSound'
  <2> SUFFICES ASSUME NEW s \in Session
               PROVE  /\ Chained(Logs[s], n + 1)
                      /\ promised'[s].messages \subseteq ToSet(Messages(Logs[s]))
    BY <1>2, <1>3, LogsPrimed
  <2>1. Chained(Logs[s], n) /\ promised[s].messages \subseteq ToSet(Messages(Logs[s]))
    BY <1>1 DEF LogsKept, LogsSound
  <2>2. Chained(Logs[s], n + 1)
    BY <1>1, <2>1, ChainedLater
  <2>3. promised'[s].messages \subseteq promised[s].messages
    BY <1>3, <1>32
  <2> QED
    BY <2>1, <2>2, <2>3
<1>7. CallSound'
  <2>1. PICK j, logs : j = job'[Client] /\ logs = Logs'
    OBVIOUS
  <2> QED
    BY <1>2, <1>3, <1>5, <2>1, CallPrimed
<1>8. Allowed
  BY AllowedStill DEF Compact, disk
<1> QED
  BY <1>6, <1>7, <1>8 DEF LogsKept

LEMMA LogsWhileCalling ==
  ASSUME Serial, Typed, Fresh, IndexKept, LogsKept, NEW x \in Session,
         Create(Client, x) \/ Relabel(Client, x) \/ Delete(Client, x)
  PROVE  LogsKept' /\ Allowed
<1>c. Client \in Clients
  BY SerialTypes
<1>1. CASE Create(Client, x) \/ Relabel(Client, x)
  <2>1. file' = file /\ promised' = promised /\ count'.ids = count.ids
    BY <1>1 DEF Create, Relabel, disk, Typed, Counts
  <2>2. LogsSound'
    BY <2>1, LogsSame, SoundLogs DEF LogsKept, LogsSound
  <2>3. CallSound'
    BY <1>c, <1>1, DoCreate, DoRelabel, SoundAnew DEF After
  <2> QED
    BY <2>1, <2>2, <2>3, AllowedStill DEF LogsKept
<1>2. CASE Delete(Client, x)
  <2>1. /\ file'[x] = Absent /\ \A q \in Path \ {x} : file'[q] = file[q]
        /\ promised'[x] = Nothing /\ \A s \in Session \ {x} : promised'[s] = promised[s]
        /\ count' = count
    BY <1>c, <1>2, DoDelete DEF Delete
  <2>2. Logs'[x] = << >> /\ \A s \in Session \ {x} : Logs'[s] = Logs[s]
    BY <2>1, SerialTypes, LogsPrimed, LogTypes, LinesOf
  <2>3. LogsSound'
    <3> SUFFICES ASSUME NEW s \in Session
                 PROVE  /\ Chained(Logs'[s], count.ids)
                        /\ promised'[s].messages \subseteq ToSet(Messages(Logs'[s]))
      BY <2>1, LogsPrimed
    <3>1. CASE s = x
      <4>1. Chained(<< >>, count.ids)
        BY LogTypes, ChainedEmpty
      <4>2. promised'[s].messages = {}
        BY <2>1, <3>1 DEF Nothing
      <4> QED
        BY <2>2, <3>1, <4>1, <4>2
    <3>2. CASE s # x
      BY <2>1, <2>2, <3>2 DEF LogsKept, LogsSound
    <3> QED
      BY <3>1, <3>2
  <2>4. CallSound'
    BY <1>c, <1>2, DoDelete, SoundAnew DEF After
  <2>5. Allowed
    <3>1. PICK told, old : told = Messages(Lines(file'[x])) /\ old = Messages(Lines(file[x]))
      OBVIOUS
    <3>2. told = << >>
      BY <2>1, <3>1, SerialTypes, LinesOf DEF Messages
    <3>3. file'[Index] = file[Index] /\ \A s \in Session \ {x} : Lines(file'[s]) = Lines(file[s])
      BY <2>1, SerialTypes
    <3> QED
      BY <3>1, <3>2, <3>3, AllowedBecomes
  <2> QED
    BY <2>3, <2>4, <2>5 DEF LogsKept
<1> QED
  BY <1>1, <1>2

LEMMA LogsStep ==
  ASSUME Serial, Typed, Fresh, IndexKept, LogsKept, [Next]_vars
  PROVE  LogsKept' /\ Allowed
<1>1. CASE \E c \in Clients :
             ReadIndex(c) \/ Load(c) \/ Persist(c) \/ Open(c) \/ Write(c) \/ Throws(c)
  BY <1>1, OneClient, LogsWhileIndexing
<1>2. CASE \E c \in Clients : Rename(c) \/ CreateFile(c) \/ AppendLine(c) \/ Fill(c)
  BY <1>2, OneClient, LogsWhileRenaming, LogsWhileCreating, LogsWhileAppending, LogsWhileFilling
<1>3. CASE \E c \in Clients, s \in Session : Create(c, s) \/ Relabel(c, s) \/ Delete(c, s)
  BY <1>3, OneClient, LogsWhileCalling
<1>4. CASE \E c \in Clients, s \in Session : \E lines \in ReadEntries(s) :
             \/ AppendTo(c, s, lines)
             \/ \E t \in Session, cutoff \in 0 .. Len(lines) : Branch(c, s, t, lines, cutoff)
  BY <1>4, OneClient, LogsWhileReading
<1>5. CASE \E c \in Clients, s \in Session : \E lines \in ReadEntries(s) :
             \E keep \in SUBSET Ids(Lines(file[s])) : Compact(c, s, lines, keep)
  BY <1>5, OneClient, LogsWhileCompacting
<1>6. CASE Restart
  <2>1. job'[Client] = Idle
    BY <1>6, OneClient, DoRestart
  <2>2. file' = file /\ promised' = promised /\ count'.ids = count.ids
    BY <1>6 DEF Restart, disk, Typed, Counts
  <2>3. CallSound'
    BY <2>1, IdleType, SoundAnew
  <2>4. LogsSound'
    BY <2>2, LogsSame, SoundLogs DEF LogsKept, LogsSound
  <2> QED
    BY <2>2, <2>3, <2>4, AllowedStill DEF LogsKept
<1>7. CASE UNCHANGED vars
  <2>1. file' = file /\ promised' = promised /\ count' = count /\ job' = job
    BY <1>7 DEF vars, disk
  <2>2. Logs' = Logs
    BY <2>1, LogsSame
  <2>3. LogsSound'
    BY <2>1, <2>2, SoundLogs DEF LogsKept, LogsSound
  <2>4. CallSound'
    BY <2>1, <2>2 DEF LogsKept, CallSound, J, Replacing
  <2> QED
    BY <2>1, <2>3, <2>4, AllowedStill DEF LogsKept
<1> QED
  BY <1>1, <1>2, <1>3, <1>4, <1>5, <1>6, <1>7 DEF Next

LEMMA LogsInit ==
  ASSUME Serial, Init
  PROVE  LogsKept
<1>1. J = Idle
  BY OneClient DEF Init, J
<1>2. \A s \in Session : Logs[s] = << >> /\ promised[s].messages = {}
  BY LinesOf, InitTyped DEF Init, Logs, Nothing, Path
<1>3. LogsSound
  <2>1. Chained(<< >>, count.ids)
    BY InitTyped, LogTypes, ChainedEmpty
  <2> QED
    BY <1>2, <2>1 DEF LogsSound
<1>4. CallSound
  BY <1>1, IdleType, StoreAssumption DEF CallSound
<1> QED
  BY <1>3, <1>4 DEF LogsKept

LEMMA LogsInvariant ==
  ASSUME Serial
  PROVE  Spec => [](Typed /\ Fresh /\ IndexKept /\ LogsKept) /\ [][Contract!Next]_<< OnDisk, Told >>
<1>1. Init => Typed /\ Fresh /\ IndexKept /\ LogsKept
  BY InitTyped, FreshInit, IndexInit, LogsInit
<1>2. Typed /\ Fresh /\ IndexKept /\ LogsKept /\ [Next]_vars
        => Typed' /\ Fresh' /\ IndexKept' /\ LogsKept'
  BY StepTyped, FreshStep, IndexStep, LogsStep
<1>3. Typed /\ Fresh /\ IndexKept /\ LogsKept /\ [Next]_vars => [Contract!Next]_<< OnDisk, Told >>
  BY LogsStep DEF Allowed
<1> QED
  BY <1>1, <1>2, <1>3, PTL DEF Spec

\* With calls that are awaited one after the other, and every operation among them, an
\* entry whose append() has returned, or that a returned branch() inherited, stays in its
\* session's file until compact() is told to drop it (store.ts lines 103-199).
THEOREM EntriesAlwaysDurable ==
  ASSUME Serial
  PROVE  Spec => []EntriesDurable
<1>1. Typed /\ LogsKept => EntriesDurable
  BY LogTypes DEF LogsKept, LogsSound, EntriesDurable
<1>2. Spec => [](Typed /\ Fresh /\ IndexKept /\ LogsKept)
  BY LogsInvariant
<1> QED
  BY <1>1, <1>2, PTL

\* And every log is one chain, whatever fails half way: an appended entry is the child of
\* the last, and branch() and compact() link what they renew or keep.
THEOREM ChainAlwaysIntact ==
  ASSUME Serial
  PROVE  Spec => []ChainIntact
<1>1. Typed /\ LogsKept => ChainIntact
  BY LogTypes, LenProperties DEF LogsKept, LogsSound, Chained, ChainIntact
<1>2. Spec => [](Typed /\ Fresh /\ IndexKept /\ LogsKept)
  BY LogsInvariant
<1> QED
  BY <1>1, <1>2, PTL

\* Read as a list of sessions and a sequence of messages for each, the directory only
\* changes as SessionLog allows: a log is extended by one message, inherited by a branch
\* while that is empty, replaced by a summary and a subsequence of it, or cleared, and only
\* a cleared session leaves the list; every other step, failure and end of the process
\* leaves it as it is.
THEOREM StoreKeepsContract ==
  ASSUME Serial
  PROVE  Spec => KeepsContract
<1>1. Init => Contract!Init
  <2> SUFFICES ASSUME Init
               PROVE  OnDisk = {} /\ Told = [s \in Session |-> << >>]
    BY DEF Contract!Init, OnDisk, Told
  <2>1. \A p \in Path : file[p] = Absent
    BY DEF Init
  <2>2. \A s \in Session : Messages(Lines(file[s])) = << >>
    BY <2>1, InitTyped, LinesOf DEF Path, Messages
  <2> QED
    BY <2>1, <2>2 DEF OnDisk, Told, Path
<1>2. Spec => [][Contract!Next]_<< OnDisk, Told >>
  BY LogsInvariant
<1>3. Contract!Spec <=> Contract!Init /\ [][Contract!Next]_<< OnDisk, Told >>
  BY DEF Contract!Spec, OnDisk, Told
<1>4. Spec => Init
  BY DEF Spec
<1> QED
  BY <1>1, <1>2, <1>3, <1>4 DEF KeepsContract

=============================================================================
