--------------------------- MODULE TonyRuntimeProofs ---------------------------
(***************************************************************************)
(* Theorems about TonyRuntime, for any callers, session objects, prompts   *)
(* and bounds.                                                             *)
(***************************************************************************)
EXTENDS TonyRuntime, SequenceLemmas, SequenceTheorems, TLAPS

-------------------------------------------------------------------------------
(* What the helpers return *)

LEMMA ConcatAppend ==
  ASSUME NEW S, NEW s \in Seq(S), NEW t \in Seq(S), NEW x \in S
  PROVE  /\ Append(s \o t, x) = s \o (t \o << x >>) /\ t \o << x >> \in Seq(S)
         /\ Len(s) <= Len(Append(s \o t, x))
         /\ \A i \in 1 .. Len(s) : Append(s \o t, x)[i] = s[i]
<1>1. << x >> \in Seq(S)
  OBVIOUS
<1>2. s \o t \in Seq(S) /\ t \o << x >> \in Seq(S)
  BY <1>1, ConcatProperties
<1>3. Append(s \o t, x) = (s \o t) \o << x >>
  BY <1>2, AppendIsConcat
<1>4. (s \o t) \o << x >> = s \o (t \o << x >>)
  BY <1>1, ConcatAssociative
<1>5. Len(s) \in Nat /\ Len(t \o << x >>) \in Nat
  BY <1>2, LenProperties
<1>6. /\ Len(s \o (t \o << x >>)) = Len(s) + Len(t \o << x >>)
      /\ \A i \in 1 .. Len(s) + Len(t \o << x >>) :
           (s \o (t \o << x >>))[i] =
             IF i <= Len(s) THEN s[i] ELSE (t \o << x >>)[i - Len(s)]
  BY <1>2, ConcatProperties
<1> QED
  BY <1>2, <1>3, <1>4, <1>5, <1>6

LEMMA DeriveProperties ==
  ASSUME NEW es \in Seq(Entry)
  PROVE  /\ Derive(es) \in Seq(Message) /\ Len(Derive(es)) = Len(es)
         /\ \A i \in 1 .. Len(es) : Derive(es)[i] = es[i].message
         /\ MessagesOf(es) = {es[i].message : i \in 1 .. Len(es)}
         /\ MessagesOf(es) = {e.message : e \in ToSet(es)}
         /\ MessagesOf(es) \subseteq Message
<1>1. Len(es) \in Nat /\ DOMAIN es = 1 .. Len(es) /\ \A i \in 1 .. Len(es) : es[i].message \in Message
  <2>1. \A i \in 1 .. Len(es) : es[i] \in Entry
    BY ElementOfSeq
  <2>2. \A e \in Entry : e.message \in Message
    BY DEF Entry
  <2> QED
    BY <2>1, <2>2, LenProperties
<1>2. Derive(es) = [i \in 1 .. Len(es) |-> es[i].message]
  BY <1>1 DEF Derive
<1>3. Derive(es) \in Seq(Message) /\ Len(Derive(es)) = Len(es)
  BY <1>1, <1>2
<1>4. MessagesOf(es) = {es[i].message : i \in 1 .. Len(es)}
  BY <1>1, <1>2, <1>3 DEF MessagesOf, ToSet
<1>5. MessagesOf(es) = {e.message : e \in ToSet(es)}
  BY <1>1, <1>4 DEF ToSet
<1> QED
  BY <1>1, <1>2, <1>3, <1>4, <1>5

LEMMA SliceProperties ==
  ASSUME NEW S, NEW s \in Seq(S), NEW from \in Nat
  PROVE  /\ Slice(s, from) \in Seq(S)
         /\ Len(Slice(s, from)) = IF from < Len(s) THEN Len(s) - from ELSE 0
         /\ \A i \in 1 .. Len(s) - from : Slice(s, from)[i] = s[from + i]
<1>1. Len(s) \in Nat /\ \A i \in from + 1 .. Len(s) : s[i] \in S
  BY LenProperties
<1>2. /\ SubSeq(s, from + 1, Len(s)) \in Seq(S)
      /\ Len(SubSeq(s, from + 1, Len(s))) =
           IF from + 1 <= Len(s) THEN Len(s) - (from + 1) + 1 ELSE 0
      /\ \A i \in 1 .. Len(s) - (from + 1) + 1 :
           SubSeq(s, from + 1, Len(s))[i] = s[from + 1 + i - 1]
  BY <1>1, SubSeqProperties
<1> QED
  BY <1>1, <1>2 DEF Slice

\* What is not sliced off is in the slice.
LEMMA SliceHas ==
  ASSUME NEW S, NEW s \in Seq(S), NEW from \in Nat, NEW i \in 1 .. Len(s), from < i
  PROVE  s[i] \in ToSet(Slice(s, from))
<1> DEFINE rest == Slice(s, from)
<1>1. /\ rest \in Seq(S) /\ Len(rest) = IF from < Len(s) THEN Len(s) - from ELSE 0
      /\ \A k \in 1 .. Len(s) - from : rest[k] = s[from + k]
  BY SliceProperties
<1> HIDE DEF rest
<1>2. Len(s) \in Nat
  BY LenProperties
<1>3. i - from \in 1 .. Len(s) - from /\ i - from \in 1 .. Len(rest)
  BY <1>1, <1>2
<1>4. rest[i - from] = s[i]
  BY <1>1, <1>2, <1>3
<1>5. ToSet(rest) = {rest[k] : k \in 1 .. Len(rest)}
  BY <1>1, ElementsOf
<1> QED
  BY <1>3, <1>4, <1>5 DEF rest

LEMMA WithSystemPromptProperties ==
  ASSUME NEW s \in Seq(Message)
  PROVE  /\ WithSystemPrompt(s) \in Seq(Message) /\ Len(s) <= Len(WithSystemPrompt(s))
         /\ ToSet(WithSystemPrompt(s)) \subseteq ToSet(s) \cup {Prompt}
<1>1. Prompt \in Message /\ << Prompt >> \in Seq(Message)
  BY DEF Prompt, Message
<1>2. CASE WithSystemPrompt(s) = s
  BY <1>2
<1>3. CASE WithSystemPrompt(s) = << Prompt >> \o s
  <2>1. ToSet(<< Prompt >> \o s) = ToSet(<< Prompt >>) \cup ToSet(s)
    BY <1>1, ElementsOfConcat
  <2>2. ToSet(<< Prompt >>) = {Prompt}
    BY DEF ToSet
  <2>3. << Prompt >> \o s \in Seq(Message) /\ Len(<< Prompt >> \o s) = 1 + Len(s)
    BY <1>1, ConcatProperties
  <2> QED
    BY <1>3, <2>1, <2>2, <2>3, LenProperties
<1> QED
  BY <1>2, <1>3 DEF WithSystemPrompt

-------------------------------------------------------------------------------
(* Type correctness *)

Counts == [asks : Nat, entries : Nat, rewrites : Nat, failures : Nat, restarts : Nat]
Busy == {"run", "persist", "rewrite", "swap", "refresh"}
Locals(objects) ==
  [pc : {"idle", "load", "attach"} \cup Busy, object : objects \cup {None},
   messages : Seq(Message), todo : Seq(Message), keep : SUBSET Nat, entries : Seq(Entry)]

\* A call that runs the agent has said something.
Typed ==
  /\ TypeOK /\ count \in Counts
  /\ \A c \in Callers : At(c, "run") => job[c].messages # << >>

\* The counters stay numbers.
LEMMA Counting ==
  ASSUME count \in Counts
  PROVE  /\ [count EXCEPT !.asks = @ + 1] \in Counts
         /\ [count EXCEPT !.entries = @ + 1] \in Counts
         /\ [count EXCEPT !.failures = @ + 1] \in Counts
         /\ [count EXCEPT !.restarts = @ + 1] \in Counts
         /\ [count EXCEPT !.rewrites = @ + 1] \in Counts
         /\ [count EXCEPT !.failures = @ + 1, !.entries = @ + 1] \in Counts
         /\ [count EXCEPT !.rewrites = @ + 1, !.entries = @ + 1] \in Counts
<1>1. /\ count.asks + 1 \in Nat /\ count.entries + 1 \in Nat /\ count.failures + 1 \in Nat
      /\ count.restarts + 1 \in Nat /\ count.rewrites + 1 \in Nat
  BY DEF Counts
<1> QED
  BY <1>1 DEF Counts

LEMMA IdsType ==
  ASSUME NEW es \in Seq(Entry)
  PROVE  Ids(es) \in SUBSET Nat
<1>1. \A i \in DOMAIN es : es[i] \in Entry
  BY LenProperties, ElementOfSeq
<1>2. \A e \in Entry : e.id \in Nat
  BY DEF Entry
<1> QED
  BY <1>1, <1>2 DEF Ids

\* What a step must establish of the locals of the one call it moves.
LEMMA SetTyped ==
  ASSUME Typed, NEW c \in Callers, NEW locals, Set(c, locals), locals \in Locals(made'),
         locals.pc \in Busy => locals.object # None,
         locals.pc = "run" => locals.messages # << >>,
         made \subseteq made', made' \subseteq Objects, current' \in made' \cup {None},
         log' \in Seq(Entry), conversation' \in [Objects -> Seq(Message)],
         history' \in [Objects -> Seq(Message)], running' \in [Objects -> BOOLEAN],
         completed' \subseteq Message, dropped' \subseteq Message, count' \in Counts
  PROVE  Typed'
<1>1. job \in [Callers -> Locals(made)]
  BY DEF Typed, TypeOK, Locals, Busy
<1>2. Locals(made) \subseteq Locals(made')
  BY DEF Locals
<1>3. job' = [job EXCEPT ![c] = locals]
  BY DEF Set
<1>4. job' \in [Callers -> Locals(made')]
  BY <1>1, <1>2, <1>3
<1>5. \A d \in Callers : job'[d] = IF d = c THEN locals ELSE job[d]
  BY <1>1, <1>3
<1>6. \A d \in Callers : /\ job'[d].pc \in Busy => job'[d].object # None
                         /\ job'[d].pc = "run" => job'[d].messages # << >>
  BY <1>5 DEF Typed, TypeOK, Busy, At
<1> QED
  BY <1>4, <1>6 DEF Typed, TypeOK, Locals, Busy, At

LEMMA NewEntryType ==
  ASSUME Typed, NEW m \in Message
  PROVE  NewEntry(m) \in Entry /\ NewEntry(m).message = m
BY DEF Typed, Counts, NewEntry, Entry

LEMMA RewrittenProperties ==
  ASSUME Typed, NEW es \in Seq(Entry), NEW keep \in SUBSET Nat
  PROVE  /\ Rewritten(es, keep) \in Seq(Entry) /\ Summary \in Message
         /\ MessagesOf(Rewritten(es, keep)) =
              {Summary} \cup {es[i].message : i \in Kept(es, keep)}
<1>1. Summary \in Message
  BY DEF Typed, Counts, Summary, Message
<1>2. << NewEntry(Summary) >> \in Seq(Entry)
  BY <1>1, NewEntryType
<1> DEFINE at == Kept(es, keep)
           kept == ElementsAt(es, at)
<1>3. at \in SUBSET DOMAIN es
  BY DEF Kept
<1>4. kept \in Seq(Entry) /\ ToSet(kept) = {es[i] : i \in at}
  <2>1. /\ kept \in Seq(Entry) /\ Len(kept) = Cardinality(at)
        /\ \A k \in 1 .. Cardinality(at) : Nth(at, k) \in at /\ kept[k] = es[Nth(at, k)]
        /\ \A i \in at : \E k \in 1 .. Cardinality(at) : kept[k] = es[i]
    BY <1>3, ElementsAtProperties
  <2>2. ToSet(kept) = {kept[k] : k \in 1 .. Cardinality(at)}
    BY <2>1, ElementsOf
  <2> QED
    BY <2>1, <2>2
<1>5. Rewritten(es, keep) \in Seq(Entry)
  BY <1>2, <1>4, ConcatProperties DEF Rewritten
<1>6. ToSet(Rewritten(es, keep)) = ToSet(<< NewEntry(Summary) >>) \cup ToSet(kept)
  <2>1. Rewritten(es, keep) = << NewEntry(Summary) >> \o kept
    BY DEF Rewritten
  <2>2. PICK first \in Seq(Entry), rest \in Seq(Entry) : first = << NewEntry(Summary) >> /\ rest = kept
    BY <1>2, <1>4
  <2>3. ToSet(first \o rest) = ToSet(first) \cup ToSet(rest)
    BY ElementsOfConcat
  <2> QED
    BY <2>1, <2>2, <2>3
<1>7. ToSet(<< NewEntry(Summary) >>) = {NewEntry(Summary)}
  BY DEF ToSet
<1>8. MessagesOf(Rewritten(es, keep)) = {e.message : e \in ToSet(Rewritten(es, keep))}
  BY <1>5, DeriveProperties
<1> QED
  BY <1>1, <1>4, <1>5, <1>6, <1>7, <1>8, NewEntryType

\* The types of what a call works on.
LEMMA LocalTypes ==
  ASSUME Typed, NEW c \in Callers
  PROVE  /\ job[c] \in Locals(made) /\ job[c].entries \in Seq(Entry) /\ job[c].keep \in SUBSET Nat
         /\ job[c].messages \in Seq(Message) /\ job[c].todo \in Seq(Message)
         /\ job[c].object \in made \cup {None}
         /\ job[c].pc \in Busy => job[c].object \in made /\ job[c].object \in Objects
         /\ log \in Seq(Entry) /\ made \subseteq Objects /\ current \in made \cup {None}
         /\ conversation \in [Objects -> Seq(Message)] /\ history \in [Objects -> Seq(Message)]
         /\ running \in [Objects -> BOOLEAN] /\ completed \subseteq Message /\ dropped \subseteq Message
         /\ count \in Counts /\ made \subseteq made
<1>1. job[c] \in Locals(made) /\ (job[c].pc \in Busy => job[c].object # None)
  BY DEF Typed, TypeOK, Locals, Busy
<1> QED
  BY <1>1 DEF Typed, TypeOK, Locals

\* A call that ends, and one that begins, has no locals but its object.
LEMMA IdleType ==
  ASSUME NEW objects, NEW o \in objects \cup {None}
  PROVE  /\ Idle \in Locals(objects)
         /\ [Idle EXCEPT !.object = o] \in Locals(objects)
         /\ [Idle EXCEPT !.object = o].pc = "idle"
         /\ [Idle EXCEPT !.pc = "load"] \in Locals(objects)
         /\ [Idle EXCEPT !.pc = "load"].pc = "load"
<1>1. << >> \in Seq(Message) /\ << >> \in Seq(Entry) /\ {} \in SUBSET Nat
  OBVIOUS
<1> QED
  BY <1>1 DEF Idle, Locals

\* A call that ends and leaves the objects as they are.
LEMMA DoneTyped ==
  ASSUME Typed, NEW c \in Callers, Done(c), made' = made, current' = current,
         log' \in Seq(Entry), conversation' \in [Objects -> Seq(Message)],
         history' \in [Objects -> Seq(Message)], running' \in [Objects -> BOOLEAN],
         completed' \subseteq Message, dropped' \subseteq Message, count' \in Counts
  PROVE  Typed'
<1> DEFINE locals == [Idle EXCEPT !.object = job[c].object]
<1>1. locals \in Locals(made') /\ locals.pc = "idle"
  BY LocalTypes, IdleType
<1>2. Set(c, locals)
  BY DEF Done
<1> HIDE DEF locals
<1> QED
  BY <1>1, <1>2, LocalTypes, SetTyped DEF Busy

LEMMA SaidType ==
  ASSUME Typed, NEW c \in Callers, At(c, "run")
  PROVE  /\ Said(c) \in Seq(Message) /\ Reply(c) \in Message
         /\ Append(Said(c), Reply(c)) \in Seq(Message)
<1>1. job[c].messages \in Seq(Message) /\ job[c].messages # << >>
  BY LocalTypes DEF Typed
<1>2. job[c].object \in Objects /\ conversation[job[c].object] \in Seq(Message)
  BY LocalTypes DEF At, Busy
<1>3. Said(c) \in Seq(Message)
  BY <1>1, <1>2, ConcatProperties DEF Said
<1>4. Head(job[c].messages) \in Message
  BY <1>1, HeadTailProperties
<1>5. Reply(c) \in Message
  BY <1>4 DEF Reply, Message
<1> QED
  BY <1>3, <1>5, AppendProperties

LEMMA LogGrowsTyped ==
  ASSUME Typed, NEW m \in Message
  PROVE  Append(log, NewEntry(m)) \in Seq(Entry)
BY NewEntryType, AppendProperties DEF Typed, TypeOK

\* A step of a call keeps the types.
LEMMA CallTyped ==
  ASSUME Typed, NEW c \in Callers,
         \/ Open(c) \/ Load(c) \/ \E o \in Objects : Attach(c, o)
         \/ Ask(c) \/ RunReturns(c) \/ RunThrows(c)
         \/ Persist(c) \/ PersistThrows(c) \/ AskReturns(c)
         \/ \E k \in Keeps : Compact(c, k)
         \/ Rewrite(c) \/ Swap(c) \/ Refresh(c)
  PROVE  Typed'
<1> DEFINE j == job[c]
<1>0. /\ j \in Locals(made) /\ j.entries \in Seq(Entry) /\ j.keep \in SUBSET Nat
      /\ j.messages \in Seq(Message) /\ j.todo \in Seq(Message) /\ j.object \in made \cup {None}
      /\ j.pc \in Busy => j.object \in made /\ j.object \in Objects
      /\ log \in Seq(Entry) /\ made \subseteq Objects /\ current \in made \cup {None}
      /\ conversation \in [Objects -> Seq(Message)] /\ history \in [Objects -> Seq(Message)]
      /\ running \in [Objects -> BOOLEAN] /\ completed \subseteq Message /\ dropped \subseteq Message
      /\ count \in Counts /\ made \subseteq made
  BY LocalTypes
<1> HIDE DEF j
<1>1. CASE Open(c)
  <2>1. CASE current # None
    <3> DEFINE locals == [Idle EXCEPT !.object = current]
    <3>1. locals \in Locals(made) /\ locals.pc = "idle" /\ Set(c, locals)
      BY <1>0, <1>1, <2>1, IdleType DEF Open
    <3> HIDE DEF locals
    <3> QED
      BY <1>0, <1>1, <3>1, SetTyped DEF Open, session, Busy
  <2>2. CASE current = None
    <3> DEFINE locals == [Idle EXCEPT !.pc = "load"]
    <3>1. locals \in Locals(made) /\ locals.pc = "load" /\ Set(c, locals)
      BY <1>0, <1>1, <2>2, IdleType DEF Open
    <3> HIDE DEF locals
    <3> QED
      BY <1>0, <1>1, <3>1, SetTyped DEF Open, session, Busy
  <2> QED
    BY <2>1, <2>2
<1>2. CASE Load(c)
  <2> DEFINE locals == [j EXCEPT !.pc = "attach", !.entries = log]
  <2>1. locals \in Locals(made) /\ locals.pc = "attach" /\ Set(c, locals)
    BY <1>0, <1>2 DEF Load, Locals, j
  <2> HIDE DEF locals
  <2> QED
    BY <1>0, <1>2, <2>1, SetTyped DEF Load, session, Busy
<1>3. ASSUME NEW o \in Objects, Attach(c, o)
      PROVE  Typed'
  <2>1. Derive(j.entries) \in Seq(Message)
    BY <1>0, DeriveProperties
  <2>2. WithSystemPrompt(Derive(j.entries)) \in Seq(Message)
    BY <2>1, WithSystemPromptProperties
  <2>3. conversation' \in [Objects -> Seq(Message)] /\ history' \in [Objects -> Seq(Message)]
    BY <1>0, <1>3, <2>1, <2>2 DEF Attach, j
  <2> DEFINE locals == [Idle EXCEPT !.object = o]
  <2>4. locals \in Locals(made') /\ locals.pc = "idle" /\ Set(c, locals)
    BY <1>3, IdleType DEF Attach
  <2> HIDE DEF locals
  <2> QED
    BY <1>0, <1>3, <2>3, <2>4, SetTyped DEF Attach, Busy
<1>4. CASE Ask(c)
  <2> DEFINE prompt == [tag |-> "prompt", n |-> count.asks + 1]
             locals == [j EXCEPT !.pc = "run", !.messages = << prompt >>]
  <2>1. count' = [count EXCEPT !.asks = count.asks + 1] /\ count'.asks = count.asks + 1
    BY <1>0, <1>4 DEF Ask, Counts
  <2>2. count' \in Counts /\ prompt \in Message
    BY <1>0, <2>1, Counting DEF Counts, Message
  <2>3. << prompt >> \in Seq(Message) /\ << prompt >> # << >>
    BY <2>2
  <2>4. locals \in Locals(made) /\ locals.pc = "run" /\ locals.messages = << prompt >>
        /\ locals.object = j.object
    BY <1>0, <2>3 DEF Locals, Busy
  <2>5. Set(c, locals) /\ j.object # None
    BY <1>4, <2>1 DEF Ask, j
  <2>6. running' \in [Objects -> BOOLEAN]
    BY <1>0, <1>4 DEF Ask
  <2> HIDE DEF locals, prompt
  <2> QED
    BY <1>0, <1>4, <2>2, <2>3, <2>4, <2>5, <2>6, SetTyped DEF Ask
<1>5. CASE RunReturns(c)
  <2> DEFINE said == Append(Said(c), Reply(c))
             locals == [j EXCEPT !.pc = "persist", !.messages = said,
                                 !.todo = Slice(said, Len(history[j.object]))]
  <2>1. said \in Seq(Message) /\ j.pc = "run"
    BY <1>5, SaidType DEF RunReturns, Settle, At, j
  <2>2. j.object \in Objects /\ Len(history[j.object]) \in Nat /\ j.object # None
    BY <1>0, <2>1, LenProperties, RuntimeAssumption DEF Busy
  <2>3. Slice(said, Len(history[j.object])) \in Seq(Message)
    BY <2>1, <2>2, SliceProperties
  <2>4. /\ conversation' \in [Objects -> Seq(Message)] /\ running' \in [Objects -> BOOLEAN]
        /\ UNCHANGED << log, history, made, current, count, completed, dropped >>
    <3>1. Settle(c, said)
      BY <1>5 DEF RunReturns
    <3> HIDE DEF said
    <3> QED
      BY <1>0, <2>1, <3>1 DEF Settle
  <2>5. Set(c, locals)
    BY <1>5 DEF RunReturns, j
  <2>6. locals \in Locals(made) /\ locals.pc = "persist" /\ locals.object # None
    <3> HIDE DEF said
    <3> QED
      BY <1>0, <2>1, <2>2, <2>3 DEF Locals, Busy
  <2> HIDE DEF locals, said
  <2> QED
    BY <1>0, <2>4, <2>5, <2>6, SetTyped
<1>6. CASE RunThrows(c)
  <2>1. PICK messages \in Seq(Message) : Settle(c, messages)
    <3>1. At(c, "run")
      BY <1>6 DEF RunThrows, Settle
    <3> QED
      BY <1>6, <3>1, SaidType DEF RunThrows
  <2>2. conversation' \in [Objects -> Seq(Message)] /\ running' \in [Objects -> BOOLEAN]
    BY <1>0, <2>1 DEF Settle
  <2> QED
    BY <1>0, <1>6, <2>1, <2>2, DoneTyped DEF RunThrows, Settle
<1>7. CASE Persist(c)
  <2> DEFINE locals == [j EXCEPT !.todo = Tail(j.todo)]
  <2>1. j.todo # << >> /\ j.pc = "persist"
    BY <1>7 DEF Persist, At, j
  <2>2. Head(j.todo) \in Message /\ Tail(j.todo) \in Seq(Message)
    BY <1>0, <2>1, HeadTailProperties
  <2>3. log' \in Seq(Entry)
    BY <1>7, <2>2, LogGrowsTyped DEF Persist, j
  <2>4. Set(c, locals)
    BY <1>7 DEF Persist, j
  <2>5. locals \in Locals(made) /\ locals.pc = "persist" /\ locals.object # None
    BY <1>0, <2>1, <2>2, RuntimeAssumption DEF Locals, Busy
  <2>6. count' \in Counts
    BY <1>0, <1>7, Counting DEF Persist
  <2> HIDE DEF locals
  <2> QED
    BY <1>0, <1>7, <2>3, <2>4, <2>5, <2>6, SetTyped DEF Persist, session
<1>8. CASE PersistThrows(c)
  <2>1. j.todo # << >>
    BY <1>8 DEF PersistThrows, j
  <2>2. Head(j.todo) \in Message
    BY <1>0, <2>1, HeadTailProperties
  <2>3. log' \in Seq(Entry)
    BY <1>0, <1>8, <2>2, LogGrowsTyped DEF PersistThrows, j
  <2>4. count' \in Counts
    BY <1>0, <1>8, Counting DEF PersistThrows
  <2> QED
    BY <1>0, <1>8, <2>3, <2>4, DoneTyped DEF PersistThrows, session
<1>9. CASE AskReturns(c)
  <2>1. history' \in [Objects -> Seq(Message)]
    BY <1>0, <1>9 DEF AskReturns, j
  <2>2. completed' \subseteq Message
    BY <1>0, <1>9, ElementsOf DEF AskReturns, j
  <2> QED
    BY <1>0, <1>9, <2>1, <2>2, DoneTyped DEF AskReturns
<1>10. ASSUME NEW k \in Keeps, Compact(c, k)
       PROVE  Typed'
  <2> DEFINE keep == Ids(SliceLast(log, k))
             locals == [j EXCEPT !.pc = "rewrite", !.keep = keep]
  <2>1. keep \in SUBSET Nat
    <3>1. k \in Nat /\ Len(log) \in Nat
      BY <1>0, RuntimeAssumption, LenProperties
    <3>2. SliceLast(log, k) \in Seq(Entry)
      <4>1. CASE k = 0 \/ k >= Len(log)
        BY <1>0, <4>1 DEF SliceLast
      <4>2. CASE ~ (k = 0 \/ k >= Len(log))
        <5>1. \A i \in Len(log) - k + 1 .. Len(log) : log[i] \in Entry
          BY <1>0, <3>1, <4>2, ElementOfSeq
        <5>2. SubSeq(log, Len(log) - k + 1, Len(log)) \in Seq(Entry)
          BY <3>1, <5>1, SubSeqProperties
        <5> QED
          BY <4>2, <5>2 DEF SliceLast
      <4> QED
        BY <4>1, <4>2
    <3> QED
      BY <3>2, IdsType
  <2>2. Set(c, locals) /\ j.object # None
    BY <1>10 DEF Compact, j
  <2>3. locals \in Locals(made) /\ locals.pc = "rewrite" /\ locals.object # None
    <3> HIDE DEF keep
    <3> QED
      BY <1>0, <2>1, <2>2 DEF Locals, Busy
  <2>4. count' \in Counts
    BY <1>0, <1>10, Counting DEF Compact
  <2> HIDE DEF locals, keep
  <2> QED
    BY <1>0, <1>10, <2>2, <2>3, <2>4, SetTyped DEF Compact, session
<1>11. CASE Rewrite(c)
  <2> DEFINE locals == [j EXCEPT !.pc = "swap", !.entries = log]
  <2>1. Set(c, locals) /\ j.pc = "rewrite"
    BY <1>11 DEF Rewrite, At, j
  <2>2. locals \in Locals(made) /\ locals.pc = "swap" /\ locals.object # None
    BY <1>0, <2>1, RuntimeAssumption DEF Locals, Busy
  <2> HIDE DEF locals
  <2> QED
    BY <1>0, <1>11, <2>1, <2>2, SetTyped DEF Rewrite, session
<1>12. CASE Swap(c)
  <2> DEFINE locals == [j EXCEPT !.pc = "refresh"]
  <2>1. Set(c, locals) /\ j.pc = "swap"
    BY <1>12 DEF Swap, Goto, At, j
  <2>2. locals \in Locals(made) /\ locals.pc = "refresh" /\ locals.object # None
    BY <1>0, <2>1, RuntimeAssumption DEF Locals, Busy
  <2>3. log' \in Seq(Entry)
    BY <1>0, <1>12, RewrittenProperties DEF Swap, j
  <2>4. dropped' \subseteq Message
    <3>1. \A i \in DOMAIN j.entries : j.entries[i].message \in Message
      BY <1>0, DeriveProperties, LenProperties
    <3> QED
      BY <1>0, <1>12, <3>1 DEF Swap, Drop, j
  <2>5. count' \in Counts
    BY <1>0, <1>12, Counting DEF Swap
  <2> HIDE DEF locals
  <2> QED
    BY <1>0, <1>12, <2>1, <2>2, <2>3, <2>4, <2>5, SetTyped DEF Swap, session
<1>13. CASE Refresh(c)
  <2>1. Derive(log) \in Seq(Message)
    BY <1>0, DeriveProperties
  <2>2. WithSystemPrompt(Derive(log)) \in Seq(Message)
    BY <2>1, WithSystemPromptProperties
  <2>3. conversation' \in [Objects -> Seq(Message)] /\ history' \in [Objects -> Seq(Message)]
    BY <1>0, <1>13, <2>1, <2>2 DEF Refresh
  <2> QED
    BY <1>0, <1>13, <2>3, DoneTyped DEF Refresh
<1> QED
  BY <1>1, <1>2, <1>3, <1>4, <1>5, <1>6, <1>7, <1>8, <1>9, <1>10, <1>11, <1>12, <1>13

\* So does a compaction behind the session's back.
LEMMA BehindTyped ==
  ASSUME Typed, CompactBehind
  PROVE  Typed'
<1>1. log \in Seq(Entry) /\ {} \in SUBSET Nat /\ dropped \subseteq Message /\ count \in Counts
  BY DEF Typed, TypeOK
<1>2. log' \in Seq(Entry)
  BY <1>1, RewrittenProperties DEF CompactBehind
<1>3. \A i \in DOMAIN log : log[i].message \in Message
  BY <1>1, DeriveProperties, LenProperties
<1>4. dropped' \subseteq Message
  BY <1>1, <1>3 DEF CompactBehind, Drop
<1>5. count' \in Counts
  BY <1>1, Counting DEF CompactBehind
<1> QED
  BY <1>2, <1>4, <1>5 DEF Typed, TypeOK, CompactBehind, session, At

\* And a new process.
LEMMA RestartTyped ==
  ASSUME Typed, Restart
  PROVE  Typed'
<1>1. /\ Idle \in Locals({}) /\ Idle.pc = "idle" /\ Idle.object = None
      /\ << >> \in Seq(Message)
  BY IdleType DEF Idle
<1>2. count' \in Counts
  BY Counting DEF Typed, Restart
<1>3. job' \in [Callers -> Locals(made')] /\ \A c \in Callers : job'[c].pc = "idle"
  BY <1>1 DEF Restart
<1> QED
  BY <1>1, <1>2, <1>3 DEF Typed, TypeOK, Restart, Locals, Busy, At

LEMMA InitTyped == Init => Typed
<1> SUFFICES ASSUME Init PROVE Typed
  OBVIOUS
<1>0. None \in {} \cup {None} /\ << >> \in Seq(Message) /\ << >> \in Seq(Entry)
  OBVIOUS
<1>1. Idle \in Locals({}) /\ Idle.pc = "idle"
  BY <1>0, IdleType DEF Idle
<1>2. job \in [Callers -> Locals(made)] /\ \A c \in Callers : job[c].pc = "idle"
  BY <1>1 DEF Init
<1> QED
  BY <1>0, <1>1, <1>2 DEF Init, Typed, TypeOK, Counts, Locals, Busy, At

LEMMA StepTyped == Typed /\ [Next]_vars => Typed'
<1> SUFFICES ASSUME Typed, [Next]_vars PROVE Typed'
  OBVIOUS
<1>1. CASE Next
  BY <1>1, CallTyped, BehindTyped, RestartTyped DEF Next
<1>2. CASE UNCHANGED vars
  BY <1>2 DEF vars, session, Typed, TypeOK, At
<1> QED
  BY <1>1, <1>2

\* The log, the objects, the arrays and the locals of the calls are of the types the
\* code gives them, and a call that runs, persists or compacts has an object (runtime.ts).
THEOREM TypeCorrect == Spec => []TypeOK
<1>1. Typed => TypeOK
  BY DEF Typed
<1> QED
  BY <1>1, InitTyped, StepTyped, PTL DEF Spec

-------------------------------------------------------------------------------
(* Nothing that was returned or is skipped is missing from the log *)

\* What the log has or had: only a compaction takes a message away, and says so.
Logged == MessagesOf(log) \cup dropped \cup {Prompt}

\* Nothing compacts a log while another call may append to it: store.compact() writes
\* what it read, and what was appended in between is in no list.
Awaited == Compacting => \A c, d \in Callers : c = d

Extends(t, s) == Len(s) <= Len(t) /\ \A i \in 1 .. Len(s) : t[i] = s[i]

\* As much of a conversation as the history array is long has been logged.
CoveredObject(o) ==
  /\ ToSet(history[o]) \subseteq Logged
  /\ Len(history[o]) <= Len(conversation[o])
  /\ \A i \in 1 .. Len(history[o]) : conversation[o][i] \in Logged

\* A call that persists has logged all its messages but those it has still to do, and
\* its conversation has only grown since; a compaction works on the log as it is.
CoveredCall(c) ==
  LET j == job[c]
  IN  /\ j.pc = "attach" => MessagesOf(j.entries) \subseteq Logged
      /\ j.pc = "persist" => /\ ToSet(j.messages) \subseteq Logged \cup ToSet(j.todo)
                             /\ Extends(conversation[j.object], j.messages)
      /\ j.pc = "swap" => j.entries = log
      /\ j.pc \in {"rewrite", "swap", "refresh"} => Compacting

Covered ==
  /\ completed \subseteq Logged
  /\ \A o \in Objects : CoveredObject(o)
  /\ \A c \in Callers : CoveredCall(c)

\* What a step must establish of the one call it moves and of the objects.
LEMMA SetCovered ==
  ASSUME Typed, Covered, Awaited, NEW c \in Callers, NEW locals, Set(c, locals),
         Logged \subseteq Logged', completed' \subseteq Logged',
         \A o \in Objects : CoveredObject(o)',
         \A d \in Callers : d # c /\ job[d].pc = "persist" =>
           Extends(conversation'[job[d].object], job[d].messages),
         CoveredCall(c)'
  PROVE  Covered'
<1>1. \A d \in Callers : d # c => job'[d] = job[d]
  BY DEF Typed, TypeOK, Set
<1>2. ASSUME NEW d \in Callers, d # c
      PROVE  CoveredCall(d)'
  <2>1. job'[d] = job[d] /\ CoveredCall(d)
    BY <1>1, <1>2 DEF Covered
  <2>2. job[d].pc \notin {"rewrite", "swap", "refresh"}
    BY <1>2, <2>1 DEF CoveredCall, Awaited
  <2> QED
    BY <1>2, <2>1, <2>2 DEF CoveredCall
<1> QED
  BY <1>2 DEF Covered

\* An object whose arrays a step leaves alone stays covered.
LEMMA UntouchedCovered ==
  ASSUME Covered, Logged \subseteq Logged', NEW o \in Objects,
         history'[o] = history[o], conversation'[o] = conversation[o]
  PROVE  CoveredObject(o)'
BY DEF Covered, CoveredObject

\* An array derived from logged entries is covered.
LEMMA DerivedCovered ==
  ASSUME NEW o \in Objects, NEW es \in Seq(Entry), MessagesOf(es) \subseteq Logged',
         history'[o] = Derive(es), conversation'[o] = WithSystemPrompt(Derive(es))
  PROVE  CoveredObject(o)'
<1>1. Derive(es) \in Seq(Message) /\ ToSet(Derive(es)) = MessagesOf(es)
  BY DeriveProperties DEF MessagesOf
<1> DEFINE said == WithSystemPrompt(Derive(es))
<1>2. said \in Seq(Message) /\ Len(Derive(es)) <= Len(said)
      /\ ToSet(said) \subseteq MessagesOf(es) \cup {Prompt}
  BY <1>1, WithSystemPromptProperties
<1>3. \A i \in 1 .. Len(said) : said[i] \in ToSet(said)
  BY <1>2, ElementsOf
<1>4. Len(Derive(es)) \in Nat /\ Len(said) \in Nat
  BY <1>1, <1>2, LenProperties
<1>5. \A i \in 1 .. Len(Derive(es)) : said[i] \in Logged'
  <2> HIDE DEF said
  <2> QED
    BY <1>2, <1>3, <1>4 DEF Logged
<1> QED
  BY <1>1, <1>2, <1>5 DEF CoveredObject

\* A log that gains a message only gains.
LEMMA AppendLogs ==
  ASSUME Typed, NEW m \in Message, log' = Append(log, NewEntry(m)), dropped' = dropped
  PROVE  Logged' = Logged \cup {m}
<1>1. log \in Seq(Entry) /\ NewEntry(m) \in Entry /\ NewEntry(m).message = m
  BY NewEntryType DEF Typed, TypeOK
<1>2. log' \in Seq(Entry)
  BY <1>1, AppendProperties
<1>3. ToSet(log') = ToSet(log) \cup {NewEntry(m)}
  BY <1>1, ElementsOfAppend
<1>4. /\ MessagesOf(log) = {e.message : e \in ToSet(log)}
      /\ MessagesOf(log') = {e.message : e \in ToSet(log')}
  BY <1>1, <1>2, DeriveProperties
<1>5. MessagesOf(log') = MessagesOf(log) \cup {m}
  BY <1>1, <1>3, <1>4
<1>6. MessagesOf(log)' = MessagesOf(log')
  BY DEF MessagesOf, Derive
<1> QED
  BY <1>5, <1>6 DEF Logged

\* What a compaction of the whole log takes away is recorded.
LEMMA RewriteLogs ==
  ASSUME Typed, NEW keep \in SUBSET Nat, log' = Rewritten(log, keep), Drop(log, keep)
  PROVE  Logged \subseteq Logged'
<1>1. log \in Seq(Entry)
  BY DEF Typed, TypeOK
<1>2. MessagesOf(log') = {Summary} \cup {log[i].message : i \in Kept(log, keep)}
  BY <1>1, RewrittenProperties
<1>3. MessagesOf(log) = {log[i].message : i \in DOMAIN log}
  BY <1>1, DeriveProperties, LenProperties
<1>4. MessagesOf(log)' = MessagesOf(log')
  BY DEF MessagesOf, Derive
<1>5. dropped' = dropped \cup {log[i].message : i \in DOMAIN log \ Kept(log, keep)}
  BY DEF Drop
<1>6. MessagesOf(log) \subseteq MessagesOf(log') \cup dropped'
  BY <1>2, <1>3, <1>5
<1> QED
  BY <1>4, <1>5, <1>6 DEF Logged

\* An array that only grows, and calls that see it grow.
LEMMA GrowsCovered ==
  ASSUME Typed, Covered, NEW o \in Objects, NEW more \in Seq(Message), Logged' = Logged,
         history' = history, conversation' = [conversation EXCEPT ![o] = @ \o more]
  PROVE  /\ \A x \in Objects : CoveredObject(x)'
         /\ \A d \in Callers : job[d].pc = "persist" =>
              Extends(conversation'[job[d].object], job[d].messages)
<1>1. /\ conversation \in [Objects -> Seq(Message)] /\ history \in [Objects -> Seq(Message)]
      /\ \A d \in Callers : job[d].messages \in Seq(Message)
      /\ \A d \in Callers : job[d].pc = "persist" => job[d].object \in Objects
  BY LocalTypes DEF Typed, TypeOK, Busy
<1>2. \A x \in Objects : /\ Len(conversation[x]) \in Nat /\ Len(conversation'[x]) \in Nat
                         /\ Len(conversation[x]) <= Len(conversation'[x])
                         /\ \A i \in 1 .. Len(conversation[x]) :
                              conversation'[x][i] = conversation[x][i]
  <2> SUFFICES ASSUME NEW x \in Objects
               PROVE  /\ Len(conversation[x]) \in Nat /\ Len(conversation'[x]) \in Nat
                      /\ Len(conversation[x]) <= Len(conversation'[x])
                      /\ \A i \in 1 .. Len(conversation[x]) :
                           conversation'[x][i] = conversation[x][i]
    OBVIOUS
  <2>1. conversation[x] \in Seq(Message) /\ Len(conversation[x]) \in Nat /\ Len(more) \in Nat
    BY <1>1, LenProperties
  <2>2. CASE x = o
    <3>1. conversation'[x] = conversation[x] \o more
      BY <1>1, <2>2
    <3> QED
      BY <2>1, <3>1, ConcatProperties
  <2>3. CASE x # o
    BY <1>1, <2>1, <2>3
  <2> QED
    BY <2>2, <2>3
<1>3. ASSUME NEW x \in Objects
      PROVE  CoveredObject(x)'
  <2>1. Len(history[x]) \in Nat /\ CoveredObject(x)
    BY <1>1, LenProperties DEF Covered
  <2> QED
    BY <1>2, <2>1 DEF CoveredObject
<1>4. ASSUME NEW d \in Callers, job[d].pc = "persist"
      PROVE  Extends(conversation'[job[d].object], job[d].messages)
  <2>1. /\ job[d].object \in Objects /\ Len(job[d].messages) \in Nat
        /\ Extends(conversation[job[d].object], job[d].messages)
    BY <1>1, <1>4, LenProperties DEF Covered, CoveredCall
  <2> QED
    BY <1>2, <2>1 DEF Extends
<1> QED
  BY <1>3, <1>4

\* After a run, what is to be persisted is what its object's history has not got.
LEMMA ReturnedCovered ==
  ASSUME Typed, Covered, NEW o \in Objects, NEW said \in Seq(Message),
         Len(conversation[o]) <= Len(said),
         \A i \in 1 .. Len(conversation[o]) : said[i] = conversation[o][i]
  PROVE  ToSet(said) \subseteq Logged \cup ToSet(Slice(said, Len(history[o])))
<1> DEFINE skipped == Len(history[o])
           todo == Slice(said, skipped)
<1>1. /\ conversation[o] \in Seq(Message) /\ Len(conversation[o]) \in Nat
      /\ skipped \in Nat /\ Len(said) \in Nat /\ CoveredObject(o)
  BY LenProperties DEF Typed, TypeOK, Covered
<1>2. ToSet(said) = {said[i] : i \in 1 .. Len(said)}
  BY ElementsOf
<1>3. ASSUME NEW i \in 1 .. Len(said)
      PROVE  said[i] \in Logged \cup ToSet(todo)
  <2>1. CASE i <= skipped
    <3>1. i \in 1 .. Len(history[o]) /\ i \in 1 .. Len(conversation[o])
      BY <1>1, <2>1 DEF CoveredObject
    <3> QED
      BY <1>1, <3>1 DEF CoveredObject
  <2>2. CASE skipped < i
    <3> HIDE DEF skipped
    <3> QED
      BY <1>1, <2>2, SliceHas
  <2> QED
    BY <1>1, <2>1, <2>2
<1> QED
  BY <1>2, <1>3

\* A step of a call keeps everything covered.
LEMMA CallCovered ==
  ASSUME Typed, Covered, Awaited, NEW c \in Callers,
         \/ Open(c) \/ Load(c) \/ \E o \in Objects : Attach(c, o)
         \/ Ask(c) \/ RunReturns(c) \/ RunThrows(c)
         \/ Persist(c) \/ PersistThrows(c) \/ AskReturns(c)
         \/ \E k \in Keeps : Compact(c, k)
         \/ Rewrite(c) \/ Swap(c) \/ Refresh(c)
  PROVE  Covered'
<1> DEFINE j == job[c]
<1>0. /\ j.entries \in Seq(Entry) /\ j.keep \in SUBSET Nat
      /\ j.messages \in Seq(Message) /\ j.todo \in Seq(Message)
      /\ j.pc \in Busy => j.object \in made /\ j.object \in Objects
      /\ log \in Seq(Entry) /\ made \subseteq Objects /\ current \in made \cup {None}
      /\ conversation \in [Objects -> Seq(Message)] /\ history \in [Objects -> Seq(Message)]
      /\ j \in Locals(made)
  BY LocalTypes
<1>a. job \in [Callers -> Locals(made)] /\ CoveredCall(c) /\ completed \subseteq Logged
      /\ \A d \in Callers : job[d].pc = "persist" =>
           job[d].object \in made /\ Extends(conversation[job[d].object], job[d].messages)
  BY DEF Typed, TypeOK, Locals, Busy, Covered, CoveredCall
<1>b. \A locals : Set(c, locals) => job'[c] = locals
  BY <1>a DEF Set
<1>c. Done(c) => job'[c].pc = "idle" /\ Set(c, [Idle EXCEPT !.object = j.object])
  BY <1>b DEF Done, Idle
<1>d. /\ log' = log /\ dropped' = dropped => Logged' = Logged
      /\ MessagesOf(log) = MessagesOf(log)
  BY DEF Logged, MessagesOf, Derive
<1>e. job'[c].pc \in {"idle", "load", "run"} => CoveredCall(c)'
  BY DEF CoveredCall
<1> HIDE DEF j
<1>1. CASE Open(c)
  <2>1. Logged' = Logged /\ history' = history /\ conversation' = conversation
        /\ completed' = completed
    BY <1>1, <1>d DEF Open, session
  <2>2. PICK locals : Set(c, locals) /\ locals.pc \in {"idle", "load"}
    BY <1>1 DEF Open, Idle
  <2>3. CoveredCall(c)'
    BY <1>b, <1>e, <2>2
  <2> QED
    BY <1>a, <2>1, <2>2, <2>3, UntouchedCovered, SetCovered
<1>2. CASE Load(c)
  <2> DEFINE locals == [j EXCEPT !.pc = "attach", !.entries = log]
  <2>1. Logged' = Logged /\ history' = history /\ conversation' = conversation
        /\ completed' = completed /\ log' = log
    BY <1>2, <1>d DEF Load, session
  <2>2. Set(c, locals) /\ locals.pc = "attach" /\ locals.entries = log
    BY <1>0, <1>2 DEF Load, Locals, j
  <2> HIDE DEF locals
  <2>3. job'[c] = locals
    BY <1>b, <2>2
  <2>4. MessagesOf(job'[c].entries) \subseteq Logged'
    BY <2>1, <2>2, <2>3 DEF Logged
  <2>5. CoveredCall(c)'
    BY <2>2, <2>3, <2>4 DEF CoveredCall
  <2> QED
    BY <1>a, <2>1, <2>2, <2>5, UntouchedCovered, SetCovered
<1>3. ASSUME NEW o \in Objects, Attach(c, o)
      PROVE  Covered'
  <2>1. Logged' = Logged /\ completed' = completed /\ j.pc = "attach" /\ o \notin made
    BY <1>3, <1>d DEF Attach, At, j
  <2>2. MessagesOf(j.entries) \subseteq Logged'
    BY <1>a, <2>1 DEF CoveredCall, j
  <2>3. /\ history'[o] = Derive(j.entries) /\ conversation'[o] = WithSystemPrompt(Derive(j.entries))
        /\ \A x \in Objects : x # o => history'[x] = history[x] /\ conversation'[x] = conversation[x]
    BY <1>0, <1>3 DEF Attach, j
  <2>4. CoveredObject(o)'
    BY <1>0, <2>2, <2>3, DerivedCovered
  <2>5. \A x \in Objects : CoveredObject(x)'
    BY <2>1, <2>3, <2>4, UntouchedCovered
  <2>6. \A d \in Callers : job[d].pc = "persist" =>
          Extends(conversation'[job[d].object], job[d].messages)
    BY <1>0, <1>a, <2>1, <2>3
  <2> DEFINE locals == [Idle EXCEPT !.object = o]
  <2>7. Set(c, locals) /\ locals.pc = "idle"
    BY <1>3 DEF Attach, Idle
  <2> HIDE DEF locals
  <2>8. CoveredCall(c)'
    BY <1>b, <1>e, <2>7
  <2> QED
    BY <1>a, <2>1, <2>5, <2>6, <2>7, <2>8, SetCovered
<1>4. CASE Ask(c)
  <2>1. Logged' = Logged /\ history' = history /\ conversation' = conversation
        /\ completed' = completed
    BY <1>4, <1>d DEF Ask
  <2> DEFINE locals == [j EXCEPT !.pc = "run", !.messages = << [tag |-> "prompt", n |-> count'.asks] >>]
  <2>2. Set(c, locals) /\ locals.pc = "run"
    BY <1>0, <1>4 DEF Ask, Locals, j
  <2> HIDE DEF locals
  <2>3. CoveredCall(c)'
    BY <1>b, <1>e, <2>2
  <2> QED
    BY <1>a, <2>1, <2>2, <2>3, UntouchedCovered, SetCovered
<1>5. CASE RunReturns(c)
  <2> DEFINE o == j.object
             said == Append(Said(c), Reply(c))
             todo == Slice(said, Len(history[o]))
             locals == [j EXCEPT !.pc = "persist", !.messages = said, !.todo = todo]
  <2>1. j.pc = "run" /\ Settle(c, said) /\ Set(c, locals) /\ Reply(c) \in Message
        /\ said \in Seq(Message) /\ Said(c) \in Seq(Message)
    BY <1>5, SaidType DEF RunReturns, Settle, At, j
  <2>2. o \in Objects
    BY <1>0, <2>1 DEF Busy
  <2>3. conversation[o] \in Seq(Message) /\ Said(c) = conversation[o] \o j.messages
    BY <1>0, <2>2 DEF Said, j
  <2>4. said = conversation[o] \o (j.messages \o << Reply(c) >>)
        /\ j.messages \o << Reply(c) >> \in Seq(Message)
        /\ Len(conversation[o]) <= Len(said)
        /\ \A i \in 1 .. Len(conversation[o]) : said[i] = conversation[o][i]
    <3> DEFINE s == conversation[o]
               t == j.messages
               x == Reply(c)
    <3>1. s \in Seq(Message) /\ t \in Seq(Message) /\ x \in Message /\ said = Append(s \o t, x)
      BY <1>0, <2>1, <2>3
    <3> HIDE DEF s, t, x, said
    <3>2. /\ Append(s \o t, x) = s \o (t \o << x >>) /\ t \o << x >> \in Seq(Message)
          /\ Len(s) <= Len(Append(s \o t, x))
          /\ \A i \in 1 .. Len(s) : Append(s \o t, x)[i] = s[i]
      BY <3>1, ConcatAppend
    <3> QED
      BY <3>1, <3>2 DEF s, t, x
  <2>5. Logged' = Logged /\ history' = history /\ completed' = completed
    BY <2>1, <1>d DEF Settle
  <2>6. conversation' = [conversation EXCEPT ![o] = said]
    BY <2>1 DEF Settle, j
  <2>7. conversation' = [conversation EXCEPT ![o] = @ \o (j.messages \o << Reply(c) >>)]
    BY <1>0, <2>4, <2>6
  <2>8. /\ \A x \in Objects : CoveredObject(x)'
        /\ \A d \in Callers : job[d].pc = "persist" =>
             Extends(conversation'[job[d].object], job[d].messages)
    <3> HIDE DEF o
    <3> QED
      BY <2>2, <2>4, <2>5, <2>7, GrowsCovered
  <2>9. ToSet(said) \subseteq Logged \cup ToSet(todo)
    <3> HIDE DEF o, said
    <3> QED
      BY <2>1, <2>2, <2>4, ReturnedCovered
  <2>10. locals.pc = "persist" /\ locals.messages = said /\ locals.todo = todo /\ locals.object = o
    BY <1>0 DEF Locals
  <2>11. conversation'[o] = said /\ Len(said) \in Nat
    BY <1>0, <2>1, <2>2, <2>6, LenProperties
  <2>12. job'[c] = locals
    BY <1>b, <2>1
  <2> HIDE DEF locals, todo, said, o
  <2>13. CoveredCall(c)'
    BY <2>5, <2>9, <2>10, <2>11, <2>12 DEF CoveredCall, Extends
  <2> QED
    BY <1>a, <2>1, <2>5, <2>8, <2>13, SetCovered
<1>6. CASE RunThrows(c)
  <2> DEFINE o == j.object
  <2>1. /\ j.pc = "run" /\ Reply(c) \in Message /\ Done(c)
        /\ \/ Settle(c, Said(c))
           \/ Settle(c, Append(Said(c), Reply(c)))
    <3>1. At(c, "run")
      BY <1>6 DEF RunThrows, Settle
    <3> QED
      BY <1>6, <3>1, SaidType DEF RunThrows, At, j
  <2>2. o \in Objects
    BY <1>0, <2>1 DEF Busy
  <2>3. conversation[o] \in Seq(Message) /\ Said(c) = conversation[o] \o j.messages
    BY <1>0, <2>2 DEF Said, j
  <2>4. PICK more \in Seq(Message) : conversation' = [conversation EXCEPT ![o] = @ \o more]
    <3>1. CASE Settle(c, Said(c))
      <4>1. conversation' = [conversation EXCEPT ![o] = conversation[o] \o j.messages]
        BY <2>3, <3>1 DEF Settle, j
      <4> QED
        BY <1>0, <4>1
    <3>2. CASE Settle(c, Append(Said(c), Reply(c)))
      <4> DEFINE s == conversation[o]
                 t == j.messages
                 x == Reply(c)
      <4>1. conversation' = [conversation EXCEPT ![o] = Append(s \o t, x)]
        BY <2>3, <3>2 DEF Settle, j
      <4>2. s \in Seq(Message) /\ t \in Seq(Message) /\ x \in Message
        BY <1>0, <2>1, <2>3
      <4> HIDE DEF s, t, x
      <4>3. Append(s \o t, x) = s \o (t \o << x >>) /\ t \o << x >> \in Seq(Message)
        BY <4>2, ConcatAppend
      <4>4. conversation' = [conversation EXCEPT ![o] = conversation[o] \o (t \o << x >>)]
        BY <4>1, <4>3 DEF s
      <4> QED
        BY <4>3, <4>4
    <3> QED
      BY <2>1, <3>1, <3>2
  <2>5. Logged' = Logged /\ history' = history /\ completed' = completed
    BY <2>1, <1>d DEF Settle
  <2>6. /\ \A x \in Objects : CoveredObject(x)'
        /\ \A d \in Callers : job[d].pc = "persist" =>
             Extends(conversation'[job[d].object], job[d].messages)
    <3> HIDE DEF o
    <3> QED
      BY <2>2, <2>4, <2>5, GrowsCovered
  <2> QED
    BY <1>a, <1>c, <1>e, <2>1, <2>5, <2>6, SetCovered
<1>7. CASE Persist(c)
  <2> DEFINE locals == [j EXCEPT !.todo = Tail(j.todo)]
  <2>1. j.todo # << >> /\ j.pc = "persist" /\ Set(c, locals)
    BY <1>7 DEF Persist, At, j
  <2>2. Head(j.todo) \in Message /\ ToSet(j.todo) = {Head(j.todo)} \cup ToSet(Tail(j.todo))
    BY <1>0, <2>1, ElementsOfTail
  <2>3. Logged' = Logged \cup {Head(j.todo)}
    BY <1>7, <2>2, AppendLogs DEF Persist, j
  <2>4. history' = history /\ conversation' = conversation /\ completed' = completed
    BY <1>7 DEF Persist, session
  <2>5. /\ locals.pc = "persist" /\ locals.messages = j.messages /\ locals.todo = Tail(j.todo)
        /\ locals.object = j.object /\ job'[c] = locals
    BY <1>0, <1>b, <2>1 DEF Locals
  <2> HIDE DEF locals
  <2>6. /\ ToSet(j.messages) \subseteq Logged \cup ToSet(j.todo)
        /\ Extends(conversation[j.object], j.messages)
    BY <1>a, <2>1 DEF CoveredCall, j
  <2>7. CoveredCall(c)'
    <3>1. ToSet(j.messages) \subseteq Logged' \cup ToSet(Tail(j.todo))
      BY <2>2, <2>3, <2>6
    <3> QED
      BY <2>4, <2>5, <2>6, <3>1 DEF CoveredCall
  <2> QED
    BY <1>a, <2>1, <2>3, <2>4, <2>7, UntouchedCovered, SetCovered
<1>8. CASE PersistThrows(c)
  <2>1. j.todo # << >> /\ Done(c)
    BY <1>8 DEF PersistThrows, j
  <2>2. Head(j.todo) \in Message
    BY <1>0, <2>1, HeadTailProperties
  <2>3. Logged \subseteq Logged'
    <3>1. CASE log' = log
      BY <1>8, <3>1, <1>d DEF PersistThrows
    <3>2. CASE log' = Append(log, NewEntry(Head(j.todo)))
      BY <1>8, <2>2, <3>2, AppendLogs DEF PersistThrows
    <3> QED
      BY <1>8, <3>1, <3>2 DEF PersistThrows, j
  <2>4. history' = history /\ conversation' = conversation /\ completed' = completed
    BY <1>8 DEF PersistThrows, session
  <2> QED
    BY <1>a, <1>c, <1>e, <2>1, <2>3, <2>4, UntouchedCovered, SetCovered
<1>9. CASE AskReturns(c)
  <2>0. PICK o \in Objects : o = j.object
    BY <1>0, <1>9 DEF AskReturns, At, Busy, j
  <2>1. /\ j.pc = "persist" /\ j.todo = << >> /\ Done(c)
        /\ history' = [history EXCEPT ![o] = j.messages] /\ conversation' = conversation
        /\ completed' = completed \cup ToSet(j.messages) /\ Logged' = Logged
    BY <1>9, <1>d, <2>0 DEF AskReturns, At, j
  <2>2. o \in Objects /\ Extends(conversation[o], j.messages)
        /\ ToSet(j.messages) \subseteq Logged \cup ToSet(j.todo)
    BY <1>0, <1>a, <2>0, <2>1 DEF CoveredCall, Busy, j
  <2>3. ToSet(j.messages) \subseteq Logged
    BY <2>1, <2>2 DEF ToSet
  <2>4. ToSet(j.messages) = {j.messages[i] : i \in 1 .. Len(j.messages)}
    BY <1>0, ElementsOf
  <2>5. history'[o] = j.messages /\ \A x \in Objects : x # o => history'[x] = history[x]
    BY <1>0, <2>1, <2>2
  <2>6. CoveredObject(o)'
    <3>1. \A i \in 1 .. Len(j.messages) : conversation[o][i] \in Logged
      BY <2>2, <2>3, <2>4 DEF Extends
    <3> QED
      BY <2>1, <2>2, <2>3, <2>5, <3>1 DEF CoveredObject, Extends
  <2>7. \A x \in Objects : CoveredObject(x)'
    BY <2>1, <2>5, <2>6, UntouchedCovered
  <2> QED
    BY <1>a, <1>c, <1>e, <2>1, <2>3, <2>7, SetCovered
<1>10. ASSUME NEW k \in Keeps, Compact(c, k)
       PROVE  Covered'
  <2>1. Logged' = Logged /\ history' = history /\ conversation' = conversation
        /\ completed' = completed /\ Compacting
    BY <1>10, <1>d DEF Compact, session
  <2> DEFINE locals == [j EXCEPT !.pc = "rewrite", !.keep = Ids(SliceLast(log, k))]
  <2>2. Set(c, locals) /\ locals.pc = "rewrite"
    BY <1>0, <1>10 DEF Compact, Locals, j
  <2> HIDE DEF locals
  <2>3. CoveredCall(c)'
    BY <1>b, <2>1, <2>2 DEF CoveredCall
  <2> QED
    BY <1>a, <2>1, <2>2, <2>3, UntouchedCovered, SetCovered
<1>11. CASE Rewrite(c)
  <2> DEFINE locals == [j EXCEPT !.pc = "swap", !.entries = log]
  <2>1. Logged' = Logged /\ history' = history /\ conversation' = conversation
        /\ completed' = completed /\ log' = log /\ Compacting
    BY <1>11, <1>a, <1>d DEF Rewrite, session, CoveredCall, At
  <2>2. Set(c, locals) /\ locals.pc = "swap" /\ locals.entries = log
    BY <1>0, <1>11 DEF Rewrite, Locals, j
  <2> HIDE DEF locals
  <2>3. CoveredCall(c)'
    BY <1>b, <2>1, <2>2 DEF CoveredCall
  <2> QED
    BY <1>a, <2>1, <2>2, <2>3, UntouchedCovered, SetCovered
<1>12. CASE Swap(c)
  <2> DEFINE locals == [j EXCEPT !.pc = "refresh"]
  <2>1. /\ log' = Rewritten(log, j.keep) /\ Drop(log, j.keep) /\ Compacting
        /\ history' = history /\ conversation' = conversation /\ completed' = completed
    BY <1>12, <1>a DEF Swap, session, CoveredCall, At, j
  <2>2. Logged \subseteq Logged'
    BY <1>0, <2>1, RewriteLogs
  <2>3. Set(c, locals) /\ locals.pc = "refresh"
    BY <1>0, <1>12 DEF Swap, Goto, Locals, j
  <2> HIDE DEF locals
  <2>4. CoveredCall(c)'
    BY <1>b, <2>1, <2>3 DEF CoveredCall
  <2> QED
    BY <1>a, <2>1, <2>2, <2>3, <2>4, UntouchedCovered, SetCovered
<1>13. CASE Refresh(c)
  <2>0. PICK o \in Objects : o = j.object
    BY <1>0, <1>13 DEF Refresh, At, Busy, j
  <2>1. j.pc = "refresh" /\ Compacting /\ Done(c) /\ log' = log /\ Logged' = Logged /\ o \in Objects
        /\ completed' = completed
    BY <1>0, <1>13, <1>a, <1>d DEF Refresh, CoveredCall, At, Busy, j
  <2>2. \A d \in Callers : d = c
    BY <2>1 DEF Awaited
  <2>3. \A x \in Objects : CoveredObject(x)'
    <3>1. CASE running[o]
      BY <1>13, <2>0, <2>1, <3>1, UntouchedCovered DEF Refresh, j
    <3>2. CASE ~ running[o]
      <4>1. /\ history'[o] = Derive(log) /\ conversation'[o] = WithSystemPrompt(Derive(log))
            /\ \A x \in Objects : x # o => history'[x] = history[x] /\ conversation'[x] = conversation[x]
        BY <1>0, <1>13, <2>0, <2>1, <3>2 DEF Refresh, j
      <4>2. MessagesOf(log) \subseteq Logged'
        BY <2>1 DEF Logged
      <4>3. CoveredObject(o)'
        BY <1>0, <2>1, <4>1, <4>2, DerivedCovered
      <4> QED
        BY <2>1, <4>1, <4>3, UntouchedCovered
    <3> QED
      BY <3>1, <3>2
  <2> QED
    BY <1>a, <1>c, <1>e, <2>1, <2>2, <2>3, SetCovered
<1> QED
  BY <1>1, <1>2, <1>3, <1>4, <1>5, <1>6, <1>7, <1>8, <1>9, <1>10, <1>11, <1>12, <1>13

\* So does a compaction between two commands.
LEMMA BehindCovered ==
  ASSUME Typed, Covered, CompactBehind
  PROVE  Covered'
<1>1. log' = Rewritten(log, {}) /\ Drop(log, {}) /\ {} \in SUBSET Nat
  BY DEF CompactBehind
<1>2. Logged \subseteq Logged'
  BY <1>1, RewriteLogs
<1>3. history' = history /\ conversation' = conversation /\ completed' = completed /\ job' = job
  BY DEF CompactBehind, session
<1>4. \A c \in Callers : CoveredCall(c)'
  BY <1>3 DEF CompactBehind, At, CoveredCall
<1> QED
  BY <1>2, <1>3, <1>4, UntouchedCovered DEF Covered

\* And a process that starts with nothing.
LEMMA BlankCovered ==
  ASSUME completed' \subseteq Logged', history' = [o \in Objects |-> << >>],
         conversation' = [o \in Objects |-> << >>], job' = [c \in Callers |-> Idle]
  PROVE  Covered'
<1>1. \A o \in Objects : CoveredObject(o)'
  BY DEF CoveredObject, ToSet
<1>2. \A c \in Callers : CoveredCall(c)'
  BY DEF CoveredCall, Idle
<1> QED
  BY <1>1, <1>2 DEF Covered

LEMMA InitCovered == Init => Covered
<1> SUFFICES ASSUME Init PROVE Covered
  OBVIOUS
<1>1. \A o \in Objects : CoveredObject(o)
  BY DEF Init, CoveredObject, ToSet
<1>2. \A c \in Callers : CoveredCall(c)
  BY DEF Init, CoveredCall, Idle
<1> QED
  BY <1>1, <1>2 DEF Init, Covered

LEMMA StepCovered ==
  ASSUME Awaited
  PROVE  Typed /\ Covered /\ [Next]_vars => Covered'
<1> SUFFICES ASSUME Typed, Covered, [Next]_vars PROVE Covered'
  OBVIOUS
<1>1. CASE Restart
  <2>1. Logged' = Logged
    BY <1>1 DEF Restart, Logged, MessagesOf, Derive
  <2> QED
    BY <1>1, <2>1, BlankCovered DEF Restart, Covered
<1>2. CASE Next /\ ~ Restart
  BY <1>2, CallCovered, BehindCovered DEF Next
<1>3. CASE UNCHANGED vars
  <2>1. Logged' = Logged
    BY <1>3 DEF vars, Logged, MessagesOf, Derive
  <2> QED
    BY <1>3, <2>1 DEF vars, session, Covered, CoveredObject, CoveredCall
<1> QED
  BY <1>1, <1>2, <1>3

\* Whatever calls overlap, objects replace each other, runs and appends fail and
\* processes end: what an ask that returned has shown is in the log, or was summarized
\* (runtime.ts 123-128, 177-196).
THEOREM SuccessAlwaysLogged ==
  ASSUME Awaited
  PROVE  Spec => []SuccessLogged
<1>1. Covered => SuccessLogged
  BY DEF Covered, Logged, SuccessLogged
<1> QED
  BY <1>1, InitTyped, StepTyped, InitCovered, StepCovered, PTL DEF Spec

\* And so is what persistMessages() takes for logged (runtime.ts 104, 125-126).
THEOREM SkippedAlwaysLogged ==
  ASSUME Awaited
  PROVE  Spec => []SkippedLogged
<1>1. Typed /\ Covered => SkippedLogged
  BY DEF Typed, TypeOK, Covered, CoveredObject, Logged, SkippedLogged
<1> QED
  BY <1>1, InitTyped, StepTyped, InitCovered, StepCovered, PTL DEF Spec

-------------------------------------------------------------------------------
(* Calls that are awaited one after another *)

\* One caller, who compacts through the session; appends do not fail and the runtime has
\* no prompt of its own.
Serial ==
  /\ Compacting /\ ~ SystemPrompt /\ MaxStoreFailures = 0
  /\ \E c \in Callers : Callers = {c}

Caller == CHOOSE c \in Callers : Callers = {c}
Call == job[Caller]

\* What is said next is none of the messages there are: asks and rewrites are numbered.
Asking == IF Call.pc = "run" THEN 1 ELSE 0
Rewriting == IF Call.pc \in {"rewrite", "swap"} THEN 1 ELSE 0
Dated(m) ==
  /\ m.tag # "system"
  /\ m.tag = "summary" => m.n + Rewriting <= count.rewrites
  /\ m.tag \in {"prompt", "reply"} => m.n + Asking <= count.asks

Distinct(s) == \A i, k \in 1 .. Len(s) : s[i] = s[k] => i = k

LogInOrder ==
  /\ \A m \in MessagesOf(log) \cup completed : Dated(m)
  /\ Distinct(Derive(log))

\* There is one object at most, and the caller has no other.
OneObject ==
  /\ made = {current} \ {None}
  /\ Call.object # None => Call.object = current
  /\ Call.pc \in {"load", "attach"} => current = None
  /\ Call.pc \in {"attach", "swap"} => Call.entries = log
  /\ Call.pc = "run" => Call.messages = << [tag |-> "prompt", n |-> count.asks] >>
  /\ \A o \in Objects : running[o] => Call.pc = "run" /\ o = Call.object

\* When nothing is being persisted or refreshed, the history array is what the log
\* derives, and the conversation goes on from there with what failed runs said.
InStep(o) ==
  /\ \A m \in ToSet(conversation[o]) : Dated(m)
  /\ Distinct(conversation[o])
  /\ Call.pc \in {"idle", "run", "rewrite", "swap"} =>
       /\ history[o] = Derive(log)
       /\ Extends(conversation[o], Derive(log))
       /\ \A i \in Len(log) + 1 .. Len(conversation[o]) : conversation[o][i] \notin completed
  /\ Call.pc = "persist" =>
       Call.messages = conversation[o] /\ Call.messages = Derive(log) \o Call.todo

InOrder == LogInOrder /\ OneObject /\ \A o \in made : InStep(o)

LEMMA TheCaller ==
  ASSUME Serial
  PROVE  Caller \in Callers /\ \A c \in Callers : c = Caller
BY DEF Serial, Caller

\* A sequence that goes on from another is that one and what is sliced off it.
LEMMA ExtendsSlice ==
  ASSUME NEW S, NEW s \in Seq(S), NEW t \in Seq(S), Extends(t, s)
  PROVE  t = s \o Slice(t, Len(s))
<1> DEFINE rest == Slice(t, Len(s))
<1>1. Len(s) \in Nat /\ Len(t) \in Nat /\ Len(s) <= Len(t)
  BY LenProperties DEF Extends
<1>2. /\ rest \in Seq(S) /\ Len(rest) = IF Len(s) < Len(t) THEN Len(t) - Len(s) ELSE 0
      /\ \A k \in 1 .. Len(t) - Len(s) : rest[k] = t[Len(s) + k]
  BY <1>1, SliceProperties
<1> HIDE DEF rest
<1>3. /\ s \o rest \in Seq(S) /\ Len(s \o rest) = Len(s) + Len(rest)
      /\ \A i \in 1 .. Len(s) + Len(rest) :
           (s \o rest)[i] = IF i <= Len(s) THEN s[i] ELSE rest[i - Len(s)]
  BY <1>2, ConcatProperties
<1>4. Len(s \o rest) = Len(t)
  BY <1>1, <1>2, <1>3
<1>5. ASSUME NEW i \in 1 .. Len(t)
      PROVE  t[i] = (s \o rest)[i]
  <2>1. CASE i <= Len(s)
    BY <1>1, <1>3, <1>4, <2>1 DEF Extends
  <2>2. CASE Len(s) < i
    <3>1. i - Len(s) \in 1 .. Len(t) - Len(s)
      BY <1>1, <2>2
    <3>2. rest[i - Len(s)] = t[Len(s) + (i - Len(s))] /\ Len(s) + (i - Len(s)) = i
      BY <1>1, <1>2, <3>1
    <3> QED
      BY <1>1, <1>3, <1>4, <2>2, <3>2
  <2>3. i <= Len(s) \/ Len(s) < i
    BY <1>1
  <2> QED
    BY <2>1, <2>2, <2>3
<1> QED
  BY <1>3, <1>4, <1>5, SeqEqual DEF rest

\* What a sequence without repetitions starts with has none either.
LEMMA DistinctPrefix ==
  ASSUME NEW S, NEW s \in Seq(S), NEW t \in Seq(S), Distinct(s \o t)
  PROVE  Distinct(s)
<1>1. /\ Len(s \o t) = Len(s) + Len(t) /\ Len(s) \in Nat /\ Len(t) \in Nat
      /\ \A i \in 1 .. Len(s) + Len(t) :
           (s \o t)[i] = IF i <= Len(s) THEN s[i] ELSE t[i - Len(s)]
  BY ConcatProperties, LenProperties
<1>2. \A i \in 1 .. Len(s) : i \in 1 .. Len(s \o t) /\ (s \o t)[i] = s[i]
  BY <1>1
<1> QED
  BY <1>2 DEF Distinct

\* Nor has one that goes on with something new.
LEMMA DistinctAppend ==
  ASSUME NEW S, NEW s \in Seq(S), NEW x \in S, Distinct(s), x \notin ToSet(s)
  PROVE  Distinct(Append(s, x))
<1>1. /\ Len(s) \in Nat /\ Len(Append(s, x)) = Len(s) + 1
      /\ \A i \in 1 .. Len(s) : Append(s, x)[i] = s[i]
      /\ Append(s, x)[Len(s) + 1] = x
  BY LenProperties, AppendProperties
<1>2. \A i \in 1 .. Len(s) : s[i] # x
  BY ElementsOf
<1>3. \A i \in 1 .. Len(s) + 1 : i \in 1 .. Len(s) \/ i = Len(s) + 1
  BY <1>1
<1> QED
  BY <1>1, <1>2, <1>3 DEF Distinct

\* A log that gains a message derives one more.
LEMMA DeriveAppend ==
  ASSUME Typed, NEW m \in Message
  PROVE  Derive(Append(log, NewEntry(m))) = Append(Derive(log), m)
<1> DEFINE longer == Append(log, NewEntry(m))
<1>1. log \in Seq(Entry) /\ NewEntry(m) \in Entry /\ NewEntry(m).message = m
  BY NewEntryType DEF Typed, TypeOK
<1>2. /\ longer \in Seq(Entry) /\ Len(log) \in Nat /\ Len(longer) = Len(log) + 1
      /\ \A i \in 1 .. Len(log) : longer[i] = log[i]
      /\ longer[Len(log) + 1] = NewEntry(m)
  BY <1>1, AppendProperties, LenProperties
<1> HIDE DEF longer
<1>3. /\ Derive(longer) \in Seq(Message) /\ Len(Derive(longer)) = Len(log) + 1
      /\ \A i \in 1 .. Len(log) + 1 : Derive(longer)[i] = longer[i].message
  BY <1>2, DeriveProperties
<1>4. /\ Derive(log) \in Seq(Message) /\ Len(Derive(log)) = Len(log)
      /\ \A i \in 1 .. Len(log) : Derive(log)[i] = log[i].message
  BY <1>1, DeriveProperties
<1>5. /\ Append(Derive(log), m) \in Seq(Message) /\ Len(Append(Derive(log), m)) = Len(log) + 1
      /\ \A i \in 1 .. Len(log) : Append(Derive(log), m)[i] = Derive(log)[i]
      /\ Append(Derive(log), m)[Len(log) + 1] = m
  BY <1>4, AppendProperties
<1>6. \A i \in 1 .. Len(log) + 1 : Derive(longer)[i] = Append(Derive(log), m)[i]
  <2>1. \A i \in 1 .. Len(log) + 1 : i \in 1 .. Len(log) \/ i = Len(log) + 1
    BY <1>2
  <2>2. Len(log) + 1 \in 1 .. Len(log) + 1 /\ \A i \in 1 .. Len(log) : i \in 1 .. Len(log) + 1
    BY <1>2
  <2> QED
    BY <1>1, <1>2, <1>3, <1>4, <1>5, <2>1, <2>2
<1> QED
  BY <1>3, <1>5, <1>6, SeqEqual DEF longer

\* A rewritten log says nothing twice if the log did not and the summary is new.
LEMMA RewrittenDistinct ==
  ASSUME Typed, NEW keep \in SUBSET Nat, Distinct(Derive(log)), Summary \notin MessagesOf(log)
  PROVE  Distinct(Derive(Rewritten(log, keep)))
<1> DEFINE at == Kept(log, keep)
           kept == ElementsAt(log, at)
           size == Cardinality(at)
           new == Rewritten(log, keep)
<1>1. /\ log \in Seq(Entry) /\ at \in SUBSET DOMAIN log /\ DOMAIN log = 1 .. Len(log)
      /\ Summary \in Message /\ NewEntry(Summary) \in Entry /\ NewEntry(Summary).message = Summary
      /\ Len(log) \in Nat
  BY RewrittenProperties, NewEntryType, LenProperties DEF Typed, TypeOK, Kept
<1>2. /\ size \in Nat /\ kept \in Seq(Entry) /\ Len(kept) = size
      /\ \A k \in 1 .. size : Nth(at, k) \in at /\ kept[k] = log[Nth(at, k)]
      /\ \A k, l \in 1 .. size : k < l => Nth(at, k) < Nth(at, l)
  BY <1>1, ElementsAtProperties
<1>3. new = << NewEntry(Summary) >> \o kept /\ << NewEntry(Summary) >> \in Seq(Entry)
  BY <1>1 DEF Rewritten
<1> HIDE DEF at, kept, size, new
<1>4. /\ new \in Seq(Entry) /\ Len(new) = 1 + size /\ new[1] = NewEntry(Summary)
      /\ \A k \in 2 .. 1 + size : new[k] = kept[k - 1]
  BY <1>2, <1>3, ConcatProperties
<1>5. /\ Derive(new) \in Seq(Message) /\ Len(Derive(new)) = 1 + size
      /\ \A k \in 1 .. 1 + size : Derive(new)[k] = new[k].message
  BY <1>4, DeriveProperties
<1>6. /\ Len(Derive(log)) = Len(log) /\ \A i \in 1 .. Len(log) : Derive(log)[i] = log[i].message
      /\ MessagesOf(log) = {log[i].message : i \in 1 .. Len(log)}
  BY <1>1, DeriveProperties
<1>7. Derive(new)[1] = Summary
  BY <1>1, <1>2, <1>4, <1>5
<1>8. ASSUME NEW k \in 2 .. 1 + size
      PROVE  /\ Nth(at, k - 1) \in 1 .. Len(log) /\ k - 1 \in 1 .. size
             /\ Derive(new)[k] = Derive(log)[Nth(at, k - 1)]
  <2>1. k - 1 \in 1 .. size /\ k \in 1 .. 1 + size
    BY <1>2
  <2>2. Nth(at, k - 1) \in 1 .. Len(log) /\ kept[k - 1] = log[Nth(at, k - 1)]
    BY <1>1, <1>2, <2>1
  <2>3. Derive(new)[k] = kept[k - 1].message
    BY <1>4, <1>5, <2>1
  <2> QED
    BY <1>6, <2>1, <2>2, <2>3
<1>9. ASSUME NEW i \in 1 .. 1 + size, NEW k \in 1 .. 1 + size, i < k
      PROVE  Derive(new)[i] # Derive(new)[k]
  <2>1. k \in 2 .. 1 + size
    BY <1>2, <1>9
  <2>2. CASE i = 1
    BY <1>6, <1>7, <1>8, <2>1, <2>2
  <2>3. CASE i # 1
    <3>1. i \in 2 .. 1 + size /\ i - 1 < k - 1
      BY <1>2, <1>9, <2>3
    <3>2. Nth(at, i - 1) < Nth(at, k - 1)
      BY <1>2, <1>8, <2>1, <3>1
    <3>3. /\ Nth(at, i - 1) \in 1 .. Len(log) /\ Nth(at, k - 1) \in 1 .. Len(log)
          /\ Derive(new)[i] = Derive(log)[Nth(at, i - 1)]
          /\ Derive(new)[k] = Derive(log)[Nth(at, k - 1)]
      BY <1>8, <2>1, <3>1
    <3>4. Nth(at, i - 1) # Nth(at, k - 1)
      BY <1>1, <3>2, <3>3
    <3> QED
      BY <1>6, <3>3, <3>4 DEF Distinct
  <2> QED
    BY <2>2, <2>3
<1>10. \A i, k \in 1 .. 1 + size : i = k \/ i < k \/ k < i
  BY <1>2
<1> QED
  BY <1>5, <1>9, <1>10 DEF Distinct, new

\* No number is given back.
Onward ==
  /\ count.asks + Asking' <= count'.asks + Asking
  /\ count.rewrites + Rewriting' <= count'.rewrites + Rewriting

LEMMA DatedStill ==
  ASSUME Typed, Typed', Onward
  PROVE  \A m \in Message : Dated(m) => Dated(m)'
<1>1. /\ count.asks \in Nat /\ count.rewrites \in Nat /\ count'.asks \in Nat /\ count'.rewrites \in Nat
      /\ Asking \in Nat /\ Asking' \in Nat /\ Rewriting \in Nat /\ Rewriting' \in Nat
  BY DEF Typed, Counts, Asking, Rewriting
<1>2. \A m \in Message : m.n \in Nat
  BY DEF Message
<1> QED
  BY <1>1, <1>2 DEF Dated, Onward

\* A step that says nothing leaves the log in order.
LEMMA SilentLog ==
  ASSUME Typed, Typed', LogInOrder, Onward, log' = log, completed' = completed
  PROVE  LogInOrder'
<1>1. MessagesOf(log)' = MessagesOf(log) /\ Derive(log)' = Derive(log)
  BY DEF MessagesOf, Derive
<1>2. MessagesOf(log) \subseteq Message /\ completed \subseteq Message
  BY DeriveProperties DEF Typed, TypeOK
<1> QED
  BY <1>1, <1>2, DatedStill DEF LogInOrder

\* An object that a step leaves alone, in a call that goes on, stays in step.
LEMMA SilentObject ==
  ASSUME Typed, Typed', Onward, NEW o \in Objects, InStep(o), log' = log, completed' = completed,
         conversation'[o] = conversation[o], history'[o] = history[o],
         Call'.pc \in {"idle", "run", "rewrite", "swap"} => Call.pc \in {"idle", "run", "rewrite", "swap"},
         Call'.pc # "persist"
  PROVE  InStep(o)'
<1>1. Derive(log)' = Derive(log)
  BY DEF Derive
<1>2. conversation[o] \in Seq(Message)
  BY DEF Typed, TypeOK
<1>3. \A m \in ToSet(conversation[o]) : Dated(m)'
  BY <1>2, ElementsOf, DatedStill DEF InStep
<1> QED
  BY <1>1, <1>3 DEF InStep

\* What a run says is new.
LEMMA SaidNew ==
  ASSUME Typed, Typed', InOrder, Serial, Call.pc = "run", Call'.pc # "run", count' = count,
         Onward, NEW o \in made, o = Call.object
  PROVE  LET p == [tag |-> "prompt", n |-> count.asks]
             r == [tag |-> "reply", n |-> count.asks]
             s == conversation[o]
         IN  /\ Said(Caller) = s \o << p >> /\ Reply(Caller) = r
             /\ Said(Caller) = Append(s, p)
             /\ p \in Message /\ r \in Message
             /\ Distinct(Append(s, p)) /\ Distinct(Append(Append(s, p), r))
             /\ {p, r} \cap (completed \cup MessagesOf(log)) = {}
             /\ \A m \in ToSet(Append(Append(s, p), r)) : m \in Message /\ Dated(m)'
             /\ \A m \in ToSet(Append(s, p)) : m \in Message /\ Dated(m)'
<1>0. PICK p, r, s : /\ p = [tag |-> "prompt", n |-> count.asks]
                     /\ r = [tag |-> "reply", n |-> count.asks] /\ s = conversation[o]
  OBVIOUS
<1>1. /\ s \in Seq(Message) /\ count.asks \in Nat /\ Call.messages = << p >>
      /\ InStep(o) /\ Asking = 1 /\ Asking' = 0
  BY <1>0 DEF Typed, TypeOK, Counts, InOrder, OneObject, Asking
<1>2. p \in Message /\ r \in Message /\ p.tag = "prompt" /\ r.tag = "reply" /\ p # r
      /\ p.n = count.asks /\ r.n = count.asks
  BY <1>0, <1>1 DEF Message
<1>3. Said(Caller) = s \o << p >> /\ Reply(Caller) = r /\ s \o << p >> = Append(s, p)
  <2>1. Said(Caller) = s \o << p >>
    BY <1>0, <1>1 DEF Said, Call
  <2>2. Reply(Caller) = r
    BY <1>0, <1>1 DEF Reply, Call
  <2>3. s \o << p >> = Append(s, p)
    BY <1>1, <1>2, AppendIsConcat
  <2> QED
    BY <2>1, <2>2, <2>3
<1>4. ~ Dated(p) /\ ~ Dated(r) /\ Dated(p)' /\ Dated(r)'
  <2>1. count'.asks = count.asks
    OBVIOUS
  <2> QED
    BY <1>1, <1>2, <2>1 DEF Dated
<1>5. /\ p \notin ToSet(s) /\ r \notin ToSet(s) /\ Distinct(s)
      /\ {p, r} \cap (completed \cup MessagesOf(log)) = {}
      /\ \A m \in ToSet(s) : m \in Message /\ Dated(m)
  BY <1>0, <1>1, <1>4, ElementsOf DEF InOrder, LogInOrder, InStep
<1>6. Append(s, p) \in Seq(Message) /\ ToSet(Append(s, p)) = ToSet(s) \cup {p}
  BY <1>1, <1>2, AppendProperties, ElementsOfAppend
<1>7. ToSet(Append(Append(s, p), r)) = ToSet(s) \cup {p, r}
  <2>1. PICK t \in Seq(Message) : t = Append(s, p)
    BY <1>6
  <2>2. ToSet(Append(t, r)) = ToSet(t) \cup {r}
    BY <1>2, ElementsOfAppend
  <2> QED
    BY <1>6, <2>1, <2>2
<1>8. Distinct(Append(s, p))
  BY <1>1, <1>2, <1>5, DistinctAppend
<1>9. Distinct(Append(Append(s, p), r))
  BY <1>2, <1>5, <1>6, <1>8, DistinctAppend
<1>10. \A m \in ToSet(s) \cup {p, r} : m \in Message /\ Dated(m)'
  BY <1>2, <1>4, <1>5, DatedStill
<1> QED
  BY <1>0, <1>2, <1>3, <1>5, <1>6, <1>7, <1>8, <1>9, <1>10

\* What an append takes, and what it lacks.
LEMMA AppendParts ==
  ASSUME NEW S, NEW s \in Seq(S), NEW x \in S
  PROVE  /\ Append(s, x) \in Seq(S) /\ Len(Append(s, x)) = Len(s) + 1 /\ Len(s) \in Nat
         /\ \A i \in 1 .. Len(s) : Append(s, x)[i] = s[i]
         /\ Append(s, x)[Len(s) + 1] = x
         /\ \A t \in Seq(S) : Extends(s, t) => Extends(Append(s, x), t)
         /\ \A i \in 1 .. Len(s) + 1 : i \in 1 .. Len(s) \/ i = Len(s) + 1
<1>1. /\ Append(s, x) \in Seq(S) /\ Len(Append(s, x)) = Len(s) + 1 /\ Len(s) \in Nat
      /\ \A i \in 1 .. Len(s) : Append(s, x)[i] = s[i]
      /\ Append(s, x)[Len(s) + 1] = x
  BY AppendProperties, LenProperties
<1>2. \A t \in Seq(S) : Len(t) \in Nat
  BY LenProperties
<1>3. \A t \in Seq(S) : Extends(s, t) => Extends(Append(s, x), t)
  BY <1>1, <1>2 DEF Extends
<1> QED
  BY <1>1, <1>3

\* An object whose conversation gained one thing nobody was shown stays in step.
LEMMA TailStill ==
  ASSUME NEW s \in Seq(Message), NEW x \in Message, NEW n \in Nat, NEW shown, x \notin shown,
         \A i \in n + 1 .. Len(s) : s[i] \notin shown
  PROVE  \A i \in n + 1 .. Len(Append(s, x)) : Append(s, x)[i] \notin shown
<1>1. /\ Len(Append(s, x)) = Len(s) + 1 /\ Len(s) \in Nat
      /\ \A i \in 1 .. Len(s) : Append(s, x)[i] = s[i]
      /\ Append(s, x)[Len(s) + 1] = x
  BY AppendParts
<1>2. ASSUME NEW i \in n + 1 .. Len(s) + 1
      PROVE  Append(s, x)[i] \notin shown
  <2>1. CASE i = Len(s) + 1
    BY <1>1, <2>1
  <2>2. CASE i # Len(s) + 1
    <3>1. i \in 1 .. Len(s) /\ i \in n + 1 .. Len(s)
      BY <1>1, <2>2
    <3> QED
      BY <1>1, <3>1
  <2> QED
    BY <2>1, <2>2
<1> QED
  BY <1>1, <1>2

\* An object that has what the log derives is in step.
LEMMA DerivedInStep ==
  ASSUME Typed', LogInOrder', NEW o \in Objects, Call'.pc = "idle",
         conversation'[o] = Derive(log'), history'[o] = Derive(log')
  PROVE  InStep(o)'
<1>1. /\ log' \in Seq(Entry) /\ Derive(log') \in Seq(Message) /\ Len(Derive(log')) = Len(log')
      /\ MessagesOf(log') = ToSet(Derive(log'))
  BY DeriveProperties DEF Typed, TypeOK, MessagesOf
<1>2. Derive(log)' = Derive(log') /\ MessagesOf(log)' = MessagesOf(log')
  BY DEF Derive, MessagesOf
<1>3. Len(log') \in Nat
  BY <1>1, LenProperties
<1>4. Extends(conversation[o], Derive(log))'
  BY <1>2 DEF Extends
<1> QED
  BY <1>1, <1>2, <1>3, <1>4 DEF InStep, LogInOrder

\* A step of the caller keeps the order.
LEMMA CallInOrder ==
  ASSUME Serial, Typed, Typed', InOrder, NEW c \in Callers,
         \/ Open(c) \/ Load(c) \/ \E o \in Objects : Attach(c, o)
         \/ Ask(c) \/ RunReturns(c) \/ RunThrows(c)
         \/ Persist(c) \/ PersistThrows(c) \/ AskReturns(c)
         \/ \E k \in Keeps : Compact(c, k)
         \/ Rewrite(c) \/ Swap(c) \/ Refresh(c)
  PROVE  InOrder'
<1>0. /\ c = Caller /\ job[c] = Call /\ job'[c] = Call'
      /\ \A d \in Callers : d = c
  BY TheCaller DEF Call
<1>a. /\ Call.entries \in Seq(Entry) /\ Call.keep \in SUBSET Nat
      /\ Call.messages \in Seq(Message) /\ Call.todo \in Seq(Message)
      /\ Call.pc \in Busy => Call.object \in made /\ Call.object \in Objects
      /\ log \in Seq(Entry) /\ made \subseteq Objects /\ current \in made \cup {None}
      /\ conversation \in [Objects -> Seq(Message)] /\ history \in [Objects -> Seq(Message)]
      /\ running \in [Objects -> BOOLEAN] /\ count \in Counts
      /\ Call \in Locals(made) /\ completed \subseteq Message
  BY <1>0, LocalTypes
<1>b. \A locals : Set(c, locals) => Call' = locals
  <2>1. job \in [Callers -> Locals(made)]
    BY DEF Typed, TypeOK, Locals, Busy
  <2> QED
    BY <1>0, <2>1 DEF Set
<1>c. LogInOrder /\ OneObject /\ \A o \in made : o \in Objects /\ InStep(o)
  BY <1>a DEF InOrder
<1>d. Done(c) => Call'.pc = "idle" /\ Call'.object = Call.object
  BY <1>0, <1>b DEF Done, Idle
<1>e. /\ count.asks \in Nat /\ count.rewrites \in Nat
      /\ count' = count /\ (Call'.pc = "run" => Call.pc = "run")
           /\ (Call'.pc \in {"rewrite", "swap"} => Call.pc \in {"rewrite", "swap"}) => Onward
  BY <1>a DEF Counts, Onward, Asking, Rewriting
<1>f. Asking \in {0, 1} /\ Rewriting \in {0, 1} /\ Asking' \in {0, 1} /\ Rewriting' \in {0, 1}
  BY DEF Asking, Rewriting
<1>1. CASE Open(c)
  <2>1. /\ log' = log /\ completed' = completed /\ count' = count /\ made' = made /\ current' = current
        /\ history' = history /\ conversation' = conversation /\ running' = running
        /\ Call.pc = "idle"
    BY <1>0, <1>1 DEF Open, session, At
  <2>2. \/ current # None /\ Call'.pc = "idle" /\ Call'.object = current
        \/ current = None /\ Call'.pc = "load" /\ Call'.object = None
    BY <1>1, <1>b DEF Open, Idle
  <2>3. Onward
    BY <1>e, <2>1, <2>2
  <2>4. LogInOrder'
    BY <1>c, <2>1, <2>3, SilentLog
  <2>5. OneObject'
    BY <1>c, <2>1, <2>2 DEF OneObject
  <2>6. \A o \in made' : InStep(o)'
    <3>2. CASE current = None
      BY <1>c, <2>1, <3>2 DEF OneObject
    <3>3. CASE current # None
      BY <1>c, <2>1, <2>2, <2>3, <3>3, SilentObject
    <3> QED
      BY <3>2, <3>3
  <2> QED
    BY <2>4, <2>5, <2>6 DEF InOrder
<1>2. CASE Load(c)
  <2> DEFINE locals == [Call EXCEPT !.pc = "attach", !.entries = log]
  <2>1. /\ log' = log /\ completed' = completed /\ count' = count /\ made' = made /\ current' = current
        /\ running' = running /\ Call.pc = "load" /\ Set(c, locals)
    BY <1>0, <1>2 DEF Load, session, At
  <2>2. locals.pc = "attach" /\ locals.entries = log /\ locals.object = Call.object
    BY <1>a DEF Locals
  <2>3. Call' = locals
    BY <1>b, <2>1
  <2>4. Call'.pc = "attach" /\ Call'.entries = log /\ Call'.object = Call.object
    BY <2>2, <2>3
  <2>5. Onward
    BY <1>e, <2>1, <2>4
  <2>6. LogInOrder' /\ OneObject' /\ made = {}
    BY <1>c, <2>1, <2>4, <2>5, SilentLog DEF OneObject
  <2> QED
    BY <2>1, <2>6 DEF InOrder
<1>3. ASSUME NEW o \in Objects, Attach(c, o)
      PROVE  InOrder'
  <2>1. /\ log' = log /\ completed' = completed /\ count' = count /\ made' = made \cup {o}
        /\ current' = o /\ running' = running /\ Call.pc = "attach"
        /\ Set(c, [Idle EXCEPT !.object = o]) /\ o # None
    BY <1>0, <1>3, RuntimeAssumption DEF Attach, At
  <2>2. Call'.pc = "idle" /\ Call'.object = o
    BY <1>b, <2>1 DEF Idle
  <2>3. made = {} /\ Call.entries = log /\ made' = {o}
    BY <1>c, <2>1 DEF OneObject
  <2>4. Onward
    BY <1>e, <2>1, <2>2
  <2>5. LogInOrder'
    BY <1>c, <2>1, <2>4, SilentLog
  <2>6. OneObject'
    BY <1>c, <2>1, <2>2, <2>3 DEF OneObject
  <2>7. conversation'[o] = Derive(log) /\ history'[o] = Derive(log)
    BY <1>0, <1>3, <1>a, <2>3 DEF Attach, WithSystemPrompt, Serial
  <2>9. InStep(o)'
    BY <2>1, <2>2, <2>5, <2>7, DerivedInStep
  <2> QED
    BY <2>3, <2>5, <2>6, <2>9 DEF InOrder
<1>4. CASE Ask(c)
  <2> DEFINE prompt == [tag |-> "prompt", n |-> count'.asks]
             locals == [Call EXCEPT !.pc = "run", !.messages = << prompt >>]
  <2>1. /\ log' = log /\ completed' = completed /\ made' = made /\ current' = current
        /\ history' = history /\ conversation' = conversation /\ Call.pc = "idle"
        /\ count' = [count EXCEPT !.asks = @ + 1] /\ Set(c, locals) /\ Call.object # None
        /\ running' = [running EXCEPT ![Call.object] = TRUE]
    BY <1>0, <1>4 DEF Ask, At
  <2>2. count'.asks = count.asks + 1 /\ count'.rewrites = count.rewrites
    BY <1>a, <2>1 DEF Counts
  <2>3. /\ Call'.pc = "run" /\ Call'.object = Call.object
        /\ Call'.messages = << [tag |-> "prompt", n |-> count'.asks] >>
    <3>1. locals.pc = "run" /\ locals.object = Call.object /\ locals.messages = << prompt >>
      BY <1>a DEF Locals
    <3> QED
      BY <1>b, <2>1, <3>1
  <2>4. Onward
    BY <1>e, <2>1, <2>2, <2>3 DEF Onward, Asking, Rewriting
  <2>5. LogInOrder'
    BY <1>c, <2>1, <2>4, SilentLog
  <2>6. OneObject'
    <3>1. \A o \in Objects : running'[o] => o = Call.object
      BY <1>a, <1>c, <2>1 DEF OneObject
    <3> QED
      BY <1>c, <2>1, <2>3, <3>1 DEF OneObject
  <2>7. \A o \in made' : InStep(o)'
    BY <1>c, <2>1, <2>3, <2>4, SilentObject
  <2> QED
    BY <2>5, <2>6, <2>7 DEF InOrder
<1>5. CASE RunReturns(c)
  <2> DEFINE said == Append(Said(c), Reply(c))
             todo == Slice(said, Len(history[Call.object]))
             locals == [Call EXCEPT !.pc = "persist", !.messages = said, !.todo = todo]
  <2>1. /\ log' = log /\ completed' = completed /\ made' = made /\ current' = current /\ count' = count
        /\ history' = history /\ Call.pc = "run" /\ Set(c, locals)
    BY <1>0, <1>5 DEF RunReturns, Settle, At
  <2>2. PICK o \in made : o = Call.object
    BY <1>a, <2>1 DEF Busy
  <2>3. PICK s, p, r, h : /\ s = conversation[o] /\ h = history[o]
                          /\ p = [tag |-> "prompt", n |-> count.asks]
                          /\ r = [tag |-> "reply", n |-> count.asks]
    OBVIOUS
  <2>4. /\ Call'.pc = "persist" /\ Call'.object = o
        /\ Call'.messages = said /\ Call'.todo = todo
    <3>1. /\ locals.pc = "persist" /\ locals.object = o
          /\ locals.messages = said /\ locals.todo = todo
      BY <1>a, <2>2 DEF Locals
    <3> QED
      BY <1>b, <2>1, <3>1
  <2>5. Onward
    BY <1>e, <2>1, <2>4
  <2>6. /\ Said(c) = Append(s, p) /\ Reply(c) = r /\ p \in Message /\ r \in Message
        /\ Distinct(Append(Append(s, p), r))
        /\ \A m \in ToSet(Append(Append(s, p), r)) : Dated(m)'
    BY <1>0, <2>1, <2>2, <2>3, <2>4, <2>5, SaidNew
  <2>7. /\ s \in Seq(Message) /\ h \in Seq(Message) /\ h = Derive(log) /\ Extends(s, h)
    BY <1>a, <1>c, <2>1, <2>3 DEF InStep
  <2>8. PICK t : t = Append(Append(s, p), r)
    OBVIOUS
  <2>9. t \in Seq(Message) /\ Extends(t, h)
    BY <2>6, <2>7, <2>8, AppendParts
  <2>10. t = h \o Slice(t, Len(h))
    BY <2>7, <2>9, ExtendsSlice
  <2>11. said = t /\ todo = Slice(t, Len(h))
    BY <2>2, <2>3, <2>6, <2>8
  <2>12. conversation'[o] = t
    BY <1>0, <1>a, <1>5, <1>c, <2>2, <2>11 DEF RunReturns, Settle
  <2>13. \A x \in Objects : running'[x] => running[x] /\ x # o
    BY <1>0, <1>a, <1>5, <2>2 DEF RunReturns, Settle
  <2>14. made = {o} /\ made' = {o}
    BY <1>c, <2>1, <2>2 DEF OneObject
  <2>15. Derive(log)' = Derive(log)
    BY <2>1 DEF Derive
  <2>16. InStep(o)'
    BY <2>4, <2>6, <2>7, <2>8, <2>10, <2>11, <2>12, <2>15 DEF InStep
  <2>17. LogInOrder'
    BY <1>c, <2>1, <2>5, SilentLog
  <2>18. OneObject'
    BY <1>c, <2>1, <2>2, <2>4, <2>13 DEF OneObject
  <2> QED
    BY <2>14, <2>16, <2>17, <2>18 DEF InOrder
<1>6. CASE RunThrows(c)
  <2>1. /\ log' = log /\ completed' = completed /\ made' = made /\ current' = current /\ count' = count
        /\ history' = history /\ Call.pc = "run" /\ Done(c)
    BY <1>0, <1>6 DEF RunThrows, Settle, At
  <2>2. PICK o \in made : o = Call.object
    BY <1>a, <2>1 DEF Busy
  <2>3. PICK s, p, r : /\ s = conversation[o]
                       /\ p = [tag |-> "prompt", n |-> count.asks]
                       /\ r = [tag |-> "reply", n |-> count.asks]
    OBVIOUS
  <2>4. Call'.pc = "idle" /\ Call'.object = o
    BY <1>d, <2>1, <2>2
  <2>5. Onward
    BY <1>e, <2>1, <2>4
  <2>6. /\ Said(c) = Append(s, p) /\ Reply(c) = r /\ p \in Message /\ r \in Message
        /\ Distinct(Append(s, p)) /\ Distinct(Append(Append(s, p), r))
        /\ {p, r} \cap completed = {}
        /\ \A m \in ToSet(Append(s, p)) : Dated(m)'
        /\ \A m \in ToSet(Append(Append(s, p), r)) : Dated(m)'
    BY <1>0, <2>1, <2>2, <2>3, <2>4, <2>5, SaidNew
  <2>7. PICK n \in Nat, d \in Seq(Message) : n = Len(log) /\ d = Derive(log)
    BY <1>a, LenProperties, DeriveProperties
  <2>8. /\ s \in Seq(Message) /\ history[o] = d /\ Extends(s, d)
        /\ \A i \in n + 1 .. Len(s) : s[i] \notin completed
    BY <1>a, <1>c, <2>1, <2>2, <2>3, <2>7 DEF InStep
  <2>9. PICK u : u = Append(s, p)
    OBVIOUS
  <2>10. /\ u \in Seq(Message) /\ Extends(u, d)
         /\ \A i \in n + 1 .. Len(u) : u[i] \notin completed
    <3>1. u \in Seq(Message) /\ Extends(u, d)
      BY <2>6, <2>7, <2>8, <2>9, AppendParts
    <3>2. p \notin completed
      BY <2>6
    <3> QED
      BY <2>6, <2>7, <2>8, <2>9, <3>1, <3>2, TailStill
  <2>11. PICK v : v = Append(u, r)
    OBVIOUS
  <2>12. /\ v \in Seq(Message) /\ Extends(v, d)
         /\ \A i \in n + 1 .. Len(v) : v[i] \notin completed
    <3>1. v \in Seq(Message) /\ Extends(v, d)
      BY <2>6, <2>7, <2>10, <2>11, AppendParts
    <3>2. r \notin completed
      BY <2>6
    <3> QED
      BY <2>6, <2>7, <2>10, <2>11, <3>1, <3>2, TailStill
  <2>13. conversation'[o] = u \/ conversation'[o] = v
    BY <1>0, <1>6, <1>a, <1>c, <2>2, <2>6, <2>9, <2>11 DEF RunThrows, Settle
  <2>14. \A x \in Objects : running'[x] => running[x] /\ x # o
    BY <1>0, <1>6, <1>a, <2>2 DEF RunThrows, Settle
  <2>15. made = {o} /\ made' = {o}
    BY <1>c, <2>1, <2>2 DEF OneObject
  <2>16. InStep(o)'
    <3>1. Derive(log)' = d /\ Len(log') = n
      BY <2>1, <2>7 DEF Derive
    <3>2. history'[o] = d /\ Call'.pc = "idle"
      BY <2>1, <2>4, <2>8
    <3>3. CASE conversation'[o] = u
      BY <2>1, <2>6, <2>9, <2>10, <3>1, <3>2, <3>3 DEF InStep
    <3>4. CASE conversation'[o] = v
      BY <2>1, <2>6, <2>9, <2>11, <2>12, <3>1, <3>2, <3>4 DEF InStep
    <3> QED
      BY <2>13, <3>3, <3>4
  <2>17. LogInOrder'
    BY <1>c, <2>1, <2>5, SilentLog
  <2>18. OneObject'
    BY <1>c, <2>1, <2>2, <2>4, <2>14 DEF OneObject
  <2> QED
    BY <2>15, <2>16, <2>17, <2>18 DEF InOrder
<1>7. CASE Persist(c)
  <2> DEFINE locals == [Call EXCEPT !.todo = Tail(@)]
  <2>1. /\ completed' = completed /\ made' = made /\ current' = current /\ running' = running
        /\ history' = history /\ conversation' = conversation
        /\ Call.pc = "persist" /\ Call.todo # << >> /\ Set(c, locals)
        /\ log' = Append(log, NewEntry(Head(Call.todo)))
        /\ count' = [count EXCEPT !.entries = @ + 1]
    BY <1>0, <1>7 DEF Persist, session, At
  <2>2. PICK o \in made : o = Call.object
    BY <1>a, <2>1 DEF Busy
  <2>3. /\ Call'.pc = "persist" /\ Call'.object = o
        /\ Call'.messages = Call.messages /\ Call'.todo = Tail(Call.todo)
    <3>1. /\ locals.pc = "persist" /\ locals.object = o
          /\ locals.messages = Call.messages /\ locals.todo = Tail(Call.todo)
      BY <1>a, <2>1, <2>2 DEF Locals
    <3> QED
      BY <1>b, <2>1, <3>1
  <2>4. Onward
    BY <1>a, <2>1, <2>3 DEF Counts, Onward, Asking, Rewriting
  <2>5. PICK todo \in Seq(Message), d \in Seq(Message), s \in Seq(Message) :
          todo = Call.todo /\ d = Derive(log) /\ s = conversation[o]
    BY <1>a, <1>c, DeriveProperties
  <2>6. PICK m \in Message, rest \in Seq(Message) :
          m = Head(todo) /\ rest = Tail(todo) /\ todo = << m >> \o rest
    <3>1. todo # << >>
      BY <2>1, <2>5
    <3>2. Head(todo) \in Message /\ Tail(todo) \in Seq(Message) /\ todo = << Head(todo) >> \o Tail(todo)
      BY <3>1
    <3> QED
      BY <3>2
  <2>7. /\ s = d \o todo /\ Call.messages = s /\ Distinct(s)
        /\ \A x \in ToSet(s) : Dated(x)
    BY <1>c, <2>1, <2>5 DEF InStep
  <2>8. PICK e \in Seq(Message) : e = Append(d, m)
    BY AppendProperties
  <2>9. Derive(log') = e
    BY <2>1, <2>5, <2>6, <2>8, DeriveAppend
  <2>10. s = e \o rest
    <3>1. << m >> \in Seq(Message)
      OBVIOUS
    <3>2. e = d \o << m >>
      BY <2>8, AppendIsConcat
    <3>3. (d \o << m >>) \o rest = d \o (<< m >> \o rest)
      BY <3>1, ConcatAssociative
    <3> QED
      BY <2>6, <2>7, <3>2, <3>3
  <2>11. Distinct(e) /\ ToSet(e) \subseteq ToSet(s) /\ ToSet(s) \subseteq Message
    <3>1. ToSet(e \o rest) = ToSet(e) \cup ToSet(rest)
      BY ElementsOfConcat
    <3>2. Distinct(e \o rest)
      BY <2>7, <2>10
    <3>3. ToSet(s) \subseteq Message
      BY ElementsOf
    <3> QED
      BY <2>10, <3>1, <3>2, <3>3, DistinctPrefix
  <2>12. \A x \in ToSet(s) : Dated(x)'
    BY <2>4, <2>7, <2>11, DatedStill
  <2>13. LogInOrder'
    <3>1. MessagesOf(log') = ToSet(e) /\ MessagesOf(log)' = MessagesOf(log')
          /\ Derive(log)' = Derive(log')
      BY <2>9 DEF MessagesOf, Derive
    <3>2. \A x \in completed : Dated(x)'
      BY <1>a, <1>c, <2>4, DatedStill DEF LogInOrder
    <3> QED
      BY <2>1, <2>9, <2>11, <2>12, <3>1, <3>2 DEF LogInOrder
  <2>14. OneObject'
    BY <1>c, <2>1, <2>2, <2>3 DEF OneObject
  <2>15. InStep(o)'
    <3>1. Derive(log)' = e /\ conversation'[o] = s /\ Call'.messages = s /\ Call'.todo = rest
      BY <2>1, <2>3, <2>5, <2>6, <2>7, <2>9 DEF Derive
    <3> QED
      BY <2>3, <2>7, <2>10, <2>12, <3>1 DEF InStep
  <2>16. made' = {o}
    BY <1>c, <2>1, <2>2 DEF OneObject
  <2> QED
    BY <2>13, <2>14, <2>15, <2>16 DEF InOrder
<1>8. ~ PersistThrows(c)
  BY <1>a DEF PersistThrows, StoreMayFail, Serial, Counts
<1>9. CASE AskReturns(c)
  <2>1. /\ log' = log /\ made' = made /\ current' = current /\ running' = running /\ count' = count
        /\ conversation' = conversation /\ completed' = completed \cup ToSet(Call.messages)
        /\ Call.pc = "persist" /\ Call.todo = << >> /\ Done(c)
    BY <1>0, <1>9 DEF AskReturns, At
  <2>2. PICK o \in made : o = Call.object
    BY <1>a, <2>1 DEF Busy
  <2>3. Call'.pc = "idle" /\ Call'.object = o
    BY <1>d, <2>1, <2>2
  <2>4. PICK d \in Seq(Message) : d = Derive(log)
    BY <1>a, DeriveProperties
  <2>5. conversation[o] = d /\ Call.messages = d
    <3>1. d \o << >> = d
      OBVIOUS
    <3> QED
      BY <1>c, <2>1, <2>2, <2>4, <3>1 DEF InStep
  <2>6. history'[o] = d
    BY <1>0, <1>9, <1>a, <2>2, <2>5 DEF AskReturns
  <2>7. LogInOrder'
    <3>1. \A m \in ToSet(d) : Dated(m)
      BY <1>c, <2>5 DEF InStep
    <3>2. ToSet(d) \subseteq Message
      BY ElementsOf
    <3>3. Onward
      BY <1>e, <2>1, <2>3
    <3>4. \A m \in completed' : Dated(m)'
      BY <1>a, <1>c, <2>1, <2>5, <3>1, <3>2, <3>3, DatedStill DEF LogInOrder
    <3>5. MessagesOf(log)' = ToSet(d) /\ Derive(log)' = Derive(log)
      BY <2>1, <2>4 DEF MessagesOf, Derive
    <3> QED
      BY <1>c, <3>1, <3>2, <3>3, <3>4, <3>5, DatedStill DEF LogInOrder
  <2>8. OneObject'
    BY <1>c, <2>1, <2>2, <2>3 DEF OneObject
  <2>9. InStep(o)'
    BY <2>1, <2>3, <2>4, <2>5, <2>6, <2>7, DerivedInStep, <1>c
  <2> QED
    BY <1>c, <2>1, <2>2, <2>7, <2>8, <2>9 DEF InOrder, OneObject
<1>10. ASSUME NEW k \in Keeps, Compact(c, k)
       PROVE  InOrder'
  <2> DEFINE locals == [Call EXCEPT !.pc = "rewrite", !.keep = Ids(SliceLast(log, k))]
  <2>1. /\ log' = log /\ completed' = completed /\ made' = made /\ current' = current
        /\ history' = history /\ conversation' = conversation /\ running' = running
        /\ Call.pc = "idle" /\ Call.object # None /\ Set(c, locals)
        /\ count' = [count EXCEPT !.rewrites = @ + 1]
    BY <1>0, <1>10 DEF Compact, session, At
  <2>2. Call'.pc = "rewrite" /\ Call'.object = Call.object
    <3>1. locals.pc = "rewrite" /\ locals.object = Call.object
      BY <1>a DEF Locals
    <3> QED
      BY <1>b, <2>1, <3>1
  <2>3. Onward
    BY <1>a, <2>1, <2>2 DEF Counts, Onward, Asking, Rewriting
  <2>4. LogInOrder'
    BY <1>c, <2>1, <2>3, SilentLog
  <2>5. OneObject'
    BY <1>c, <2>1, <2>2 DEF OneObject
  <2>6. \A o \in made' : InStep(o)'
    BY <1>c, <2>1, <2>2, <2>3, SilentObject
  <2> QED
    BY <2>4, <2>5, <2>6 DEF InOrder
<1>11. CASE Rewrite(c)
  <2> DEFINE locals == [Call EXCEPT !.pc = "swap", !.entries = log]
  <2>1. /\ log' = log /\ completed' = completed /\ made' = made /\ current' = current
        /\ history' = history /\ conversation' = conversation /\ running' = running
        /\ count' = count /\ Call.pc = "rewrite" /\ Set(c, locals)
    BY <1>0, <1>11 DEF Rewrite, session, At
  <2>2. Call'.pc = "swap" /\ Call'.object = Call.object /\ Call'.entries = log
    <3>1. locals.pc = "swap" /\ locals.object = Call.object /\ locals.entries = log
      BY <1>a DEF Locals
    <3> QED
      BY <1>b, <2>1, <3>1
  <2>3. Onward
    BY <1>e, <2>1, <2>2
  <2>4. LogInOrder'
    BY <1>c, <2>1, <2>3, SilentLog
  <2>5. OneObject'
    BY <1>c, <2>1, <2>2 DEF OneObject
  <2>6. \A o \in made' : InStep(o)'
    BY <1>c, <2>1, <2>2, <2>3, SilentObject
  <2> QED
    BY <2>4, <2>5, <2>6 DEF InOrder
<1>12. CASE Swap(c)
  <2> DEFINE locals == [Call EXCEPT !.pc = "refresh"]
  <2>1. /\ completed' = completed /\ made' = made /\ current' = current
        /\ history' = history /\ conversation' = conversation /\ running' = running
        /\ Call.pc = "swap" /\ Set(c, locals) /\ count' = [count EXCEPT !.entries = @ + 1]
        /\ log' = Rewritten(log, Call.keep)
    <3>1. Call.pc = "swap" /\ log' = Rewritten(Call.entries, Call.keep)
      BY <1>0, <1>12 DEF Swap, At
    <3>2. Call.entries = log
      BY <1>c, <3>1 DEF OneObject
    <3> QED
      BY <1>0, <1>12, <3>1, <3>2 DEF Swap, session, Goto
  <2>2. Call'.pc = "refresh" /\ Call'.object = Call.object
    <3>1. locals.pc = "refresh" /\ locals.object = Call.object
      BY <1>a DEF Locals
    <3> QED
      BY <1>b, <2>1, <3>1
  <2>3. Onward /\ count'.rewrites = count.rewrites /\ Rewriting = 1 /\ Rewriting' = 0
    BY <1>a, <2>1, <2>2 DEF Counts, Onward, Asking, Rewriting
  <2>4. Summary \in Message /\ ~ Dated(Summary) /\ Dated(Summary)'
    <3>1. PICK m : m = Summary
      OBVIOUS
    <3>2. m.tag = "summary" /\ m.n = count.rewrites /\ m \in Message
      BY <1>a, <3>1 DEF Summary, Message, Counts
    <3>3. ~ Dated(m)
      BY <1>e, <2>3, <3>2 DEF Dated
    <3>4. Dated(m)'
      BY <1>e, <2>3, <3>2 DEF Dated
    <3>5. Summary' = Summary
      BY <2>3 DEF Summary
    <3> QED
      BY <3>1, <3>2, <3>3, <3>4, <3>5
  <2>5. LogInOrder'
    <3>1. Distinct(Derive(log'))
      BY <1>a, <1>c, <2>1, <2>4, RewrittenDistinct DEF LogInOrder
    <3>2. PICK m : m = Summary
      OBVIOUS
    <3>3. MessagesOf(log') \subseteq {m} \cup MessagesOf(log)
      <4>1. MessagesOf(log') = {m} \cup {log[i].message : i \in Kept(log, Call.keep)}
        BY <1>a, <2>1, <3>2, RewrittenProperties
      <4>2. Kept(log, Call.keep) \subseteq 1 .. Len(log)
        BY <1>a, LenProperties DEF Kept
      <4>3. MessagesOf(log) = {log[i].message : i \in 1 .. Len(log)}
        BY <1>a, DeriveProperties
      <4> QED
        BY <4>1, <4>2, <4>3
    <3>4. \A x \in MessagesOf(log) \cup completed : Dated(x)'
      <4>1. MessagesOf(log) \subseteq Message
        BY <1>a, DeriveProperties
      <4> QED
        BY <1>a, <1>c, <2>3, <4>1, DatedStill DEF LogInOrder
    <3>5. Dated(m)'
      <4>1. m \in Message /\ m.tag = "summary" /\ m.n = count.rewrites
        BY <2>4, <3>2 DEF Summary
      <4> QED
        BY <1>a, <2>3, <4>1 DEF Dated, Counts
    <3>6. MessagesOf(log)' = MessagesOf(log') /\ Derive(log)' = Derive(log')
      BY DEF MessagesOf, Derive
    <3> QED
      BY <2>1, <3>1, <3>3, <3>4, <3>5, <3>6 DEF LogInOrder
  <2>6. OneObject'
    BY <1>c, <2>1, <2>2 DEF OneObject
  <2>7. ASSUME NEW o \in made
        PROVE  InStep(o)'
    <3>1. conversation[o] \in Seq(Message) /\ InStep(o)
      BY <1>a, <1>c
    <3>2. \A m \in ToSet(conversation[o]) : Dated(m)'
      BY <2>3, <3>1, ElementsOf, DatedStill DEF InStep
    <3> QED
      BY <2>1, <2>2, <3>1, <3>2 DEF InStep
  <2> QED
    BY <2>1, <2>5, <2>6, <2>7 DEF InOrder
<1>13. CASE Refresh(c)
  <2>1. /\ log' = log /\ made' = made /\ current' = current /\ running' = running /\ count' = count
        /\ completed' = completed /\ Call.pc = "refresh" /\ Done(c)
    BY <1>0, <1>13 DEF Refresh, At
  <2>2. PICK o \in made : o = Call.object
    BY <1>a, <2>1 DEF Busy
  <2>3. Call'.pc = "idle" /\ Call'.object = o
    BY <1>d, <2>1, <2>2
  <2>4. ~ running[o]
    BY <1>c, <2>1 DEF OneObject
  <2>5. conversation'[o] = Derive(log) /\ history'[o] = Derive(log)
    BY <1>0, <1>13, <1>a, <1>c, <2>2, <2>4 DEF Refresh, WithSystemPrompt, Serial
  <2>6. Onward
    BY <1>e, <2>1, <2>3
  <2>7. LogInOrder'
    BY <1>c, <2>1, <2>6, SilentLog
  <2>8. OneObject'
    BY <1>c, <2>1, <2>2, <2>3 DEF OneObject
  <2>9. InStep(o)'
    BY <1>c, <2>1, <2>3, <2>5, <2>7, DerivedInStep
  <2> QED
    BY <1>c, <2>1, <2>2, <2>7, <2>8, <2>9 DEF InOrder, OneObject
<1> QED
  BY <1>1, <1>2, <1>3, <1>4, <1>5, <1>6, <1>7, <1>8, <1>9, <1>10, <1>11, <1>12, <1>13

LEMMA InitInOrder ==
  ASSUME Serial
  PROVE  Init => InOrder
<1> SUFFICES ASSUME Init PROVE InOrder
  OBVIOUS
<1>1. Call = Idle
  BY TheCaller DEF Init, Call
<1>2. Derive(log) = << >> /\ MessagesOf(log) = {} /\ log = << >>
  BY DEF Init, Derive, MessagesOf, ToSet
<1>3. LogInOrder
  BY <1>2 DEF Init, LogInOrder, Distinct
<1>4. OneObject
  BY <1>1 DEF Init, OneObject, Idle
<1> QED
  BY <1>3, <1>4 DEF Init, InOrder

LEMMA StepInOrder ==
  ASSUME Serial
  PROVE  Typed /\ InOrder /\ [Next]_vars => InOrder'
<1> SUFFICES ASSUME Typed, InOrder, [Next]_vars PROVE InOrder'
  OBVIOUS
<1>0. Typed'
  BY StepTyped
<1>1. CASE Restart
  <2>1. /\ log' = log /\ completed' = completed /\ made' = {} /\ current' = None
        /\ running' = [o \in Objects |-> FALSE]
        /\ count' = [count EXCEPT !.restarts = @ + 1]
    BY <1>1 DEF Restart
  <2>2. Call' = Idle
    BY <1>1, TheCaller DEF Restart, Call
  <2>3. Onward
    BY <2>1, <2>2 DEF Typed, Counts, Onward, Asking, Rewriting, Idle
  <2>4. LogInOrder'
    BY <1>0, <2>1, <2>3, SilentLog DEF InOrder
  <2>5. OneObject'
    BY <2>1, <2>2 DEF OneObject, Idle
  <2> QED
    BY <2>1, <2>4, <2>5 DEF InOrder
<1>2. CASE CompactBehind
  BY <1>2 DEF CompactBehind, Serial
<1>3. CASE Next /\ ~ Restart /\ ~ CompactBehind
  BY <1>0, <1>3, CallInOrder DEF Next
<1>4. CASE UNCHANGED vars
  <2>1. UNCHANGED << log, completed, count, made, current, running, conversation, history, job >>
    BY <1>4 DEF vars, session
  <2>2. Call' = Call /\ Derive(log)' = Derive(log)
    BY <2>1 DEF Call, Derive
  <2>3. Onward
    BY <2>1, <2>2 DEF Typed, Counts, Onward, Asking, Rewriting
  <2>4. LogInOrder'
    BY <1>0, <2>1, <2>3, SilentLog DEF InOrder
  <2>5. OneObject'
    BY <2>1, <2>2 DEF InOrder, OneObject
  <2>6. ASSUME NEW o \in made
        PROVE  InStep(o)'
    <3>1. conversation[o] \in Seq(Message) /\ InStep(o)
      BY DEF Typed, TypeOK, InOrder
    <3>2. \A m \in ToSet(conversation[o]) : Dated(m)'
      BY <1>0, <2>3, <3>1, ElementsOf, DatedStill DEF InStep
    <3> QED
      BY <2>1, <2>2, <3>1, <3>2 DEF InStep
  <2> QED
    BY <2>1, <2>4, <2>5, <2>6 DEF InOrder
<1> QED
  BY <1>1, <1>2, <1>3, <1>4
\* Calls that are awaited one after the other log no message twice: what each ask skips is
\* what is there (runtime.ts 125-126, 178).
THEOREM NothingLoggedTwice ==
  ASSUME Serial
  PROVE  Spec => []LoggedOnce
<1>1. ASSUME Typed, InOrder
      PROVE  LoggedOnce
  <2>1. /\ DOMAIN log = 1 .. Len(log) /\ Len(Derive(log)) = Len(log)
        /\ \A i \in 1 .. Len(log) : Derive(log)[i] = log[i].message
    BY <1>1, LenProperties, DeriveProperties DEF Typed, TypeOK
  <2> QED
    BY <1>1, <2>1 DEF InOrder, LogInOrder, Distinct, LoggedOnce
<1> QED
  BY <1>1, InitTyped, StepTyped, InitInOrder, StepInOrder, PTL DEF Spec

\* A sequence that goes on from another has it as a prefix.
LEMMA ExtendsPrefix ==
  ASSUME NEW S, NEW s \in Seq(S), NEW t \in Seq(S), Extends(t, s)
  PROVE  IsPrefix(s, t)
<1>1. /\ Len(s) \in Nat /\ Len(t) \in Nat /\ Len(s) <= Len(t)
      /\ \A i \in 1 .. Len(s) : s[i] \in S /\ t[i] \in S /\ t[i] = s[i]
  <2>1. \A i \in 1 .. Len(s) : s[i] \in S
    BY ElementOfSeq
  <2> QED
    BY <2>1, LenProperties DEF Extends
<1> DEFINE a == SubSeq(s, 1, Len(s))
           b == SubSeq(t, 1, Len(s))
<1>2. /\ a \in Seq(S) /\ Len(a) = IF 1 <= Len(s) THEN Len(s) - 1 + 1 ELSE 0
      /\ \A i \in 1 .. Len(s) - 1 + 1 : a[i] = s[1 + i - 1]
  BY <1>1, SubSeqProperties
<1>3. /\ b \in Seq(S) /\ Len(b) = IF 1 <= Len(s) THEN Len(s) - 1 + 1 ELSE 0
      /\ \A i \in 1 .. Len(s) - 1 + 1 : b[i] = t[1 + i - 1]
  BY <1>1, SubSeqProperties
<1> HIDE DEF a, b
<1>4. Len(a) = Len(s) /\ Len(b) = Len(s)
  BY <1>1, <1>2, <1>3
<1>5. \A i \in 1 .. Len(a) : a[i] = b[i]
  <2>1. \A i \in 1 .. Len(s) : i \in 1 .. Len(s) - 1 + 1 /\ 1 + i - 1 = i
    BY <1>1
  <2> QED
    BY <1>1, <1>2, <1>3, <1>4, <2>1
<1>6. a = b
  BY <1>2, <1>3, <1>4, <1>5, SeqEqual
<1> QED
  BY <1>1, <1>6 DEF IsPrefix, a, b

\* Between such calls every session object has what the log derives and, after it, only
\* what failed runs said (log.ts 3-7, runtime.ts 103-147).
THEOREM ObjectsDeriveFromLog ==
  ASSUME Serial
  PROVE  Spec => []DerivesFromLog
<1>1. ASSUME Typed, InOrder
      PROVE  DerivesFromLog
  <2> SUFFICES ASSUME Quiet, NEW o \in made
               PROVE  LET derived == WithSystemPrompt(Derive(log))
                      IN  /\ IsPrefix(derived, conversation[o])
                          /\ ToSet(Slice(conversation[o], Len(derived))) \cap completed = {}
    BY DEF DerivesFromLog
  <2>1. PICK d \in Seq(Message), s \in Seq(Message), n \in Nat :
          d = Derive(log) /\ s = conversation[o] /\ n = Len(log) /\ n = Len(d)
    BY <1>1, DeriveProperties, LenProperties DEF Typed, TypeOK
  <2>2. Call.pc = "idle"
    BY TheCaller DEF Quiet, At, Call
  <2>3. Extends(s, d) /\ \A i \in n + 1 .. Len(s) : s[i] \notin completed
    BY <1>1, <2>1, <2>2 DEF InOrder, InStep
  <2>4. WithSystemPrompt(d) = d
    BY DEF WithSystemPrompt, Serial
  <2>5. PICK rest : rest = Slice(s, n)
    OBVIOUS
  <2>6. /\ rest \in Seq(Message) /\ Len(s) \in Nat
        /\ Len(rest) = IF n < Len(s) THEN Len(s) - n ELSE 0
        /\ \A i \in 1 .. Len(s) - n : rest[i] = s[n + i]
    BY <2>5, SliceProperties, LenProperties
  <2>7. \A i \in 1 .. Len(rest) : rest[i] \notin completed
    <3>1. \A i \in 1 .. Len(rest) : i \in 1 .. Len(s) - n /\ n + i \in n + 1 .. Len(s)
      BY <2>6
    <3> QED
      BY <2>3, <2>6, <3>1
  <2>8. ToSet(rest) = {rest[i] : i \in 1 .. Len(rest)}
    BY <2>6, ElementsOf
  <2>9. IsPrefix(d, s)
    BY <2>3, ExtendsPrefix
  <2> QED
    BY <2>1, <2>4, <2>5, <2>7, <2>8, <2>9
<1> QED
  BY <1>1, InitTyped, StepTyped, InitInOrder, StepInOrder, PTL DEF Spec
=============================================================================
