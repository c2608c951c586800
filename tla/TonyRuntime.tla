------------------------------ MODULE TonyRuntime ------------------------------
(***************************************************************************)
(* TonyRuntime (src/src/runtime.ts) and one session of it: the log the     *)
(* store keeps, the session objects built from it, each with an agent and  *)
(* a history array of its own, and the calls made on them, which interleave *)
(* at their awaits.  The agent is used through its contract (AgentContract) *)
(* and the store through whole operations (SessionStore has their steps).  *)
(***************************************************************************)
EXTENDS Naturals, Sequences, SequencesExt, FiniteSets, Selection

CONSTANTS
  Callers,        \* who calls the runtime, each awaiting its own calls
  Objects,        \* the session objects a process may build
  None,           \* no object
  SystemPrompt,   \* whether the runtime is given a system prompt
  Compacting,     \* whether callers use compact() and reset()
  Keeps,          \* the keepRecentEntries they pass
  MaxAsks, MaxRewrites, MaxStoreFailures, MaxFaults   \* bounds of the model

ASSUME RuntimeAssumption ==
  /\ None \notin Objects
  /\ {SystemPrompt, Compacting} \subseteq BOOLEAN
  /\ Keeps \subseteq Nat
  /\ {MaxAsks, MaxRewrites, MaxStoreFailures, MaxFaults} \subseteq Nat

\* Tool messages travel with the reply they belong to.
Message == [tag : {"system", "summary", "prompt", "reply"}, n : Nat]
Entry == [id : Nat, message : Message]

VARIABLES
  log,           \* the session's entries
  current,       \* what the sessions map holds for the session
  conversation, running, history,   \* of each object
  made,          \* the objects built so far
  job            \* of each caller: the call it awaits and that call's locals

\* Auxiliary: they record the past and guard nothing but the bounds.
VARIABLES
  count,         \* of asks, appended entries, rewrites, failures and restarts
  completed,     \* the messages of the asks that have returned
  dropped        \* the messages that a compaction summarized away

session == << conversation, running, history, made, current >>
vars == << log, session, job, count, completed, dropped >>

Idle == [pc |-> "idle", object |-> None, messages |-> << >>, todo |-> << >>,
         keep |-> {}, entries |-> << >>]

Prompt == [tag |-> "system", n |-> 0]
Derive(entries) == [i \in DOMAIN entries |-> entries[i].message]
Ids(entries) == {entries[i].id : i \in DOMAIN entries}
MessagesOf(entries) == ToSet(Derive(entries))
NewEntry(message) == [id |-> count.entries + 1, message |-> message]

WithSystemPrompt(messages) ==
  IF SystemPrompt /\ (messages = << >> \/ Head(messages) # Prompt)
  THEN << Prompt >> \o messages ELSE messages

\* Array.prototype.slice from the front and from the back; slice(-0) is all.
Slice(s, from) == SubSeq(s, from + 1, Len(s))
SliceLast(s, k) == IF k = 0 \/ k >= Len(s) THEN s ELSE SubSeq(s, Len(s) - k + 1, Len(s))

Init ==
  /\ log = << >>
  /\ current = None /\ made = {}
  /\ conversation = [o \in Objects |-> << >>]
  /\ history = [o \in Objects |-> << >>]
  /\ running = [o \in Objects |-> FALSE]
  /\ job = [c \in Callers |-> Idle]
  /\ count = [asks |-> 0, entries |-> 0, rewrites |-> 0, failures |-> 0, restarts |-> 0]
  /\ completed = {} /\ dropped = {}

\* The bounds: on failed appends, and on those and restarts together.
MayFault == count.failures + count.restarts < MaxFaults
StoreMayFail == count.failures < MaxStoreFailures /\ MayFault

At(c, pc) == job[c].pc = pc
Set(c, locals) == job' = [job EXCEPT ![c] = locals]
Goto(c, pc) == Set(c, [job[c] EXCEPT !.pc = pc])
\* A call that ends leaves its caller with the object it was made on.
Done(c) == Set(c, [Idle EXCEPT !.object = job[c].object])

-------------------------------------------------------------------------------
(* openSession(), createSession(): hydrate() *)

\* store.get() has settled: the map is looked up.
Open(c) ==
  /\ At(c, "idle")
  /\ IF current # None
     THEN Set(c, [Idle EXCEPT !.object = current])
     ELSE Set(c, [Idle EXCEPT !.pc = "load"])
  /\ UNCHANGED << log, session, count, completed, dropped >>

Load(c) ==
  /\ At(c, "load")
  /\ Set(c, [job[c] EXCEPT !.pc = "attach", !.entries = log])
  /\ UNCHANGED << log, session, count, completed, dropped >>

\* A slip: the map and the caller are given an object that is never built.
AttachUnbuilt(c, o) ==
  /\ At(c, "attach") /\ o \notin made
  /\ current' = o
  /\ Set(c, [Idle EXCEPT !.object = o])
  /\ UNCHANGED << log, conversation, running, history, made, count, completed, dropped >>

\* Nobody looks at the map again: a second object may replace a first.
Attach(c, o) ==
  LET messages == Derive(job[c].entries)
  IN  /\ At(c, "attach") /\ o \notin made
      /\ conversation' = [conversation EXCEPT ![o] = WithSystemPrompt(messages)]
      /\ history' = [history EXCEPT ![o] = messages]
      /\ made' = made \cup {o}
      /\ current' = o
      /\ Set(c, [Idle EXCEPT !.object = o])
      /\ UNCHANGED << log, running, count, completed, dropped >>

-------------------------------------------------------------------------------
(* ask() *)

Ask(c) ==
  LET o == job[c].object
  IN  /\ At(c, "idle") /\ o # None
      /\ ~ running[o] /\ count.asks < MaxAsks
      /\ count' = [count EXCEPT !.asks = @ + 1]
      /\ running' = [running EXCEPT ![o] = TRUE]
      /\ Set(c, [job[c] EXCEPT !.pc = "run",
                   !.messages = << [tag |-> "prompt", n |-> count'.asks] >>])
      /\ UNCHANGED << log, conversation, history, made, current, completed, dropped >>

\* agent.run() settles, as AgentContract says it may.
Settle(c, messages) ==
  LET o == job[c].object
  IN  /\ At(c, "run")
      /\ conversation' = [conversation EXCEPT ![o] = messages]
      /\ running' = [running EXCEPT ![o] = FALSE]
      /\ UNCHANGED << log, history, made, current, count, completed, dropped >>

Said(c) == conversation[job[c].object] \o job[c].messages
Reply(c) == [tag |-> "reply", n |-> Head(job[c].messages).n]

\* A slip: only what this run said is persisted.
RunReturnsOwnOnly(c) ==
  LET messages == Append(Said(c), Reply(c))
  IN  /\ Settle(c, messages)
      /\ Set(c, [job[c] EXCEPT !.pc = "persist", !.messages = messages,
                   !.todo = Append(job[c].messages, Reply(c))])

RunReturns(c) ==
  LET messages == Append(Said(c), Reply(c))
  IN  /\ Settle(c, messages)
      /\ Set(c, [job[c] EXCEPT !.pc = "persist", !.messages = messages,
                   !.todo = Slice(messages, Len(history[job[c].object]))])

\* Nothing of a failed run is persisted; the agent keeps what was said.
RunThrows(c) ==
  /\ \/ Settle(c, Said(c))
     \/ Settle(c, Append(Said(c), Reply(c)))
  /\ Done(c)

\* One message at a time, each awaited.
Persist(c) ==
  /\ At(c, "persist") /\ job[c].todo # << >>
  /\ log' = Append(log, NewEntry(Head(job[c].todo)))
  /\ count' = [count EXCEPT !.entries = @ + 1]
  /\ Set(c, [job[c] EXCEPT !.todo = Tail(@)])
  /\ UNCHANGED << session, completed, dropped >>

\* A slip: a failed append is passed over.
PersistPassesOver(c) ==
  /\ At(c, "persist") /\ job[c].todo # << >> /\ StoreMayFail
  /\ count' = [count EXCEPT !.failures = @ + 1]
  /\ Set(c, [job[c] EXCEPT !.todo = Tail(@)])
  /\ UNCHANGED << log, session, completed, dropped >>

\* append() throws before it has written the entry, or, when the index cannot be
\* persisted, after.
PersistThrows(c) ==
  /\ At(c, "persist") /\ job[c].todo # << >> /\ StoreMayFail
  /\ \/ /\ log' = log
        /\ count' = [count EXCEPT !.failures = @ + 1]
     \/ /\ log' = Append(log, NewEntry(Head(job[c].todo)))
        /\ count' = [count EXCEPT !.failures = @ + 1, !.entries = @ + 1]
  /\ Done(c)
  /\ UNCHANGED << session, completed, dropped >>

\* A slip: the history array gains the answer alone.
AskReturnsAppended(c) ==
  /\ At(c, "persist") /\ job[c].todo = << >>
  /\ history' = [history EXCEPT ![job[c].object] = Append(@, Last(job[c].messages))]
  /\ completed' = completed \cup ToSet(job[c].messages)
  /\ Done(c)
  /\ UNCHANGED << log, conversation, running, made, current, count, dropped >>

AskReturns(c) ==
  /\ At(c, "persist") /\ job[c].todo = << >>
  /\ history' = [history EXCEPT ![job[c].object] = job[c].messages]
  /\ completed' = completed \cup ToSet(job[c].messages)
  /\ Done(c)
  /\ UNCHANGED << log, conversation, running, made, current, count, dropped >>

-------------------------------------------------------------------------------
(* compact(), reset(), and the CLI's /compact *)

Summary == [tag |-> "summary", n |-> count.rewrites]
Kept(entries, keep) == {i \in DOMAIN entries : entries[i].id \in keep}
Rewritten(entries, keep) ==
  << NewEntry(Summary) >> \o ElementsAt(entries, Kept(entries, keep))
Drop(entries, keep) ==
  dropped' = dropped \cup {entries[i].message : i \in DOMAIN entries \ Kept(entries, keep)}

\* The ids to keep come from a first read; reset() is compact() with one.
Compact(c, k) ==
  /\ Compacting /\ At(c, "idle") /\ job[c].object # None
  /\ count.rewrites < MaxRewrites
  /\ count' = [count EXCEPT !.rewrites = @ + 1]
  /\ Set(c, [job[c] EXCEPT !.pc = "rewrite", !.keep = Ids(SliceLast(log, k))])
  /\ UNCHANGED << log, session, completed, dropped >>

\* store.compact() reads again, writes a temporary file and renames it.
Rewrite(c) ==
  /\ At(c, "rewrite")
  /\ Set(c, [job[c] EXCEPT !.pc = "swap", !.entries = log])
  /\ UNCHANGED << log, session, count, completed, dropped >>

Swap(c) ==
  /\ At(c, "swap")
  /\ log' = Rewritten(job[c].entries, job[c].keep)
  /\ Drop(job[c].entries, job[c].keep)
  /\ count' = [count EXCEPT !.entries = @ + 1]
  /\ Goto(c, "refresh")
  /\ UNCHANGED << session, completed >>

\* A slip: the agent is refreshed and the history array is not.
RefreshAgentOnly(c) ==
  LET o == job[c].object
  IN  /\ At(c, "refresh") /\ ~ running[o]
      /\ conversation' = [conversation EXCEPT ![o] = WithSystemPrompt(Derive(log))]
      /\ Done(c)
      /\ UNCHANGED << log, history, running, made, current, count, completed, dropped >>

\* setHistory() throws under a running agent: the log stays compacted.
Refresh(c) ==
  LET o == job[c].object
  IN  /\ At(c, "refresh")
      /\ IF running[o]
         THEN UNCHANGED << conversation, history >>
         ELSE /\ conversation' = [conversation EXCEPT ![o] = WithSystemPrompt(Derive(log))]
              /\ history' = [history EXCEPT ![o] = Derive(log)]
      /\ Done(c)
      /\ UNCHANGED << log, running, made, current, count, completed, dropped >>

\* The CLI calls store.compact() itself, between two commands, keeping nothing:
\* the session object and its agent are not told.
CompactBehind ==
  /\ ~ Compacting /\ \A c \in Callers : At(c, "idle")
  /\ count.rewrites < MaxRewrites
  /\ count' = [count EXCEPT !.rewrites = @ + 1, !.entries = @ + 1]
  /\ log' = Rewritten(log, {})
  /\ Drop(log, {})
  /\ UNCHANGED << session, job, completed >>

\* The process ends and another starts; only the log is on disk.
Restart ==
  /\ MayFault
  /\ count' = [count EXCEPT !.restarts = @ + 1]
  /\ current' = None /\ made' = {}
  /\ conversation' = [o \in Objects |-> << >>]
  /\ history' = [o \in Objects |-> << >>]
  /\ running' = [o \in Objects |-> FALSE]
  /\ job' = [c \in Callers |-> Idle]
  /\ UNCHANGED << log, completed, dropped >>

-------------------------------------------------------------------------------
Next ==
  \/ \E c \in Callers :
       \/ Open(c) \/ Load(c) \/ \E o \in Objects : Attach(c, o)
       \/ Ask(c) \/ RunReturns(c) \/ RunThrows(c)
       \/ Persist(c) \/ PersistThrows(c) \/ AskReturns(c)
       \/ \E k \in Keeps : Compact(c, k)
       \/ Rewrite(c) \/ Swap(c) \/ Refresh(c)
  \/ CompactBehind \/ Restart

Spec == Init /\ [][Next]_vars

-------------------------------------------------------------------------------
(* What a session promises *)

TypeOK ==
  /\ log \in Seq(Entry)
  /\ current \in made \cup {None} /\ made \subseteq Objects
  /\ conversation \in [Objects -> Seq(Message)]
  /\ history \in [Objects -> Seq(Message)]
  /\ running \in [Objects -> BOOLEAN]
  /\ job \in [Callers ->
       [pc : {"idle", "load", "attach", "run", "persist", "rewrite", "swap", "refresh"},
        object : made \cup {None}, messages : Seq(Message), todo : Seq(Message),
        keep : SUBSET Nat, entries : Seq(Entry)]]
  /\ \A c \in Callers : job[c].pc \in {"run", "persist", "rewrite", "swap", "refresh"}
                          => job[c].object # None
  /\ completed \cup dropped \subseteq Message

\* Once an ask has returned, all it showed its caller is in the log or was
\* summarized: even if a second object was built for the session, asks overlap,
\* earlier runs or appends failed, or the process restarted (runtime.ts 123-128,
\* 177-196).
SuccessLogged ==
  completed \ {Prompt} \subseteq MessagesOf(log) \cup dropped

\* What is in the history array, and so what persistMessages() skips, has been
\* logged (runtime.ts 104, 125-126).
SkippedLogged ==
  \A o \in made : ToSet(history[o]) \ {Prompt} \subseteq MessagesOf(log) \cup dropped

Quiet == \A c \in Callers : At(c, "idle")

\* Between calls, what the log derives is what the agent has: compaction, reset
\* and reopening derive from the log alone (log.ts 3-7, runtime.ts 103-147).
\* Only what failed runs said may be missing, at the end.
DerivesFromLog ==
  Quiet => \A o \in made :
             LET derived == WithSystemPrompt(Derive(log))
             IN  /\ IsPrefix(derived, conversation[o])
                 /\ ToSet(Slice(conversation[o], Len(derived))) \cap completed = {}

\* No message is logged twice by calls that are awaited one after the other
\* (runtime.ts 125-126, 178).
LoggedOnce ==
  \A i, j \in DOMAIN log : log[i].message = log[j].message => i = j
=============================================================================
