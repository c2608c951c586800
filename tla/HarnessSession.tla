----------------------------- MODULE HarnessSession -----------------------------
(***************************************************************************)
(* AgentHarness (src/src/harness/agent-harness.ts) over a session           *)
(* repository: the JSONL one (session/jsonl/repo.ts), which rewrites a file  *)
(* by a rename, or the SQLite one (session/sqlite.ts), which rewrites a      *)
(* session's rows in a transaction; so each append takes effect at once or   *)
(* not at all.  Operations do not overlap; a process may crash between any   *)
(* two steps of one.  The agent is used through what a run adds to its       *)
(* transcript (HarnessAgent has its steps).                                  *)
(***************************************************************************)
EXTENDS Naturals, Sequences, SequencesExt, FiniteSets, Selection

CONSTANTS
  Main, Branches,        \* the session and the ids navigate() may be given
  Tails,                 \* the retainedTail options
  MaxNews, MaxCompactions, MaxCrashes   \* bounds of the model

Sessions == {Main} \cup Branches

VARIABLES
  backend,      \* "jsonl" or "sqlite"
  disk,         \* of each session: its stored entries
  agents,       \* of each session: the transcript of its harness's agent
  op            \* the operation under way

\* Auxiliary: the messages of the runs that returned, the kinds of
\* entries a session has been given, and counters.
VARIABLES told, mixed, used

sessionVars == << backend, disk, agents, op, told, mixed, used >>

Idle == [at |-> "idle", session |-> Main, entries |-> << >>, next |-> 0, summary |-> << >>]

Init ==
  /\ backend = "none"
  /\ disk = [s \in Sessions |-> << >>] /\ agents = [s \in Sessions |-> << >>]
  /\ op = Idle /\ told = [s \in Sessions |-> {}] /\ mixed = {}
  /\ used = [news |-> 0, compactions |-> 0, crashes |-> 0]

\* Creating the repository object.
ChooseBackend(b) ==
  /\ backend = "none" /\ backend' = b
  /\ UNCHANGED << disk, agents, op, told, mixed, used >>

-------------------------------------------------------------------------------
(* Messages, their wire form and the entries *)

User(n) == [kind |-> "user", text |-> << n >>, calls |-> << >>]
Assistant(n, calls) == [kind |-> "assistant", text |-> << n >>, calls |-> calls]
ToolResult(n, call) == [kind |-> "toolResult", text |-> << n >>, calls |-> << call >>]

\* An assistant message goes out as parts: its text, if any, then its calls.
Part(type, v) == [type |-> type, v |-> v]
ToWire(m) ==
  [role |-> m.kind,
   parts |-> [i \in DOMAIN m.text |-> Part("text", m.text[i])]
             \o [i \in DOMAIN m.calls |-> Part("toolCall", m.calls[i])]]

OfType(parts, type) ==
  LET picked == ElementsAt(parts, {i \in DOMAIN parts : parts[i].type = type})
  IN [i \in DOMAIN picked |-> picked[i].v]

\* A slip: only the text parts are read back.
FromWireText(w) == [kind |-> w.role, text |-> OfType(w.parts, "text"), calls |-> << >>]

FromWire(w) ==
  [kind |-> w.role, text |-> OfType(w.parts, "text"), calls |-> OfType(w.parts, "toolCall")]

Entry(seq, parent, kind, wire) == [seq |-> seq, parent |-> parent, kind |-> kind, wire |-> wire]
NoWire == [role |-> "none", parts |-> << >>]

\* transcriptFromEntries(): the other kinds are context, not conversation.
Messages(entries) == ElementsAt(entries, {i \in DOMAIN entries : entries[i].kind = "message"})
Transcript(entries) ==
  LET kept == Messages(entries) IN [i \in DOMAIN kept |-> FromWire(kept[i].wire)]

-------------------------------------------------------------------------------
(* The repositories *)

\* SQLite keys the rows by seq, the later one replacing the earlier, and reads
\* them back in that order.
RowOf(entries, seq) ==
  LET rows == {i \in DOMAIN entries : entries[i].seq = seq}
  IN entries[CHOOSE i \in rows : \A j \in rows : j <= i]
Stored(entries) ==
  IF backend = "jsonl" THEN entries
  ELSE LET seqs == {entries[i].seq : i \in DOMAIN entries}
       IN [k \in 1 .. Cardinality(seqs) |-> RowOf(entries, Nth(seqs, k))]

\* append() of a handle that holds these entries.
Write(s, entries) == disk' = [disk EXCEPT ![s] = Stored(entries)]

\* createEntry(): the next seq of the list it is made for.
Following(entries, kind, wire) ==
  Entry(Len(entries) + 1, IF entries = << >> THEN 0 ELSE Last(entries).seq, kind, wire)

-------------------------------------------------------------------------------
(* run() and resume() *)

\* The session is opened and the agent is given the conversation it holds.
Run(s) ==
  /\ backend # "none" /\ op.at = "idle" /\ used.news < MaxNews
  /\ op' = [Idle EXCEPT !.at = "running", !.session = s, !.entries = disk[s]]
  /\ agents' = [agents EXCEPT ![s] = Transcript(disk[s])]
  /\ UNCHANGED << backend, disk, told, mixed, used >>

\* What a run may add: the input, a reply, or a call, its result and a reply.
News(n) ==
  {<< User(n) >>, << User(n), Assistant(n + 1, << >>) >>,
   << User(n), Assistant(n + 1, << n >>), ToolResult(n + 2, n), Assistant(n + 3, << >>) >>}

AgentEnds(news, at, next) ==
  /\ op.at = "running"
  /\ agents' = [agents EXCEPT ![op.session] = @ \o news]
  /\ used' = [used EXCEPT !.news = @ + Len(news)]
  /\ op' = IF at = "idle" THEN Idle
           ELSE [op EXCEPT !.at = at, !.next = next]
  /\ UNCHANGED << backend, disk, told, mixed >>

AgentReturns(news) == AgentEnds(news, "persisting", Len(op.entries))
\* The run rejects: what it has said stays in memory only.
AgentThrows(news) == AgentEnds(news, "idle", 0)

\* persistTranscript(): the messages from the index that is the number of entries.
PersistNext ==
  LET messages == agents[op.session]  i == op.next IN
  /\ op.at = "persisting" /\ i < Len(messages)
  /\ LET entries == Append(op.entries, Entry(i + 1, i, "message", ToWire(messages[i + 1])))
     IN op' = [op EXCEPT !.entries = entries, !.next = i + 1] /\ Write(op.session, entries)
  /\ UNCHANGED << backend, agents, told, mixed, used >>

PersistDone ==
  /\ op.at = "persisting" /\ op.next >= Len(agents[op.session])
  /\ told' = [told EXCEPT ![op.session] = @ \cup ToSet(agents[op.session])]
  /\ op' = Idle
  /\ UNCHANGED << backend, disk, agents, mixed, used >>

-------------------------------------------------------------------------------
(* navigate(), compact() and a crash *)

\* branch(): the entries up to fromSeq under the new id, whatever it held; the
\* summary is numbered after the source's entries and appended in a second step.
Navigate(new, from, summarize) ==
  /\ backend # "none" /\ op.at = "idle" /\ new # Main /\ disk[new] = << >>
  /\ LET head == ElementsAt(disk[Main], {i \in DOMAIN disk[Main] : disk[Main][i].seq <= from})
         summary == [Following(disk[Main], "branch_summary", NoWire) EXCEPT !.parent = from]
     IN /\ Write(new, head)
        /\ told' = [told EXCEPT ![new] = told[Main] \cap ToSet(Transcript(head))]
        /\ mixed' = mixed \cup {<< new, e.kind >> : e \in ToSet(head)}
                     \cup (IF summarize THEN {<< new, "branch_summary" >>} ELSE {})
        /\ op' = IF summarize
                 THEN [Idle EXCEPT !.at = "summarizing", !.session = new,
                                   !.entries = Stored(head), !.summary = << summary >>]
                 ELSE Idle
  /\ UNCHANGED << backend, agents, used >>

AppendSummary ==
  /\ op.at = "summarizing"
  /\ Write(op.session, op.entries \o op.summary) /\ op' = Idle
  /\ UNCHANGED << backend, agents, told, mixed, used >>

CompactTo(s, entries) ==
  /\ backend # "none" /\ op.at = "idle" /\ used.compactions < MaxCompactions
  /\ Write(s, entries)
  /\ used' = [used EXCEPT !.compactions = @ + 1] /\ mixed' = mixed \cup {<< s, "compaction" >>}
  /\ UNCHANGED << backend, agents, op, told >>

\* A slip: only the retained tail is kept beside the summary.
CompactDropping(s, tail) ==
  CompactTo(s, SubSeq(disk[s], IF Len(disk[s]) > tail THEN Len(disk[s]) - tail + 1 ELSE 1, Len(disk[s]))
               \o << Following(disk[s], "compaction", NoWire) >>)

\* compact(): asked for by hand it always adds its entry, and drops none.
Compact(s, tail) ==
  CompactTo(s, Append(disk[s], Following(disk[s], "compaction", NoWire)))

\* The process ends in the middle of anything; the next one has a new agent.
Crash ==
  /\ used.crashes < MaxCrashes
  /\ used' = [used EXCEPT !.crashes = @ + 1]
  /\ op' = Idle /\ agents' = [s \in Sessions |-> << >>]
  /\ UNCHANGED << backend, disk, told, mixed >>

Next ==
  \/ \E b \in {"jsonl", "sqlite"} : ChooseBackend(b)
  \/ \E s \in Sessions : Run(s)
  \/ \E news \in News(used.news + 1) : AgentReturns(news) \/ AgentThrows(news)
  \/ PersistNext \/ PersistDone
  \/ \E new \in Branches, from \in 0..Len(disk[Main]), summarize \in BOOLEAN :
       Navigate(new, from, summarize)
  \/ AppendSummary
  \/ \E s \in Sessions, tail \in Tails : Compact(s, tail)
  \/ Crash

Spec == Init /\ [][Next]_sessionVars

-------------------------------------------------------------------------------
(* Properties *)

\* The state is of the expected shape.
SessionTypeOK ==
  /\ backend \in {"none", "jsonl", "sqlite"}
  /\ op.at \in {"idle", "running", "persisting", "summarizing"} /\ op.session \in Sessions
  /\ \A s \in Sessions : \A e \in ToSet(disk[s]) :
       e.seq \in Nat /\ e.parent \in Nat /\ e.kind \in {"message", "compaction", "branch_summary"}

Given(s, kind) == << s, kind >> \in mixed

\* A session that was given nothing but messages gives back, read anew, every message
\* of every run that returned, in order and with its calls, whatever runs failed
\* or crashed before and between them, and on a branch those up to where it left.
RunsPersisted ==
  op.at = "idle" =>
    \A s \in Sessions : Given(s, "compaction") \/ Given(s, "branch_summary") \/
      LET read == Transcript(disk[s])
      IN /\ told[s] \subseteq ToSet(read)
         /\ \A i, j \in DOMAIN read : i < j => read[i].text[1] < read[j].text[1]

\* No operation removes or reorders what a session has stored: not a run that
\* rewrites it from a handle, not a compaction, not a branch taken from it, nor a
\* crash.  (A branch with its summary breaks this in SQLite, where it may share
\* its seq with a later message.)
LogGrows ==
  [][ \A s \in Sessions :
        backend = "jsonl" \/ ~ Given(s, "branch_summary") =>
          IsPrefix(disk[s], disk'[s]) ]_sessionVars

\* What agent-harness.ts says of run: it persists every turn.
TurnsPersisted ==
  op.at = "idle" => \A s \in Sessions : told[s] \subseteq ToSet(Transcript(disk[s]))
=============================================================================
