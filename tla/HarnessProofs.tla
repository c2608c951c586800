------------------------------ MODULE HarnessProofs ------------------------------
(***************************************************************************)
(* Theorems about the agent of the harness and about the run protocol, for *)
(* any tools, options, responses and bounds.                               *)
(***************************************************************************)
EXTENDS Harness, SequenceLemmas, TLAPS

-------------------------------------------------------------------------------
(* Agent: the shape of its state *)

Impl == ToolNames \X {"global", "shadow"}
Answers == {"none", "deny"} \cup A!Allowing \cup {o.fallback : o \in AgentOptions}
Call == [id : Nat, name : ToolNames, wellFormed : BOOLEAN]
Stages == {"approval", "before", "execute", "after", "reject"}
Flights == [call : Call, run : Nat, stage : Stages, resolution : Answers]
Message == [role : {"user", "assistant", "toolResult"}, of : SUBSET Nat]
Loops == [at : {"idle", "top", "transform", "complete", "tools", "stopHook", "ending"},
          turns : Nat, toolCalls : Nat, todo : Seq(Call), last : BOOLEAN]
Pasts == [inputs : Nat, runs : Nat, steers : Nat, calls : Nat,
          asked : SUBSET [id : Nat, told : BOOLEAN], begun : SUBSET Nat,
          ran : SUBSET [impl : Impl, resolution : Answers], clean : BOOLEAN]

AgentTyped ==
  /\ options \in AgentOptions \cup {Unmade}
  /\ transcript \in Seq(Message) /\ pendingQueue \in Seq(Nat)
  /\ pendingMode \in {"one-at-a-time", "all"} /\ aborted \in BOOLEAN
  /\ loop \in Loops /\ flights \in SUBSET Flights /\ past \in Pasts

\* An agent does nothing before it is constructed.
AgentRests == options = Unmade => loop.at = "idle" /\ flights = {} /\ past.ran = {}

IdsOf(calls) == {calls[i].id : i \in DOMAIN calls}
DistinctIds(calls) == \A i, k \in DOMAIN calls : calls[i].id = calls[k].id => i = k

\* Only a batch has calls to run, each with an id of its own, and no more of them than the
\* budget allows.
LoopBounded ==
  /\ DistinctIds(loop.todo)
  /\ loop.at # "tools" => loop.todo = << >>
  /\ loop.toolCalls <= IF options = Unmade THEN 0 ELSE options.maxToolCalls

\* A risky call goes on only after a resolution that allows it.
FlightsPermitted ==
  \A f \in flights : f.stage \in {"before", "execute"} /\ A!Risky(f.call) =>
    f.resolution \in A!Allowing

-------------------------------------------------------------------------------
(* Agent: each call is in one place *)

\* The message at i answers the call.
AnswersAt(messages, i, id) ==
  i \in DOMAIN messages /\ messages[i].role = "toolResult" /\ id \in messages[i].of
AnsweredIn(messages) ==
  UNION {messages[i].of : i \in {k \in DOMAIN messages : messages[k].role = "toolResult"}}

\* No two of the messages answer the same call.
OnceIn(messages) ==
  \A id \in AnsweredIn(messages) : \A i, k \in DOMAIN messages :
    AnswersAt(messages, i, id) /\ AnswersAt(messages, k, id) => i = k

\* An assistant message makes the call, before any that answers it.
CallsAt(messages, i, id) ==
  i \in DOMAIN messages /\ messages[i].role = "assistant" /\ id \in messages[i].of
ToldIn(messages, id) ==
  \E i \in DOMAIN messages :
    /\ CallsAt(messages, i, id)
    /\ \A k \in DOMAIN messages : AnswersAt(messages, k, id) => i < k

InFlight(set) == {f.call.id : f \in set}
OfRun(set, run) == {f \in set : f.run = run}

\* A call that was asked for waits in the list, is in flight or has been answered; its id
\* is its own.
CallsApart ==
  /\ \A f, g \in flights : f.call.id = g.call.id => f = g
  /\ OnceIn(transcript)
  /\ IdsOf(loop.todo) \cap InFlight(flights) = {}
  /\ IdsOf(loop.todo) \cap AnsweredIn(transcript) = {}
  /\ InFlight(flights) \cap AnsweredIn(transcript) = {}
  /\ IdsOf(loop.todo) \cup InFlight(flights) \cup AnsweredIn(transcript) \subseteq 1 .. past.calls

\* A clean run loses no call: what it has not answered it is running or about to run.
CallsKept ==
  /\ past.clean => \A a \in past.asked :
       \/ a.id \in AnsweredIn(transcript)
       \/ loop.at = "tools" /\ a.id \in IdsOf(loop.todo) \cup InFlight(OfRun(flights, past.runs))
  /\ \A a \in past.asked : a.id \in 1 .. past.calls /\ (a.told => ToldIn(transcript, a.id))
  /\ aborted /\ loop.at # "idle" => ~ past.clean

-------------------------------------------------------------------------------
(* Messages and lists of calls *)

LEMMA AnsweredDef ==
  ASSUME NEW messages
  PROVE  /\ \A id : id \in AnsweredIn(messages) <=> \E i : AnswersAt(messages, i, id)
         /\ OnceIn(messages) <=>
              \A id, i, k : AnswersAt(messages, i, id) /\ AnswersAt(messages, k, id) => i = k
         /\ \A id : ToldIn(messages, id) <=>
              \E i : /\ CallsAt(messages, i, id)
                     /\ \A k : AnswersAt(messages, k, id) => i < k
<1>1. \A id : id \in AnsweredIn(messages) <=> \E i : AnswersAt(messages, i, id)
  BY DEF AnsweredIn, AnswersAt
<1>2. \A id, i : AnswersAt(messages, i, id) => i \in DOMAIN messages
  BY DEF AnswersAt
<1>3. \A id, i : CallsAt(messages, i, id) => i \in DOMAIN messages
  BY DEF CallsAt
<1> QED
  BY <1>1, <1>2, <1>3 DEF OnceIn, ToldIn

\* Messages are only ever pushed.
LEMMA MorePushed ==
  ASSUME NEW old \in Seq(Message), NEW more \in Seq(Message),
         OnceIn(old), OnceIn(more), AnsweredIn(old) \cap AnsweredIn(more) = {}
  PROVE  /\ old \o more \in Seq(Message) /\ OnceIn(old \o more)
         /\ AnsweredIn(old \o more) = AnsweredIn(old) \cup AnsweredIn(more)
         /\ \A id : ToldIn(old, id) => ToldIn(old \o more, id)
         /\ \A id : ToldIn(more, id) /\ id \notin AnsweredIn(old) => ToldIn(old \o more, id)
<1>1. PICK m \in Nat, n \in Nat : m = Len(old) /\ n = Len(more)
  BY LenProperties
<1>2. PICK all \in Seq(Message) : all = old \o more
  BY ConcatProperties
<1>3. DOMAIN old = 1 .. m /\ DOMAIN more = 1 .. n /\ DOMAIN all = 1 .. m + n
  BY <1>1, <1>2, ConcatProperties, LenProperties
<1>4. /\ \A i \in 1 .. m : all[i] = old[i]
      /\ \A i \in 1 .. n : all[m + i] = more[i]
      /\ \A i \in 1 .. m + n : i \in 1 .. m \/ \E k \in 1 .. n : i = m + k
      /\ \A i \in 1 .. n : m + i \in 1 .. m + n
      /\ 1 .. m \subseteq 1 .. m + n
  <2>1. \A i \in 1 .. m + n : all[i] = IF i <= m THEN old[i] ELSE more[i - m]
    BY <1>1, <1>2, ConcatProperties
  <2>2. \A i \in 1 .. m + n : i \in 1 .. m \/ (i - m \in 1 .. n /\ i = m + (i - m))
    BY <1>1
  <2>3. \A i \in 1 .. n : m + i \in 1 .. m + n /\ ~ (m + i <= m) /\ (m + i) - m = i
    BY <1>1
  <2>4. \A i \in 1 .. m : i \in 1 .. m + n /\ i <= m
    BY <1>1
  <2>5. \A i \in 1 .. m : all[i] = old[i]
    BY <2>1, <2>4
  <2>6. \A i \in 1 .. n : all[m + i] = more[i]
    BY <2>1, <2>3
  <2>7. \A i \in 1 .. m + n : i \in 1 .. m \/ \E k \in 1 .. n : i = m + k
    BY <2>2
  <2> QED
    BY <2>3, <2>4, <2>5, <2>6, <2>7
<1>5. \A i, id : AnswersAt(all, i, id) <=>
        \/ AnswersAt(old, i, id)
        \/ \E k : i = m + k /\ AnswersAt(more, k, id)
  <2>1. \A id : \A i \in 1 .. m : AnswersAt(all, i, id) <=> AnswersAt(old, i, id)
    BY <1>3, <1>4 DEF AnswersAt
  <2>2. \A id : \A k \in 1 .. n : AnswersAt(all, m + k, id) <=> AnswersAt(more, k, id)
    BY <1>3, <1>4 DEF AnswersAt
  <2>3. \A i, id : /\ AnswersAt(old, i, id) => i \in 1 .. m
                   /\ AnswersAt(more, i, id) => i \in 1 .. n
                   /\ AnswersAt(all, i, id) => i \in 1 .. m + n
    BY <1>3 DEF AnswersAt
  <2>4. ASSUME NEW i, NEW id, AnswersAt(all, i, id)
        PROVE  AnswersAt(old, i, id) \/ \E k : i = m + k /\ AnswersAt(more, k, id)
    <3>1. CASE i \in 1 .. m
      BY <2>1, <2>4, <3>1
    <3>2. CASE \E k \in 1 .. n : i = m + k
      BY <2>2, <2>4, <3>2
    <3> QED
      BY <1>4, <2>3, <2>4, <3>1, <3>2
  <2>5. ASSUME NEW i, NEW id, NEW k, i = m + k, AnswersAt(more, k, id)
        PROVE  AnswersAt(all, i, id)
    BY <2>2, <2>3, <2>5
  <2>6. \A i, id : AnswersAt(old, i, id) => AnswersAt(all, i, id)
    BY <2>1, <2>3
  <2> QED
    BY <2>4, <2>5, <2>6
<1>6. /\ \A i, id : CallsAt(old, i, id) => CallsAt(all, i, id)
      /\ \A i, id : CallsAt(more, i, id) => CallsAt(all, m + i, id)
  BY <1>3, <1>4 DEF CallsAt
<1>7. /\ \A i, id : AnswersAt(old, i, id) \/ CallsAt(old, i, id) => i \in 1 .. m
      /\ \A i, id : AnswersAt(more, i, id) \/ CallsAt(more, i, id) => i \in 1 .. n
      /\ \A i \in 1 .. m, k \in 1 .. n : i < m + k
      /\ \A i, k \in 1 .. n : i < k => m + i < m + k
  BY <1>3 DEF AnswersAt, CallsAt
<1>8. AnsweredIn(all) = AnsweredIn(old) \cup AnsweredIn(more)
  <2> SUFFICES ASSUME NEW id
               PROVE  id \in AnsweredIn(all) <=> id \in AnsweredIn(old) \/ id \in AnsweredIn(more)
    OBVIOUS
  <2> QED
    BY <1>5, AnsweredDef
<1>9. OnceIn(all)
  <2> SUFFICES ASSUME NEW i, NEW k, NEW id, AnswersAt(all, i, id), AnswersAt(all, k, id)
               PROVE  i = k
    BY AnsweredDef
  <2>1. ~ (id \in AnsweredIn(old) /\ id \in AnsweredIn(more))
    OBVIOUS
  <2> QED
    BY <1>5, <2>1, AnsweredDef
<1>10. ASSUME NEW id, ToldIn(old, id)
       PROVE  ToldIn(all, id)
  <2>1. PICK i : CallsAt(old, i, id) /\ \A k : AnswersAt(old, k, id) => i < k
    BY <1>10, AnsweredDef
  <2>2. \A k : AnswersAt(all, k, id) => i < k
    BY <1>5, <1>7, <2>1
  <2> QED
    BY <1>6, <2>1, <2>2, AnsweredDef
<1>11. ASSUME NEW id, ToldIn(more, id), id \notin AnsweredIn(old)
       PROVE  ToldIn(all, id)
  <2>1. PICK i : CallsAt(more, i, id) /\ \A k : AnswersAt(more, k, id) => i < k
    BY <1>11, AnsweredDef
  <2>2. \A k : AnswersAt(all, k, id) => m + i < k
    BY <1>5, <1>7, <1>11, <2>1, AnsweredDef
  <2> QED
    BY <1>6, <2>1, <2>2, AnsweredDef
<1> QED
  BY <1>2, <1>8, <1>9, <1>10, <1>11

ResultsOf(calls) == [i \in DOMAIN calls |-> A!Result(calls[i].id)]

\* The messages that answer the calls of a list.
LEMMA ResultsAnswer ==
  ASSUME NEW calls \in Seq(Call), DistinctIds(calls)
  PROVE  /\ ResultsOf(calls) \in Seq(Message) /\ OnceIn(ResultsOf(calls))
         /\ AnsweredIn(ResultsOf(calls)) = IdsOf(calls)
<1>1. PICK n \in Nat : n = Len(calls) /\ DOMAIN calls = 1 .. n
  BY LenProperties
<1>2. \A i \in 1 .. n : calls[i].id \in Nat
  <2>1. \A i \in 1 .. n : calls[i] \in Call
    BY <1>1, ElementOfSeq
  <2> QED
    BY <2>1 DEF Call
<1>3. PICK results : results = [i \in 1 .. n |-> [role |-> "toolResult", of |-> {calls[i].id}]]
  OBVIOUS
<1>4. ResultsOf(calls) = results
  BY <1>1, <1>3 DEF ResultsOf, A!Result
<1>5. \A i \in 1 .. n : [role |-> "toolResult", of |-> {calls[i].id}] \in Message
  BY <1>2 DEF Message
<1>6. results \in [1 .. n -> Message]
  BY <1>3, <1>5
<1>7. results \in Seq(Message) /\ DOMAIN results = 1 .. n
  BY <1>3, <1>6
<1>8. \A i, id : AnswersAt(results, i, id) <=> i \in 1 .. n /\ id = calls[i].id
  BY <1>3 DEF AnswersAt
<1>9. OnceIn(results)
  BY <1>1, <1>8, AnsweredDef DEF DistinctIds
<1>10. AnsweredIn(results) = IdsOf(calls)
  <2> SUFFICES ASSUME NEW id
               PROVE  id \in AnsweredIn(results) <=> id \in IdsOf(calls)
    OBVIOUS
  <2> QED
    BY <1>1, <1>8, AnsweredDef DEF IdsOf
<1> QED
  BY <1>4, <1>7, <1>9, <1>10

\* Part of a list of calls.
LEMMA PartOfCalls ==
  ASSUME NEW calls \in Seq(Call), NEW part \in Seq(Call), DistinctIds(calls),
         NEW place, \A i \in DOMAIN part : place[i] \in DOMAIN calls /\ part[i] = calls[place[i]],
         \A i, k \in DOMAIN part : i # k => place[i] # place[k]
  PROVE  DistinctIds(part) /\ IdsOf(part) \subseteq IdsOf(calls)
BY DEF DistinctIds, IdsOf

-------------------------------------------------------------------------------
(* Agent: what the operators of a step return *)

\* The implementation a name stands for is one of its own, which the scope shows.
LEMMA ResolveProperties ==
  ASSUME NEW name, NEW impl \in A!Resolve(name)
  PROVE  /\ impl[1] = name /\ impl \in {<< name, "global" >>, << name, "shadow" >>}
         /\ impl[1] \in options.tools => impl \in A!Visible
         /\ options.scoped => impl[1] \notin options.denies
<1>1. CASE ~ options.scoped
  BY <1>1 DEF A!Resolve, A!Fallback, A!Visible
<1>2. CASE options.scoped
  <2>1. name \notin options.denies
    BY <1>2 DEF A!Resolve
  <2>2. CASE name \in options.shadows
    BY <1>2, <2>1, <2>2 DEF A!Resolve, A!Visible
  <2>3. CASE name \notin options.shadows
    BY <1>2, <2>1, <2>3 DEF A!Resolve, A!Fallback, A!Visible
  <2> QED
    BY <2>2, <2>3
<1> QED
  BY <1>1, <1>2

\* The options of a made agent do not change, and neither does what names stand for.
LEMMA ResolveStays ==
  ASSUME options' = options
  PROVE  /\ \A call : A!Risky(call)' <=> A!Risky(call)
         /\ A!Visible' = A!Visible
BY DEF A!Risky, A!Resolve, A!Fallback, A!Visible

LEMMA RanProperties ==
  ASSUME NEW f, f.call.name \in ToolNames, f.resolution \in Answers
  PROVE  /\ A!Ran(f) \subseteq [impl : Impl, resolution : Answers]
         /\ \A r \in A!Ran(f) : /\ f.stage = "execute" /\ r.resolution = f.resolution
                                /\ r.impl \in A!Resolve(f.call.name)
<1> SUFFICES ASSUME NEW r \in A!Ran(f)
             PROVE  /\ r \in [impl : Impl, resolution : Answers]
                    /\ f.stage = "execute" /\ r.resolution = f.resolution
                    /\ r.impl \in A!Resolve(f.call.name)
  OBVIOUS
<1>1. PICK impl \in A!Resolve(f.call.name) : r = [impl |-> impl, resolution |-> f.resolution]
  BY DEF A!Ran
<1>2. f.stage = "execute"
  BY DEF A!Ran
<1>3. impl \in Impl
  BY <1>1, ResolveProperties DEF Impl
<1> QED
  BY <1>1, <1>2, <1>3

LEMMA StageTypes ==
  ASSUME NEW call \in Call
  PROVE  /\ A!FirstStage(call) \in Stages \cup {"answer"}
         /\ A!FirstStage(call) \in {"before", "execute"} => ~ A!Risky(call)
         /\ A!BeforeExecute(call) \in {"before", "execute", "after", "answer"}
         /\ A!ToExecute(call) \in {"execute", "after", "answer"}
         /\ A!AfterExecute \in {"after", "answer"}
<1>1. A!AfterExecute \in {"after", "answer"}
  BY DEF A!AfterExecute
<1>2. A!ToExecute(call) \in {"execute", "after", "answer"}
  BY <1>1 DEF A!ToExecute
<1>3. A!BeforeExecute(call) \in {"before", "execute", "after", "answer"}
  BY <1>2 DEF A!BeforeExecute
<1> QED
  BY <1>1, <1>2, <1>3 DEF A!FirstStage, Stages

\* What a step says of the run, but for what has been asked for and begun.
SameRun == past'.runs = past.runs /\ past'.calls = past.calls /\ past'.asked = past.asked

\* A call in flight goes on.
LEMMA DoMove ==
  ASSUME AgentTyped, NEW f \in flights, NEW stage \in Stages \cup {"answer"}, NEW r \in Answers,
         A!Move(f, stage, r)
  PROVE  /\ AgentTyped' /\ SameRun
         /\ past'.clean = past.clean /\ past'.begun = past.begun
         /\ UNCHANGED << options, loop, aborted >>
         /\ IF stage = "answer"
            THEN flights' = flights \ {f} /\ transcript' = Append(transcript, A!Result(f.call.id))
            ELSE /\ transcript' = transcript
                 /\ \E g \in Flights : /\ g.call = f.call /\ g.run = f.run
                                       /\ g.stage = stage /\ g.resolution = r
                                       /\ flights' = (flights \ {f}) \cup {g}
         /\ \A x \in past'.ran : \/ x \in past.ran
                                 \/ /\ stage = "execute" /\ x.resolution = r
                                    /\ x.impl \in A!Resolve(f.call.name)
<1>1. f \in Flights /\ past \in Pasts /\ transcript \in Seq(Message)
  BY DEF AgentTyped
<1>2. PICK g : g = [f EXCEPT !.stage = stage, !.resolution = r]
  OBVIOUS
<1>3. g.call = f.call /\ g.run = f.run /\ g.stage = stage /\ g.resolution = r
  BY <1>1, <1>2 DEF Flights
<1>4. stage # "answer" => g \in Flights
  BY <1>1, <1>2 DEF Flights
<1>5. /\ flights' = (flights \ {f}) \cup (IF stage = "answer" THEN {} ELSE {g})
      /\ transcript' = IF stage = "answer" THEN Append(transcript, A!Result(f.call.id))
                       ELSE transcript
      /\ past' = [past EXCEPT !.ran = @ \cup A!Ran(g)]
      /\ UNCHANGED << options, pendingQueue, pendingMode, aborted, loop >>
  BY <1>2 DEF A!Move
<1>6. f.call \in Call /\ f.call.id \in Nat /\ f.call.name \in ToolNames
  BY <1>1 DEF Flights, Call
<1>7. /\ A!Ran(g) \subseteq [impl : Impl, resolution : Answers]
      /\ \A x \in A!Ran(g) : /\ stage = "execute" /\ x.resolution = r
                             /\ x.impl \in A!Resolve(f.call.name)
  BY <1>3, <1>6, RanProperties
<1>8. past' \in Pasts /\ past'.ran = past.ran \cup A!Ran(g)
  BY <1>1, <1>5, <1>7 DEF Pasts
<1>9. SameRun /\ past'.clean = past.clean /\ past'.begun = past.begun
  BY <1>1, <1>5 DEF Pasts, SameRun
<1>10. A!Result(f.call.id) \in Message
  BY <1>6 DEF A!Result, Message
<1>11. transcript' \in Seq(Message) /\ flights' \in SUBSET Flights
  BY <1>1, <1>4, <1>5, <1>10 DEF AgentTyped
<1> QED
  BY <1>3, <1>4, <1>5, <1>7, <1>8, <1>9, <1>11 DEF AgentTyped

\* What the instance says of sequences is what this module says of them.
LEMMA SameOperators ==
  /\ \A s, at : A!ElementsAt(s, at) = ElementsAt(s, at)
  /\ \A s : A!ToSet(s) = ToSet(s)
  /\ \A S : A!Cardinality(S) = Cardinality(S)
BY DEF A!ToSet, ToSet, A!ElementsAt, ElementsAt, A!Nth, Nth, A!Cardinality, Cardinality

\* A batch begins: some of its calls are answered at once, the others are in flight.
Begins(batch, ready, new) ==
  /\ ready \in Seq(Call) /\ new \in SUBSET Flights
  /\ DistinctIds(ready) /\ IdsOf(ready) \cap InFlight(new) = {}
  /\ IdsOf(ready) \cup InFlight(new) = IdsOf(batch)
  /\ \A f, g \in new : f.call.id = g.call.id => f = g

LEMMA DoBegin ==
  ASSUME AgentTyped, NEW batch \in Seq(Call), DistinctIds(batch), A!BeginCalls(batch)
  PROVE  \E ready, new :
           /\ Begins(batch, ready, new)
           /\ transcript' = transcript \o ResultsOf(ready) /\ flights' = flights \cup new
           /\ \A f \in new : /\ f.run = past.runs
                             /\ f.stage \in {"before", "execute"} => ~ A!Risky(f.call)
           /\ past' \in Pasts /\ SameRun /\ past'.clean = past.clean
           /\ past'.begun = past.begun \cup IdsOf(batch)
           /\ \A x \in past'.ran : \/ x \in past.ran
                                   \/ \E call \in Call : /\ x.impl \in A!Resolve(call.name)
                                                         /\ ~ A!Risky(call)
<1>1. PICK n \in Nat : n = Len(batch) /\ DOMAIN batch = 1 .. n /\ \A i \in 1 .. n : batch[i] \in Call
  BY LenProperties, ElementOfSeq
<1>2. PICK all : all = {A!Flight(batch[i], A!FirstStage(batch[i]), "none") : i \in 1 .. n}
  OBVIOUS
<1>3. PICK new : new = {f \in all : f.stage # "answer"}
  OBVIOUS
<1>4. PICK at \in SUBSET DOMAIN batch : at = {i \in DOMAIN batch : A!FirstStage(batch[i]) = "answer"}
  OBVIOUS
<1>5. PICK ready : ready = ElementsAt(batch, at)
  OBVIOUS
<1>6. /\ flights' = flights \cup new
      /\ transcript' = transcript \o [i \in DOMAIN ready |-> A!Result(ready[i].id)]
      /\ past' = [past EXCEPT !.begun = @ \cup {c.id : c \in ToSet(batch)},
                              !.ran = @ \cup UNION {A!Ran(f) : f \in all}]
  BY <1>1, <1>2, <1>3, <1>4, <1>5, SameOperators DEF A!BeginCalls
<1>7. \A i \in 1 .. n :
        /\ batch[i].id \in Nat /\ batch[i].name \in ToolNames
        /\ A!FirstStage(batch[i]) \in Stages \cup {"answer"}
        /\ A!FirstStage(batch[i]) \in {"before", "execute"} => ~ A!Risky(batch[i])
  <2> SUFFICES ASSUME NEW i \in 1 .. n
               PROVE  /\ batch[i].id \in Nat /\ batch[i].name \in ToolNames
                      /\ A!FirstStage(batch[i]) \in Stages \cup {"answer"}
                      /\ A!FirstStage(batch[i]) \in {"before", "execute"} => ~ A!Risky(batch[i])
    OBVIOUS
  <2>1. PICK call \in Call : call = batch[i]
    BY <1>1
  <2> QED
    BY <2>1, StageTypes DEF Call
<1>8. \A f \in all : \E i \in 1 .. n :
        /\ f.call = batch[i] /\ f.run = past.runs /\ f.stage = A!FirstStage(batch[i])
        /\ f.resolution = "none"
        /\ f = [call |-> batch[i], run |-> past.runs, stage |-> A!FirstStage(batch[i]),
                resolution |-> "none"]
  BY <1>2 DEF A!Flight
<1>9. \A i \in 1 .. n : \E f \in all : f.call = batch[i] /\ f.stage = A!FirstStage(batch[i])
  <2> SUFFICES ASSUME NEW i \in 1 .. n
               PROVE  \E f \in all : f.call = batch[i] /\ f.stage = A!FirstStage(batch[i])
    OBVIOUS
  <2>1. PICK f : f = A!Flight(batch[i], A!FirstStage(batch[i]), "none")
    OBVIOUS
  <2>2. f.call = batch[i] /\ f.stage = A!FirstStage(batch[i])
    BY <2>1 DEF A!Flight
  <2> QED
    BY <1>2, <2>1, <2>2
<1>10. \A f \in new : \E i \in 1 .. n : i \notin at /\ f.call = batch[i]
  BY <1>1, <1>3, <1>4, <1>8
<1>11. \A i \in 1 .. n : i \in at \/ \E f \in new : f.call = batch[i]
  BY <1>1, <1>3, <1>4, <1>9
<1>12. new \in SUBSET Flights
  <2>1. past.runs \in Nat
    BY DEF AgentTyped, Pasts
  <2> QED
    BY <1>1, <1>3, <1>7, <1>8, <2>1 DEF Flights, Answers
<1>13. /\ ready \in Seq(Call) /\ DOMAIN ready = 1 .. Len(ready)
       /\ \A k \in DOMAIN ready : Nth(at, k) \in at /\ ready[k] = batch[Nth(at, k)]
       /\ \A k, l \in DOMAIN ready : k # l => Nth(at, k) # Nth(at, l)
       /\ \A i \in at : \E k \in DOMAIN ready : ready[k] = batch[i]
  <2>1. PICK size \in Nat : size = Cardinality(at)
    BY ElementsAtProperties
  <2>2. ready \in Seq(Call) /\ Len(ready) = size
    BY <1>5, <2>1, ElementsAtProperties
  <2>3. DOMAIN ready = 1 .. size
    BY <2>2, LenProperties
  <2>4. /\ \A k \in 1 .. size : Nth(at, k) \in at /\ ready[k] = batch[Nth(at, k)]
        /\ \A k, l \in 1 .. size : k < l => Nth(at, k) < Nth(at, l)
        /\ \A i \in at : \E k \in 1 .. size : ready[k] = batch[i]
    BY <1>5, <2>1, ElementsAtProperties
  <2>5. \A k, l \in 1 .. size : k # l => Nth(at, k) # Nth(at, l)
    <3> SUFFICES ASSUME NEW k \in 1 .. size, NEW l \in 1 .. size, k # l
                 PROVE  Nth(at, k) # Nth(at, l)
      OBVIOUS
    <3>1. Nth(at, k) \in 1 .. n /\ Nth(at, l) \in 1 .. n
      BY <1>1, <2>4
    <3>2. k < l \/ l < k
      BY <2>1
    <3> QED
      BY <2>4, <3>1, <3>2
  <2> QED
    BY <2>2, <2>3, <2>4, <2>5
<1>14. DistinctIds(ready)
  BY <1>1, <1>13 DEF DistinctIds
<1>15. IdsOf(ready) \cap InFlight(new) = {}
  <2> SUFFICES ASSUME NEW k \in DOMAIN ready, NEW f \in new, ready[k].id = f.call.id
               PROVE  FALSE
    BY DEF IdsOf, InFlight
  <2>1. PICK i \in 1 .. n : i \notin at /\ f.call = batch[i]
    BY <1>10
  <2>2. PICK l \in 1 .. n : l \in at /\ ready[k] = batch[l]
    BY <1>1, <1>13
  <2> QED
    BY <1>1, <2>1, <2>2 DEF DistinctIds
<1>16. IdsOf(ready) \cup InFlight(new) = IdsOf(batch)
  <2> SUFFICES ASSUME NEW id
               PROVE  id \in IdsOf(ready) \/ id \in InFlight(new) <=> id \in IdsOf(batch)
    OBVIOUS
  <2>1. id \in IdsOf(ready) => id \in IdsOf(batch)
    BY <1>13 DEF IdsOf
  <2>2. id \in InFlight(new) => id \in IdsOf(batch)
    BY <1>1, <1>10 DEF IdsOf, InFlight
  <2>3. ASSUME NEW i \in 1 .. n, id = batch[i].id
        PROVE  id \in IdsOf(ready) \/ id \in InFlight(new)
    BY <1>11, <1>13, <2>3 DEF IdsOf, InFlight
  <2> QED
    BY <1>1, <2>1, <2>2, <2>3 DEF IdsOf
<1>17. \A f, g \in new : f.call.id = g.call.id => f = g
  <2> SUFFICES ASSUME NEW f \in new, NEW g \in new, f.call.id = g.call.id
               PROVE  f = g
    OBVIOUS
  <2>1. PICK i \in 1 .. n : f.call = batch[i] /\
          f = [call |-> batch[i], run |-> past.runs, stage |-> A!FirstStage(batch[i]),
               resolution |-> "none"]
    BY <1>3, <1>8
  <2>2. PICK k \in 1 .. n : g.call = batch[k] /\
          g = [call |-> batch[k], run |-> past.runs, stage |-> A!FirstStage(batch[k]),
               resolution |-> "none"]
    BY <1>3, <1>8
  <2>3. i = k
    BY <1>1, <2>1, <2>2 DEF DistinctIds
  <2> QED
    BY <2>1, <2>2, <2>3
<1>18. \A f \in new : /\ f.run = past.runs
                      /\ f.stage \in {"before", "execute"} => ~ A!Risky(f.call)
  BY <1>3, <1>7, <1>8
<1>19. \A f \in all : /\ A!Ran(f) \subseteq [impl : Impl, resolution : Answers]
                      /\ \A x \in A!Ran(f) : \E call \in Call : /\ x.impl \in A!Resolve(call.name)
                                                                /\ ~ A!Risky(call)
  <2> SUFFICES ASSUME NEW f \in all
               PROVE  /\ A!Ran(f) \subseteq [impl : Impl, resolution : Answers]
                      /\ \A x \in A!Ran(f) : \E call \in Call : /\ x.impl \in A!Resolve(call.name)
                                                                /\ ~ A!Risky(call)
    OBVIOUS
  <2>1. PICK i \in 1 .. n : f.call = batch[i] /\ f.stage = A!FirstStage(batch[i]) /\ f.resolution = "none"
    BY <1>8
  <2>2. f.call.name \in ToolNames /\ f.resolution \in Answers
    BY <1>7, <2>1 DEF Answers
  <2>3. /\ A!Ran(f) \subseteq [impl : Impl, resolution : Answers]
        /\ \A x \in A!Ran(f) : f.stage = "execute" /\ x.impl \in A!Resolve(f.call.name)
    BY <2>2, RanProperties
  <2>4. f.call \in Call
    BY <1>1, <2>1
  <2>5. f.stage = "execute" => ~ A!Risky(f.call)
    BY <1>7, <2>1
  <2> QED
    BY <2>3, <2>4, <2>5
<1>20. {c.id : c \in ToSet(batch)} = IdsOf(batch)
  <2>1. ToSet(batch) = {batch[i] : i \in 1 .. n}
    BY <1>1, ElementsOf
  <2> QED
    BY <1>1, <2>1 DEF IdsOf
<1>21. IdsOf(batch) \subseteq Nat
  BY <1>1, <1>7 DEF IdsOf
<1>22. /\ past' \in Pasts /\ SameRun /\ past'.clean = past.clean
       /\ past'.begun = past.begun \cup IdsOf(batch)
       /\ past'.ran = past.ran \cup UNION {A!Ran(f) : f \in all}
  <2>1. UNION {A!Ran(f) : f \in all} \subseteq [impl : Impl, resolution : Answers]
    BY <1>19
  <2>2. past \in Pasts
    BY DEF AgentTyped
  <2> QED
    BY <1>6, <1>20, <1>21, <2>1, <2>2 DEF Pasts, SameRun
<1>23. \A x \in past'.ran : \/ x \in past.ran
                            \/ \E call \in Call : x.impl \in A!Resolve(call.name) /\ ~ A!Risky(call)
  BY <1>19, <1>22
<1>24. Begins(batch, ready, new)
  BY <1>12, <1>13, <1>14, <1>15, <1>16, <1>17 DEF Begins
<1> QED
  BY <1>6, <1>18, <1>22, <1>23, <1>24 DEF ResultsOf

\* The head of the while loop: messages of the user are pushed, and calls are as they were.
LEMMA DoEnter ==
  ASSUME NEW turns \in Nat, NEW ran \in Nat, NEW queue \in Seq(Nat),
         NEW history \in Seq(Message), NEW stop, options \in AgentOptions,
         A!Enter(turns, ran, queue, history, stop)
  PROVE  /\ pendingQueue' \in Seq(Nat) /\ loop' \in Loops
         /\ loop'.todo = << >> /\ loop'.toolCalls = ran
         /\ loop'.at \in {"ending", "transform", "complete"}
         /\ loop'.turns > turns => ~ stop
         /\ stop => loop'.at = "ending"
         /\ \E more \in Seq(Message) : /\ transcript' = history \o more
                                       /\ AnsweredIn(more) = {} /\ OnceIn(more)
<1>1. PICK n \in Nat : n = Len(queue) /\ \A i \in 1 .. n : queue[i] \in Nat
  BY LenProperties, ElementOfSeq
<1>2. PICK m \in 0 .. n : m = IF pendingMode' = "all" THEN Len(queue)
                              ELSE IF queue = << >> THEN 0 ELSE 1
  <2>1. queue # << >> => n # 0
    BY <1>1, EmptySeq
  <2> QED
    BY <1>1, <2>1
<1>3. PICK open : open = (~ stop /\ turns + 1 <= options.maxTurns)
  OBVIOUS
<1>4. /\ pendingQueue' = IF open THEN SubSeq(queue, m + 1, Len(queue)) ELSE queue
      /\ transcript' = IF open THEN history \o [i \in 1 .. m |-> A!User(queue[i])] ELSE history
      /\ loop' = [A!NoLoop EXCEPT
                    !.at = IF ~ open THEN "ending"
                           ELSE IF "transform" \in options.hooks THEN "transform"
                           ELSE "complete",
                    !.turns = IF stop THEN turns ELSE turns + 1,
                    !.toolCalls = ran]
  BY <1>2, <1>3 DEF A!Enter
<1>5. pendingQueue' \in Seq(Nat)
  <2>1. SubSeq(queue, m + 1, n) \in Seq(Nat)
    <3>1. \A i \in m + 1 .. n : queue[i] \in Nat
      BY <1>1
    <3> QED
      BY <1>1, <3>1, SubSeqProperties
  <2> QED
    BY <1>1, <1>4, <2>1
<1>6. << >> \in Seq(Call)
  OBVIOUS
<1>71. PICK at, new : /\ at = IF ~ open THEN "ending"
                             ELSE IF "transform" \in options.hooks THEN "transform"
                             ELSE "complete"
                      /\ new = IF stop THEN turns ELSE turns + 1
  OBVIOUS
<1>72. /\ at \in {"ending", "transform", "complete"}
       /\ stop => at = "ending"
       /\ new \in Nat
       /\ new > turns => ~ stop
  <2>1. CASE stop
    <3>1. ~ open /\ at = "ending" /\ new = turns
      BY <1>3, <1>71, <2>1
    <3> QED
      BY <3>1
  <2>2. CASE ~ stop
    <3>1. new = turns + 1 /\ at \in {"ending", "transform", "complete"}
      BY <1>71, <2>2
    <3> QED
      BY <2>2, <3>1
  <2> QED
    BY <2>1, <2>2
<1>73. loop' = [at |-> at, turns |-> new, toolCalls |-> ran, todo |-> << >>, last |-> FALSE]
  BY <1>4, <1>71 DEF A!NoLoop
<1>74. /\ loop' \in Loops /\ loop'.todo = << >> /\ loop'.toolCalls = ran
       /\ loop'.at \in {"ending", "transform", "complete"}
       /\ loop'.turns > turns => ~ stop
       /\ stop => loop'.at = "ending"
   BY <1>6, <1>72, <1>73 DEF Loops
<1>8. PICK more : more = IF open THEN [i \in 1 .. m |-> A!User(queue[i])] ELSE << >>
  OBVIOUS
<1>9. more \in Seq(Message) /\ \A i \in DOMAIN more : more[i].role # "toolResult"
  <2>1. CASE open
    <3>1. \A i \in 1 .. m : A!User(queue[i]) \in Message /\ A!User(queue[i]).role = "user"
      BY <1>1 DEF A!User, Message
    <3>2. more \in [1 .. m -> Message] /\ \A i \in 1 .. m : more[i].role = "user"
      BY <1>8, <2>1, <3>1
    <3> QED
      BY <3>2
  <2>2. CASE ~ open
    BY <1>8, <2>2
  <2> QED
    BY <2>1, <2>2
<1>10. AnsweredIn(more) = {} /\ OnceIn(more)
  BY <1>9, AnsweredDef DEF AnswersAt
<1>11. transcript' = history \o more
  <2>1. history \o << >> = history
    BY ConcatEmptySeq
  <2> QED
    BY <1>4, <1>8, <2>1
<1> QED
  BY <1>5, <1>74, <1>9, <1>10, <1>11

\* The calls of a response get the next ids.
LEMMA CallsProperties ==
  ASSUME AgentAssumption, past \in Pasts, NEW list \in Requested, NEW calls, calls = A!Calls(list)
  PROVE  /\ calls \in Seq(Call) /\ Len(calls) = Len(list) /\ DistinctIds(calls)
         /\ \A i \in DOMAIN calls : calls[i].id = past.calls + i
         /\ A!Ids(calls) = IdsOf(calls)
         /\ IdsOf(calls) \subseteq past.calls + 1 .. past.calls + Len(calls)
<1>1. PICK n \in Nat : n = Len(list) /\ DOMAIN list = 1 .. n
                       /\ \A i \in 1 .. n : list[i] \in ToolNames \X BOOLEAN
  BY LenProperties, ElementOfSeq DEF AgentAssumption
<1>2. past.calls \in Nat
  BY DEF Pasts
<1>3. \A i \in 1 .. n : [id |-> past.calls + i, name |-> list[i][1],
                         wellFormed |-> list[i][2]] \in Call
  BY <1>1, <1>2 DEF Call
<1>4. calls = [i \in 1 .. n |-> [id |-> past.calls + i, name |-> list[i][1],
                                 wellFormed |-> list[i][2]]]
  BY <1>1 DEF A!Calls
<1>5. calls \in [1 .. n -> Call]
  BY <1>3, <1>4
<1>6. calls \in Seq(Call) /\ Len(calls) = n /\ DOMAIN calls = 1 .. n
  BY <1>5
<1>7. \A i \in 1 .. n : calls[i].id = past.calls + i
  BY <1>4
<1>8. DistinctIds(calls)
  BY <1>2, <1>6, <1>7 DEF DistinctIds
<1>9. IdsOf(calls) \subseteq past.calls + 1 .. past.calls + n
  BY <1>2, <1>6, <1>7 DEF IdsOf
<1>10. A!Ids(calls) = {c.id : c \in ToSet(calls)}
  BY SameOperators DEF A!Ids
<1>11. ToSet(calls) = {calls[i] : i \in 1 .. n}
  BY <1>6, ElementsOf
<1>12. {c.id : c \in ToSet(calls)} = IdsOf(calls)
  BY <1>6, <1>11 DEF IdsOf
<1> QED
  BY <1>1, <1>6, <1>7, <1>8, <1>9, <1>10, <1>12

AskedOf(calls, text) == {[id |-> id, told |-> text] : id \in IdsOf(calls)}

\* What a response pushes before any answer, and what it asks for.
LEMMA DoAsk ==
  ASSUME AgentTyped, AgentAssumption, NEW list \in Requested, NEW text \in BOOLEAN,
         NEW calls, calls = A!Calls(list)
  PROVE  /\ \E first \in Seq(Message) :
              /\ A!Answered(calls, text) = transcript \o first
              /\ AnsweredIn(first) = {} /\ OnceIn(first)
              /\ text => \A id \in IdsOf(calls) : ToldIn(first, id)
         /\ AskedOf(calls, text) \subseteq [id : Nat, told : BOOLEAN]
         /\ A!Asking(calls, text) =
              [past EXCEPT !.calls = @ + Len(calls), !.asked = @ \cup AskedOf(calls, text)]
         /\ A!Asking(calls, text) \in Pasts
<1>1. past \in Pasts /\ transcript \in Seq(Message)
  BY DEF AgentTyped
<1>2. /\ calls \in Seq(Call) /\ A!Ids(calls) = IdsOf(calls)
      /\ IdsOf(calls) \subseteq past.calls + 1 .. past.calls + Len(calls)
      /\ Len(calls) \in Nat /\ past.calls \in Nat
  BY <1>1, CallsProperties, LenProperties DEF Pasts
<1>3. IdsOf(calls) \subseteq Nat
  BY <1>2
<1>4. PICK message \in Message : /\ message = A!Assistant(IdsOf(calls))
                                 /\ message.role = "assistant" /\ message.of = IdsOf(calls)
  <2>1. PICK message : message = [role |-> "assistant", of |-> IdsOf(calls)]
    OBVIOUS
  <2>2. message \in Message /\ message.role = "assistant" /\ message.of = IdsOf(calls)
    BY <1>3, <2>1 DEF Message
  <2> QED
    BY <2>1, <2>2 DEF A!Assistant
<1>5. PICK first : first = IF text THEN << message >> ELSE << >>
  OBVIOUS
<1>6. first \in Seq(Message) /\ A!Answered(calls, text) = transcript \o first
  <2>1. CASE text
    <3>1. A!Answered(calls, text) = Append(transcript, message)
      BY <1>2, <1>4, <2>1 DEF A!Answered
    <3>2. first = << message >> /\ first \in Seq(Message)
      BY <1>5, <2>1
    <3> QED
      BY <1>1, <3>1, <3>2, AppendIsConcat
  <2>2. CASE ~ text
    <3>1. A!Answered(calls, text) = transcript /\ first = << >>
      BY <1>5, <2>2 DEF A!Answered
    <3> QED
      BY <1>1, <3>1, ConcatEmptySeq
  <2> QED
    BY <2>1, <2>2
<1>7. \A i, id : ~ AnswersAt(first, i, id)
  BY <1>4, <1>5 DEF AnswersAt
<1>8. AnsweredIn(first) = {} /\ OnceIn(first)
  BY <1>7, AnsweredDef
<1>9. ASSUME text
      PROVE  \A id \in IdsOf(calls) : ToldIn(first, id)
  <2>1. \A id \in IdsOf(calls) : CallsAt(first, 1, id)
    BY <1>4, <1>5, <1>9 DEF CallsAt
  <2> QED
    BY <1>7, <2>1, AnsweredDef
<1>10. PICK asked : asked = AskedOf(calls, text)
  OBVIOUS
<1>11. asked \in SUBSET [id : Nat, told : BOOLEAN]
  BY <1>3, <1>10 DEF AskedOf
<1>12. A!Asking(calls, text) = [past EXCEPT !.calls = @ + Len(calls), !.asked = @ \cup asked]
  BY <1>2, <1>10 DEF A!Asking, AskedOf
<1>13. A!Asking(calls, text) \in Pasts
  <2>1. PICK n \in Nat : n = past.calls + Len(calls)
    BY <1>2
  <2>2. A!Asking(calls, text) = [past EXCEPT !.calls = n, !.asked = @ \cup asked]
    BY <1>12, <2>1
  <2> QED
    BY <1>1, <1>11, <2>2 DEF Pasts
<1> QED
  BY <1>6, <1>8, <1>9, <1>10, <1>11, <1>12, <1>13

\* A response that calls tools: what it pushes, and which of its calls are left to run.
Replied(calls, text, more, todo) ==
  /\ more \in Seq(Message) /\ OnceIn(more)
  /\ todo \in Seq(Call) /\ DistinctIds(todo)
  /\ IdsOf(todo) \cap AnsweredIn(more) = {}
  /\ IdsOf(todo) \cup AnsweredIn(more) \subseteq IdsOf(calls)
  /\ text => \A id \in IdsOf(calls) : ToldIn(more, id)

LEMMA FirstThenAnswers ==
  ASSUME NEW calls \in Seq(Call), NEW text \in BOOLEAN, NEW first \in Seq(Message),
         NEW part \in Seq(Call), NEW todo \in Seq(Call),
         DistinctIds(part), DistinctIds(todo), IdsOf(part) \cap IdsOf(todo) = {},
         IdsOf(part) \cup IdsOf(todo) \subseteq IdsOf(calls),
         AnsweredIn(first) = {}, OnceIn(first),
         text => \A id \in IdsOf(calls) : ToldIn(first, id)
  PROVE  /\ Replied(calls, text, first \o ResultsOf(part), todo)
         /\ AnsweredIn(first \o ResultsOf(part)) = IdsOf(part)
<1>1. PICK results \in Seq(Message) : /\ results = ResultsOf(part) /\ OnceIn(results)
                                      /\ AnsweredIn(results) = IdsOf(part)
  BY ResultsAnswer
<1>2. /\ first \o results \in Seq(Message) /\ OnceIn(first \o results)
      /\ AnsweredIn(first \o results) = {} \cup IdsOf(part)
      /\ \A id : ToldIn(first, id) => ToldIn(first \o results, id)
  BY <1>1, MorePushed
<1> QED
  BY <1>1, <1>2 DEF Replied

\* A response cut off by its length, of which only the first call is answered.
LEMMA DoTruncate ==
  ASSUME AgentTyped, AgentAssumption, NEW list \in Requested, NEW text \in BOOLEAN,
         NEW calls, calls = A!Calls(list), A!RepliesTruncated(list, text)
  PROVE  /\ \E more : /\ Replied(calls, text, more, << >>)
                      /\ transcript' = transcript \o more
         /\ past' = [A!Asking(calls, text) EXCEPT !.clean = FALSE]
<1>1. /\ calls \in Seq(Call) /\ Len(calls) = Len(list) /\ DistinctIds(calls)
      /\ \A i \in DOMAIN calls : calls[i].id = past.calls + i
  BY CallsProperties DEF AgentTyped
<1>2. calls # << >>
  <2>1. list # << >> /\ list \in Seq(ToolNames \X BOOLEAN)
    BY DEF A!RepliesTruncated, AgentAssumption
  <2>2. Len(list) # 0 /\ Len(calls) # 0
    BY <1>1, <2>1, EmptySeq
  <2> QED
    BY <2>2
<1>3. PICK call \in Call : call = Head(calls) /\ 1 \in DOMAIN calls /\ call = calls[1]
  BY <1>1, <1>2
<1>40. PICK part : part = << call >>
  OBVIOUS
<1>4. part \in Seq(Call)
  BY <1>40
<1>5. PICK first \in Seq(Message) :
        /\ A!Answered(calls, text) = transcript \o first
        /\ AnsweredIn(first) = {} /\ OnceIn(first)
        /\ text => \A id \in IdsOf(calls) : ToldIn(first, id)
  BY DoAsk
<1>6. /\ DistinctIds(part) /\ DistinctIds(<< >>) /\ IdsOf(<< >>) = {}
      /\ IdsOf(part) \subseteq IdsOf(calls) /\ << >> \in Seq(Call)
  <2>1. DOMAIN part = {1} /\ part[1] = calls[1]
    BY <1>3, <1>4, <1>40
  <2> QED
    BY <1>3, <2>1 DEF DistinctIds, IdsOf
<1>7. Replied(calls, text, first \o ResultsOf(part), << >>)
  <2>1. IdsOf(part) \cap IdsOf(<< >>) = {} /\ IdsOf(part) \cup IdsOf(<< >>) \subseteq IdsOf(calls)
    BY <1>6
  <2> QED
    BY <1>1, <1>4, <1>5, <1>6, <2>1, FirstThenAnswers
<1>8. PICK message \in Message : message = A!Result(call.id)
  <2>1. call.id \in Nat
    BY DEF Call
  <2> QED
    BY <2>1 DEF A!Result, Message
<1>9. ResultsOf(part) = << message >>
  BY <1>4, <1>40, <1>8 DEF ResultsOf
<1>10. transcript' = Append(transcript \o first, message)
  BY <1>3, <1>5, <1>8 DEF A!RepliesTruncated
<1>11. transcript' = transcript \o (first \o << message >>)
  <2>1. transcript \in Seq(Message) /\ << message >> \in Seq(Message)
    BY DEF AgentTyped
  <2>2. /\ transcript \o first \in Seq(Message)
        /\ transcript' = (transcript \o first) \o << message >>
    BY <1>5, <1>10, <2>1, ConcatProperties, AppendIsConcat
  <2> QED
    BY <1>5, <2>1, <2>2, ConcatAssociative
<1>12. past' = [A!Asking(calls, text) EXCEPT !.clean = FALSE]
  BY DEF A!RepliesTruncated
<1> QED
  BY <1>7, <1>9, <1>11, <1>12

\* A response whose calls are a batch, as many of them as fit the budget.
LEMMA DoReply ==
  ASSUME AgentTyped, AgentAssumption, options \in AgentOptions,
         loop.toolCalls <= options.maxToolCalls,
         NEW list \in Requested, NEW text \in BOOLEAN,
         NEW calls, calls = A!Calls(list), A!RepliesCalls(list, text)
  PROVE  /\ \E more, todo : /\ Replied(calls, text, more, todo)
                            /\ IdsOf(calls) = AnsweredIn(more) \cup IdsOf(todo)
                            /\ transcript' = transcript \o more /\ loop'.todo = todo
         /\ past' = A!Asking(calls, text)
         /\ loop' \in Loops /\ loop'.at = "tools" /\ loop'.toolCalls <= options.maxToolCalls
<1>1. PICK n \in Nat : /\ calls \in Seq(Call) /\ n = Len(calls) /\ DistinctIds(calls)
                       /\ DOMAIN calls = 1 .. n /\ \A i \in 1 .. n : calls[i] \in Call
  <2>1. past \in Pasts
    BY DEF AgentTyped
  <2>2. calls \in Seq(Call) /\ DistinctIds(calls)
    BY <2>1, CallsProperties
  <2> QED
    BY <2>2, LenProperties, ElementOfSeq
<1>2. PICK left \in Nat, spent \in Nat :
        /\ left = options.maxToolCalls - loop.toolCalls /\ spent = loop.toolCalls
        /\ spent + left = options.maxToolCalls
  BY DEF AgentTyped, Loops, AgentAssumption
<1>3. PICK fit \in 0 .. n : fit = (IF n > left THEN left ELSE n) /\ fit <= left
  BY <1>1, <1>2
<1>4. PICK todo, skipped : todo = SubSeq(calls, 1, fit) /\ skipped = SubSeq(calls, fit + 1, n)
  OBVIOUS
<1>5. PICK last : last = (n > left)
  OBVIOUS
<1>6. /\ transcript' = A!Answered(calls, text) \o ResultsOf(skipped)
      /\ past' = A!Asking(calls, text)
      /\ loop' = [loop EXCEPT !.at = "tools", !.todo = todo, !.last = last,
                              !.toolCalls = @ + fit]
  BY <1>1, <1>2, <1>3, <1>4, <1>5 DEF A!RepliesCalls, A!SkippedAnswers, ResultsOf
<1>7. /\ todo \in Seq(Call) /\ DOMAIN todo = 1 .. fit
      /\ \A i \in 1 .. fit : todo[i] = calls[i]
  <2>1. \A i \in 1 .. fit : calls[i] \in Call
    BY <1>1, <1>3
  <2> QED
    BY <1>1, <1>3, <1>4, <2>1, SubSeqProperties
<1>8. /\ skipped \in Seq(Call) /\ DOMAIN skipped = 1 .. n - fit
      /\ \A i \in 1 .. n - fit : skipped[i] = calls[fit + i] /\ fit + i \in 1 .. n
  <2>0. PICK from : from = fit + 1
    OBVIOUS
  <2>1. from \in Int /\ n \in Int /\ from = fit + 1
    BY <1>1, <1>3, <2>0
  <2>2. \A i \in from .. n : calls[i] \in Call
    BY <1>1, <1>3, <2>1
  <2>3. /\ skipped \in Seq(Call)
        /\ Len(skipped) = (IF from <= n THEN n - from + 1 ELSE 0)
        /\ \A i \in 1 .. n - from + 1 : skipped[i] = calls[from + i - 1]
    BY <1>4, <2>1, <2>2, SubSeqProperties
  <2>4. n - from + 1 = n - fit /\ n - fit \in Nat /\ Len(skipped) = n - fit
    <3>1. n - from + 1 = n - fit /\ n - fit \in Nat
      BY <1>1, <1>3, <2>1
    <3>2. ~ (from <= n) => n - fit = 0
      BY <1>1, <1>3, <2>1
    <3> QED
      BY <2>3, <3>1, <3>2
  <2>5. \A i \in 1 .. n - fit : from + i - 1 = fit + i /\ fit + i \in 1 .. n
    BY <1>1, <1>3, <2>1
  <2> QED
    BY <2>3, <2>4, <2>5, LenProperties
<1>9. DistinctIds(todo)
  BY <1>1, <1>3, <1>7 DEF DistinctIds
<1>10. DistinctIds(skipped)
  <2> SUFFICES ASSUME NEW i \in 1 .. n - fit, NEW k \in 1 .. n - fit,
                      skipped[i].id = skipped[k].id
               PROVE  i = k
    BY <1>8 DEF DistinctIds
  <2>1. PICK a \in DOMAIN calls, b \in DOMAIN calls :
          a = fit + i /\ b = fit + k /\ skipped[i] = calls[a] /\ skipped[k] = calls[b]
    BY <1>1, <1>8
  <2>2. a = b
    BY <1>1, <2>1 DEF DistinctIds
  <2>3. fit + i = fit + k
    BY <2>1, <2>2
  <2> QED
    BY <1>3, <2>3
<1>11. IdsOf(skipped) \cap IdsOf(todo) = {}
  <2> SUFFICES ASSUME NEW i \in 1 .. fit, NEW k \in 1 .. n - fit, todo[i].id = skipped[k].id
               PROVE  FALSE
    BY <1>7, <1>8 DEF IdsOf
  <2>1. PICK a \in DOMAIN calls : a = fit + k /\ skipped[k] = calls[a]
    BY <1>1, <1>8
  <2>2. i \in DOMAIN calls /\ todo[i] = calls[i] /\ i # a
    BY <1>1, <1>3, <1>7, <2>1
  <2> QED
    BY <1>1, <2>1, <2>2 DEF DistinctIds
<1>12. IdsOf(skipped) \cup IdsOf(todo) = IdsOf(calls)
  <2>1. ASSUME NEW i \in 1 .. n
        PROVE  calls[i].id \in IdsOf(skipped) \cup IdsOf(todo)
    <3>1. CASE i \in 1 .. fit
      BY <1>7, <3>1 DEF IdsOf
    <3>2. CASE i \notin 1 .. fit
      <4>1. PICK k \in 1 .. n - fit : fit + k = i
        <5>1. i - fit \in 1 .. n - fit /\ fit + (i - fit) = i
          BY <1>1, <1>3, <3>2
        <5> QED
          BY <5>1
      <4>2. skipped[k] = calls[i] /\ k \in DOMAIN skipped
        BY <1>8, <4>1
      <4> QED
        BY <4>2 DEF IdsOf
    <3> QED
      BY <3>1, <3>2
  <2>2. IdsOf(todo) \subseteq IdsOf(calls)
    BY <1>1, <1>3, <1>7 DEF IdsOf
  <2>3. ASSUME NEW k \in 1 .. n - fit
        PROVE  skipped[k].id \in IdsOf(calls)
    <3>1. skipped[k] = calls[fit + k] /\ fit + k \in DOMAIN calls
      BY <1>1, <1>8
    <3> QED
      BY <3>1 DEF IdsOf
  <2>4. /\ IdsOf(calls) = {calls[i].id : i \in 1 .. n}
        /\ IdsOf(skipped) = {skipped[k].id : k \in 1 .. n - fit}
    BY <1>1, <1>8 DEF IdsOf
  <2>5. IdsOf(skipped) \subseteq IdsOf(calls)
    BY <2>3, <2>4
  <2>6. IdsOf(calls) \subseteq IdsOf(skipped) \cup IdsOf(todo)
    BY <2>1, <2>4
  <2> QED
    BY <2>2, <2>5, <2>6
<1>13. PICK first \in Seq(Message) :
        /\ A!Answered(calls, text) = transcript \o first
        /\ AnsweredIn(first) = {} /\ OnceIn(first)
        /\ text => \A id \in IdsOf(calls) : ToldIn(first, id)
  BY DoAsk
<1>14. PICK results \in Seq(Message) : results = ResultsOf(skipped)
  BY <1>8, <1>10, ResultsAnswer
<1>150. PICK more : more = first \o results
  OBVIOUS
<1>15. Replied(calls, text, more, todo) /\ AnsweredIn(more) = IdsOf(skipped)
  <2>1. IdsOf(skipped) \cup IdsOf(todo) \subseteq IdsOf(calls)
    BY <1>12
  <2>2. /\ Replied(calls, text, first \o ResultsOf(skipped), todo)
        /\ AnsweredIn(first \o ResultsOf(skipped)) = IdsOf(skipped)
    BY <1>1, <1>7, <1>8, <1>9, <1>10, <1>11, <1>13, <2>1, FirstThenAnswers
  <2> QED
    BY <1>14, <1>150, <2>2
<1>16. transcript' = transcript \o more
  <2>1. PICK before \in Seq(Message) : before = transcript
    BY DEF AgentTyped
  <2>2. transcript' = (before \o first) \o results
    BY <1>6, <1>13, <1>14, <2>1
  <2>3. (before \o first) \o results = before \o (first \o results)
    BY ConcatAssociative, SMTT(30)
  <2> QED
    BY <1>150, <2>1, <2>2, <2>3
<1>17. loop' \in Loops /\ loop'.at = "tools" /\ loop'.toolCalls <= options.maxToolCalls
       /\ loop'.todo = todo
  <2>1. loop \in Loops
    BY DEF AgentTyped
  <2>2. PICK sum \in Nat : sum = spent + fit /\ sum <= options.maxToolCalls
    <3>1. fit \in Nat /\ fit <= left
      BY <1>1, <1>3
    <3>2. spent + fit \in Nat /\ spent + fit <= spent + left
      BY <1>2, <3>1
    <3> QED
      BY <1>2, <3>2
  <2>3. loop' = [loop EXCEPT !.at = "tools", !.todo = todo, !.last = last, !.toolCalls = sum]
    BY <1>2, <1>6, <2>2
  <2>4. last \in BOOLEAN
    <3>1. CASE n > left
      BY <1>5, <3>1
    <3>2. CASE ~ (n > left)
      BY <1>5, <3>2
    <3> QED
      BY <3>1, <3>2
  <2> QED
    BY <1>7, <2>1, <2>2, <2>3, <2>4 DEF Loops
<1> QED
  BY <1>6, <1>12, <1>15, <1>16, <1>17

-------------------------------------------------------------------------------
(* Agent: the shape of its state stays as it is *)

\* The options of an agent that does something.
LEMMA AgentMade ==
  ASSUME AgentTyped, AgentRests, A!LoopStep \/ A!CallStep \/ A!JoinRun
  PROVE  options \in AgentOptions /\ options # Unmade
<1>1. A!CallStep => flights # {}
  BY DEF A!CallStep
<1>2. A!LoopStep \/ A!JoinRun => loop.at # "idle"
  BY DEF A!LoopStep, A!TransformReturns, A!LoopRejects, A!RepliesText, A!StopHookReturns,
     A!RepliesTruncated, A!RepliesCalls, A!BeginBatch, A!BeginNextCall, A!BeginCall,
     A!BatchAborted, A!BatchReturns, A!NextTurn, A!Settle, A!Clear, A!JoinRun
<1> QED
  BY <1>1, <1>2 DEF AgentTyped, AgentRests

\* The inputs of an agent leave its calls alone, but that a new run forgets the old ones.
LEMMA InputTyped ==
  ASSUME AgentTyped, AgentAssumption,
         \/ \E o \in AgentOptions : A!Construct(o)
         \/ \E mode \in {"one-at-a-time", "all"} : A!Run(mode)
         \/ A!JoinRun \/ A!Steer \/ A!Abort \/ A!SetTranscript
  PROVE  AgentTyped'
<1>1. /\ options \in AgentOptions \cup {Unmade} /\ transcript \in Seq(Message)
      /\ pendingQueue \in Seq(Nat) /\ pendingMode \in {"one-at-a-time", "all"}
      /\ aborted \in BOOLEAN /\ loop \in Loops /\ flights \in SUBSET Flights /\ past \in Pasts
  BY DEF AgentTyped
<1>10. PICK inputs \in Nat, steers \in Nat : inputs = past.inputs + 1 /\ steers = past.steers + 1
  BY <1>1 DEF Pasts
<1>2. CASE \E o \in AgentOptions : A!Construct(o)
  BY <1>1, <1>2 DEF A!Construct, AgentTyped
<1>3. CASE \E mode \in {"one-at-a-time", "all"} : A!Run(mode)
  <2>1. PICK mode \in {"one-at-a-time", "all"} : A!Run(mode)
    BY <1>3
  <2>2. PICK history \in Seq(Message) : history = transcript
    BY <1>1
  <2>0. PICK queue : queue = << 1 >>
    OBVIOUS
  <2>3. queue \in Seq(Nat)
    BY <2>0
  <2>4. A!Enter(0, 0, queue, history, FALSE) /\ options \in AgentOptions
    BY <1>1, <2>0, <2>1, <2>2 DEF A!Run, A!EnterTurn, A!Made
  <2>5. /\ pendingQueue' \in Seq(Nat) /\ loop' \in Loops
        /\ \E more \in Seq(Message) : transcript' = history \o more
    BY <2>2, <2>3, <2>4, DoEnter
  <2>6. transcript' \in Seq(Message)
    BY <2>2, <2>5, ConcatProperties
  <2>7. past' \in Pasts
    <3>1. PICK runs \in Nat : runs = past.runs + 1
      BY <1>1 DEF Pasts
    <3>2. past' = [past EXCEPT !.inputs = 1, !.runs = runs, !.asked = {}, !.begun = {},
                               !.ran = {}, !.clean = TRUE]
      BY <2>1, <3>1 DEF A!Run
    <3> QED
      BY <1>1, <3>2 DEF Pasts
  <2> QED
    BY <1>1, <2>1, <2>5, <2>6, <2>7 DEF A!Run, AgentTyped
<1>4. CASE A!JoinRun
  <2>0. past' = [past EXCEPT !.inputs = inputs, !.steers = steers]
    BY <1>4, <1>10 DEF A!JoinRun
  <2>1. past' \in Pasts
    BY <1>1, <2>0 DEF Pasts
  <2> QED
    BY <1>1, <1>4, <2>1 DEF A!JoinRun, AgentTyped
<1>5. CASE A!Steer
  <2>1. past' = [past EXCEPT !.inputs = inputs, !.steers = steers]
    BY <1>5, <1>10 DEF A!Steer
  <2>2. pendingQueue' \in Seq(Nat)
    BY <1>1, <1>5, <1>10, AppendProperties DEF A!Steer
  <2>3. past' \in Pasts
    BY <1>1, <2>1 DEF Pasts
  <2> QED
    BY <1>1, <1>5, <2>2, <2>3 DEF A!Steer, AgentTyped
<1>6. CASE A!Abort
  <2>1. PICK clean \in BOOLEAN : clean = (past.clean /\ loop.at = "idle")
    OBVIOUS
  <2>2. past' = [past EXCEPT !.clean = clean]
    BY <1>6, <2>1 DEF A!Abort
  <2>3. past' \in Pasts
    BY <1>1, <2>2 DEF Pasts
  <2> QED
    BY <1>1, <1>6, <2>3 DEF A!Abort, AgentTyped
<1>7. CASE A!SetTranscript
  <2>0. /\ past' = [past EXCEPT !.asked = {}, !.begun = {}, !.ran = {}, !.clean = TRUE]
        /\ transcript' = << >>
    BY <1>7 DEF A!SetTranscript
  <2>1. past' \in Pasts
    BY <1>1, <2>0 DEF Pasts
  <2>2. transcript' \in Seq(Message)
    BY <2>0
  <2> QED
    BY <1>1, <1>7, <2>1, <2>2 DEF A!SetTranscript, AgentTyped
<1> QED
  BY <1>2, <1>3, <1>4, <1>5, <1>6, <1>7

\* The steps of the loop that neither ask for a call nor begin one: they push no answer,
\* drop no call that is waiting unless the run is aborted or rejected, and go on to the
\* next turn only when nothing stops them.
LEMMA DoTurn ==
  ASSUME AgentTyped, AgentRests,
         \/ A!TransformReturns \/ A!LoopRejects \/ A!RepliesText
         \/ \E stop \in BOOLEAN : A!StopHookReturns(stop)
         \/ A!BatchAborted \/ A!BatchReturns \/ A!NextTurn \/ A!Settle
  PROVE  /\ AgentTyped' /\ UNCHANGED << options, aborted, flights >>
         /\ SameRun /\ past'.begun = past.begun /\ past'.ran = past.ran
         /\ past'.clean => past.clean
         /\ \E more \in Seq(Message) : /\ transcript' = transcript \o more
                                       /\ AnsweredIn(more) = {} /\ OnceIn(more)
         /\ loop'.todo \in {loop.todo, << >>} /\ loop'.toolCalls \in {loop.toolCalls, 0}
         /\ loop'.at = "tools" => loop.at = "tools"
         /\ loop.at = "tools" => \/ aborted
                                 \/ loop.todo = << >> /\ A!Own = {}
         /\ loop'.at # "tools" => loop'.todo = << >> \/ loop.at # "tools"
         /\ loop'.turns > loop.turns => ~ aborted
         /\ loop.at # "idle"
<1>1. /\ options \in AgentOptions \cup {Unmade} /\ transcript \in Seq(Message)
      /\ pendingQueue \in Seq(Nat) /\ pendingMode \in {"one-at-a-time", "all"}
      /\ aborted \in BOOLEAN /\ loop \in Loops /\ flights \in SUBSET Flights /\ past \in Pasts
  BY DEF AgentTyped
<1>2. /\ << >> \in Seq(Message) /\ AnsweredIn(<< >>) = {} /\ OnceIn(<< >>)
      /\ transcript = transcript \o << >> /\ << >> \in Seq(Call)
  <2>1. \A i, id : ~ AnswersAt(<< >>, i, id)
    BY DEF AnswersAt
  <2> QED
    BY <1>1, <2>1, AnsweredDef, ConcatEmptySeq
<1>3. CASE A!NextTurn
  <2>1. loop.turns \in Nat /\ loop.toolCalls \in Nat
    BY <1>1 DEF Loops
  <2>2. PICK turns \in Nat, spent \in Nat : turns = loop.turns /\ spent = loop.toolCalls
    BY <2>1
  <2>3. PICK queue \in Seq(Nat) : queue = pendingQueue
    BY <1>1
  <2>4. PICK history \in Seq(Message) : history = transcript
    BY <1>1
  <2>5. PICK stop : stop = aborted
    OBVIOUS
  <2>6. A!Enter(turns, spent, queue, history, stop)
    BY <1>3, <2>2, <2>3, <2>4, <2>5 DEF A!NextTurn, A!EnterTurn
  <2>7. options \in AgentOptions
    BY <1>1, <1>3 DEF A!NextTurn, AgentRests
  <2>8. /\ pendingQueue' \in Seq(Nat) /\ loop' \in Loops
        /\ loop'.todo = << >> /\ loop'.toolCalls = spent
        /\ loop'.at \in {"ending", "transform", "complete"}
    BY <2>6, <2>7, DoEnter
  <2>81. aborted => ~ (loop'.turns > turns)
    <3> SUFFICES ASSUME aborted PROVE ~ (loop'.turns > turns)
      OBVIOUS
    <3>1. A!Enter(turns, spent, queue, history, TRUE)
      BY <1>1, <2>5, <2>6
    <3> QED
      BY <2>7, <3>1, DoEnter
  <2>80. \E more \in Seq(Message) : /\ transcript' = history \o more
                                    /\ AnsweredIn(more) = {} /\ OnceIn(more)
    BY <2>6, <2>7, DoEnter
  <2>9. transcript' \in Seq(Message)
    BY <2>80, ConcatProperties
  <2>10. loop.at = "top" /\ UNCHANGED << options, pendingMode, aborted, flights, past >>
    BY <1>3 DEF A!NextTurn, A!Quiet
  <2>11. AgentTyped'
    BY <1>1, <2>8, <2>9, <2>10 DEF AgentTyped
  <2> QED
    BY <2>2, <2>4, <2>5, <2>8, <2>80, <2>81, <2>10, <2>11 DEF SameRun
<1>4. CASE A!RepliesText
  <2>1. PICK text \in BOOLEAN : transcript' = A!Answered(<< >>, text)
    BY <1>4 DEF A!RepliesText
  <2>2. PICK message : message = A!Assistant(A!Ids(<< >>))
    OBVIOUS
  <2>3. message \in Message /\ message.role = "assistant"
    <3>1. A!Ids(<< >>) = {}
      BY SameOperators DEF A!Ids, ToSet
    <3> QED
      BY <2>2, <3>1 DEF A!Assistant, Message
  <2>4. PICK more : more = IF text THEN << message >> ELSE << >>
    OBVIOUS
  <2>5. more \in Seq(Message) /\ transcript' = transcript \o more
    <3>1. CASE text
      BY <1>1, <2>1, <2>2, <2>3, <2>4, <3>1, AppendIsConcat DEF A!Answered
    <3>2. CASE ~ text
      BY <1>2, <2>1, <2>4, <3>2 DEF A!Answered
    <3> QED
      BY <3>1, <3>2
  <2>6. \A i, id : ~ AnswersAt(more, i, id)
    BY <2>3, <2>4 DEF AnswersAt
  <2>7. AnsweredIn(more) = {} /\ OnceIn(more)
    BY <2>6, AnsweredDef
  <2>8. transcript' \in Seq(Message)
    BY <1>1, <2>5, ConcatProperties
  <2>9. PICK at \in {"stopHook", "ending", "top"} : loop' = [loop EXCEPT !.at = at]
    BY <1>4 DEF A!RepliesText, A!Go
  <2>10. /\ loop' \in Loops /\ loop'.at = at /\ loop'.todo = loop.todo
         /\ loop'.toolCalls = loop.toolCalls /\ loop'.turns = loop.turns /\ loop.turns \in Nat
    BY <1>1, <2>9 DEF Loops
  <2>11. /\ loop.at = "complete"
         /\ UNCHANGED << options, pendingMode, aborted, pendingQueue, flights, past >>
    BY <1>4 DEF A!RepliesText, A!Quiet
  <2>12. AgentTyped'
    BY <1>1, <2>8, <2>10, <2>11 DEF AgentTyped
  <2>13. \E says \in Seq(Message) : /\ transcript' = transcript \o says
                                    /\ AnsweredIn(says) = {} /\ OnceIn(says)
    BY <2>5, <2>7
  <2>14. SameRun
    BY <2>11 DEF SameRun
  <2> QED
    BY <1>4, <2>10, <2>11, <2>12, <2>13, <2>14
<1>5. ASSUME loop' \in Loops, loop'.turns \in {loop.turns, 0},
             loop'.toolCalls \in {loop.toolCalls, 0}, loop'.todo \in {loop.todo, << >>},
             past' = past \/ past' = [past EXCEPT !.clean = FALSE],
             UNCHANGED << options, transcript, pendingQueue, pendingMode, aborted, flights >>
      PROVE  /\ AgentTyped' /\ UNCHANGED << options, aborted, flights >>
             /\ SameRun /\ past'.begun = past.begun /\ past'.ran = past.ran
             /\ past'.clean => past.clean
             /\ \E more \in Seq(Message) : /\ transcript' = transcript \o more
                                           /\ AnsweredIn(more) = {} /\ OnceIn(more)
             /\ loop'.todo \in {loop.todo, << >>} /\ loop'.toolCalls \in {loop.toolCalls, 0}
             /\ ~ (loop'.turns > loop.turns)
  <2>1. loop.turns \in Nat
    BY <1>1 DEF Loops
  <2>2. ~ (loop'.turns > loop.turns)
    BY <1>5, <2>1
  <2>3. /\ past' \in Pasts /\ SameRun /\ past'.begun = past.begun /\ past'.ran = past.ran
        /\ past'.clean => past.clean
    <3>1. CASE past' = past
      BY <1>1, <3>1 DEF SameRun
    <3>2. CASE past' = [past EXCEPT !.clean = FALSE]
      BY <1>1, <3>2 DEF Pasts, SameRun
    <3> QED
      BY <1>5, <3>1, <3>2
  <2>4. AgentTyped'
    BY <1>1, <1>5, <2>3 DEF AgentTyped
  <2>5. \E more \in Seq(Message) : /\ transcript' = transcript \o more
                                   /\ AnsweredIn(more) = {} /\ OnceIn(more)
    BY <1>2, <1>5
  <2> QED
    BY <1>5, <2>2, <2>3, <2>4, <2>5
<1>6. ASSUME NEW at \in {"idle", "top", "complete", "stopHook", "ending"},
             loop' = [loop EXCEPT !.at = at]
      PROVE  /\ loop' \in Loops /\ loop'.turns = loop.turns /\ loop'.toolCalls = loop.toolCalls
             /\ loop'.todo = loop.todo /\ loop'.at = at
  BY <1>1, <1>6 DEF Loops
<1>7. CASE A!TransformReturns
  <2>1. /\ loop.at = "transform" /\ loop' = [loop EXCEPT !.at = "complete"] /\ past' = past
        /\ UNCHANGED << options, transcript, pendingQueue, pendingMode, aborted, flights >>
    BY <1>7 DEF A!TransformReturns, A!Go, A!Quiet
  <2> QED
    BY <1>5, <1>6, <2>1
<1>8. CASE A!LoopRejects
  <2>1. /\ loop.at # "tools" /\ loop.at # "idle" /\ loop' = [loop EXCEPT !.at = "ending"]
        /\ past' = [past EXCEPT !.clean = FALSE]
        /\ UNCHANGED << options, transcript, pendingQueue, pendingMode, aborted, flights >>
    BY <1>8 DEF A!LoopRejects, A!Go, A!Quiet
  <2> QED
    BY <1>5, <1>6, <2>1
<1>9. CASE \E stop \in BOOLEAN : A!StopHookReturns(stop)
  <2>1. PICK at \in {"ending", "top"} :
          /\ loop.at = "stopHook" /\ loop' = [loop EXCEPT !.at = at] /\ past' = past
          /\ UNCHANGED << options, transcript, pendingQueue, pendingMode, aborted, flights >>
    BY <1>9 DEF A!StopHookReturns, A!Go, A!Quiet
  <2> QED
    BY <1>5, <1>6, <2>1
<1>10. CASE A!BatchAborted
  <2>1. /\ loop.at = "tools" /\ aborted /\ loop' = [loop EXCEPT !.todo = << >>] /\ past' = past
        /\ UNCHANGED << options, transcript, pendingQueue, pendingMode, aborted, flights >>
    BY <1>10 DEF A!BatchAborted, A!Quiet
  <2>2. /\ loop' \in Loops /\ loop'.turns = loop.turns /\ loop'.toolCalls = loop.toolCalls
        /\ loop'.todo = << >> /\ loop'.at = "tools"
    BY <1>1, <1>2, <2>1 DEF Loops
  <2> QED
    BY <1>5, <2>1, <2>2
<1>11. CASE A!BatchReturns
  <2>1. PICK at \in {"ending", "top"} :
          /\ loop.at = "tools" /\ loop.todo = << >> /\ A!Own = {}
          /\ loop' = [loop EXCEPT !.at = at] /\ past' = past
          /\ UNCHANGED << options, transcript, pendingQueue, pendingMode, aborted, flights >>
    BY <1>11 DEF A!BatchReturns, A!Go, A!Quiet
  <2> QED
    BY <1>5, <1>6, <2>1
<1>12. CASE A!Settle
  <2>1. /\ loop.at = "ending" /\ loop' = A!NoLoop /\ past' = past
        /\ UNCHANGED << options, transcript, pendingQueue, pendingMode, aborted, flights >>
    BY <1>12 DEF A!Settle, A!Clear, A!Quiet
  <2>2. /\ loop' \in Loops /\ loop'.turns = 0 /\ loop'.toolCalls = 0
        /\ loop'.todo = << >> /\ loop'.at = "idle"
    BY <1>2, <2>1 DEF Loops, A!NoLoop
  <2> QED
    BY <1>5, <2>1, <2>2
<1> QED
  BY <1>3, <1>4, <1>7, <1>8, <1>9, <1>10, <1>11, <1>12

\* A call in flight goes on to a stage that its resolution permits, or rejects.
LEMMA DoCall ==
  ASSUME AgentTyped, AgentRests, FlightsPermitted, A!CallStep
  PROVE  \E f \in flights :
           \/ \E stage \in Stages \cup {"answer"}, r \in Answers :
                /\ A!Move(f, stage, r)
                /\ stage \in {"before", "execute"} /\ A!Risky(f.call) => r \in A!Allowing
           \/ A!CallRejects(f)
<1>1. options \in AgentOptions
  BY AgentMade
<1>2. PICK f \in flights :
        \/ A!ApprovalResolves(f) \/ A!BeforeReturns(f) \/ A!ToolReturns(f)
        \/ A!AfterReturns(f) \/ A!HookThrows(f) \/ A!CallRejects(f)
  BY DEF A!CallStep
<1>3. f.call \in Call /\ f.resolution \in Answers
  BY DEF AgentTyped, Flights
<1>4. /\ A!BeforeExecute(f.call) \in Stages \cup {"answer"}
      /\ A!ToExecute(f.call) \in Stages \cup {"answer"}
      /\ A!AfterExecute \in {"after", "answer"}
      /\ {"after", "answer", "reject"} \subseteq Stages \cup {"answer"}
  BY <1>3, StageTypes DEF Stages
<1>5. CASE A!ApprovalResolves(f)
  <2>1. PICK r \in A!Resolutions :
          A!Move(f, IF r \in A!Allowing THEN A!BeforeExecute(f.call) ELSE "answer", r)
    BY <1>5 DEF A!ApprovalResolves
  <2>2. r \in Answers
    BY <1>1, <2>1 DEF A!Resolutions, Answers
  <2>3. CASE r \in A!Allowing
    <3>1. A!Move(f, A!BeforeExecute(f.call), r)
      BY <2>1, <2>3
    <3> QED
      BY <1>4, <2>2, <2>3, <3>1
  <2>4. CASE r \notin A!Allowing
    <3>1. A!Move(f, "answer", r)
      BY <2>1, <2>4
    <3> QED
      BY <1>4, <2>2, <3>1
  <2> QED
    BY <2>3, <2>4
<1>6. CASE A!BeforeReturns(f)
  <2>1. f.stage = "before" /\ A!Move(f, A!ToExecute(f.call), f.resolution)
    BY <1>6 DEF A!BeforeReturns
  <2>2. A!Risky(f.call) => f.resolution \in A!Allowing
    BY <2>1 DEF FlightsPermitted
  <2> QED
    BY <1>3, <1>4, <2>1, <2>2
<1>7. CASE A!ToolReturns(f)
  <2>1. A!Move(f, A!AfterExecute, f.resolution)
    BY <1>7 DEF A!ToolReturns
  <2> QED
    BY <1>3, <1>4, <2>1
<1>8. CASE A!AfterReturns(f)
  <2>1. A!Move(f, "answer", f.resolution)
    BY <1>8 DEF A!AfterReturns
  <2> QED
    BY <1>3, <1>4, <2>1
<1>9. CASE A!HookThrows(f)
  <2>1. A!Move(f, "reject", f.resolution)
    BY <1>9 DEF A!HookThrows
  <2> QED
    BY <1>3, <1>4, <2>1
<1> QED
  BY <1>2, <1>5, <1>6, <1>7, <1>8, <1>9

\* A call that rejects takes its own batch with it.
LEMMA DoReject ==
  ASSUME AgentTyped, NEW f \in flights, A!CallRejects(f)
  PROVE  /\ AgentTyped' /\ SameRun /\ past'.begun = past.begun /\ past'.ran = past.ran
         /\ flights' = flights \ {f} /\ UNCHANGED << options, transcript, aborted >>
         /\ past'.clean => past.clean
         /\ loop'.toolCalls = loop.toolCalls /\ loop'.turns = loop.turns
         /\ \/ f.run = past.runs /\ loop.at = "tools" /\ loop'.at = "ending"
               /\ loop'.todo = << >> /\ ~ past'.clean
            \/ ~ (f.run = past.runs /\ loop.at = "tools") /\ loop' = loop
<1>1. loop \in Loops /\ past \in Pasts
  BY DEF AgentTyped
<1>2. /\ flights' = flights \ {f}
      /\ UNCHANGED << options, transcript, pendingQueue, pendingMode, aborted >>
  BY DEF A!CallRejects
<1>3. CASE f.run = past.runs /\ loop.at = "tools"
  <2>1. /\ loop' = [loop EXCEPT !.at = "ending", !.todo = << >>]
        /\ past' = [past EXCEPT !.clean = FALSE]
    BY <1>1, <1>3 DEF A!CallRejects, Pasts
  <2>2. << >> \in Seq(Call)
    OBVIOUS
  <2>3. /\ loop' \in Loops /\ loop'.at = "ending" /\ loop'.todo = << >>
        /\ loop'.toolCalls = loop.toolCalls /\ loop'.turns = loop.turns
    BY <1>1, <2>1, <2>2 DEF Loops
  <2>4. /\ past' \in Pasts /\ ~ past'.clean /\ SameRun
        /\ past'.begun = past.begun /\ past'.ran = past.ran
    BY <1>1, <2>1 DEF Pasts, SameRun
  <2> QED
    BY <1>2, <1>3, <2>3, <2>4 DEF AgentTyped
<1>4. CASE ~ (f.run = past.runs /\ loop.at = "tools")
  <2>1. loop' = loop /\ past' = [past EXCEPT !.clean = past.clean]
    BY <1>1, <1>4 DEF A!CallRejects, Pasts
  <2>2. past' = past
    BY <1>1, <2>1 DEF Pasts
  <2> QED
    BY <1>2, <1>4, <2>1, <2>2 DEF AgentTyped, SameRun
<1> QED
  BY <1>3, <1>4

\* What a response asks for.
Asks(calls, text) ==
  /\ past'.asked = past.asked \cup AskedOf(calls, text)
  /\ past'.calls = past.calls + Len(calls) /\ past'.runs = past.runs
  /\ past'.begun = past.begun /\ past'.ran = past.ran

\* A response that calls tools.
LEMMA DoReplies ==
  ASSUME AgentTyped, AgentAssumption, options \in AgentOptions,
         loop.toolCalls <= options.maxToolCalls, loop.at # "tools" => loop.todo = << >>,
         NEW list \in Requested, NEW text \in BOOLEAN, NEW calls, calls = A!Calls(list),
         A!RepliesTruncated(list, text) \/ A!RepliesCalls(list, text)
  PROVE  /\ AgentTyped' /\ Asks(calls, text) /\ UNCHANGED << options, aborted, flights >>
         /\ loop'.toolCalls <= options.maxToolCalls
         /\ loop.at = "complete" /\ loop'.turns = loop.turns
         /\ \E more, todo : /\ Replied(calls, text, more, todo)
                            /\ transcript' = transcript \o more /\ loop'.todo = todo
                            /\ \/ /\ past'.clean = past.clean /\ loop'.at = "tools"
                                  /\ IdsOf(calls) = AnsweredIn(more) \cup IdsOf(todo)
                               \/ ~ past'.clean /\ loop'.at = "ending" /\ todo = << >>
<1>1. loop \in Loops /\ past \in Pasts /\ transcript \in Seq(Message)
  BY DEF AgentTyped
<1>2. /\ A!Asking(calls, text) =
           [past EXCEPT !.calls = @ + Len(calls), !.asked = @ \cup AskedOf(calls, text)]
  BY DoAsk
<1>3. PICK asking \in Pasts : asking = A!Asking(calls, text)
  BY DoAsk
<1>4. /\ asking.asked = past.asked \cup AskedOf(calls, text)
      /\ asking.calls = past.calls + Len(calls) /\ asking.runs = past.runs
      /\ asking.begun = past.begun /\ asking.ran = past.ran /\ asking.clean = past.clean
  BY <1>1, <1>2, <1>3 DEF Pasts
<1>5. UNCHANGED << options, pendingQueue, pendingMode, aborted, flights >> /\ loop.at = "complete"
  BY DEF A!RepliesTruncated, A!RepliesCalls, A!Quiet
<1>6. CASE A!RepliesTruncated(list, text)
  <2>1. PICK more : Replied(calls, text, more, << >>) /\ transcript' = transcript \o more
    BY <1>6, DoTruncate
  <2>2. past' = [asking EXCEPT !.clean = FALSE]
    BY <1>3, <1>6, DoTruncate
  <2>3. past' \in Pasts /\ ~ past'.clean /\ Asks(calls, text)
    BY <1>4, <2>2 DEF Pasts, Asks
  <2>4. loop' = [loop EXCEPT !.at = "ending"]
    BY <1>6 DEF A!RepliesTruncated, A!Go
  <2>5. /\ loop' \in Loops /\ loop'.at = "ending" /\ loop'.todo = loop.todo
        /\ loop'.toolCalls = loop.toolCalls /\ loop'.turns = loop.turns
    BY <1>1, <2>4 DEF Loops
  <2>6. transcript' \in Seq(Message)
    BY <1>1, <2>1, ConcatProperties DEF Replied
  <2>7. AgentTyped'
    BY <1>5, <2>3, <2>5, <2>6 DEF AgentTyped
  <2>8. loop'.todo = << >>
    BY <1>5, <2>5
  <2> QED
    BY <1>5, <2>1, <2>3, <2>5, <2>7, <2>8
<1>7. CASE A!RepliesCalls(list, text)
  <2>1. PICK more, todo : /\ Replied(calls, text, more, todo)
                          /\ IdsOf(calls) = AnsweredIn(more) \cup IdsOf(todo)
                          /\ transcript' = transcript \o more /\ loop'.todo = todo
    BY <1>7, DoReply
  <2>2. /\ past' = asking
        /\ loop' \in Loops /\ loop'.at = "tools" /\ loop'.toolCalls <= options.maxToolCalls
    BY <1>3, <1>7, DoReply
  <2>3. loop'.turns = loop.turns
    BY <1>1, <1>7 DEF A!RepliesCalls, Loops
  <2>4. past' \in Pasts /\ past'.clean = past.clean /\ Asks(calls, text)
    BY <1>4, <2>2 DEF Asks
  <2>5. transcript' \in Seq(Message)
    BY <1>1, <2>1, ConcatProperties DEF Replied
  <2>6. AgentTyped'
    BY <1>5, <2>2, <2>4, <2>5 DEF AgentTyped
  <2> QED
    BY <1>5, <2>1, <2>2, <2>3, <2>4, <2>6
<1> QED
  BY <1>6, <1>7

\* A batch takes the first of the calls that wait, a sequential one only while the run is not
\* aborted.
BatchBegins(batch, rest) ==
  /\ A!BeginCalls(batch) /\ loop.todo = batch \o rest /\ DistinctIds(batch) /\ DistinctIds(rest)
  /\ IdsOf(batch) \cap IdsOf(rest) = {} /\ IdsOf(batch) \cup IdsOf(rest) = IdsOf(loop.todo)
  /\ loop' = [loop EXCEPT !.todo = rest] /\ loop.at = "tools"
  /\ options.batch = "sequential" => ~ aborted
  /\ UNCHANGED << options, pendingQueue, pendingMode, aborted >>

LEMMA SplitIds ==
  ASSUME NEW batch \in Seq(Call), NEW rest \in Seq(Call), NEW todo, todo = batch \o rest,
         DistinctIds(todo)
  PROVE  /\ DistinctIds(batch) /\ DistinctIds(rest)
         /\ IdsOf(batch) \cap IdsOf(rest) = {} /\ IdsOf(batch) \cup IdsOf(rest) = IdsOf(todo)
<1>1. PICK m \in Nat, n \in Nat : m = Len(batch) /\ n = Len(rest)
  BY LenProperties
<1>2. /\ DOMAIN batch = 1 .. m /\ DOMAIN rest = 1 .. n /\ DOMAIN todo = 1 .. m + n
      /\ \A i \in 1 .. m + n : todo[i] = IF i <= m THEN batch[i] ELSE rest[i - m]
  BY <1>1, ConcatProperties, LenProperties
<1>3. \A i \in 1 .. m : i \in DOMAIN todo /\ todo[i] = batch[i]
  BY <1>1, <1>2
<1>4. \A i \in 1 .. n : \E k \in DOMAIN todo : k = m + i /\ k > m /\ todo[k] = rest[i]
  <2> SUFFICES ASSUME NEW i \in 1 .. n
               PROVE  \E k \in DOMAIN todo : k = m + i /\ k > m /\ todo[k] = rest[i]
    OBVIOUS
  <2>1. PICK k \in 1 .. m + n : k = m + i /\ k > m /\ k - m = i
    BY <1>1
  <2> QED
    BY <1>2, <2>1
<1>5. DistinctIds(batch)
  BY <1>2, <1>3 DEF DistinctIds
<1>6. DistinctIds(rest)
  <2> SUFFICES ASSUME NEW i \in 1 .. n, NEW l \in 1 .. n, rest[i].id = rest[l].id
               PROVE  i = l
    BY <1>2 DEF DistinctIds
  <2>1. PICK a \in DOMAIN todo, b \in DOMAIN todo :
          a = m + i /\ b = m + l /\ todo[a] = rest[i] /\ todo[b] = rest[l]
    BY <1>4
  <2>2. a = b
    BY <2>1 DEF DistinctIds
  <2> QED
    BY <1>1, <2>1, <2>2
<1>7. IdsOf(batch) \cap IdsOf(rest) = {}
  <2> SUFFICES ASSUME NEW i \in 1 .. m, NEW l \in 1 .. n, batch[i].id = rest[l].id
               PROVE  FALSE
    BY <1>2 DEF IdsOf
  <2>1. PICK b \in DOMAIN todo : b > m /\ todo[b] = rest[l]
    BY <1>4
  <2>2. i = b
    BY <1>3, <2>1 DEF DistinctIds
  <2> QED
    BY <1>1, <2>1, <2>2
<1>8. IdsOf(todo) \subseteq IdsOf(batch) \cup IdsOf(rest)
  <2> SUFFICES ASSUME NEW k \in 1 .. m + n
               PROVE  todo[k].id \in IdsOf(batch) \cup IdsOf(rest)
    BY <1>2 DEF IdsOf
  <2>1. CASE k <= m
    <3>1. k \in 1 .. m /\ todo[k] = batch[k]
      BY <1>1, <1>2, <2>1
    <3> QED
      BY <1>2, <3>1 DEF IdsOf
  <2>2. CASE ~ (k <= m)
    <3>1. PICK i \in 1 .. n : i = k - m
      <4>1. k - m \in 1 .. n
        BY <1>1, <2>2
      <4> QED
        BY <4>1
    <3>2. todo[k] = rest[i]
      BY <1>2, <2>2, <3>1
    <3> QED
      BY <1>2, <3>2 DEF IdsOf
  <2> QED
    BY <2>1, <2>2
<1>9. IdsOf(batch) \subseteq IdsOf(todo)
  BY <1>2, <1>3 DEF IdsOf
<1>10. IdsOf(rest) \subseteq IdsOf(todo)
  <2> SUFFICES ASSUME NEW i \in 1 .. n
               PROVE  rest[i].id \in IdsOf(todo)
    BY <1>2 DEF IdsOf
  <2>1. PICK k \in DOMAIN todo : todo[k] = rest[i]
    BY <1>4
  <2> QED
    BY <2>1 DEF IdsOf
<1> QED
  BY <1>5, <1>6, <1>7, <1>8, <1>9, <1>10

LEMMA DoBatch ==
  ASSUME AgentTyped, LoopBounded, A!BeginBatch \/ A!BeginNextCall
  PROVE  \E batch \in Seq(Call), rest \in Seq(Call) : BatchBegins(batch, rest)
<1>1. PICK todo \in Seq(Call) : todo = loop.todo /\ DistinctIds(todo)
  BY DEF AgentTyped, Loops, LoopBounded
<1>2. PICK batch \in Seq(Call), rest \in Seq(Call) :
        /\ todo = batch \o rest /\ A!BeginCalls(batch)
        /\ loop' = [loop EXCEPT !.todo = rest] /\ loop.at = "tools"
        /\ options.batch = "sequential" => ~ aborted
        /\ UNCHANGED << options, pendingQueue, pendingMode, aborted >>
  <2>1. CASE A!BeginBatch
    <3>1. PICK rest : rest = << >>
      OBVIOUS
    <3>2. rest \in Seq(Call) /\ todo = todo \o rest
      BY <3>1, ConcatEmptySeq
    <3>3. /\ A!BeginCalls(todo) /\ loop' = [loop EXCEPT !.todo = rest] /\ loop.at = "tools"
          /\ options.batch = "parallel"
          /\ UNCHANGED << options, pendingQueue, pendingMode, aborted >>
      BY <1>1, <2>1, <3>1 DEF A!BeginBatch, A!Quiet
    <3> QED
      BY <3>2, <3>3
  <2>2. CASE A!BeginNextCall
    <3>1. todo # << >>
      BY <1>1, <2>2 DEF A!BeginNextCall, A!BeginCall
    <3>2. PICK first, rest : first = << Head(todo) >> /\ rest = Tail(todo)
      OBVIOUS
    <3>3. first \in Seq(Call) /\ rest \in Seq(Call) /\ todo = first \o rest
      BY <3>1, <3>2
    <3>4. /\ A!BeginCalls(first) /\ loop' = [loop EXCEPT !.todo = rest] /\ loop.at = "tools"
          /\ ~ aborted /\ UNCHANGED << options, pendingQueue, pendingMode, aborted >>
      BY <1>1, <2>2, <3>2 DEF A!BeginNextCall, A!BeginCall, A!Quiet
    <3> QED
      BY <3>3, <3>4
  <2> QED
    BY <2>1, <2>2
<1>3. /\ DistinctIds(batch) /\ DistinctIds(rest)
      /\ IdsOf(batch) \cap IdsOf(rest) = {} /\ IdsOf(batch) \cup IdsOf(rest) = IdsOf(todo)
  BY <1>1, <1>2, SplitIds
<1>4. BatchBegins(batch, rest)
  BY <1>1, <1>2, <1>3 DEF BatchBegins
<1> QED
  BY <1>4

-------------------------------------------------------------------------------
(* Agent: only what is permitted runs *)

AgentInv == AgentTyped /\ AgentRests /\ LoopBounded /\ FlightsPermitted /\ A!OnlyPermittedRun

\* While the options stay as they are, what was permitted stays so.
LEMMA PermittedStays ==
  ASSUME FlightsPermitted, A!OnlyPermittedRun, options' = options,
         \A f \in flights' : \/ f \in flights
                             \/ f.stage \in {"before", "execute"} /\ A!Risky(f.call) =>
                                  f.resolution \in A!Allowing,
         \A x \in past'.ran : \/ x \in past.ran
                              \/ \E name : /\ x.impl \in A!Resolve(name)
                                           /\ x.impl \in options.risky => x.resolution \in A!Allowing
  PROVE  FlightsPermitted' /\ A!OnlyPermittedRun'
<1>1. /\ \A call : A!Risky(call)' <=> A!Risky(call)
      /\ A!Visible' = A!Visible
  BY ResolveStays
<1>2. FlightsPermitted'
  BY <1>1 DEF FlightsPermitted, A!Allowing
<1>3. ASSUME NEW x \in past'.ran
      PROVE  /\ x.impl[1] \in options.tools => x.impl \in A!Visible
             /\ options.scoped => x.impl[1] \notin options.denies
             /\ x.impl \in options.risky => x.resolution \in A!Allowing
  <2>1. CASE x \in past.ran
    BY <2>1 DEF A!OnlyPermittedRun
  <2>2. CASE x \notin past.ran
    <3>1. PICK name : /\ x.impl \in A!Resolve(name)
                      /\ x.impl \in options.risky => x.resolution \in A!Allowing
      BY <1>3, <2>2
    <3> QED
      BY <3>1, ResolveProperties
  <2> QED
    BY <2>1, <2>2
<1>4. A!OnlyPermittedRun'
  BY <1>1, <1>3 DEF A!OnlyPermittedRun, A!Allowing
<1> QED
  BY <1>2, <1>4

LEMMA AgentStarts ==
  ASSUME A!Init
  PROVE  AgentInv
<1>1. loop \in Loops /\ past \in Pasts
  BY DEF A!Init, A!NoLoop, Loops, Pasts
<1>2. /\ loop.todo = << >> /\ loop.toolCalls = 0 /\ loop.at = "idle" /\ past.ran = {}
      /\ options = Unmade /\ flights = {}
  BY DEF A!Init, A!NoLoop
<1>3. AgentTyped
  <2>1. << >> \in Seq(Message) /\ << >> \in Seq(Nat)
    OBVIOUS
  <2>2. /\ options = Unmade /\ transcript = << >> /\ pendingQueue = << >>
        /\ pendingMode = "one-at-a-time" /\ aborted = FALSE /\ flights = {}
    BY DEF A!Init
  <2> QED
    BY <1>1, <2>1, <2>2 DEF AgentTyped
<1> QED
  BY <1>2, <1>3 DEF AgentInv, AgentRests, LoopBounded, DistinctIds, FlightsPermitted,
     A!OnlyPermittedRun

LEMMA AgentStep ==
  ASSUME AgentAssumption, AgentInv, A!Next
  PROVE  AgentInv'
<1>1. AgentTyped /\ AgentRests /\ LoopBounded /\ FlightsPermitted /\ A!OnlyPermittedRun
  BY DEF AgentInv
<1>2. loop \in Loops /\ past \in Pasts
  BY <1>1 DEF AgentTyped
<1>3. CASE \E o \in AgentOptions : A!Construct(o)
  <2>1. PICK o \in AgentOptions : A!Construct(o)
    BY <1>3
  <2>2. /\ options = Unmade /\ options' = o /\ UNCHANGED << loop, flights, past >>
    BY <2>1 DEF A!Construct
  <2>3. flights' = {} /\ past'.ran = {} /\ loop'.at = "idle"
    BY <1>1, <2>2 DEF AgentRests
  <2>4. loop'.toolCalls = 0 /\ (o # Unmade => 0 <= o.maxToolCalls)
    <3>1. loop.toolCalls \in Nat /\ loop.toolCalls <= 0
      BY <1>1, <1>2, <2>2 DEF LoopBounded, Loops
    <3>2. 0 <= o.maxToolCalls
      BY DEF AgentAssumption
    <3> QED
      BY <2>2, <3>1, <3>2
  <2>5. AgentTyped'
    BY <1>1, <1>3, InputTyped
  <2>6. LoopBounded'
    BY <1>1, <2>2, <2>4 DEF LoopBounded
  <2>7. AgentRests' /\ FlightsPermitted' /\ A!OnlyPermittedRun'
    BY <2>3 DEF AgentRests, FlightsPermitted, A!OnlyPermittedRun
  <2> QED
    BY <2>5, <2>6, <2>7 DEF AgentInv
<1>4. CASE \E mode \in {"one-at-a-time", "all"} : A!Run(mode)
  <2>1. PICK mode \in {"one-at-a-time", "all"} : A!Run(mode)
    BY <1>4
  <2>2. UNCHANGED << options, flights >> /\ options # Unmade /\ options \in AgentOptions
    BY <1>1, <2>1 DEF A!Run, A!Made, AgentTyped
  <2>3. past'.ran = {}
    BY <1>2, <2>1 DEF A!Run, Pasts
  <2>4. loop'.todo = << >> /\ loop'.toolCalls = 0
    <3>1. PICK queue : queue = << 1 >>
      OBVIOUS
    <3>2. queue \in Seq(Nat)
      BY <3>1
    <3>3. PICK history \in Seq(Message) : history = transcript
      BY <1>1 DEF AgentTyped
    <3>4. A!Enter(0, 0, queue, history, FALSE)
      BY <2>1, <3>1, <3>3 DEF A!Run, A!EnterTurn
    <3> QED
      BY <2>2, <3>2, <3>4, DoEnter
  <2>5. LoopBounded'
    BY <2>2, <2>4 DEF LoopBounded, DistinctIds, AgentAssumption
  <2>6. AgentTyped'
    BY <1>1, <1>4, InputTyped
  <2>7. FlightsPermitted' /\ A!OnlyPermittedRun'
    BY <1>1, <2>2, <2>3, PermittedStays
  <2>8. AgentRests'
    BY <2>2 DEF AgentRests
  <2> QED
    BY <2>5, <2>6, <2>7, <2>8 DEF AgentInv
<1>5. CASE A!JoinRun \/ A!Steer \/ A!Abort \/ A!SetTranscript
  <2>1. /\ UNCHANGED << options, loop, flights >>
        /\ past'.ran \in {past.ran, {}}
    BY <1>2, <1>5 DEF A!JoinRun, A!Steer, A!Abort, A!SetTranscript, Pasts
  <2>2. AgentTyped'
    BY <1>1, <1>5, InputTyped
  <2>3. FlightsPermitted' /\ A!OnlyPermittedRun'
    BY <1>1, <2>1, PermittedStays
  <2>4. AgentRests' /\ LoopBounded'
    BY <1>1, <2>1 DEF AgentRests, LoopBounded
  <2> QED
    BY <2>2, <2>3, <2>4 DEF AgentInv
<1>6. ASSUME A!LoopStep \/ A!CallStep, AgentTyped', LoopBounded', options' = options,
             FlightsPermitted', A!OnlyPermittedRun'
      PROVE  AgentInv'
  <2>1. options' # Unmade
    BY <1>1, <1>6, AgentMade
  <2> QED
    BY <1>6, <2>1 DEF AgentInv, AgentRests
<1>7. CASE \/ A!TransformReturns \/ A!LoopRejects \/ A!RepliesText
           \/ \E stop \in BOOLEAN : A!StopHookReturns(stop)
           \/ A!BatchAborted \/ A!BatchReturns \/ A!NextTurn \/ A!Settle
  <2>1. A!LoopStep
    BY <1>7 DEF A!LoopStep
  <2>2. /\ AgentTyped' /\ UNCHANGED << options, flights >> /\ past'.ran = past.ran
        /\ loop'.todo \in {loop.todo, << >>} /\ loop'.toolCalls \in {loop.toolCalls, 0}
        /\ loop'.at # "tools" => loop'.todo = << >> \/ loop.at # "tools"
    BY <1>1, <1>7, DoTurn
  <2>3. LoopBounded'
    <3>1. options # Unmade /\ loop.toolCalls <= options.maxToolCalls /\ 0 <= options.maxToolCalls
      BY <1>1, <2>1, AgentMade DEF LoopBounded, AgentAssumption
    <3> QED
      BY <1>1, <2>2, <3>1 DEF LoopBounded, DistinctIds
  <2>4. FlightsPermitted' /\ A!OnlyPermittedRun'
    BY <1>1, <2>2, PermittedStays
  <2> QED
    BY <1>6, <2>1, <2>2, <2>3, <2>4
<1>8. CASE \E list \in Requested, text \in BOOLEAN :
             A!RepliesTruncated(list, text) \/ A!RepliesCalls(list, text)
  <2>1. PICK list \in Requested, text \in BOOLEAN :
          A!RepliesTruncated(list, text) \/ A!RepliesCalls(list, text)
    BY <1>8
  <2>2. PICK calls : calls = A!Calls(list)
    OBVIOUS
  <2>3. A!LoopStep
    BY <1>8 DEF A!LoopStep
  <2>4. options \in AgentOptions /\ options # Unmade /\ loop.toolCalls <= options.maxToolCalls
    BY <1>1, <2>3, AgentMade DEF LoopBounded
  <2>5. loop.at # "tools" => loop.todo = << >>
    BY <1>1 DEF LoopBounded
  <2>6. /\ AgentTyped' /\ Asks(calls, text) /\ UNCHANGED << options, flights >>
        /\ loop'.toolCalls <= options.maxToolCalls
    BY <1>1, <2>1, <2>2, <2>4, <2>5, DoReplies
  <2>7. DistinctIds(loop'.todo) /\ (loop'.at # "tools" => loop'.todo = << >>)
    BY <1>1, <2>1, <2>2, <2>4, <2>5, DoReplies DEF Replied
  <2>8. LoopBounded'
    BY <2>4, <2>6, <2>7 DEF LoopBounded
  <2>9. FlightsPermitted' /\ A!OnlyPermittedRun'
    <3>1. past'.ran = past.ran
      BY <2>6 DEF Asks
    <3> QED
      BY <1>1, <2>6, <3>1, PermittedStays
  <2> QED
    BY <1>6, <2>3, <2>6, <2>8, <2>9
<1>9. CASE A!BeginBatch \/ A!BeginNextCall
  <2>1. A!LoopStep
    BY <1>9 DEF A!LoopStep
  <2>2. PICK batch \in Seq(Call), rest \in Seq(Call) : BatchBegins(batch, rest)
    BY <1>1, <1>9, DoBatch
  <2>3. AgentTyped' /\ LoopBounded' /\ FlightsPermitted' /\ A!OnlyPermittedRun'
    <3>1. PICK ready, new :
            /\ Begins(batch, ready, new)
            /\ transcript' = transcript \o ResultsOf(ready) /\ flights' = flights \cup new
            /\ \A f \in new : f.stage \in {"before", "execute"} => ~ A!Risky(f.call)
            /\ past' \in Pasts
            /\ \A x \in past'.ran : \/ x \in past.ran
                                    \/ \E call \in Call : /\ x.impl \in A!Resolve(call.name)
                                                          /\ ~ A!Risky(call)
      BY <1>1, <2>2, DoBegin DEF BatchBegins
    <3>2. transcript' \in Seq(Message) /\ flights' \in SUBSET Flights
      <4>1. ready \in Seq(Call) /\ DistinctIds(ready) /\ new \in SUBSET Flights
        BY <3>1 DEF Begins
      <4>2. ResultsOf(ready) \in Seq(Message)
        BY <4>1, ResultsAnswer
      <4> QED
        BY <1>1, <3>1, <4>1, <4>2, ConcatProperties DEF AgentTyped
    <3>3. /\ loop' \in Loops /\ loop'.todo = rest /\ loop'.toolCalls = loop.toolCalls
          /\ loop'.at = "tools" /\ UNCHANGED << options, pendingQueue, pendingMode, aborted >>
      BY <1>2, <2>2 DEF BatchBegins, Loops
    <3>4. AgentTyped'
      BY <1>1, <3>1, <3>2, <3>3 DEF AgentTyped
    <3>5. LoopBounded'
      BY <1>1, <2>2, <3>3 DEF LoopBounded, BatchBegins
    <3>6. \A x \in past'.ran : \/ x \in past.ran
                               \/ \E name : /\ x.impl \in A!Resolve(name)
                                            /\ x.impl \in options.risky => x.resolution \in A!Allowing
      BY <3>1 DEF A!Risky
    <3>7. FlightsPermitted' /\ A!OnlyPermittedRun'
      BY <1>1, <3>1, <3>3, <3>6, PermittedStays
    <3> QED
      BY <3>4, <3>5, <3>7
  <2> QED
    BY <1>6, <2>1, <2>2, <2>3 DEF BatchBegins
<1>10. CASE A!CallStep
  <2>1. PICK f \in flights :
          \/ \E stage \in Stages \cup {"answer"}, r \in Answers :
               /\ A!Move(f, stage, r)
               /\ stage \in {"before", "execute"} /\ A!Risky(f.call) => r \in A!Allowing
          \/ A!CallRejects(f)
    BY <1>1, <1>10, DoCall
  <2>2. CASE A!CallRejects(f)
    <3>1. /\ AgentTyped' /\ past'.ran = past.ran /\ flights' = flights \ {f}
          /\ options' = options /\ loop'.toolCalls = loop.toolCalls
          /\ loop'.todo = << >> \/ loop' = loop
      BY <1>1, <2>2, DoReject
    <3>2. LoopBounded'
      BY <1>1, <3>1 DEF LoopBounded, DistinctIds
    <3>3. FlightsPermitted' /\ A!OnlyPermittedRun'
      BY <1>1, <3>1, PermittedStays
    <3> QED
      BY <1>6, <1>10, <3>1, <3>2, <3>3
  <2>3. ASSUME NEW stage \in Stages \cup {"answer"}, NEW r \in Answers, A!Move(f, stage, r),
               stage \in {"before", "execute"} /\ A!Risky(f.call) => r \in A!Allowing
        PROVE  AgentInv'
    <3>1. /\ AgentTyped' /\ UNCHANGED << options, loop >>
          /\ \A x \in past'.ran : \/ x \in past.ran
                                  \/ /\ stage = "execute" /\ x.resolution = r
                                     /\ x.impl \in A!Resolve(f.call.name)
      BY <1>1, <2>3, DoMove
    <3>2. \A g \in flights' : \/ g \in flights
                              \/ g.call = f.call /\ g.stage = stage /\ g.resolution = r
      <4>1. CASE stage = "answer"
        <5>1. flights' = flights \ {f}
          BY <1>1, <2>3, <4>1, DoMove
        <5> QED
          BY <5>1
      <4>2. CASE stage # "answer"
        <5>1. \E g \in Flights : /\ g.call = f.call /\ g.run = f.run
                                 /\ g.stage = stage /\ g.resolution = r
                                 /\ flights' = (flights \ {f}) \cup {g}
          BY <1>1, <2>3, <4>2, DoMove
        <5> QED
          BY <5>1
      <4> QED
        BY <4>1, <4>2
    <3>3. \A g \in flights' : \/ g \in flights
                              \/ g.stage \in {"before", "execute"} /\ A!Risky(g.call) =>
                                   g.resolution \in A!Allowing
      BY <2>3, <3>2
    <3>4. \A x \in past'.ran : \/ x \in past.ran
                               \/ \E name : /\ x.impl \in A!Resolve(name)
                                            /\ x.impl \in options.risky => x.resolution \in A!Allowing
      BY <2>3, <3>1 DEF A!Risky
    <3>5. FlightsPermitted' /\ A!OnlyPermittedRun'
      BY <1>1, <3>1, <3>3, <3>4, PermittedStays
    <3>6. LoopBounded'
      BY <1>1, <3>1 DEF LoopBounded
    <3> QED
      BY <1>6, <1>10, <3>1, <3>5, <3>6
  <2> QED
    BY <2>1, <2>2, <2>3
<1> QED
  BY <1>3, <1>4, <1>5, <1>7, <1>8, <1>9, <1>10 DEF A!Next, A!LoopStep

LEMMA AgentIdle ==
  ASSUME AgentInv, UNCHANGED A!agentVars
  PROVE  AgentInv'
<1>1. UNCHANGED << options, transcript, pendingQueue, pendingMode, aborted, loop, flights, past >>
  BY DEF A!agentVars
<1>2. AgentTyped' /\ AgentRests' /\ LoopBounded'
  BY <1>1 DEF AgentInv, AgentTyped, AgentRests, LoopBounded
<1>3. FlightsPermitted' /\ A!OnlyPermittedRun'
  BY <1>1, PermittedStays DEF AgentInv
<1> QED
  BY <1>2, <1>3 DEF AgentInv

\* Each step of the harness is a step of the agent or leaves it alone.
LEMMA AgentSteps ==
  ASSUME [Next]_harnessVars
  PROVE  [A!Next]_A!agentVars
BY DEF Next, AgentScene, SessionScene, ProtocolScene, PlanScene, harnessVars, ofAgent, A!agentVars

LEMMA AgentInvariant == Spec => []AgentInv
<1>1. Init => AgentInv
  BY AgentStarts DEF Init
<1>2. AgentInv /\ [Next]_harnessVars => AgentInv'
  BY AgentAssumption, AgentSteps, AgentStep, AgentIdle
<1> QED
  BY <1>1, <1>2, PTL DEF Spec

\* Whatever the tools, the scope, the approvals and the hooks, and however aborts, steers and
\* rejected batches fall, an implementation runs only if the scope shows it, and a risky one
\* only after an allowing resolution (executeSingle, ToolScope.resolve,
\* ApprovalProvider.resolve).
THEOREM OnlyPermittedRuns == Spec => []OnlyPermittedRun
<1>1. AgentInv => OnlyPermittedRun
  BY DEF AgentInv, OnlyPermittedRun
<1> QED
  BY <1>1, AgentInvariant, PTL

\* After abort() no turn of the agent begins, nor a further call of a sequential batch, in any
\* run of any agent (Agent.abort, Agent.loop, executeToolCallsSequential).
THEOREM AbortStopsRun == Spec => AbortStops
<1> DEFINE Stopped == aborted /\ aborted' =>
                        /\ loop'.turns > loop.turns => loop'.at = "ending"
                        /\ options.batch = "sequential" => past'.begun \subseteq past.begun
<1>1. ASSUME AgentInv, A!Next
      PROVE  Stopped
  <2>1. AgentTyped /\ AgentRests /\ LoopBounded /\ FlightsPermitted
    BY <1>1 DEF AgentInv
  <2>2. loop \in Loops /\ past \in Pasts /\ loop.turns \in Nat
    BY <2>1 DEF AgentTyped, Loops
  <2>3. ~ (loop.turns > loop.turns)
    BY <2>2
  <2>4. CASE \/ \E o \in AgentOptions : A!Construct(o)
             \/ A!JoinRun \/ A!Steer \/ A!Abort \/ A!SetTranscript
    <3>1. loop' = loop /\ past'.begun \subseteq past.begun
      BY <2>2, <2>4 DEF A!Construct, A!JoinRun, A!Steer, A!Abort, A!SetTranscript, Pasts
    <3> QED
      BY <2>3, <3>1
  <2>5. CASE \E mode \in {"one-at-a-time", "all"} : A!Run(mode)
    <3>1. aborted' = FALSE
      BY <2>5 DEF A!Run
    <3> QED
      BY <3>1
  <2>6. CASE \/ A!TransformReturns \/ A!LoopRejects \/ A!RepliesText
             \/ \E stop \in BOOLEAN : A!StopHookReturns(stop)
             \/ A!BatchAborted \/ A!BatchReturns \/ A!NextTurn \/ A!Settle
    <3>1. (loop'.turns > loop.turns => ~ aborted) /\ past'.begun = past.begun
      BY <2>1, <2>6, DoTurn
    <3> QED
      BY <3>1
  <2>7. CASE \E list \in Requested, text \in BOOLEAN :
               A!RepliesTruncated(list, text) \/ A!RepliesCalls(list, text)
    <3>1. PICK list \in Requested, text \in BOOLEAN :
            A!RepliesTruncated(list, text) \/ A!RepliesCalls(list, text)
      BY <2>7
    <3>2. PICK calls : calls = A!Calls(list)
      OBVIOUS
    <3>3. A!LoopStep
      BY <2>7 DEF A!LoopStep
    <3>4. options \in AgentOptions /\ loop.toolCalls <= options.maxToolCalls
      BY <2>1, <3>3, AgentMade DEF LoopBounded
    <3>5. loop.at # "tools" => loop.todo = << >>
      BY <2>1 DEF LoopBounded
    <3>6. loop'.turns = loop.turns /\ Asks(calls, text)
      BY <2>1, <3>1, <3>2, <3>4, <3>5, AgentAssumption, DoReplies
    <3> QED
      BY <2>3, <3>6 DEF Asks
  <2>8. CASE A!BeginBatch \/ A!BeginNextCall
    <3>1. PICK batch \in Seq(Call), rest \in Seq(Call) : BatchBegins(batch, rest)
      BY <2>1, <2>8, DoBatch
    <3>2. loop'.turns = loop.turns
      BY <2>2, <3>1 DEF BatchBegins, Loops
    <3>3. options.batch = "sequential" => ~ aborted
      BY <3>1 DEF BatchBegins
    <3> QED
      BY <2>3, <3>2, <3>3
  <2>9. CASE A!CallStep
    <3>1. PICK f \in flights :
            \/ \E stage \in Stages \cup {"answer"}, r \in Answers : A!Move(f, stage, r)
            \/ A!CallRejects(f)
      BY <2>1, <2>9, DoCall
    <3>2. CASE A!CallRejects(f)
      BY <2>1, <2>3, <3>2, DoReject
    <3>3. CASE \E stage \in Stages \cup {"answer"}, r \in Answers : A!Move(f, stage, r)
      <4>1. PICK stage \in Stages \cup {"answer"}, r \in Answers : A!Move(f, stage, r)
        BY <3>3
      <4>2. past'.begun = past.begun /\ loop' = loop
        BY <2>1, <4>1, DoMove
      <4> QED
        BY <2>3, <4>2
    <3> QED
      BY <3>1, <3>2, <3>3
  <2> QED
    BY <1>1, <2>4, <2>5, <2>6, <2>7, <2>8, <2>9 DEF A!Next, A!LoopStep
<1>2. AgentInv /\ [Next]_harnessVars => [Stopped]_A!agentVars
  BY <1>1, AgentSteps
<1>3. AbortStops <=> [][Stopped]_A!agentVars
  BY DEF AbortStops, A!AbortStops
<1> QED
  BY <1>2, <1>3, AgentInvariant, PTL DEF Spec

-------------------------------------------------------------------------------
(* Agent: each call is answered *)

\* The calls that wait, are in flight or are answered go on from one to the other.
LEMMA CallsGoOn ==
  ASSUME AgentTyped, AgentTyped', CallsApart, CallsKept, SameRun,
         NEW more \in Seq(Message), OnceIn(more), transcript' = transcript \o more,
         NEW before, before = IdsOf(loop.todo) \cup InFlight(flights),
         IdsOf(loop'.todo) \cup InFlight(flights') \cup AnsweredIn(more) \subseteq before,
         IdsOf(loop'.todo) \cap InFlight(flights') = {},
         IdsOf(loop'.todo) \cap AnsweredIn(more) = {},
         InFlight(flights') \cap AnsweredIn(more) = {},
         \A f, g \in flights' : f.call.id = g.call.id => f = g,
         past'.clean => past.clean,
         past'.clean /\ loop.at = "tools" =>
           \A id \in IdsOf(loop.todo) \cup InFlight(OfRun(flights, past.runs)) :
             \/ id \in AnsweredIn(more)
             \/ loop'.at = "tools" /\ id \in IdsOf(loop'.todo) \cup InFlight(OfRun(flights', past.runs)),
         aborted' /\ loop'.at # "idle" => ~ past'.clean
  PROVE  CallsApart' /\ CallsKept'
<1>1. PICK old \in Seq(Message) : old = transcript
  BY DEF AgentTyped
<1>2. AnsweredIn(old) \cap AnsweredIn(more) = {} /\ OnceIn(old)
  BY <1>1 DEF CallsApart
<1>3. /\ OnceIn(old \o more) /\ AnsweredIn(old \o more) = AnsweredIn(old) \cup AnsweredIn(more)
      /\ \A id : ToldIn(old, id) => ToldIn(old \o more, id)
  BY <1>2, MorePushed
<1>4. /\ OnceIn(transcript') /\ AnsweredIn(transcript') = AnsweredIn(transcript) \cup AnsweredIn(more)
      /\ \A id : ToldIn(transcript, id) => ToldIn(transcript', id)
  BY <1>1, <1>3
<1>5. past'.calls = past.calls /\ past'.runs = past.runs /\ past'.asked = past.asked
  BY DEF SameRun
<1>6. CallsApart'
  BY <1>4, <1>5 DEF CallsApart
<1>7. ASSUME past'.clean, NEW a \in past.asked
      PROVE  \/ a.id \in AnsweredIn(transcript')
             \/ loop'.at = "tools" /\ a.id \in IdsOf(loop'.todo) \cup InFlight(OfRun(flights', past'.runs))
  <2>1. \/ a.id \in AnsweredIn(transcript)
        \/ loop.at = "tools" /\ a.id \in IdsOf(loop.todo) \cup InFlight(OfRun(flights, past.runs))
    BY <1>7 DEF CallsKept
  <2> QED
    BY <1>4, <1>5, <1>7, <2>1
<1>8. \A a \in past.asked : a.id \in 1 .. past.calls /\ (a.told => ToldIn(transcript', a.id))
  BY <1>4 DEF CallsKept
<1>9. CallsKept'
  BY <1>5, <1>7, <1>8 DEF CallsKept
<1> QED
  BY <1>6, <1>9

\* Nothing is pushed, and no call is lost.
LEMMA CallsStay ==
  ASSUME AgentTyped, AgentTyped', CallsApart, CallsKept, SameRun, transcript' = transcript,
         UNCHANGED << loop, flights >>, past'.clean => past.clean,
         aborted' /\ loop.at # "idle" => aborted \/ ~ past'.clean
  PROVE  CallsApart' /\ CallsKept'
<1>1. past'.calls = past.calls /\ past'.runs = past.runs /\ past'.asked = past.asked
  BY DEF SameRun
<1>2. CallsApart'
  BY <1>1 DEF CallsApart
<1>3. CallsKept'
  BY <1>1 DEF CallsKept
<1> QED
  BY <1>2, <1>3

\* The calls of a response.
LEMMA CallsAsked ==
  ASSUME AgentTyped, AgentTyped', CallsApart, CallsKept, IdsOf(loop.todo) = {},
         loop.at = "complete", NEW text \in BOOLEAN, NEW calls \in Seq(Call), NEW more, NEW todo,
         IdsOf(calls) \subseteq past.calls + 1 .. past.calls + Len(calls),
         Asks(calls, text), UNCHANGED << flights, aborted >>,
         Replied(calls, text, more, todo), transcript' = transcript \o more, loop'.todo = todo,
         \/ /\ past'.clean = past.clean /\ loop'.at = "tools"
            /\ IdsOf(calls) = AnsweredIn(more) \cup IdsOf(todo)
         \/ ~ past'.clean /\ loop'.at = "ending" /\ todo = << >>
  PROVE  CallsApart' /\ CallsKept'
<1>1. PICK old \in Seq(Message) : old = transcript
  BY DEF AgentTyped
<1>2. PICK m \in Nat, n \in Nat : m = past.calls /\ n = Len(calls) /\ past'.calls = m + n
  BY LenProperties DEF AgentTyped, Pasts, Asks
<1>3. /\ AnsweredIn(transcript) \cup InFlight(flights) \subseteq 1 .. m /\ OnceIn(transcript)
      /\ InFlight(flights) \cap AnsweredIn(transcript) = {}
      /\ \A f, g \in flights : f.call.id = g.call.id => f = g
  BY <1>2 DEF CallsApart
<1>4. /\ more \in Seq(Message) /\ OnceIn(more)
      /\ IdsOf(todo) \cap AnsweredIn(more) = {} /\ IdsOf(todo) \cup AnsweredIn(more) \subseteq IdsOf(calls)
      /\ text => \A id \in IdsOf(calls) : ToldIn(more, id)
  BY DEF Replied
<1>5. \A id \in IdsOf(calls) : id \notin 1 .. m /\ id \in 1 .. m + n
  BY <1>2
<1>6. 1 .. m \subseteq 1 .. m + n
  BY <1>2
<1>7. AnsweredIn(old) \cap AnsweredIn(more) = {}
  BY <1>1, <1>3, <1>4, <1>5
<1>8. /\ OnceIn(old \o more) /\ AnsweredIn(old \o more) = AnsweredIn(old) \cup AnsweredIn(more)
      /\ \A id : ToldIn(old, id) => ToldIn(old \o more, id)
      /\ \A id : ToldIn(more, id) /\ id \notin AnsweredIn(old) => ToldIn(old \o more, id)
  BY <1>1, <1>3, <1>4, <1>7, MorePushed
<1>9. /\ OnceIn(transcript') /\ AnsweredIn(transcript') = AnsweredIn(transcript) \cup AnsweredIn(more)
      /\ \A id : ToldIn(transcript, id) => ToldIn(transcript', id)
      /\ text => \A id \in IdsOf(calls) : ToldIn(transcript', id)
  BY <1>1, <1>3, <1>4, <1>5, <1>8
<1>10. CallsApart'
  <2>1. IdsOf(todo) \cap InFlight(flights) = {}
    BY <1>3, <1>4, <1>5
  <2>2. IdsOf(todo) \cap AnsweredIn(transcript') = {}
    BY <1>3, <1>4, <1>5, <1>9
  <2>3. InFlight(flights) \cap AnsweredIn(transcript') = {}
    BY <1>3, <1>4, <1>5, <1>9
  <2>4. IdsOf(todo) \cup InFlight(flights) \cup AnsweredIn(transcript') \subseteq 1 .. m + n
    BY <1>3, <1>4, <1>5, <1>6, <1>9
  <2> QED
    BY <1>2, <1>3, <1>9, <2>1, <2>2, <2>3, <2>4 DEF CallsApart
<1>11. \A a \in past'.asked : a \in past.asked \/ (a.id \in IdsOf(calls) /\ a.told = text)
  BY DEF Asks, AskedOf
<1>12. ASSUME past'.clean, NEW a \in past'.asked
       PROVE  a.id \in AnsweredIn(transcript') \cup IdsOf(loop'.todo) /\ loop'.at = "tools"
  <2>1. /\ past.clean /\ loop'.at = "tools" /\ IdsOf(calls) = AnsweredIn(more) \cup IdsOf(loop'.todo)
    BY <1>12
  <2>2. CASE a \in past.asked
    <3>1. a.id \in AnsweredIn(transcript)
      BY <2>1, <2>2 DEF CallsKept
    <3> QED
      BY <1>9, <2>1, <3>1
  <2>3. CASE a.id \in IdsOf(calls)
    BY <1>9, <2>1, <2>3
  <2> QED
    BY <1>11, <1>12, <2>2, <2>3
<1>13. ASSUME NEW a \in past'.asked
       PROVE  a.id \in 1 .. m + n /\ (a.told => ToldIn(transcript', a.id))
  <2>1. CASE a \in past.asked
    <3>1. a.id \in 1 .. m /\ (a.told => ToldIn(transcript, a.id))
      BY <1>2, <2>1 DEF CallsKept
    <3> QED
      BY <1>6, <1>9, <3>1
  <2>2. CASE a.id \in IdsOf(calls) /\ a.told = text
    BY <1>5, <1>9, <2>2
  <2> QED
    BY <1>11, <2>1, <2>2
<1>14. aborted' /\ loop'.at # "idle" => ~ past'.clean
  BY DEF CallsKept
<1>15. CallsKept'
  BY <1>2, <1>12, <1>13, <1>14 DEF CallsKept
<1> QED
  BY <1>10, <1>15

\* A run or a history that starts forgets the calls asked for before.
LEMMA CallsForgotten ==
  ASSUME CallsApart, CallsKept, past'.asked = {}, past'.calls = past.calls, flights' = flights,
         AnsweredIn(transcript') = {}, OnceIn(transcript'), IdsOf(loop'.todo) = {},
         ~ aborted' \/ loop'.at = "idle"
  PROVE  CallsApart' /\ CallsKept'
<1>1. CallsApart'
  BY DEF CallsApart
<1>2. CallsKept'
  BY DEF CallsKept
<1> QED
  BY <1>1, <1>2

LEMMA NoMessages ==
  /\ << >> \in Seq(Message) /\ AnsweredIn(<< >>) = {} /\ OnceIn(<< >>)
  /\ IdsOf(<< >>) = {}
<1>1. \A i, id : ~ AnswersAt(<< >>, i, id)
  BY DEF AnswersAt
<1> QED
  BY <1>1, AnsweredDef DEF IdsOf

LEMMA CallsInputs ==
  ASSUME AgentInv, AgentInv', CallsApart, CallsKept,
         \/ \E o \in AgentOptions : A!Construct(o)
         \/ \E mode \in {"one-at-a-time", "all"} : A!Run(mode)
         \/ A!JoinRun \/ A!Steer \/ A!Abort \/ A!SetTranscript
  PROVE  CallsApart' /\ CallsKept'
<1>1. AgentTyped /\ AgentTyped' /\ loop \in Loops /\ past \in Pasts
  BY DEF AgentInv, AgentTyped
<1>2. CASE \/ \E o \in AgentOptions : A!Construct(o)
           \/ A!JoinRun \/ A!Steer
  <2>1. /\ UNCHANGED << transcript, loop, flights, aborted >> /\ SameRun /\ past'.clean = past.clean
    BY <1>1, <1>2 DEF A!Construct, A!JoinRun, A!Steer, Pasts, SameRun
  <2> QED
    BY <1>1, <2>1, CallsStay
<1>3. CASE A!Abort
  <2>1. PICK clean \in BOOLEAN : clean = (past.clean /\ loop.at = "idle")
    OBVIOUS
  <2>2. past' = [past EXCEPT !.clean = clean]
    BY <1>3, <2>1 DEF A!Abort
  <2>3. SameRun /\ past'.clean = clean
    BY <1>1, <2>2 DEF Pasts, SameRun
  <2>4. UNCHANGED << transcript, loop, flights >>
    BY <1>3 DEF A!Abort
  <2>5. (past'.clean => past.clean) /\ (loop.at # "idle" => ~ past'.clean)
    BY <2>1, <2>3
  <2> QED
    BY <1>1, <2>3, <2>4, <2>5, CallsStay
<1>4. CASE A!SetTranscript
  <2>1. /\ transcript' = << >> /\ UNCHANGED << loop, flights >> /\ loop.at = "idle"
        /\ past' = [past EXCEPT !.asked = {}, !.begun = {}, !.ran = {}, !.clean = TRUE]
    BY <1>4 DEF A!SetTranscript
  <2>2. past'.asked = {} /\ past'.calls = past.calls
    BY <1>1, <2>1 DEF Pasts
  <2>3. IdsOf(loop'.todo) = {}
    BY <2>1, NoMessages DEF AgentInv, LoopBounded
  <2> QED
    BY <2>1, <2>2, <2>3, NoMessages, CallsForgotten
<1>5. CASE \E mode \in {"one-at-a-time", "all"} : A!Run(mode)
  <2>1. PICK mode \in {"one-at-a-time", "all"} : A!Run(mode)
    BY <1>5
  <2>2. PICK history \in Seq(Message) : history = transcript /\ history = << >>
    BY <1>1, <2>1 DEF A!Run, AgentTyped
  <2>3. PICK queue : queue = << 1 >>
    OBVIOUS
  <2>4. queue \in Seq(Nat)
    BY <2>3
  <2>5. A!Enter(0, 0, queue, history, FALSE) /\ options \in AgentOptions
    BY <1>1, <2>1, <2>2, <2>3 DEF A!Run, A!EnterTurn, A!Made, AgentTyped
  <2>6. PICK more \in Seq(Message) : /\ transcript' = history \o more
                                     /\ AnsweredIn(more) = {} /\ OnceIn(more)
    BY <2>4, <2>5, DoEnter
  <2>7. transcript' = more
    BY <2>2, <2>6, ConcatEmptySeq
  <2>8. IdsOf(loop'.todo) = {}
    BY <2>4, <2>5, DoEnter, NoMessages
  <2>9. flights' = flights /\ ~ aborted' /\ past'.asked = {} /\ past'.calls = past.calls
    BY <1>1, <2>1 DEF A!Run, Pasts
  <2> QED
    BY <2>6, <2>7, <2>8, <2>9, CallsForgotten
<1> QED
  BY <1>2, <1>3, <1>4, <1>5

LEMMA CallsTurns ==
  ASSUME AgentInv, AgentInv', CallsApart, CallsKept,
         \/ A!TransformReturns \/ A!LoopRejects \/ A!RepliesText
         \/ \E stop \in BOOLEAN : A!StopHookReturns(stop)
         \/ A!BatchAborted \/ A!BatchReturns \/ A!NextTurn \/ A!Settle
  PROVE  CallsApart' /\ CallsKept'
<1>1. AgentTyped /\ AgentRests /\ AgentTyped'
  BY DEF AgentInv
<1>2. /\ UNCHANGED << aborted, flights >> /\ SameRun /\ (past'.clean => past.clean)
      /\ loop'.todo \in {loop.todo, << >>} /\ loop.at # "idle"
      /\ loop.at = "tools" => \/ aborted
                              \/ loop.todo = << >> /\ A!Own = {}
  BY <1>1, DoTurn
<1>3. PICK more \in Seq(Message) : /\ transcript' = transcript \o more
                                   /\ AnsweredIn(more) = {} /\ OnceIn(more)
  BY <1>1, DoTurn
<1>4. IdsOf(loop'.todo) \subseteq IdsOf(loop.todo)
  BY <1>2, NoMessages
<1>5. aborted' /\ loop'.at # "idle" => ~ past'.clean
  BY <1>2 DEF CallsKept
<1>6. past'.clean /\ loop.at = "tools" =>
        IdsOf(loop.todo) \cup InFlight(OfRun(flights, past.runs)) = {}
  <2> SUFFICES ASSUME past'.clean, loop.at = "tools"
               PROVE  IdsOf(loop.todo) = {} /\ InFlight(OfRun(flights, past.runs)) = {}
    OBVIOUS
  <2>1. ~ aborted
    BY <1>2 DEF CallsKept
  <2>2. loop.todo = << >> /\ OfRun(flights, past.runs) = {}
    BY <1>2, <2>1 DEF A!Own, OfRun
  <2>3. InFlight({}) = {}
    BY DEF InFlight
  <2> QED
    BY <2>2, <2>3, NoMessages
<1>7. /\ IdsOf(loop'.todo) \cup InFlight(flights') \cup AnsweredIn(more)
           \subseteq IdsOf(loop.todo) \cup InFlight(flights)
      /\ IdsOf(loop'.todo) \cap InFlight(flights') = {}
      /\ IdsOf(loop'.todo) \cap AnsweredIn(more) = {}
      /\ InFlight(flights') \cap AnsweredIn(more) = {}
  <2>1. flights' = flights /\ IdsOf(loop.todo) \cap InFlight(flights) = {}
    BY <1>2 DEF CallsApart
  <2> QED
    BY <1>3, <1>4, <2>1
<1>8. \A f, g \in flights' : f.call.id = g.call.id => f = g
  BY <1>2 DEF CallsApart
<1> QED
  BY <1>1, <1>2, <1>3, <1>5, <1>6, <1>7, <1>8, CallsGoOn

LEMMA CallsReplies ==
  ASSUME AgentInv, AgentInv', CallsApart, CallsKept, NEW list \in Requested, NEW text \in BOOLEAN,
         A!RepliesTruncated(list, text) \/ A!RepliesCalls(list, text)
  PROVE  CallsApart' /\ CallsKept'
<1>1. AgentTyped /\ AgentRests /\ AgentTyped' /\ past \in Pasts
  BY DEF AgentInv, AgentTyped
<1>2. A!LoopStep
  BY DEF A!LoopStep
<1>3. options \in AgentOptions /\ loop.toolCalls <= options.maxToolCalls
  BY <1>1, <1>2, AgentMade DEF AgentInv, LoopBounded
<1>4. loop.at # "tools" => loop.todo = << >>
  BY DEF AgentInv, LoopBounded
<1>5. PICK calls : calls = A!Calls(list)
  OBVIOUS
<1>6. calls \in Seq(Call) /\ IdsOf(calls) \subseteq past.calls + 1 .. past.calls + Len(calls)
  BY <1>1, <1>5, AgentAssumption, CallsProperties
<1>7. PICK more, todo :
        /\ Replied(calls, text, more, todo) /\ transcript' = transcript \o more /\ loop'.todo = todo
        /\ \/ /\ past'.clean = past.clean /\ loop'.at = "tools"
              /\ IdsOf(calls) = AnsweredIn(more) \cup IdsOf(todo)
           \/ ~ past'.clean /\ loop'.at = "ending" /\ todo = << >>
  BY <1>1, <1>3, <1>4, <1>5, AgentAssumption, DoReplies
<1>8. Asks(calls, text) /\ UNCHANGED << flights, aborted >> /\ loop.at = "complete"
  BY <1>1, <1>3, <1>4, <1>5, AgentAssumption, DoReplies
<1>9. IdsOf(loop.todo) = {}
  BY <1>4, <1>8, NoMessages
<1> QED
  BY <1>1, <1>6, <1>7, <1>8, <1>9, CallsAsked

LEMMA CallsBegin ==
  ASSUME AgentInv, AgentInv', CallsApart, CallsKept, A!BeginBatch \/ A!BeginNextCall
  PROVE  CallsApart' /\ CallsKept'
<1>1. AgentTyped /\ AgentTyped' /\ LoopBounded /\ loop \in Loops /\ past \in Pasts
  BY DEF AgentInv, AgentTyped
<1>2. PICK batch \in Seq(Call), rest \in Seq(Call) : BatchBegins(batch, rest)
  BY <1>1, DoBatch
<1>3. /\ loop'.todo = rest /\ loop.at = "tools" /\ loop'.at = "tools" /\ aborted' = aborted
      /\ DistinctIds(batch) /\ IdsOf(batch) \cap IdsOf(rest) = {}
      /\ IdsOf(batch) \cup IdsOf(rest) = IdsOf(loop.todo)
  BY <1>1, <1>2 DEF BatchBegins, Loops
<1>4. PICK ready, new :
        /\ Begins(batch, ready, new)
        /\ transcript' = transcript \o ResultsOf(ready) /\ flights' = flights \cup new
        /\ \A f \in new : f.run = past.runs
        /\ SameRun /\ past'.clean = past.clean
  BY <1>1, <1>2, <1>3, DoBegin DEF BatchBegins
<1>5. /\ ready \in Seq(Call) /\ DistinctIds(ready) /\ IdsOf(ready) \cap InFlight(new) = {}
      /\ IdsOf(ready) \cup InFlight(new) = IdsOf(batch)
      /\ \A f, g \in new : f.call.id = g.call.id => f = g
  BY <1>4 DEF Begins
<1>6. PICK more \in Seq(Message) : /\ more = ResultsOf(ready) /\ OnceIn(more)
                                   /\ AnsweredIn(more) = IdsOf(ready)
  BY <1>5, ResultsAnswer
<1>7. PICK waiting, flying, flown : /\ waiting = IdsOf(loop.todo) /\ flying = InFlight(flights)
                                    /\ flown = InFlight(new)
  OBVIOUS
<1>8. InFlight(flights') = flying \cup flown /\ waiting \cap flying = {}
  BY <1>4, <1>7 DEF InFlight, CallsApart
<1>9. \A f, g \in flights' : f.call.id = g.call.id => f = g
  <2>1. \A f \in flights, g \in new : f.call.id # g.call.id
    BY <1>3, <1>5, <1>7, <1>8 DEF InFlight
  <2> QED
    BY <1>4, <1>5, <2>1 DEF CallsApart
<1>10. InFlight(OfRun(flights', past.runs)) = InFlight(OfRun(flights, past.runs)) \cup flown
  BY <1>4, <1>7 DEF InFlight, OfRun
<1>11. /\ IdsOf(rest) \cup InFlight(flights') \cup AnsweredIn(more) \subseteq waiting \cup flying
       /\ IdsOf(rest) \cap InFlight(flights') = {}
       /\ IdsOf(rest) \cap AnsweredIn(more) = {}
       /\ InFlight(flights') \cap AnsweredIn(more) = {}
  BY <1>3, <1>5, <1>6, <1>7, <1>8
<1>12. \A id \in IdsOf(loop.todo) \cup InFlight(OfRun(flights, past.runs)) :
         \/ id \in AnsweredIn(more)
         \/ id \in IdsOf(rest) \cup InFlight(OfRun(flights', past.runs))
  BY <1>3, <1>5, <1>6, <1>7, <1>10
<1>13. aborted' /\ loop'.at # "idle" => ~ past'.clean
  BY <1>3, <1>4 DEF CallsKept
<1> QED
  BY <1>1, <1>3, <1>4, <1>6, <1>7, <1>9, <1>11, <1>12, <1>13, CallsGoOn

LEMMA CallsMove ==
  ASSUME AgentInv, AgentInv', CallsApart, CallsKept, NEW f \in flights,
         NEW stage \in Stages \cup {"answer"}, NEW r \in Answers, A!Move(f, stage, r)
  PROVE  CallsApart' /\ CallsKept'
<1>1. AgentTyped /\ AgentTyped' /\ f \in Flights /\ f.call \in Call
  BY DEF AgentInv, AgentTyped, Flights
<1>2. SameRun /\ past'.clean = past.clean /\ UNCHANGED << loop, aborted >>
  BY <1>1, DoMove
<1>3. PICK waiting, flying, own :
        /\ waiting = IdsOf(loop.todo) /\ flying = InFlight(flights)
        /\ own = InFlight(OfRun(flights, past.runs))
  OBVIOUS
<1>4. /\ waiting \cap flying = {} /\ f.call.id \in flying
      /\ \A g, h \in flights : g.call.id = h.call.id => g = h
  BY <1>3 DEF InFlight, CallsApart
<1>5. aborted' /\ loop'.at # "idle" => ~ past'.clean
  BY <1>2 DEF CallsKept
<1>6. CASE stage = "answer"
  <2>1. flights' = flights \ {f} /\ transcript' = Append(transcript, A!Result(f.call.id))
    BY <1>1, <1>6, DoMove
  <2>2. PICK part : part = << f.call >>
    OBVIOUS
  <2>3. part \in Seq(Call) /\ DistinctIds(part) /\ IdsOf(part) = {f.call.id}
    BY <1>1, <2>2 DEF DistinctIds, IdsOf
  <2>4. PICK more \in Seq(Message) : /\ more = ResultsOf(part) /\ OnceIn(more)
                                     /\ AnsweredIn(more) = {f.call.id}
    BY <2>3, ResultsAnswer
  <2>5. PICK message : message = A!Result(f.call.id)
    OBVIOUS
  <2>6. more = << message >> /\ message \in Message
    <3>1. more = << message >>
      BY <2>2, <2>4, <2>5 DEF ResultsOf
    <3> QED
      BY <2>4, <3>1, ElementOfSeq
  <2>7. transcript' = transcript \o more
    BY <1>1, <2>1, <2>5, <2>6, AppendIsConcat DEF AgentTyped
  <2>8. InFlight(flights') = flying \ {f.call.id}
    BY <1>3, <1>4, <2>1 DEF InFlight
  <2>9. own \subseteq {f.call.id} \cup InFlight(OfRun(flights', past.runs))
    BY <1>3, <2>1 DEF InFlight, OfRun
  <2>10. /\ IdsOf(loop'.todo) \cup InFlight(flights') \cup AnsweredIn(more)
              \subseteq IdsOf(loop.todo) \cup InFlight(flights)
         /\ IdsOf(loop'.todo) \cap InFlight(flights') = {}
         /\ IdsOf(loop'.todo) \cap AnsweredIn(more) = {}
         /\ InFlight(flights') \cap AnsweredIn(more) = {}
    BY <1>2, <1>3, <1>4, <2>4, <2>8
  <2>11. \A g, h \in flights' : g.call.id = h.call.id => g = h
    BY <1>4, <2>1
  <2>12. \A id \in IdsOf(loop.todo) \cup InFlight(OfRun(flights, past.runs)) :
           \/ id \in AnsweredIn(more)
           \/ id \in IdsOf(loop'.todo) \cup InFlight(OfRun(flights', past.runs))
    BY <1>2, <1>3, <2>4, <2>9
  <2> QED
    BY <1>1, <1>2, <1>5, <2>4, <2>7, <2>10, <2>11, <2>12, CallsGoOn
<1>7. CASE stage # "answer"
  <2>1. PICK g \in Flights : g.call = f.call /\ g.run = f.run /\ flights' = (flights \ {f}) \cup {g}
    BY <1>1, <1>7, DoMove
  <2>2. transcript' = transcript \o << >>
    BY <1>1, <1>7, DoMove, ConcatEmptySeq DEF AgentTyped
  <2>3. InFlight(flights') = flying
    BY <1>3, <1>4, <2>1 DEF InFlight
  <2>4. own \subseteq InFlight(OfRun(flights', past.runs))
    BY <1>3, <2>1 DEF InFlight, OfRun
  <2>5. \A g1, g2 \in flights' : g1.call.id = g2.call.id => g1 = g2
    BY <1>4, <2>1
  <2>6. PICK more \in Seq(Message) : more = << >> /\ AnsweredIn(more) = {} /\ OnceIn(more)
    BY NoMessages
  <2>10. /\ IdsOf(loop'.todo) \cup InFlight(flights') \cup AnsweredIn(more)
              \subseteq IdsOf(loop.todo) \cup InFlight(flights)
         /\ IdsOf(loop'.todo) \cap InFlight(flights') = {}
         /\ IdsOf(loop'.todo) \cap AnsweredIn(more) = {}
         /\ InFlight(flights') \cap AnsweredIn(more) = {}
    BY <1>2, <1>3, <1>4, <2>3, <2>6
  <2>11. \A id \in IdsOf(loop.todo) \cup InFlight(OfRun(flights, past.runs)) :
           \/ id \in AnsweredIn(more)
           \/ id \in IdsOf(loop'.todo) \cup InFlight(OfRun(flights', past.runs))
    BY <1>2, <1>3, <2>4
  <2>12. transcript' = transcript \o more
    BY <2>2, <2>6
  <2> QED
    BY <1>1, <1>2, <1>5, <2>5, <2>6, <2>10, <2>11, <2>12, CallsGoOn
<1> QED
  BY <1>6, <1>7

LEMMA CallsReject ==
  ASSUME AgentInv, AgentInv', CallsApart, CallsKept, NEW f \in flights, A!CallRejects(f)
  PROVE  CallsApart' /\ CallsKept'
<1>1. AgentTyped /\ AgentTyped'
  BY DEF AgentInv
<1>2. /\ SameRun /\ flights' = flights \ {f} /\ UNCHANGED << transcript, aborted >>
      /\ past'.clean => past.clean
      /\ \/ loop.at = "tools" /\ loop'.todo = << >> /\ ~ past'.clean
         \/ ~ (f.run = past.runs /\ loop.at = "tools") /\ loop' = loop
  BY <1>1, DoReject
<1>3. PICK more \in Seq(Message) : more = << >> /\ AnsweredIn(more) = {} /\ OnceIn(more)
  BY NoMessages
<1>4. transcript' = transcript \o more
  BY <1>1, <1>2, <1>3, ConcatEmptySeq DEF AgentTyped
<1>5. IdsOf(loop'.todo) \subseteq IdsOf(loop.todo) /\ InFlight(flights') \subseteq InFlight(flights)
  BY <1>2, NoMessages DEF InFlight
<1>6. past'.clean /\ loop.at = "tools" =>
        /\ loop' = loop
        /\ InFlight(OfRun(flights, past.runs)) \subseteq InFlight(OfRun(flights', past.runs))
  BY <1>2 DEF InFlight, OfRun
<1>7. aborted' /\ loop'.at # "idle" => ~ past'.clean
  BY <1>2 DEF CallsKept
<1>8. /\ IdsOf(loop.todo) \cap InFlight(flights) = {}
      /\ \A g, h \in flights' : g.call.id = h.call.id => g = h
  BY <1>2 DEF CallsApart
<1>9. /\ IdsOf(loop'.todo) \cup InFlight(flights') \cup AnsweredIn(more)
           \subseteq IdsOf(loop.todo) \cup InFlight(flights)
      /\ IdsOf(loop'.todo) \cap InFlight(flights') = {}
      /\ IdsOf(loop'.todo) \cap AnsweredIn(more) = {}
      /\ InFlight(flights') \cap AnsweredIn(more) = {}
  BY <1>3, <1>5, <1>8
<1>10. past'.clean /\ loop.at = "tools" =>
         \A id \in IdsOf(loop.todo) \cup InFlight(OfRun(flights, past.runs)) :
           \/ id \in AnsweredIn(more)
           \/ loop'.at = "tools" /\ id \in IdsOf(loop'.todo) \cup InFlight(OfRun(flights', past.runs))
  BY <1>6
<1> QED
  BY <1>1, <1>2, <1>3, <1>4, <1>7, <1>8, <1>9, <1>10, CallsGoOn

LEMMA CallsStep ==
  ASSUME AgentInv, AgentInv', CallsApart, CallsKept, A!Next
  PROVE  CallsApart' /\ CallsKept'
<1>1. CASE \/ \E o \in AgentOptions : A!Construct(o)
           \/ \E mode \in {"one-at-a-time", "all"} : A!Run(mode)
           \/ A!JoinRun \/ A!Steer \/ A!Abort \/ A!SetTranscript
  BY <1>1, CallsInputs
<1>2. CASE \/ A!TransformReturns \/ A!LoopRejects \/ A!RepliesText
           \/ \E stop \in BOOLEAN : A!StopHookReturns(stop)
           \/ A!BatchAborted \/ A!BatchReturns \/ A!NextTurn \/ A!Settle
  BY <1>2, CallsTurns
<1>3. CASE \E list \in Requested, text \in BOOLEAN :
             A!RepliesTruncated(list, text) \/ A!RepliesCalls(list, text)
  BY <1>3, CallsReplies
<1>4. CASE A!BeginBatch \/ A!BeginNextCall
  BY <1>4, CallsBegin
<1>5. CASE A!CallStep
  <2>1. PICK f \in flights :
          \/ \E stage \in Stages \cup {"answer"}, r \in Answers : A!Move(f, stage, r)
          \/ A!CallRejects(f)
    BY <1>5, DoCall DEF AgentInv
  <2> QED
    BY <2>1, CallsMove, CallsReject
<1> QED
  BY <1>1, <1>2, <1>3, <1>4, <1>5 DEF A!Next, A!LoopStep

LEMMA CallsStart ==
  ASSUME A!Init
  PROVE  CallsApart /\ CallsKept
<1>1. /\ loop.todo = << >> /\ flights = {} /\ transcript = << >> /\ past.asked = {}
      /\ loop.at = "idle" /\ past.calls = 0
  BY DEF A!Init, A!NoLoop
<1>2. InFlight({}) = {}
  BY DEF InFlight
<1> QED
  BY <1>1, <1>2, NoMessages DEF CallsApart, CallsKept

LEMMA CallsIdle ==
  ASSUME CallsApart, CallsKept, UNCHANGED A!agentVars
  PROVE  CallsApart' /\ CallsKept'
BY DEF CallsApart, CallsKept, A!agentVars

\* A run that was neither aborted, rejected nor cut off leaves each call it was asked for
\* answered exactly once, after the message that made it, for any tools, responses, hooks and
\* budgets, in parallel batches and in sequential ones, and whatever calls an earlier, rejected
\* batch has left behind (Agent.loop, executeToolCalls, executeSingle).
THEOREM EachCallAnswered == Spec => []CallsAnswered
<1>1. Init => CallsApart /\ CallsKept
  BY CallsStart DEF Init
<1>2. AgentInv /\ AgentInv' /\ CallsApart /\ CallsKept /\ [Next]_harnessVars => (CallsApart /\ CallsKept)'
  BY AgentSteps, CallsStep, CallsIdle
<1>3. CallsApart /\ CallsKept => CallsAnswered
  <2> SUFFICES ASSUME CallsApart, CallsKept, loop.at = "idle", past.clean, NEW a \in past.asked
               PROVE  /\ A!Cardinality(A!Places("toolResult", a.id)) = 1
                      /\ a.told => \E i \in A!Places("assistant", a.id) :
                                     \A k \in A!Places("toolResult", a.id) : i < k
    BY DEF CallsAnswered, A!CallsAnswered
  <2>1. PICK i : AnswersAt(transcript, i, a.id)
    BY AnsweredDef DEF CallsKept
  <2>2. \A k : AnswersAt(transcript, k, a.id) => k = i
    BY <2>1, AnsweredDef DEF CallsApart
  <2>3. A!Places("toolResult", a.id) = {i}
    BY <2>1, <2>2 DEF A!Places, AnswersAt
  <2>4. Cardinality({i}) = 1
    BY FS_Singleton
  <2>5. ASSUME a.told
        PROVE  \E k \in A!Places("assistant", a.id) : k < i
    <3>1. PICK k : CallsAt(transcript, k, a.id) /\ \A l : AnswersAt(transcript, l, a.id) => k < l
      BY <2>5, AnsweredDef DEF CallsKept
    <3> QED
      BY <2>1, <3>1 DEF A!Places, CallsAt
  <2> QED
    BY <2>3, <2>4, <2>5, SameOperators
<1> QED
  BY <1>1, <1>2, <1>3, AgentInvariant, PTL DEF Spec

-------------------------------------------------------------------------------
(* Agent: the numbers of its inputs and runs *)

\* What is queued is an input there was, and what is in flight belongs to a run there was.
Numbered ==
  /\ \A i \in 1 .. Len(pendingQueue) : pendingQueue[i] \in 1 .. past.inputs
  /\ \A f \in flights : f.run \in 1 .. past.runs
  /\ loop.at # "idle" => past.runs # 0

\* Entering a turn takes the inputs from the head of the queue.
LEMMA EnterTakes ==
  ASSUME NEW turns, NEW ran, NEW queue \in Seq(Nat), NEW history, NEW stop,
         A!Enter(turns, ran, queue, history, stop), NEW bound \in Nat,
         \A i \in 1 .. Len(queue) : queue[i] \in 1 .. bound
  PROVE  \A i \in 1 .. Len(pendingQueue') : pendingQueue'[i] \in 1 .. bound
<1>1. PICK n \in Nat : n = Len(queue)
  BY LenProperties
<1>2. PICK taken \in 0 .. n : taken = IF pendingMode' = "all" THEN Len(queue)
                                    ELSE IF queue = << >> THEN 0 ELSE 1
  <2>1. queue # << >> => n # 0
    BY <1>1, EmptySeq
  <2> QED
    BY <1>1, <2>1
<1>3. pendingQueue' \in {queue, SubSeq(queue, taken + 1, n)}
  BY <1>1, <1>2 DEF A!Enter
<1>4. PICK rest : rest = SubSeq(queue, taken + 1, n)
  OBVIOUS
<1>5. /\ Len(rest) = n - taken
      /\ \A i \in 1 .. n - taken : rest[i] = queue[taken + i] /\ taken + i \in 1 .. n
  <2>0. taken + 1 \in Nat /\ n - taken \in Nat
    OBVIOUS
  <2>1. PICK m \in Nat, k \in Nat : m = taken + 1 /\ k = n - taken
    BY <2>0
  <2>2. \A i \in m .. n : queue[i] \in Nat
    BY <1>1, <2>1, ElementOfSeq
  <2>3. /\ Len(rest) = IF m <= n THEN n - m + 1 ELSE 0
        /\ \A i \in 1 .. n - m + 1 : rest[i] = queue[m + i - 1]
    <3>1. m \in Int /\ n \in Int /\ rest = SubSeq(queue, m, n)
      BY <1>4, <2>1
    <3> QED
      BY <2>2, <3>1, SubSeqProperties
  <2>4. /\ (IF m <= n THEN n - m + 1 ELSE 0) = k /\ n - m + 1 = k
        /\ \A i \in 1 .. k : m + i - 1 = taken + i /\ taken + i \in 1 .. n
    BY <2>1
  <2> QED
    BY <2>1, <2>3, <2>4
<1>6. \A i \in 1 .. Len(rest) : rest[i] \in 1 .. bound
  BY <1>1, <1>5
<1> QED
  BY <1>3, <1>4, <1>6

LEMMA NumbersMove ==
  ASSUME AgentTyped, Numbered, A!Next PROVE Numbered'
<1>1. /\ past \in Pasts /\ loop \in Loops /\ pendingQueue \in Seq(Nat) /\ flights \in SUBSET Flights
      /\ transcript \in Seq(Message)
  BY DEF AgentTyped
<1>2. PICK inputs \in Nat, runs \in Nat : inputs = past.inputs /\ runs = past.runs
  BY <1>1 DEF Pasts
<1>3. CASE \E mode \in {"one-at-a-time", "all"} : A!Run(mode)
  <2>1. PICK queue, history : queue = << 1 >> /\ history = transcript
    OBVIOUS
  <2>2. /\ past' = [past EXCEPT !.inputs = 1, !.runs = @ + 1, !.asked = {}, !.begun = {},
                                !.ran = {}, !.clean = TRUE]
        /\ flights' = flights /\ A!Enter(0, 0, queue, history, FALSE)
    BY <1>3, <2>1 DEF A!Run, A!EnterTurn
  <2>3. past'.inputs = 1 /\ past'.runs = runs + 1
    BY <1>1, <1>2, <2>2 DEF Pasts
  <2>4. queue \in Seq(Nat) /\ \A i \in 1 .. Len(queue) : queue[i] \in 1 .. 1
    BY <2>1
  <2>5. \A i \in 1 .. Len(pendingQueue') : pendingQueue'[i] \in 1 .. 1
    BY <2>2, <2>4, EnterTakes
  <2> QED
    BY <1>2, <2>2, <2>3, <2>5 DEF Numbered
<1>4. CASE A!Steer
  <2>1. PICK one : one = inputs + 1 /\ one \in Nat
    BY <1>2
  <2>2. pendingQueue' = Append(pendingQueue, one) /\ UNCHANGED << loop, flights >>
    BY <1>2, <1>4, <2>1 DEF A!Steer
  <2>3. past'.inputs = one /\ past'.runs = runs
    BY <1>1, <1>2, <1>4, <2>1 DEF A!Steer, Pasts
  <2>4. PICK n \in Nat : n = Len(pendingQueue)
    BY <1>1, LenProperties
  <2>5. /\ Len(pendingQueue') = n + 1 /\ pendingQueue'[n + 1] = one
        /\ \A i \in 1 .. n : pendingQueue'[i] = pendingQueue[i]
    BY <1>1, <2>1, <2>2, <2>4, AppendProperties
  <2>6. \A i \in 1 .. n + 1 : i \in 1 .. n \/ i = n + 1
    BY <2>4
  <2>7. \A i \in 1 .. n + 1 : pendingQueue'[i] \in 1 .. one
    BY <1>2, <2>1, <2>4, <2>5, <2>6 DEF Numbered
  <2> QED
    BY <1>2, <2>2, <2>3, <2>5, <2>7 DEF Numbered
<1>5. CASE A!JoinRun
  <2>1. UNCHANGED << pendingQueue, loop, flights >> /\ past'.inputs = inputs + 1 /\ past'.runs = runs
    BY <1>1, <1>2, <1>5 DEF A!JoinRun, Pasts
  <2>2. \A x : x \in 1 .. inputs => x \in 1 .. inputs + 1
    BY <1>2
  <2> QED
    BY <1>2, <2>1, <2>2 DEF Numbered
<1>6. ASSUME UNCHANGED pendingQueue, past'.inputs = inputs, past'.runs = runs,
             loop'.at # "idle" => loop.at # "idle",
             \A f \in flights' : f \in flights \/ (f.run = runs /\ runs # 0) \/ \E g \in flights : f.run = g.run
      PROVE  Numbered'
  BY <1>2, <1>6 DEF Numbered
<1>7. CASE (\E o \in AgentOptions : A!Construct(o)) \/ A!Abort \/ A!SetTranscript
  <2>1. UNCHANGED << pendingQueue, loop, flights >> /\ past'.inputs = inputs /\ past'.runs = runs
    BY <1>1, <1>2, <1>7 DEF A!Construct, A!Abort, A!SetTranscript, Pasts
  <2> QED
    BY <1>6, <2>1
<1>8. CASE \/ A!TransformReturns \/ A!LoopRejects \/ A!RepliesText
           \/ \E stop \in BOOLEAN : A!StopHookReturns(stop)
           \/ A!BatchAborted \/ A!BatchReturns \/ A!Settle
  <2>1. UNCHANGED << pendingQueue, flights >> /\ loop.at # "idle"
    BY <1>8 DEF A!TransformReturns, A!LoopRejects, A!RepliesText, A!StopHookReturns,
                A!BatchAborted, A!BatchReturns, A!Settle, A!Clear
  <2>2. past'.inputs = inputs /\ past'.runs = runs
    BY <1>1, <1>2, <1>8 DEF A!TransformReturns, A!LoopRejects, A!RepliesText, A!StopHookReturns,
                A!BatchAborted, A!BatchReturns, A!Settle, A!Clear, Pasts
  <2> QED
    BY <1>6, <2>1, <2>2
<1>9. CASE \E list \in Requested, text \in BOOLEAN :
             A!RepliesTruncated(list, text) \/ A!RepliesCalls(list, text)
  <2>1. UNCHANGED << pendingQueue, flights >> /\ loop.at # "idle"
    BY <1>9 DEF A!RepliesTruncated, A!RepliesCalls
  <2>2. past'.inputs = inputs /\ past'.runs = runs
    BY <1>1, <1>2, <1>9 DEF A!RepliesTruncated, A!RepliesCalls, A!Asking, Pasts
  <2> QED
    BY <1>6, <2>1, <2>2
<1>10. CASE A!BeginBatch \/ A!BeginNextCall
  <2>1. PICK batch : A!BeginCalls(batch) /\ UNCHANGED pendingQueue /\ loop.at # "idle"
    BY <1>10 DEF A!BeginBatch, A!BeginNextCall, A!BeginCall
  <2>2. past'.inputs = inputs /\ past'.runs = runs
    BY <1>1, <1>2, <2>1 DEF A!BeginCalls, Pasts
  <2>3. \A f \in flights' : f \in flights \/ f.run = runs
    BY <1>2, <2>1 DEF A!BeginCalls, A!Flight
  <2>4. runs # 0
    BY <1>2, <2>1 DEF Numbered
  <2> QED
    BY <1>6, <2>1, <2>2, <2>3, <2>4
<1>11. CASE A!NextTurn
  <2>1. PICK turns, ran, queue, history, stop :
          queue = pendingQueue /\ A!Enter(turns, ran, queue, history, stop)
    BY <1>11 DEF A!NextTurn, A!EnterTurn
  <2>2. loop.at # "idle" /\ UNCHANGED << flights, past >>
    BY <1>11 DEF A!NextTurn
  <2>3. \A i \in 1 .. Len(pendingQueue') : pendingQueue'[i] \in 1 .. inputs
    BY <1>1, <1>2, <2>1, EnterTakes DEF Numbered
  <2> QED
    BY <1>2, <2>2, <2>3 DEF Numbered
<1>12. CASE A!CallStep
  <2>1. PICK f \in flights : \/ \E stage, r : A!Move(f, stage, r)
                             \/ A!CallRejects(f)
    BY <1>12 DEF A!CallStep, A!ApprovalResolves, A!BeforeReturns, A!ToolReturns, A!AfterReturns,
                 A!HookThrows
  <2>2. UNCHANGED pendingQueue /\ past'.inputs = inputs /\ past'.runs = runs
    BY <1>1, <1>2, <2>1 DEF A!Move, A!CallRejects, Pasts
  <2>3. loop'.at # "idle" => loop.at # "idle"
    BY <2>1 DEF A!Move, A!CallRejects
  <2>4. \A g \in flights' : g \in flights \/ g.run = f.run
    <3>1. CASE A!CallRejects(f)
      BY <3>1 DEF A!CallRejects
    <3>2. ASSUME NEW stage, NEW r, A!Move(f, stage, r)
          PROVE  \A g \in flights' : g \in flights \/ g.run = f.run
      <4>1. PICK g : g = [f EXCEPT !.stage = stage, !.resolution = r]
        OBVIOUS
      <4>2. g.run = f.run
        BY <1>1, <4>1 DEF Flights
      <4>3. \A h \in flights' : h \in flights \/ h = g
        BY <3>2, <4>1 DEF A!Move
      <4> QED
        BY <4>2, <4>3
    <3> QED
      BY <2>1, <3>1, <3>2
  <2> QED
    BY <1>6, <2>2, <2>3, <2>4
<1> QED
  BY <1>3, <1>4, <1>5, <1>7, <1>8, <1>9, <1>10, <1>11, <1>12 DEF A!Next, A!LoopStep

LEMMA AgentTypes == Spec => []A!AgentTypeOK
<1>1. Init => Numbered
  BY DEF Init, A!Init, A!NoLoop, Numbered
<1>2. AgentInv /\ Numbered /\ [Next]_harnessVars => Numbered'
  <2>1. ASSUME UNCHANGED A!agentVars, Numbered PROVE Numbered'
    BY <2>1 DEF A!agentVars, Numbered
  <2> QED
    BY <2>1, AgentSteps, NumbersMove DEF AgentInv
<1>3. AgentInv /\ Numbered => A!AgentTypeOK
  <2> SUFFICES ASSUME AgentTyped, Numbered PROVE A!AgentTypeOK
    BY DEF AgentInv
  <2>1. A!ToSet(pendingQueue) \subseteq 1 .. past.inputs
    <3>1. A!ToSet(pendingQueue) = {pendingQueue[i] : i \in 1 .. Len(pendingQueue)}
      BY SameOperators, ElementsOf DEF AgentTyped
    <3> QED
      BY <3>1 DEF Numbered
  <2>2. A!ToSet(transcript) \subseteq Message
    BY SameOperators, ElementsOf DEF AgentTyped
  <2>3. loop.at \in {"idle", "top", "transform", "complete", "tools", "stopHook", "ending"}
    BY DEF AgentTyped, Loops
  <2>4. \A f \in flights : f.run \in 1 .. past.runs /\ f.stage \in Stages
    BY DEF AgentTyped, Numbered, Flights
  <2>5. \A m \in A!ToSet(transcript) : m.role \in {"user", "assistant", "toolResult"}
    BY <2>2 DEF Message
  <2> QED
    BY <2>1, <2>3, <2>4, <2>5 DEF A!AgentTypeOK, AgentTyped, Stages
<1> QED
  BY <1>1, <1>2, <1>3, AgentInvariant, PTL DEF Spec

-------------------------------------------------------------------------------
(* Client and server: one run at a time *)

Commands == [type : {"auth", "run", "abort", "steer"}, arg : Nat]
Replies == [type : {"run_end", "agent_start", "auth_result", "unauthorized", "unknown_command"},
            text : Nat, aborted : BOOLEAN]
ClientPasts == [calls : Nat, aborts : Nat, auths : Nat, accepted : SUBSET Nat, tidy : BOOLEAN,
                refused : BOOLEAN]

\* At most one message of the type is on its way, and it is `one`.
OnlyOne(queue, type, one) ==
  /\ \A i \in DOMAIN queue : queue[i].type = type => queue[i] = one
  /\ \A i, k \in DOMAIN queue : queue[i].type = type /\ queue[k].type = type => i = k
NoneOf(queue, type) == \A i \in DOMAIN queue : queue[i].type # type

\* Where the run of a tidy client is, if it has one: its command is on the way, the repository
\* opens, the agent runs it, or its outcome is on the way back.
Place(stage) ==
  /\ IF stage = "sent" THEN OnlyOne(toServer, "run", P!Command("run", clientPast.calls))
     ELSE NoneOf(toServer, "run")
  /\ NoneOf(toServer, "abort")
  /\ opening = IF stage = "opening" THEN {clientPast.calls} ELSE {}
  /\ active = IF stage = "active" THEN {[input |-> clientPast.calls, aborted |-> FALSE]} ELSE {}
  /\ awaiting = IF stage = "active" THEN << clientPast.calls >> ELSE << >>
  /\ IF stage = "told" THEN OnlyOne(toClient, "run_end", P!RunEnd(clientPast.calls, FALSE))
     ELSE NoneOf(toClient, "run_end")
  /\ unresolved = IF stage = "none" THEN << >> ELSE << clientPast.calls >>

Places == {"none", "sent", "opening", "active", "told"}

TidyClient ==
  /\ clientPast \in ClientPasts /\ toServer \in Seq(Commands)
  /\ clientPast.tidy =>
       /\ toClient \in Seq(Replies)
       /\ \E stage \in Places : Place(stage)
       /\ \A r \in resolved : r.text = r.id /\ ~ r.aborted

LEMMA QueueTail ==
  ASSUME NEW S, NEW queue \in Seq(S), queue # << >>, NEW type, NEW one
  PROVE  /\ Tail(queue) \in Seq(S) /\ Head(queue) \in S
         /\ NoneOf(queue, type) => NoneOf(Tail(queue), type) /\ Head(queue).type # type
         /\ OnlyOne(queue, type, one) => OnlyOne(Tail(queue), type, one)
         /\ OnlyOne(queue, type, one) /\ Head(queue).type = type =>
              NoneOf(Tail(queue), type) /\ Head(queue) = one
<1>1. PICK n \in Nat : n = Len(queue) /\ n # 0 /\ DOMAIN queue = 1 .. n
  BY LenProperties, EmptySeq
<1>10. PICK rest : rest = Tail(queue)
  OBVIOUS
<1>11. /\ rest \in Seq(S) /\ Len(rest) = n - 1
       /\ \A i \in 1 .. Len(rest) : rest[i] = queue[i + 1]
  BY <1>1, <1>10, HeadTailProperties
<1>2. /\ rest \in Seq(S) /\ rest = Tail(queue) /\ DOMAIN rest = 1 .. n - 1
      /\ \A i \in 1 .. n - 1 : rest[i] = queue[i + 1]
  BY <1>10, <1>11, LenProperties
<1>3. Head(queue) = queue[1] /\ Head(queue) \in S /\ 1 \in 1 .. n
  BY <1>1, HeadTailProperties
<1>4. \A i \in 1 .. n - 1 : \E k \in 1 .. n : k = i + 1 /\ k # 1 /\ rest[i] = queue[k]
  <2> SUFFICES ASSUME NEW i \in 1 .. n - 1
               PROVE  \E k \in 1 .. n : k = i + 1 /\ k # 1 /\ rest[i] = queue[k]
    OBVIOUS
  <2>1. i + 1 \in 1 .. n /\ i + 1 # 1 /\ rest[i] = queue[i + 1]
    BY <1>1, <1>2
  <2> QED
    BY <2>1
<1>5. NoneOf(queue, type) => NoneOf(rest, type) /\ Head(queue).type # type
  BY <1>1, <1>2, <1>3, <1>4 DEF NoneOf
<1>6. ASSUME OnlyOne(queue, type, one)
      PROVE  OnlyOne(rest, type, one)
  <2>1. \A i \in 1 .. n - 1 : rest[i].type = type => rest[i] = one
    BY <1>1, <1>4, <1>6 DEF OnlyOne
  <2>2. ASSUME NEW i \in 1 .. n - 1, NEW l \in 1 .. n - 1, rest[i].type = type, rest[l].type = type
        PROVE  i = l
    <3>1. PICK a \in 1 .. n, b \in 1 .. n :
            a = i + 1 /\ b = l + 1 /\ rest[i] = queue[a] /\ rest[l] = queue[b]
      BY <1>4
    <3>2. a = b
      BY <1>1, <1>6, <2>2, <3>1 DEF OnlyOne
    <3> QED
      BY <1>1, <3>1, <3>2
  <2> QED
    BY <1>2, <2>1, <2>2 DEF OnlyOne
<1>7. ASSUME OnlyOne(queue, type, one), Head(queue).type = type
      PROVE  NoneOf(rest, type) /\ Head(queue) = one
  <2>1. Head(queue) = one
    BY <1>1, <1>3, <1>7 DEF OnlyOne
  <2>2. ASSUME NEW i \in 1 .. n - 1, rest[i].type = type
        PROVE  FALSE
    BY <1>1, <1>3, <1>4, <1>7, <2>2 DEF OnlyOne
  <2> QED
    BY <1>2, <2>1, <2>2 DEF NoneOf
<1> QED
  BY <1>2, <1>3, <1>5, <1>6, <1>7

LEMMA QueueAppend ==
  ASSUME NEW S, NEW queue \in Seq(S), NEW x \in S, NEW type, NEW one
  PROVE  /\ Append(queue, x) \in Seq(S)
         /\ NoneOf(queue, type) /\ x.type # type => NoneOf(Append(queue, x), type)
         /\ OnlyOne(queue, type, one) /\ x.type # type => OnlyOne(Append(queue, x), type, one)
         /\ NoneOf(queue, type) /\ x = one => OnlyOne(Append(queue, x), type, one)
<1>1. PICK n \in Nat : n = Len(queue) /\ DOMAIN queue = 1 .. n
  BY LenProperties
<1>10. PICK more : more = Append(queue, x)
  OBVIOUS
<1>11. /\ more \in Seq(S) /\ Len(more) = n + 1
       /\ \A i \in 1 .. n : more[i] = queue[i]
       /\ more[n + 1] = x
  BY <1>1, <1>10, AppendProperties
<1>2. /\ more \in Seq(S) /\ more = Append(queue, x) /\ DOMAIN more = 1 .. n + 1
      /\ \A i \in 1 .. n : more[i] = queue[i]
      /\ more[n + 1] = x
  BY <1>10, <1>11, LenProperties
<1>3. \A i \in 1 .. n + 1 : i = n + 1 \/ i \in 1 .. n
  BY <1>1
<1>4. NoneOf(queue, type) /\ x.type # type => NoneOf(more, type)
  BY <1>1, <1>2, <1>3 DEF NoneOf
<1>5. OnlyOne(queue, type, one) /\ x.type # type => OnlyOne(more, type, one)
  BY <1>1, <1>2, <1>3 DEF OnlyOne
<1>6. NoneOf(queue, type) /\ x = one => OnlyOne(more, type, one)
  BY <1>1, <1>2, <1>3 DEF NoneOf, OnlyOne
<1> QED
  BY <1>2, <1>4, <1>5, <1>6

LEMMA TidyCommands ==
  ASSUME TidyClient,
         \/ P!CallSteer \/ P!CallAbort \/ \E good \in BOOLEAN : P!Authenticate(good)
         \/ P!RequireToken
  PROVE  TidyClient'
<1>1. CASE P!RequireToken
  BY <1>1 DEF P!RequireToken, TidyClient, Place
<1>2. ASSUME P!CallSteer \/ P!CallAbort \/ \E good \in BOOLEAN : P!Authenticate(good)
      PROVE  TidyClient'
  <2>1. PICK c \in Commands : /\ toServer' = Append(toServer, c) /\ c.type # "run"
                              /\ ~ P!CallAbort => c.type # "abort"
    <3>1. CASE P!CallAbort
      BY <3>1 DEF P!CallAbort, P!Command, Commands
    <3>2. CASE P!CallSteer
      <4>1. P!Command("steer", 0) \in Commands /\ P!Command("steer", 0).type = "steer"
        BY DEF Commands, P!Command
      <4> QED
        BY <3>2, <4>1 DEF P!CallSteer
    <3>3. ASSUME NEW good \in BOOLEAN, P!Authenticate(good)
          PROVE  \E c \in Commands : toServer' = Append(toServer, c) /\ c.type = "auth"
      <4>1. PICK token \in Nat : token = IF good THEN 1 ELSE 0
        OBVIOUS
      <4>2. P!Command("auth", token) \in Commands /\ P!Command("auth", token).type = "auth"
        BY DEF Commands, P!Command
      <4> QED
        BY <3>3, <4>1, <4>2 DEF P!Authenticate
    <3> QED
      BY <1>2, <3>1, <3>2, <3>3
  <2>2. /\ clientPast' \in ClientPasts /\ clientPast'.calls = clientPast.calls
        /\ clientPast'.tidy => clientPast.tidy /\ ~ P!CallAbort
    <3>1. PICK k \in Nat, l \in Nat : k = clientPast.aborts + 1 /\ l = clientPast.auths + 1
      BY DEF TidyClient, ClientPasts
    <3>2. \/ clientPast' = [clientPast EXCEPT !.aborts = k] /\ ~ P!CallAbort
          \/ clientPast' = [clientPast EXCEPT !.aborts = k, !.tidy = FALSE]
          \/ clientPast' = [clientPast EXCEPT !.auths = l] /\ ~ P!CallAbort
      <4>1. CASE P!CallAbort
        BY <3>1, <4>1 DEF P!CallAbort
      <4>2. CASE ~ P!CallAbort
        BY <1>2, <3>1, <4>2 DEF P!CallSteer, P!Authenticate
      <4> QED
        BY <4>1, <4>2
    <3> QED
      BY <3>2 DEF TidyClient, ClientPasts
  <2>3. UNCHANGED << opening, active, awaiting, toClient, unresolved, resolved >>
    BY <1>2 DEF P!CallSteer, P!CallAbort, P!Authenticate, P!Server
  <2>4. toServer' \in Seq(Commands)
    BY <2>1, QueueAppend DEF TidyClient
  <2>5. ASSUME clientPast'.tidy
        PROVE  \E stage \in Places : Place(stage)'
    <3>1. PICK stage \in Places : Place(stage)
      BY <2>2, <2>5 DEF TidyClient
    <3>2. NoneOf(toServer', "abort")
      BY <2>1, <2>2, <2>5, <3>1, QueueAppend DEF TidyClient, Place
    <3>3. IF stage = "sent" THEN OnlyOne(toServer', "run", P!Command("run", clientPast.calls))
          ELSE NoneOf(toServer', "run")
      BY <2>1, <3>1, QueueAppend DEF TidyClient, Place
    <3>4. Place(stage)'
      BY <2>2, <2>3, <3>1, <3>2, <3>3 DEF Place
    <3> QED
      BY <3>4
  <2> QED
    BY <2>2, <2>3, <2>4, <2>5 DEF TidyClient
<1> QED
  BY <1>1, <1>2

LEMMA TidyCallRun ==
  ASSUME TidyClient, P!CallRun
  PROVE  TidyClient'
<1>1. PICK id \in Nat : id = clientPast.calls + 1
  BY DEF TidyClient, ClientPasts
<1>9. PICK c : c = P!Command("run", id)
  OBVIOUS
<1>2. c \in Commands /\ c = P!Command("run", id) /\ c.type = "run"
  BY <1>9 DEF Commands, P!Command
<1>3. /\ unresolved' = Append(unresolved, id) /\ toServer' = Append(toServer, c)
      /\ clientPast' = [clientPast EXCEPT !.calls = id,
                                          !.tidy = clientPast.tidy /\ unresolved = << >>]
      /\ UNCHANGED << opening, active, awaiting, toClient, resolved >>
  BY <1>1, <1>2 DEF P!CallRun, P!Server
<1>4. (clientPast.tidy /\ unresolved = << >>) \in BOOLEAN
  OBVIOUS
<1>5. clientPast' \in ClientPasts /\ clientPast'.calls = id
  BY <1>3, <1>4 DEF TidyClient, ClientPasts
<1>6. clientPast'.tidy => clientPast.tidy /\ unresolved = << >>
  BY <1>3 DEF TidyClient, ClientPasts
<1>7. toServer' \in Seq(Commands)
  BY <1>2, <1>3, QueueAppend DEF TidyClient
<1>8. ASSUME clientPast'.tidy
      PROVE  \E stage \in Places : Place(stage)'
  <2>1. PICK stage \in Places : Place(stage)
    BY <1>6, <1>8 DEF TidyClient
  <2>2. stage = "none"
    BY <1>6, <1>8, <2>1 DEF Place
  <2>3. OnlyOne(toServer', "run", c)
    BY <1>2, <1>3, <2>1, <2>2, QueueAppend DEF TidyClient, Place
  <2>4. NoneOf(toServer', "abort")
    BY <1>2, <1>3, <2>1, QueueAppend DEF TidyClient, Place
  <2>5. unresolved' = << id >>
    BY <1>3, <1>6, <1>8
  <2>6. opening' = {} /\ active' = {} /\ awaiting' = << >> /\ NoneOf(toClient', "run_end")
    BY <1>3, <2>1, <2>2 DEF Place
  <2>7. OnlyOne(toServer', "run", P!Command("run", clientPast'.calls))
    BY <1>2, <1>5, <2>3
  <2>8. Place("sent")'
    BY <1>5, <2>4, <2>5, <2>6, <2>7 DEF Place
  <2> QED
    BY <2>8 DEF Places
<1> QED
  BY <1>3, <1>5, <1>6, <1>7, <1>8 DEF TidyClient

LEMMA TidyDispatch ==
  ASSUME TidyClient, P!Dispatch
  PROVE  TidyClient'
<1>1. PICK m : m = Head(toClient)
  OBVIOUS
<1>2. /\ toClient # << >> /\ toClient' = Tail(toClient)
      /\ UNCHANGED << opening, active, awaiting, toServer, clientPast >>
      /\ IF m.type = "run_end" /\ unresolved # << >>
         THEN /\ unresolved' = Tail(unresolved)
              /\ resolved' = resolved \cup
                   {[id |-> Head(unresolved), text |-> m.text, aborted |-> m.aborted]}
         ELSE UNCHANGED << unresolved, resolved >>
  BY <1>1 DEF P!Dispatch, P!Server, P!Resolves
<1>3. ASSUME clientPast.tidy
      PROVE  /\ toClient' \in Seq(Replies) /\ \E stage \in Places : Place(stage)'
             /\ \A r \in resolved' : r.text = r.id /\ ~ r.aborted
  <2>1. PICK stage \in Places : Place(stage)
    BY <1>3 DEF TidyClient
  <2>2. PICK one : one = P!RunEnd(clientPast.calls, FALSE)
    OBVIOUS
  <2>3. /\ toClient' \in Seq(Replies)
        /\ NoneOf(toClient, "run_end") => NoneOf(toClient', "run_end") /\ m.type # "run_end"
        /\ OnlyOne(toClient, "run_end", one) => OnlyOne(toClient', "run_end", one)
        /\ OnlyOne(toClient, "run_end", one) /\ m.type = "run_end" =>
             NoneOf(toClient', "run_end") /\ m = one
    BY <1>1, <1>2, <1>3, QueueTail DEF TidyClient
  <2>4. CASE m.type = "run_end" /\ unresolved # << >>
    <3>1. stage = "told" /\ OnlyOne(toClient, "run_end", one) /\ unresolved = << clientPast.calls >>
      BY <2>1, <2>2, <2>3, <2>4 DEF Place
    <3>2. NoneOf(toClient', "run_end") /\ m.text = clientPast.calls /\ m.aborted = FALSE
      BY <2>2, <2>3, <2>4, <3>1 DEF P!RunEnd
    <3>3. Head(unresolved) = clientPast.calls /\ unresolved' = << >>
      BY <1>2, <2>4, <3>1
    <3>4. Place("none")'
      BY <1>2, <2>1, <3>1, <3>2, <3>3 DEF Place
    <3>5. \A r \in resolved' : r.text = r.id /\ ~ r.aborted
      BY <1>2, <1>3, <2>4, <3>2, <3>3 DEF TidyClient
    <3> QED
      BY <2>3, <3>4, <3>5 DEF Places
  <2>5. CASE ~ (m.type = "run_end" /\ unresolved # << >>)
    <3>1. UNCHANGED << unresolved, resolved >>
      BY <1>2, <2>5
    <3>2. IF stage = "told" THEN OnlyOne(toClient', "run_end", one) ELSE NoneOf(toClient', "run_end")
      BY <2>1, <2>2, <2>3 DEF Place
    <3>3. Place(stage)'
      BY <1>2, <2>1, <2>2, <3>1, <3>2 DEF Place
    <3> QED
      BY <1>3, <2>3, <3>1, <3>3 DEF TidyClient
  <2> QED
    BY <2>4, <2>5
<1> QED
  BY <1>2, <1>3 DEF TidyClient

\* What the server emits beside a run_end says nothing of a run.
LEMMA TidySays ==
  ASSUME NEW type \in {"agent_start", "auth_result", "unauthorized", "unknown_command"},
         NEW queue \in Seq(Replies), NEW one
  PROVE  /\ queue \o P!Says(type) \in Seq(Replies)
         /\ NoneOf(queue, "run_end") => NoneOf(queue \o P!Says(type), "run_end")
         /\ OnlyOne(queue, "run_end", one) => OnlyOne(queue \o P!Says(type), "run_end", one)
<1>1. PICK m \in Replies : m = [type |-> type, text |-> 0, aborted |-> FALSE]
  BY DEF Replies
<1>2. m.type # "run_end" /\ queue \o P!Says(type) = Append(queue, m)
  BY <1>1, AppendIsConcat DEF P!Says
<1> QED
  BY <1>2, QueueAppend

LEMMA TidyHandle ==
  ASSUME TidyClient, P!Handle
  PROVE  TidyClient'
<1>1. PICK c : c = Head(toServer)
  OBVIOUS
<1>2. PICK open : open = (~ guarded \/ authenticated)
  OBVIOUS
<1>3. c \in Commands /\ toServer # << >> /\ toServer' = Tail(toServer) /\ toServer' \in Seq(Commands)
  BY <1>1, QueueTail DEF P!Handle, TidyClient
<1>4. /\ clientPast' = IF c.type # "run" THEN clientPast
                       ELSE IF open THEN [clientPast EXCEPT !.accepted = @ \cup {c.arg}]
                       ELSE [clientPast EXCEPT !.refused = TRUE, !.tidy = FALSE]
      /\ opening' = IF c.type = "run" /\ open THEN opening \cup {c.arg} ELSE opening
      /\ active' = IF c.type = "abort" /\ open
                   THEN {[r EXCEPT !.aborted = TRUE] : r \in active} ELSE active
      /\ UNCHANGED << guarded, awaiting, unresolved, resolved >>
  BY <1>1, <1>2 DEF P!Handle
<1>5. /\ clientPast' \in ClientPasts /\ clientPast'.calls = clientPast.calls
      /\ clientPast'.tidy => clientPast.tidy /\ ~ (c.type = "run" /\ ~ open)
  BY <1>3, <1>4 DEF TidyClient, ClientPasts, Commands
<1>6. ASSUME clientPast'.tidy
      PROVE  toClient' \in Seq(Replies) /\ \E stage \in Places : Place(stage)'
  <2>1. PICK stage \in Places : Place(stage)
    BY <1>5, <1>6 DEF TidyClient
  <2>2. PICK one, run : one = P!RunEnd(clientPast.calls, FALSE) /\ run = P!Command("run", clientPast.calls)
    OBVIOUS
  <2>3. /\ NoneOf(toServer, "run") => NoneOf(toServer', "run") /\ c.type # "run"
        /\ OnlyOne(toServer, "run", run) => OnlyOne(toServer', "run", run)
        /\ OnlyOne(toServer, "run", run) /\ c.type = "run" => NoneOf(toServer', "run") /\ c = run
        /\ NoneOf(toServer', "abort") /\ c.type # "abort"
    <3>1. NoneOf(toServer, "abort")
      BY <2>1 DEF Place
    <3> QED
      BY <1>1, <1>3, <3>1, QueueTail DEF TidyClient
  <2>4. CASE c.type = "run"
    <3>1. open
      BY <1>5, <1>6, <2>4
    <3>2. stage = "sent" /\ NoneOf(toServer', "run") /\ c.arg = clientPast.calls
      BY <2>1, <2>2, <2>3, <2>4 DEF Place, P!Command
    <3>3. toClient' = toClient \o << >>
      BY <1>1, <1>2, <2>4, <3>1 DEF P!Handle, P!Emit
    <3>4. toClient' = toClient /\ toClient \in Seq(Replies)
      BY <1>5, <1>6, <3>3 DEF TidyClient
    <3>5. opening' = {clientPast.calls} /\ active' = active
      BY <1>4, <2>1, <2>4, <3>1, <3>2 DEF Place
    <3>6. Place("opening")'
      BY <1>4, <1>5, <2>1, <2>3, <3>2, <3>4, <3>5 DEF Place
    <3> QED
      BY <3>4, <3>6 DEF Places
  <2>5. CASE c.type # "run"
    <3>1. opening' = opening /\ active' = active
      BY <1>4, <2>3, <2>5
    <3>2. PICK type \in {"auth_result", "unauthorized", "unknown_command"} :
            toClient' = toClient \o P!Says(type)
      BY <1>1, <1>2, <2>3, <2>5 DEF P!Handle, P!Emit
    <3>3. /\ toClient' \in Seq(Replies)
          /\ NoneOf(toClient, "run_end") => NoneOf(toClient', "run_end")
          /\ OnlyOne(toClient, "run_end", one) => OnlyOne(toClient', "run_end", one)
      BY <1>5, <1>6, <3>2, TidySays DEF TidyClient
    <3>4. /\ IF stage = "sent" THEN OnlyOne(toServer', "run", run) ELSE NoneOf(toServer', "run")
          /\ IF stage = "told" THEN OnlyOne(toClient', "run_end", one)
             ELSE NoneOf(toClient', "run_end")
      BY <2>1, <2>2, <2>3, <3>3 DEF Place
    <3>5. Place(stage)'
      BY <1>4, <1>5, <2>1, <2>2, <2>3, <3>1, <3>4 DEF Place
    <3> QED
      BY <3>3, <3>5
  <2> QED
    BY <2>4, <2>5
<1> QED
  BY <1>3, <1>4, <1>5, <1>6 DEF TidyClient

LEMMA TidyStartOrJoin ==
  ASSUME TidyClient, NEW id \in 1 .. MaxCalls, P!StartOrJoin(id)
  PROVE  TidyClient'
<1>1. ASSUME clientPast.tidy
      PROVE  toClient' \in Seq(Replies) /\ \E stage \in Places : Place(stage)'
  <2>1. PICK stage \in Places : Place(stage)
    BY <1>1 DEF TidyClient
  <2>2. stage = "opening" /\ id = clientPast.calls
    BY <2>1 DEF P!StartOrJoin, Place
  <2>3. opening' = {} /\ awaiting' = << id >> /\ active' = {[input |-> id, aborted |-> FALSE]}
    BY <2>1, <2>2 DEF P!StartOrJoin, Place
  <2>4. toClient' = toClient \o P!Says("agent_start")
    BY DEF P!StartOrJoin, P!Emit
  <2>5. toClient' \in Seq(Replies) /\ NoneOf(toClient', "run_end")
    BY <1>1, <2>1, <2>2, <2>4, TidySays DEF TidyClient, Place
  <2>6. UNCHANGED << toServer, unresolved, clientPast >>
    BY DEF P!StartOrJoin
  <2>7. Place("active")'
    BY <2>1, <2>2, <2>3, <2>5, <2>6 DEF Place
  <2> QED
    BY <2>5, <2>7 DEF Places
<1> QED
  BY <1>1 DEF TidyClient, P!StartOrJoin

LEMMA TidySettles ==
  ASSUME TidyClient, P!AgentSettles \/ P!AgentFails
  PROVE  TidyClient'
<1>1. CASE P!AgentFails
  <2>1. clientPast' = [clientPast EXCEPT !.refused = TRUE, !.tidy = FALSE] /\ toServer' = toServer
    BY <1>1 DEF P!AgentFails
  <2>2. clientPast' \in ClientPasts /\ clientPast'.tidy = FALSE
    BY <2>1 DEF TidyClient, ClientPasts
  <2> QED
    BY <2>1, <2>2 DEF TidyClient
<1>2. CASE P!AgentSettles
  <2>1. PICK r \in active : P!EndRun(P!Ends(r))
    BY <1>2 DEF P!AgentSettles
  <2>2. /\ active' = {} /\ awaiting' = << >> /\ toClient' = toClient \o P!Ends(r)
        /\ UNCHANGED << opening, toServer, unresolved, resolved, clientPast >>
    BY <2>1 DEF P!EndRun, P!Emit
  <2>3. ASSUME clientPast.tidy
        PROVE  toClient' \in Seq(Replies) /\ \E stage \in Places : Place(stage)'
    <3>1. PICK stage \in Places : Place(stage)
      BY <2>3 DEF TidyClient
    <3>2. stage = "active" /\ r.input = clientPast.calls /\ r.aborted = FALSE
      BY <2>1, <3>1 DEF Place
    <3>3. awaiting = << clientPast.calls >>
      BY <3>1, <3>2 DEF Place
    <3>4. PICK m : m = P!RunEnd(clientPast.calls, FALSE)
      OBVIOUS
    <3>5. m \in Replies
      BY <3>4 DEF P!RunEnd, Replies, TidyClient, ClientPasts
    <3>6. P!Ends(r) = << m >>
      <4>1. DOMAIN awaiting = 1 .. 1
        BY <3>3
      <4>2. P!Ends(r) = [i \in 1 .. 1 |-> m]
        BY <3>2, <3>4, <4>1 DEF P!Ends
      <4>3. << m >> = [i \in 1 .. 1 |-> m]
        OBVIOUS
      <4> QED
        BY <4>2, <4>3
    <3>7. toClient \in Seq(Replies) /\ toClient' = Append(toClient, m)
      BY <2>2, <2>3, <3>5, <3>6, AppendIsConcat DEF TidyClient
    <3>8. NoneOf(toClient, "run_end")
      BY <3>1, <3>2 DEF Place
    <3>9. toClient' \in Seq(Replies) /\ OnlyOne(toClient', "run_end", m)
      BY <3>5, <3>7, <3>8, QueueAppend
    <3>10. Place("told")'
      BY <2>2, <3>1, <3>2, <3>4, <3>9 DEF Place
    <3> QED
      BY <3>9, <3>10 DEF Places
  <2> QED
    BY <2>2, <2>3 DEF TidyClient
<1> QED
  BY <1>1, <1>2

LEMMA TidyStep ==
  ASSUME TidyClient, [P!Next]_(P!protocolVars)
  PROVE  TidyClient'
<1>1. CASE P!Next
  BY <1>1, TidyCommands, TidyCallRun, TidyDispatch, TidyHandle, TidyStartOrJoin, TidySettles
     DEF P!Next, P!Progress
<1>2. CASE UNCHANGED P!protocolVars
  BY <1>2 DEF P!protocolVars, TidyClient, Place
<1> QED
  BY <1>1, <1>2

LEMMA TidyStart ==
  ASSUME P!Init
  PROVE  TidyClient
<1>1. toServer = << >> /\ << >> \in Seq(Commands) /\ toClient = << >> /\ << >> \in Seq(Replies)
  BY DEF P!Init
<1>2. clientPast \in ClientPasts /\ resolved = {}
  BY DEF P!Init, ClientPasts
<1>3. NoneOf(toServer, "run") /\ NoneOf(toServer, "abort") /\ NoneOf(toClient, "run_end")
  BY <1>1 DEF NoneOf
<1>4. Place("none")
  BY <1>3 DEF Place, P!Init
<1> QED
  BY <1>1, <1>2, <1>4 DEF TidyClient, Places

\* A client that waits for each of its runs, and has met neither an abort of its own nor a
\* refusal or a failure, is told of each run the outcome of that very run, for any number of
\* runs, steers and authentications in whatever order the two sides handle them
\* (TonyClient.run, dispatch; TonyServer.handle, handleRun).
THEOREM OutcomeIsOwn == Spec => []OwnOutcome
<1>1. Init => TidyClient
  BY TidyStart DEF Init
<1>2. TidyClient /\ [Next]_harnessVars => TidyClient'
  <2> SUFFICES ASSUME TidyClient, [Next]_harnessVars
               PROVE  TidyClient'
    OBVIOUS
  <2>1. P!Next \/ UNCHANGED ofProtocol
    BY DEF Next, AgentScene, SessionScene, ProtocolScene, PlanScene, harnessVars
  <2>2. UNCHANGED ofProtocol => UNCHANGED P!protocolVars
    BY DEF ofProtocol, P!protocolVars
  <2> QED
    BY <2>1, <2>2, TidyStep
<1>3. TidyClient => OwnOutcome
  BY DEF TidyClient, OwnOutcome, P!OwnOutcome
<1> QED
  BY <1>1, <1>2, <1>3, PTL DEF Spec

-------------------------------------------------------------------------------
(* Client and server: the shape of their state *)

Asked == 1 .. MaxCalls
Sent == {c \in Commands : c.type = "run" => c.arg \in Asked}
ActiveRuns == [input : Asked, aborted : BOOLEAN]
Outcomes == [id : Asked, text : Nat, aborted : BOOLEAN]

ProtocolTyped ==
  /\ guarded \in BOOLEAN /\ authenticated \in BOOLEAN /\ clientPast \in ClientPasts
  /\ clientPast.calls <= MaxCalls
  /\ toServer \in Seq(Sent) /\ toClient \in Seq(Replies)
  /\ opening \in SUBSET Asked /\ awaiting \in Seq(Asked) /\ unresolved \in Seq(Asked)
  /\ active \in SUBSET ActiveRuns /\ \A r, q \in active : r = q
  /\ resolved \in SUBSET Outcomes

LEMMA ClientCalls ==
  ASSUME CallAssumption, ProtocolTyped,
         \/ P!RequireToken \/ P!CallRun \/ P!CallSteer \/ P!CallAbort
         \/ \E good \in BOOLEAN : P!Authenticate(good)
  PROVE  ProtocolTyped'
<1>1. /\ clientPast \in ClientPasts /\ toServer \in Seq(Sent) /\ unresolved \in Seq(Asked)
      /\ clientPast.calls <= MaxCalls /\ MaxCalls \in Nat
  BY DEF ProtocolTyped, CallAssumption
<1>2. CASE P!RequireToken
  <2>1. /\ guarded' \in BOOLEAN
        /\ UNCHANGED << authenticated, toServer, toClient, opening, active, awaiting, unresolved,
                        resolved, clientPast >>
    BY <1>2 DEF P!RequireToken
  <2> QED
    BY <2>1 DEF ProtocolTyped
<1>3. ASSUME NEW c \in Sent, toServer' = Append(toServer, c), clientPast' \in ClientPasts,
             clientPast'.calls <= MaxCalls, unresolved' \in Seq(Asked),
             UNCHANGED << guarded, authenticated, opening, active, awaiting, toClient, resolved >>
      PROVE  ProtocolTyped'
  <2>1. toServer' \in Seq(Sent)
    BY <1>1, <1>3, AppendProperties
  <2> QED
    BY <1>3, <2>1 DEF ProtocolTyped
<1>4. CASE P!CallRun
  <2>1. PICK id : id = clientPast.calls + 1
    OBVIOUS
  <2>2. id \in Asked /\ id \in Nat
    BY <1>1, <1>4, <2>1 DEF P!CallRun, Asked, ClientPasts
  <2>3. /\ unresolved' = Append(unresolved, id)
        /\ toServer' = Append(toServer, P!Command("run", id))
        /\ clientPast' = [clientPast EXCEPT !.calls = id, !.tidy = @ /\ unresolved = << >>]
        /\ UNCHANGED << guarded, authenticated, opening, active, awaiting, toClient, resolved >>
    BY <1>4, <2>1 DEF P!CallRun, P!Server
  <2>4. P!Command("run", id) \in Sent
    BY <2>2 DEF P!Command, Sent, Commands
  <2>5. clientPast' \in ClientPasts /\ clientPast'.calls <= MaxCalls
    <3>1. PICK tidy \in BOOLEAN : tidy = (clientPast.tidy /\ unresolved = << >>)
      OBVIOUS
    <3>2. clientPast' = [clientPast EXCEPT !.calls = id, !.tidy = tidy]
      BY <2>3, <3>1
    <3>3. clientPast' \in ClientPasts /\ clientPast'.calls = id
      BY <1>1, <2>2, <3>2 DEF ClientPasts
    <3> QED
      BY <2>2, <3>3 DEF Asked
  <2>6. unresolved' \in Seq(Asked)
    BY <1>1, <2>2, <2>3, AppendProperties
  <2> QED
    BY <1>3, <2>3, <2>4, <2>5, <2>6
<1>5. CASE P!CallSteer \/ P!CallAbort \/ \E good \in BOOLEAN : P!Authenticate(good)
  <2>1. PICK type \in {"steer", "abort", "auth"}, arg \in Nat :
          toServer' = Append(toServer, P!Command(type, arg))
    BY <1>5 DEF P!CallSteer, P!CallAbort, P!Authenticate
  <2>2. P!Command(type, arg) \in Sent
    BY <2>1 DEF P!Command, Sent, Commands
  <2>3. clientPast' \in ClientPasts /\ clientPast'.calls = clientPast.calls
    <3>1. PICK aborts, tidy, auths :
            /\ aborts = [clientPast EXCEPT !.aborts = @ + 1] /\ auths = [clientPast EXCEPT !.auths = @ + 1]
            /\ tidy = [clientPast EXCEPT !.aborts = @ + 1, !.tidy = FALSE]
      OBVIOUS
    <3>5. clientPast' \in {aborts, tidy, auths}
      BY <1>5, <3>1 DEF P!CallSteer, P!CallAbort, P!Authenticate
    <3>2. \A p \in ClientPasts : /\ [p EXCEPT !.aborts = @ + 1] \in ClientPasts
                                /\ [p EXCEPT !.aborts = @ + 1].calls = p.calls
      BY DEF ClientPasts
    <3>3. \A p \in ClientPasts : /\ [p EXCEPT !.auths = @ + 1] \in ClientPasts
                                /\ [p EXCEPT !.auths = @ + 1].calls = p.calls
      BY DEF ClientPasts
    <3>4. tidy \in ClientPasts /\ tidy.calls = clientPast.calls
      <4>1. PICK n \in Nat : n = clientPast.aborts + 1
        BY <1>1 DEF ClientPasts
      <4>2. tidy = [clientPast EXCEPT !.aborts = n, !.tidy = FALSE]
        BY <3>1, <4>1
      <4> QED
        BY <1>1, <4>1, <4>2 DEF ClientPasts
    <3>6. \A p \in {aborts, tidy, auths} : p \in ClientPasts /\ p.calls = clientPast.calls
      <4>1. aborts \in ClientPasts /\ aborts.calls = clientPast.calls
        BY <1>1, <3>1, <3>2
      <4>2. auths \in ClientPasts /\ auths.calls = clientPast.calls
        BY <1>1, <3>1, <3>3
      <4> QED
        BY <3>4, <4>1, <4>2
    <3> QED
      BY <3>5, <3>6
  <2>4. UNCHANGED << guarded, authenticated, opening, active, awaiting, toClient, unresolved, resolved >>
    BY <1>5 DEF P!CallSteer, P!CallAbort, P!Authenticate, P!Server
  <2> QED
    BY <1>1, <1>3, <2>1, <2>2, <2>3, <2>4
<1> QED
  BY <1>2, <1>4, <1>5

LEMMA ServerHandles ==
  ASSUME ProtocolTyped, P!Handle
  PROVE  ProtocolTyped'
<1>1. PICK c : c = Head(toServer)
  OBVIOUS
<1>2. c \in Sent /\ toServer' \in Seq(Sent)
  BY <1>1, HeadTailProperties DEF P!Handle, ProtocolTyped
<1>3. authenticated' \in BOOLEAN
  BY DEF P!Handle, ProtocolTyped
<1>4. toClient' \in Seq(Replies)
  <2>1. PICK more : /\ toClient' = toClient \o more
                    /\ more \in {<< >>, << P!RunEnd(0, TRUE) >>, P!Says("auth_result"),
                                 P!Says("unauthorized"), P!Says("unknown_command")}
    BY DEF P!Handle, P!Emit
  <2>2. more \in Seq(Replies)
    <3>1. PICK end \in Replies : end = P!RunEnd(0, TRUE)
      BY DEF P!RunEnd, Replies
    <3>2. \A type \in {"auth_result", "unauthorized", "unknown_command"} : P!Says(type) \in Seq(Replies)
      BY DEF P!Says, Replies
    <3>3. << end >> \in Seq(Replies) /\ << >> \in Seq(Replies)
      OBVIOUS
    <3>4. /\ P!Says("auth_result") \in Seq(Replies) /\ P!Says("unauthorized") \in Seq(Replies)
          /\ P!Says("unknown_command") \in Seq(Replies)
      BY <3>2
    <3> QED
      BY <2>1, <3>1, <3>3, <3>4
  <2> QED
    BY <2>1, <2>2, ConcatProperties DEF ProtocolTyped
<1>5. opening' \in SUBSET Asked
  <2>1. opening' = opening \/ (c.type = "run" /\ opening' = opening \cup {c.arg})
    BY <1>1 DEF P!Handle
  <2> QED
    BY <1>2, <2>1 DEF Sent, ProtocolTyped
<1>6. active' \in SUBSET ActiveRuns /\ \A r, q \in active' : r = q
  <2>1. active' \in {active, {[r EXCEPT !.aborted = TRUE] : r \in active}}
    BY DEF P!Handle
  <2>2. \A r \in active : [r EXCEPT !.aborted = TRUE] \in ActiveRuns
    BY DEF ProtocolTyped, ActiveRuns
  <2> QED
    BY <2>1, <2>2 DEF ProtocolTyped
<1>7. clientPast' \in ClientPasts /\ clientPast'.calls = clientPast.calls
  <2>1. clientPast' \in {clientPast, [clientPast EXCEPT !.accepted = @ \cup {c.arg}],
                         [clientPast EXCEPT !.refused = TRUE, !.tidy = FALSE]}
    BY <1>1 DEF P!Handle
  <2>2. c.arg \in Nat /\ clientPast \in ClientPasts
    BY <1>2 DEF Sent, Commands, ProtocolTyped
  <2> QED
    BY <2>1, <2>2 DEF ClientPasts
<1> QED
  BY <1>2, <1>3, <1>4, <1>5, <1>6, <1>7 DEF P!Handle, ProtocolTyped

LEMMA RunsAnswered ==
  ASSUME ProtocolTyped,
         \/ P!Dispatch \/ \E id \in 1 .. MaxCalls : P!StartOrJoin(id)
         \/ P!AgentSettles \/ P!AgentFails
  PROVE  ProtocolTyped'
<1>1. CASE P!Dispatch
  <2>1. PICK m : m = Head(toClient)
    OBVIOUS
  <2>2. m \in Replies /\ toClient' \in Seq(Replies)
    BY <1>1, <2>1, HeadTailProperties DEF P!Dispatch, ProtocolTyped
  <2>3. /\ UNCHANGED << guarded, authenticated, opening, active, awaiting, toServer, clientPast >>
        /\ \/ UNCHANGED << unresolved, resolved >>
           \/ /\ unresolved # << >> /\ unresolved' = Tail(unresolved)
              /\ resolved' = resolved \cup {[id |-> Head(unresolved), text |-> m.text, aborted |-> m.aborted]}
    BY <1>1, <2>1 DEF P!Dispatch, P!Server
  <2>4. unresolved # << >> => Head(unresolved) \in Asked /\ Tail(unresolved) \in Seq(Asked)
    BY HeadTailProperties DEF ProtocolTyped
  <2>5. unresolved # << >> =>
          [id |-> Head(unresolved), text |-> m.text, aborted |-> m.aborted] \in Outcomes
    BY <2>2, <2>4 DEF Outcomes, Replies
  <2>6. unresolved' \in Seq(Asked) /\ resolved' \in SUBSET Outcomes
    BY <2>3, <2>4, <2>5 DEF ProtocolTyped
  <2> QED
    BY <2>2, <2>3, <2>6 DEF ProtocolTyped
<1>2. CASE \E id \in 1 .. MaxCalls : P!StartOrJoin(id)
  <2>1. PICK id \in Asked : P!StartOrJoin(id)
    BY <1>2 DEF Asked
  <2>2. awaiting' \in Seq(Asked) /\ opening' \in SUBSET Asked
    BY <2>1, AppendProperties DEF P!StartOrJoin, ProtocolTyped
  <2>3. toClient' \in Seq(Replies)
    <3>1. P!Says("agent_start") \in Seq(Replies)
      BY DEF P!Says, Replies
    <3> QED
      BY <2>1, <3>1, ConcatProperties DEF P!StartOrJoin, P!Emit, ProtocolTyped
  <2>4. active' \in SUBSET ActiveRuns /\ \A r, q \in active' : r = q
    <3>1. [input |-> id, aborted |-> FALSE] \in ActiveRuns
      BY DEF ActiveRuns
    <3> QED
      BY <2>1, <3>1 DEF P!StartOrJoin, ProtocolTyped
  <2> QED
    BY <2>1, <2>2, <2>3, <2>4 DEF P!StartOrJoin, ProtocolTyped
<1>3. CASE P!AgentSettles
  <2>1. PICK r \in active : P!EndRun(P!Ends(r))
    BY <1>3 DEF P!AgentSettles
  <2>2. P!RunEnd(r.input, r.aborted) \in Replies
    BY DEF ProtocolTyped, ActiveRuns, Asked, P!RunEnd, Replies
  <2>3. P!Ends(r) \in Seq(Replies)
    <3>1. PICK n \in Nat : n = Len(awaiting) /\ DOMAIN awaiting = 1 .. n
      BY LenProperties DEF ProtocolTyped
    <3>2. P!Ends(r) = [i \in 1 .. n |-> P!RunEnd(r.input, r.aborted)]
      BY <3>1 DEF P!Ends
    <3> QED
      BY <2>2, <3>2
  <2>4. toClient' \in Seq(Replies)
    BY <2>1, <2>3, ConcatProperties DEF P!EndRun, P!Emit, ProtocolTyped
  <2>5. << >> \in Seq(Asked) /\ awaiting' = << >> /\ active' = {}
    BY <2>1 DEF P!EndRun
  <2> QED
    BY <2>1, <2>4, <2>5 DEF P!EndRun, ProtocolTyped
<1>4. CASE P!AgentFails
  <2>1. << >> \in Seq(Asked) /\ awaiting' = << >> /\ active' = {}
    BY <1>4 DEF P!AgentFails
  <2>2. clientPast' \in ClientPasts /\ clientPast'.calls = clientPast.calls
    BY <1>4 DEF P!AgentFails, ProtocolTyped, ClientPasts
  <2> QED
    BY <1>4, <2>1, <2>2 DEF P!AgentFails, ProtocolTyped
<1> QED
  BY <1>1, <1>2, <1>3, <1>4

LEMMA ProtocolTypes == Spec => []P!ProtocolTypeOK
<1>1. Init => ProtocolTyped
  <2> SUFFICES ASSUME P!Init PROVE ProtocolTyped
    BY DEF Init
  <2>1. /\ << >> \in Seq(Sent) /\ << >> \in Seq(Replies) /\ << >> \in Seq(Asked)
        /\ {} \in SUBSET Asked /\ {} \in SUBSET ActiveRuns /\ {} \in SUBSET Outcomes
    OBVIOUS
  <2>2. clientPast \in ClientPasts /\ clientPast.calls = 0 /\ 0 <= MaxCalls
    BY CallAssumption DEF P!Init, ClientPasts
  <2> QED
    BY <2>1, <2>2 DEF P!Init, ProtocolTyped
<1>2. ProtocolTyped /\ [Next]_harnessVars => ProtocolTyped'
  <2> SUFFICES ASSUME ProtocolTyped, [Next]_harnessVars PROVE ProtocolTyped'
    OBVIOUS
  <2>1. CASE P!Next
    BY <2>1, CallAssumption, ClientCalls, ServerHandles, RunsAnswered DEF P!Next, P!Progress
  <2>2. CASE UNCHANGED ofProtocol
    BY <2>2 DEF ofProtocol, ProtocolTyped
  <2> QED
    BY <2>1, <2>2 DEF Next, AgentScene, SessionScene, ProtocolScene, PlanScene, harnessVars
<1>3. ProtocolTyped => P!ProtocolTypeOK
  <2> SUFFICES ASSUME ProtocolTyped PROVE P!ProtocolTypeOK
    OBVIOUS
  <2>1. P!ToSet(toServer) \subseteq Sent /\ P!ToSet(awaiting) \cup P!ToSet(unresolved) \subseteq Asked
    <3>1. \A s : P!ToSet(s) = ToSet(s)
      BY DEF P!ToSet, ToSet
    <3> QED
      BY <3>1, ElementsOf DEF ProtocolTyped
  <2>2. P!Cardinality(active) <= 1
    <3>1. P!Cardinality(active) = Cardinality(active)
      BY DEF P!Cardinality, Cardinality, P!IsInjective, IsInjective
    <3>2. active = {} \/ \E r \in active : active = {r}
      BY DEF ProtocolTyped
    <3> QED
      BY <3>1, <3>2, FS_EmptySet, FS_Singleton
  <2>3. \A r \in resolved : r.id \in Asked /\ r.aborted \in BOOLEAN
    BY DEF ProtocolTyped, Outcomes
  <2>4. \A c \in P!ToSet(toServer) : c.type \in {"auth", "run", "abort", "steer"}
    BY <2>1 DEF Sent, Commands
  <2> QED
    BY <2>1, <2>2, <2>3, <2>4 DEF P!ProtocolTypeOK, ProtocolTyped, Asked
<1> QED
  BY <1>1, <1>2, <1>3, PTL DEF Spec
=============================================================================
