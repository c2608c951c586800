------------------------------ MODULE HarnessAgent ------------------------------
(***************************************************************************)
(* Agent (src/src/harness/agent.ts), the stateful agent of the harness: its *)
(* transcript, its queue of steering messages, the loop of a run, and the   *)
(* calls in flight, which a parallel batch runs side by side and a rejected *)
(* batch leaves behind.  ToolScope (src/src/tools/scope.ts) decides which   *)
(* implementation a name stands for, ApprovalProvider                       *)
(* (src/src/approval/provider.ts) what becomes of a risky call.             *)
(***************************************************************************)
EXTENDS Naturals, Sequences, SequencesExt, FiniteSets, Selection

CONSTANTS
  Unmade,           \* the options before the constructor
  AgentOptions,     \* the options it may be given
  Requested,        \* the lists of << name, well-formed arguments >> of a response
  MaxRuns, MaxSteers   \* bounds of the model

VARIABLES
  options,          \* the constructor's, fixed from then on
  transcript, pendingQueue, pendingMode, aborted,
  loop,             \* activeRun: where its loop is, and the loop's locals
  flights           \* the calls of executeSingle that have not returned

\* Auxiliary: how many inputs and runs there were, the calls asked for and begun
\* in the latest run, the implementations run so far, and whether the latest run
\* was neither aborted, rejected nor cut off by a length stop.
VARIABLE past

agentVars == << options, transcript, pendingQueue, pendingMode, aborted, loop,
                flights, past >>

NoLoop == [at |-> "idle", turns |-> 0, toolCalls |-> 0, todo |-> << >>, last |-> FALSE]

Init ==
  /\ options = Unmade
  /\ transcript = << >> /\ pendingQueue = << >> /\ pendingMode = "one-at-a-time"
  /\ aborted = FALSE /\ loop = NoLoop /\ flights = {}
  /\ past = [inputs |-> 0, runs |-> 0, steers |-> 0, calls |-> 0, asked |-> {},
             begun |-> {}, ran |-> {}, clean |-> TRUE]

Construct(o) ==
  /\ options = Unmade /\ options' = o
  /\ UNCHANGED << transcript, pendingQueue, pendingMode, aborted, loop, flights, past >>

Made == options # Unmade
User(n) == [role |-> "user", of |-> {n}]
Assistant(ids) == [role |-> "assistant", of |-> ids]
Result(id) == [role |-> "toolResult", of |-> {id}]

-------------------------------------------------------------------------------
(* ToolScope and ApprovalProvider *)

\* The implementation a name stands for, as a set of at most one.
Fallback(name) == {<< name, "global" >>} \cap (options.tools \X {"global"})
\* A slip: an allow is looked at first.
ResolveAllowing(name) ==
  IF name \in options.allows THEN Fallback(name)
  ELSE IF name \in options.denies THEN {}
  ELSE IF name \in options.shadows THEN {<< name, "shadow" >>} ELSE {}

Resolve(name) ==
  IF ~ options.scoped THEN Fallback(name)
  ELSE IF name \in options.denies THEN {}
  ELSE IF name \in options.shadows THEN {<< name, "shadow" >>}
  ELSE IF name \in options.allows THEN Fallback(name) ELSE {}

\* What filter() shows of the registered tools.
Visible ==
  IF ~ options.scoped THEN options.tools \X {"global"}
  ELSE LET shown == options.tools \ options.denies
       IN ((shown \cap options.shadows) \X {"shadow"})
          \cup (((shown \cap options.allows) \ options.shadows) \X {"global"})

Allowing == {"allow-once", "allow-session"}
\* No resolver: the fallback.  A resolver: its answer, or the fallback when it
\* throws or answers something else.
Resolutions ==
  {options.fallback} \cup
  (IF options.approval = "resolver" THEN Allowing \cup {"deny"} ELSE {})

-------------------------------------------------------------------------------
(* executeSingle *)

\* Where a call goes next: "answer" pushes its result, "reject" throws.
AfterExecute == IF "after" \in options.hooks THEN "after" ELSE "answer"
\* Malformed arguments are found inside the try block.
ToExecute(call) == IF call.wellFormed THEN "execute" ELSE AfterExecute
BeforeExecute(call) == IF "before" \in options.hooks THEN "before" ELSE ToExecute(call)

Risky(call) == Resolve(call.name) \cap options.risky # {}

\* The stage in which executeSingle first yields.  A risky call's arguments are
\* parsed for the request, outside the try block.
FirstStage(call) ==
  IF Resolve(call.name) = {} THEN "answer"
  ELSE IF ~ Risky(call) THEN BeforeExecute(call)
  ELSE IF options.approval = "absent" THEN "answer"
  ELSE IF call.wellFormed THEN "approval" ELSE "reject"

Flight(call, stage, resolution) ==
  [call |-> call, run |-> past.runs, stage |-> stage, resolution |-> resolution]

\* What executing a call says about what ran.
Ran(f) == IF f.stage = "execute"
          THEN {[impl |-> impl, resolution |-> f.resolution] : impl \in Resolve(f.call.name)}
          ELSE {}

\* executeSingle up to its first await, of each call of the batch in turn.
BeginCalls(batch) ==
  LET started == {Flight(batch[i], FirstStage(batch[i]), "none") : i \in DOMAIN batch}
      answered == ElementsAt(batch, {i \in DOMAIN batch : FirstStage(batch[i]) = "answer"})
  IN /\ flights' = flights \cup {f \in started : f.stage # "answer"}
     /\ transcript' = transcript \o [i \in DOMAIN answered |-> Result(answered[i].id)]
     /\ past' = [past EXCEPT !.begun = @ \cup {c.id : c \in ToSet(batch)},
                             !.ran = @ \cup UNION {Ran(f) : f \in started}]

\* A call that was in flight enters its next stage, or pushes its result.
Move(f, stage, resolution) ==
  LET g == [f EXCEPT !.stage = stage, !.resolution = resolution]
  IN /\ flights' = (flights \ {f}) \cup (IF stage = "answer" THEN {} ELSE {g})
     /\ transcript' = IF stage = "answer" THEN Append(transcript, Result(f.call.id))
                      ELSE transcript
     /\ past' = [past EXCEPT !.ran = @ \cup Ran(g)]
     /\ UNCHANGED << options, pendingQueue, pendingMode, aborted, loop >>

\* The abort flag is not read again after the approval.
ApprovalResolves(f) ==
  /\ f.stage = "approval"
  /\ \E r \in Resolutions :
       Move(f, IF r \in Allowing THEN BeforeExecute(f.call) ELSE "answer", r)

BeforeReturns(f) == f.stage = "before" /\ Move(f, ToExecute(f.call), f.resolution)
\* A tool that throws becomes an error result.
ToolReturns(f) == f.stage = "execute" /\ Move(f, AfterExecute, f.resolution)
AfterReturns(f) == f.stage = "after" /\ Move(f, "answer", f.resolution)
HookThrows(f) == f.stage \in {"before", "after"} /\ Move(f, "reject", f.resolution)

\* The batch a rejected call belongs to rejects with it, and so does the run; its
\* other calls go on.  A call left behind by an earlier batch changes nothing.
CallRejects(f) ==
  /\ f.stage = "reject" /\ flights' = flights \ {f}
  /\ LET own == f.run = past.runs /\ loop.at = "tools"
     IN /\ loop' = IF own THEN [loop EXCEPT !.at = "ending", !.todo = << >>] ELSE loop
        /\ past' = [past EXCEPT !.clean = @ /\ ~ own]
  /\ UNCHANGED << options, transcript, pendingQueue, pendingMode, aborted >>

CallStep ==
  \E f \in flights :
    \/ ApprovalResolves(f) \/ BeforeReturns(f) \/ ToolReturns(f)
    \/ AfterReturns(f) \/ HookThrows(f) \/ CallRejects(f)

-------------------------------------------------------------------------------
(* loop *)

Go(at) == loop' = [loop EXCEPT !.at = at]

\* The head of the while loop up to its first await.
Enter(turns, toolCalls, queue, history, stop) ==
  LET n == IF pendingMode' = "all" THEN Len(queue) ELSE IF queue = << >> THEN 0 ELSE 1
      open == ~ stop /\ turns + 1 <= options.maxTurns
  IN /\ pendingQueue' = IF open THEN SubSeq(queue, n + 1, Len(queue)) ELSE queue
     /\ transcript' = IF open THEN history \o [i \in 1..n |-> User(queue[i])] ELSE history
     /\ loop' = [NoLoop EXCEPT
                   !.at = IF ~ open THEN "ending"
                          ELSE IF "transform" \in options.hooks THEN "transform"
                          ELSE "complete",
                   !.turns = IF stop THEN turns ELSE turns + 1,
                   !.toolCalls = toolCalls]

\* A slip: no abort check between turns.
EnterTurnRegardless(turns, toolCalls, queue, history, stop) ==
  Enter(turns, toolCalls, queue, history, FALSE)
EnterTurn(turns, toolCalls, queue, history, stop) ==
  Enter(turns, toolCalls, queue, history, stop)

\* run() while none is active.  What was queued before it is gone.  The history
\* that the owner has just loaded stands as an empty transcript.
Run(mode) ==
  /\ Made /\ loop.at = "idle" /\ past.runs < MaxRuns /\ transcript = << >>
  /\ pendingMode' = mode /\ aborted' = FALSE
  /\ EnterTurn(0, 0, << 1 >>, transcript, FALSE)
  /\ past' = [past EXCEPT !.inputs = 1, !.runs = @ + 1, !.asked = {}, !.begun = {},
                          !.ran = {}, !.clean = TRUE]
  /\ UNCHANGED << options, flights >>

\* run() while one is active: the caller gets the active run's promise.
JoinRun ==
  /\ loop.at # "idle" /\ past.steers < MaxSteers
  /\ past' = [past EXCEPT !.inputs = @ + 1, !.steers = @ + 1]
  /\ UNCHANGED << options, transcript, pendingQueue, pendingMode, aborted, loop, flights >>

\* steer() and followUp(), at any time.
Steer ==
  /\ Made /\ past.steers < MaxSteers
  /\ pendingQueue' = Append(pendingQueue, past.inputs + 1)
  /\ past' = [past EXCEPT !.inputs = @ + 1, !.steers = @ + 1]
  /\ UNCHANGED << options, transcript, pendingMode, aborted, loop, flights >>

Abort ==
  /\ Made /\ aborted' = TRUE
  /\ past' = [past EXCEPT !.clean = @ /\ loop.at = "idle"]
  /\ UNCHANGED << options, transcript, pendingQueue, pendingMode, loop, flights >>

\* The owner loads a history between two runs.
SetTranscript ==
  /\ Made /\ loop.at = "idle" /\ transcript' = << >>
  /\ past' = [past EXCEPT !.asked = {}, !.begun = {}, !.ran = {}, !.clean = TRUE]
  /\ UNCHANGED << options, pendingQueue, pendingMode, aborted, loop, flights >>

Quiet == UNCHANGED << options, pendingMode, aborted >>

\* transformContext returns; the request goes out, aborted or not.
TransformReturns ==
  /\ loop.at = "transform" /\ Go("complete") /\ Quiet
  /\ UNCHANGED << transcript, pendingQueue, flights, past >>

\* transformContext, complete() or shouldStopAfterTurn() throws.
LoopRejects ==
  /\ loop.at \in {"transform", "complete", "stopHook"} /\ Go("ending") /\ Quiet
  /\ past' = [past EXCEPT !.clean = FALSE]
  /\ UNCHANGED << transcript, pendingQueue, flights >>

Calls(list) == [i \in DOMAIN list |->
                  [id |-> past.calls + i, name |-> list[i][1], wellFormed |-> list[i][2]]]
Ids(calls) == {c.id : c \in ToSet(calls)}
\* An assistant turn without text is not pushed, whatever it calls.
Answered(calls, text) ==
  IF text THEN Append(transcript, Assistant(Ids(calls))) ELSE transcript
Asking(calls, text) ==
  [past EXCEPT !.calls = @ + Len(calls),
               !.asked = @ \cup {[id |-> i, told |-> text] : i \in Ids(calls)}]

\* A response without calls ends the turn.
RepliesText ==
  /\ loop.at = "complete"
  /\ \E text \in BOOLEAN : transcript' = Answered(<< >>, text)
  /\ IF "stop" \in options.hooks THEN Go("stopHook")
     ELSE Go(IF pendingQueue = << >> THEN "ending" ELSE "top")
  /\ Quiet /\ UNCHANGED << pendingQueue, flights, past >>

StopHookReturns(stop) ==
  /\ loop.at = "stopHook"
  /\ Go(IF stop \/ pendingQueue = << >> THEN "ending" ELSE "top")
  /\ Quiet /\ UNCHANGED << transcript, pendingQueue, flights, past >>

\* A response cut off by its length: only its first call is answered.
RepliesTruncated(list, text) ==
  /\ loop.at = "complete" /\ list # << >>
  /\ LET calls == Calls(list) IN
       /\ transcript' = Append(Answered(calls, text), Result(Head(calls).id))
       /\ past' = [Asking(calls, text) EXCEPT !.clean = FALSE]
  /\ Go("ending") /\ Quiet /\ UNCHANGED << pendingQueue, flights >>

\* A slip: the calls beyond the budget are dropped without an answer.
SkippedUnanswered(skipped) == << >>
\* The calls beyond the budget are answered at once.
SkippedAnswers(skipped) == [i \in DOMAIN skipped |-> Result(skipped[i].id)]

\* The calls that fit the budget are the batch to run, the run's last one if some do
\* not fit.
RepliesCalls(list, text) ==
  /\ loop.at = "complete" /\ list # << >>
  /\ LET calls == Calls(list)
         left == options.maxToolCalls - loop.toolCalls
         fit == IF Len(calls) > left THEN left ELSE Len(calls)
     IN /\ transcript' = Answered(calls, text) \o SkippedAnswers(SubSeq(calls, fit + 1, Len(calls)))
        /\ past' = Asking(calls, text)
        /\ loop' = [loop EXCEPT !.at = "tools", !.todo = SubSeq(calls, 1, fit),
                                !.last = Len(calls) > left, !.toolCalls = @ + fit]
  /\ Quiet /\ UNCHANGED << pendingQueue, flights >>

Own == {f \in flights : f.run = past.runs}

\* A parallel batch begins all its calls at once, the abort flag unread.
BeginBatch ==
  /\ loop.at = "tools" /\ loop.todo # << >> /\ options.batch = "parallel"
  /\ BeginCalls(loop.todo) /\ loop' = [loop EXCEPT !.todo = << >>]
  /\ Quiet /\ UNCHANGED pendingQueue

\* A sequential batch begins a call when the one before it has returned.
BeginCall ==
  /\ loop.at = "tools" /\ loop.todo # << >> /\ options.batch = "sequential" /\ Own = {}
  /\ BeginCalls(<< Head(loop.todo) >>) /\ loop' = [loop EXCEPT !.todo = Tail(@)]
  /\ Quiet /\ UNCHANGED pendingQueue

BeginNextCall == ~ aborted /\ BeginCall

\* An aborted sequential batch leaves its other calls unanswered.
BatchAborted ==
  /\ loop.at = "tools" /\ loop.todo # << >> /\ options.batch = "sequential"
  /\ Own = {} /\ aborted /\ loop' = [loop EXCEPT !.todo = << >>]
  /\ Quiet /\ UNCHANGED << transcript, pendingQueue, flights, past >>

BatchReturns ==
  /\ loop.at = "tools" /\ loop.todo = << >> /\ Own = {}
  /\ Go(IF loop.last THEN "ending" ELSE "top")
  /\ Quiet /\ UNCHANGED << transcript, pendingQueue, flights, past >>

NextTurn ==
  /\ loop.at = "top" /\ Quiet
  /\ EnterTurn(loop.turns, loop.toolCalls, pendingQueue, transcript, aborted)
  /\ UNCHANGED << flights, past >>

\* The loop's promise settles and its finally clears activeRun.
Clear == 
  /\ loop.at = "ending" /\ loop' = NoLoop /\ Quiet
  /\ UNCHANGED << transcript, pendingQueue, flights, past >>

\* A slip: activeRun is cleared by then() instead of finally().
SettleIfFulfilled == past.clean /\ Clear
Settle == Clear

LoopStep ==
  \/ TransformReturns \/ LoopRejects \/ RepliesText
  \/ \E stop \in BOOLEAN : StopHookReturns(stop)
  \/ \E list \in Requested, text \in BOOLEAN :
       RepliesTruncated(list, text) \/ RepliesCalls(list, text)
  \/ BeginBatch \/ BeginNextCall \/ BatchAborted \/ BatchReturns \/ NextTurn \/ Settle

Next ==
  \/ \E o \in AgentOptions : Construct(o)
  \/ \E mode \in {"one-at-a-time", "all"} : Run(mode)
  \/ JoinRun \/ Steer \/ Abort \/ SetTranscript
  \/ LoopStep \/ CallStep

\* The model, the hooks, the tools and the resolver answer in the end.
AgentFairness == WF_agentVars(LoopStep) /\ WF_agentVars(CallStep)
Spec == Init /\ [][Next]_agentVars /\ AgentFairness

-------------------------------------------------------------------------------
(* Properties *)

\* The state is of the expected shape.
AgentTypeOK ==
  /\ options \in AgentOptions \cup {Unmade}
  /\ pendingMode \in {"one-at-a-time", "all"} /\ aborted \in BOOLEAN
  /\ loop.at \in {"idle", "top", "transform", "complete", "tools", "stopHook", "ending"}
  /\ ToSet(pendingQueue) \subseteq 1..past.inputs
  /\ \A m \in ToSet(transcript) : m.role \in {"user", "assistant", "toolResult"}
  /\ \A f \in flights : /\ f.run \in 1..past.runs
                        /\ f.stage \in {"approval", "before", "execute", "after", "reject"}

Places(role, id) == {i \in DOMAIN transcript : transcript[i].role = role /\ id \in transcript[i].of}

\* A run that was neither aborted, rejected nor cut off leaves a balanced
\* transcript: each call the model asked for is answered exactly once, after the
\* assistant message that made it if there is one, even when the calls ran side
\* by side, the budget cut the batch or calls of an earlier run were still going.
CallsAnswered ==
  loop.at = "idle" /\ past.clean =>
    \A a \in past.asked :
      /\ Cardinality(Places("toolResult", a.id)) = 1
      /\ a.told => \E i \in Places("assistant", a.id) : \A j \in Places("toolResult", a.id) : i < j

\* What ran is what the model was shown: an implementation the scope does not deny,
\* the agent's own one where the scope shadows a tool, and a risky one only after a
\* resolution that allows it.
OnlyPermittedRun ==
  \A r \in past.ran :
    /\ r.impl[1] \in options.tools => r.impl \in Visible
    /\ options.scoped => r.impl[1] \notin options.denies
    /\ r.impl \in options.risky => r.resolution \in Allowing

\* After abort() no turn begins, and no further call of a sequential batch.
AbortStops ==
  [][ aborted /\ aborted' =>
        /\ loop'.turns > loop.turns => loop'.at = "ending"
        /\ options.batch = "sequential" => past'.begun \subseteq past.begun ]_agentVars

\* Whatever the calls, the hooks and the model do, an active run ends.
RunSettles == (loop.at # "idle") ~> (loop.at = "idle")
=============================================================================
