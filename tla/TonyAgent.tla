------------------------------- MODULE TonyAgent -------------------------------
(***************************************************************************)
(* TonyAgent (src/src/agent.ts): one agent's bounded loop of model         *)
(* requests and permission-checked tool calls, with steering, abort and    *)
(* history replacement arriving while it runs.                             *)
(*                                                                         *)
(* JavaScript runs to completion between awaits.  pc names where run() is: *)
(* "llm", "site", "ask" and "exec" are its awaits, "loop" and "next" are   *)
(* the points it passes synchronously, at which nobody else can act.       *)
(***************************************************************************)
EXTENDS PermissionPolicy, FiniteSets

CONSTANTS
  Args,                  \* argument values of a tool call
  CallLists,             \* the tool-call lists a model response may carry
  Registered,            \* the tools in the ToolRegistry
  HasResolver,           \* whether a resolvePermission callback is given
  SessionId, OtherSessions,
  MaxTurns, MaxToolCalls, MaxToolCallsPerTurn,   \* AgentLimits
  MaxRuns, MaxSteers, MaxForeignGrants           \* bounds of the model

Call == [tool : ToolNames, arg : Args]
Session == {SessionId} \cup OtherSessions

ASSUME AgentAssumption ==
  /\ CallLists \subseteq Seq(Call)
  /\ Registered \subseteq ToolNames
  /\ HasResolver \in BOOLEAN
  /\ SessionId \notin OtherSessions /\ NoSession \notin Session
  /\ {MaxTurns, MaxToolCalls, MaxToolCallsPerTurn} \subseteq Nat
  /\ {MaxRuns, MaxSteers, MaxForeignGrants} \subseteq Nat

(***************************************************************************)
(* A message of the conversation.  "prompt" and "steer" are user messages, *)
(* "reply" an assistant message with its calls; the other tags are the     *)
(* tool messages, by what the call was answered with.                      *)
(***************************************************************************)
ToolTags == {"ran", "denied", "unknown", "repeat", "limit", "guard"}
Message == [tag : {"prompt", "steer", "reply"} \cup ToolTags,
            calls : Seq(Call), n : Nat]

UserMessage(tag, n) == [tag |-> tag, calls |-> << >>, n |-> n]
ReplyMessage(calls) == [tag |-> "reply", calls |-> calls, n |-> 0]
ToolMessage(call, tag) == [tag |-> tag, calls |-> << call >>, n |-> 0]
GuardMessage == [tag |-> "guard", calls |-> << >>, n |-> 0]

VARIABLES
  pc,            \* where run() is, "idle" when it is not running
  run,           \* the locals of run()
  conversation,  \* the transcript between runs
  steering,      \* steer() texts not yet taken by a turn
  grants,        \* the policy's remembered decisions
  page           \* the host name of the adapter's current page

\* Auxiliary: they record the past and guard nothing but the bounds.
VARIABLES
  base,          \* the conversation the current run started from
  count,         \* how many runs, steers and foreign grants there have been
  forgotten,     \* steer texts that a reset or a new history discarded
  denied         \* << tool, site >> the host refused in this session

vars == << pc, run, conversation, steering, grants, page,
           base, count, forgotten, denied >>

\* messages: the working copy; queue: the response's calls still to handle;
\* site: where the current call's permission was checked; seen: seenActions.
NoRun == [messages |-> << >>, turns |-> 0, total |-> 0, queue |-> << >>,
          site |-> NoSite, aborted |-> FALSE, seen |-> {}]

Running == pc # "idle"
\* Other code runs only while run() awaits, or while there is no run.
Yielded == pc \notin {"loop", "next"}
TheCall == Head(run.queue)

Init ==
  /\ pc = "idle" /\ run = NoRun
  /\ conversation = << >> /\ steering = << >> /\ grants = << >>
  /\ page \in AnySite
  /\ base = << >> /\ forgotten = {} /\ denied = {}
  /\ count = [runs |-> 0, steers |-> 0, foreign |-> 0]

-------------------------------------------------------------------------------
(* run(): the turns *)

Run ==
  /\ ~ Running /\ count.runs < MaxRuns
  /\ count' = [count EXCEPT !.runs = @ + 1]
  /\ run' = [NoRun EXCEPT !.messages =
               Append(conversation, UserMessage("prompt", count'.runs))]
  /\ pc' = "loop"
  /\ base' = conversation
  /\ UNCHANGED << conversation, steering, grants, page, forgotten, denied >>

\* Return or throw: either way the working copy becomes the conversation.
Settle(messages) ==
  /\ pc' = "idle" /\ run' = NoRun
  /\ conversation' = messages
  /\ UNCHANGED << steering, grants, page, base, count, forgotten, denied >>

\* A slip: a failed run drops its working copy.
FailDropping == Settle(conversation)

Fail == Settle(run.messages)

TurnLimit == pc = "loop" /\ run.turns >= MaxTurns /\ Settle(run.messages)

TurnAborted == pc = "loop" /\ run.turns < MaxTurns /\ run.aborted /\ Fail

Turn(left) ==
  /\ pc = "loop" /\ run.turns < MaxTurns /\ ~ run.aborted
  /\ run' = [run EXCEPT !.turns = @ + 1, !.messages = @ \o steering]
  /\ steering' = left
  /\ pc' = "llm"
  /\ UNCHANGED << conversation, grants, page, base, count, forgotten, denied >>

\* A slip: the steering queue is read and not emptied.
StartTurnKeepingQueue == Turn(steering)

\* Every queued steer text joins the transcript before the request goes out.
StartTurn == Turn(<< >>)

\* One step inside the loop: what it does to run()'s locals.
Step(to, locals) ==
  /\ pc' = to /\ run' = locals
  /\ UNCHANGED << conversation, steering, page, base, count, forgotten >>

LlmAnswers ==
  /\ pc = "llm" /\ << >> \in CallLists
  /\ Settle(Append(run.messages, ReplyMessage(<< >>)))

LlmCallsTooMany(calls) ==
  /\ pc = "llm" /\ calls # << >> /\ Len(calls) > MaxToolCallsPerTurn
  /\ Step("loop", [run EXCEPT !.messages =
                     @ \o << ReplyMessage(calls), GuardMessage >>])
  /\ UNCHANGED << grants, denied >>

LlmCalls(calls) ==
  /\ pc = "llm" /\ calls # << >> /\ Len(calls) <= MaxToolCallsPerTurn
  /\ Step("next", [run EXCEPT !.messages = Append(@, ReplyMessage(calls)),
                              !.queue = calls])
  /\ UNCHANGED << grants, denied >>

\* A provider error, the client's timeout, or the abort signal.
LlmFails == pc = "llm" /\ Fail

-------------------------------------------------------------------------------
(* run(): the calls of one response *)

CallsDone ==
  pc = "next" /\ run.queue = << >> /\ Step("loop", run) /\ UNCHANGED << grants, denied >>

CallAborted == pc = "next" /\ run.queue # << >> /\ run.aborted /\ Fail

\* The next call of the response, not abandoned by an abort.
HasCall == pc = "next" /\ run.queue # << >> /\ ~ run.aborted
WithinBudget == run.total + 1 <= MaxToolCalls
Known == TheCall.tool \in Registered
Counted == [run EXCEPT !.total = @ + 1]

Answered(locals, tag) ==
  [locals EXCEPT !.messages = Append(@, ToolMessage(Head(locals.queue), tag)),
                 !.queue = Tail(@)]

\* The calls after the one that met the limit stay unanswered.
CallLimit ==
  /\ HasCall /\ ~ WithinBudget
  /\ Step("loop", [Answered(Counted, "limit") EXCEPT !.queue = << >>])
  /\ UNCHANGED << grants, denied >>

\* Slips: an unknown tool is met again and again, as its call is not taken off the
\* list; it is skipped without an answer.
CallUnknownRetried ==
  /\ HasCall /\ WithinBudget /\ ~ Known
  /\ Step("next", run)
  /\ UNCHANGED << grants, denied >>

CallUnknownSilent ==
  /\ HasCall /\ WithinBudget /\ ~ Known
  /\ Step("next", [Counted EXCEPT !.queue = Tail(@)])
  /\ UNCHANGED << grants, denied >>

CallUnknown ==
  /\ HasCall /\ WithinBudget /\ ~ Known
  /\ Step("next", Answered(Counted, "unknown"))
  /\ UNCHANGED << grants, denied >>

TakeCall(locals) == Step("site", locals) /\ UNCHANGED << grants, denied >>

\* Slips: the limit is compared before the call is counted; no abort check
\* between two calls of one response; the call leaves the list too early.
CallKnownOffByOne ==
  HasCall /\ run.total <= MaxToolCalls /\ Known /\ TakeCall(Counted)
CallKnownThroughAbort ==
  pc = "next" /\ run.queue # << >> /\ WithinBudget /\ Known /\ TakeCall(Counted)
CallKnownDequeued ==
  HasCall /\ WithinBudget /\ Known /\ TakeCall([Counted EXCEPT !.queue = Tail(@)])

CallKnown == HasCall /\ WithinBudget /\ Known /\ TakeCall(Counted)

\* What follows once it is known whether the call is allowed.
Execute(locals, allowed) ==
  CASE ~ allowed -> Step("next", Answered(locals, "denied"))
    [] allowed /\ TheCall \in run.seen -> Step("next", Answered(locals, "repeat"))
    [] OTHER -> Step("exec", [locals EXCEPT !.seen = @ \cup {TheCall}])

\* The host's answer, or "deny" when there is no resolver.
Resolve(locals, resolution) ==
  /\ Execute(locals, resolution \in {"allow-once", "allow-session"})
  /\ grants' = IF resolution \in Remembered
               THEN Remember(grants, SessionId, TheCall.tool, locals.site, resolution)
               ELSE grants
  /\ denied' = IF resolution = "deny"
               THEN denied \cup {<< TheCall.tool, locals.site >>} ELSE denied

\* resolveSite settles; the policy is checked in the same step.
CheckPermission ==
  LET decision == Check(grants, SessionId, TheCall.tool, page)
      located == [run EXCEPT !.site = page]
  IN  /\ pc = "site"
      /\ \/ /\ decision # "confirm"
            /\ Execute(located, decision = "allow")
            /\ UNCHANGED << grants, denied >>
         \/ /\ decision = "confirm" /\ HasResolver
            /\ Step("ask", located)
            /\ UNCHANGED << grants, denied >>
         \/ /\ decision = "confirm" /\ ~ HasResolver
            /\ Resolve(located, "deny")

HostResolves(resolution) == pc = "ask" /\ Resolve(run, resolution)

\* The adapter or the host's callback throws.
CallThrows == pc \in {"site", "ask"} /\ Fail

\* registry.execute never rejects: an error is a result like any other.
ToolSettles ==
  /\ pc = "exec"
  /\ Step("next", Answered(run, "ran"))
  /\ UNCHANGED << grants, denied >>

-------------------------------------------------------------------------------
(* What others do to the agent while it is idle or awaits *)

SteersIn(ms) == {ms[i].n : i \in {j \in DOMAIN ms : ms[j].tag = "steer"}}

Steer ==
  /\ Yielded /\ count.steers < MaxSteers
  /\ count' = [count EXCEPT !.steers = @ + 1]
  /\ steering' = Append(steering, UserMessage("steer", count'.steers))
  /\ UNCHANGED << pc, run, conversation, grants, page, base, forgotten, denied >>

\* abort(), the caller's signal, or the run's timer.
Abort ==
  /\ Yielded /\ Running /\ ~ run.aborted
  /\ run' = [run EXCEPT !.aborted = TRUE]
  /\ UNCHANGED << pc, conversation, steering, grants, page,
                  base, count, forgotten, denied >>

\* setHistory() throws while a run is active and keeps the steering queue.
SetHistory(history) ==
  /\ ~ Running
  /\ conversation' = history
  /\ forgotten' = forgotten \cup SteersIn(conversation)
  /\ UNCHANGED << pc, run, steering, grants, page, base, count, denied >>

\* reset() has no such check: an active run overwrites its effect.
Reset ==
  /\ Yielded
  /\ conversation' = << >> /\ steering' = << >>
  /\ forgotten' = forgotten \cup SteersIn(steering)
                  \cup IF Running THEN {} ELSE SteersIn(conversation)
  /\ UNCHANGED << pc, run, grants, page, base, count, denied >>

Navigate(newPage) ==
  /\ Yielded /\ newPage # page
  /\ page' = newPage
  /\ UNCHANGED << pc, run, conversation, steering, grants,
                  base, count, forgotten, denied >>

\* The policy object is shared by the agents of every session.
ForeignGrant(other, tool, site, resolution) ==
  /\ Yielded /\ count.foreign < MaxForeignGrants
  /\ Check(grants, other, tool, site) = "confirm"
  /\ count' = [count EXCEPT !.foreign = @ + 1]
  /\ grants' = Remember(grants, other, tool, site, resolution)
  /\ UNCHANGED << pc, run, conversation, steering, page, base, forgotten, denied >>

\* policy.clearSession(): the session's refusals are forgotten with the rest.
ClearGrants(session) ==
  /\ Yielded
  /\ \E i \in DOMAIN grants : grants[i].session = session
  /\ grants' = ClearSession(grants, session)
  /\ denied' = IF session = SessionId THEN {} ELSE denied
  /\ UNCHANGED << pc, run, conversation, steering, page, base, count, forgotten >>

-------------------------------------------------------------------------------
AgentStep ==
  \/ TurnLimit \/ TurnAborted \/ StartTurn
  \/ LlmAnswers \/ LlmFails
  \/ \E calls \in CallLists : LlmCallsTooMany(calls) \/ LlmCalls(calls)
  \/ CallsDone \/ CallAborted \/ CallLimit \/ CallUnknown \/ CallKnown
  \/ CheckPermission \/ CallThrows \/ ToolSettles
  \/ \E resolution \in {"allow-once"} \cup Remembered : HostResolves(resolution)

HostStep ==
  \/ Run \/ Steer \/ Abort \/ Reset
  \/ SetHistory(<< >>)
  \/ \E newPage \in AnySite : Navigate(newPage)
  \/ \E other \in OtherSessions, tool \in Registered, site \in AnySite,
        resolution \in Remembered : ForeignGrant(other, tool, site, resolution)
  \/ \E session \in Session : ClearGrants(session)

Next == AgentStep \/ HostStep

Spec == Init /\ [][Next]_vars
\* Every await settles: the LLM client has a timeout of its own; that the host
\* answers its permission requests and that tools return is assumed.
FairSpec == Spec /\ WF_vars(AgentStep)

-------------------------------------------------------------------------------
(* What the agent promises *)

Locals == [messages : Seq(Message), turns : Nat, total : Nat, queue : Seq(Call),
           site : AnySite, aborted : BOOLEAN, seen : SUBSET Call]

TypeOK ==
  /\ pc \in {"idle", "loop", "llm", "next", "site", "ask", "exec"}
  /\ run \in Locals
  /\ pc \in {"site", "ask", "exec"} => run.queue # << >>
  /\ conversation \in Seq(Message) /\ base \in Seq(Message)
  /\ steering \in Seq(Message)
  /\ grants \in Seq(Grant(Session))
  /\ page \in AnySite
  /\ count \in [runs : Nat, steers : Nat, foreign : Nat]
  /\ forgotten \subseteq Nat
  /\ denied \subseteq ToolNames \X AnySite

\* The run's limits hold: requests per run, and tools really executed per run,
\* whatever mix of repeated, denied and unknown calls the model sends
\* (agent.ts 196, 258, 270).
LimitsHold == run.turns <= MaxTurns /\ Cardinality(run.seen) <= MaxToolCalls

\* A tool the host refused for a site stays refused: however this session's and
\* other sessions' decisions are interleaved, no tool body starts for a
\* refused << tool, site >> (agent.ts 285-298, policy.ts 30-53).
DenyIsFinal ==
  [][pc # "exec" /\ pc' = "exec"
       => << TheCall.tool, run'.site >> \notin denied']_vars

\* What is remembered for another session never changes this session's checks
\* (policy.ts 31, 50).
SessionsIsolated ==
  [][count'.foreign # count.foreign
       => \A tool \in ToolNames, s \in AnySite :
            Check(grants', SessionId, tool, s) = Check(grants, SessionId, tool, s)]_vars

\* An aborted run counts no further call and sends no further request; the
\* call whose permission or result it awaits is its last (agent.ts 197, 267).
AbortHalts ==
  [][run.aborted /\ run'.aborted
       => run'.total = run.total /\ run'.turns = run.turns]_vars

IsTool(m) == m.tag \in ToolTags
\* How many tool messages follow position i of ms.
AnswersAfter(ms, i) ==
  CHOOSE k \in 0 .. Len(ms) - i :
    /\ \A j \in 1 .. k : IsTool(ms[i + j])
    /\ i + k < Len(ms) => ~ IsTool(ms[i + k + 1])

\* The calls of the reply at position i are answered in order, each once; the
\* rest may be missing only where the total limit or the end of an earlier run
\* cut the turn short; a list over the per-turn limit has the guard instead.
AnsweredInOrder(ms, i) ==
  LET calls == ms[i].calls
      k == AnswersAfter(ms, i)
      next == i + k + 1
  IN  \/ Len(calls) > MaxToolCallsPerTurn /\ k = 1 /\ ms[i + 1] = GuardMessage
      \/ /\ k <= Len(calls)
         /\ \A j \in 1 .. k : ms[i + j].calls = << calls[j] >>
         /\ \/ k = Len(calls)
            \/ k > 0 /\ ms[i + k].tag = "limit"
            \/ next <= Len(ms) /\ ms[next].tag = "prompt"

\* Every request the model receives is a transcript whose tool messages answer
\* the calls they follow (agent.ts 248-320).
RequestsAnswered ==
  pc = "llm" =>
    \A i \in DOMAIN run.messages :
      LET m == run.messages[i]
      IN  /\ m.tag = "reply" => AnsweredInOrder(run.messages, i)
          /\ IsTool(m) => i > 1 /\ run.messages[i - 1].tag \in ToolTags \cup {"reply"}

Transcript == IF Running THEN run.messages ELSE conversation
SteersRise(ms) ==
  \A i, j \in DOMAIN ms :
    i < j /\ ms[i].tag = "steer" /\ ms[j].tag = "steer" => ms[i].n < ms[j].n

\* A steer text is in the transcript or still queued, once and in the order
\* the texts came, unless a reset or a new history discarded it: no failure,
\* abort or turn limit loses or repeats one (agent.ts 158-161, 200-203, 330).
SteersKept ==
  LET said == Transcript \o steering
  IN  /\ SteersRise(said)
      /\ \A n \in 1 .. count.steers : n \in forgotten \/ n \in SteersIn(said)

\* The agent keeps its contract: a run that answers, fails, is aborted or meets
\* a limit leaves the conversation it started from, its prompt and what
\* followed, and nothing replaces the conversation under it
\* (agent.ts 176, 187-188, 254, 327, 330, 149).
Contract ==
  INSTANCE AgentContract
    WITH running <- Running, Prompts <- {m \in Message : m.tag = "prompt"}
KeepsContract == Contract!Spec

\* Every run ends: the turn limit bounds the requests and no path waits for
\* anything but the model, the page, the host and the tools (agent.ts 196-340).
RunEnds == Running ~> ~ Running
=============================================================================
