---------------------------- MODULE TonyAgentProofs ----------------------------
(***************************************************************************)
(* Theorems about TonyAgent, for every set of tools, sites, rules, limits  *)
(* and bounds that satisfies its assumptions.                              *)
(***************************************************************************)
EXTENDS TonyAgent, FiniteSetTheorems, SequenceTheorems, WellFoundedInduction, TLAPS

-------------------------------------------------------------------------------
(* What the helpers return *)

LEMMA RememberType ==
  ASSUME NEW gs \in Seq(Grant(Session)), NEW session \in Session,
         NEW tool \in ToolNames, NEW site \in AnySite,
         NEW resolution \in Remembered
  PROVE  Remember(gs, session, tool, site, resolution) \in Seq(Grant(Session))
<1> DEFINE i == First({j \in DOMAIN gs : /\ gs[j].session = session
                                        /\ gs[j].tool = tool
                                        /\ gs[j].site = site})
           new == [session |-> session, tool |-> tool, site |-> site,
                   decision |-> resolution]
<1>1. new \in Grant(Session)
  BY DEF Grant
<1>2. CASE i = 0
  BY <1>1, <1>2, AppendProperties DEF Remember
<1>3. CASE i # 0
  <2>1. gs \in [1 .. Len(gs) -> Grant(Session)] /\ Len(gs) \in Nat
    BY LenProperties
  <2>2. [gs EXCEPT ![i].decision = resolution] \in [1 .. Len(gs) -> Grant(Session)]
    <3> HIDE DEF i
    <3> QED BY <2>1 DEF Grant
  <2> QED
    BY <1>3, <2>1, <2>2, SeqDef DEF Remember
<1> QED
  BY <1>2, <1>3

LEMMA ClearSessionType ==
  ASSUME NEW gs \in Seq(Grant(Session)), NEW session \in Session
  PROVE  ClearSession(gs, session) \in Seq(Grant(Session))
<1>1. Len(gs) \in Nat /\ gs \in [1 .. Len(gs) -> Grant(Session)]
  BY LenProperties
<1>2. ClearSession(gs, session) \in [1 .. Len(gs) -> Grant(Session)]
  BY <1>1 DEF ClearSession, Grant
<1> QED
  BY <1>1, <1>2, SeqDef

LEMMA MessageTypes ==
  /\ \A tag \in {"prompt", "steer"}, n \in Nat : UserMessage(tag, n) \in Message
  /\ \A calls \in Seq(Call) : ReplyMessage(calls) \in Message
  /\ \A call \in Call, tag \in ToolTags : ToolMessage(call, tag) \in Message
  /\ GuardMessage \in Message
<1>1. << >> \in Seq(Call) /\ \A call \in Call : << call >> \in Seq(Call)
  OBVIOUS
<1> QED
  BY <1>1 DEF UserMessage, ReplyMessage, ToolMessage, GuardMessage, Message, ToolTags

LEMMA AnsweredType ==
  ASSUME NEW locals \in Locals, locals.queue # << >>, NEW tag \in ToolTags
  PROVE  Answered(locals, tag) \in Locals
<1>1. locals.messages \in Seq(Message) /\ locals.queue \in Seq(Call)
  BY DEF Locals
<1>2. Head(locals.queue) \in Call /\ Tail(locals.queue) \in Seq(Call)
  BY <1>1, HeadTailProperties
<1>3. ToolMessage(Head(locals.queue), tag) \in Message
  BY <1>2, MessageTypes
<1>4. Append(locals.messages, ToolMessage(Head(locals.queue), tag)) \in Seq(Message)
  BY <1>1, <1>3, AppendProperties
<1> QED
  BY <1>2, <1>4 DEF Answered, Locals

-------------------------------------------------------------------------------
(* Type correctness *)

Unfinished == {"site", "ask", "exec"}

\* What Step adds to a step whose locals are well typed.
LEMMA StepType ==
  ASSUME TypeOK, NEW to \in {"loop", "llm", "next", "site", "ask", "exec"},
         NEW locals \in Locals, to \in Unfinished => locals.queue # << >>,
         Step(to, locals), grants' \in Seq(Grant(Session)),
         denied' \subseteq ToolNames \X AnySite
  PROVE  TypeOK'
BY DEF TypeOK, Step, Unfinished

LEMMA SettleType ==
  ASSUME TypeOK, NEW messages \in Seq(Message), Settle(messages)
  PROVE  TypeOK'
<1>1. NoRun \in Locals
  BY DEF NoRun, Locals, AnySite
<1> QED
  BY <1>1 DEF TypeOK, Settle

LEMMA ExecuteType ==
  ASSUME TypeOK, NEW locals \in Locals, locals.queue = run.queue,
         run.queue # << >>, NEW allowed \in BOOLEAN, Execute(locals, allowed),
         grants' \in Seq(Grant(Session)), denied' \subseteq ToolNames \X AnySite
  PROVE  TypeOK'
<1>1. CASE ~ allowed
  <2>1. Step("next", Answered(locals, "denied"))
    BY <1>1 DEF Execute
  <2> QED
    BY <2>1, AnsweredType, StepType DEF ToolTags, Unfinished
<1>2. CASE allowed /\ TheCall \in run.seen
  <2>1. Step("next", Answered(locals, "repeat"))
    BY <1>2 DEF Execute
  <2> QED
    BY <2>1, AnsweredType, StepType DEF ToolTags, Unfinished
<1>3. CASE allowed /\ TheCall \notin run.seen
  <2>1. Step("exec", [locals EXCEPT !.seen = @ \cup {TheCall}])
    BY <1>3 DEF Execute
  <2>2. TheCall \in Call
    BY HeadTailProperties DEF TheCall, TypeOK, Locals
  <2>3. [locals EXCEPT !.seen = @ \cup {TheCall}] \in Locals
    BY <2>2 DEF Locals
  <2> QED
    BY <2>1, <2>3, StepType DEF Locals, Unfinished
<1> QED
  BY <1>1, <1>2, <1>3

LEMMA InitType == Init => TypeOK
<1> SUFFICES ASSUME Init PROVE TypeOK
  OBVIOUS
<1>1. << >> \in Seq(Message) /\ << >> \in Seq(Call) /\ << >> \in Seq(Grant(Session))
  OBVIOUS
<1>2. NoRun \in Locals
  BY <1>1 DEF NoRun, Locals, AnySite
<1> QED
  BY <1>1, <1>2 DEF Init, TypeOK

LEMMA AgentStepType == TypeOK /\ AgentStep => TypeOK'
<1> SUFFICES ASSUME TypeOK, AgentStep PROVE TypeOK'
  OBVIOUS
<1> USE DEF Unfinished
<1>1. /\ run \in Locals /\ run.messages \in Seq(Message) /\ run.queue \in Seq(Call)
      /\ grants \in Seq(Grant(Session)) /\ denied \subseteq ToolNames \X AnySite
      /\ page \in AnySite
  BY DEF TypeOK, Locals
<1>2. Counted \in Locals /\ Counted.queue = run.queue
  <2>1. run.total + 1 \in Nat
    BY <1>1 DEF Locals
  <2> QED
    BY <1>1, <2>1 DEF Counted, Locals
<1>3. CASE TurnLimit \/ TurnAborted \/ CallAborted \/ CallThrows \/ LlmFails
  BY <1>1, <1>3, SettleType
     DEF TurnLimit, TurnAborted, CallAborted, CallThrows, LlmFails, Fail
<1>4. CASE StartTurn
  <2>1. run.messages \o steering \in Seq(Message)
    BY <1>1, ConcatProperties DEF TypeOK
  <2>2. run.turns + 1 \in Nat /\ << >> \in Seq(Message)
    BY <1>1 DEF Locals
  <2>3. [run EXCEPT !.turns = run.turns + 1, !.messages = @ \o steering] \in Locals
    BY <1>1, <2>1, <2>2 DEF Locals
  <2> QED
    BY <1>4, <2>2, <2>3 DEF StartTurn, Turn, TypeOK
<1>5. CASE LlmAnswers
  <2>1. ReplyMessage(<< >>) \in Message
    BY MessageTypes, EmptySeq
  <2>2. Append(run.messages, ReplyMessage(<< >>)) \in Seq(Message)
    BY <1>1, <2>1, AppendProperties
  <2> QED
    BY <1>5, <2>2, SettleType DEF LlmAnswers
<1>6. ASSUME NEW calls \in CallLists, LlmCallsTooMany(calls) PROVE TypeOK'
  <2>1. << ReplyMessage(calls), GuardMessage >> \in Seq(Message)
    BY MessageTypes, AgentAssumption
  <2>2. run.messages \o << ReplyMessage(calls), GuardMessage >> \in Seq(Message)
    BY <1>1, <2>1, ConcatProperties
  <2>3. [run EXCEPT !.messages = @ \o << ReplyMessage(calls), GuardMessage >>] \in Locals
    BY <1>1, <2>2 DEF Locals
  <2> QED
    BY <1>1, <1>6, <2>3, StepType DEF LlmCallsTooMany
<1>7. ASSUME NEW calls \in CallLists, LlmCalls(calls) PROVE TypeOK'
  <2>1. calls \in Seq(Call) /\ ReplyMessage(calls) \in Message
    BY MessageTypes, AgentAssumption
  <2>2. Append(run.messages, ReplyMessage(calls)) \in Seq(Message)
    BY <1>1, <2>1, AppendProperties
  <2>3. [run EXCEPT !.messages = Append(@, ReplyMessage(calls)),
                    !.queue = calls] \in Locals
    BY <1>1, <2>1, <2>2 DEF Locals
  <2> QED
    BY <1>1, <1>7, <2>3, StepType DEF LlmCalls
<1>8. CASE CallsDone
  BY <1>1, <1>8, StepType DEF CallsDone
<1>9. CASE CallLimit
  <2>1. Answered(Counted, "limit") \in Locals
    BY <1>2, <1>9, AnsweredType DEF CallLimit, HasCall, ToolTags
  <2>2. << >> \in Seq(Call)
    OBVIOUS
  <2>3. [Answered(Counted, "limit") EXCEPT !.queue = << >>] \in Locals
    <3> HIDE DEF Answered
    <3> QED BY <2>1, <2>2 DEF Locals
  <2> QED
    BY <1>1, <1>9, <2>3, StepType DEF CallLimit
<1>10. CASE CallUnknown
  <2>1. Answered(Counted, "unknown") \in Locals
    BY <1>2, <1>10, AnsweredType DEF CallUnknown, HasCall, ToolTags
  <2> QED
    BY <1>1, <1>10, <2>1, StepType DEF CallUnknown
<1>11. CASE CallKnown
  BY <1>1, <1>2, <1>11, StepType DEF CallKnown, HasCall, TakeCall
<1>12. CASE CheckPermission
  <2> DEFINE located == [run EXCEPT !.site = page]
  <2>1. located \in Locals /\ located.queue = run.queue /\ located.site = page
    BY <1>1 DEF Locals
  <2>2. pc = "site" /\ run.queue # << >>
    BY <1>12 DEF CheckPermission, TypeOK
  <2>3. TheCall.tool \in ToolNames
    <3>1. TheCall \in Call
      BY <1>1, <2>2, HeadTailProperties DEF TheCall
    <3> QED
      BY <3>1 DEF Call
  <2> HIDE DEF located
  <2>4. ASSUME NEW allowed \in BOOLEAN, Execute(located, allowed),
               UNCHANGED << grants, denied >>
        PROVE  TypeOK'
    BY <1>1, <2>1, <2>2, <2>4, ExecuteType
  <2>5. ASSUME Step("ask", located), UNCHANGED << grants, denied >>
        PROVE  TypeOK'
    BY <1>1, <2>1, <2>2, <2>5, StepType
  <2>6. ASSUME Resolve(located, "deny")
        PROVE  TypeOK'
    <3>1. grants' = Remember(grants, SessionId, TheCall.tool, page, "deny")
      BY <2>1, <2>6 DEF Resolve, Remembered
    <3>2. grants' \in Seq(Grant(Session))
      BY <1>1, <2>3, <3>1, RememberType DEF Session, Remembered
    <3>3. denied' \subseteq ToolNames \X AnySite
      BY <1>1, <2>1, <2>3, <2>6 DEF Resolve
    <3>4. Execute(located, FALSE)
      BY <2>6 DEF Resolve, Execute
    <3> QED
      BY <2>1, <2>2, <3>2, <3>3, <3>4, ExecuteType
  <2> QED
    BY <1>12, <2>4, <2>5, <2>6 DEF CheckPermission, located
<1>13. ASSUME NEW resolution \in {"allow-once"} \cup Remembered,
              HostResolves(resolution)
       PROVE  TypeOK'
  <2>1. pc = "ask" /\ run.queue # << >> /\ Resolve(run, resolution)
    BY <1>13 DEF HostResolves, TypeOK
  <2>2. TheCall.tool \in ToolNames /\ run.site \in AnySite
    <3>1. TheCall \in Call
      BY <1>1, <2>1, HeadTailProperties DEF TheCall
    <3> QED
      BY <1>1, <3>1 DEF Call, Locals
  <2>3. grants' \in Seq(Grant(Session))
    BY <1>1, <2>1, <2>2, RememberType DEF Resolve, Session
  <2>4. denied' \subseteq ToolNames \X AnySite
    BY <1>1, <2>1, <2>2 DEF Resolve
  <2>5. Execute(run, TRUE) \/ Execute(run, FALSE)
    BY <2>1 DEF Resolve, Execute
  <2> QED
    BY <1>1, <2>1, <2>3, <2>4, <2>5, ExecuteType
<1>14. CASE ToolSettles
  <2>1. Answered(run, "ran") \in Locals
    BY <1>1, <1>14, AnsweredType DEF ToolSettles, TypeOK, ToolTags
  <2> QED
    BY <1>1, <1>14, <2>1, StepType DEF ToolSettles
<1> QED
  BY <1>3, <1>4, <1>5, <1>6, <1>7, <1>8, <1>9, <1>10, <1>11, <1>12, <1>13, <1>14
     DEF AgentStep

LEMMA SteersInType == \A ms \in Seq(Message) : SteersIn(ms) \subseteq Nat
<1> SUFFICES ASSUME NEW ms \in Seq(Message), NEW i \in DOMAIN ms
             PROVE  ms[i].n \in Nat
  BY DEF SteersIn
<1>1. ms[i] \in Message
  BY LenProperties, ElementOfSeq
<1> QED
  BY <1>1 DEF Message

LEMMA HostStepType == TypeOK /\ HostStep => TypeOK'
<1> SUFFICES ASSUME TypeOK, HostStep PROVE TypeOK'
  OBVIOUS
<1>1. /\ run \in Locals /\ NoRun \in Locals /\ << >> \in Seq(Message)
      /\ conversation \in Seq(Message) /\ steering \in Seq(Message)
      /\ grants \in Seq(Grant(Session))
      /\ count \in [runs : Nat, steers : Nat, foreign : Nat]
  BY DEF TypeOK, NoRun, Locals, AnySite
<1>2. CASE Run
  <2>1. count' \in [runs : Nat, steers : Nat, foreign : Nat]
    <3>1. count.runs + 1 \in Nat
      BY <1>1
    <3> QED
      BY <1>1, <1>2, <3>1 DEF Run
  <2>2. UserMessage("prompt", count'.runs) \in Message
    BY <2>1, MessageTypes
  <2>3. Append(conversation, UserMessage("prompt", count'.runs)) \in Seq(Message)
    BY <1>1, <2>2, AppendProperties
  <2>4. run' \in Locals
    BY <1>1, <1>2, <2>3 DEF Run, Locals
  <2> QED
    BY <1>1, <1>2, <2>1, <2>4 DEF Run, TypeOK
<1>3. CASE Steer
  <2>1. count' \in [runs : Nat, steers : Nat, foreign : Nat]
    <3>1. count.steers + 1 \in Nat
      BY <1>1
    <3> QED
      BY <1>1, <1>3, <3>1 DEF Steer
  <2>2. UserMessage("steer", count'.steers) \in Message
    BY <2>1, MessageTypes
  <2>3. steering' \in Seq(Message)
    BY <1>1, <1>3, <2>2, AppendProperties DEF Steer
  <2> QED
    BY <1>3, <2>1, <2>3 DEF Steer, TypeOK
<1>4. CASE Abort
  <2>1. run' \in Locals /\ run'.queue = run.queue
    BY <1>1, <1>4 DEF Abort, Locals
  <2> QED
    BY <1>4, <2>1 DEF Abort, TypeOK
<1>5. CASE SetHistory(<< >>) \/ Reset
  <2>1. SteersIn(conversation) \subseteq Nat /\ SteersIn(steering) \subseteq Nat
    BY <1>1, SteersInType
  <2>2. forgotten' \subseteq Nat
    BY <1>5, <2>1 DEF SetHistory, Reset, TypeOK
  <2> QED
    BY <1>1, <1>5, <2>2 DEF SetHistory, Reset, TypeOK
<1>6. ASSUME NEW newPage \in AnySite, Navigate(newPage) PROVE TypeOK'
  BY <1>6 DEF Navigate, TypeOK
<1>7. ASSUME NEW other \in OtherSessions, NEW tool \in Registered, NEW site \in AnySite,
             NEW resolution \in Remembered, ForeignGrant(other, tool, site, resolution)
      PROVE  TypeOK'
  <2>1. count' \in [runs : Nat, steers : Nat, foreign : Nat]
    <3>1. count.foreign + 1 \in Nat
      BY <1>1
    <3> QED
      BY <1>1, <1>7, <3>1 DEF ForeignGrant
  <2>2. grants' \in Seq(Grant(Session))
    BY <1>1, <1>7, RememberType, AgentAssumption DEF ForeignGrant, Session
  <2> QED
    BY <1>7, <2>1, <2>2 DEF ForeignGrant, TypeOK
<1>8. ASSUME NEW session \in Session, ClearGrants(session) PROVE TypeOK'
  <2>1. grants' \in Seq(Grant(Session))
    BY <1>1, <1>8, ClearSessionType DEF ClearGrants
  <2> QED
    BY <1>8, <2>1 DEF ClearGrants, TypeOK
<1> QED
  BY <1>2, <1>3, <1>4, <1>5, <1>6, <1>7, <1>8 DEF HostStep

LEMMA NextType == TypeOK /\ [Next]_vars => TypeOK'
<1>1. TypeOK /\ UNCHANGED vars => TypeOK'
  BY DEF TypeOK, vars
<1> QED
  BY <1>1, AgentStepType, HostStepType DEF Next

\* The agent's state keeps its shape: in particular a call is at hand whenever
\* a permission or a tool result is awaited (agent.ts 266-319).
THEOREM TypeCorrect == Spec => []TypeOK
<1> QED
  BY InitType, NextType, PTL DEF Spec

-------------------------------------------------------------------------------
(* The limits *)

\* LimitsHold is not inductive: what bounds the executed tools is that each one
\* was counted before its permission was asked.
Spent ==
  /\ run.turns <= MaxTurns
  /\ IsFiniteSet(run.seen)
  /\ Cardinality(run.seen) <= MaxToolCalls
  /\ Cardinality(run.seen) <= run.total
  /\ pc \in {"site", "ask"} =>
       Cardinality(run.seen) < run.total /\ run.total <= MaxToolCalls

LEMMA SpentFresh ==
  ASSUME run'.turns = 0, run'.seen = {}, run'.total = 0, pc' \notin {"site", "ask"}
  PROVE  Spent'
<1>1. IsFiniteSet({}) /\ Cardinality({}) = 0
  BY FS_EmptySet
<1> QED
  BY <1>1, AgentAssumption DEF Spent

LEMMA SpentKept ==
  ASSUME TypeOK, Spent, run'.turns \in Nat, run'.turns <= MaxTurns,
         run'.seen = run.seen, run'.total \in Nat, run'.total >= run.total,
         pc' \in {"site", "ask"} =>
           \/ pc \in {"site", "ask"} /\ run'.total = run.total
           \/ run'.total = run.total + 1 /\ run'.total <= MaxToolCalls
  PROVE  Spent'
<1>1. Cardinality(run.seen) \in Nat /\ run.total \in Nat
  BY FS_CardinalityType DEF Spent, TypeOK, Locals
<1> QED
  BY <1>1, AgentAssumption DEF Spent

LEMMA SpentExecute ==
  ASSUME TypeOK, Spent, pc \in {"site", "ask"},
         NEW locals \in Locals, NEW allowed \in BOOLEAN, Execute(locals, allowed),
         locals.turns = run.turns, locals.seen = run.seen, locals.total = run.total
  PROVE  Spent'
<1>1. CASE pc' = "next" /\ \E tag \in ToolTags : run' = Answered(locals, tag)
  BY <1>1, SpentKept DEF Answered, TypeOK, Locals, Spent
<1>2. CASE pc' = "exec" /\ run' = [locals EXCEPT !.seen = @ \cup {TheCall}]
  <2>1. run'.turns = run.turns /\ run'.total = run.total
        /\ run'.seen = run.seen \cup {TheCall}
    BY <1>2 DEF Locals
  <2>2. IsFiniteSet(run.seen)
    BY DEF Spent
  <2>3. /\ IsFiniteSet(run.seen \cup {TheCall})
        /\ Cardinality(run.seen \cup {TheCall}) =
             IF TheCall \in run.seen THEN Cardinality(run.seen)
             ELSE Cardinality(run.seen) + 1
    BY <2>2, FS_AddElement
  <2>4. Cardinality(run.seen) \in Nat /\ run.total \in Nat
    BY <2>2, FS_CardinalityType DEF TypeOK, Locals
  <2>5. Cardinality(run.seen \cup {TheCall}) <= Cardinality(run.seen) + 1
    BY <2>3, <2>4
  <2>6. Cardinality(run.seen \cup {TheCall}) \in Nat
    BY <2>3, FS_CardinalityType
  <2>7. Cardinality(run.seen) < run.total /\ run.total <= MaxToolCalls
    BY DEF Spent
  <2>8. Cardinality(run'.seen) \in Nat /\ Cardinality(run'.seen) <= run.total
    BY <2>1, <2>4, <2>5, <2>6, <2>7
  <2> QED
    BY <1>2, <2>1, <2>3, <2>4, <2>7, <2>8, AgentAssumption DEF Spent
<1> QED
  BY <1>1, <1>2 DEF Execute, Step, ToolTags

LEMMA SpentNext == TypeOK /\ Spent /\ [Next]_vars => Spent'
<1> SUFFICES ASSUME TypeOK, Spent, [Next]_vars PROVE Spent'
  OBVIOUS
<1>1. run \in Locals /\ run.turns \in Nat /\ run.total \in Nat
  BY DEF TypeOK, Locals
<1>2. ASSUME NEW messages, Settle(messages) PROVE Spent'
  BY <1>2, SpentFresh DEF Settle, NoRun
<1>3. CASE TurnLimit \/ TurnAborted \/ CallAborted \/ CallThrows \/ LlmFails \/ LlmAnswers
  BY <1>2, <1>3 DEF TurnLimit, TurnAborted, CallAborted, CallThrows, LlmFails,
                    LlmAnswers, Fail
<1>4. CASE StartTurn
  BY <1>1, <1>4, SpentKept, AgentAssumption DEF StartTurn, Turn, Locals
<1>5. ASSUME NEW calls \in CallLists, LlmCallsTooMany(calls) \/ LlmCalls(calls)
      PROVE  Spent'
  BY <1>1, <1>5, SpentKept DEF LlmCallsTooMany, LlmCalls, Step, Locals, Spent
<1>6. CASE CallsDone
  BY <1>1, <1>6, SpentKept DEF CallsDone, Step, Spent
<1>7. CASE CallLimit \/ CallUnknown
  <2>1. /\ run'.turns = run.turns /\ run'.seen = run.seen
        /\ run'.total = run.total + 1 /\ pc' \notin {"site", "ask"}
    BY <1>1, <1>7 DEF CallLimit, CallUnknown, Step, Answered, Counted, Locals
  <2> QED
    BY <1>1, <2>1, SpentKept DEF Spent
<1>8. CASE CallKnown
  <2>1. /\ run'.turns = run.turns /\ run'.seen = run.seen
        /\ run'.total = run.total + 1 /\ run'.total <= MaxToolCalls
    BY <1>1, <1>8 DEF CallKnown, TakeCall, WithinBudget, Step, Counted, Locals
  <2> QED
    BY <1>1, <2>1, SpentKept DEF Spent
<1>9. CASE CheckPermission
  <2> DEFINE located == [run EXCEPT !.site = page]
  <2>1. /\ located \in Locals /\ located.turns = run.turns
        /\ located.seen = run.seen /\ located.total = run.total
    BY <1>1 DEF Locals, TypeOK
  <2> HIDE DEF located
  <2>2. ASSUME NEW allowed \in BOOLEAN, Execute(located, allowed) PROVE Spent'
    BY <1>9, <2>1, <2>2, SpentExecute DEF CheckPermission
  <2>3. ASSUME Step("ask", located) PROVE Spent'
    BY <1>1, <1>9, <2>1, <2>3, SpentKept DEF CheckPermission, Step, Spent
  <2>4. ASSUME Resolve(located, "deny") PROVE Execute(located, FALSE)
    BY <2>4 DEF Resolve, Execute
  <2> QED
    BY <1>9, <2>2, <2>3, <2>4 DEF CheckPermission, located
<1>10. ASSUME NEW resolution \in {"allow-once"} \cup Remembered,
              HostResolves(resolution)
       PROVE  Spent'
  <2>1. Execute(run, TRUE) \/ Execute(run, FALSE)
    BY <1>10 DEF HostResolves, Resolve, Execute
  <2> QED
    BY <1>1, <1>10, <2>1, SpentExecute DEF HostResolves
<1>11. CASE ToolSettles
  BY <1>1, <1>11, SpentKept DEF ToolSettles, Step, Answered, Locals, Spent
<1>12. CASE Run
  BY <1>12, SpentFresh DEF Run, NoRun
<1>13. CASE Abort
  BY <1>1, <1>13, SpentKept DEF Abort, Locals, Spent
<1>14. CASE run' = run /\ pc' = pc
  BY <1>14 DEF Spent
<1>15. CASE HostStep
  BY <1>12, <1>13, <1>14, <1>15
     DEF HostStep, Steer, SetHistory, Reset, Navigate, ForeignGrant, ClearGrants
<1> QED
  BY <1>3, <1>4, <1>5, <1>6, <1>7, <1>8, <1>9, <1>10, <1>11, <1>14, <1>15
     DEF Next, AgentStep, vars

\* No run sends more than MaxTurns requests or executes more than MaxToolCalls
\* tools, whatever calls the model makes (agent.ts 196, 270).
THEOREM LimitsAlwaysHold == Spec => []LimitsHold
<1>1. Init => Spent
  <2> SUFFICES ASSUME Init PROVE Spent
    OBVIOUS
  <2>1. IsFiniteSet({}) /\ Cardinality({}) = 0
    BY FS_EmptySet
  <2> QED
    BY <2>1, AgentAssumption DEF Init, NoRun, Spent
<1>2. Spent => LimitsHold
  BY DEF Spent, LimitsHold
<1> QED
  BY <1>1, <1>2, TypeCorrect, SpentNext, PTL DEF Spec

-------------------------------------------------------------------------------
(* Remembered decisions *)

LEMMA MinimalExists ==
  ASSUME NEW R, IsWellFoundedOn(R, Nat), NEW T, T \subseteq Nat, T # {}
  PROVE  \E x \in T : \A y \in T : ~ (<< y, x >> \in R)
BY WFMin, Zenon

LEMMA LeastExists ==
  ASSUME NEW T, T \subseteq Nat, T # {}
  PROVE  \E x \in T : \A y \in T : x <= y
<1>1. IsWellFoundedOn({ss \in Nat \X Nat : ss[1] < ss[2]}, Nat)
  BY NatLessThanWellFounded DEF OpToRel
<1>2. \E x \in T : \A y \in T : ~ (<< y, x >> \in {ss \in Nat \X Nat : ss[1] < ss[2]})
  BY <1>1, MinimalExists, Zenon
<1>3. PICK x \in T : \A y \in T : ~ (<< y, x >> \in {ss \in Nat \X Nat : ss[1] < ss[2]})
  BY <1>2
<1>4. ASSUME NEW y \in T PROVE x <= y
  <2>1. x \in Nat /\ y \in Nat /\ << y, x >> \in Nat \X Nat
    OBVIOUS
  <2>2. ~ (y < x)
    BY <1>3, <2>1
  <2> QED
    BY <2>1, <2>2
<1> QED
  BY <1>4

LEMMA FirstIsLeast ==
  ASSUME NEW hits \in SUBSET (Nat \ {0})
  PROVE  /\ hits = {} => First(hits) = 0
         /\ hits # {} => /\ First(hits) \in hits
                         /\ First(hits) # 0
                         /\ \A j \in hits : First(hits) <= j
         /\ \A i \in hits : (\A j \in hits : i <= j) => First(hits) = i
<1>1. ASSUME hits # {}
      PROVE  First(hits) \in hits /\ \A j \in hits : First(hits) <= j
  <2>1. \E i \in hits : \A j \in hits : i <= j
    BY <1>1, LeastExists
  <2> QED
    BY <1>1, <2>1 DEF First
<1>2. hits = {} => First(hits) = 0
  BY DEF First
<1>3. ASSUME NEW i \in hits, \A j \in hits : i <= j PROVE First(hits) = i
  <2>1. First(hits) \in hits /\ First(hits) <= i /\ i <= First(hits)
    BY <1>1, <1>3
  <2>2. First(hits) \in Nat /\ i \in Nat
    BY <2>1
  <2> QED
    BY <2>1, <2>2
<1> QED
  BY <1>1, <1>2, <1>3

\* What a change of the grants must leave alone for a session's checks to stay.
SameFor(session, old, new) ==
  \A tool \in ToolNames, site \in AnySite :
    /\ Covering(new, session, tool, site) = Covering(old, session, tool, site)
    /\ \A i \in Covering(old, session, tool, site) :
         new[i].decision = old[i].decision

LEMMA CoveringType ==
  ASSUME NEW gs \in Seq(Grant(Session)), NEW session, NEW tool, NEW site
  PROVE  Covering(gs, session, tool, site) \in SUBSET (Nat \ {0})
BY LenProperties DEF Covering

LEMMA SameChecks ==
  ASSUME NEW old \in Seq(Grant(Session)), NEW new, NEW session,
         SameFor(session, old, new),
         NEW tool \in ToolNames, NEW site \in AnySite
  PROVE  Check(new, session, tool, site) = Check(old, session, tool, site)
<1> DEFINE hits == Covering(old, session, tool, site)
<1>1. Covering(new, session, tool, site) = hits
  BY DEF SameFor
<1>2. First(hits) # 0 => First(hits) \in hits
  <2>1. hits \in SUBSET (Nat \ {0})
    BY CoveringType
  <2> HIDE DEF hits
  <2> QED
    BY <2>1, FirstIsLeast
<1>3. First(hits) # 0 => new[First(hits)].decision = old[First(hits)].decision
  BY <1>2 DEF SameFor
<1> QED
  BY <1>1, <1>3 DEF Check

\* remember() keeps its hands off the other sessions' grants.
LEMMA RememberSameForOthers ==
  ASSUME NEW gs \in Seq(Grant(Session)), NEW session, NEW other, session # other,
         NEW tool, NEW site, NEW resolution
  PROVE  SameFor(session, gs, Remember(gs, other, tool, site, resolution))
<1> DEFINE exact == {j \in DOMAIN gs : /\ gs[j].session = other
                                      /\ gs[j].tool = tool
                                      /\ gs[j].site = site}
           i == First(exact)
           new == [session |-> other, tool |-> tool, site |-> site,
                   decision |-> resolution]
<1>1. Len(gs) \in Nat /\ DOMAIN gs = 1 .. Len(gs) /\ gs \in [1 .. Len(gs) -> Grant(Session)]
  BY LenProperties
<1>2. exact \in SUBSET (Nat \ {0}) /\ (exact # {} => i \in exact)
  <2>1. exact \in SUBSET (Nat \ {0})
    BY <1>1
  <2> HIDE DEF exact
  <2> QED
    BY <2>1, FirstIsLeast
<1>3. CASE i = 0
  <2>1. Remember(gs, other, tool, site, resolution) = Append(gs, new)
    BY <1>3 DEF Remember
  <2>2. /\ DOMAIN Append(gs, new) = 1 .. Len(gs) + 1
        /\ \A j \in 1 .. Len(gs) : Append(gs, new)[j] = gs[j]
        /\ Append(gs, new)[Len(gs) + 1] = new
    BY <1>1
  <2> QED
    BY <1>1, <2>1, <2>2 DEF SameFor, Covering, Covers
<1>4. CASE i # 0
  <2>1. Remember(gs, other, tool, site, resolution) = [gs EXCEPT ![i].decision = resolution]
    BY <1>4 DEF Remember
  <2>2. i \in DOMAIN gs /\ gs[i].session = other
    BY <1>2, <1>4, FirstIsLeast
  <2> HIDE DEF i
  <2>3. /\ DOMAIN [gs EXCEPT ![i].decision = resolution] = DOMAIN gs
        /\ [gs EXCEPT ![i].decision = resolution][i].session = other
        /\ \A j \in DOMAIN gs : j # i => [gs EXCEPT ![i].decision = resolution][j] = gs[j]
    BY <1>1, <2>2 DEF Grant
  <2> QED
    BY <2>1, <2>2, <2>3 DEF SameFor, Covering, Covers
<1> QED
  BY <1>3, <1>4

LEMMA ClearSameForOthers ==
  ASSUME NEW gs \in Seq(Grant(Session)), NEW session \in Session, NEW other,
         session # other
  PROVE  SameFor(session, gs, ClearSession(gs, other))
<1>1. DOMAIN ClearSession(gs, other) = DOMAIN gs
  BY DEF ClearSession
<1>2. ASSUME NEW i \in DOMAIN gs
      PROVE  \/ ClearSession(gs, other)[i] = gs[i]
             \/ /\ gs[i].session # session
                /\ ClearSession(gs, other)[i].session # session
  <2>1. gs[i] \in Grant(Session)
    BY LenProperties, ElementOfSeq
  <2>2. NoSession # session
    BY AgentAssumption
  <2> QED
    BY <2>1, <2>2 DEF ClearSession, Grant
<1> QED
  BY <1>1, <1>2 DEF SameFor, Covering, Covers

\* For every number of sessions: nothing remembered for another session changes
\* what this session may do (policy.ts 31, 50).
THEOREM SessionsAlwaysIsolated == Spec => SessionsIsolated
<1>1. ASSUME TypeOK, [Next]_vars, count'.foreign # count.foreign,
             NEW tool \in ToolNames, NEW s \in AnySite
      PROVE  Check(grants', SessionId, tool, s) = Check(grants, SessionId, tool, s)
  <2>1. PICK other \in OtherSessions, t \in Registered, site \in AnySite,
             resolution \in Remembered : ForeignGrant(other, t, site, resolution)
    <3>1. count \in [runs : Nat, steers : Nat, foreign : Nat]
      BY <1>1 DEF TypeOK
    <3>2. ~ AgentStep
      BY <1>1 DEF AgentStep, TurnLimit, TurnAborted, StartTurn, LlmAnswers, LlmFails,
                  LlmCallsTooMany, LlmCalls, CallsDone, CallAborted, CallLimit,
                  CallUnknown, CallKnown, CheckPermission, CallThrows, ToolSettles,
                  HostResolves, Resolve, Execute, TakeCall, Turn, Step, Fail, Settle
    <3> QED
      BY <1>1, <3>1, <3>2 DEF Next, HostStep, Run, Steer, Abort, Reset, SetHistory,
                              Navigate, ClearGrants, vars
  <2>2. SameFor(SessionId, grants, grants')
    BY <1>1, <2>1, RememberSameForOthers, AgentAssumption DEF ForeignGrant, TypeOK
  <2> QED
    BY <1>1, <2>2, SameChecks DEF TypeOK
<1>2. TypeOK /\ [Next]_vars =>
        [count'.foreign # count.foreign
           => \A tool \in ToolNames, s \in AnySite :
                Check(grants', SessionId, tool, s) = Check(grants, SessionId, tool, s)]_vars
  BY <1>1
<1> QED
  BY <1>2, TypeCorrect, PTL DEF Spec, SessionsIsolated

-------------------------------------------------------------------------------
(* Refusals are final *)

\* The first grant that covers the refused pair is a refusal.
Refuses(gs, pair) ==
  \E i \in Covering(gs, SessionId, pair[1], pair[2]) :
    /\ gs[i].decision = "deny"
    /\ \A j \in Covering(gs, SessionId, pair[1], pair[2]) : i <= j

\* DenyIsFinal needs to know where a refusal is kept, and that nothing of this
\* session was remembered for a question the host is still being asked.
Refusing ==
  /\ \A pair \in denied : Refuses(grants, pair)
  /\ pc = "ask" => Covering(grants, SessionId, TheCall.tool, run.site) = {}

LEMMA RefusedCheck ==
  ASSUME NEW gs \in Seq(Grant(Session)), NEW pair, Refuses(gs, pair)
  PROVE  Check(gs, SessionId, pair[1], pair[2]) = "deny"
<1> DEFINE hits == Covering(gs, SessionId, pair[1], pair[2])
<1>1. hits \in SUBSET (Nat \ {0})
  BY CoveringType
<1>2. PICK i \in hits : gs[i].decision = "deny" /\ \A j \in hits : i <= j
  BY DEF Refuses
<1>3. First(hits) = i /\ i # 0
  <2> HIDE DEF hits
  <2> QED
    BY <1>1, <1>2, FirstIsLeast
<1> QED
  BY <1>2, <1>3 DEF Check

LEMMA RefusesSame ==
  ASSUME NEW old, NEW new, SameFor(SessionId, old, new),
         NEW pair \in ToolNames \X AnySite, Refuses(old, pair)
  PROVE  Refuses(new, pair)
BY DEF SameFor, Refuses

\* The host is asked only where this session remembers nothing.
LEMMA AskedUncovered ==
  ASSUME NEW gs \in Seq(Grant(Session)), NEW tool \in ToolNames, NEW site \in AnySite,
         Check(gs, SessionId, tool, site) = "confirm"
  PROVE  Covering(gs, SessionId, tool, site) = {}
<1> DEFINE hits == Covering(gs, SessionId, tool, site)
<1>1. hits # {} => First(hits) # 0
  <2>1. hits \in SUBSET (Nat \ {0})
    BY CoveringType
  <2> HIDE DEF hits
  <2> QED
    BY <2>1, FirstIsLeast
<1> QED
  BY <1>1 DEF Check

\* Remembering the answer to such a question adds a grant after all others.
LEMMA RememberUncovered ==
  ASSUME NEW gs \in Seq(Grant(Session)), NEW tool \in ToolNames, NEW site \in AnySite,
         NEW resolution, Covering(gs, SessionId, tool, site) = {}
  PROVE  Remember(gs, SessionId, tool, site, resolution) =
           Append(gs, [session |-> SessionId, tool |-> tool,
                       site |-> site, decision |-> resolution])
<1>1. MatchesSite(site, site)
  BY PolicyAssumption DEF MatchesSite, AnySite
<1>2. {j \in DOMAIN gs : /\ gs[j].session = SessionId
                         /\ gs[j].tool = tool
                         /\ gs[j].site = site} = {}
  BY <1>1 DEF Covering, Covers
<1>3. First({j \in DOMAIN gs : /\ gs[j].session = SessionId
                               /\ gs[j].tool = tool
                               /\ gs[j].site = site}) = 0
  BY <1>2 DEF First
<1> QED
  BY <1>3 DEF Remember

LEMMA AppendRefuses ==
  ASSUME NEW gs \in Seq(Grant(Session)), NEW tool \in ToolNames, NEW site \in AnySite,
         NEW resolution \in Remembered
  PROVE  LET g == [session |-> SessionId, tool |-> tool,
                   site |-> site, decision |-> resolution]
         IN  /\ \A pair \in ToolNames \X AnySite :
                  Refuses(gs, pair) => Refuses(Append(gs, g), pair)
             /\ resolution = "deny" /\ Covering(gs, SessionId, tool, site) = {}
                  => Refuses(Append(gs, g), << tool, site >>)
<1> DEFINE g == [session |-> SessionId, tool |-> tool,
                 site |-> site, decision |-> resolution]
           new == Append(gs, g)
<1>1. /\ Len(gs) \in Nat /\ DOMAIN gs = 1 .. Len(gs)
      /\ DOMAIN new = 1 .. Len(gs) + 1
      /\ \A j \in 1 .. Len(gs) : new[j] = gs[j]
      /\ new[Len(gs) + 1] = g
  BY LenProperties
<1> HIDE DEF new
<1>2. ASSUME NEW pair \in ToolNames \X AnySite, Refuses(gs, pair)
      PROVE  Refuses(new, pair)
  <2>1. PICK i \in Covering(gs, SessionId, pair[1], pair[2]) :
               /\ gs[i].decision = "deny"
               /\ \A j \in Covering(gs, SessionId, pair[1], pair[2]) : i <= j
    BY <1>2 DEF Refuses
  <2>2. i \in 1 .. Len(gs) /\ i \in Covering(new, SessionId, pair[1], pair[2])
        /\ new[i].decision = "deny"
    BY <1>1, <2>1 DEF Covering
  <2>3. ASSUME NEW j \in Covering(new, SessionId, pair[1], pair[2]) PROVE i <= j
    <3>1. CASE j \in 1 .. Len(gs)
      BY <1>1, <2>1, <3>1 DEF Covering
    <3>2. CASE j = Len(gs) + 1
      BY <1>1, <2>2, <3>2
    <3> QED
      BY <1>1, <3>1, <3>2 DEF Covering
  <2> QED
    BY <2>2, <2>3 DEF Refuses
<1>3. ASSUME resolution = "deny", Covering(gs, SessionId, tool, site) = {}
      PROVE  Refuses(new, << tool, site >>)
  <2>1. MatchesSite(site, site)
    BY PolicyAssumption DEF MatchesSite, AnySite
  <2>2. Covering(new, SessionId, tool, site) = {Len(gs) + 1}
    BY <1>1, <1>3, <2>1 DEF Covering, Covers
  <2> QED
    BY <1>1, <1>3, <2>2 DEF Refuses
<1> QED
  BY <1>2, <1>3 DEF new

LEMMA CallTool == TypeOK /\ pc \in Unfinished => TheCall.tool \in ToolNames
<1> SUFFICES ASSUME TypeOK, pc \in Unfinished PROVE TheCall.tool \in ToolNames
  OBVIOUS
<1>1. run.queue \in Seq(Call) /\ run.queue # << >>
  BY DEF TypeOK, Locals, Unfinished
<1>2. TheCall \in Call
  BY <1>1, HeadTailProperties DEF TheCall
<1> QED
  BY <1>2 DEF Call

LEMMA ResolveRefusing ==
  ASSUME TypeOK, Refusing, NEW locals, locals.site \in AnySite,
         TheCall.tool \in ToolNames,
         Covering(grants, SessionId, TheCall.tool, locals.site) = {},
         NEW resolution \in {"allow-once"} \cup Remembered, Resolve(locals, resolution)
  PROVE  Refusing'
<1> DEFINE g == [session |-> SessionId, tool |-> TheCall.tool,
                 site |-> locals.site, decision |-> resolution]
<1>1. grants \in Seq(Grant(Session)) /\ denied \subseteq ToolNames \X AnySite
  BY DEF TypeOK
<1>2. pc' # "ask"
  BY DEF Resolve, Execute, Step
<1>3. CASE resolution = "allow-once"
  BY <1>2, <1>3 DEF Resolve, Remembered, Refusing
<1>4. CASE resolution \in Remembered
  <2>1. grants' = Append(grants, g)
    BY <1>1, <1>4, RememberUncovered DEF Resolve
  <2>2. \A pair \in denied : Refuses(Append(grants, g), pair)
    BY <1>1, <1>4, AppendRefuses DEF Refusing
  <2>3. resolution = "deny" => Refuses(Append(grants, g), << TheCall.tool, locals.site >>)
    BY <1>1, <1>4, AppendRefuses
  <2>4. denied' = IF resolution = "deny"
                  THEN denied \cup {<< TheCall.tool, locals.site >>} ELSE denied
    BY DEF Resolve
  <2>5. \A pair \in denied' : Refuses(grants', pair)
    BY <2>1, <2>2, <2>3, <2>4
  <2> QED
    BY <1>2, <2>5 DEF Refusing
<1> QED
  BY <1>3, <1>4

\* A check that lets a call through, or asks, is not about a refused pair.
LEMMA ConfirmRefusing ==
  ASSUME TypeOK, Refusing, CheckPermission
  PROVE  Refusing'
<1> DEFINE located == [run EXCEPT !.site = page]
           decision == Check(grants, SessionId, TheCall.tool, page)
<1>1. /\ page \in AnySite /\ located.site = page /\ located.queue = run.queue
      /\ grants \in Seq(Grant(Session)) /\ TheCall.tool \in ToolNames
  BY CallTool DEF TypeOK, Locals, CheckPermission, Unfinished
<1>2. decision = "confirm" => Covering(grants, SessionId, TheCall.tool, page) = {}
  BY <1>1, AskedUncovered
<1> HIDE DEF located
<1>3. ASSUME NEW allowed, Execute(located, allowed), UNCHANGED << grants, denied >>
      PROVE  Refusing'
  BY <1>3 DEF Execute, Step, Refusing
<1>4. ASSUME Step("ask", located), decision = "confirm", UNCHANGED << grants, denied >>
      PROVE  Refusing'
  <2>1. TheCall' = TheCall /\ run'.site = page
    BY <1>1, <1>4 DEF Step, TheCall
  <2>2. Covering(grants', SessionId, TheCall'.tool, run'.site) = {}
    BY <1>2, <1>4, <2>1
  <2> QED
    BY <1>4, <2>2 DEF Refusing
<1>5. ASSUME Resolve(located, "deny"), decision = "confirm"
      PROVE  Refusing'
  BY <1>1, <1>2, <1>5, ResolveRefusing DEF Remembered
<1> QED
  BY <1>3, <1>4, <1>5 DEF CheckPermission, located

LEMMA RefusingNext == TypeOK /\ Refusing /\ [Next]_vars => Refusing'
<1> SUFFICES ASSUME TypeOK, Refusing, [Next]_vars PROVE Refusing'
  OBVIOUS
<1>1. grants \in Seq(Grant(Session)) /\ denied \subseteq ToolNames \X AnySite
  BY DEF TypeOK
<1>2. CASE UNCHANGED << grants, denied >> /\ pc' # "ask"
  BY <1>2 DEF Refusing
<1>3. CASE UNCHANGED << grants, denied, pc >> /\ TheCall' = TheCall /\ run'.site = run.site
  <2>1. Covering(grants', SessionId, TheCall'.tool, run'.site)
          = Covering(grants, SessionId, TheCall.tool, run.site)
    BY <1>3
  <2> QED
    BY <1>3, <2>1 DEF Refusing
<1>4. CASE CheckPermission
  BY <1>4, ConfirmRefusing
<1>5. ASSUME NEW resolution \in {"allow-once"} \cup Remembered,
             HostResolves(resolution)
      PROVE  Refusing'
  <2>1. run.site \in AnySite /\ TheCall.tool \in ToolNames
    BY <1>5, CallTool DEF HostResolves, TypeOK, Locals, Unfinished
  <2> QED
    BY <1>5, <2>1, ResolveRefusing DEF HostResolves, Refusing
<1>6. ASSUME NEW other \in OtherSessions, NEW tool \in Registered, NEW site \in AnySite,
             NEW resolution \in Remembered, ForeignGrant(other, tool, site, resolution)
      PROVE  Refusing'
  <2>1. SameFor(SessionId, grants, grants') /\ UNCHANGED << pc, run, denied >>
    BY <1>1, <1>6, RememberSameForOthers, AgentAssumption DEF ForeignGrant
  <2>2. \A pair \in denied : Refuses(grants', pair)
    BY <1>1, <2>1, RefusesSame DEF Refusing
  <2>3. pc = "ask" => Covering(grants', SessionId, TheCall.tool, run.site) = {}
    BY <2>1, CallTool DEF SameFor, Refusing, TypeOK, Locals, Unfinished
  <2> QED
    BY <2>1, <2>2, <2>3 DEF Refusing, TheCall
<1>7. ASSUME NEW session \in Session, ClearGrants(session)
      PROVE  Refusing'
  <2>1. UNCHANGED << pc, run >> /\ grants' = ClearSession(grants, session)
    BY <1>7 DEF ClearGrants
  <2>2. CASE session # SessionId
    <3>1. SameFor(SessionId, grants, grants') /\ denied' = denied
      BY <1>1, <1>7, <2>1, <2>2, ClearSameForOthers DEF ClearGrants, Session
    <3>2. \A pair \in denied : Refuses(grants', pair)
      BY <1>1, <3>1, RefusesSame DEF Refusing
    <3>3. pc = "ask" => Covering(grants', SessionId, TheCall.tool, run.site) = {}
      BY <3>1, CallTool DEF SameFor, Refusing, TypeOK, Locals, Unfinished
    <3> QED
      BY <2>1, <3>1, <3>2, <3>3 DEF Refusing, TheCall
  <2>3. CASE session = SessionId
    <3>1. denied' = {}
      BY <1>7, <2>3 DEF ClearGrants
    <3>2. ASSUME NEW i \in DOMAIN grants
          PROVE  ClearSession(grants, SessionId)[i].session # SessionId
      <4>1. grants[i] \in Grant(Session)
        BY <1>1, LenProperties, ElementOfSeq
      <4> QED
        BY <4>1, AgentAssumption DEF ClearSession, Grant, Session
    <3>3. \A tool, site : Covering(grants', SessionId, tool, site) = {}
      BY <2>1, <2>3, <3>2 DEF Covering, Covers, ClearSession
    <3> QED
      BY <3>1, <3>3 DEF Refusing
  <2> QED
    BY <2>2, <2>3
<1>8. CASE AgentStep
  BY <1>2, <1>4, <1>5, <1>8
     DEF AgentStep, TurnLimit, TurnAborted, StartTurn, LlmAnswers, LlmFails,
         LlmCallsTooMany, LlmCalls, CallsDone, CallAborted, CallLimit, CallUnknown,
         CallKnown, CallThrows, ToolSettles, TakeCall, Turn, Step, Fail, Settle
<1>9. CASE HostStep
  <2>1. CASE Abort
    <3>1. run'.queue = run.queue /\ run'.site = run.site
      BY <2>1 DEF Abort, TypeOK, Locals
    <3> QED
      BY <1>3, <2>1, <3>1 DEF Abort, TheCall
  <2> QED
    BY <1>2, <1>3, <1>6, <1>7, <1>9, <2>1
       DEF HostStep, Run, Steer, Reset, SetHistory, Navigate, TheCall
<1> QED
  BY <1>3, <1>8, <1>9 DEF Next, vars, TheCall

\* Whatever the session's and the other sessions' decisions, no tool body starts
\* where the host refused it (agent.ts 285-298, policy.ts 30-53).
THEOREM DenyAlwaysFinal == Spec => DenyIsFinal
<1>1. Init => Refusing
  BY DEF Init, Refusing
<1>2. ASSUME TypeOK, Refusing, [Next]_vars, pc # "exec", pc' = "exec"
      PROVE  << TheCall.tool, run'.site >> \notin denied'
  <2>1. grants \in Seq(Grant(Session)) /\ run \in Locals /\ page \in AnySite
    BY <1>2 DEF TypeOK
  <2>2. CASE CheckPermission
    <3> DEFINE located == [run EXCEPT !.site = page]
    <3>1. located.site = page
      BY <2>1 DEF Locals
    <3>2. << TheCall.tool, page >> \in denied
            => Check(grants, SessionId, TheCall.tool, page) = "deny"
      <4> DEFINE pair == << TheCall.tool, page >>
      <4>1. pair[1] = TheCall.tool /\ pair[2] = page
        OBVIOUS
      <4>2. pair \in denied => Refuses(grants, pair)
        BY <1>2 DEF Refusing
      <4> HIDE DEF pair
      <4>3. pair \in denied => Check(grants, SessionId, pair[1], pair[2]) = "deny"
        BY <2>1, <4>2, RefusedCheck
      <4> QED
        BY <4>1, <4>3 DEF pair
    <3> HIDE DEF located
    <3>3. /\ Check(grants, SessionId, TheCall.tool, page) = "allow"
          /\ Execute(located, TRUE) /\ denied' = denied
      BY <1>2, <2>2 DEF CheckPermission, located, Execute, Step, Resolve
    <3>4. run'.site = page
      BY <1>2, <2>1, <3>1, <3>3 DEF Execute, Step, located, Locals
    <3> QED
      BY <3>2, <3>3, <3>4
  <2>3. ASSUME NEW resolution \in {"allow-once"} \cup Remembered,
               HostResolves(resolution)
        PROVE  << TheCall.tool, run'.site >> \notin denied'
    <3>1. resolution # "deny" /\ denied' = denied /\ Execute(run, TRUE)
      BY <1>2, <2>3 DEF HostResolves, Resolve, Execute, Step, Remembered
    <3>2. run'.site = run.site
      BY <1>2, <2>1, <3>1 DEF Execute, Step, Locals
    <3>3. << TheCall.tool, run.site >> \notin denied
      BY <1>2, <2>3 DEF HostResolves, Refusing, Refuses
    <3> QED
      BY <3>1, <3>2, <3>3
  <2>4. CASE AgentStep
    BY <1>2, <2>2, <2>3, <2>4
       DEF AgentStep, TurnLimit, TurnAborted, StartTurn, LlmAnswers, LlmFails,
           LlmCallsTooMany, LlmCalls, CallsDone, CallAborted, CallLimit, CallUnknown,
           CallKnown, CallThrows, ToolSettles, TakeCall, Turn, Step, Fail, Settle
  <2>5. ~ HostStep
    BY <1>2 DEF HostStep, Run, Steer, Abort, Reset, SetHistory, Navigate,
                ForeignGrant, ClearGrants
  <2> QED
    BY <1>2, <2>4, <2>5 DEF Next, vars
<1>3. TypeOK /\ Refusing /\ [Next]_vars =>
        [pc # "exec" /\ pc' = "exec" => << TheCall.tool, run'.site >> \notin denied']_vars
  BY <1>2
<1> QED
  BY <1>1, <1>3, TypeCorrect, RefusingNext, PTL DEF Spec, DenyIsFinal

-------------------------------------------------------------------------------
(* The agent implements its contract *)

\* The working copy of a run extends the conversation it started from.
Growing == Running => Contract!Grown(base, run.messages)

Extends(new, old) ==
  /\ Len(new) >= Len(old)
  /\ \A i \in 1 .. Len(old) : new[i] = old[i]

LEMMA GrownMore ==
  ASSUME NEW old \in Seq(Message), NEW new \in Seq(Message), NEW more \in Seq(Message),
         Contract!Grown(old, new), Extends(more, new)
  PROVE  Contract!Grown(old, more)
<1>1. Len(old) \in Nat /\ Len(new) \in Nat /\ Len(more) \in Nat
  BY LenProperties
<1> QED
  BY <1>1 DEF Contract!Grown, Extends

LEMMA ExtendsAppend ==
  ASSUME NEW old \in Seq(Message), NEW m \in Message
  PROVE  Append(old, m) \in Seq(Message) /\ Extends(Append(old, m), old)
<1>1. Len(old) \in Nat
  BY LenProperties
<1> QED
  BY <1>1, AppendProperties DEF Extends

LEMMA ExtendsConcat ==
  ASSUME NEW old \in Seq(Message), NEW ms \in Seq(Message)
  PROVE  old \o ms \in Seq(Message) /\ Extends(old \o ms, old)
<1>1. Len(old) \in Nat /\ Len(ms) \in Nat
  BY LenProperties
<1> QED
  BY <1>1, ConcatProperties DEF Extends

LEMMA ExtendsSelf ==
  ASSUME NEW ms \in Seq(Message)
  PROVE  Extends(ms, ms)
BY LenProperties DEF Extends

LEMMA ExtendsAnswered ==
  ASSUME NEW locals \in Locals, locals.queue # << >>, NEW tag \in ToolTags
  PROVE  Extends(Answered(locals, tag).messages, locals.messages)
<1>1. locals.messages \in Seq(Message) /\ Head(locals.queue) \in Call
  BY HeadTailProperties DEF Locals
<1>2. ToolMessage(Head(locals.queue), tag) \in Message
  BY <1>1, MessageTypes
<1>3. Answered(locals, tag).messages
        = Append(locals.messages, ToolMessage(Head(locals.queue), tag))
  BY DEF Answered, Locals
<1> QED
  BY <1>1, <1>2, <1>3, ExtendsAppend

\* While a run goes on, its messages are only added to.
LEMMA RunExtends ==
  ASSUME TypeOK, AgentStep, Running'
  PROVE  Extends(run'.messages, run.messages) /\ Running /\ UNCHANGED << base, conversation >>
<1>1. /\ run \in Locals /\ run.messages \in Seq(Message)
      /\ Extends(run.messages, run.messages) /\ steering \in Seq(Message)
  BY ExtendsSelf DEF TypeOK, Locals
<1>2. ASSUME NEW messages, Settle(messages) PROVE FALSE
  BY <1>2 DEF Settle, Running
<1>3. ~ (TurnLimit \/ TurnAborted \/ CallAborted \/ CallThrows \/ LlmFails \/ LlmAnswers)
  BY <1>2 DEF TurnLimit, TurnAborted, CallAborted, CallThrows, LlmFails, LlmAnswers, Fail
<1>4. CASE StartTurn
  <2>1. run'.messages = run.messages \o steering
    BY <1>1, <1>4 DEF StartTurn, Turn, Locals
  <2> QED
    BY <1>1, <1>4, <2>1, ExtendsConcat DEF StartTurn, Turn, Running
<1>5. ASSUME NEW calls \in CallLists, LlmCallsTooMany(calls)
      PROVE  Extends(run'.messages, run.messages) /\ Running /\ UNCHANGED << base, conversation >>
  <2>1. << ReplyMessage(calls), GuardMessage >> \in Seq(Message)
    BY MessageTypes, AgentAssumption
  <2>2. run'.messages = run.messages \o << ReplyMessage(calls), GuardMessage >>
    BY <1>1, <1>5 DEF LlmCallsTooMany, Step, Locals
  <2> QED
    BY <1>1, <1>5, <2>1, <2>2, ExtendsConcat DEF LlmCallsTooMany, Step, Running
<1>6. ASSUME NEW calls \in CallLists, LlmCalls(calls)
      PROVE  Extends(run'.messages, run.messages) /\ Running /\ UNCHANGED << base, conversation >>
  <2>1. ReplyMessage(calls) \in Message
    BY MessageTypes, AgentAssumption
  <2>2. run'.messages = Append(run.messages, ReplyMessage(calls))
    BY <1>1, <1>6 DEF LlmCalls, Step, Locals
  <2> QED
    BY <1>1, <1>6, <2>1, <2>2, ExtendsAppend DEF LlmCalls, Step, Running
<1>7. CASE CallsDone \/ CallKnown
  <2>1. run'.messages = run.messages
    BY <1>1, <1>7 DEF CallsDone, CallKnown, TakeCall, Counted, Step, Locals
  <2> QED
    BY <1>1, <1>7, <2>1 DEF CallsDone, CallKnown, HasCall, TakeCall, Step, Running
<1>8. Counted \in Locals /\ Counted.queue = run.queue /\ Counted.messages = run.messages
  <2>1. run.total + 1 \in Nat
    BY <1>1 DEF Locals
  <2> QED
    BY <1>1, <2>1 DEF Counted, Locals
<1>9. CASE CallLimit \/ CallUnknown
  <2>1. PICK tag \in ToolTags : run'.messages = Answered(Counted, tag).messages
    <3>1. \A tag : [Answered(Counted, tag) EXCEPT !.queue = << >>].messages
                     = Answered(Counted, tag).messages
      BY <1>8 DEF Answered, Locals
    <3> QED
      BY <1>9, <3>1 DEF CallLimit, CallUnknown, Step, ToolTags
  <2>2. Extends(Answered(Counted, tag).messages, Counted.messages)
    BY <1>8, <1>9, ExtendsAnswered DEF CallLimit, CallUnknown, HasCall
  <2> QED
    BY <1>8, <1>9, <2>1, <2>2 DEF CallLimit, CallUnknown, HasCall, Step, Running
<1>10. ASSUME NEW locals \in Locals, locals.queue = run.queue, run.queue # << >>,
              locals.messages = run.messages, NEW allowed, Execute(locals, allowed)
       PROVE  Extends(run'.messages, run.messages) /\ UNCHANGED << base, conversation >>
  <2>1. CASE \E tag \in ToolTags : run' = Answered(locals, tag)
    BY <1>10, <2>1, ExtendsAnswered DEF Execute, Step
  <2>2. CASE run' = [locals EXCEPT !.seen = @ \cup {TheCall}]
    BY <1>1, <1>10, <2>2 DEF Execute, Step, Locals
  <2> QED
    BY <1>10, <2>1, <2>2 DEF Execute, Step, ToolTags
<1>11. CASE CheckPermission
  <2> DEFINE located == [run EXCEPT !.site = page]
  <2>1. /\ located \in Locals /\ located.queue = run.queue
        /\ located.messages = run.messages /\ run.queue # << >>
    BY <1>1, <1>11 DEF Locals, TypeOK, CheckPermission
  <2> HIDE DEF located
  <2>2. (\E allowed : Execute(located, allowed)) \/ Step("ask", located)
    BY <1>11 DEF CheckPermission, Resolve, located
  <2> QED
    BY <1>1, <1>10, <1>11, <2>1, <2>2 DEF CheckPermission, Step, Running
<1>12. ASSUME NEW resolution \in {"allow-once"} \cup Remembered, HostResolves(resolution)
       PROVE  Extends(run'.messages, run.messages) /\ Running /\ UNCHANGED << base, conversation >>
  <2>1. run.queue # << >> /\ \E allowed : Execute(run, allowed)
    BY <1>12 DEF HostResolves, Resolve, TypeOK
  <2> QED
    BY <1>1, <1>10, <1>12, <2>1 DEF HostResolves, Running
<1>13. CASE ToolSettles
  <2>1. Extends(Answered(run, "ran").messages, run.messages)
    BY <1>1, <1>13, ExtendsAnswered DEF ToolSettles, TypeOK, ToolTags
  <2> QED
    BY <1>13, <2>1 DEF ToolSettles, Step, Running
<1> QED
  BY <1>3, <1>4, <1>5, <1>6, <1>7, <1>9, <1>11, <1>12, <1>13 DEF AgentStep

LEMMA RunBegins ==
  ASSUME TypeOK, Run
  PROVE  Growing' /\ Contract!Begin
<1>1. /\ conversation \in Seq(Message) /\ Len(conversation) \in Nat
      /\ count.runs + 1 \in Nat /\ count \in [runs : Nat, steers : Nat, foreign : Nat]
  BY LenProperties DEF TypeOK
<1> DEFINE prompt == UserMessage("prompt", count.runs + 1)
<1>2. prompt \in Message /\ prompt.tag = "prompt"
  BY <1>1, MessageTypes DEF UserMessage
<1>3. /\ run'.messages = Append(conversation, prompt) /\ base' = conversation
      /\ ~ Running /\ Running' /\ UNCHANGED conversation
  BY <1>1 DEF Run, NoRun, Running
<1> HIDE DEF prompt
<1>4. Contract!Grown(conversation, Append(conversation, prompt))
  BY <1>1, <1>2, AppendProperties DEF Contract!Grown
<1> QED
  BY <1>3, <1>4 DEF Growing, Contract!Begin

LEMMA RunReturns ==
  ASSUME TypeOK, Growing, Running, NEW messages \in Seq(Message),
         Extends(messages, run.messages), Settle(messages)
  PROVE  Contract!End
<1>1. base \in Seq(Message) /\ run.messages \in Seq(Message)
  BY DEF TypeOK, Locals
<1>2. Contract!Grown(base, messages)
  BY <1>1, GrownMore DEF Growing
<1> QED
  BY <1>2 DEF Settle, Running, Contract!End

LEMMA AgentStepKeeps ==
  ASSUME TypeOK, Growing, AgentStep
  PROVE  Growing' /\ (Contract!End \/ UNCHANGED << Running, base, conversation >>)
<1>1. /\ run.messages \in Seq(Message) /\ run \in Locals
      /\ Extends(run.messages, run.messages)
  BY ExtendsSelf DEF TypeOK, Locals
<1>2. CASE Running'
  <2>1. /\ Extends(run'.messages, run.messages) /\ Running
        /\ UNCHANGED << base, conversation >>
    BY <1>2, RunExtends
  <2>2. run'.messages \in Seq(Message) /\ base \in Seq(Message)
    <3>1. TypeOK'
      BY AgentStepType
    <3> QED
      BY <3>1 DEF TypeOK, Locals
  <2>3. Contract!Grown(base, run'.messages)
    BY <1>1, <2>1, <2>2, GrownMore DEF Growing
  <2> QED
    BY <1>2, <2>1, <2>3 DEF Growing
<1>3. CASE ~ Running'
  <2>1. Growing'
    BY <1>3 DEF Growing
  <2>2. CASE TurnLimit \/ TurnAborted \/ CallAborted \/ CallThrows \/ LlmFails
    BY <1>1, <2>1, <2>2, RunReturns
       DEF TurnLimit, TurnAborted, CallAborted, CallThrows, LlmFails, Fail, Running
  <2>3. CASE LlmAnswers
    <3>1. ReplyMessage(<< >>) \in Message
      BY MessageTypes, EmptySeq
    <3>2. /\ Append(run.messages, ReplyMessage(<< >>)) \in Seq(Message)
          /\ Extends(Append(run.messages, ReplyMessage(<< >>)), run.messages)
      BY <1>1, <3>1, ExtendsAppend
    <3> QED
      BY <2>1, <2>3, <3>2, RunReturns DEF LlmAnswers, Running
  <2>4. ASSUME pc' # "idle" PROVE FALSE
    BY <1>3, <2>4 DEF Running
  <2> QED
    BY <2>2, <2>3, <2>4
       DEF AgentStep, StartTurn, LlmCallsTooMany, LlmCalls, CallsDone, CallLimit,
           CallUnknown, CallKnown, CheckPermission, HostResolves, ToolSettles, TakeCall,
           Turn, Execute, Resolve, Step
<1> QED
  BY <1>2, <1>3

\* Whatever the model, the page, the host and the tools do, a run leaves the
\* conversation it started from, its prompt and what followed, and nothing
\* replaces the conversation under it (agent.ts 149, 176, 187-188, 254, 327, 330).
THEOREM ImplementsContract == Spec => KeepsContract
<1>1. Init => Growing /\ Contract!Init
  BY DEF Init, Growing, Running, Contract!Init
<1>2. TypeOK /\ Growing /\ [Next]_vars => Growing' /\ [Contract!Next]_(Contract!vars)
  <2> SUFFICES ASSUME TypeOK, Growing, [Next]_vars
               PROVE  Growing' /\ [Contract!Next]_(Contract!vars)
    OBVIOUS
  <2>1. CASE AgentStep
    BY <2>1, AgentStepKeeps DEF Contract!Next, Contract!vars
  <2>2. CASE Run
    BY <2>2, RunBegins DEF Contract!Next
  <2>3. CASE SetHistory(<< >>) \/ Reset
    <3>1. << >> \in Seq(Message)
      OBVIOUS
    <3> QED
      BY <2>3, <3>1 DEF SetHistory, Reset, Growing, Running,
                        Contract!Next, Contract!Replace, Contract!Clear
  <2>4. CASE Abort
    <3>1. run'.messages = run.messages
      BY <2>4 DEF Abort, TypeOK, Locals
    <3> QED
      BY <2>4, <3>1 DEF Abort, Growing, Running, Contract!vars
  <2>5. CASE UNCHANGED << pc, run, base, conversation >>
    BY <2>5 DEF Growing, Running, Contract!vars
  <2>6. CASE HostStep
    BY <2>2, <2>3, <2>4, <2>5, <2>6 DEF HostStep, Steer, Navigate, ForeignGrant, ClearGrants
  <2> QED
    BY <2>1, <2>5, <2>6 DEF Next, vars
<1> QED
  BY <1>1, <1>2, TypeCorrect, PTL DEF Spec, KeepsContract, Contract!Spec

-------------------------------------------------------------------------------
\* After an abort no further call is counted and no further request is sent
\* (agent.ts 197, 267).
THEOREM AbortAlwaysHalts == Spec => AbortHalts
<1>1. ASSUME TypeOK, [Next]_vars, run.aborted, run'.aborted
      PROVE  run'.total = run.total /\ run'.turns = run.turns
  <2>1. run \in Locals
    BY <1>1 DEF TypeOK
  <2>2. ~ (StartTurn \/ CallLimit \/ CallUnknown \/ CallKnown)
    BY <1>1 DEF StartTurn, Turn, CallLimit, CallUnknown, CallKnown, HasCall
  <2>3. ASSUME NEW messages PROVE ~ Settle(messages)
    BY <1>1 DEF Settle, NoRun
  <2>4. ASSUME NEW locals \in Locals, NEW allowed, Execute(locals, allowed)
        PROVE  run'.total = locals.total /\ run'.turns = locals.turns
    BY <2>4 DEF Execute, Step, Answered, Locals
  <2>5. CASE CheckPermission
    <3> DEFINE located == [run EXCEPT !.site = page]
    <3>1. /\ located \in Locals /\ located.total = run.total
          /\ located.turns = run.turns
      BY <1>1, <2>1 DEF Locals, TypeOK
    <3> HIDE DEF located
    <3>2. (\E allowed : Execute(located, allowed)) \/ Step("ask", located)
      BY <2>5 DEF CheckPermission, Resolve, located
    <3> QED
      BY <2>4, <3>1, <3>2 DEF Step
  <2>6. ASSUME NEW resolution \in {"allow-once"} \cup Remembered, HostResolves(resolution)
        PROVE  run'.total = run.total /\ run'.turns = run.turns
    <3>1. \E allowed : Execute(run, allowed)
      BY <2>6 DEF HostResolves, Resolve
    <3> QED
      BY <2>1, <2>4, <3>1
  <2>7. CASE AgentStep
    BY <2>1, <2>2, <2>3, <2>5, <2>6, <2>7
       DEF AgentStep, TurnLimit, TurnAborted, LlmAnswers, LlmFails, Fail, LlmCallsTooMany,
           LlmCalls, CallsDone, CallAborted, CallThrows, ToolSettles, Answered, Step, Locals
  <2>8. ~ Run
    BY <1>1 DEF Run, NoRun
  <2>9. CASE HostStep
    BY <2>1, <2>8, <2>9 DEF HostStep, Steer, Abort, Reset, SetHistory, Navigate,
                            ForeignGrant, ClearGrants, Locals
  <2> QED
    BY <1>1, <2>7, <2>9 DEF Next, vars
<1>2. TypeOK /\ [Next]_vars =>
        [run.aborted /\ run'.aborted
           => run'.total = run.total /\ run'.turns = run.turns]_vars
  BY <1>1
<1> QED
  BY <1>2, TypeCorrect, PTL DEF Spec, AbortHalts

-------------------------------------------------------------------------------
(* What the steps add to the transcript *)

Answering == {"next", "site", "ask", "exec"}

Sends == pc = "loop" /\ pc' = "llm" /\ Transcript' = Transcript \o steering /\ steering' = << >>
Ends == Running /\ pc' = "idle" /\ Transcript' = Transcript
Concludes ==
  pc = "llm" /\ pc' = "idle" /\ Transcript' = Transcript \o << ReplyMessage(<< >>) >>
Rejects(calls) ==
  /\ pc = "llm" /\ pc' = "loop" /\ Len(calls) > MaxToolCallsPerTurn
  /\ Transcript' = Transcript \o << ReplyMessage(calls), GuardMessage >>
Takes(calls) ==
  /\ pc = "llm" /\ pc' = "next" /\ run'.queue = calls
  /\ Transcript' = Transcript \o << ReplyMessage(calls) >>
Finishes == pc = "next" /\ pc' = "loop" /\ run.queue = << >> /\ Transcript' = Transcript
Replies(tag) ==
  /\ pc \in Answering /\ run.queue # << >>
  /\ Transcript' = Transcript \o << ToolMessage(Head(run.queue), tag) >>
  /\ \/ pc' = "next" /\ run'.queue = Tail(run.queue)
     \/ pc' = "loop" /\ tag = "limit"
Waits ==
  pc \in Answering /\ pc' \in Answering /\ run'.queue = run.queue /\ Transcript' = Transcript

LEMMA AnsweredIs ==
  ASSUME NEW locals \in Locals, locals.queue # << >>, NEW tag \in ToolTags
  PROVE  /\ Answered(locals, tag).messages
              = locals.messages \o << ToolMessage(Head(locals.queue), tag) >>
         /\ Answered(locals, tag).queue = Tail(locals.queue)
<1>1. Append(locals.messages, ToolMessage(Head(locals.queue), tag))
        = locals.messages \o << ToolMessage(Head(locals.queue), tag) >>
  <2>1. locals.messages \in Seq(Message) /\ Head(locals.queue) \in Call
    BY HeadTailProperties DEF Locals
  <2>2. ToolMessage(Head(locals.queue), tag) \in Message
    BY <2>1, MessageTypes
  <2> QED
    BY <2>1, <2>2, AppendIsConcat
<1> QED
  BY <1>1 DEF Answered, Locals

LEMMA AgentSays ==
  ASSUME TypeOK, AgentStep
  PROVE  /\ UNCHANGED << count, forgotten >>
         /\ \/ Sends
            \/ /\ UNCHANGED steering
               /\ \/ Ends \/ Concludes \/ Finishes \/ Waits
                  \/ \E calls \in CallLists : Rejects(calls) \/ Takes(calls)
                  \/ \E tag \in ToolTags : Replies(tag)
<1> DEFINE Goal == /\ UNCHANGED << count, forgotten >>
                   /\ \/ Sends
                      \/ /\ UNCHANGED steering
                         /\ \/ Ends \/ Concludes \/ Finishes \/ Waits
                            \/ \E calls \in CallLists : Rejects(calls) \/ Takes(calls)
                            \/ \E tag \in ToolTags : Replies(tag)
<1>1. run \in Locals /\ run.messages \in Seq(Message) /\ run.queue \in Seq(Call)
  BY DEF TypeOK, Locals
<1>2. Counted \in Locals /\ Counted.queue = run.queue /\ Counted.messages = run.messages
  <2>1. run.total + 1 \in Nat
    BY <1>1 DEF Locals
  <2> QED
    BY <1>1, <2>1 DEF Counted, Locals
<1>3. CASE TurnLimit \/ TurnAborted \/ CallAborted \/ CallThrows \/ LlmFails
  <2>1. Settle(run.messages) /\ Running
    BY <1>3 DEF TurnLimit, TurnAborted, CallAborted, CallThrows, LlmFails, Fail, Running
  <2> QED
    BY <2>1 DEF Settle, Ends, Transcript, Running
<1>4. CASE StartTurn
  <2>1. run'.messages = run.messages \o steering
    BY <1>1, <1>4 DEF StartTurn, Turn, Locals
  <2> QED
    BY <1>4, <2>1 DEF StartTurn, Turn, Sends, Transcript, Running
<1>5. CASE LlmAnswers
  <2>1. ReplyMessage(<< >>) \in Message
    BY MessageTypes, EmptySeq
  <2>2. Append(run.messages, ReplyMessage(<< >>)) = run.messages \o << ReplyMessage(<< >>) >>
    BY <1>1, <2>1, AppendIsConcat
  <2> QED
    BY <1>5, <2>2 DEF LlmAnswers, Settle, Concludes, Transcript, Running
<1>6. ASSUME NEW calls \in CallLists, LlmCallsTooMany(calls) PROVE Goal
  <2>1. run'.messages = run.messages \o << ReplyMessage(calls), GuardMessage >>
    BY <1>1, <1>6 DEF LlmCallsTooMany, Step, Locals
  <2>2. Rejects(calls)
    BY <1>6, <2>1 DEF LlmCallsTooMany, Step, Rejects, Transcript, Running
  <2> QED
    BY <1>6, <2>2 DEF LlmCallsTooMany, Step
<1>7. ASSUME NEW calls \in CallLists, LlmCalls(calls) PROVE Goal
  <2>1. ReplyMessage(calls) \in Message
    BY MessageTypes, AgentAssumption
  <2>2. Append(run.messages, ReplyMessage(calls)) = run.messages \o << ReplyMessage(calls) >>
    BY <1>1, <2>1, AppendIsConcat
  <2>3. run'.messages = run.messages \o << ReplyMessage(calls) >> /\ run'.queue = calls
    BY <1>1, <1>7, <2>2 DEF LlmCalls, Step, Locals
  <2>4. Takes(calls)
    BY <1>7, <2>3 DEF LlmCalls, Step, Takes, Transcript, Running
  <2> QED
    BY <1>7, <2>4 DEF LlmCalls, Step
<1>8. CASE CallsDone
  BY <1>8 DEF CallsDone, Step, Finishes, Transcript, Running
<1>9. CASE CallLimit
  <2>1. run'.messages = Answered(Counted, "limit").messages
    <3>1. [Answered(Counted, "limit") EXCEPT !.queue = << >>].messages
            = Answered(Counted, "limit").messages
      BY <1>2 DEF Answered, Locals
    <3> QED
      BY <1>9, <3>1 DEF CallLimit, Step
  <2>2. pc = "next" /\ pc' = "loop" /\ run.queue # << >>
    BY <1>9 DEF CallLimit, HasCall, Step
  <2>3. run'.messages = run.messages \o << ToolMessage(Head(run.queue), "limit") >>
    BY <1>2, <2>1, <2>2, AnsweredIs DEF ToolTags
  <2>4. Replies("limit")
    BY <2>2, <2>3 DEF Replies, Answering, Transcript, Running
  <2> QED
    BY <1>9, <2>4 DEF CallLimit, Step, ToolTags
<1>10. ASSUME NEW locals \in Locals, NEW tag \in ToolTags, locals.queue = run.queue,
              locals.messages = run.messages, run.queue # << >>, pc \in Answering,
              Step("next", Answered(locals, tag))
       PROVE  Goal
  <2>1. Replies(tag)
    BY <1>10, AnsweredIs DEF Step, Replies, Answering, Transcript, Running
  <2> QED
    BY <1>10, <2>1 DEF Step
<1>11. CASE CallUnknown
  BY <1>2, <1>10, <1>11 DEF CallUnknown, HasCall, ToolTags, Answering
<1>12. ASSUME NEW locals, NEW to \in Answering, locals.queue = run.queue,
              locals.messages = run.messages, pc \in Answering, Step(to, locals)
       PROVE  Goal
  BY <1>12 DEF Step, Waits, Answering, Transcript, Running
<1>13. CASE CallKnown
  BY <1>2, <1>12, <1>13 DEF CallKnown, HasCall, TakeCall, Answering
<1>14. ASSUME NEW locals \in Locals, NEW allowed, locals.queue = run.queue,
              locals.messages = run.messages, run.queue # << >>, pc \in Answering,
              Execute(locals, allowed)
       PROVE  Goal
  <2>1. CASE \E tag \in ToolTags : Step("next", Answered(locals, tag))
    BY <1>10, <1>14, <2>1
  <2>2. CASE Step("exec", [locals EXCEPT !.seen = @ \cup {TheCall}])
    <3>1. PICK more : more = [locals EXCEPT !.seen = @ \cup {TheCall}]
      OBVIOUS
    <3>2. more.queue = run.queue /\ more.messages = run.messages
      BY <1>14, <3>1 DEF Locals
    <3> QED
      BY <1>12, <1>14, <2>2, <3>1, <3>2 DEF Answering
  <2> QED
    BY <1>14, <2>1, <2>2 DEF Execute, ToolTags
<1>15. CASE CheckPermission
  <2> DEFINE located == [run EXCEPT !.site = page]
  <2>1. /\ located \in Locals /\ located.queue = run.queue
        /\ located.messages = run.messages /\ run.queue # << >> /\ pc \in Answering
    BY <1>1, <1>15 DEF Locals, TypeOK, CheckPermission, Answering
  <2> HIDE DEF located
  <2>2. (\E allowed : Execute(located, allowed)) \/ Step("ask", located)
    BY <1>15 DEF CheckPermission, Resolve, located
  <2>3. "ask" \in Answering
    BY DEF Answering
  <2> QED
    BY <1>12, <1>14, <2>1, <2>2, <2>3
<1>16. ASSUME NEW resolution \in {"allow-once"} \cup Remembered, HostResolves(resolution)
       PROVE  Goal
  <2>1. run.queue # << >> /\ pc \in Answering /\ \E allowed : Execute(run, allowed)
    BY <1>16 DEF HostResolves, Resolve, TypeOK, Answering
  <2> QED
    BY <1>1, <1>14, <2>1
<1>17. CASE ToolSettles
  <2>1. run.queue # << >> /\ pc \in Answering
    BY <1>17 DEF ToolSettles, TypeOK, Answering
  <2> QED
    BY <1>1, <1>10, <1>17, <2>1 DEF ToolSettles, ToolTags
<1> QED
  BY <1>3, <1>4, <1>5, <1>6, <1>7, <1>8, <1>9, <1>11, <1>13, <1>15, <1>16, <1>17
     DEF AgentStep

LEMMA HostSays ==
  ASSUME TypeOK, HostStep
  PROVE  \/ /\ pc = "idle" /\ pc' = "loop" /\ UNCHANGED << steering, forgotten, count.steers >>
            /\ Transcript' = Transcript \o << UserMessage("prompt", count'.runs) >>
            /\ count'.runs \in Nat
         \/ /\ UNCHANGED << pc, run.queue >>
            /\ \/ UNCHANGED << Transcript, steering, forgotten, count.steers >>
               \/ Steer /\ UNCHANGED << Transcript, forgotten >>
               \/ Reset \/ SetHistory(<< >>)
<1>1. run \in Locals /\ count \in [runs : Nat, steers : Nat, foreign : Nat]
      /\ conversation \in Seq(Message)
  BY DEF TypeOK
<1>2. CASE Run
  <2>1. PICK n \in Nat : n = count.runs + 1
    BY <1>1
  <2>2. count' = [count EXCEPT !.runs = n] /\ count'.runs = n
    BY <1>1, <1>2, <2>1 DEF Run
  <2>3. Append(conversation, UserMessage("prompt", n)) = conversation \o << UserMessage("prompt", n) >>
    BY <1>1, MessageTypes, AppendIsConcat
  <2>4. run'.messages = conversation \o << UserMessage("prompt", n) >>
    BY <1>2, <2>2, <2>3 DEF Run, NoRun
  <2>5. count'.steers = count.steers
    BY <1>1, <2>2
  <2> QED
    BY <1>2, <2>2, <2>4, <2>5 DEF Run, Transcript, Running
<1>3. CASE Steer
  BY <1>3 DEF Steer, Transcript, Running
<1>4. CASE Abort
  <2>1. run'.messages = run.messages /\ run'.queue = run.queue
    BY <1>1, <1>4 DEF Abort, Locals
  <2> QED
    BY <1>4, <2>1 DEF Abort, Transcript, Running
<1>5. CASE SetHistory(<< >>) \/ Reset
  BY <1>5 DEF SetHistory, Reset
<1>6. CASE \E newPage \in AnySite : Navigate(newPage)
  BY <1>6 DEF Navigate, Transcript, Running
<1>7. CASE \E other \in OtherSessions, tool \in Registered, site \in AnySite,
              resolution \in Remembered : ForeignGrant(other, tool, site, resolution)
  <2>1. PICK n : n = count.foreign + 1
    OBVIOUS
  <2>2. count' = [count EXCEPT !.foreign = n]
    BY <1>7, <2>1 DEF ForeignGrant
  <2>3. count'.steers = count.steers
    BY <1>1, <2>2
  <2> QED
    BY <1>7, <2>3 DEF ForeignGrant, Transcript, Running
<1>8. CASE \E session \in Session : ClearGrants(session)
  BY <1>8 DEF ClearGrants, Transcript, Running
<1> QED
  BY <1>2, <1>3, <1>4, <1>5, <1>6, <1>7, <1>8 DEF HostStep

-------------------------------------------------------------------------------
(* Steer texts *)

\* SteersKept is not inductive: a new text is the last one only because every earlier one was
\* counted, and it joins the transcript after what is there.
SteersCounted ==
  /\ SteersRise(Transcript) /\ SteersRise(steering)
  /\ \A a \in SteersIn(Transcript), b \in SteersIn(steering) : a < b
  /\ SteersIn(Transcript) \cup SteersIn(steering) \subseteq 0 .. count.steers
  /\ 1 .. count.steers \subseteq forgotten \cup SteersIn(Transcript) \cup SteersIn(steering)

\* The positions of `both`, the concatenation of `s` and `t`, which are m and n long.
Joins(both, s, t, m, n) ==
  /\ both \in Seq(Message) /\ m \in Nat /\ n \in Nat /\ Len(s) = m /\ Len(t) = n /\ Len(both) = m + n
  /\ DOMAIN s = 1 .. m /\ DOMAIN t = 1 .. n /\ DOMAIN both = 1 .. m + n
  /\ \A i \in 1 .. m : i \in 1 .. m + n /\ both[i] = s[i]
  /\ \A k \in 1 .. n : \E i \in 1 .. m + n : i = m + k /\ both[i] = t[k]
  /\ \A i \in 1 .. m + n : i \in 1 .. m \/ \E k \in 1 .. n : i = m + k /\ both[i] = t[k]

LEMMA ConcatPlaces ==
  ASSUME NEW s \in Seq(Message), NEW t \in Seq(Message)
  PROVE  \E both, m, n : both = s \o t /\ Joins(both, s, t, m, n)
<1>10. PICK m, n, both : m = Len(s) /\ n = Len(t) /\ both = s \o t
  OBVIOUS
<1>1. m \in Nat /\ n \in Nat /\ DOMAIN s = 1 .. m /\ DOMAIN t = 1 .. n
  BY <1>10, LenProperties
<1>2. /\ both \in Seq(Message) /\ Len(both) = m + n
      /\ \A i \in 1 .. m + n : both[i] = IF i <= m THEN s[i] ELSE t[i - m]
  BY <1>1, <1>10, ConcatProperties
<1>3. DOMAIN both = 1 .. m + n
  BY <1>2, LenProperties
<1>4. \A i \in 1 .. m : i \in 1 .. m + n /\ both[i] = s[i]
  BY <1>1, <1>2
<1>5. ASSUME NEW k \in 1 .. n
      PROVE  \E i \in 1 .. m + n : i = m + k /\ both[i] = t[k]
  <2>1. PICK i : i = m + k
    OBVIOUS
  <2>2. i \in 1 .. m + n /\ ~ i <= m /\ i - m = k
    BY <1>1, <2>1
  <2>3. both[i] = t[k]
    BY <1>2, <2>2
  <2> QED
    BY <2>1, <2>2, <2>3
<1>6. ASSUME NEW i \in 1 .. m + n, i \notin 1 .. m
      PROVE  \E k \in 1 .. n : i = m + k /\ both[i] = t[k]
  <2>1. PICK k : k = i - m
    OBVIOUS
  <2>2. k \in 1 .. n /\ i = m + k /\ ~ i <= m
    BY <1>1, <1>6, <2>1
  <2> QED
    BY <1>2, <2>1, <2>2
<1> QED
  <2>1. Joins(both, s, t, m, n)
    BY <1>1, <1>2, <1>3, <1>4, <1>5, <1>6, <1>10 DEF Joins
  <2> QED
    BY <1>10, <2>1

LEMMA SteersInConcat ==
  ASSUME NEW ms \in Seq(Message), NEW more \in Seq(Message)
  PROVE  /\ ms \o more \in Seq(Message)
         /\ SteersIn(ms \o more) = SteersIn(ms) \cup SteersIn(more)
<1>1. PICK both, m, n : both = ms \o more /\ Joins(both, ms, more, m, n)
  BY ConcatPlaces
<1>10. \A list : \A x : x \in SteersIn(list) <=>
                      \E i \in DOMAIN list : list[i].tag = "steer" /\ list[i].n = x
  BY DEF SteersIn
<1>2. ASSUME NEW x \in SteersIn(both)
      PROVE  x \in SteersIn(ms) \cup SteersIn(more)
  <2>1. PICK i \in DOMAIN both : both[i].tag = "steer" /\ both[i].n = x
    BY <1>2, <1>10
  <2>2. (i \in DOMAIN ms /\ both[i] = ms[i]) \/ \E k \in DOMAIN more : both[i] = more[k]
    BY <1>1 DEF Joins
  <2> QED
    BY <1>10, <2>1, <2>2
<1>3. ASSUME NEW x \in SteersIn(ms) \cup SteersIn(more)
      PROVE  x \in SteersIn(both)
  <2>1. CASE x \in SteersIn(ms)
    <3>1. PICK i \in DOMAIN ms : ms[i].tag = "steer" /\ ms[i].n = x
      BY <1>10, <2>1
    <3>2. i \in DOMAIN both /\ both[i] = ms[i]
      BY <1>1 DEF Joins
    <3> QED
      BY <1>10, <3>1, <3>2
  <2>2. CASE x \in SteersIn(more)
    <3>1. PICK k \in DOMAIN more : more[k].tag = "steer" /\ more[k].n = x
      BY <1>10, <2>2
    <3>2. \E i \in DOMAIN both : both[i] = more[k]
      BY <1>1 DEF Joins
    <3> QED
      BY <1>10, <3>1, <3>2
  <2> QED
    BY <1>3, <2>1, <2>2
<1>4. both \in Seq(Message)
  BY <1>1 DEF Joins
<1> QED
  BY <1>1, <1>2, <1>3, <1>4

LEMMA SteersRiseConcat ==
  ASSUME NEW ms \in Seq(Message), NEW more \in Seq(Message), SteersRise(ms), SteersRise(more),
         \A a \in SteersIn(ms), b \in SteersIn(more) : a < b
  PROVE  SteersRise(ms \o more)
<1>1. PICK both, m, n : both = ms \o more /\ Joins(both, ms, more, m, n)
  BY ConcatPlaces
<1>2. /\ m \in Nat /\ n \in Nat
      /\ DOMAIN ms = 1 .. m /\ DOMAIN more = 1 .. n /\ DOMAIN both = 1 .. m + n
      /\ \A i \in 1 .. m : both[i] = ms[i]
      /\ \A i \in 1 .. m + n :
           i \in 1 .. m \/ \E k \in 1 .. n : i = m + k /\ both[i] = more[k]
  BY <1>1 DEF Joins
<1>3. SUFFICES ASSUME NEW i \in 1 .. m + n, NEW j \in 1 .. m + n, i < j,
                      both[i].tag = "steer", both[j].tag = "steer"
               PROVE  both[i].n < both[j].n
  BY <1>1, <1>2 DEF SteersRise
<1>4. CASE j \in 1 .. m
  <2>1. i \in 1 .. m
    BY <1>2, <1>3, <1>4
  <2> QED
    BY <1>2, <1>3, <1>4, <2>1 DEF SteersRise
<1>5. CASE j \notin 1 .. m
  <2>1. PICK l \in 1 .. n : j = m + l /\ both[j] = more[l]
    BY <1>2, <1>5
  <2>2. CASE i \in 1 .. m
    <3>1. both[i].n \in SteersIn(ms) /\ both[j].n \in SteersIn(more)
      BY <1>2, <1>3, <2>1, <2>2 DEF SteersIn
    <3> QED
      BY <3>1
  <2>3. CASE i \notin 1 .. m
    <3>1. PICK k \in 1 .. n : i = m + k /\ both[i] = more[k]
      BY <1>2, <2>3
    <3>2. k < l
      BY <1>2, <1>3, <2>1, <3>1
    <3>3. k \in DOMAIN more /\ l \in DOMAIN more /\ more[k].tag = "steer" /\ more[l].tag = "steer"
      BY <1>2, <1>3, <2>1, <3>1
    <3>4. more[k].n < more[l].n
      BY <3>2, <3>3 DEF SteersRise
    <3> QED
      BY <2>1, <3>1, <3>4
  <2> QED
    BY <2>2, <2>3
<1> QED
  BY <1>4, <1>5

\* What is said without a steer text.
LEMMA SteerlessConcat ==
  ASSUME NEW ms \in Seq(Message), NEW more \in Seq(Message),
         \A i \in DOMAIN more : more[i].tag # "steer"
  PROVE  SteersIn(ms \o more) = SteersIn(ms) /\ (SteersRise(ms) => SteersRise(ms \o more))
<1>1. SteersIn(more) = {} /\ SteersRise(more)
  BY DEF SteersIn, SteersRise
<1>2. SteersIn(ms \o more) = SteersIn(ms) \cup SteersIn(more)
  BY SteersInConcat
<1>3. ASSUME SteersRise(ms)
      PROVE  SteersRise(ms \o more)
  BY <1>1, <1>3, SteersRiseConcat
<1> QED
  BY <1>1, <1>2, <1>3

LEMMA NoSteers == SteersRise(<< >>) /\ SteersIn(<< >>) = {}
BY DEF SteersRise, SteersIn

LEMMA SteersSame ==
  ASSUME TypeOK, SteersCounted, NEW more \in Seq(Message), Transcript' = Transcript \o more,
         \A i \in DOMAIN more : more[i].tag # "steer",
         UNCHANGED << steering, forgotten, count.steers >>
  PROVE  SteersCounted'
<1>1. Transcript \in Seq(Message)
  BY DEF Transcript, TypeOK, Locals
<1>2. SteersIn(Transcript') = SteersIn(Transcript) /\ SteersRise(Transcript')
  BY <1>1, SteerlessConcat DEF SteersCounted
<1> QED
  BY <1>2 DEF SteersCounted

LEMMA SteersAgent ==
  ASSUME TypeOK, SteersCounted, AgentStep
  PROVE  SteersCounted'
<1>1. Transcript \in Seq(Message) /\ steering \in Seq(Message) /\ UNCHANGED << count, forgotten >>
  BY AgentSays DEF Transcript, TypeOK, Locals
<1>2. CASE Sends
  <2>1. /\ SteersIn(Transcript') = SteersIn(Transcript) \cup SteersIn(steering)
        /\ SteersRise(Transcript')
    BY <1>1, <1>2, SteersInConcat, SteersRiseConcat DEF Sends, SteersCounted
  <2>2. SteersIn(steering') = {} /\ SteersRise(steering')
    BY <1>2, NoSteers DEF Sends
  <2> QED
    BY <1>1, <2>1, <2>2 DEF SteersCounted
<1>3. CASE UNCHANGED steering /\ (Ends \/ Finishes \/ Waits)
  BY <1>1, <1>3 DEF Ends, Finishes, Waits, SteersCounted
<1>4. CASE UNCHANGED steering /\ Concludes
  <2>3. PICK m : m = ReplyMessage(<< >>)
    OBVIOUS
  <2>4. m \in Message /\ m.tag # "steer"
    BY <2>3, MessageTypes, EmptySeq DEF ReplyMessage
  <2>1. PICK more : more = << m >>
    OBVIOUS
  <2>2. more \in Seq(Message) /\ \A i \in DOMAIN more : more[i].tag # "steer"
    BY <2>1, <2>4
  <2> QED
    BY <1>1, <1>4, <2>1, <2>2, <2>3, SteersSame DEF Concludes
<1>5. ASSUME NEW calls \in CallLists, UNCHANGED steering, Rejects(calls) \/ Takes(calls)
      PROVE  SteersCounted'
  <2>1. /\ ReplyMessage(calls) \in Message /\ ReplyMessage(calls).tag # "steer"
        /\ GuardMessage \in Message /\ GuardMessage.tag # "steer"
    BY MessageTypes, AgentAssumption DEF ReplyMessage, GuardMessage
  <2>2. PICK more : /\ Transcript' = Transcript \o more
                    /\ \/ more = << ReplyMessage(calls), GuardMessage >>
                       \/ more = << ReplyMessage(calls) >>
    BY <1>5 DEF Rejects, Takes
  <2>3. more \in Seq(Message) /\ \A i \in DOMAIN more : more[i].tag # "steer"
    BY <2>1, <2>2
  <2> QED
    BY <1>1, <1>5, <2>2, <2>3, SteersSame
<1>6. ASSUME NEW tag \in ToolTags, UNCHANGED steering, Replies(tag)
      PROVE  SteersCounted'
  <2>1. Head(run.queue) \in Call
    BY <1>6, HeadTailProperties DEF Replies, TypeOK, Locals
  <2>2. PICK m : m = ToolMessage(Head(run.queue), tag)
    OBVIOUS
  <2>3. m \in Message /\ m.tag # "steer"
    BY <2>1, <2>2, MessageTypes DEF ToolMessage, ToolTags
  <2>4. << m >> \in Seq(Message) /\ \A i \in DOMAIN << m >> : << m >>[i].tag # "steer"
    BY <2>3
  <2> QED
    BY <1>1, <1>6, <2>2, <2>4, SteersSame DEF Replies
<1> QED
  BY <1>2, <1>3, <1>4, <1>5, <1>6, AgentSays

LEMMA SteersHost ==
  ASSUME TypeOK, SteersCounted, HostStep
  PROVE  SteersCounted'
<1>1. /\ Transcript \in Seq(Message) /\ steering \in Seq(Message) /\ count.steers \in Nat
      /\ conversation \in Seq(Message)
  BY DEF Transcript, TypeOK, Locals
<1>2. CASE /\ UNCHANGED << steering, forgotten, count.steers >>
           /\ Transcript' = Transcript \o << UserMessage("prompt", count'.runs) >>
           /\ count'.runs \in Nat
  <2>1. PICK m : m = UserMessage("prompt", count'.runs)
    OBVIOUS
  <2>2. m \in Message /\ m.tag # "steer"
    BY <1>2, <2>1, MessageTypes DEF UserMessage
  <2>3. << m >> \in Seq(Message) /\ \A i \in DOMAIN << m >> : << m >>[i].tag # "steer"
    BY <2>2
  <2> QED
    BY <1>2, <2>1, <2>3, SteersSame
<1>3. CASE UNCHANGED << Transcript, steering, forgotten, count.steers >>
  BY <1>3 DEF SteersCounted
<1>4. CASE Steer /\ UNCHANGED << Transcript, forgotten >>
  <2>1. PICK n \in Nat : n = count.steers + 1
    BY <1>1
  <2>2. count' = [count EXCEPT !.steers = n] /\ count \in [runs : Nat, steers : Nat, foreign : Nat]
    BY <1>4, <2>1 DEF Steer, TypeOK
  <2>3. PICK m : m = UserMessage("steer", n)
    OBVIOUS
  <2>4. m \in Message /\ m.tag = "steer" /\ m.n = n
    BY <2>1, <2>3, MessageTypes DEF UserMessage
  <2>5. count'.steers = n
    BY <2>2
  <2>6. steering' = steering \o << m >>
    BY <1>1, <1>4, <2>3, <2>4, <2>5, AppendIsConcat DEF Steer
  <2>7. << m >> \in Seq(Message) /\ SteersIn(<< m >>) = {n} /\ SteersRise(<< m >>)
    BY <2>4 DEF SteersIn, SteersRise
  <2>8. \A a \in SteersIn(Transcript) \cup SteersIn(steering) : a < n
    BY <1>1, <2>1 DEF SteersCounted
  <2>9. SteersIn(steering') = SteersIn(steering) \cup {n} /\ SteersRise(steering')
    BY <1>1, <2>6, <2>7, <2>8, SteersInConcat, SteersRiseConcat DEF SteersCounted
  <2>10. /\ SteersIn(Transcript) \cup SteersIn(steering) \cup {n} \subseteq 0 .. n
         /\ 1 .. n \subseteq forgotten \cup SteersIn(Transcript) \cup SteersIn(steering) \cup {n}
    BY <1>1, <2>1 DEF SteersCounted
  <2> QED
    BY <1>4, <2>5, <2>8, <2>9, <2>10 DEF SteersCounted
<1>5. CASE Reset \/ SetHistory(<< >>)
  <2>1. /\ count' = count
        /\ \/ Transcript' = Transcript
           \/ Transcript' = << >> /\ SteersIn(Transcript) \subseteq forgotten'
    BY <1>5 DEF Reset, SetHistory, Transcript, Running
  <2>2. \/ steering' = steering
        \/ steering' = << >> /\ SteersIn(steering) \subseteq forgotten'
    BY <1>5 DEF Reset, SetHistory
  <2>3. forgotten \subseteq forgotten'
    BY <1>5 DEF Reset, SetHistory
  <2> QED
    BY <2>1, <2>2, <2>3, NoSteers DEF SteersCounted
<1> QED
  BY <1>2, <1>3, <1>4, <1>5, HostSays

\* However steers, runs, failures, aborts, resets and new histories follow one another, a steer
\* text that no reset and no new history discarded is in the transcript or queued for the next
\* turn, once and in the order the texts came (agent.ts 158-161, 200-203, 330).
THEOREM SteersAlwaysKept == Spec => []SteersKept
<1>1. Init => SteersCounted
  <2> SUFFICES ASSUME Init PROVE SteersCounted
    OBVIOUS
  <2>1. Transcript = << >> /\ steering = << >> /\ count.steers = 0
    BY DEF Init, Transcript, Running
  <2> QED
    BY <2>1, NoSteers DEF SteersCounted
<1>2. TypeOK /\ SteersCounted /\ [Next]_vars => SteersCounted'
  <2>1. SteersCounted /\ UNCHANGED vars => SteersCounted'
    BY DEF SteersCounted, Transcript, Running, vars
  <2> QED
    BY <2>1, SteersAgent, SteersHost DEF Next
<1>3. TypeOK /\ SteersCounted => SteersKept
  <2> SUFFICES ASSUME TypeOK, SteersCounted PROVE SteersKept
    OBVIOUS
  <2>1. Transcript \in Seq(Message) /\ steering \in Seq(Message)
    BY DEF Transcript, TypeOK, Locals
  <2>2. /\ SteersIn(Transcript \o steering) = SteersIn(Transcript) \cup SteersIn(steering)
        /\ SteersRise(Transcript \o steering)
    BY <2>1, SteersInConcat, SteersRiseConcat DEF SteersCounted
  <2> QED
    BY <2>2 DEF SteersKept, SteersCounted
<1> QED
  BY <1>1, <1>2, <1>3, TypeCorrect, PTL DEF Spec

-------------------------------------------------------------------------------
(* Answers *)

\* The k messages after i are tool messages; no further one follows; they answer the first k
\* calls of the reply at i; and nothing keeps the turn from ending there.
Tools(ms, i, k) == k \in Nat /\ i + k <= Len(ms) /\ \A p \in i + 1 .. i + k : IsTool(ms[p])
Stops(ms, i, k) == i + k < Len(ms) => ~ IsTool(ms[i + k + 1])
InOrder(ms, i, k) ==
  /\ k <= Len(ms[i].calls)
  /\ \A p \in i + 1 .. i + k : ms[p].calls = << ms[i].calls[p - i] >>
Over(ms, i, k) ==
  \/ Len(ms[i].calls) > MaxToolCallsPerTurn /\ k = 1 /\ ms[i + 1] = GuardMessage
  \/ /\ InOrder(ms, i, k)
     /\ \/ k = Len(ms[i].calls)
        \/ k > 0 /\ ms[i + k].tag = "limit"
        \/ i + k < Len(ms) /\ ms[i + k + 1].tag = "prompt"

\* The calls of the reply at i are answered as far as they ever will be; they are being
\* answered, and the calls in `rest` are still to be.
Closed(ms, i) == \E k : Tools(ms, i, k) /\ Stops(ms, i, k) /\ Over(ms, i, k)
Open(ms, i, rest) ==
  \E k : /\ Tools(ms, i, k) /\ InOrder(ms, i, k) /\ i + k = Len(ms)
         /\ Len(ms[i].calls) = k + Len(rest)
         /\ \A j \in DOMAIN rest : rest[j] = ms[i].calls[k + j]

\* All replies of a transcript are closed; all but the one that is answered now; all but those
\* after which a run ended.
AllClosed(ms) == \A i \in DOMAIN ms : ms[i].tag = "reply" => Closed(ms, i)
OneOpen(ms, rest) ==
  \E o \in DOMAIN ms :
    /\ ms[o].tag = "reply" /\ Open(ms, o, rest)
    /\ \A i \in DOMAIN ms : ms[i].tag = "reply" /\ i # o => Closed(ms, i)
AllLeft(ms) ==
  \A i \in DOMAIN ms : ms[i].tag = "reply" => Closed(ms, i) \/ \E rest \in Seq(Call) : Open(ms, i, rest)

Answerable == ToolTags \cup {"reply"}
ToolsFollow(ms) ==
  \A i \in DOMAIN ms :
    IsTool(ms[i]) => \E p \in DOMAIN ms : i = p + 1 /\ ms[p].tag \in Answerable

\* A closed reply stays closed under what does not continue its answers.
LEMMA ClosedStays ==
  ASSUME NEW ms \in Seq(Message), NEW more \in Seq(Message), NEW i \in DOMAIN ms, Closed(ms, i),
         \/ \A l \in DOMAIN more : l = 1 => ~ IsTool(more[l])
         \/ \E o \in i + 1 .. Len(ms) : ~ IsTool(ms[o])
  PROVE  Closed(ms \o more, i)
<1>1. PICK both, m, n : both = ms \o more /\ Joins(both, ms, more, m, n)
  BY ConcatPlaces
<1>2. /\ m \in Nat /\ n \in Nat /\ Len(ms) = m /\ Len(both) = m + n /\ DOMAIN more = 1 .. n
      /\ i \in 1 .. m /\ both[i] = ms[i]
      /\ \A p \in 1 .. m : both[p] = ms[p]
  BY <1>1 DEF Joins
<1>3. PICK k : Tools(ms, i, k) /\ Stops(ms, i, k) /\ Over(ms, i, k)
  BY DEF Closed
<1>4. k \in Nat /\ i + k <= m
  BY <1>2, <1>3 DEF Tools
<1>5. \A p \in i + 1 .. i + k : both[p] = ms[p] /\ IsTool(both[p])
  <2> SUFFICES ASSUME NEW p \in i + 1 .. i + k
               PROVE  both[p] = ms[p] /\ IsTool(both[p])
    OBVIOUS
  <2>1. p \in 1 .. m /\ IsTool(ms[p])
    BY <1>2, <1>3, <1>4 DEF Tools
  <2> QED
    BY <1>2, <2>1
<1>6. Tools(both, i, k)
  <2>1. i + k <= Len(both)
    BY <1>2, <1>4
  <2> QED
    BY <1>4, <1>5, <2>1 DEF Tools
<1>7. PICK next : next = i + k + 1
  OBVIOUS
<1>8. i + k < m => next \in 1 .. m /\ both[next] = ms[next]
  BY <1>2, <1>4, <1>7
<1>9. Stops(both, i, k)
  <2>1. CASE i + k < m
    BY <1>2, <1>3, <1>7, <1>8, <2>1 DEF Stops
  <2>2. CASE i + k = m /\ n > 0
    <3>1. \A o \in i + 1 .. m : IsTool(ms[o])
      BY <1>3, <2>2 DEF Tools
    <3>2. ~ IsTool(more[1]) /\ 1 \in 1 .. n
      BY <1>2, <2>2, <3>1
    <3>3. PICK p \in 1 .. m + n : p = m + 1 /\ both[p] = more[1]
      BY <1>1, <3>2 DEF Joins
    <3>4. i + k + 1 = p
      BY <1>2, <2>2, <3>3
    <3> QED
      BY <3>2, <3>3, <3>4 DEF Stops
  <2>3. CASE i + k = m /\ n = 0
    BY <1>2, <2>3 DEF Stops
  <2>6. i \in Nat /\ k \in Nat /\ m \in Nat /\ i + k <= m
    BY <1>2, <1>4
  <2>4. i + k < m \/ i + k = m
    BY <2>6
  <2>5. n > 0 \/ n = 0
    BY <1>2
  <2> QED
    BY <2>1, <2>2, <2>3, <2>4, <2>5
<1>10. InOrder(ms, i, k) => InOrder(both, i, k)
  BY <1>2, <1>5 DEF InOrder
<1>11. k > 0 => both[i + k] = ms[i + k]
  BY <1>2, <1>4, <1>5
<1>12. k = 1 => both[i + 1] = ms[i + 1]
  BY <1>2, <1>4, <1>5
<1>13. Over(both, i, k)
  <2>1. CASE Len(ms[i].calls) > MaxToolCallsPerTurn /\ k = 1 /\ ms[i + 1] = GuardMessage
    BY <1>2, <1>12, <2>1 DEF Over
  <2>2. CASE InOrder(ms, i, k) /\ k = Len(ms[i].calls)
    BY <1>2, <1>10, <2>2 DEF Over
  <2>3. CASE InOrder(ms, i, k) /\ k > 0 /\ ms[i + k].tag = "limit"
    BY <1>10, <1>11, <2>3 DEF Over
  <2>4. CASE InOrder(ms, i, k) /\ i + k < Len(ms) /\ ms[i + k + 1].tag = "prompt"
    <3>1. i + k < Len(both) /\ both[i + k + 1].tag = "prompt"
      BY <1>2, <1>4, <1>7, <1>8, <2>4
    <3> QED
      BY <1>10, <2>4, <3>1 DEF Over
  <2> QED
    BY <1>3, <2>1, <2>2, <2>3, <2>4 DEF Over
<1> QED
  BY <1>1, <1>6, <1>9, <1>13 DEF Closed

\* `both` is `ms`, which is l long, with m at its last position.
Adds(both, ms, m, l, last) ==
  /\ both \in Seq(Message) /\ l \in Nat /\ Len(ms) = l /\ last = l + 1 /\ last \in Nat
  /\ DOMAIN ms = 1 .. l /\ DOMAIN both = 1 .. last /\ Len(both) = last /\ both[last] = m
  /\ \A p \in 1 .. l : p \in 1 .. last /\ both[p] = ms[p]
  /\ \A p \in 1 .. last : p \in 1 .. l \/ p = last

LEMMA AddPlaces ==
  ASSUME NEW ms \in Seq(Message), NEW m \in Message
  PROVE  \E both, l, last : both = ms \o << m >> /\ Adds(both, ms, m, l, last)
<1>1. PICK both, l, last : both = ms \o << m >> /\ l = Len(ms) /\ last = Len(ms) + 1
  OBVIOUS
<1>2. both = Append(ms, m)
  BY <1>1, AppendIsConcat
<1>3. l \in Nat /\ DOMAIN ms = 1 .. l
  BY <1>1, LenProperties
<1>4. /\ both \in Seq(Message) /\ Len(both) = last /\ both[last] = m
      /\ \A p \in 1 .. l : both[p] = ms[p]
  BY <1>1, <1>2, AppendProperties
<1>5. last \in Nat /\ DOMAIN both = 1 .. last
  BY <1>1, <1>3, <1>4, LenProperties
<1>6. \A p \in 1 .. l : p \in 1 .. last
  BY <1>1, <1>3
<1>7. \A p \in 1 .. last : p \in 1 .. l \/ p = last
  BY <1>1, <1>3
<1>8. Adds(both, ms, m, l, last)
  BY <1>1, <1>3, <1>4, <1>5, <1>6, <1>7 DEF Adds
<1> QED
  BY <1>1, <1>8

\* A prompt closes a reply that a run left unanswered.
LEMMA PromptCloses ==
  ASSUME NEW ms \in Seq(Message), NEW m \in Message, m.tag = "prompt",
         NEW i \in DOMAIN ms, NEW rest, Open(ms, i, rest)
  PROVE  Closed(ms \o << m >>, i)
<1>1. PICK both, l, last : both = ms \o << m >> /\ Adds(both, ms, m, l, last)
  BY AddPlaces
<1>3. /\ l \in Nat /\ Len(ms) = l /\ i \in 1 .. l /\ both[i] = ms[i]
      /\ \A p \in 1 .. l : both[p] = ms[p]
      /\ last = l + 1 /\ both[last] = m /\ Len(both) = last
  BY <1>1 DEF Adds
<1>5. PICK k : /\ Tools(ms, i, k) /\ InOrder(ms, i, k) /\ i + k = l
  BY <1>3 DEF Open
<1>6. k \in Nat /\ \A p \in i + 1 .. i + k : IsTool(ms[p]) /\ both[p] = ms[p]
  BY <1>3, <1>5 DEF Tools
<1>7. Tools(both, i, k) /\ InOrder(both, i, k)
  BY <1>3, <1>5, <1>6 DEF Tools, InOrder
<1>8. i + k < Len(both) /\ both[i + k + 1].tag = "prompt" /\ ~ IsTool(both[i + k + 1])
  BY <1>3, <1>5, <1>6 DEF IsTool, ToolTags
<1> QED
  BY <1>1, <1>7, <1>8 DEF Closed, Stops, Over

\* The answer to the first of the remaining calls.
LEMMA AnswerOpens ==
  ASSUME NEW ms \in Seq(Message), NEW i \in DOMAIN ms, NEW rest \in Seq(Call), rest # << >>,
         Open(ms, i, rest), NEW tag \in ToolTags,
         NEW m \in Message, m = ToolMessage(Head(rest), tag)
  PROVE  /\ Open(ms \o << m >>, i, Tail(rest))
         /\ tag = "limit" => Closed(ms \o << m >>, i)
<1>1. PICK both, l, last : both = ms \o << m >> /\ Adds(both, ms, m, l, last)
  BY AddPlaces
<1>3. /\ l \in Nat /\ Len(ms) = l /\ i \in 1 .. l /\ both[i] = ms[i]
      /\ \A p \in 1 .. l : both[p] = ms[p]
      /\ last = l + 1 /\ both[last] = m /\ Len(both) = last
  BY <1>1 DEF Adds
<1>5. PICK k : /\ Tools(ms, i, k) /\ InOrder(ms, i, k) /\ i + k = l
               /\ Len(ms[i].calls) = k + Len(rest)
               /\ \A j \in DOMAIN rest : rest[j] = ms[i].calls[k + j]
  BY <1>3 DEF Open
<1>6. k \in Nat
  BY <1>5 DEF Tools
<1>7. PICK r \in Nat : r = Len(rest) /\ r # 0 /\ DOMAIN rest = 1 .. r
  BY LenProperties, EmptySeq
<1>8. PICK tail : tail = Tail(rest)
  OBVIOUS
<1>9. Len(tail) = r - 1 /\ tail \in Seq(Call) /\ \A j \in 1 .. Len(tail) : tail[j] = rest[j + 1]
  BY <1>7, <1>8, HeadTailProperties
<1>10. DOMAIN tail = 1 .. r - 1
  BY <1>9, LenProperties
<1>11. Head(rest) = rest[1] /\ m.calls = << rest[1] >> /\ IsTool(m) /\ m.tag = tag
  BY <1>7, HeadTailProperties DEF ToolMessage, IsTool
<1>2. PICK k1 : k1 = k + 1
  OBVIOUS
<1>12. k1 \in Nat /\ k1 = k + 1
  BY <1>2, <1>6
<1>13. i + k1 = last /\ rest[1] = ms[i].calls[k1]
  <2>1. i \in Nat /\ k \in Nat /\ l \in Nat /\ i + k = l /\ last = l + 1 /\ k1 = k + 1
    BY <1>3, <1>5, <1>6, <1>12
  <2>2. i + k1 = last
    BY <2>1
  <2>3. 1 \in DOMAIN rest
    BY <1>7
  <2> QED
    BY <1>5, <1>12, <2>2, <2>3
<1>14. \A p \in i + 1 .. i + k1 : p = last \/ (p \in i + 1 .. i + k /\ p \in 1 .. l)
  BY <1>3, <1>5, <1>6, <1>12
<1>15. Tools(both, i, k1)
  BY <1>3, <1>5, <1>11, <1>12, <1>13, <1>14 DEF Tools
<1>16. InOrder(both, i, k1)
  <2>1. k1 <= Len(both[i].calls)
    BY <1>3, <1>5, <1>6, <1>7, <1>12
  <2>2. ASSUME NEW p \in i + 1 .. i + k1
        PROVE  both[p].calls = << both[i].calls[p - i] >>
    <3>1. CASE p = last
      <4>1. p - i = k1
        BY <1>3, <1>5, <1>6, <1>12, <3>1
      <4> QED
        BY <1>3, <1>11, <1>13, <3>1, <4>1
    <3>2. CASE p \in i + 1 .. i + k /\ p \in 1 .. l
      BY <1>3, <1>5, <3>2 DEF InOrder
    <3> QED
      BY <1>14, <2>2, <3>1, <3>2
  <2> QED
    BY <2>1, <2>2 DEF InOrder
<1>17. Len(both[i].calls) = k1 + Len(tail)
  BY <1>3, <1>5, <1>6, <1>7, <1>9, <1>12
<1>18. ASSUME NEW j \in DOMAIN tail
       PROVE  tail[j] = both[i].calls[k1 + j]
  <2>3. j \in 1 .. r - 1 /\ r \in Nat /\ k \in Nat /\ k1 = k + 1
    BY <1>6, <1>7, <1>10, <1>12
  <2>4. j + 1 \in 1 .. r /\ k + (j + 1) = k1 + j
    BY <2>3
  <2>1. j \in 1 .. Len(tail) /\ j + 1 \in 1 .. r /\ k + (j + 1) = k1 + j
    BY <1>9, <2>3, <2>4
  <2>2. tail[j] = rest[j + 1] /\ rest[j + 1] = ms[i].calls[k + (j + 1)]
    BY <1>5, <1>7, <1>9, <2>1
  <2> QED
    BY <1>3, <2>1, <2>2
<1>19. Open(both, i, tail)
  BY <1>3, <1>13, <1>15, <1>16, <1>17, <1>18 DEF Open
<1>20. ASSUME tag = "limit" PROVE Closed(both, i)
  <2>1. Stops(both, i, k1)
    BY <1>3, <1>13 DEF Stops
  <2>2. k1 > 0 /\ both[i + k1].tag = "limit"
    BY <1>3, <1>6, <1>11, <1>12, <1>13, <1>20
  <2> QED
    BY <1>15, <1>16, <2>1, <2>2 DEF Closed, Over
<1> QED
  BY <1>1, <1>8, <1>19, <1>20

\* The tool messages are those from the reply on to the end.
LEMMA OpenIsLast ==
  ASSUME NEW ms \in Seq(Message), NEW i \in DOMAIN ms, NEW rest, Open(ms, i, rest),
         NEW o \in DOMAIN ms, ms[o].tag = "reply"
  PROVE  o <= i
<1>1. PICK k : Tools(ms, i, k) /\ i + k = Len(ms)
  BY DEF Open
<1>2. DOMAIN ms = 1 .. Len(ms) /\ Len(ms) \in Nat
  BY LenProperties
<1>3. SUFFICES ASSUME i < o PROVE FALSE
  BY <1>2
<1>4. o \in i + 1 .. i + k
  BY <1>1, <1>2, <1>3 DEF Tools
<1> QED
  BY <1>1, <1>4 DEF Tools, IsTool, ToolTags

LEMMA OpenEmptyCloses ==
  ASSUME NEW ms \in Seq(Message), NEW i, Open(ms, i, << >>)
  PROVE  Closed(ms, i)
<1>1. PICK k : /\ Tools(ms, i, k) /\ InOrder(ms, i, k) /\ i + k = Len(ms)
               /\ Len(ms[i].calls) = k + Len(<< >>)
  BY DEF Open
<1>2. k \in Nat /\ Len(<< >>) = 0 /\ Len(ms) \in Nat
  BY <1>1, LenProperties DEF Tools
<1>3. k = Len(ms[i].calls) /\ Stops(ms, i, k)
  BY <1>1, <1>2 DEF Stops
<1> QED
  BY <1>1, <1>3 DEF Closed, Over

LEMMA AllAnswered ==
  ASSUME NEW ms \in Seq(Message), OneOpen(ms, << >>)
  PROVE  AllClosed(ms)
BY OpenEmptyCloses DEF OneOpen, AllClosed

LEMMA AnyLeft ==
  ASSUME NEW ms \in Seq(Message), NEW rest \in Seq(Call), AllClosed(ms) \/ OneOpen(ms, rest)
  PROVE  AllLeft(ms)
BY DEF AllClosed, OneOpen, AllLeft

\* Messages that are no replies and do not begin with an answer.
LEMMA OthersSaid ==
  ASSUME NEW ms \in Seq(Message), AllClosed(ms), NEW more \in Seq(Message),
         \A l \in DOMAIN more : more[l].tag # "reply" /\ ~ IsTool(more[l])
  PROVE  AllClosed(ms \o more)
<1>1. PICK both, m, n : both = ms \o more /\ Joins(both, ms, more, m, n)
  BY ConcatPlaces
<1>2. ASSUME NEW i \in DOMAIN both, both[i].tag = "reply"
      PROVE  Closed(both, i)
  <2>1. (i \in DOMAIN ms /\ both[i] = ms[i]) \/ \E l \in DOMAIN more : both[i] = more[l]
    BY <1>1 DEF Joins
  <2>2. i \in DOMAIN ms /\ ms[i].tag = "reply"
    BY <1>2, <2>1
  <2>3. Closed(ms, i)
    BY <2>2 DEF AllClosed
  <2>4. \A l \in DOMAIN more : l = 1 => ~ IsTool(more[l])
    OBVIOUS
  <2> QED
    BY <1>1, <2>2, <2>3, <2>4, ClosedStays
<1> QED
  BY <1>1, <1>2 DEF AllClosed

LEMMA PromptSaid ==
  ASSUME NEW ms \in Seq(Message), AllLeft(ms), NEW m \in Message, m.tag = "prompt"
  PROVE  AllClosed(ms \o << m >>)
<1>1. PICK both, l, last : both = ms \o << m >> /\ Adds(both, ms, m, l, last)
  BY AddPlaces
<1>2. << m >> \in Seq(Message) /\ \A k \in DOMAIN << m >> : k = 1 => ~ IsTool(<< m >>[k])
  BY DEF IsTool, ToolTags
<1>3. ASSUME NEW i \in DOMAIN both, both[i].tag = "reply"
      PROVE  Closed(both, i)
  <2>1. i \in DOMAIN ms /\ ms[i].tag = "reply"
    BY <1>1, <1>3 DEF Adds
  <2>2. CASE Closed(ms, i)
    BY <1>1, <1>2, <2>1, <2>2, ClosedStays
  <2>3. CASE \E rest \in Seq(Call) : Open(ms, i, rest)
    BY <1>1, <2>1, <2>3, PromptCloses
  <2> QED
    BY <2>1, <2>2, <2>3 DEF AllLeft
<1> QED
  BY <1>1, <1>3 DEF AllClosed

LEMMA ReplySaid ==
  ASSUME NEW ms \in Seq(Message), AllClosed(ms), NEW calls \in Seq(Call)
  PROVE  OneOpen(ms \o << ReplyMessage(calls) >>, calls)
<1>1. PICK m : m = ReplyMessage(calls)
  OBVIOUS
<1>2. m \in Message /\ m.tag = "reply" /\ m.calls = calls /\ ~ IsTool(m)
  BY <1>1, MessageTypes DEF ReplyMessage, IsTool, ToolTags
<1>3. PICK both, l, last : both = ms \o << m >> /\ Adds(both, ms, m, l, last)
  BY <1>2, AddPlaces
<1>4. << m >> \in Seq(Message) /\ \A k \in DOMAIN << m >> : k = 1 => ~ IsTool(<< m >>[k])
  BY <1>2
<1>5. Open(both, last, calls)
  <2>1. last \in Nat /\ Len(both) = last /\ both[last].calls = calls /\ last + 0 = last
    BY <1>2, <1>3 DEF Adds
  <2>2. Len(calls) \in Nat /\ DOMAIN calls = 1 .. Len(calls)
    BY LenProperties
  <2>3. \A p \in last + 1 .. last + 0 : FALSE
    BY <2>1
  <2>4. Tools(both, last, 0) /\ InOrder(both, last, 0)
    BY <2>1, <2>2, <2>3 DEF Tools, InOrder
  <2>5. Len(both[last].calls) = 0 + Len(calls) /\ \A j \in DOMAIN calls : calls[j] = both[last].calls[0 + j]
    BY <2>1, <2>2
  <2> QED
    BY <2>1, <2>4, <2>5 DEF Open
<1>6. ASSUME NEW i \in DOMAIN both, both[i].tag = "reply", i # last
      PROVE  Closed(both, i)
  <2>1. i \in DOMAIN ms /\ ms[i].tag = "reply"
    BY <1>3, <1>6 DEF Adds
  <2>2. Closed(ms, i)
    BY <2>1 DEF AllClosed
  <2> QED
    BY <1>3, <1>4, <2>1, <2>2, ClosedStays
<1>7. last \in DOMAIN both /\ both[last].tag = "reply"
  BY <1>2, <1>3 DEF Adds
<1> QED
  BY <1>1, <1>3, <1>5, <1>6, <1>7 DEF OneOpen

LEMMA GuardSaid ==
  ASSUME NEW ms \in Seq(Message), AllClosed(ms), NEW calls \in Seq(Call),
         Len(calls) > MaxToolCallsPerTurn
  PROVE  AllClosed(ms \o << ReplyMessage(calls), GuardMessage >>)
<1>1. PICK more : more = << ReplyMessage(calls), GuardMessage >>
  OBVIOUS
<1>2. /\ ReplyMessage(calls) \in Message /\ ReplyMessage(calls).tag = "reply"
      /\ ReplyMessage(calls).calls = calls /\ ~ IsTool(ReplyMessage(calls))
      /\ GuardMessage \in Message /\ GuardMessage.tag = "guard" /\ IsTool(GuardMessage)
  BY MessageTypes DEF ReplyMessage, GuardMessage, IsTool, ToolTags
<1>3. /\ more \in Seq(Message) /\ Len(more) = 2 /\ DOMAIN more = 1 .. 2
      /\ more[1] = ReplyMessage(calls) /\ more[2] = GuardMessage
  BY <1>1, <1>2
<1>4. PICK both, m, n : both = ms \o more /\ Joins(both, ms, more, m, n)
  BY <1>3, ConcatPlaces
<1>5. m \in Nat /\ DOMAIN ms = 1 .. m /\ n \in Nat /\ DOMAIN both = 1 .. m + n /\ Len(both) = m + n
  BY <1>4 DEF Joins
<1>6. n = 2
  BY <1>3, <1>4 DEF Joins
<1>7. both[m + 1] = ReplyMessage(calls) /\ both[m + 2] = GuardMessage
  <2>1. 1 \in 1 .. n /\ 2 \in 1 .. n
    BY <1>6
  <2>2. \A k \in 1 .. n : \E i \in 1 .. m + n : i = m + k /\ both[i] = more[k]
    BY <1>4 DEF Joins
  <2>3. \E i \in 1 .. m + n : i = m + 1 /\ both[i] = more[1]
    BY <2>1, <2>2
  <2>4. \E i \in 1 .. m + n : i = m + 2 /\ both[i] = more[2]
    BY <2>1, <2>2
  <2> QED
    BY <1>3, <2>3, <2>4
<1>8. Closed(both, m + 1)
  <2>1. PICK o : o = m + 1
    OBVIOUS
  <2>2. o \in Nat /\ o + 1 = m + 2 /\ Len(both) = o + 1 /\ \A p \in o + 1 .. o + 1 : p = m + 2
    BY <1>5, <1>6, <2>1
  <2>3. Tools(both, o, 1)
    BY <1>2, <1>7, <2>2 DEF Tools
  <2>4. Stops(both, o, 1)
    BY <2>2 DEF Stops
  <2>5. Over(both, o, 1)
    BY <1>2, <1>7, <2>1, <2>2 DEF Over
  <2> QED
    BY <2>1, <2>3, <2>4, <2>5 DEF Closed
<1>9. ASSUME NEW i \in DOMAIN both, both[i].tag = "reply", i # m + 1
      PROVE  Closed(both, i)
  <2>1. i \in 1 .. m \/ i = m + 1 \/ i = m + 2
    BY <1>5, <1>6
  <2>2. i \in DOMAIN ms /\ ms[i].tag = "reply"
    BY <1>2, <1>4, <1>5, <1>7, <1>9, <2>1 DEF Joins
  <2>3. Closed(ms, i)
    BY <2>2 DEF AllClosed
  <2>4. \A l \in DOMAIN more : l = 1 => ~ IsTool(more[l])
    BY <1>2, <1>3
  <2> QED
    BY <1>3, <1>4, <2>2, <2>3, <2>4, ClosedStays
<1> QED
  BY <1>1, <1>4, <1>8, <1>9 DEF AllClosed

LEMMA AnswerSaid ==
  ASSUME NEW ms \in Seq(Message), NEW rest \in Seq(Call), rest # << >>, OneOpen(ms, rest),
         NEW tag \in ToolTags
  PROVE  /\ OneOpen(ms \o << ToolMessage(Head(rest), tag) >>, Tail(rest))
         /\ tag = "limit" => AllClosed(ms \o << ToolMessage(Head(rest), tag) >>)
<1>1. PICK m : m = ToolMessage(Head(rest), tag)
  OBVIOUS
<1>2. m \in Message /\ m.tag # "reply"
  <2>1. Head(rest) \in Call
    BY HeadTailProperties
  <2> QED
    BY <1>1, <2>1, MessageTypes DEF ToolMessage, ToolTags
<1>3. PICK both, l, last : both = ms \o << m >> /\ Adds(both, ms, m, l, last)
  BY <1>2, AddPlaces
<1>4. PICK o \in DOMAIN ms :
        /\ ms[o].tag = "reply" /\ Open(ms, o, rest)
        /\ \A i \in DOMAIN ms : ms[i].tag = "reply" /\ i # o => Closed(ms, i)
  BY DEF OneOpen
<1>5. Open(both, o, Tail(rest)) /\ (tag = "limit" => Closed(both, o))
  BY <1>1, <1>2, <1>3, <1>4, AnswerOpens
<1>6. ASSUME NEW i \in DOMAIN both, both[i].tag = "reply", i # o
      PROVE  Closed(both, i)
  <2>1. i \in DOMAIN ms /\ ms[i].tag = "reply"
    BY <1>2, <1>3, <1>6 DEF Adds
  <2>2. Closed(ms, i)
    BY <1>4, <1>6, <2>1
  <2>3. i <= o
    BY <1>4, <2>1, OpenIsLast
  <2>4. o \in i + 1 .. Len(ms) /\ ~ IsTool(ms[o])
    <3>1. i \in 1 .. l /\ o \in 1 .. l /\ l \in Nat /\ Len(ms) = l
      BY <1>3, <1>4, <2>1 DEF Adds
    <3>2. o \in i + 1 .. l
      BY <1>6, <2>3, <3>1
    <3> QED
      BY <1>4, <3>1, <3>2 DEF IsTool, ToolTags
  <2>5. << m >> \in Seq(Message)
    BY <1>2
  <2> QED
    BY <1>3, <2>1, <2>2, <2>4, <2>5, ClosedStays
<1>7. o \in DOMAIN both /\ both[o].tag = "reply"
  BY <1>3, <1>4 DEF Adds
<1>8. OneOpen(both, Tail(rest))
  BY <1>5, <1>6, <1>7 DEF OneOpen
<1>9. tag = "limit" => AllClosed(both)
  BY <1>5, <1>6 DEF AllClosed
<1> QED
  BY <1>1, <1>3, <1>8, <1>9

LEMMA FollowConcat ==
  ASSUME NEW ms \in Seq(Message), ToolsFollow(ms), NEW more \in Seq(Message),
         \A l \in DOMAIN more : IsTool(more[l]) =>
           \/ l = 1 /\ \E p \in DOMAIN ms : p = Len(ms) /\ ms[p].tag \in Answerable
           \/ \E q \in DOMAIN more : l = q + 1 /\ more[q].tag \in Answerable
  PROVE  ToolsFollow(ms \o more)
<1>1. PICK both, m, n : both = ms \o more /\ Joins(both, ms, more, m, n)
  BY ConcatPlaces
<1>2. /\ m \in Nat /\ n \in Nat /\ Len(ms) = m
      /\ DOMAIN ms = 1 .. m /\ DOMAIN more = 1 .. n /\ DOMAIN both = 1 .. m + n
      /\ \A i \in 1 .. m : i \in 1 .. m + n /\ both[i] = ms[i]
      /\ \A k \in 1 .. n : \E i \in 1 .. m + n : i = m + k /\ both[i] = more[k]
      /\ \A i \in 1 .. m + n : i \in 1 .. m \/ \E k \in 1 .. n : i = m + k /\ both[i] = more[k]
  BY <1>1 DEF Joins
<1>3. ASSUME NEW i \in 1 .. m + n, IsTool(both[i])
      PROVE  \E p \in 1 .. m + n : i = p + 1 /\ both[p].tag \in Answerable
  <2>1. CASE i \in 1 .. m
    <3>1. PICK p \in 1 .. m : i = p + 1 /\ ms[p].tag \in Answerable
      BY <1>2, <1>3, <2>1 DEF ToolsFollow
    <3> QED
      BY <1>2, <3>1
  <2>2. CASE \E k \in 1 .. n : i = m + k /\ both[i] = more[k]
    <3>1. PICK k \in 1 .. n : i = m + k /\ both[i] = more[k]
      BY <2>2
    <3>2. CASE k = 1 /\ \E p \in DOMAIN ms : p = Len(ms) /\ ms[p].tag \in Answerable
      BY <1>2, <3>1, <3>2
    <3>3. CASE \E q \in DOMAIN more : k = q + 1 /\ more[q].tag \in Answerable
      <4>1. PICK q \in 1 .. n : k = q + 1 /\ more[q].tag \in Answerable
        BY <1>2, <3>3
      <4>2. PICK p \in 1 .. m + n : p = m + q /\ both[p] = more[q]
        BY <1>2
      <4>3. i = p + 1
        BY <1>2, <3>1, <4>1, <4>2
      <4> QED
        BY <4>1, <4>2, <4>3
    <3> QED
      BY <1>2, <1>3, <3>1, <3>2, <3>3
  <2> QED
    BY <1>2, <2>1, <2>2
<1> QED
  BY <1>1, <1>2, <1>3 DEF ToolsFollow

\* RequestsAnswered is not inductive: between two requests one reply may be open, its remaining
\* calls those of the list that run() goes through, and a run that ended early leaves one.
RequestsKept ==
  /\ ToolsFollow(Transcript)
  /\ pc \in {"loop", "llm"} => AllClosed(Transcript)
  /\ pc \in Answering => OneOpen(Transcript, run.queue)
  /\ pc = "idle" => AllLeft(Transcript)
  /\ \A i \in DOMAIN steering : steering[i].tag = "steer"

\* The last message before an answer is the reply or an earlier answer.
LEMMA OpenEnd ==
  ASSUME NEW ms \in Seq(Message), NEW rest, OneOpen(ms, rest)
  PROVE  \E p \in DOMAIN ms : p = Len(ms) /\ ms[p].tag \in Answerable
<1>1. PICK o \in DOMAIN ms : ms[o].tag = "reply" /\ Open(ms, o, rest)
  BY DEF OneOpen
<1>2. PICK k : Tools(ms, o, k) /\ o + k = Len(ms)
  BY <1>1 DEF Open
<1>3. k \in Nat /\ DOMAIN ms = 1 .. Len(ms) /\ Len(ms) \in Nat
  BY <1>2, LenProperties DEF Tools
<1>4. CASE k = 0
  BY <1>1, <1>2, <1>3, <1>4 DEF Answerable
<1>5. CASE k > 0
  <2>1. o + k \in o + 1 .. o + k
    BY <1>3, <1>5
  <2>2. IsTool(ms[o + k])
    BY <1>2, <2>1 DEF Tools
  <2>3. Len(ms) \in DOMAIN ms
    BY <1>2, <1>3, <1>5
  <2> QED
    BY <1>2, <2>2, <2>3 DEF IsTool, Answerable
<1> QED
  BY <1>3, <1>4, <1>5

LEMMA RequestsAgent ==
  ASSUME TypeOK, RequestsKept, AgentStep
  PROVE  RequestsKept'
<1>1. /\ Transcript \in Seq(Message) /\ steering \in Seq(Message) /\ run.queue \in Seq(Call)
      /\ \A i \in DOMAIN steering : steering[i].tag = "steer"
      /\ ToolsFollow(Transcript)
  BY DEF RequestsKept, Transcript, TypeOK, Locals
<1>2. PICK ms, queue : ms = Transcript /\ queue = run.queue
  OBVIOUS
<1>3. ms \in Seq(Message) /\ queue \in Seq(Call) /\ ToolsFollow(ms)
  BY <1>1, <1>2
<1>4. CASE Sends
  <2>1. \A i \in DOMAIN steering : steering[i].tag # "reply" /\ ~ IsTool(steering[i])
    BY <1>1 DEF IsTool, ToolTags
  <2>2. AllClosed(ms)
    BY <1>2, <1>4 DEF RequestsKept, Sends
  <2>3. AllClosed(ms \o steering) /\ ToolsFollow(ms \o steering)
    BY <1>1, <1>3, <2>1, <2>2, OthersSaid, FollowConcat
  <2> QED
    BY <1>2, <1>4, <2>3 DEF Sends, RequestsKept, Answering
<1>5. CASE UNCHANGED steering /\ Ends
  <2>1. AllLeft(ms)
    BY <1>2, <1>3, <1>5, AnyLeft DEF Ends, Running, RequestsKept, Answering, TypeOK
  <2> QED
    BY <1>1, <1>2, <1>5, <2>1 DEF Ends, RequestsKept, Answering
<1>6. CASE UNCHANGED steering /\ Concludes
  <2>1. PICK m : m = ReplyMessage(<< >>)
    OBVIOUS
  <2>2. << >> \in Seq(Call) /\ m \in Message /\ ~ IsTool(m)
    BY <2>1, MessageTypes, EmptySeq DEF ReplyMessage, IsTool, ToolTags
  <2>3. << m >> \in Seq(Message) /\ \A l \in DOMAIN << m >> : ~ IsTool(<< m >>[l])
    BY <2>2
  <2>4. AllClosed(ms)
    BY <1>2, <1>6 DEF RequestsKept, Concludes
  <2>5. OneOpen(ms \o << m >>, << >>) /\ ms \o << m >> \in Seq(Message)
    BY <1>3, <2>1, <2>2, <2>3, <2>4, ReplySaid, ConcatProperties
  <2>6. AllLeft(ms \o << m >>) /\ ToolsFollow(ms \o << m >>)
    BY <1>3, <2>2, <2>3, <2>5, AnyLeft, FollowConcat
  <2> QED
    BY <1>1, <1>2, <1>6, <2>1, <2>6 DEF Concludes, RequestsKept, Answering
<1>7. CASE UNCHANGED steering /\ Finishes
  <2>1. OneOpen(ms, << >>)
    BY <1>2, <1>7 DEF Finishes, RequestsKept, Answering
  <2>2. AllClosed(ms)
    BY <1>3, <2>1, AllAnswered
  <2> QED
    BY <1>1, <1>2, <1>7, <2>2 DEF Finishes, RequestsKept, Answering
<1>8. CASE UNCHANGED steering /\ Waits
  <2>1. OneOpen(ms, queue)
    BY <1>2, <1>8 DEF Waits, RequestsKept
  <2> QED
    BY <1>1, <1>2, <1>8, <2>1 DEF Waits, RequestsKept, Answering
<1>9. ASSUME NEW calls \in CallLists, UNCHANGED steering, Rejects(calls)
      PROVE  RequestsKept'
  <2>1. PICK more : more = << ReplyMessage(calls), GuardMessage >>
    OBVIOUS
  <2>2. /\ ReplyMessage(calls) \in Message /\ ReplyMessage(calls).tag = "reply"
        /\ GuardMessage \in Message /\ calls \in Seq(Call)
    BY MessageTypes, AgentAssumption DEF ReplyMessage
  <2>3. more \in Seq(Message) /\ DOMAIN more = 1 .. 2 /\ more[1].tag = "reply"
    BY <2>1, <2>2
  <2>4. ASSUME NEW l \in DOMAIN more, IsTool(more[l])
        PROVE  \E q \in DOMAIN more : l = q + 1 /\ more[q].tag \in Answerable
    <3>1. l = 2
      BY <2>3, <2>4 DEF IsTool, ToolTags
    <3>2. 1 \in DOMAIN more /\ l = 1 + 1 /\ more[1].tag \in Answerable
      BY <2>3, <3>1 DEF Answerable
    <3> QED
      BY <3>2
  <2>5. AllClosed(ms)
    BY <1>2, <1>9 DEF RequestsKept, Rejects
  <2>6. AllClosed(ms \o more)
    BY <1>3, <1>9, <2>1, <2>2, <2>5, GuardSaid DEF Rejects
  <2>7. ToolsFollow(ms \o more)
    BY <1>3, <2>3, <2>4, FollowConcat
  <2> QED
    BY <1>1, <1>2, <1>9, <2>1, <2>6, <2>7 DEF Rejects, RequestsKept, Answering
<1>10. ASSUME NEW calls \in CallLists, UNCHANGED steering, Takes(calls)
       PROVE  RequestsKept'
  <2>1. PICK m : m = ReplyMessage(calls)
    OBVIOUS
  <2>2. calls \in Seq(Call) /\ m \in Message /\ ~ IsTool(m)
    BY <2>1, MessageTypes, AgentAssumption DEF ReplyMessage, IsTool, ToolTags
  <2>3. << m >> \in Seq(Message) /\ \A l \in DOMAIN << m >> : ~ IsTool(<< m >>[l])
    BY <2>2
  <2>4. AllClosed(ms)
    BY <1>2, <1>10 DEF RequestsKept, Takes
  <2>5. OneOpen(ms \o << m >>, calls)
    BY <1>3, <2>1, <2>2, <2>4, ReplySaid
  <2>6. ToolsFollow(ms \o << m >>)
    BY <1>3, <2>3, FollowConcat
  <2> QED
    BY <1>1, <1>2, <1>10, <2>1, <2>5, <2>6 DEF Takes, RequestsKept, Answering
<1>11. ASSUME NEW tag \in ToolTags, UNCHANGED steering, Replies(tag)
       PROVE  RequestsKept'
  <2>1. PICK m : m = ToolMessage(Head(queue), tag)
    OBVIOUS
  <2>2. queue # << >> /\ OneOpen(ms, queue)
    BY <1>2, <1>11 DEF Replies, RequestsKept
  <2>3. m \in Message
    <3>1. Head(queue) \in Call
      BY <1>3, <2>2, HeadTailProperties
    <3> QED
      BY <2>1, <3>1, MessageTypes
  <2>4. << m >> \in Seq(Message) /\ \A l \in DOMAIN << m >> : l = 1
    BY <2>3
  <2>5. OneOpen(ms \o << m >>, Tail(queue)) /\ (tag = "limit" => AllClosed(ms \o << m >>))
    BY <1>3, <2>1, <2>2, AnswerSaid
  <2>6. ToolsFollow(ms \o << m >>)
    BY <1>3, <2>2, <2>4, OpenEnd, FollowConcat
  <2> QED
    BY <1>1, <1>2, <1>11, <2>1, <2>5, <2>6 DEF Replies, RequestsKept, Answering
<1> QED
  BY <1>4, <1>5, <1>6, <1>7, <1>8, <1>9, <1>10, <1>11, AgentSays

LEMMA NothingSaid == ToolsFollow(<< >>) /\ AllClosed(<< >>) /\ AllLeft(<< >>)
BY DEF ToolsFollow, AllClosed, AllLeft

LEMMA RequestsHost ==
  ASSUME TypeOK, RequestsKept, HostStep
  PROVE  RequestsKept'
<1>1. /\ Transcript \in Seq(Message) /\ steering \in Seq(Message)
      /\ \A i \in DOMAIN steering : steering[i].tag = "steer"
      /\ ToolsFollow(Transcript)
  BY DEF RequestsKept, Transcript, TypeOK, Locals
<1>2. CASE /\ pc = "idle" /\ pc' = "loop" /\ UNCHANGED steering
           /\ Transcript' = Transcript \o << UserMessage("prompt", count'.runs) >>
           /\ count'.runs \in Nat
  <2>1. PICK ms, m : ms = Transcript /\ m = UserMessage("prompt", count'.runs)
    OBVIOUS
  <2>2. m \in Message /\ m.tag = "prompt" /\ ~ IsTool(m)
    BY <1>2, <2>1, MessageTypes DEF UserMessage, IsTool, ToolTags
  <2>3. << m >> \in Seq(Message) /\ \A l \in DOMAIN << m >> : ~ IsTool(<< m >>[l])
    BY <2>2
  <2>4. AllLeft(ms)
    BY <1>2, <2>1 DEF RequestsKept
  <2>5. AllClosed(ms \o << m >>)
    BY <1>1, <2>1, <2>2, <2>4, PromptSaid
  <2>6. ToolsFollow(ms \o << m >>)
    BY <1>1, <2>1, <2>3, FollowConcat
  <2> QED
    BY <1>1, <1>2, <2>1, <2>5, <2>6 DEF RequestsKept, Answering
<1>3. CASE UNCHANGED << pc, run.queue, Transcript, steering >>
  BY <1>3 DEF RequestsKept
<1>4. CASE Steer /\ UNCHANGED << pc, run.queue, Transcript >>
  <2>1. PICK m : m = UserMessage("steer", count'.steers)
    OBVIOUS
  <2>2. m.tag = "steer" /\ steering' = Append(steering, m)
    BY <1>4, <2>1 DEF Steer, UserMessage
  <2>3. \A i \in DOMAIN steering' : steering'[i].tag = "steer"
    <3>1. PICK queued : queued = Append(steering, m)
      OBVIOUS
    <3>2. m \in Message
      <4>1. count.steers + 1 \in Nat /\ count \in [runs : Nat, steers : Nat, foreign : Nat]
        BY DEF TypeOK
      <4>2. count'.steers \in Nat
        BY <1>4, <4>1 DEF Steer
      <4> QED
        BY <2>1, <4>2, MessageTypes
    <3>3. PICK l : l = Len(steering)
      OBVIOUS
    <3>4. l \in Nat /\ DOMAIN steering = 1 .. l
      BY <1>1, <3>3, LenProperties
    <3>5. /\ Len(queued) = l + 1 /\ queued \in Seq(Message) /\ queued[l + 1] = m
          /\ \A i \in 1 .. l : queued[i] = steering[i]
      BY <1>1, <3>1, <3>2, <3>3, AppendProperties
    <3>6. DOMAIN queued = 1 .. l + 1
      BY <3>5, LenProperties
    <3>7. \A i \in 1 .. l + 1 : i \in 1 .. l \/ i = l + 1
      BY <3>4
    <3> QED
      BY <1>1, <2>2, <3>1, <3>4, <3>5, <3>6, <3>7
  <2> QED
    BY <1>4, <2>3 DEF RequestsKept
<1>5. CASE (Reset \/ SetHistory(<< >>)) /\ UNCHANGED << pc, run.queue >>
  <2>1. steering' = steering \/ steering' = << >>
    BY <1>5 DEF Reset, SetHistory
  <2>2. \/ Transcript' = Transcript
        \/ Transcript' = << >> /\ pc = "idle"
    BY <1>5 DEF Reset, SetHistory, Transcript, Running
  <2> QED
    BY <1>1, <1>5, <2>1, <2>2, NothingSaid DEF RequestsKept, Answering
<1> QED
  BY <1>2, <1>3, <1>4, <1>5, HostSays

\* How many tool messages follow a closed reply, and how they answer it.
LEMMA ClosedInOrder ==
  ASSUME NEW ms \in Seq(Message), NEW i \in DOMAIN ms, Closed(ms, i)
  PROVE  AnsweredInOrder(ms, i)
<1>1. PICK k : Tools(ms, i, k) /\ Stops(ms, i, k) /\ Over(ms, i, k)
  BY DEF Closed
<1>2. PICK l : l = Len(ms)
  OBVIOUS
<1>3. k \in Nat /\ l \in Nat /\ i \in 1 .. l /\ i + k <= l
  BY <1>1, <1>2, LenProperties DEF Tools
<1>4. \A j \in 1 .. k : i + j \in i + 1 .. i + k /\ (i + j) - i = j
  BY <1>3
<1>5. \A j \in 1 .. k : IsTool(ms[i + j])
  BY <1>1, <1>4 DEF Tools
<1>6. k \in 0 .. l - i
  BY <1>3
<1>7. ASSUME NEW h \in 0 .. l - i, \A j \in 1 .. h : IsTool(ms[i + j]),
             i + h < l => ~ IsTool(ms[i + h + 1])
      PROVE  h = k
  <2>1. CASE h < k
    <3>1. h + 1 \in 1 .. k /\ i + (h + 1) = i + h + 1 /\ i + h < l
      BY <1>3, <1>7, <2>1
    <3>2. IsTool(ms[i + (h + 1)])
      BY <1>5, <3>1
    <3> QED
      BY <1>7, <3>1, <3>2
  <2>2. CASE k < h
    <3>1. k + 1 \in 1 .. h /\ i + (k + 1) = i + k + 1 /\ i + k < l
      BY <1>3, <1>7, <2>2
    <3>2. IsTool(ms[i + (k + 1)])
      BY <1>7, <3>1
    <3> QED
      BY <1>1, <1>2, <3>1, <3>2 DEF Stops
  <2>3. h \in Nat
    BY <1>3, <1>7
  <2> QED
    BY <1>3, <2>1, <2>2, <2>3
<1>8. AnswersAfter(ms, i) = k
  BY <1>1, <1>2, <1>5, <1>6, <1>7 DEF AnswersAfter, Stops
<1>9. CASE Len(ms[i].calls) > MaxToolCallsPerTurn /\ k = 1 /\ ms[i + 1] = GuardMessage
  BY <1>8, <1>9 DEF AnsweredInOrder
<1>10. CASE InOrder(ms, i, k) /\ (k = Len(ms[i].calls) \/ (k > 0 /\ ms[i + k].tag = "limit")
                                  \/ (i + k < Len(ms) /\ ms[i + k + 1].tag = "prompt"))
  <2>1. k <= Len(ms[i].calls) /\ \A j \in 1 .. k : ms[i + j].calls = << ms[i].calls[j] >>
    BY <1>4, <1>10 DEF InOrder
  <2>2. PICK next : next = i + k + 1
    OBVIOUS
  <2>3. i + k < Len(ms) => next <= Len(ms)
    BY <1>2, <1>3, <2>2
  <2> QED
    BY <1>8, <1>10, <2>1, <2>2, <2>3 DEF AnsweredInOrder
<1> QED
  BY <1>1, <1>9, <1>10 DEF Over

\* Every transcript that goes out to the model answers each call of a reply in order and once,
\* as far as the limits and the ends of earlier runs let it, for any responses, limits, rules
\* and tools, with steer texts, aborts, failures and resets in between (agent.ts 248-320).
THEOREM RequestsAlwaysAnswered == Spec => []RequestsAnswered
<1>1. Init => RequestsKept
  <2> SUFFICES ASSUME Init PROVE RequestsKept
    OBVIOUS
  <2>1. Transcript = << >> /\ steering = << >> /\ pc = "idle"
    BY DEF Init, Transcript, Running
  <2> QED
    BY <2>1, NothingSaid DEF RequestsKept, Answering
<1>2. TypeOK /\ RequestsKept /\ [Next]_vars => RequestsKept'
  <2>1. RequestsKept /\ UNCHANGED vars => RequestsKept'
    BY DEF RequestsKept, Transcript, Running, vars
  <2> QED
    BY <2>1, RequestsAgent, RequestsHost DEF Next
<1>3. TypeOK /\ RequestsKept => RequestsAnswered
  <2> SUFFICES ASSUME TypeOK, RequestsKept, pc = "llm", NEW i \in DOMAIN run.messages
               PROVE  /\ run.messages[i].tag = "reply" => AnsweredInOrder(run.messages, i)
                      /\ IsTool(run.messages[i]) =>
                           i > 1 /\ run.messages[i - 1].tag \in ToolTags \cup {"reply"}
    BY DEF RequestsAnswered
  <2>1. PICK ms : ms = run.messages
    OBVIOUS
  <2>2. ms \in Seq(Message) /\ AllClosed(ms) /\ ToolsFollow(ms)
    BY <2>1 DEF RequestsKept, Transcript, Running, TypeOK, Locals
  <2>3. ms[i].tag = "reply" => AnsweredInOrder(ms, i)
    BY <2>1, <2>2, ClosedInOrder DEF AllClosed
  <2>4. ASSUME IsTool(ms[i])
        PROVE  i > 1 /\ ms[i - 1].tag \in ToolTags \cup {"reply"}
    <3>1. PICK p \in DOMAIN ms : i = p + 1 /\ ms[p].tag \in Answerable
      BY <2>1, <2>2, <2>4 DEF ToolsFollow
    <3>2. p \in 1 .. Len(ms) /\ Len(ms) \in Nat
      BY <2>2, LenProperties
    <3>3. i > 1 /\ i - 1 = p
      BY <3>1, <3>2
    <3> QED
      BY <3>1, <3>3 DEF Answerable
  <2> QED
    BY <2>1, <2>3, <2>4
<1> QED
  BY <1>1, <1>2, <1>3, TypeCorrect, PTL DEF Spec
=============================================================================
