-------------------------------- MODULE Harness --------------------------------
(***************************************************************************)
(* The modules of the harness, one beside the other: Init picks the part    *)
(* that takes the steps of a behavior, and the others rest in their initial *)
(* states.  No state is shared between them, so each part behaves as it     *)
(* would alone.                                                             *)
(***************************************************************************)
EXTENDS Naturals, Sequences, FiniteSets

CONSTANTS
  Unmade, AgentOptions, Requested, MaxRuns, MaxSteers,   \* HarnessAgent
  Main, Branches, Tails, MaxNews, MaxCompactions, MaxCrashes,   \* HarnessSession
  MaxCalls, MaxAborts, MaxAuths,                     \* Protocol
  Types, Untyped, TaskLimits, AgentCaps, RouteSizes  \* Plans

ToolNames == UNION {{list[i][1] : i \in DOMAIN list} : list \in Requested}

ASSUME AgentAssumption ==
  /\ \A o \in AgentOptions : o.maxTurns \in Nat /\ o.maxToolCalls \in Nat
  /\ Requested \subseteq Seq(ToolNames \X BOOLEAN)

ASSUME PlanAssumption == Types \in SUBSET Nat /\ IsFiniteSet(Types) /\ AgentCaps \subseteq Nat

ASSUME CallAssumption == MaxCalls \in Nat

VARIABLES
  scene,
  options, transcript, pendingQueue, pendingMode, aborted, loop, flights, past,
  backend, disk, agents, op, told, mixed, used,
  guarded, authenticated, toServer, toClient, opening, active, awaiting, unresolved,
  resolved, clientPast,
  script, tasks, dependsOn, status, round, child, started, cap, cancelled, registered,
  stopReason

ofAgent == << options, transcript, pendingQueue, pendingMode, aborted, loop, flights, past >>
ofSession == << backend, disk, agents, op, told, mixed, used >>
ofProtocol == << guarded, authenticated, toServer, toClient, opening, active, awaiting,
                 unresolved, resolved, clientPast >>
ofPlan == << script, tasks, dependsOn, status, round, child, started, cap, cancelled,
             registered, stopReason >>

-------------------------------------------------------------------------------
(* The parts *)

A == INSTANCE HarnessAgent
H == INSTANCE HarnessSession
P == INSTANCE Protocol
W == INSTANCE Plans

Init ==
  /\ scene \in {"agent", "session", "protocol", "plan"}
  /\ A!Init /\ H!Init /\ P!Init /\ W!Init

AgentScene ==
  /\ scene = "agent" /\ A!Next
  /\ UNCHANGED << scene, ofSession, ofProtocol, ofPlan >>
SessionScene ==
  /\ scene = "session" /\ H!Next
  /\ UNCHANGED << scene, ofAgent, ofProtocol, ofPlan >>
ProtocolScene ==
  /\ scene = "protocol" /\ P!Next
  /\ UNCHANGED << scene, ofAgent, ofSession, ofPlan >>
PlanScene ==
  /\ scene = "plan" /\ W!Next
  /\ UNCHANGED << scene, ofAgent, ofSession, ofProtocol >>

Next == AgentScene \/ SessionScene \/ ProtocolScene \/ PlanScene

harnessVars == << scene, ofAgent, ofSession, ofProtocol, ofPlan >>

Spec ==
  /\ Init
  /\ [][Next]_harnessVars
  /\ A!AgentFairness /\ P!ProtocolFairness /\ W!PlanFairness

-------------------------------------------------------------------------------
(* The properties of the parts *)

\* The state of every part is of the expected shape.
HarnessTypeOK == A!AgentTypeOK /\ H!SessionTypeOK /\ P!ProtocolTypeOK /\ W!PlanTypeOK

\* A clean run of the agent answers each requested call exactly once (Agent.run).
CallsAnswered == A!CallsAnswered

\* The agent runs only implementations that its scope shows and its approvals allow
\* (ToolScope.resolve, ApprovalProvider.resolve).
OnlyPermittedRun == A!OnlyPermittedRun

\* After abort() no turn of the agent begins, nor a further call of a sequential
\* batch (Agent.abort).
AbortStops == A!AbortStops

\* A session of messages gives back all that its runs added (AgentHarness.run).
RunsPersisted == H!RunsPersisted

\* What a session has stored stays as it is (AgentHarness.compact, navigate).
LogGrows == H!LogGrows

\* A client that waits for its runs is told the outcome of each (TonyClient.run).
OwnOutcome == P!OwnOutcome

\* Every run the server accepts resolves at the client (TonyServer, TonyClient).
RunsResolve == P!RunsResolve

\* The statuses of a plan say which tasks could run (executePlan).
StatusesExact == W!StatusesExact

\* An active run of the agent ends (Agent.run), and so does a workflow
\* (WorkflowEngine.run).
RunsSettle == A!RunSettles /\ W!WorkflowSettles
=============================================================================
