---------------------------------- MODULE Plans ----------------------------------
(***************************************************************************)
(* Plans and the workflow engine that runs them: GroupPlanner               *)
(* (src/src/plan/group.ts) makes tasks and their order out of a graph,       *)
(* planToScript (src/src/plan/execute.ts) walks them, WorkflowEngine         *)
(* (src/src/workflow/engine.ts) runs that script, or a fan-out over a route, *)
(* and starts the agents through SubagentRegistry                            *)
(* (src/src/subagent/registry.ts).  The run may be cancelled and the         *)
(* provider unregistered at any time.                                        *)
(***************************************************************************)
EXTENDS Naturals, Sequences, SequencesExt, FiniteSets, Selection

CONSTANTS
  Types,        \* the entity types, numbered as they first occur in the graph
  Untyped,      \* those of them that stand for an empty type
  TaskLimits, AgentCaps,   \* the maxTasks and maxTotalAgents options
  RouteSizes    \* how many entities a route may hold

Least(S) == CHOOSE x \in S : \A y \in S : x <= y

VARIABLES
  script,       \* what runs: "none", "plan", "fan" (routeAgents) or "broken"
  tasks,        \* the plan: its tasks in order
  dependsOn,    \* of each task: the tasks it waits for
  status,       \* of each task
  round,        \* the ready tasks of this round still to take, or entities to ask about
  child,        \* the agent awaited, as a set of at most one task
  started, cap, cancelled, registered,
  stopReason    \* "none" until the run settles

planVars == << script, tasks, dependsOn, status, round, child, started, cap, cancelled,
               registered, stopReason >>

Init ==
  /\ script = "none" /\ tasks = << >> /\ dependsOn = << >> /\ status = << >>
  /\ round = << >> /\ child = {} /\ started = 0 /\ cap = 0
  /\ cancelled = FALSE /\ registered = TRUE /\ stopReason = "none"

-------------------------------------------------------------------------------
(* GroupPlanner *)

\* A task for each type, as long as there is room.
Clustered(limit) == {t \in Types : Cardinality({u \in Types : u < t}) < limit}

\* A relation makes the target's task wait for the source's; one between entities
\* of a type, to a type without a task, or of an entity without a type, is dropped.
Edges(relations, limit) ==
  {e \in relations : /\ {e[1], e[2]} \subseteq Clustered(limit) \ Untyped
                     /\ e[1] # e[2]}

DependsOn(relations, limit) ==
  [t \in Clustered(limit) |-> {e[1] : e \in {x \in Edges(relations, limit) : x[2] = t}}]

Sorted(S) == [k \in 1 .. Cardinality(S) |-> Nth(S, k)]

\* A slip: the tasks in the order of their ids.
IdOrder(deps) == Sorted(DOMAIN deps)

\* Kahn's algorithm, the least ready id first (ids are numbers here, whose order is
\* that of the texts up to nine tasks); what a cycle keeps from ever being ready
\* follows in the order of ids.
Ready(deps, out) == {t \in DOMAIN deps \ ToSet(out) : deps[t] \subseteq ToSet(out)}
Take(deps, out) ==
  IF Ready(deps, out) = {} THEN out ELSE Append(out, Least(Ready(deps, out)))
TopoSort(deps) ==
  LET taken[n \in 0 .. Cardinality(DOMAIN deps)] ==
        IF n = 0 THEN << >> ELSE Take(deps, taken[n - 1])
      out == taken[Cardinality(DOMAIN deps)]
  IN out \o Sorted(DOMAIN deps \ ToSet(out))

-------------------------------------------------------------------------------
(* WorkflowEngine.start *)

StartWith(kind, maxAgents) ==
  /\ script = "none" /\ script' = kind /\ cap' = maxAgents
  /\ UNCHANGED << child, started, cancelled, registered, stopReason >>

StartPlan(relations, limit, maxAgents) ==
  /\ StartWith("plan", maxAgents)
  /\ dependsOn' = DependsOn(relations, limit)
  /\ tasks' = TopoSort(dependsOn')
  /\ status' = [t \in DOMAIN dependsOn' |-> "pending"]
  /\ UNCHANGED round

\* routeAgents(): an agent for each of the first three entities of the route.
StartFan(size, maxAgents) ==
  /\ StartWith("fan", maxAgents)
  /\ round' = [i \in 1..(IF size < 3 THEN size ELSE 3) |-> i]
  /\ UNCHANGED << tasks, dependsOn, status >>

\* A script that does not compile, or asks for a route without a router.
StartBroken == StartWith("broken", 0) /\ UNCHANGED << tasks, dependsOn, status, round >>

Running == script # "none" /\ stopReason = "none"
Stop(reason) ==
  /\ stopReason' = reason
  /\ UNCHANGED << script, tasks, dependsOn, round, child, started, cap, cancelled, registered >>

BrokenStops == Running /\ script = "broken" /\ Stop("error") /\ UNCHANGED status

Cancel ==
  /\ script # "none" /\ cancelled' = TRUE
  /\ UNCHANGED << script, tasks, dependsOn, status, round, child, started, cap, registered,
                  stopReason >>

\* The registration is disposed of.
Unregister ==
  /\ script # "none" /\ registered' = FALSE
  /\ UNCHANGED << script, tasks, dependsOn, status, round, child, started, cap, cancelled,
                  stopReason >>

\* A slip: one agent more than the cap allows.
RefusedLate == cancelled \/ started > cap
\* How ctx.agent() begins: refused when the run is cancelled or the cap reached,
\* counted and then failing when the provider is gone, or awaited.
Refused == cancelled \/ started >= cap
AgentBegins(t) ==
  /\ started' = IF Refused THEN started ELSE started + 1
  /\ child' = IF Refused \/ ~ registered THEN {} ELSE {t}
AgentFails == child' = {}

-------------------------------------------------------------------------------
(* planToScript *)

ReadyTasks ==
  ElementsAt(tasks, {i \in DOMAIN tasks : /\ status[tasks[i]] = "pending"
                                          /\ \A d \in dependsOn[tasks[i]] : status[d] = "done"})

BeginRound ==
  /\ Running /\ script = "plan" /\ round = << >> /\ child = {} /\ ReadyTasks # << >>
  /\ round' = ReadyTasks
  /\ UNCHANGED << script, tasks, dependsOn, status, child, started, cap, cancelled, registered,
                  stopReason >>

\* The tasks of a round run one after the other; a failure is the task's own.
BeginTask ==
  /\ Running /\ script = "plan" /\ round # << >> /\ child = {}
  /\ AgentBegins(Head(round)) /\ round' = Tail(round)
  /\ status' = [status EXCEPT ![Head(round)] = IF AgentFails THEN "failed" ELSE "running"]
  /\ UNCHANGED << script, tasks, dependsOn, cap, cancelled, registered, stopReason >>

TaskEnds(t, outcome) ==
  /\ Running /\ script = "plan" /\ t \in child
  /\ status' = [status EXCEPT ![t] = outcome] /\ child' = {}
  /\ UNCHANGED << script, tasks, dependsOn, round, started, cap, cancelled, registered,
                  stopReason >>

\* One pass in plan order, so that what is skipped blocks what comes after it.
Skip(s, t) ==
  IF s[t] = "pending" /\ \E d \in dependsOn[t] : s[d] \in {"failed", "skipped"}
  THEN [s EXCEPT ![t] = "skipped"] ELSE s
SkipBlocked ==
  LET passed[n \in 0 .. Len(tasks)] == IF n = 0 THEN status ELSE Skip(passed[n - 1], tasks[n])
  IN passed[Len(tasks)]

\* The script returns, whatever became of the tasks: a cancelled run too.
PlanReturns ==
  /\ Running /\ script = "plan" /\ round = << >> /\ child = {} /\ ReadyTasks = << >>
  /\ status' = SkipBlocked /\ Stop("completed")

-------------------------------------------------------------------------------
(* routeAgents: a refusal or a failure ends the script *)

BeginEntity ==
  /\ Running /\ script = "fan" /\ round # << >> /\ child = {}
  /\ AgentBegins(Head(round)) /\ round' = Tail(round)
  /\ stopReason' = IF cancelled THEN "cancelled" ELSE IF AgentFails THEN "error" ELSE "none"
  /\ UNCHANGED << script, tasks, dependsOn, status, cap, cancelled, registered >>

EntityEnds(ok) ==
  /\ Running /\ script = "fan" /\ child # {} /\ child' = {}
  /\ stopReason' = IF ok THEN "none" ELSE "error"
  /\ UNCHANGED << script, tasks, dependsOn, status, round, started, cap, cancelled, registered >>

FanReturns ==
  /\ Running /\ script = "fan" /\ round = << >> /\ child = {}
  /\ Stop("completed") /\ UNCHANGED status

Progress ==
  \/ BrokenStops \/ BeginRound \/ BeginTask \/ PlanReturns \/ BeginEntity \/ FanReturns
  \/ \E t \in Types, outcome \in {"done", "failed"} : TaskEnds(t, outcome)
  \/ \E ok \in BOOLEAN : EntityEnds(ok)

Next ==
  \/ \E relations \in SUBSET (Types \X Types), limit \in TaskLimits, maxAgents \in AgentCaps :
       StartPlan(relations, limit, maxAgents)
  \/ \E size \in RouteSizes, maxAgents \in AgentCaps : StartFan(size, maxAgents)
  \/ StartBroken \/ Cancel \/ Unregister \/ Progress

\* The agents that were started settle.
PlanFairness == WF_planVars(Progress)
Spec == Init /\ [][Next]_planVars /\ PlanFairness

-------------------------------------------------------------------------------
(* Properties *)

\* The state is of the expected shape.
PlanTypeOK ==
  /\ script \in {"none", "plan", "fan", "broken"} /\ {cancelled, registered} \subseteq BOOLEAN
  /\ stopReason \in {"none", "completed", "error", "cancelled"}
  /\ ToSet(tasks) = DOMAIN dependsOn /\ Cardinality(child) <= 1 /\ started <= cap
  /\ \A t \in DOMAIN status : status[t] \in {"pending", "running", "done", "failed", "skipped"}

\* The tasks that t waits for, directly or through others: those in every set that
\* is closed under waiting and holds t's own.
Ancestors(t) ==
  {a \in DOMAIN dependsOn :
     \A S \in SUBSET (DOMAIN dependsOn) :
       dependsOn[t] \subseteq S /\ (\A s \in S : dependsOn[s] \subseteq S) => a \in S}

\* When a plan without cycles has run, the statuses say exactly what happened: a
\* task was skipped if and only if one it waits for, however indirectly, failed,
\* and any other ran after all of those; this takes a plan sorted so that the one
\* pass over it finds every task to skip.
StatusesExact ==
  stopReason # "none" /\ script = "plan" /\ (\A t \in DOMAIN dependsOn : t \notin Ancestors(t)) =>
    \A t \in DOMAIN status :
      /\ status[t] \in {"done", "failed", "skipped"}
      /\ (status[t] = "skipped") <=> \E a \in Ancestors(t) : status[a] = "failed"

\* A run settles whatever the plan, its cycles, the failures of its agents, the cap,
\* a cancellation or the loss of the provider.
WorkflowSettles == (script # "none") ~> (stopReason # "none")
=============================================================================
