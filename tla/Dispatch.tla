--------------------------------- MODULE Dispatch ---------------------------------
(***************************************************************************)
(* The chain a tool call goes through: ToolCallWaterfall and                   *)
(* runWithWaterfall (src/src/events/waterfall.ts), the hook commands that        *)
(* HookBridge adds to it (hooks/bridge.ts, runner.ts, parse.ts), and the          *)
(* teardown of the chain while calls are in it.                                   *)
(***************************************************************************)
EXTENDS Integers, Sequences, SequencesExt, FiniteSets, FiniteSetsExt, Selection

CONSTANTS
  Middlewares,  \* what can be registered: records that say what a middleware does
  PreToolUse, PostToolUse,   \* the groups of hooks.json: what they match, how many commands
  ToolNames,    \* what calls call
  Ends,         \* how a hook command can end: how, its exit code and what its output spells
  Calls, Disposers, MaxChain   \* the callers of the model, and a bound

VARIABLES
  failClosed,        \* the option
  chain,             \* the registered middlewares
  disposeRequested, released, timedOut,
  disposals,         \* of each caller of dispose(): no, waiting or returned
  run                \* of each call: its copy of the chain and how far it is

dispatchVars == << failClosed, chain, disposeRequested, released, timedOut, disposals, run >>
teardownVars == << disposeRequested, released, timedOut, disposals >>

Unrun == [at |-> "no", list |-> << >>, next |-> 1, pending |-> << >>, name |-> "none", ends |-> << >>,
          decision |-> "allow", tool |-> "no", after |-> << >>, result |-> 0]

Init ==
  /\ failClosed \in BOOLEAN /\ chain = << >> /\ disposeRequested = FALSE /\ released = FALSE
  /\ timedOut = FALSE /\ disposals = [d \in Disposers |-> "no"] /\ run = [c \in Calls |-> Unrun]

-------------------------------------------------------------------------------
(* Decisions *)

Rank == [none |-> 0, allow |-> 0, ask |-> 1, deny |-> 2]

\* A slip: the decision that comes last wins.
MergeLast(current, incoming) == IF incoming = "none" THEN current ELSE incoming
Merge(current, incoming) == IF Rank[incoming] > Rank[current] THEN incoming ELSE current

\* What a middleware that throws comes to.
Said(m) == IF m.says = "throw" THEN IF failClosed THEN "deny" ELSE "none" ELSE m.says

\* matchesToolName, and the commands of the groups that match.
Matches(group, name) == group.matcher = {"*"} \/ name \in group.matcher
Commands(groups, name) ==
  LET sum[n \in 0 .. Len(groups)] ==
        IF n = 0 THEN 0 ELSE sum[n - 1] + (IF Matches(groups[n], name) THEN groups[n].hooks ELSE 0)
  IN sum[Len(groups)]

\* runHookCommand: one that could not be started has no output; one that is killed,
\* by its signal or for its time, or fails has exit code 1 and what it wrote till then.
Exit(end) == IF end.how = "exit" THEN end.code ELSE 1
Spells(end) == IF end.how = "unspawned" THEN "nothing" ELSE end.spells

\* parseHookOutput: a decision the output spells wins over the exit code.
HookSays(end) ==
  CASE Spells(end) \in {"allow", "allowOnce"} -> "allow"
    [] Spells(end) \in {"ask", "deny"} -> Spells(end)
    [] OTHER -> IF Exit(end) = 0 THEN "allow" ELSE "deny"

\* mergeHookDecisions
HooksSay(ends) ==
  LET merged[n \in 0 .. Len(ends)] ==
        IF n = 0 THEN "allow" ELSE Merge(merged[n - 1], HookSays(ends[n]))
  IN merged[Len(ends)]

-------------------------------------------------------------------------------
(* The run of a call *)

InFlight == {c \in Calls : run[c].at \in {"running", "returning"}}

Use(m) ==
  /\ m \notin ToSet(chain) /\ Len(chain) < MaxChain /\ chain' = Append(chain, m)
  /\ UNCHANGED << failClosed, run >> /\ UNCHANGED teardownVars

Unuse(m) ==
  /\ m \in ToSet(chain) /\ chain' = Spliced(chain, m)
  /\ UNCHANGED << failClosed, run >> /\ UNCHANGED teardownVars

\* run(): the chain is copied; a disposed waterfall denies.
StartRun(c, name) ==
  /\ run[c].at = "no"
  /\ run' = [run EXCEPT ![c] = IF disposeRequested
                               THEN [Unrun EXCEPT !.at = "settled", !.decision = "deny"]
                               ELSE [Unrun EXCEPT !.at = "running", !.list = chain, !.name = name]]
  /\ UNCHANGED << failClosed, chain >> /\ UNCHANGED teardownVars

Here(c) == run[c].list[run[c].next]
Running(c) == run[c].at = "running" /\ run[c].next <= Len(run[c].list)

Delegate(r, after) == [r EXCEPT !.next = @ + 1, !.pending = Append(@, after)]
Answer(r, d) == [r EXCEPT !.at = "returning", !.decision = Merge(@, d)]

\* A middleware calls next() before it returns, or returns.
Fire(c) ==
  /\ Running(c) /\ Here(c).says # "hooks"
  /\ run' = [run EXCEPT ![c] = IF Here(c).delegates THEN Delegate(@, Said(Here(c)))
                               ELSE Answer(@, Said(Here(c)))]
  /\ UNCHANGED << failClosed, chain >> /\ UNCHANGED teardownVars

\* The hook middleware, when no command is left: anything but allow ends the chain.
HooksOver(r) ==
  IF HooksSay(r.ends) = "allow" THEN Delegate(r, "none") ELSE Answer(r, HooksSay(r.ends))

NoHook(c) ==
  /\ Running(c) /\ Here(c).says = "hooks" /\ Commands(PreToolUse, run[c].name) = 0
  /\ run' = [run EXCEPT ![c] = HooksOver(@)]
  /\ UNCHANGED << failClosed, chain >> /\ UNCHANGED teardownVars

\* One command of the hook middleware is over.
Hook(c, end) ==
  LET hooked == [run[c] EXCEPT !.ends = Append(@, end)]
      left == Commands(PreToolUse, run[c].name) - Len(run[c].ends)
  IN /\ Running(c) /\ Here(c).says = "hooks" /\ left > 0
     /\ run' = [run EXCEPT ![c] = IF left > 1 THEN hooked ELSE HooksOver(hooked)]
     /\ UNCHANGED << failClosed, chain >> /\ UNCHANGED teardownVars

EndOfChain(c) ==
  /\ run[c].at = "running" /\ run[c].next > Len(run[c].list)
  /\ run' = [run EXCEPT ![c].at = "returning"]
  /\ UNCHANGED << failClosed, chain >> /\ UNCHANGED teardownVars

\* A slip: the first run that settles releases whoever waits.
ReleasesAny(c) == disposeRequested
\* The last run in flight releases the promise dispose() waits for.
Releases(c) == disposeRequested /\ InFlight = {c}

\* The middlewares that delegated return, the innermost first.
Return(c) ==
  /\ run[c].at = "returning" /\ run[c].pending # << >>
  /\ run' = [run EXCEPT ![c].pending = Front(@), ![c].decision = Merge(@, Last(run[c].pending))]
  /\ UNCHANGED << failClosed, chain >> /\ UNCHANGED teardownVars

Settle(c) ==
  /\ run[c].at = "returning" /\ run[c].pending = << >> /\ run' = [run EXCEPT ![c].at = "settled"]
  /\ released' = (released \/ Releases(c))
  /\ UNCHANGED << failClosed, chain, disposeRequested, timedOut, disposals >>

\* runWithWaterfall: the tool runs unless the chain denied it.
Apply(c) ==
  /\ run[c].at = "settled" /\ run[c].tool = "no"
  /\ run' = [run EXCEPT ![c].tool = IF run[c].decision = "deny" THEN "refused" ELSE "executed"]
  /\ UNCHANGED << failClosed, chain >> /\ UNCHANGED teardownVars

\* runAfterFor: a hook that succeeded and printed a content replaces the result.
Mutated(r, end) ==
  [r EXCEPT !.after = Append(@, end),
            !.result = IF Exit(end) = 0 /\ Spells(end) = "content" THEN Len(r.after) + 1 ELSE @]

\* The host may have the PostToolUse hooks run, one by one.
HookAfter(c, end) ==
  /\ run[c].tool = "executed" /\ Len(run[c].after) < Commands(PostToolUse, run[c].name)
  /\ run' = [run EXCEPT ![c] = Mutated(@, end)]
  /\ UNCHANGED << failClosed, chain >> /\ UNCHANGED teardownVars

-------------------------------------------------------------------------------
(* dispose() *)

Dispose(d) ==
  /\ disposals[d] = "no"
  /\ IF disposeRequested
     THEN /\ disposals' = [disposals EXCEPT ![d] = "waiting"]
          /\ UNCHANGED << disposeRequested, released, chain >>
     ELSE /\ disposeRequested' = TRUE
          /\ IF InFlight = {}
             THEN /\ chain' = << >> /\ released' = TRUE
                  /\ disposals' = [disposals EXCEPT ![d] = "returned"]
             ELSE /\ disposals' = [disposals EXCEPT ![d] = "waiting"]
                  /\ UNCHANGED << released, chain >>
  /\ UNCHANGED << failClosed, timedOut, run >>

\* The wait is bounded.
DisposeTimeout ==
  /\ disposeRequested /\ ~ released /\ released' = TRUE /\ timedOut' = TRUE /\ chain' = << >>
  /\ UNCHANGED << failClosed, disposeRequested, disposals, run >>

DisposeReturns(d) ==
  /\ disposals[d] = "waiting" /\ released
  /\ disposals' = [disposals EXCEPT ![d] = "returned"] /\ chain' = << >>
  /\ UNCHANGED << failClosed, disposeRequested, released, timedOut, run >>

Next ==
  \/ \E m \in Middlewares : Use(m) \/ Unuse(m)
  \/ \E c \in Calls, name \in ToolNames : StartRun(c, name)
  \/ \E c \in Calls : Fire(c) \/ NoHook(c) \/ EndOfChain(c) \/ Return(c) \/ Settle(c) \/ Apply(c)
  \/ \E c \in Calls, end \in Ends : Hook(c, end) \/ HookAfter(c, end)
  \/ \E d \in Disposers : Dispose(d) \/ DisposeReturns(d)
  \/ DisposeTimeout

Spec == Init /\ [][Next]_dispatchVars

-------------------------------------------------------------------------------
(* Properties *)

\* The state is of the expected shape.
DispatchTypeOK ==
  /\ ToSet(chain) \subseteq Middlewares
  /\ \A c \in Calls : /\ run[c].next \in 1 .. Len(run[c].list) + 1
                      /\ run[c].decision \in {"allow", "ask", "deny"}

\* A call that runs its tool was denied by nobody it reached: of the chain it started
\* with, whatever was registered or removed meanwhile, a middleware that denies, or
\* throws where that denies, lies behind one that ended the chain; and every command of
\* the groups that match it, if the chain came to them, has ended well or printed a
\* leave, in whatever order they answered.
DeniesHold ==
  \A c \in Calls : run[c].tool = "executed" =>
    LET Passed(end) == \/ end.how # "unspawned" /\ end.spells \in {"allow", "allowOnce", "ask"}
                       \/ end.how = "exit" /\ end.code = 0 /\ end.spells # "deny"
        hooks == {i \in DOMAIN run[c].list : run[c].list[i].says = "hooks"}
        Closed(m) == IF m.says = "hooks" THEN HooksSay(run[c].ends) # "allow" ELSE ~ m.delegates
        Reached(i) == \A j \in 1 .. i - 1 : ~ Closed(run[c].list[j])
    IN /\ \A i \in DOMAIN run[c].list \ hooks : Reached(i) => Said(run[c].list[i]) # "deny"
       /\ \A end \in ToSet(run[c].ends) : Passed(end)
       /\ \A i \in hooks : Reached(i) => Len(run[c].ends) = Commands(PreToolUse, run[c].name)

\* The result a call ends with is its own, or what the last hook that succeeded and had
\* something to say made of it: a later one that fails does not undo or replace it.
ResultsByHooks ==
  \A c \in Calls :
    LET good == {i \in DOMAIN run[c].after : run[c].after[i].how = "exit" /\ run[c].after[i].code = 0
                                            /\ run[c].after[i].spells = "content"}
    IN run[c].result = IF good = {} THEN 0 ELSE Max(good)

\* When dispose() returns to any of its callers, and did not give up waiting, no
\* middleware is at work, and none starts any more.
QuiescentDispose ==
  (\E d \in Disposers : disposals[d] = "returned") /\ ~ timedOut => InFlight = {}
=============================================================================
