-------------------------------- MODULE Services --------------------------------
(***************************************************************************)
(* The modules of the services around the agents, one beside the other:     *)
(* Init picks the part that takes the steps of a behavior, and the others    *)
(* rest in their initial states.  No state is shared between them.           *)
(***************************************************************************)
EXTENDS Naturals, Sequences, FiniteSets

CONSTANTS
  Callers, Operations, Disposers, Lookups,           \* who calls the parts
  Everywhere, Torn, Nothing,
  Sessions, MaxIndexChanges, Bodies, Limits, MaxEntries,        \* QueryIndex
  Ids, Like, Texts, Extractions, LocalWidth, RelatedWidth, RelatedCap, NameRows, HitLimit,
  MaxChanges,                                        \* QueryGraph
  Replies, Offers, MaxRetries,                       \* LlmClient
  Middlewares, PreToolUse, PostToolUse, ToolNames, Ends, MaxChain,   \* Dispatch
  Names, Service, MaxMounts, MaxUnmounts,            \* Plugins
  Tabs, MaxSockets, MaxTabChanges,                   \* Cdp
  Providers, Keys, MaxUpdates,                       \* Credentials
  Sources, Embedded, Files, Directory, MaxSkillChanges,         \* Skills
  PatchRows, Profiles, NoConfig, MaxOverrides             \* Patches

\* A file cut short is none that keys could be written to.
ASSUME TornAssumption == \A ids \in SUBSET Providers : Torn \notin [ids -> Keys]

\* A browser has finitely many tabs.
ASSUME TabAssumption == IsFiniteSet(Tabs)

\* What a middleware and a group of hooks are (ToolCallMiddleware, HookGroup).
ASSUME MiddlewareAssumption ==
  Middlewares \subseteq [says : {"none", "allow", "ask", "deny", "throw", "hooks"}, delegates : BOOLEAN]
ASSUME HookAssumption ==
  {PreToolUse, PostToolUse} \subseteq Seq([matcher : SUBSET STRING, hooks : Nat])

VARIABLES
  scene,
  log, durable, open, live, search, changes,
  meta, parentOf, entries, entities, relations, edits,
  phase, attempt, signalled, body, wire, buffer, acc, whole, result, shown, attempts,
  failClosed, chain, disposeRequested, released, timedOut, disposals, run,
  mounted, order, providers, shadows, denied, unmounts, sweep, active, closing, closed, expired,
  mounts, disposed,
  tabs, targets, activeId, connections, sockets, requests, ops, tabChanges,
  workers, nodeWorker, codeRuns, overlapped, abandoned,
  initialized, keys, file, temp, update, kept, meant, updates,
  skillProviders, runtime, disposers, directory, lookups, skillChanges,
  base, rows, sessionOverrides, applied

ofIndex == << log, durable, open, live, search, changes >>
ofGraph == << meta, parentOf, entries, entities, relations, edits >>
ofLlm == << phase, attempt, signalled, body, wire, buffer, acc, whole, result, shown, attempts >>
ofDispatch == << failClosed, chain, disposeRequested, released, timedOut, disposals, run >>
ofPlugins == << mounted, order, providers, shadows, denied, unmounts, sweep, active, closing,
                closed, expired, mounts, disposed >>
ofCdp == << tabs, targets, activeId, connections, sockets, requests, ops, tabChanges >>
ofWorker == << workers, nodeWorker, codeRuns, overlapped, abandoned >>
ofCredentials == << initialized, keys, file, temp, update, kept, meant, updates >>
ofSkills == << skillProviders, runtime, disposers, directory, lookups, skillChanges >>
ofPatches == << base, rows, sessionOverrides, applied >>

-------------------------------------------------------------------------------
(* The parts *)

I == INSTANCE QueryIndex WITH Ids <- Sessions, MaxChanges <- MaxIndexChanges
G == INSTANCE QueryGraph
L == INSTANCE LlmClient
D == INSTANCE Dispatch WITH Calls <- Callers
P == INSTANCE Plugins WITH Unmounters <- Callers, ServiceCalls <- Callers
B == INSTANCE Cdp WITH Ops <- Operations
W == INSTANCE CodeWorker WITH Snippets <- Operations
K == INSTANCE Credentials
S == INSTANCE Skills
C == INSTANCE Patches WITH Overriders <- Callers

Init ==
  /\ scene \in {"index", "graph", "llm", "dispatch", "hooks", "plugins", "services", "cdp",
                "history", "worker", "credentials", "skills", "patches"}
  /\ I!Init /\ G!Init /\ L!Init /\ D!Init /\ P!Init /\ B!Init /\ W!Init /\ K!Init /\ S!Init /\ C!Init

Rest(s) ==
  /\ s # "index" => UNCHANGED ofIndex
  /\ s # "graph" => UNCHANGED ofGraph
  /\ s # "llm" => UNCHANGED ofLlm
  /\ s \notin {"dispatch", "hooks"} => UNCHANGED ofDispatch
  /\ s \notin {"plugins", "services"} => UNCHANGED ofPlugins
  /\ s \notin {"cdp", "history"} => UNCHANGED ofCdp
  /\ s # "worker" => UNCHANGED ofWorker
  /\ s # "credentials" => UNCHANGED ofCredentials
  /\ s # "skills" => UNCHANGED ofSkills
  /\ s # "patches" => UNCHANGED ofPatches

Next ==
  /\ UNCHANGED scene /\ Rest(scene)
  /\ \/ scene = "index" /\ I!Next
     \/ scene = "graph" /\ G!Next
     \/ scene = "llm" /\ L!Next
     \/ scene \in {"dispatch", "hooks"} /\ D!Next
     \/ scene = "plugins" /\ P!PluginNext
     \/ scene = "services" /\ P!ServiceNext
     \/ scene \in {"cdp", "history"} /\ B!Next
     \/ scene = "worker" /\ W!Next
     \/ scene = "credentials" /\ K!Next
     \/ scene = "skills" /\ S!Next
     \/ scene = "patches" /\ C!Next

serviceVars ==
  << scene, ofIndex, ofGraph, ofLlm, ofDispatch, ofPlugins, ofCdp, ofWorker, ofCredentials, ofSkills,
     ofPatches >>

Spec == Init /\ [][Next]_serviceVars

-------------------------------------------------------------------------------
(* The properties of the parts, each in its scene *)

\* The state of every part is of the expected shape.
ServicesTypeOK ==
  /\ I!IndexTypeOK /\ G!GraphTypeOK /\ L!LlmTypeOK /\ D!DispatchTypeOK
  /\ P!PluginTypeOK /\ B!CdpTypeOK /\ W!WorkerTypeOK /\ K!CredentialTypeOK
  /\ S!SkillTypeOK /\ C!PatchTypeOK

\* The pages of a search are its matches, each once and the best first, and live
\* and indexed events are folded without a loss or a duplicate, and counted so by
\* session (SessionQueryEngine.searchEvents, searchSessions).
SearchExact == scene = "index" => I!PagesComplete /\ I!LiveFolded /\ I!SessionsCounted

\* The ancestors, the descendants and the cycles of a session are what the parents
\* say, graph searches report true distances and miss nothing within their limits, and
\* what an event mentions is recalled (SessionQueryEngine.traceSession, searchRelated,
\* searchGraphLocal, GraphContextBuilder.build, GraphRouter.route).
GraphExact == scene = "graph" => G!TraceExact /\ G!RelatedExact /\ G!RecallFound

\* A listing has the skills its surface sees, a load is refused only where one hides
\* the skill, and a session sees of a patched row what was last said of it there
\* (SkillRegistry.list, get, PatchLayer.apply).
RegistriesExact ==
  /\ scene = "skills" => S!LookupsExact
  /\ scene = "patches" => C!OverridesExact

\* A result is what the stream said, and a retry is made only where it may help
\* (LlmClient.complete).
LlmExact == scene = "llm" => L!StreamWhole /\ L!RetriesJustified

\* No call runs its tool that a middleware or a hook it reached denied, and its result
\* is its own or a successful hook's (ToolCallWaterfall.run, HookBridge.runFor, runAfterFor).
DeniesHold == scene \in {"dispatch", "hooks"} => D!DeniesHold /\ D!ResultsByHooks

\* Once disposed of, the waterfall and the services are at rest; plugins keep their
\* providers until their disposal, and all are disposed of in the reverse order
\* (ToolCallWaterfall.dispose, ServiceRegistry.dispose, PluginRegistry.unmountAll).
TornDown ==
  /\ scene \in {"dispatch", "hooks"} => D!QuiescentDispose
  /\ scene = "services" => P!ServicesQuiescent
  /\ scene = "plugins" => P!ProvidersHeld /\ P!SweepUnwinds

\* An operation of the browser has its own answer, a snippet of code its own result
\* (CdpConnection.send, WorkerThreadRuntime.run).
OwnAnswers ==
  /\ scene \in {"cdp", "history"} => B!OwnAnswer /\ B!ActiveListed
  /\ scene = "worker" => W!OwnResult

\* No saved key is lost to a crash (CredentialStore.persist).
KeysDurable == scene = "credentials" => K!KeysDurable
=============================================================================
