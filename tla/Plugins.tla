--------------------------------- MODULE Plugins ---------------------------------
(***************************************************************************)
(* PluginRegistry (src/src/plugin/registry.ts) and ServiceRegistry              *)
(* (seams/registry.ts).  The setup of a plugin registers a provider of a service *)
(* and shows a tool for it through the ToolScope (tools/scope.ts), its effect      *)
(* takes both away again, as in query/plugin.ts and subagent/plugin.ts; disposers *)
(* are asynchronous and may fail, and nothing keeps two unmounts of a plugin       *)
(* apart.  The tool of a plugin has the plugin's name.                             *)
(***************************************************************************)
EXTENDS Integers, Sequences, SequencesExt, FiniteSets, Selection

CONSTANTS
  Names, Service,      \* the plugins and the service each provides
  Unmounters, ServiceCalls,   \* the callers of the model
  MaxMounts, MaxUnmounts     \* bounds

VARIABLES
  mounted, order,      \* of each mounted plugin its number; the names, oldest first
  providers,           \* of each service: the numbers of the plugins that provide it
  shadows, denied,     \* of the scope: the service behind each tool; the tools denied
  unmounts,            \* of each caller of unmount(): what it disposes, or nothing
  sweep,               \* unmountAll()
  active, closing, closed, expired   \* the tracked calls of services, and dispose()

\* Auxiliary: the plugins in the order they were mounted in and were disposed in.
VARIABLES mounts, disposed

registered == << providers, shadows, denied >>
pluginVars == << mounted, order, registered, unmounts, sweep, mounts, disposed >>
serviceVars == << active, closing, closed, expired >>

Idle == [name |-> "none", number |-> 0]
NoSweep == [at |-> "no", left |-> << >>, from |-> << >>, since |-> 0]

Init ==
  /\ mounted = << >> /\ order = << >> /\ providers = [s \in {Service[n] : n \in Names} |-> << >>]
  /\ shadows = << >> /\ denied = {}
  /\ unmounts = [u \in Unmounters |-> Idle] /\ sweep = NoSweep
  /\ active = {} /\ closing = FALSE /\ closed = FALSE /\ expired = FALSE
  /\ mounts = << >> /\ disposed = << >>

-------------------------------------------------------------------------------
(* Plugins *)

Register(stack, number) == Append(stack, number)
\* The disposer that register() returned: it looks for its own entry.
Unregister(stack, number) == Spliced(stack, number)
\* resolve(): the service of the provider that was registered last.
Resolve(stack) == Last(stack)

Shadow(n, service) == shadows' = [m \in DOMAIN shadows \cup {n} |-> IF m = n THEN service ELSE shadows[m]]
\* A slip: nothing is denied.
DenyNone(n) == denied' = denied
Deny(n) == denied' = denied \cup {n}
\* What a scope without allowances resolves: a denial stays, whatever shadows come later.
Shown(n) == n \in DOMAIN shadows /\ n \notin denied

\* The setup of a plugin.  It throws if its service has a provider already.
Setup(n, number) ==
  /\ providers[Service[n]] = << >>
  /\ providers' = [providers EXCEPT ![Service[n]] = Register(@, number)]
  /\ Shadow(n, Resolve(providers'[Service[n]])) /\ UNCHANGED denied

\* mount(): setup runs first, and what it throws mounts nothing.
Mount(n) ==
  /\ n \notin DOMAIN mounted /\ Len(mounts) < MaxMounts
  /\ LET number == Len(mounts) + 1
     IN /\ Setup(n, number) /\ mounts' = Append(mounts, n)
        /\ mounted' = [m \in DOMAIN mounted \cup {n} |-> IF m = n THEN number ELSE mounted[m]]
  /\ order' = Append(order, n)
  /\ UNCHANGED << unmounts, sweep, disposed >> /\ UNCHANGED serviceVars

\* unmount() up to its await: the effect is disposed of.
Begin(n) ==
  /\ providers' = [providers EXCEPT ![Service[n]] = Unregister(@, mounted[n])]
  /\ Deny(n) /\ UNCHANGED shadows
  /\ disposed' = Append(disposed, mounted[n])

\* unmount() after its await: whatever has the name now is forgotten.
Forget(n) ==
  /\ mounted' = [m \in DOMAIN mounted \ {n} |-> mounted[m]]
  /\ order' = Spliced(order, n)

Unmount(u, n) ==
  /\ unmounts[u] = Idle /\ n \in DOMAIN mounted /\ Len(disposed) < MaxUnmounts
  /\ Begin(n) /\ unmounts' = [unmounts EXCEPT ![u] = [name |-> n, number |-> mounted[n]]]
  /\ UNCHANGED << mounted, order, sweep, mounts >> /\ UNCHANGED serviceVars

Unmounted(u) ==
  /\ unmounts[u] # Idle /\ Forget(unmounts[u].name) /\ unmounts' = [unmounts EXCEPT ![u] = Idle]
  /\ UNCHANGED << registered, sweep, mounts, disposed >> /\ UNCHANGED serviceVars

\* A disposer that rejects leaves its plugin mounted.
UnmountFails(u) ==
  /\ unmounts[u] # Idle /\ unmounts' = [unmounts EXCEPT ![u] = Idle]
  /\ UNCHANGED << mounted, order, registered, sweep, mounts, disposed >> /\ UNCHANGED serviceVars

SweepOrder(names) == Reverse(names)

UnmountAll ==
  /\ sweep.at = "no"
  /\ sweep' = [at |-> IF order = << >> THEN "done" ELSE "next", left |-> SweepOrder(order),
               from |-> [i \in DOMAIN order |-> mounted[order[i]]], since |-> Len(disposed)]
  /\ UNCHANGED << mounted, order, registered, unmounts, mounts, disposed >>
  /\ UNCHANGED serviceVars

\* The sweep throws at a name that somebody else has unmounted, and where a disposer does.
SweepNext ==
  /\ sweep.at = "next"
  /\ IF Head(sweep.left) \in DOMAIN mounted
     THEN Begin(Head(sweep.left)) /\ sweep' = [sweep EXCEPT !.at = "disposing"]
     ELSE sweep' = [sweep EXCEPT !.at = "failed"] /\ UNCHANGED << registered, disposed >>
  /\ UNCHANGED << mounted, order, unmounts, mounts >> /\ UNCHANGED serviceVars

SweepForgets ==
  /\ sweep.at = "disposing" /\ Forget(Head(sweep.left))
  /\ sweep' = [sweep EXCEPT !.left = Tail(@), !.at = IF Len(sweep.left) = 1 THEN "done" ELSE "next"]
  /\ UNCHANGED << registered, unmounts, mounts, disposed >> /\ UNCHANGED serviceVars

SweepFails ==
  /\ sweep.at = "disposing" /\ sweep' = [sweep EXCEPT !.at = "failed"]
  /\ UNCHANGED << mounted, order, registered, unmounts, mounts, disposed >>
  /\ UNCHANGED serviceVars

-------------------------------------------------------------------------------
(* Calls of services: nothing of the plugins reads or changes their state *)

\* withActive()
Track(c) ==
  /\ c \notin active /\ ~ closed /\ active' = active \cup {c}
  /\ UNCHANGED << closing, closed, expired >> /\ UNCHANGED pluginVars

CallSettles(c) ==
  /\ c \in active /\ active' = active \ {c}
  /\ UNCHANGED << closing, closed, expired >> /\ UNCHANGED pluginVars

Close == closing' = TRUE /\ ~ closing /\ UNCHANGED << active, closed, expired >> /\ UNCHANGED pluginVars

\* The loop of dispose() looks at the calls that are tracked now.
Quiet == closing /\ active = {}

Closed ==
  /\ Quiet /\ ~ closed /\ closed' = TRUE
  /\ UNCHANGED << active, closing, expired >> /\ UNCHANGED pluginVars

Expire ==
  /\ closing /\ ~ closed /\ active # {} /\ closed' = TRUE /\ expired' = TRUE
  /\ UNCHANGED << active, closing >> /\ UNCHANGED pluginVars

PluginNext ==
  \/ \E n \in Names : Mount(n) \/ \E u \in Unmounters : Unmount(u, n)
  \/ \E u \in Unmounters : Unmounted(u) \/ UnmountFails(u)
  \/ UnmountAll \/ SweepNext \/ SweepForgets \/ SweepFails

ServiceNext ==
  \/ \E c \in ServiceCalls : Track(c) \/ CallSettles(c)
  \/ Close \/ Closed \/ Expire

Next == PluginNext \/ ServiceNext

Spec == Init /\ [][Next]_<< pluginVars, serviceVars >>

-------------------------------------------------------------------------------
(* Properties *)

\* The state is of the expected shape.
PluginTypeOK ==
  /\ DOMAIN mounted \subseteq Names /\ \A n \in DOMAIN mounted : mounts[mounted[n]] = n
  /\ \A n \in Names : Service[n] \in DOMAIN providers

\* A service has one provider at most, never that of a plugin whose effect has been
\* disposed of; a mounted plugin keeps its provider until its own disposal, however
\* the unmounts of it and of a plugin before it overlap; and no tool is shown whose
\* service has gone.
ProvidersHeld ==
  /\ \A s \in DOMAIN providers :
       /\ Len(providers[s]) <= 1 /\ ToSet(providers[s]) \cap ToSet(disposed) = {}
  /\ \A n \in DOMAIN mounted :
       mounted[n] \notin ToSet(disposed) => mounted[n] \in ToSet(providers[Service[n]])
  /\ \A n \in Names : Shown(n) => shadows[n] \in ToSet(providers[Service[n]])

\* An unmountAll() that does not throw has disposed of everything that was mounted
\* when it began, the newest first, unless one of them was mounted anew meanwhile.
SweepUnwinds ==
  sweep.at = "done" /\ (\A i \in DOMAIN sweep.from :
                          \A k \in sweep.from[i] + 1 .. Len(mounts) : mounts[k] # mounts[sweep.from[i]]) =>
    LET during == SubSeq(disposed, sweep.since + 1, Len(disposed))
    IN \A i, j \in DOMAIN sweep.from : i <= j =>
         \E k, l \in DOMAIN during : k <= l /\ during[k] = sweep.from[j] /\ during[l] = sweep.from[i]

\* When dispose() of the services is over without having run out of time, no call is
\* under way, not one that began while it waited either.
ServicesQuiescent == closed /\ ~ expired => active = {}
=============================================================================
