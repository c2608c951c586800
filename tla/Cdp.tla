----------------------------------- MODULE Cdp -----------------------------------
(***************************************************************************)
(* CdpBrowserAdapter and CdpConnection (src/src/host/cdp.ts): the operations on  *)
(* pages and tabs, each of which lists the targets first, the sockets they share, *)
(* and the answers that come back, in any order, late or never.  The browser,      *)
(* which opens and closes tabs and sockets as it likes, is the environment.        *)
(***************************************************************************)
EXTENDS Integers, Sequences, SequencesExt, FiniteSets, Selection

CONSTANTS
  Tabs, Nothing,        \* what tabs there can be; no tab
  Ops,                  \* the calls of the adapter's operations
  MaxSockets, MaxTabChanges   \* bounds of the model

VARIABLES
  tabs,            \* the tabs of the browser
  targets, activeId,
  connections,     \* of the tabs that have one: the number of their socket
  sockets,         \* every socket: its tab, its state, nextId, what is pending
  requests,        \* those the browser has not answered
  ops,             \* of each operation: what it does and how far it is
  tabChanges

browserVars == << tabs, tabChanges >>
adapterVars == << targets, activeId, connections, sockets >>
cdpVars == << browserVars, adapterVars, requests, ops >>

Unused == [kind |-> "none", tab |-> Nothing, at |-> "no", listing |-> {}, socket |-> 0, id |-> 0,
           answer |-> << >>]

Init ==
  /\ tabs = Tabs /\ targets = << >> /\ activeId = Nothing /\ connections = << >> /\ sockets = << >>
  /\ requests = {} /\ ops = [o \in Ops |-> Unused] /\ tabChanges = 0

-------------------------------------------------------------------------------
(* The browser *)

ChangeTabs(t) ==
  /\ tabChanges < MaxTabChanges /\ tabChanges' = tabChanges + 1
  /\ tabs' = IF t \in tabs THEN tabs \ {t} ELSE tabs \cup {t}
  /\ UNCHANGED << requests, ops >> /\ UNCHANGED adapterVars

\* The answer to a request for the list, or to one to open or to close a tab.
Serve(o) ==
  /\ ops[o].at = "asked"
  /\ ops' = [ops EXCEPT ![o].at = "served", ![o].listing = tabs]
  /\ tabs' = (IF ops[o].kind = "close" THEN tabs \ {ops[o].tab} ELSE tabs)
               \cup IF ops[o].kind = "open" THEN {ops[o].tab} ELSE {}
  /\ UNCHANGED << requests, tabChanges >> /\ UNCHANGED adapterVars

SetSocket(s, state) == sockets' = [sockets EXCEPT ![s].state = state]

Opened(s) ==
  /\ sockets[s].state = "connecting" /\ SetSocket(s, "open")
  /\ UNCHANGED << targets, activeId, connections, requests, ops >> /\ UNCHANGED browserVars

\* `opened` rejects, for every call there is and will be.
OpenFails(s) ==
  /\ sockets[s].state = "connecting" /\ SetSocket(s, "failed")
  /\ UNCHANGED << targets, activeId, connections, requests, ops >> /\ UNCHANGED browserVars

-------------------------------------------------------------------------------
(* CdpConnection *)

Rejected(s) ==
  [o \in Ops |-> IF ops[o].at = "sent" /\ ops[o].socket = s
                    /\ ops[o].id \in DOMAIN sockets[s].pending
                 THEN [ops[o] EXCEPT !.at = "failed"] ELSE ops[o]]
Shut(s) == [sockets[s] EXCEPT !.pending = << >>,
                              !.state = IF @ = "connecting" THEN "failed" ELSE "closed"]

\* A socket that closes rejects what is pending and stays in `connections`.
SocketCloses(s) ==
  /\ sockets[s].state = "open" /\ sockets' = [sockets EXCEPT ![s] = Shut(s)] /\ ops' = Rejected(s)
  /\ UNCHANGED << targets, activeId, connections, requests >> /\ UNCHANGED browserVars

With(pending, id, o) == [i \in DOMAIN pending \cup {id} |-> IF i = id THEN o ELSE pending[i]]
Without(pending, id) == [i \in DOMAIN pending \ {id} |-> pending[i]]

\* The first two ids are those of Page.enable and Runtime.enable.
NextId(s) == sockets[s].nextId

\* call() after its await of `opened`: a closed socket swallows the message.
Send(o) ==
  LET s == ops[o].socket
      id == NextId(s)
  IN /\ ops[o].at = "opening" /\ sockets[s].state \in {"open", "closed"}
     /\ sockets' = [sockets EXCEPT ![s].nextId = @ + 1, ![s].pending = With(@, id, o)]
     /\ ops' = [ops EXCEPT ![o].at = "sent", ![o].id = id]
     /\ requests' = IF sockets[s].state = "open"
                   THEN requests \cup {[socket |-> s, id |-> id, op |-> o]} ELSE requests
     /\ UNCHANGED << targets, activeId, connections >> /\ UNCHANGED browserVars

NotOpened(o) ==
  /\ ops[o].at = "opening" /\ sockets[ops[o].socket].state = "failed"
  /\ ops' = [ops EXCEPT ![o].at = "failed"]
  /\ UNCHANGED requests /\ UNCHANGED adapterVars /\ UNCHANGED browserVars

\* What an answer makes of the operation that has it: historyMove() goes on with a
\* second call, for the tab that is active by then, if there is an entry to move to.
Answered(op, answer) ==
  {[op EXCEPT !.at = "done", !.answer = << answer >>]}
    \cup (IF op.kind = "history" THEN {[Unused EXCEPT !.kind = "page", !.at = "asked"]} ELSE {})

\* onMessage(): an answer nobody waits for is dropped.
Message(m) ==
  /\ sockets[m.socket].state = "open" /\ requests' = requests \ {m}
  /\ LET pending == sockets[m.socket].pending
     IN IF m.id \in DOMAIN pending
        THEN /\ sockets' = [sockets EXCEPT ![m.socket].pending = Without(@, m.id)]
             /\ \E op \in Answered(ops[pending[m.id]], m.op) : ops' = [ops EXCEPT ![pending[m.id]] = op]
        ELSE UNCHANGED << sockets, ops >>
  /\ UNCHANGED << targets, activeId, connections >> /\ UNCHANGED browserVars

CallTimeout(o) ==
  /\ ops[o].at = "sent" /\ ops' = [ops EXCEPT ![o].at = "failed"]
  /\ sockets' = [sockets EXCEPT ![ops[o].socket].pending = Without(@, ops[o].id)]
  /\ UNCHANGED << targets, activeId, connections, requests >> /\ UNCHANGED browserVars

-------------------------------------------------------------------------------
(* CdpBrowserAdapter *)

\* Every operation begins with a request.
Ask(o, kind, tab) ==
  /\ ops[o].at = "no" /\ ops' = [ops EXCEPT ![o] = [Unused EXCEPT !.kind = kind, !.tab = tab, !.at = "asked"]]
  /\ UNCHANGED requests /\ UNCHANGED adapterVars /\ UNCHANGED browserVars

FirstOf(list) == IF list = << >> THEN Nothing ELSE list[1]

ActiveIn(list) == IF activeId \in ToSet(list) THEN activeId ELSE FirstOf(list)

\* What refresh() leaves when its list has come: the sockets of tabs it lacks are shut,
\* with the calls that wait on them.
Kept(listing) == DOMAIN connections \cap listing
Gone(listing) == {connections[t] : t \in DOMAIN connections \ listing}
Cleared(shut) == [s \in DOMAIN sockets |-> IF s \in shut THEN Shut(s) ELSE sockets[s]]
Others(shut) ==
  [p \in Ops |-> IF ops[p].at = "sent" /\ ops[p].socket \in shut
                 THEN [ops[p] EXCEPT !.at = "failed"] ELSE ops[p]]

KeepConnections(listing) ==
  /\ connections' = [t \in Kept(listing) |-> connections[t]] /\ sockets' = Cleared(Gone(listing))
EndAt(o, at, s) ==
  ops' = [Others(Gone(ops[o].listing)) EXCEPT ![o].at = at, ![o].socket = s, ![o].listing = {}]

\* connectionFor(): the connection of the tab, or a new one.
ConnectionFor(o, t) ==
  LET listing == ops[o].listing
      new == Len(sockets) + 1
  IN \/ t \in Kept(listing) /\ KeepConnections(listing) /\ EndAt(o, "opening", connections[t])
     \/ /\ t \notin Kept(listing) /\ new <= MaxSockets
        /\ connections' = [x \in Kept(listing) \cup {t} |-> IF x = t THEN new ELSE connections[x]]
        /\ sockets' = Append(Cleared(Gone(listing)),
                             [tab |-> t, state |-> "connecting", nextId |-> 3, pending |-> << >>])
        /\ EndAt(o, "opening", new)

\* refresh() and what follows: an operation on the page looks for the connection of the
\* active tab, and selectTab makes a listed tab the active one.
Listed(o) ==
  LET listing == ops[o].listing
      list == SetToSeq(listing)
      active == ActiveIn(list)
  IN /\ ops[o].at = "served" /\ targets' = list
     /\ \/ /\ ops[o].kind = "select" /\ KeepConnections(listing) /\ EndAt(o, "done", 0)
           /\ activeId' = IF ops[o].tab \in listing THEN ops[o].tab ELSE active
        \/ /\ ops[o].kind \in {"page", "history"} /\ activeId' = active
           /\ IF active = Nothing THEN KeepConnections(listing) /\ EndAt(o, "failed", 0)
              ELSE ConnectionFor(o, active)
     /\ UNCHANGED requests /\ UNCHANGED browserVars

\* close(): the connections go, the operations in progress do not know.
CloseAdapter ==
  /\ connections # << >> /\ connections' = << >>
  /\ sockets' = Cleared(Gone({})) /\ ops' = Others(Gone({}))
  /\ UNCHANGED << targets, activeId, requests >> /\ UNCHANGED browserVars

\* openTab(): the new tab is the active one.
TabOpened(o) ==
  /\ ops[o].at = "served" /\ ops[o].kind = "open" /\ ops' = [ops EXCEPT ![o].at = "done"]
  /\ targets' = IF ops[o].tab \in ToSet(targets) THEN targets ELSE Append(targets, ops[o].tab)
  /\ activeId' = ops[o].tab
  /\ UNCHANGED << connections, sockets, requests >> /\ UNCHANGED browserVars

\* closeTab()
TabClosed(o) ==
  LET t == ops[o].tab
      s == IF t \in DOMAIN connections THEN connections[t] ELSE 0
      others == ElementsAt(targets, {i \in DOMAIN targets : targets[i] # t})
  IN /\ ops[o].at = "served" /\ ops[o].kind = "close" /\ targets' = others
     /\ activeId' = IF activeId = t THEN FirstOf(others) ELSE activeId
     /\ connections' = [x \in DOMAIN connections \ {t} |-> connections[x]]
     /\ sockets' = [x \in DOMAIN sockets |-> IF x = s THEN Shut(x) ELSE sockets[x]]
     /\ ops' = [(IF s = 0 THEN ops ELSE Rejected(s)) EXCEPT ![o].at = "done"]
     /\ UNCHANGED requests /\ UNCHANGED browserVars

Next ==
  \/ \E t \in Tabs : ChangeTabs(t)
  \/ \E o \in Ops, t \in Tabs : \E kind \in {"select", "open", "close"} :
       (kind = "open" => t \notin tabs) /\ Ask(o, kind, t)
  \/ CloseAdapter
  \/ \E o \in Ops : \/ Ask(o, "page", Nothing) \/ Ask(o, "history", Nothing) \/ Serve(o) \/ Listed(o) \/ TabOpened(o) \/ TabClosed(o)
                    \/ Send(o) \/ NotOpened(o) \/ CallTimeout(o)
  \/ \E s \in DOMAIN sockets : Opened(s) \/ OpenFails(s) \/ SocketCloses(s)
  \/ \E m \in requests : Message(m)

Spec == Init /\ [][Next]_cdpVars

-------------------------------------------------------------------------------
(* Properties *)

\* The state is of the expected shape.
CdpTypeOK ==
  /\ tabs \subseteq Tabs /\ Len(sockets) <= MaxSockets
  /\ \A t \in DOMAIN connections : sockets[connections[t]].tab = t
  /\ \A o \in Ops : ops[o].at \in {"no", "asked", "served", "opening", "sent", "done", "failed"}

\* A page operation that succeeds has the answer to its own message, although ids
\* start anew on every socket and answers of calls that timed out come in late; and
\* one that waits for an answer can still be answered, rejected or timed out.
OwnAnswer ==
  \A o \in Ops :
    /\ ops[o].kind \in {"page", "history"} /\ ops[o].at = "done" => ops[o].answer = << o >>
    /\ ops[o].at = "sent" => /\ ops[o].id \in DOMAIN sockets[ops[o].socket].pending
                             /\ sockets[ops[o].socket].pending[ops[o].id] = o

\* The active tab is one of the targets, in whatever order the lists of several
\* operations come back; there is none only if there are no targets.
ActiveListed ==
  IF targets = << >> THEN activeId = Nothing ELSE activeId \in ToSet(targets)
=============================================================================
