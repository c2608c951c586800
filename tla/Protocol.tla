-------------------------------- MODULE Protocol --------------------------------
(***************************************************************************)
(* TonyClient (src/src/client/index.ts) and TonyServer                      *)
(* (src/src/server/index.ts) joined by a channel that keeps the order.  The  *)
(* client may start a run while another is under way, abort, steer, and      *)
(* authenticate at any time.                                                 *)
(***************************************************************************)
EXTENDS Naturals, Sequences, SequencesExt, FiniteSets

CONSTANTS MaxCalls, MaxAborts, MaxAuths   \* bounds of the model

VARIABLES
  guarded,        \* whether the server has an authToken
  authenticated,
  toServer, toClient,   \* what is written and not yet handled
  opening,        \* handleRun calls that wait for the repository
  active,         \* the agent's active run: its input and its aborted flag, or none
  awaiting,       \* handleRun calls that wait for the active run, in order
  unresolved,     \* the client's pending runs, oldest first
  resolved        \* of each run that resolved: the text and the flag it got

\* Auxiliary: the runs called, accepted by the server, and whether the client has
\* always waited, never aborted, and been neither refused nor failed.
VARIABLE clientPast

protocolVars == << guarded, authenticated, toServer, toClient, opening, active, awaiting,
                   unresolved, resolved, clientPast >>

Init ==
  /\ guarded = FALSE /\ authenticated = FALSE
  /\ toServer = << >> /\ toClient = << >> /\ opening = {} /\ active = {}
  /\ awaiting = << >> /\ unresolved = << >> /\ resolved = {}
  /\ clientPast = [calls |-> 0, aborts |-> 0, auths |-> 0, accepted |-> {}, tidy |-> TRUE,
              refused |-> FALSE]

\* The constructor, before the first command.
RequireToken ==
  /\ ~ guarded /\ clientPast.calls + clientPast.aborts + clientPast.auths = 0 /\ guarded' = TRUE
  /\ UNCHANGED << authenticated, toServer, toClient, opening, active, awaiting, unresolved,
                  resolved, clientPast >>

-------------------------------------------------------------------------------
(* The client *)

Command(type, arg) == [type |-> type, arg |-> arg]
RunEnd(text, aborted) == [type |-> "run_end", text |-> text, aborted |-> aborted]

Server == << guarded, authenticated, opening, active, awaiting >>

\* run(): the call waits in line for a run_end.
CallRun ==
  /\ clientPast.calls < MaxCalls
  /\ LET id == clientPast.calls + 1 IN
       /\ unresolved' = Append(unresolved, id)
       /\ toServer' = Append(toServer, Command("run", id))
       /\ clientPast' = [clientPast EXCEPT !.calls = id, !.tidy = @ /\ unresolved = << >>]
  /\ UNCHANGED << Server, toClient, resolved >>

\* steer() is a command of its own, which the server does not know.
CallSteer ==
  /\ clientPast.aborts < MaxAborts
  /\ toServer' = Append(toServer, Command("steer", 0))
  /\ clientPast' = [clientPast EXCEPT !.aborts = @ + 1]
  /\ UNCHANGED << Server, toClient, unresolved, resolved >>

CallAbort ==
  /\ clientPast.aborts < MaxAborts
  /\ toServer' = Append(toServer, Command("abort", 0))
  /\ clientPast' = [clientPast EXCEPT !.aborts = @ + 1, !.tidy = FALSE]
  /\ UNCHANGED << Server, toClient, unresolved, resolved >>

Authenticate(good) ==
  /\ clientPast.auths < MaxAuths
  /\ toServer' = Append(toServer, Command("auth", IF good THEN 1 ELSE 0))
  /\ clientPast' = [clientPast EXCEPT !.auths = @ + 1]
  /\ UNCHANGED << Server, toClient, unresolved, resolved >>

\* A slip: an aborted run_end resolves nothing.
ResolvesUnlessAborted(m) == m.type = "run_end" /\ ~ m.aborted
Resolves(m) == m.type = "run_end"

\* dispatch(): any run_end resolves the oldest pending run.
Dispatch ==
  /\ toClient # << >> /\ toClient' = Tail(toClient)
  /\ LET m == Head(toClient) IN
       IF Resolves(m) /\ unresolved # << >>
       THEN /\ unresolved' = Tail(unresolved)
            /\ resolved' = resolved \cup
                 {[id |-> Head(unresolved), text |-> m.text, aborted |-> m.aborted]}
       ELSE UNCHANGED << unresolved, resolved >>
  /\ UNCHANGED << Server, toServer, clientPast >>

-------------------------------------------------------------------------------
(* The server *)

Emit(messages) == toClient' = toClient \o messages
Says(type) == << [type |-> type, text |-> 0, aborted |-> FALSE] >>

\* Auth is looked at before the switch: a wrong token revokes an earlier right one,
\* and without a configured token `auth` is an unknown command.
Handle ==
  /\ toServer # << >> /\ toServer' = Tail(toServer)
  /\ LET c == Head(toServer)
         open == ~ guarded \/ authenticated
     IN /\ authenticated' = IF guarded /\ c.type = "auth" THEN c.arg = 1 ELSE authenticated
        /\ Emit(IF guarded /\ c.type = "auth" THEN Says("auth_result")
                ELSE IF ~ open THEN Says("unauthorized")
                ELSE IF c.type = "run" THEN << >>
                ELSE IF c.type = "abort" THEN << RunEnd(0, TRUE) >>
                ELSE Says("unknown_command"))
        /\ opening' = IF c.type = "run" /\ open THEN opening \cup {c.arg} ELSE opening
        /\ active' = IF c.type = "abort" /\ open
                     THEN {[r EXCEPT !.aborted = TRUE] : r \in active} ELSE active
        /\ clientPast' = IF c.type # "run" THEN clientPast
                    ELSE IF open THEN [clientPast EXCEPT !.accepted = @ \cup {c.arg}]
                    ELSE [clientPast EXCEPT !.refused = TRUE, !.tidy = FALSE]
  /\ UNCHANGED << guarded, awaiting, unresolved, resolved >>

\* handleRun() after repo.open(), in whatever order the opens return.  A run that is
\* active takes no second input: the call shares its outcome.
StartOrJoin(id) ==
  /\ id \in opening /\ opening' = opening \ {id}
  /\ active' = IF active = {} THEN {[input |-> id, aborted |-> FALSE]} ELSE active
  /\ awaiting' = Append(awaiting, id)
  /\ Emit(Says("agent_start"))
  /\ UNCHANGED << guarded, authenticated, toServer, unresolved, resolved, clientPast >>

EndRun(ends) ==
  /\ active # {} /\ active' = {} /\ awaiting' = << >>
  /\ Emit(ends)
  /\ UNCHANGED << guarded, authenticated, opening, toServer, unresolved, resolved, clientPast >>

Ends(r) == [i \in DOMAIN awaiting |-> RunEnd(r.input, r.aborted)]

\* Slips: the agent's own run_end is forwarded too; a joined call emits nothing.
AgentSettlesForwarding ==
  \E r \in active : EndRun(<< RunEnd(r.input, r.aborted) >> \o Ends(r))
AgentSettlesOnce == \E r \in active : EndRun(<< Head(Ends(r)) >>)

\* Every handleRun call that waits emits a run_end with the outcome.
AgentSettles == \E r \in active : EndRun(Ends(r))

\* complete() throws: handleRun rejects, and the client is told nothing.
AgentFails ==
  /\ active # {} /\ active' = {} /\ awaiting' = << >>
  /\ clientPast' = [clientPast EXCEPT !.refused = TRUE, !.tidy = FALSE]
  /\ UNCHANGED << guarded, authenticated, opening, toServer, toClient, unresolved, resolved >>

Progress == Dispatch \/ Handle \/ (\E id \in 1..MaxCalls : StartOrJoin(id)) \/ AgentSettles

Next ==
  \/ RequireToken \/ CallRun \/ CallSteer \/ CallAbort
  \/ \E good \in BOOLEAN : Authenticate(good)
  \/ Progress \/ AgentFails

\* The channel delivers, the repository answers and the agent's runs end.
ProtocolFairness ==
  /\ WF_protocolVars(Dispatch) /\ WF_protocolVars(Handle) /\ WF_protocolVars(AgentSettles)
  /\ WF_protocolVars(\E id \in 1..MaxCalls : StartOrJoin(id))
Spec == Init /\ [][Next]_protocolVars /\ ProtocolFairness

-------------------------------------------------------------------------------
(* Properties *)

\* The state is of the expected shape.
ProtocolTypeOK ==
  /\ {guarded, authenticated} \subseteq BOOLEAN /\ Cardinality(active) <= 1
  /\ \A c \in ToSet(toServer) : c.type \in {"auth", "run", "abort", "steer"}
  /\ opening \cup ToSet(awaiting) \cup ToSet(unresolved) \subseteq 1..MaxCalls
  /\ \A r \in resolved : r.id \in 1..MaxCalls /\ r.aborted \in BOOLEAN

\* A client that waits for each of its runs, never aborts and has met no refusal or
\* failure is told, for each run, the outcome of that very run.
OwnOutcome ==
  clientPast.tidy => \A r \in resolved : r.text = r.id /\ ~ r.aborted

\* Every run the server accepted is resolved, also one that joined another or was
\* aborted, as long as none before it was refused or failed.
RunsResolve ==
  \A id \in 1..MaxCalls :
    id \in clientPast.accepted ~> (clientPast.refused \/ id \notin ToSet(unresolved))
=============================================================================
