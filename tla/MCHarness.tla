------------------------------ MODULE MCHarness ------------------------------
(* Instances of Harness for TLC. *)
EXTENDS Harness

CONSTANTS t, u    \* two tools

(* Four ways to build an agent *)

Plain ==
  [tools |-> {t, u}, scoped |-> FALSE, allows |-> {}, denies |-> {}, shadows |-> {},
   risky |-> {}, approval |-> "resolver", fallback |-> "deny", batch |-> "parallel",
   maxTurns |-> 2, maxToolCalls |-> 2, hooks |-> {}]

MCAgentOptions ==
  {[Plain EXCEPT !.hooks = {"before"}, !.maxTurns = 1, !.risky = {<< t, "global" >>}],
   [Plain EXCEPT !.hooks = {"after", "stop"}, !.batch = "sequential"],
   [Plain EXCEPT !.scoped = TRUE, !.allows = {u}, !.denies = {t}, !.approval = "absent"],
   [Plain EXCEPT !.scoped = TRUE, !.allows = {t, u}, !.shadows = {u}, !.risky = {<< u, "shadow" >>},
                 !.approval = "fallback", !.batch = "sequential", !.maxTurns = 1,
                 !.hooks = {"transform"}]}

\* Two calls that can be run, or one whose arguments do not parse.
MCRequested == {<< << t, TRUE >>, << u, TRUE >> >>, << << u, FALSE >> >>}
=============================================================================
