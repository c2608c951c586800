----------------------------- MODULE AgentContract -----------------------------
(***************************************************************************)
(* What the rest of the system may rely on about an agent: one run at a    *)
(* time, and a run, however it ends, turns the conversation it started     *)
(* from into that conversation followed by its prompt and whatever else it *)
(* said.  TonyAgent implements it; TonyRuntime is built on it.             *)
(***************************************************************************)
EXTENDS Naturals, Sequences

CONSTANTS Message, Prompts   \* Prompts: the messages that open a run

VARIABLES
  running,
  base,          \* the conversation the current or latest run started from
  conversation

vars == << running, base, conversation >>

\* new is old followed by a prompt and possibly more.
Grown(old, new) ==
  /\ Len(new) > Len(old)
  /\ \A i \in 1 .. Len(old) : new[i] = old[i]
  /\ new[Len(old) + 1] \in Prompts

Init == running = FALSE /\ base = << >> /\ conversation = << >>

Begin ==
  /\ ~ running
  /\ running' = TRUE
  /\ base' = conversation
  /\ UNCHANGED conversation

End ==
  /\ running
  /\ running' = FALSE
  /\ conversation' \in Seq(Message)
  /\ Grown(base, conversation')
  /\ UNCHANGED base

\* setHistory replaces the conversation only between runs.
Replace ==
  /\ ~ running
  /\ conversation' \in Seq(Message)
  /\ UNCHANGED << running, base >>

\* reset empties it at any time; a run that is active will overwrite that.
Clear == conversation' = << >> /\ UNCHANGED << running, base >>

Next == Begin \/ End \/ Replace \/ Clear

Spec == Init /\ [][Next]_vars
=============================================================================
