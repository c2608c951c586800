------------------------------- MODULE SessionLog -------------------------------
(***************************************************************************)
(* What a SessionStore promises of the sessions on its disk, as whoever    *)
(* opens the directory next would find them: which sessions are listed,    *)
(* and the messages of each one's log.  A log only grows, but for being    *)
(* compacted or cleared, and only a cleared session leaves the list.       *)
(* SessionStore implements it; TonyRuntime is built on it.                 *)
(***************************************************************************)
EXTENDS Naturals, Sequences

CONSTANTS Session, Message

VARIABLES listed, log

Init == listed = {} /\ log = [s \in Session |-> << >>]

Subsequence(s, t) ==
  \E f \in [1 .. Len(s) -> 1 .. Len(t)] :
    /\ \A i, j \in 1 .. Len(s) : i < j => f[i] < f[j]
    /\ \A i \in 1 .. Len(s) : s[i] = t[f[i]]

Relist ==
  /\ listed' \in SUBSET Session
  /\ \A s \in listed \ listed' : log[s] = << >>
  /\ UNCHANGED log

\* One session's log becomes new, the others stay.
Becomes(s, new) ==
  /\ log' = [log EXCEPT ![s] = new]
  /\ UNCHANGED listed

Extend(s) == \E m \in Message : Becomes(s, Append(log[s], m))

\* A branch receives what it inherits.
Inherit(s, t) ==
  /\ log[s] = << >> /\ s # t
  /\ \E k \in 0 .. Len(log[t]) : Becomes(s, SubSeq(log[t], 1, k))

\* A summary takes the place of the messages that are not kept.
Compact(s) ==
  /\ log'[s] # << >> /\ Subsequence(Tail(log'[s]), log[s])
  /\ Becomes(s, log'[s])

Clear(s) == Becomes(s, << >>)

Next ==
  \/ Relist
  \/ \E s \in Session : Extend(s) \/ Compact(s) \/ Clear(s) \/ \E t \in Session : Inherit(s, t)

Spec == Init /\ [][Next]_<< listed, log >>
=============================================================================
