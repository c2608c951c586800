----------------------------- MODULE MCSessionStore -----------------------------
(* Instances of SessionStore for TLC. *)
EXTENDS SessionStore, TLC

CONSTANTS c1, c2, s1, s2, s3

\* Clients are alike and so are session ids.
Alike == Permutations(Clients) \cup Permutations(Session)
=============================================================================
