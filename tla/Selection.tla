------------------------------- MODULE Selection -------------------------------
(***************************************************************************)
(* Array.prototype.filter and splice by the positions they keep, stated so *)
(* that SequenceLemmas can say what they return.                           *)
(***************************************************************************)
EXTENDS Naturals, FiniteSets

\* Of the positions in `at`, the k-th.
Nth(at, k) == CHOOSE i \in at : Cardinality({j \in at : j <= i}) = k

\* The elements of `s` at the positions in `at`, in their order.
ElementsAt(s, at) == [k \in 1 .. Cardinality(at) |-> s[Nth(at, k)]]

\* splice(indexOf(x), 1): all but the first x, if there is one.
Spliced(s, x) == ElementsAt(s, {i \in DOMAIN s : s[i] = x => \E j \in 1 .. i - 1 : s[j] = x})
=============================================================================
