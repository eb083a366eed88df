------------------------------- MODULE StdList -------------------------------
(***************************************************************************)
(* What list::remove_if leaves of a list.                                  *)
(***************************************************************************)
EXTENDS Naturals, Sequences, FiniteSets

\* Each entry that is not removed takes the place its rank among those gives it.
Without(q, gone) ==
  LET kept == {i \in DOMAIN q : q[i] \notin gone}
      Rank(i) == Cardinality({j \in kept : j <= i})
  IN [n \in 1 .. Cardinality(kept) |-> q[CHOOSE i \in kept : Rank(i) = n]]
=============================================================================
