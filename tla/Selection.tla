----------------------------- MODULE Selection -----------------------------
(****************************************************************************)
(* The entries of a list that are in a set, in their order: what the loops  *)
(* of the loaders that skip some of the entries go over.  It says what      *)
(* SelectSeq of Sequences says, without recursion, so that it can be        *)
(* reasoned about.                                                          *)
(****************************************************************************)
EXTENDS Naturals, Sequences, FiniteSets, SequencesExt

\* The entries of s that are in S, in their order.
Selected(s, S) ==
    LET at == {k \in DOMAIN s : s[k] \in S}
    IN  [j \in 1..Cardinality(at) |-> s[CHOOSE k \in at : Cardinality({l \in at : l <= k}) = j]]

=============================================================================
