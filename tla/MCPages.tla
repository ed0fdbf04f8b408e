------------------------------ MODULE MCPages ------------------------------
(***************************************************************************)
(* Instance of Paging for TLC.  The alternatives of a query differ in      *)
(* nothing but their cutoffs.                                              *)
(***************************************************************************)
EXTENDS Paging, TLC

Symmetry == Permutations(Alternatives)
=============================================================================
