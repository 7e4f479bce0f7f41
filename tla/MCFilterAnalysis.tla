-------------------------- MODULE MCFilterAnalysis --------------------------
(***************************************************************************)
(* Two concurrent requests over two releases and two subcollections.       *)
(***************************************************************************)
EXTENDS FilterAnalysis

CONSTANTS k1, k2
=============================================================================
