----------------------------- MODULE MCHbmIndex -----------------------------
(* Model-checking instances of HbmIndex. *)
EXTENDS HbmIndexRefinement

\* Any part of an answer may be lost.
MCLostParts == SUBSET Positions
=============================================================================
