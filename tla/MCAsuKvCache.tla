---------------------------- MODULE MCAsuKvCache ----------------------------
(* Instances of AsuKvCache for TLC. *)
EXTENDS AsuKvCache, TLC

\* Requests the scheduler treats alike may be exchanged (safety only).
AnyRequest == Permutations(Reqs)
=============================================================================
