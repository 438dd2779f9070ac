------------------------- MODULE HbmIndexRefinement -------------------------
(***************************************************************************)
(* The HBM index operators implement PinnedCache. The cache is the index    *)
(* without its NotFound entries; a request is pending while a lookup runs   *)
(* and its core has yet to store its answer. Launching maintain, gathering, *)
(* passing over slots and coming to a fault are stuttering steps.           *)
(***************************************************************************)
EXTENDS HbmIndex

\* The requests whose core has still to finish them.
Ahead == {r \in Reqs : req[CoreOf(r)] <= r}

Contents(r) ==
  [t \in {u \in Tokens : index[r][u] # NotFound} |-> index[r][t]]

Promise == INSTANCE PinnedCache WITH
  Requests <- Reqs,
  Keys     <- Tokens,
  Places   <- Slots,
  Batch    <- Positions,
  Hurried  <- {r \in Reqs : Followed(r)},
  Nothing  <- NotFound,
  cache    <- [r \in Reqs |-> Contents(r)],
  asked    <- query,
  answer   <- slotOut,
  pending  <- IF op = "lookup" THEN Ahead ELSE {}

(***************************************************************************)
(* Every step of the kernels is a step of the cache they promise: each      *)
(* allocation admits an asked token into an empty slot, each answer is the  *)
(* batch read at one instant, whole unless its core went on to another      *)
(* request, and maintain evicts no token of the last batch, answered or not.*)
(***************************************************************************)
ImplementsPinnedCache == Promise!Spec
=============================================================================
