------------------------ MODULE SimtLookupRefinement ------------------------
(***************************************************************************)
(* The SIMT kernel implements BatchLru. While it runs, the promised state   *)
(* is the one at its launch, which the history variable prior keeps; the    *)
(* whole batch happens when the host sees the kernel's end.                 *)
(***************************************************************************)
EXTENDS SimtLookup

VARIABLE prior

historyVars == <<vars, prior>>

InitH == Init /\ prior = <<tables, outputs>>

NextH ==
  /\ Next
  /\ prior' = IF op = "idle" THEN <<tables, outputs>> ELSE prior

SpecH == InitH /\ [][NextH]_historyVars

FairSpecH ==
  /\ SpecH
  /\ WF_historyVars(HostSync /\ prior' = prior)
  /\ \A t \in Tids : WF_historyVars(ThreadStep(t) /\ prior' = prior)

Running == op = "lookup"

Mask == IF Running THEN prior[2][2] ELSE missMask

Promise == INSTANCE BatchLru WITH
  Keys    <- Tokens,
  Places  <- Slots,
  Batch   <- Positions,
  NoPlace <- NotFound,
  NoKey   <- NotFound,
  place   <- IF Running THEN prior[1][1] ELSE tokenToSlot,
  key     <- IF Running THEN prior[1][2] ELSE slotToToken,
  order   <- IF Running THEN prior[1][3] ELSE lru,
  asked   <- query,
  slots   <- IF Running THEN prior[2][1] ELSE slotIds,
  loads   <- {p \in Positions : Mask[p]},
  pending <- Running

(***************************************************************************)
(* Whatever the interleaving of the threads, the kernel leaves the maps,    *)
(* the LRU order and the answer of one atomic batch lookup in which some    *)
(* position of each missing token leads. That every launch comes to that    *)
(* is KernelReturns.                                                        *)
(***************************************************************************)
ImplementsBatchLru == Promise!Spec
=============================================================================
