--------------------------- MODULE SlotSimHistory ---------------------------
(***************************************************************************)
(* SlotSim with the history its order of eviction is judged by: when each  *)
(* token was last resolved, counted in tokens resolved.                     *)
(***************************************************************************)
EXTENDS SlotSim

VARIABLE lastUse

historyVars == <<vars, lastUse>>

UsesSoFar == total.hits + total.misses + stats.hits + stats.misses

InitH == Init /\ lastUse = [t \in Tokens |-> 0]

NextH ==
    /\ Next
    /\ lastUse' = IF Resolving THEN [lastUse EXCEPT ![Head(query)] = UsesSoFar + 1] ELSE lastUse

SpecH == InitH /\ [][NextH]_historyVars

\* Only prepare_free_slots takes a token's slot, and then that of the token
\* whose last use lies furthest back, over all requests.
EvictsOldest ==
    [][\A t \in ResidentTokens \ ResidentTokens' :
          /\ phase = "prepare"
          /\ \A u \in ResidentTokens' : lastUse[t] < lastUse[u]]_historyVars
=============================================================================
