------------------------------ MODULE BatchLru ------------------------------
(***************************************************************************)
(* What the SIMT lookup promises, as one step per batch: hits move to the   *)
(* most recently used end, every distinct missing token takes the least     *)
(* recently used slot nobody hit, and exactly one of its positions is told  *)
(* to load it.                                                              *)
(***************************************************************************)
EXTENDS Integers, FiniteSets

CONSTANTS Keys, Places, Batch, NoPlace, NoKey

VARIABLES
  place,   \* place[k]: slot of token k, or NoPlace
  key,     \* key[s]: token in slot s, or NoKey
  order,   \* order[i]: slot of rank i, the least recently used first
  asked,   \* tokens of the batch
  slots,   \* answer: slot of each position
  loads,   \* answer: positions that load their token
  pending  \* a batch is being looked up

tables == <<place, key, order>>
answer == <<slots, loads>>
vars == <<tables, answer, asked, pending>>

Valid(i) == asked[i] \in Keys
Missing  == {i \in Batch : Valid(i) /\ place[asked[i]] = NoPlace}
Hit      == {place[asked[i]] : i \in {j \in Batch : Valid(j)} \ Missing}

\* One position per distinct missing token.
Leaders(L) ==
  /\ L \subseteq Missing
  /\ \A i \in Missing : \E l \in L : asked[l] = asked[i]
  /\ \A l, m \in L : asked[l] = asked[m] => l = m

Offset(S, i) == Cardinality({j \in S : j < i})

Ranks     == DOMAIN order
HitRanks  == {i \in Ranks : order[i] \in Hit}
FreeRanks == Ranks \ HitRanks

\* The n-th leader takes the n-th slot nobody hit.
Takes(L, l, i) == i \in FreeRanks /\ Offset(FreeRanks, i) = Offset(L, l)

TakenBy(L, l) == order[CHOOSE i \in FreeRanks : Takes(L, l, i)]

\* Free slots nobody took first, then the n taken ones, then the hit ones.
NewRank(n, i) ==
  LET free == Cardinality(FreeRanks) IN
    CASE i \in HitRanks -> free + Offset(HitRanks, i)
      [] i \notin HitRanks /\ Offset(FreeRanks, i) < n -> free - n + Offset(FreeRanks, i)
      [] OTHER -> Offset(FreeRanks, i) - n

Init ==
  /\ \A k \in Keys : place[k] # NoPlace => key[place[k]] = k
  /\ \A s \in Places : key[s] # NoKey => place[key[s]] = s
  /\ \A i, j \in Ranks : order[i] = order[j] => i = j
  /\ pending = FALSE

Ask ==
  /\ ~pending
  /\ pending' = TRUE
  /\ asked' \in [Batch -> Int]
  /\ UNCHANGED <<tables, answer>>

Look(L) ==
  /\ pending
  /\ Leaders(L)
  /\ pending' = FALSE
  /\ loads' = L
  /\ key' = [s \in Places |->
       IF \E l \in L : TakenBy(L, l) = s
       THEN asked[CHOOSE l \in L : TakenBy(L, l) = s] ELSE key[s]]
  /\ place' = [k \in Keys |->
       IF \E s \in Places : key'[s] = k
       THEN CHOOSE s \in Places : key'[s] = k ELSE NoPlace]
  /\ order' = [r \in Ranks |->
       order[CHOOSE i \in Ranks : NewRank(Cardinality(L), i) = r]]
  /\ slots' = [i \in Batch |-> IF Valid(i) THEN place'[asked[i]] ELSE NoPlace]
  /\ UNCHANGED asked

Next == Ask \/ \E L \in SUBSET Missing : Look(L)

Spec == Init /\ [][Next]_vars
=============================================================================
