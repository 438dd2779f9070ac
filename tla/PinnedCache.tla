---------------------------- MODULE PinnedCache ----------------------------
(***************************************************************************)
(* What the HBM index promises, without pools, bitmaps or cores: a fully    *)
(* associative cache per request. A batch of tokens is asked for, missing   *)
(* ones are admitted into empty slots, the answer gives every asked token   *)
(* its slot; only the answer to a hurried request may leave some out.       *)
(* Between batches tokens leave one by one, never one of the last batch,    *)
(* and never beyond FreeCount empty slots.                                  *)
(***************************************************************************)
EXTENDS Integers, FiniteSets

CONSTANTS
  Requests, Keys, Places, \* requests, their tokens and their slots
  Batch,                  \* positions of a batch of queries
  Hurried,                \* requests whose answer may be incomplete
  Nothing,                \* stands where it is
  FreeCount               \* empty slots a request is entitled to

VARIABLES
  cache,   \* cache[r]: injective function from resident tokens to slots
  asked,   \* asked[r]: the last batch of tokens
  answer,  \* answer[r]: their slots, as far as they were given
  pending  \* requests whose batch is not answered yet

vars == <<cache, asked, answer, pending>>

Resident(r) == DOMAIN cache[r]
Wanted(r)   == {asked[r][i] : i \in Batch}
Empty(r)    == Places \ {cache[r][t] : t \in Resident(r)}

Init ==
  /\ \A r \in Requests :
       /\ Resident(r) \subseteq Keys
       /\ \A t \in Resident(r) : cache[r][t] \in Places
       /\ \A t, u \in Resident(r) : cache[r][t] = cache[r][u] => t = u
  /\ pending = {}

Ask ==
  /\ pending = {}
  /\ asked' \in [Requests -> [Batch -> Keys]]
  /\ pending' = Requests
  /\ UNCHANGED <<cache, answer>>

Admit(r) ==
  /\ r \in pending
  /\ \E t \in Wanted(r) \ Resident(r), s \in Empty(r) :
       cache' = [cache EXCEPT ![r] =
                   [u \in Resident(r) \cup {t} |->
                      IF u = t THEN s ELSE cache[r][u]]]
  /\ UNCHANGED <<asked, answer, pending>>

Answer(r) ==
  /\ r \in pending
  /\ Wanted(r) \subseteq Resident(r)
  /\ \E left \in IF r \in Hurried THEN SUBSET Batch ELSE {{}} :
       answer' = [answer EXCEPT ![r] =
                    [i \in Batch |-> IF i \in left THEN Nothing
                                    ELSE cache[r][asked[r][i]]]]
  /\ pending' = pending \ {r}
  /\ UNCHANGED <<cache, asked>>

Evict(r) ==
  /\ pending = {}
  /\ Cardinality(Empty(r)) < FreeCount
  /\ \E t \in Resident(r) \ Wanted(r) :
       cache' = [cache EXCEPT ![r] =
                   [u \in Resident(r) \ {t} |-> cache[r][u]]]
  /\ UNCHANGED <<asked, answer, pending>>

Next == Ask \/ \E r \in Requests : Admit(r) \/ Answer(r) \/ Evict(r)

Spec == Init /\ [][Next]_vars
=============================================================================
