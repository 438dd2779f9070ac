------------------------------- MODULE KvStore -------------------------------
(* The store of MicroKV (kv_store.cpp): a map per cache type, each from keys *)
(* to opaque values.  A type that was never written or was cleared has no    *)
(* map of its own, which nobody can tell from an empty one.                  *)
EXTENDS Integers, FiniteSets, Sequences

CONSTANTS Types, Keys, Values,
          Missing,    \* the answer for a key that holds nothing
          Ok,         \* the answer of a put or a clear
          TooLong     \* answers of a batch_get whose payload is over 2^32 - 1 bytes

ASSUME MissingAssumption == Missing \notin Values

Stores == [Types \X Keys -> Values \cup {Missing}]

EmptyStore == [tk \in Types \X Keys |-> Missing]

Put(store, type, key, value) == [store EXCEPT ![<<type, key>>] = value]

Get(store, type, key) == store[<<type, key>>]

Exists(store, type, key) == store[<<type, key>>] # Missing

Clear(store, type) == [tk \in Types \X Keys |-> IF tk[1] = type THEN Missing ELSE store[tk]]

Size(store, type) == Cardinality({key \in Keys : store[<<type, key>>] # Missing})

-----------------------------------------------------------------------------
(* Requests: a command, a cache type, and an item for every key.           *)

Batches == {"BatchPut", "BatchGet", "BatchExists"}
Keyless == {"Clear", "Size"}

\* Sections of the store a request takes: one per key, or one for the type.
Sections(req) == IF req.cmd \in Keyless THEN 1 ELSE Len(req.items)

\* What section i of a request makes of the store, and answers.
StoreAfter(store, req, i) ==
    CASE req.cmd \in {"Put", "BatchPut"} -> Put(store, req.type, req.items[i].key, req.items[i].value)
      [] req.cmd = "Clear" -> Clear(store, req.type)
      [] OTHER -> store

AnswerOf(store, req, i) ==
    CASE req.cmd \in {"Get", "BatchGet"} -> Get(store, req.type, req.items[i].key)
      [] req.cmd \in {"Exists", "BatchExists"} -> Exists(store, req.type, req.items[i].key)
      [] req.cmd = "Size" -> Size(store, req.type)
      [] OTHER -> Ok

\* The payload is longer than the length field of a response can say. A value
\* alone never is, its own length came in such a field; batch_get adds to it.
Unsendable(req, answers) == req.cmd = "BatchGet" /\ answers \in TooLong
=============================================================================
