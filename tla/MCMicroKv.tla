------------------------------ MODULE MCMicroKv ------------------------------
(* MicroKV with one cache type, two keys and requests of every shape: keyless,  *)
(* of one key, a batch of two, an empty one and one over the limit.             *)
EXTENDS MicroKv

CONSTANTS t, k, l, v

\* Two values are more than a response holds.
MCTooLong == {<<v, v>>}

MCRequests ==
    {[cmd |-> "BatchPut", type |-> t,
      items |-> <<[key |-> k, value |-> v], [key |-> l, value |-> v]>>],
     [cmd |-> "BatchPut", type |-> t,
      items |-> [i \in 1..(MaxBatch + 1) |-> [key |-> k, value |-> v]]],
     [cmd |-> "BatchGet", type |-> t, items |-> <<[key |-> k], [key |-> l]>>],
     [cmd |-> "BatchExists", type |-> t, items |-> << >>],
     [cmd |-> "Get", type |-> t, items |-> <<[key |-> k]>>],
     [cmd |-> "Clear", type |-> t, items |-> << >>],
     [cmd |-> "Size", type |-> t, items |-> << >>]}
=============================================================================
