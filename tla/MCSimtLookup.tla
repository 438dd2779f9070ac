---------------------------- MODULE MCSimtLookup ----------------------------
(* Model-checking instance of SimtLookup. *)
EXTENDS SimtLookupRefinement

Batch(tokens) == [p \in Positions |-> tokens[p + 1]]

\* Three positions for two threads: a miss repeated across the threads beside
\* another miss, a repeated hit or miss around a miss, padding
\* before a repeated token, padding alone.
MixedBatches == {Batch(<<3, 4, 3>>), Batch(<<0, 3, 0>>), Batch(<<1, 4, 0>>),
                 Batch(<<-1, 2, 2>>), Batch(<<-1, -1, -1>>)}
=============================================================================
