----------------------------- MODULE LookupUpdate -----------------------------
(***************************************************************************)
(* The two kernels of src/simu/hbm_lookup_update: a lookup of query keys in *)
(* the requests' state tables, tile by tile over the cores, and an update   *)
(* of a share of the queried entries, chosen by a walk through the query.   *)
(*                                                                          *)
(* Copies between global memory and a core's buffers are asynchronous: a    *)
(* copy out of the output tile is done at some time before the core's next  *)
(* PipeBarrier, and until then reads what the tile then holds.              *)
(***************************************************************************)
EXTENDS Integers, SequencesExt, FiniteSetsExt

CONSTANTS
  ReqNum, IndexSize,
  QueryTile,   \* entries of a tile (64)
  MaxBlocks,   \* ClampBlockDim's bound (64)
  Word,        \* 2^32
  None

ASSUME SizeAssumption ==
  /\ ReqNum \in Nat \ {0} /\ IndexSize \in Nat \ {0}
  /\ QueryTile \in Nat \ {0} /\ MaxBlocks \in Nat \ {0} /\ Word \in Nat \ {0}

\* No kernel and no copy is None.
ASSUME NoneAssumption ==
  /\ None \notin [do : {"lookup", "update"}, n : Nat, percent : Nat, blocks : Nat,
                  items : Nat]
  /\ None \notin [req : Nat, base : Nat, tile : [0 .. QueryTile - 1 -> Nat]]

VARIABLES
  table,   \* table[r][k]: table_states
  query,   \* query[r][i]: query_keys
  fresh,   \* fresh[r][i]: new_states
  walks,   \* walks[r]: Hash32 of the seed and r, for a and for b
  out,     \* out[r][i]: states_out, padded to whole tiles
  job,     \* the running kernel and its arguments, or None
  at,      \* at[c]: the tile, or the request, core c is at
  turn,    \* turn[c]: t, entries updated of that request
  copying  \* copying[c]: the copy from c's output tile that is under way

tensors == <<table, query, fresh, out>>
coreVars == <<at, turn, copying>>
kernelVars == <<tensors, walks, job, coreVars>>

Reqs  == 0 .. ReqNum - 1
Cores == 0 .. MaxBlocks - 1

CeilDiv(x, y) == (x + y - 1) \div y

Padded(len) == CeilDiv(Max({len, 1}), QueryTile) * QueryTile

ClampBlockDim(dim) == Min({Max({dim, 1}), MaxBlocks})

-----------------------------------------------------------------------------
(* The positions that are updated.                                          *)

Divides(d, n) == n % d = 0

\* GcdU32(a, n) = 1.
Coprime(a, n) == \A d \in 2 .. a : ~ (Divides(d, a) /\ Divides(d, n))

\* Mutant: the hash itself is the stride.
PickAnyA(hash, n) == IF n <= 1 THEN 1 ELSE Max({hash % n, 1})

\* The first stride from the hash on that is coprime to n; n - 1 is, so the
\* search never has to start again from 1.
PickCoprimeA(hash, n) ==
  IF n <= 1 THEN 1 ELSE Min({a \in Max({hash % n, 1}) .. n - 1 : Coprime(a, n)})

Position(r, t, n) == (PickCoprimeA(walks[r].a, n) * t + walks[r].b) % n

UpdateNum(n, percent) == Min({((n * percent) % Word) \div 100, n})

-----------------------------------------------------------------------------
(* Launches.                                                                *)

KernelInit ==
  /\ job = None
  /\ at = [c \in Cores |-> 0]
  /\ turn = [c \in Cores |-> 0]
  /\ copying = [c \in Cores |-> None]

Launched(kernel, n, percent, blocks) ==
  /\ job = None
  /\ job' = [do |-> kernel, n |-> n, percent |-> percent, blocks |-> blocks,
             items |-> IF kernel = "lookup" THEN ReqNum * CeilDiv(n, QueryTile)
                                            ELSE ReqNum]
  /\ at' = [c \in Cores |-> c]
  /\ turn' = [c \in Cores |-> 0]

\* lookup_random_update's output is allocated by at::empty.
LaunchLookup(n, dim) ==
  /\ Launched("lookup", n, 0, ClampBlockDim(dim))
  /\ out' = [r \in Reqs |-> [i \in 0 .. Padded(n) - 1 |-> None]]
  /\ UNCHANGED <<table, query, fresh, copying>>

LaunchUpdate(n, dim, percent) ==
  /\ Launched("update", n, percent, ClampBlockDim(Min({dim, ReqNum})))
  /\ UNCHANGED <<tensors, copying>>

Running(c, kernel) ==
  job # None /\ job.do = kernel /\ c < job.blocks /\ at[c] < job.items

-----------------------------------------------------------------------------
(* Lookup.                                                                  *)

ReqOf(c)  == at[c] \div CeilDiv(job.n, QueryTile)
BaseOf(c) == (at[c] % CeilDiv(job.n, QueryTile)) * QueryTile
Valid(c)  == Min({QueryTile, job.n - BaseOf(c)})

\* The output tile; behind the queries it is filled with zeros.
Gathered(c) ==
  [i \in 0 .. QueryTile - 1 |->
     IF i < Valid(c) THEN table[ReqOf(c)][query[ReqOf(c)][BaseOf(c) + i]] ELSE 0]

CopyOf(c) == [req |-> ReqOf(c), base |-> BaseOf(c), tile |-> Gathered(c)]

\* What a copy that moves the given tile leaves in states_out.
Written(copy, tile) ==
  [out EXCEPT ![copy.req] =
     [i \in DOMAIN @ |-> IF i - copy.base \in 0 .. QueryTile - 1
                         THEN tile[i - copy.base] ELSE @[i]]]

StartCopy(c) ==
  /\ copying' = [copying EXCEPT ![c] = CopyOf(c)]
  /\ at' = [at EXCEPT ![c] = @ + job.blocks]
  /\ UNCHANGED <<table, query, fresh, walks, job, turn>>

CopyOut(c) ==
  /\ copying[c] # None
  /\ out' = Written(copying[c], copying[c].tile)
  /\ copying' = [copying EXCEPT ![c] = None]
  /\ UNCHANGED <<table, query, fresh, walks, job, at, turn>>

\* The barrier behind the copy of the queries waits for the last tile's copy.
FullTile(c) ==
  /\ Running(c, "lookup")
  /\ Valid(c) = QueryTile
  /\ copying[c] = None
  /\ StartCopy(c)
  /\ UNCHANGED out

\* There is no barrier before a tail is put into the output tile: entries of a
\* copy still under way may be overtaken by it.
TailTile(c) ==
  /\ Running(c, "lookup")
  /\ Valid(c) < QueryTile
  /\ IF copying[c] = None THEN UNCHANGED out
     ELSE \E overtaken \in SUBSET (0 .. QueryTile - 1) :
            out' = Written(copying[c],
                     [i \in 0 .. QueryTile - 1 |->
                        IF i \in overtaken THEN Gathered(c)[i] ELSE copying[c].tile[i]])
  /\ StartCopy(c)

-----------------------------------------------------------------------------
(* Update.                                                                  *)

UpdateDue(c) == turn[c] < UpdateNum(job.n, job.percent)

PositionOf(c) == Position(at[c], turn[c], job.n)

UpdateEntry(c) ==
  LET r == at[c]
  IN /\ Running(c, "update")
     /\ UpdateDue(c)
     /\ table' = [table EXCEPT ![r][query[r][PositionOf(c)]] = fresh[r][PositionOf(c)]]
     /\ turn' = [turn EXCEPT ![c] = @ + 1]
     /\ UNCHANGED <<query, fresh, walks, out, job, at, copying>>

NextRequest(c) ==
  /\ Running(c, "update")
  /\ ~ UpdateDue(c)
  /\ at' = [at EXCEPT ![c] = @ + job.blocks]
  /\ turn' = [turn EXCEPT ![c] = 0]
  /\ UNCHANGED <<tensors, walks, job, copying>>

-----------------------------------------------------------------------------
KernelDone ==
  /\ job # None
  /\ \A c \in Cores : ~ Running(c, job.do) /\ copying[c] = None
  /\ job' = None
  /\ UNCHANGED <<tensors, walks, coreVars>>
=============================================================================
