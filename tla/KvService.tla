------------------------------ MODULE KvService ------------------------------
(***************************************************************************)
(* What MicroKV promises its callers.  A call takes effect section by      *)
(* section, in the order of its items and each once, atomically and        *)
(* between the call and its return; a batch as a whole is not atomic.  A   *)
(* call that fails may have taken effect up to any item, and may go on     *)
(* doing so while its server thread finds parts of it to read.  A crash    *)
(* of the server loses every value, and every call that was not complete.  *)
(* So is a batch_get that finds more than a response can hold.             *)
(***************************************************************************)
EXTENDS KvStore

CONSTANTS Conns,      \* client connections
          Requests,
          MaxBatch,   \* kMaxBatchCount
          None,       \* no call, no result
          Failed,     \* the call raised an error
          Refused     \* the server rejected the request

VARIABLES store,
          call,      \* connection -> its call and what it has answered so far
          result     \* connection -> what its last call returned

vars == <<store, call, result>>

TooLarge(req) == req.cmd \in Batches /\ Len(req.items) > MaxBatch

Init ==
    /\ store = EmptyStore
    /\ call = [c \in Conns |-> None]
    /\ result = [c \in Conns |-> None]

Invoke(c, req) ==
    /\ call[c] = None
    /\ \E dead \in BOOLEAN :   \* the server behind the connection is gone already
          call' = [call EXCEPT ![c] = [req |-> req, answers |-> << >>, lost |-> dead]]
    /\ result' = [result EXCEPT ![c] = None]
    /\ UNCHANGED store

Perform(c) ==
    /\ call[c] # None
    /\ ~ call[c].lost /\ ~ TooLarge(call[c].req)
    /\ LET req == call[c].req
           i   == Len(call[c].answers) + 1
       IN /\ i <= Sections(req)
          /\ store' = StoreAfter(store, req, i)
          /\ call' = [call EXCEPT ![c].answers = Append(@, AnswerOf(store, req, i))]
    /\ UNCHANGED result

Return(c) ==
    /\ call[c] # None
    /\ ~ call[c].lost
    /\ \/ /\ Len(call[c].answers) = Sections(call[c].req)
          /\ ~ Unsendable(call[c].req, call[c].answers)
          /\ result' = [result EXCEPT ![c] = call[c].answers]
       \/ /\ TooLarge(call[c].req)
          /\ result' = [result EXCEPT ![c] = Refused]
    /\ call' = [call EXCEPT ![c] = None]
    /\ UNCHANGED store

\* The answers are complete and too long to send: the caller can only fail.
LoseAnswers(c) ==
    /\ call[c] # None
    /\ ~ call[c].lost
    /\ Len(call[c].answers) = Sections(call[c].req)
    /\ Unsendable(call[c].req, call[c].answers)
    /\ call' = [call EXCEPT ![c].answers = << >>, ![c].lost = TRUE]
    /\ UNCHANGED <<store, result>>

\* The caller sees an error; the call may still be at work, or be over.
Fail(c) ==
    /\ call[c] # None
    /\ result' = [result EXCEPT ![c] = Failed]
    /\ call' \in {call, [call EXCEPT ![c] = None]}
    /\ UNCHANGED store

\* Nothing more comes of a failed call.
Abandon(c) ==
    /\ call[c] # None
    /\ result[c] = Failed
    /\ call' = [call EXCEPT ![c] = None]
    /\ UNCHANGED <<store, result>>

\* The caller has done with the result of its call.
Consume(c) ==
    /\ call[c] = None
    /\ result' = [result EXCEPT ![c] = None]
    /\ UNCHANGED <<store, call>>

Complete(c) ==
    \/ TooLarge(call[c].req)
    \/ Len(call[c].answers) = Sections(call[c].req)

\* The server crashes: the calls of Cs stop where they are, and only a call
\* that was complete may still return.
LoseAll(Cs) ==
    /\ \A c \in Conns \ Cs : call[c] # None /\ ~ call[c].lost => Complete(c)
    /\ store' = EmptyStore
    /\ call' = [c \in Conns |-> IF c \notin Cs \/ call[c] = None THEN call[c]
                                ELSE IF result[c] = Failed THEN None
                                ELSE [call[c] EXCEPT !.answers = << >>, !.lost = TRUE]]
    /\ UNCHANGED result

Next ==
    \/ \E c \in Conns : \/ \E req \in Requests : Invoke(c, req)
                        \/ Perform(c)
                        \/ Return(c)
                        \/ LoseAnswers(c)
                        \/ Fail(c)
                        \/ Abandon(c)
                        \/ Consume(c)
    \/ \E Cs \in SUBSET Conns : LoseAll(Cs)

Spec == Init /\ [][Next]_vars
=============================================================================
