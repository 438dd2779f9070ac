------------------------------- MODULE MicroKv -------------------------------
(***************************************************************************)
(* MicroKV: a server with a thread per connection over one store guarded   *)
(* by a mutex (server.cpp), and the Python client's blocking calls         *)
(* (client.py).  A request travels in parts, the header first and then one *)
(* part per key; the server works on a part as soon as it has read it, so  *)
(* a client that stops in the middle of a batch leaves a part of it done.  *)
(* Either side may go away at any point: the client closes or dies, the    *)
(* server dies and is started again over an empty store.                   *)
(*                                                                         *)
(* A lock section is one step: the mutex is held for one store operation   *)
(* and nothing else.  Reading a part and the section it leads to are one   *)
(* step too, since only this thread reads the connection.  Requests are    *)
(* those the client can build: the length fields are always right.         *)
(***************************************************************************)
EXTENDS KvStore

CONSTANTS Conns, Requests, MaxBatch, None, Failed, Refused

Puts == {"Put", "BatchPut"}

Answers == Values \cup {Missing, Ok} \cup BOOLEAN \cup Nat

\* What the client can build: an item per key, none for a keyless command. The
\* outcomes None, Failed and Refused are neither calls nor responses.
ASSUME RequestAssumption ==
    /\ MaxBatch \in Nat
    /\ IsFiniteSet(Keys)
    /\ None \notin Requests
    /\ None \notin {Failed, Refused}
    /\ None \notin [req : Requests, answers : Seq(Answers), lost : BOOLEAN]
    /\ None \notin Seq(Answers) /\ Refused \notin Seq(Answers)
    /\ \A req \in Requests :
          /\ req.type \in Types
          /\ Len(req.items) \in Nat
          /\ req.cmd \in Keyless => Len(req.items) = 0
          /\ \A i \in 1..Len(req.items) :
                /\ req.items[i].key \in Keys
                /\ req.cmd \in Puts => req.items[i].value \in Values

VARIABLES store,
          up,       \* the server process runs
          conn,     \* connection -> "closed", or "open" at the client's end
          call,     \* connection -> the request of the client's current call
          sent,     \* connection -> parts of it handed to the socket
          thread,   \* connection -> the server's thread
          reply,    \* connection -> response on its way, or None
          result    \* connection -> what the client's last call returned

vars == <<store, up, conn, call, sent, thread, reply, result>>

Gone == [pc |-> "gone", done |-> 0, answers |-> << >>]
Reading == [pc |-> "header", done |-> 0, answers |-> << >>]

Init ==
    /\ store = EmptyStore
    /\ up = TRUE
    /\ conn = [c \in Conns |-> "closed"]
    /\ call = [c \in Conns |-> None]
    /\ sent = [c \in Conns |-> 0]
    /\ thread = [c \in Conns |-> Gone]
    /\ reply = [c \in Conns |-> None]
    /\ result = [c \in Conns |-> None]

\* The parts of a request: its header, with the count of a batch, and its keys.
Parts(req) == 1 + Len(req.items)

Calling(c) == conn[c] = "open" /\ call[c] # None

-----------------------------------------------------------------------------
(* The client.                                                             *)

\* KVStoreClient(): the connection waits in the server's backlog.
Connect(c) ==
    /\ up
    /\ conn[c] = "closed"
    /\ thread[c].pc = "gone"
    /\ conn' = [conn EXCEPT ![c] = "open"]
    /\ thread' = [thread EXCEPT ![c].pc = "accept"]
    /\ result' = [result EXCEPT ![c] = None]
    /\ UNCHANGED <<store, up, call, sent, reply>>

Invoke(c, req) ==
    /\ conn[c] = "open"
    /\ call[c] = None
    /\ call' = [call EXCEPT ![c] = req]
    /\ sent' = [sent EXCEPT ![c] = 0]
    /\ result' = [result EXCEPT ![c] = None]
    /\ UNCHANGED <<store, up, conn, thread, reply>>

\* Mutant: sendall goes on once more after the last part.
SendPartPastEnd(c) ==
    /\ Calling(c)
    /\ sent[c] <= Parts(call[c])
    /\ thread[c].pc # "gone"
    /\ sent' = [sent EXCEPT ![c] = @ + 1]
    /\ UNCHANGED <<store, up, conn, call, thread, reply, result>>

\* sendall
SendPart(c) ==
    /\ Calling(c)
    /\ sent[c] < Parts(call[c])
    /\ thread[c].pc # "gone"
    /\ sent' = [sent EXCEPT ![c] = @ + 1]
    /\ UNCHANGED <<store, up, conn, call, thread, reply, result>>

\* The rest of a call: the next one starts afresh.
Forget(c) ==
    /\ call' = [call EXCEPT ![c] = None]
    /\ sent' = [sent EXCEPT ![c] = 0]
    /\ reply' = [reply EXCEPT ![c] = None]

\* sendall fails, or recv finds the socket closed: the caller sees an error.
RaiseError(c) ==
    /\ Calling(c)
    /\ thread[c].pc = "gone"
    /\ sent[c] < Parts(call[c]) \/ reply[c] = None
    /\ result' = [result EXCEPT ![c] = Failed]
    /\ conn' = [conn EXCEPT ![c] = "closed"]
    /\ Forget(c)
    /\ UNCHANGED <<store, up, thread>>

\* Mutant: the client reads the status only, and the response stays in the socket.
ReceiveHeaderOnly(c) ==
    /\ Calling(c)
    /\ sent[c] = Parts(call[c])
    /\ reply[c] # None
    /\ result' = [result EXCEPT ![c] = reply[c]]
    /\ call' = [call EXCEPT ![c] = None]
    /\ sent' = [sent EXCEPT ![c] = 0]
    /\ UNCHANGED <<store, up, conn, thread, reply>>

\* _recv_exact, once all of the request has been sent.
Receive(c) ==
    /\ Calling(c)
    /\ sent[c] = Parts(call[c])
    /\ reply[c] # None
    /\ result' = [result EXCEPT ![c] = reply[c]]
    /\ Forget(c)
    /\ UNCHANGED <<store, up, conn, thread>>

\* close(), or the client dies; what it has sent stays readable.
Close(c) ==
    /\ conn[c] = "open"
    /\ conn' = [conn EXCEPT ![c] = "closed"]
    /\ result' = [result EXCEPT ![c] = IF call[c] = None THEN None ELSE Failed]
    /\ IF thread[c].pc = "gone" \/ reply[c] # None
       THEN Forget(c)
       ELSE UNCHANGED <<call, sent, reply>>
    /\ UNCHANGED <<store, up, thread>>

-----------------------------------------------------------------------------
(* The server.                                                             *)

\* Run: a detached thread per connection.
Accept(c) ==
    /\ thread[c].pc = "accept"
    /\ thread' = [thread EXCEPT ![c] = Reading]
    /\ UNCHANGED <<store, up, conn, call, sent, reply, result>>

TooLarge(req) == req.cmd \in Batches /\ Len(req.items) > MaxBatch

\* HandleClient reads a header.
ReadHeader(c) ==
    /\ thread[c].pc = "header"
    /\ sent[c] > 0
    /\ reply[c] = None
    /\ ~ TooLarge(call[c])
    /\ thread' = [thread EXCEPT ![c] = [Reading EXCEPT !.pc = "sections"]]
    /\ UNCHANGED <<store, up, conn, call, sent, reply, result>>

\* A batch that is too large is refused and the thread ends.
Refuse(c) ==
    /\ thread[c].pc = "header"
    /\ sent[c] > 0
    /\ reply[c] = None
    /\ TooLarge(call[c])
    /\ reply' = [reply EXCEPT ![c] = IF conn[c] = "open" THEN Refused ELSE None]
    /\ thread' = [thread EXCEPT ![c] = Gone]
    /\ IF conn[c] = "open" THEN UNCHANGED <<call, sent>>
       ELSE call' = [call EXCEPT ![c] = None] /\ sent' = [sent EXCEPT ![c] = 0]
    /\ UNCHANGED <<store, up, conn, result>>

\* Mutant: the server waits for a part more than the request has.
PartsForOneMore(req, i) == 1 + i

\* Parts that must have been read before section i.
PartsFor(req, i) == IF req.cmd \in Keyless THEN 1 ELSE 1 + i

\* Mutant: the answer outlives its item, and a missing key repeats the last.
SectionStale(c) ==
    /\ thread[c].pc = "sections"
    /\ LET req == call[c]
           i   == thread[c].done + 1
           ans == AnswerOf(store, req, i)
       IN /\ i <= Sections(req)
          /\ sent[c] >= PartsFor(req, i)
          /\ store' = StoreAfter(store, req, i)
          /\ thread' = [thread EXCEPT
                ![c].done = i,
                ![c].answers = Append(@, IF req.cmd = "BatchGet" /\ ans = Missing /\ i > 1
                                         THEN @[i - 1] ELSE ans)]
    /\ UNCHANGED <<up, conn, call, sent, reply, result>>

\* HandleRequest, one section of the store under store_mutex_.
Section(c) ==
    /\ thread[c].pc = "sections"
    /\ LET req == call[c]
           i   == thread[c].done + 1
       IN /\ i <= Sections(req)
          /\ sent[c] >= PartsFor(req, i)
          /\ store' = StoreAfter(store, req, i)
          /\ thread' = [thread EXCEPT ![c] =
                [pc |-> "sections", done |-> i,
                 answers |-> Append(@.answers, AnswerOf(store, req, i))]]
    /\ UNCHANGED <<up, conn, call, sent, reply, result>>

\* SendResponse, and on to the next header.
Respond(c) ==
    /\ thread[c].pc = "sections"
    /\ thread[c].done = Sections(call[c])
    /\ ~ Unsendable(call[c], thread[c].answers)
    /\ conn[c] = "open"
    /\ reply' = [reply EXCEPT ![c] = thread[c].answers]
    /\ thread' = [thread EXCEPT ![c] = Reading]
    /\ UNCHANGED <<store, up, conn, call, sent, result>>

\* SendResponse finds the payload too long: nothing is sent, and the thread ends
\* with the client still there.
DropResponse(c) ==
    /\ thread[c].pc = "sections"
    /\ thread[c].done = Sections(call[c])
    /\ Unsendable(call[c], thread[c].answers)
    /\ conn[c] = "open"
    /\ thread' = [thread EXCEPT ![c] = Gone]
    /\ UNCHANGED <<store, up, conn, call, sent, reply, result>>

\* ReadExact meets the end of the stream, or a response finds no reader.
EndThread(c) ==
    /\ conn[c] = "closed"
    /\ \/ thread[c].pc = "header" /\ sent[c] = 0
       \/ /\ thread[c].pc = "sections"
          /\ \/ thread[c].done = Sections(call[c])
             \/ sent[c] < PartsFor(call[c], thread[c].done + 1)
    /\ thread' = [thread EXCEPT ![c] = Gone]
    /\ Forget(c)
    /\ UNCHANGED <<store, up, conn, result>>

\* The server dies: threads, backlog and store are lost, responses that were
\* sent are not.
Crash ==
    /\ up
    /\ up' = FALSE
    /\ store' = EmptyStore
    /\ thread' = [c \in Conns |-> Gone]
    /\ call' = [c \in Conns |-> IF conn[c] = "open" THEN call[c] ELSE None]
    /\ sent' = [c \in Conns |-> IF conn[c] = "open" THEN sent[c] ELSE 0]
    /\ UNCHANGED <<conn, reply, result>>

\* Run unlinks the old socket and binds it anew.
Restart == up' = TRUE /\ ~ up /\ UNCHANGED <<store, conn, call, sent, thread, reply, result>>

-----------------------------------------------------------------------------
ClientStep(c) == SendPart(c) \/ RaiseError(c) \/ Receive(c)
ThreadStep(c) ==
    \/ Accept(c) \/ ReadHeader(c) \/ Refuse(c) \/ Section(c)
    \/ Respond(c) \/ DropResponse(c) \/ EndThread(c)

Next ==
    \/ \E c \in Conns : \/ Connect(c)
                        \/ \E req \in Requests : Invoke(c, req)
                        \/ ClientStep(c)
                        \/ Close(c)
                        \/ ThreadStep(c)
    \/ Crash
    \/ Restart

Spec == Init /\ [][Next]_vars

\* A thread and a client in a call run; nobody need connect, call or restart.
FairSpec ==
    /\ Spec
    /\ \A c \in Conns : WF_vars(ClientStep(c)) /\ WF_vars(ThreadStep(c))

-----------------------------------------------------------------------------
\* The variables have their types; a thread in the sections of a request has
\* answered as many as it has done, of a request that is still known.
TypeOK ==
    /\ store \in Stores
    /\ up \in BOOLEAN
    /\ conn \in [Conns -> {"closed", "open"}]
    /\ \A c \in Conns :
          /\ call[c] \in Requests \cup {None}
          /\ sent[c] \in IF call[c] = None THEN {0} ELSE 0..Parts(call[c])
          /\ thread[c].pc \in {"gone", "accept", "header", "sections"}
          /\ thread[c].done = Len(thread[c].answers)
          /\ thread[c].pc # "sections" => thread[c].done = 0
          /\ thread[c].pc = "sections" => call[c] # None /\ thread[c].done <= Sections(call[c])

\* Requests and responses stay paired on a connection: a response on its way
\* is one to the call being made, with an answer for each of its sections and
\* nothing of the request left to read.  Only a refusal overtakes the request,
\* and then no thread is left that could take the rest for a new header.
ReplyIsForCall ==
    \A c \in Conns : reply[c] # None =>
        /\ conn[c] = "open" /\ call[c] # None
        /\ IF reply[c] = Refused
           THEN TooLarge(call[c]) /\ thread[c].pc = "gone"
           ELSE sent[c] = Parts(call[c]) /\ Len(reply[c]) = Sections(call[c])

\* What a connection is to the service: its call, the answers given so far,
\* and whether the server has lost it.
Calls == [c \in Conns |->
    IF call[c] = None THEN None
    ELSE [req     |-> call[c],
          answers |-> IF reply[c] \notin {None, Refused} THEN reply[c] ELSE thread[c].answers,
          lost    |-> thread[c].pc = "gone" /\ reply[c] = None]]

Service == INSTANCE KvService WITH call <- Calls

\* Calls get the effects and answers the service promises, whatever the other
\* connections do, when clients leave in the middle of a batch, when the server
\* crashes and when an answer is too long to send: item by item in order, each
\* once, on the store of the moment.
ImplementsKvService == Service!Spec

\* Every call comes to an end: it returns, or it fails because the server, the
\* client itself or, over an answer too long to send, its thread has gone.
\* Client and server never wait on each other.
CallEnds == \A c \in Conns : call[c] # None ~> call[c] = None
=============================================================================
