---------------------------- MODULE MicroKvProofs ----------------------------
(***************************************************************************)
(* Requests and responses stay paired on every connection of MicroKv, and   *)
(* every step is one that KvService promises or none it sees: for any       *)
(* number of connections, any requests the client can build and any batch   *)
(* limit, in the face of disconnects and crashes.                           *)
(***************************************************************************)
EXTENDS MicroKv, FiniteSetTheorems, TLAPS

Threads == [pc : {"gone", "accept", "header", "sections"}, done : Nat,
            answers : Seq(Answers)]

Shapes ==
  /\ store \in Stores
  /\ up \in BOOLEAN
  /\ conn \in [Conns -> {"closed", "open"}]
  /\ call \in [Conns -> Requests \cup {None}]
  /\ sent \in [Conns -> Nat]
  /\ thread \in [Conns -> Threads]
  /\ reply \in [Conns -> Seq(Answers) \cup {None, Refused}]

\* Nothing is sent outside a call.
SentOfCall(c) == IF call[c] = None THEN sent[c] = 0 ELSE sent[c] <= Parts(call[c])

\* A thread has read the parts its sections needed, and answered each section;
\* while it is at them no response is on its way.
ThreadAtCall(c) ==
  /\ thread[c].done = Len(thread[c].answers)
  /\ thread[c].pc # "sections" => thread[c].done = 0
  /\ thread[c].pc = "sections" =>
       /\ call[c] # None
       /\ thread[c].done <= Sections(call[c])
       /\ sent[c] >= PartsFor(call[c], thread[c].done)
       /\ reply[c] = None

\* ReplyIsForCall at one connection; no thread is before the header it answers,
\* and what is on its way was short enough to send.
ReplyOfCall(c) ==
  reply[c] # None =>
    /\ conn[c] = "open" /\ call[c] # None
    /\ IF reply[c] = Refused
       THEN TooLarge(call[c]) /\ thread[c].pc = "gone"
       ELSE /\ sent[c] = Parts(call[c]) /\ Len(reply[c]) = Sections(call[c])
            /\ thread[c].pc \in {"header", "gone"}
            /\ ~ Unsendable(call[c], reply[c])

Paired(c) == SentOfCall(c) /\ ThreadAtCall(c) /\ ReplyOfCall(c)

IInv == Shapes /\ \A c \in Conns : Paired(c)

-----------------------------------------------------------------------------
(* Requests, and what a section makes of the store.                         *)

LEMMA RequestParts ==
  ASSUME NEW req \in Requests
  PROVE  /\ Parts(req) \in Nat \ {0}
         /\ Sections(req) \in Nat
         /\ PartsFor(req, 0) = 1
         /\ \A i \in Nat : PartsFor(req, i) \in Nat
         /\ PartsFor(req, Sections(req)) = Parts(req)
  BY RequestAssumption DEF Parts, Sections, PartsFor

LEMMA ReadingThread ==
  /\ Gone \in Threads /\ Reading \in Threads
  /\ [Reading EXCEPT !.pc = "sections"] =
       [pc |-> "sections", done |-> 0, answers |-> << >>]
  /\ [pc |-> "sections", done |-> 0, answers |-> << >>] \in Threads
<1>1. << >> \in Seq(Answers)
  OBVIOUS
<1> QED
  BY <1>1 DEF Gone, Reading, Threads

\* A section leaves a store, and its answer is one.
LEMMA SectionEffect ==
  ASSUME store \in Stores, NEW req \in Requests, NEW i \in Nat \ {0}, i <= Sections(req)
  PROVE  StoreAfter(store, req, i) \in Stores /\ AnswerOf(store, req, i) \in Answers
<1>1. req.type \in Types
  BY RequestAssumption
<1>2. ASSUME req.cmd \notin Keyless
      PROVE  /\ req.items[i].key \in Keys
             /\ req.cmd \in Puts => req.items[i].value \in Values
  BY <1>2, RequestAssumption DEF Sections
<1>3. StoreAfter(store, req, i) \in Stores
  <2>1. CASE req.cmd \in Puts
    <3>1. req.cmd \notin Keyless
      BY <2>1 DEF Puts, Keyless
    <3> QED
      BY <1>1, <1>2, <2>1, <3>1 DEF StoreAfter, Put, Puts, Stores
  <2>2. CASE req.cmd = "Clear"
    BY <2>2 DEF StoreAfter, Clear, Stores
  <2>3. CASE req.cmd \notin Puts /\ req.cmd # "Clear"
    BY <2>3 DEF StoreAfter, Puts
  <2> QED
    BY <2>1, <2>2, <2>3
<1>4. AnswerOf(store, req, i) \in Answers
  <2>1. CASE req.cmd \in {"Get", "BatchGet"}
    <3>1. req.items[i].key \in Keys
      BY <1>2, <2>1 DEF Keyless
    <3> QED
      BY <1>1, <2>1, <3>1 DEF AnswerOf, Get, Answers, Stores
  <2>2. CASE req.cmd \in {"Exists", "BatchExists"}
    BY <2>2 DEF AnswerOf, Exists, Answers
  <2>3. CASE req.cmd = "Size"
    <3>1. Size(store, req.type) \in Nat
      BY RequestAssumption, FS_Subset, FS_CardinalityType DEF Size
    <3> QED
      BY <2>3, <3>1 DEF AnswerOf, Answers
  <2>4. CASE req.cmd \notin {"Get", "BatchGet", "Exists", "BatchExists", "Size"}
    BY <2>4 DEF AnswerOf, Answers
  <2> QED
    BY <2>1, <2>2, <2>3, <2>4
<1> QED
  BY <1>3, <1>4

\* A step that leaves a connection alone leaves it paired.
LEMMA PairedFrame ==
  ASSUME NEW c, Paired(c),
         UNCHANGED <<conn[c], call[c], sent[c], thread[c], reply[c]>>
  PROVE  Paired(c)'
  BY DEF Paired, SentOfCall, ThreadAtCall, ReplyOfCall

-----------------------------------------------------------------------------
(* The actions of one connection: the others are as they were, so it is     *)
(* enough to look at this one.                                              *)

OtherwiseSame(c) ==
  \A d \in Conns \ {c} :
    UNCHANGED <<conn[d], call[d], sent[d], thread[d], reply[d]>>

LEMMA OneConnection ==
  ASSUME IInv, NEW c \in Conns, Shapes', OtherwiseSame(c), Paired(c)'
  PROVE  IInv'
<1>1. ASSUME NEW d \in Conns \ {c} PROVE Paired(d)'
  BY <1>1, PairedFrame DEF IInv, OtherwiseSame
<1> QED
  BY <1>1 DEF IInv

LEMMA ConnectPaired ==
  ASSUME IInv, NEW c \in Conns, Connect(c)
  PROVE  IInv'
<1> USE DEF IInv
<1>1. Shapes'
  BY DEF Shapes, Connect, Threads
<1>2. OtherwiseSame(c)
  BY DEF Shapes, Connect, OtherwiseSame
<1>3. Paired(c)'
  BY DEF Shapes, Threads, Connect, Paired, SentOfCall, ThreadAtCall, ReplyOfCall
<1> QED
  BY <1>1, <1>2, <1>3, OneConnection

LEMMA InvokePaired ==
  ASSUME IInv, NEW c \in Conns, NEW req \in Requests, Invoke(c, req)
  PROVE  IInv'
<1> USE DEF IInv
<1>1. Shapes'
  BY DEF Shapes, Invoke
<1>2. OtherwiseSame(c)
  BY DEF Shapes, Invoke, OtherwiseSame
<1>3. Paired(c)'
  BY RequestParts, RequestAssumption
     DEF Shapes, Invoke, Paired, SentOfCall, ThreadAtCall, ReplyOfCall
<1> QED
  BY <1>1, <1>2, <1>3, OneConnection

LEMMA SendPartPaired ==
  ASSUME IInv, NEW c \in Conns, SendPart(c)
  PROVE  IInv'
<1> USE DEF IInv
<1>1. Shapes'
  BY DEF Shapes, SendPart
<1>2. OtherwiseSame(c)
  BY DEF Shapes, SendPart, OtherwiseSame
<1>3. call[c] \in Requests
  BY DEF Shapes, SendPart, Calling
<1>4. Parts(call[c]) \in Nat /\ \A i \in Nat : PartsFor(call[c], i) \in Nat
  BY <1>3, RequestParts
<1>5. /\ conn'[c] = conn[c] /\ call'[c] = call[c] /\ thread'[c] = thread[c]
      /\ reply'[c] = reply[c] /\ sent'[c] = sent[c] + 1 /\ sent[c] \in Nat
      /\ sent[c] < Parts(call[c]) /\ call[c] # None /\ thread[c].pc # "gone"
  BY DEF Shapes, SendPart, Calling
<1>6. SentOfCall(c)'
  <2>1. sent[c] + 1 <= Parts(call[c])
    BY <1>4, <1>5
  <2> QED
    BY <1>5, <2>1 DEF SentOfCall
<1>7. ThreadAtCall(c)'
  <2>1. thread[c].done \in Nat /\ ThreadAtCall(c)
    BY DEF Shapes, Threads, Paired
  <2>2. thread[c].pc = "sections" => PartsFor(call[c], thread[c].done) <= sent[c] + 1
    <3>1. PartsFor(call[c], thread[c].done) \in Nat
      BY <1>4, <2>1
    <3>2. thread[c].pc = "sections" => sent[c] >= PartsFor(call[c], thread[c].done)
      BY <2>1 DEF ThreadAtCall
    <3> QED
      BY <1>5, <3>1, <3>2
  <2> QED
    BY <1>5, <2>1, <2>2 DEF ThreadAtCall
<1>8. ReplyOfCall(c)'
  <2>1. ReplyOfCall(c)
    BY DEF Paired
  <2>2. reply[c] = None
    BY <1>4, <1>5, <2>1 DEF ReplyOfCall
  <2> QED
    BY <1>5, <2>2 DEF ReplyOfCall
<1> QED
  BY <1>1, <1>2, <1>6, <1>7, <1>8, OneConnection DEF Paired

\* Forget leaves nothing to pair, if no thread is at the sections of the call.
LEMMA ForgetPaired ==
  ASSUME IInv, NEW c \in Conns, Forget(c),
         conn' \in [Conns -> {"closed", "open"}], thread' \in [Conns -> Threads],
         \A d \in Conns \ {c} : conn'[d] = conn[d] /\ thread'[d] = thread[d],
         thread'[c] = thread[c] \/ thread'[c] = Gone, thread'[c].pc # "sections",
         UNCHANGED <<store, up>>
  PROVE  IInv'
<1> USE DEF IInv
<1>1. Shapes'
  BY DEF Shapes, Forget
<1>2. OtherwiseSame(c)
  BY DEF Shapes, Forget, OtherwiseSame
<1>3. Paired(c)'
  BY ReadingThread
     DEF Shapes, Forget, Gone, Paired, SentOfCall, ThreadAtCall, ReplyOfCall
<1> QED
  BY <1>1, <1>2, <1>3, OneConnection

LEMMA RaiseErrorPaired ==
  ASSUME IInv, NEW c \in Conns, RaiseError(c)
  PROVE  IInv'
  BY ForgetPaired DEF RaiseError, IInv, Shapes

LEMMA ReceivePaired ==
  ASSUME IInv, NEW c \in Conns, Receive(c)
  PROVE  IInv'
  BY ForgetPaired DEF Receive, IInv, Shapes, Paired, ReplyOfCall

LEMMA ClosePaired ==
  ASSUME IInv, NEW c \in Conns, Close(c)
  PROVE  IInv'
<1> USE DEF IInv
<1>1. CASE thread[c].pc = "gone" \/ reply[c] # None
  BY <1>1, ForgetPaired DEF Close, Shapes, Paired, ReplyOfCall
<1>2. CASE ~ (thread[c].pc = "gone" \/ reply[c] # None)
  <2>1. Shapes'
    BY <1>2 DEF Shapes, Close
  <2>2. OtherwiseSame(c)
    BY <1>2 DEF Shapes, Close, OtherwiseSame
  <2>3. Paired(c)'
    BY <1>2 DEF Shapes, Close, Paired, SentOfCall, ThreadAtCall, ReplyOfCall
  <2> QED
    BY <2>1, <2>2, <2>3, OneConnection
<1> QED
  BY <1>1, <1>2

LEMMA AcceptPaired ==
  ASSUME IInv, NEW c \in Conns, Accept(c)
  PROVE  IInv'
<1> USE DEF IInv
<1>1. Shapes'
  BY ReadingThread DEF Shapes, Accept
<1>2. OtherwiseSame(c)
  BY DEF Shapes, Accept, OtherwiseSame
<1>3. thread'[c] = Reading
  BY DEF Shapes, Accept
<1>4. UNCHANGED <<conn[c], call[c], sent[c], reply[c]>>
  BY DEF Shapes, Accept
<1>5. Paired(c)'
  BY <1>3, <1>4 DEF Accept, Reading, Paired, SentOfCall, ThreadAtCall, ReplyOfCall
<1> QED
  BY <1>1, <1>2, <1>5, OneConnection

LEMMA ReadHeaderPaired ==
  ASSUME IInv, NEW c \in Conns, ReadHeader(c)
  PROVE  IInv'
<1> USE DEF IInv
<1>1. Shapes'
  BY ReadingThread DEF Shapes, ReadHeader
<1>2. OtherwiseSame(c)
  BY DEF Shapes, ReadHeader, OtherwiseSame
<1>3. thread'[c] = [pc |-> "sections", done |-> 0, answers |-> << >>]
  BY ReadingThread DEF Shapes, ReadHeader
<1>4. UNCHANGED <<conn[c], call[c], sent[c], reply[c]>> /\ reply[c] = None /\ sent[c] \in Nat \ {0}
  BY DEF Shapes, ReadHeader
<1>5. call[c] \in Requests
  BY <1>4 DEF Shapes, Paired, SentOfCall
<1>6. Sections(call[c]) \in Nat /\ PartsFor(call[c], 0) = 1 /\ call[c] # None
  BY <1>5, RequestParts, RequestAssumption
<1>7. SentOfCall(c)' /\ ReplyOfCall(c)'
  BY <1>4 DEF Paired, SentOfCall, ReplyOfCall
<1>8. ThreadAtCall(c)'
  BY <1>3, <1>4, <1>6 DEF ThreadAtCall
<1> QED
  BY <1>1, <1>2, <1>7, <1>8, OneConnection DEF Paired

LEMMA RefusePaired ==
  ASSUME IInv, NEW c \in Conns, Refuse(c)
  PROVE  IInv'
<1> USE DEF IInv
<1>1. Shapes'
  <2>1. CASE conn[c] = "open"
    BY <2>1, ReadingThread DEF Shapes, Refuse
  <2>2. CASE conn[c] # "open"
    <3>1. /\ call' = [call EXCEPT ![c] = None] /\ sent' = [sent EXCEPT ![c] = 0]
          /\ reply' = [reply EXCEPT ![c] = None] /\ thread' = [thread EXCEPT ![c] = Gone]
          /\ UNCHANGED <<store, up, conn>>
      BY <2>2 DEF Refuse
    <3> QED
      BY <3>1, ReadingThread DEF Shapes
  <2> QED
    BY <2>1, <2>2
<1>2. OtherwiseSame(c)
  BY DEF Shapes, Refuse, OtherwiseSame
<1>3. /\ thread'[c] = Gone /\ conn'[c] = conn[c] /\ TooLarge(call[c]) /\ sent[c] \in Nat \ {0}
      /\ IF conn[c] = "open" THEN reply'[c] = Refused /\ call'[c] = call[c] /\ sent'[c] = sent[c]
                             ELSE reply'[c] = None /\ call'[c] = None /\ sent'[c] = 0
  BY DEF Shapes, Refuse
<1>4. SentOfCall(c) /\ call[c] # None
  BY <1>3 DEF Paired, SentOfCall
<1>5. Paired(c)'
  BY <1>3, <1>4 DEF Gone, Paired, SentOfCall, ThreadAtCall, ReplyOfCall
<1> QED
  BY <1>1, <1>2, <1>5, OneConnection

\* A section needs its part read, and adds one to what is done and one answer.
LEMMA SectionPaired ==
  ASSUME IInv, NEW c \in Conns, Section(c)
  PROVE  IInv'
<1> USE DEF IInv
<1> DEFINE req == call[c]
           i   == thread[c].done + 1
<1>1. /\ thread[c] \in Threads /\ thread[c].pc = "sections" /\ i \in Nat \ {0}
      /\ i <= Sections(req) /\ sent[c] >= PartsFor(req, i) /\ store \in Stores
      /\ store' = StoreAfter(store, req, i)
      /\ thread' = [thread EXCEPT ![c] =
                     [pc |-> "sections", done |-> i,
                      answers |-> Append(@.answers, AnswerOf(store, req, i))]]
  BY DEF Shapes, Threads, Section
<1>2. req \in Requests /\ req # None /\ reply[c] = None
  BY <1>1, RequestAssumption DEF Shapes, Paired, ThreadAtCall
<1>3. store' \in Stores /\ AnswerOf(store, req, i) \in Answers
  BY <1>1, <1>2, SectionEffect
<1>4. /\ thread' \in [Conns -> Threads]
      /\ thread'[c] = [pc |-> "sections", done |-> i,
                       answers |-> Append(thread[c].answers, AnswerOf(store, req, i))]
  <2>1. Append(thread[c].answers, AnswerOf(store, req, i)) \in Seq(Answers)
    BY <1>1, <1>3 DEF Threads
  <2>2. [pc |-> "sections", done |-> i,
         answers |-> Append(thread[c].answers, AnswerOf(store, req, i))] \in Threads
    BY <1>1, <2>1 DEF Threads
  <2> QED
    BY <1>1, <2>2 DEF Shapes
<1>5. Shapes'
  BY <1>3, <1>4 DEF Shapes, Section
<1>6. OtherwiseSame(c)
  BY <1>1 DEF Shapes, Section, OtherwiseSame
<1>7. UNCHANGED <<conn[c], call[c], sent[c], reply[c]>>
  BY DEF Section
<1>8. SentOfCall(c)' /\ ReplyOfCall(c)'
  BY <1>2, <1>7 DEF Paired, SentOfCall, ReplyOfCall
<1>9. ThreadAtCall(c)'
  <2>1. Len(Append(thread[c].answers, AnswerOf(store, req, i))) = i
    BY <1>1, <1>3 DEF Threads, Paired, ThreadAtCall
  <2> QED
    BY <1>1, <1>2, <1>4, <1>7, <2>1 DEF ThreadAtCall
<1> QED
  BY <1>5, <1>6, <1>8, <1>9, OneConnection DEF Paired

\* All sections are done, so all parts were read and all answers are there.
LEMMA RespondPaired ==
  ASSUME IInv, NEW c \in Conns, Respond(c)
  PROVE  IInv'
<1> USE DEF IInv
<1>1. /\ thread[c].pc = "sections" /\ thread[c].done = Sections(call[c])
      /\ thread[c].answers \in Seq(Answers) /\ conn[c] = "open"
      /\ ~ Unsendable(call[c], thread[c].answers)
      /\ reply'[c] = thread[c].answers /\ thread'[c] = Reading
      /\ UNCHANGED <<conn[c], call[c], sent[c]>>
  BY DEF Shapes, Threads, Respond
<1>2. Shapes'
  BY <1>1, ReadingThread DEF Shapes, Respond
<1>3. OtherwiseSame(c)
  BY DEF Shapes, Respond, OtherwiseSame
<1>4. call[c] \in Requests /\ call[c] # None
  BY <1>1, RequestAssumption DEF Shapes, Paired, ThreadAtCall
<1>5. sent[c] = Parts(call[c])
  <2>1. sent[c] >= PartsFor(call[c], Sections(call[c])) /\ sent[c] <= Parts(call[c])
    BY <1>1, <1>4 DEF Paired, ThreadAtCall, SentOfCall
  <2> QED
    BY <1>4, <2>1, RequestParts DEF Shapes
<1>6. Len(thread[c].answers) = Sections(call[c]) /\ thread[c].answers \notin {None, Refused}
  BY <1>1, RequestAssumption DEF Paired, ThreadAtCall
<1>7. SentOfCall(c)'
  BY <1>1 DEF Paired, SentOfCall
<1>8. ThreadAtCall(c)'
  BY <1>1 DEF ThreadAtCall, Reading
<1>9. ReplyOfCall(c)'
  BY <1>1, <1>4, <1>5, <1>6 DEF ReplyOfCall, Reading
<1> QED
  BY <1>2, <1>3, <1>7, <1>8, <1>9, OneConnection DEF Paired

\* The thread ends with nothing sent, and leaves its call unanswered.
LEMMA DropResponsePaired ==
  ASSUME IInv, NEW c \in Conns, DropResponse(c)
  PROVE  IInv'
<1> USE DEF IInv
<1>1. /\ thread[c].pc = "sections" /\ thread'[c] = Gone
      /\ UNCHANGED <<conn[c], call[c], sent[c], reply[c]>>
  BY DEF Shapes, DropResponse
<1>2. Shapes'
  BY ReadingThread DEF Shapes, DropResponse
<1>3. OtherwiseSame(c)
  BY DEF Shapes, DropResponse, OtherwiseSame
<1>4. SentOfCall(c) /\ reply[c] = None
  BY <1>1 DEF Paired, ThreadAtCall
<1>5. Paired(c)'
  BY <1>1, <1>4 DEF Gone, Paired, SentOfCall, ThreadAtCall, ReplyOfCall
<1> QED
  BY <1>2, <1>3, <1>5, OneConnection

LEMMA EndThreadPaired ==
  ASSUME IInv, NEW c \in Conns, EndThread(c)
  PROVE  IInv'
<1>1. thread' = [thread EXCEPT ![c] = Gone] /\ Forget(c) /\ UNCHANGED <<store, up, conn>>
  BY DEF EndThread
<1>2. thread' \in [Conns -> Threads] /\ thread'[c] = Gone /\ Gone.pc # "sections"
  BY <1>1, ReadingThread DEF IInv, Shapes, Gone
<1> QED
  BY <1>1, <1>2, ForgetPaired DEF IInv, Shapes

\* The threads are gone with the server; responses that were sent stay paired.
LEMMA CrashPaired ==
  ASSUME IInv, Crash
  PROVE  IInv'
<1> USE DEF IInv
<1>1. EmptyStore \in Stores
  BY DEF EmptyStore, Stores
<1>2. Shapes'
  BY <1>1, ReadingThread DEF Shapes, Crash
<1>3. ASSUME NEW c \in Conns
      PROVE  Paired(c)'
  <2>1. /\ thread'[c] = Gone /\ conn'[c] = conn[c] /\ reply'[c] = reply[c]
        /\ IF conn[c] = "open" THEN call'[c] = call[c] /\ sent'[c] = sent[c]
                               ELSE call'[c] = None /\ sent'[c] = 0
    BY <1>3 DEF Crash
  <2> QED
    BY <1>3, <2>1 DEF Gone, Paired, SentOfCall, ThreadAtCall, ReplyOfCall
<1> QED
  BY <1>2, <1>3

-----------------------------------------------------------------------------
(* The invariant of the specification.                                      *)

LEMMA InitIInv == Init => IInv
<1> SUFFICES ASSUME Init PROVE IInv
  OBVIOUS
<1>1. EmptyStore \in Stores
  BY DEF EmptyStore, Stores
<1>2. Shapes
  BY <1>1, ReadingThread DEF Init, Shapes
<1>3. ASSUME NEW c \in Conns PROVE Paired(c)
  BY <1>3 DEF Init, Gone, Paired, SentOfCall, ThreadAtCall, ReplyOfCall
<1> QED
  BY <1>2, <1>3 DEF IInv

LEMMA NextIInv == IInv /\ [Next]_vars => IInv'
<1> SUFFICES ASSUME IInv, [Next]_vars PROVE IInv'
  OBVIOUS
<1>1. ASSUME NEW c \in Conns, NEW req \in Requests, Invoke(c, req) PROVE IInv'
  BY <1>1, InvokePaired
<1>2. ASSUME NEW c \in Conns, ClientStep(c) PROVE IInv'
  BY <1>2, SendPartPaired, RaiseErrorPaired, ReceivePaired DEF ClientStep
<1>3. ASSUME NEW c \in Conns, ThreadStep(c) PROVE IInv'
  BY <1>3, AcceptPaired, ReadHeaderPaired, RefusePaired, SectionPaired, RespondPaired,
     DropResponsePaired, EndThreadPaired DEF ThreadStep
<1>4. CASE Restart
  BY <1>4, PairedFrame DEF Restart, IInv, Shapes
<1>5. CASE UNCHANGED vars
  BY <1>5, PairedFrame DEF vars, IInv, Shapes
<1>6. ASSUME NEW c \in Conns, Connect(c) \/ Close(c) PROVE IInv'
  BY <1>6, ConnectPaired, ClosePaired
<1> QED
  BY <1>1, <1>2, <1>3, <1>4, <1>5, <1>6, CrashPaired DEF Next

\* Every reachable state of the service is paired, whatever connections there
\* are and whatever requests their clients make.
THEOREM Invariance == Spec => []IInv
  BY InitIInv, NextIInv, PTL DEF Spec

\* The state of clients and threads is always well formed: in particular a
\* thread inside a request has a request, and no more is sent than it has.
THEOREM TypeCorrect == Spec => []TypeOK
<1>1. IInv => TypeOK
  <2> SUFFICES ASSUME IInv PROVE TypeOK
    OBVIOUS
  <2>1. ASSUME NEW c \in Conns
        PROVE  /\ call[c] \in Requests \cup {None}
               /\ sent[c] \in IF call[c] = None THEN {0} ELSE 0..Parts(call[c])
               /\ thread[c].pc \in {"gone", "accept", "header", "sections"}
               /\ thread[c].done = Len(thread[c].answers)
               /\ thread[c].pc # "sections" => thread[c].done = 0
               /\ thread[c].pc = "sections" =>
                     call[c] # None /\ thread[c].done <= Sections(call[c])
    <3>1. call[c] \in Requests \cup {None} /\ sent[c] \in Nat /\ thread[c] \in Threads
      BY <2>1 DEF IInv, Shapes
    <3>2. SentOfCall(c) /\ ThreadAtCall(c)
      BY <2>1 DEF IInv, Paired
    <3>3. call[c] # None => Parts(call[c]) \in Nat
      BY <3>1, RequestParts
    <3> QED
      BY <3>1, <3>2, <3>3 DEF SentOfCall, ThreadAtCall, Threads
  <2> QED
    BY <2>1 DEF TypeOK, IInv, Shapes
<1> QED
  BY <1>1, Invariance, PTL

\* A response on its way is the one to the call its client is making, complete,
\* with nothing of the request left to read; a refusal has ended the thread.
\* This is what keeps a client from taking the answer to one call for another's.
THEOREM RepliesPaired == Spec => []ReplyIsForCall
<1>1. IInv => ReplyIsForCall
  BY DEF IInv, Paired, ReplyOfCall, ReplyIsForCall
<1> QED
  BY <1>1, Invariance, PTL

-----------------------------------------------------------------------------
(* Every step is one of the service's, or none: what else holds of a        *)
(* connection, and of its call as the service sees it.                      *)

\* A client that has left its call has failed it, and a thread is left to read
\* what was sent; a client in a call has no result yet; no thread is at the
\* sections of a batch that is too large.
Served(c) ==
  /\ conn[c] = "closed" /\ call[c] # None => thread[c].pc # "gone" /\ result[c] = Failed
  /\ conn[c] = "open" /\ call[c] # None => result[c] = None
  /\ thread[c].pc = "sections" => ~ TooLarge(call[c])

ServedInv ==
  /\ result \in [Conns -> Seq(Answers) \cup {None, Failed, Refused}]
  /\ \A c \in Conns : Served(c)

LEMMA InitServed == Init => ServedInv
  BY DEF Init, ServedInv, Served, Gone

\* Every step leaves at most one connection other than it was, but for a crash.
LEMMA OneServed ==
  ASSUME ServedInv, NEW c \in Conns,
         result' \in [Conns -> Seq(Answers) \cup {None, Failed, Refused}],
         OtherwiseSame(c), \A d \in Conns \ {c} : result'[d] = result[d], Served(c)'
  PROVE  ServedInv'
<1>1. ASSUME NEW d \in Conns \ {c} PROVE Served(d)'
  BY <1>1 DEF ServedInv, Served, OtherwiseSame
<1> QED
  BY <1>1 DEF ServedInv

LEMMA NextServed ==
  ASSUME IInv, IInv', ServedInv, [Next]_vars
  PROVE  ServedInv'
<1> USE DEF IInv
<1>r. ASSUME NEW c \in Conns, UNCHANGED result
      PROVE  /\ result' \in [Conns -> Seq(Answers) \cup {None, Failed, Refused}]
             /\ \A d \in Conns \ {c} : result'[d] = result[d]
  BY <1>r DEF ServedInv
<1>1. ASSUME NEW c \in Conns, Connect(c) PROVE ServedInv'
  <2>1. OtherwiseSame(c)
    BY <1>1 DEF Shapes, Connect, OtherwiseSame
  <2>2. Served(c)'
    BY <1>1 DEF Shapes, Threads, Connect, ServedInv, Served
  <2> QED
    BY <1>1, <2>1, <2>2, OneServed DEF Connect, ServedInv
<1>2. ASSUME NEW c \in Conns, NEW req \in Requests, Invoke(c, req) PROVE ServedInv'
  <2>1. OtherwiseSame(c)
    BY <1>2 DEF Shapes, Invoke, OtherwiseSame
  <2>2. Served(c)'
    <3>1. thread[c].pc # "sections"
      BY <1>2 DEF Invoke, Paired, ThreadAtCall
    <3> QED
      BY <1>2, <3>1 DEF Shapes, Invoke, ServedInv, Served
  <2> QED
    BY <1>2, <2>1, <2>2, OneServed DEF Invoke, ServedInv
<1>3. ASSUME NEW c \in Conns, SendPart(c) PROVE ServedInv'
  BY <1>3 DEF SendPart, ServedInv, Served
<1>4. ASSUME NEW c \in Conns, RaiseError(c) PROVE ServedInv'
  <2>1. OtherwiseSame(c)
    BY <1>4 DEF Shapes, RaiseError, Forget, OtherwiseSame
  <2>2. Served(c)'
    BY <1>4 DEF Shapes, RaiseError, Forget, ServedInv, Served
  <2> QED
    BY <1>4, <2>1, <2>2, OneServed DEF RaiseError, ServedInv
<1>5. ASSUME NEW c \in Conns, Receive(c) PROVE ServedInv'
  <2>1. OtherwiseSame(c)
    BY <1>5 DEF Shapes, Receive, Forget, OtherwiseSame
  <2>2. thread[c].pc # "sections" /\ reply[c] \in Seq(Answers) \cup {Refused}
    BY <1>5 DEF Receive, Shapes, Paired, ReplyOfCall
  <2>3. Served(c)'
    BY <1>5, <2>2 DEF Shapes, Receive, Forget, ServedInv, Served
  <2>4. /\ result' \in [Conns -> Seq(Answers) \cup {None, Failed, Refused}]
        /\ \A d \in Conns \ {c} : result'[d] = result[d]
    BY <1>5, <2>2 DEF Receive, ServedInv
  <2> QED
    BY <2>1, <2>3, <2>4, OneServed
<1>6. ASSUME NEW c \in Conns, Close(c) PROVE ServedInv'
  <2>1. OtherwiseSame(c)
    BY <1>6 DEF Shapes, Close, Forget, OtherwiseSame
  <2>2. /\ result' \in [Conns -> Seq(Answers) \cup {None, Failed, Refused}]
        /\ \A d \in Conns \ {c} : result'[d] = result[d]
    BY <1>6 DEF Close, ServedInv
  <2>3. CASE thread[c].pc = "gone" \/ reply[c] # None
    <3>1. call'[c] = None /\ thread'[c] = thread[c]
      BY <1>6, <2>3 DEF Shapes, Close, Forget
    <3>2. thread[c].pc # "sections"
      BY <2>3 DEF Paired, ReplyOfCall
    <3>3. Served(c)'
      BY <3>1, <3>2 DEF Served
    <3> QED
      BY <2>1, <2>2, <3>3, OneServed
  <2>4. CASE ~ (thread[c].pc = "gone" \/ reply[c] # None)
    <3>1. /\ call'[c] = call[c] /\ thread'[c] = thread[c] /\ thread[c].pc # "gone"
          /\ conn'[c] = "closed" /\ (call[c] # None => result'[c] = Failed)
      BY <1>6, <2>4 DEF Shapes, Close, ServedInv
    <3>2. Served(c)'
      BY <3>1 DEF ServedInv, Served
    <3> QED
      BY <2>1, <2>2, <3>2, OneServed
  <2> QED
    BY <2>3, <2>4
<1>7. ASSUME NEW c \in Conns, Accept(c) PROVE ServedInv'
  <2>1. OtherwiseSame(c)
    BY <1>7 DEF Shapes, Accept, OtherwiseSame
  <2>2. Served(c)'
    BY <1>7 DEF Shapes, Accept, Reading, ServedInv, Served
  <2> QED
    BY <1>7, <1>r, <2>1, <2>2, OneServed DEF Accept
<1>8. ASSUME NEW c \in Conns, ReadHeader(c) PROVE ServedInv'
  <2>1. OtherwiseSame(c)
    BY <1>8 DEF Shapes, ReadHeader, OtherwiseSame
  <2>2. thread'[c].pc = "sections" /\ UNCHANGED <<conn[c], call[c], result[c]>>
    BY <1>8, ReadingThread DEF Shapes, ReadHeader
  <2>3. Served(c)'
    BY <1>8, <2>2 DEF ReadHeader, ServedInv, Served
  <2> QED
    BY <1>8, <1>r, <2>1, <2>3, OneServed DEF ReadHeader
<1>9. ASSUME NEW c \in Conns, Refuse(c) PROVE ServedInv'
  <2>1. OtherwiseSame(c)
    BY <1>9 DEF Shapes, Refuse, OtherwiseSame
  <2>2. /\ thread'[c] = Gone /\ UNCHANGED <<conn[c], result[c]>>
        /\ IF conn[c] = "open" THEN call'[c] = call[c] ELSE call'[c] = None
    BY <1>9 DEF Shapes, Refuse
  <2>3. Served(c)'
    BY <2>2 DEF Gone, ServedInv, Served
  <2> QED
    BY <1>9, <1>r, <2>1, <2>3, OneServed DEF Refuse
<1>10. ASSUME NEW c \in Conns, Section(c) PROVE ServedInv'
  <2>1. OtherwiseSame(c)
    BY <1>10 DEF Shapes, Section, OtherwiseSame
  <2>2. thread'[c].pc = thread[c].pc /\ UNCHANGED <<conn[c], call[c], result[c]>>
    <3>1. thread[c] \in Threads /\ thread \in [Conns -> Threads]
      BY DEF Shapes
    <3> QED
      BY <1>10, <3>1 DEF Section, Threads
  <2>3. Served(c)'
    BY <2>2 DEF ServedInv, Served
  <2> QED
    BY <1>10, <1>r, <2>1, <2>3, OneServed DEF Section
<1>11. ASSUME NEW c \in Conns, Respond(c) PROVE ServedInv'
  <2>1. OtherwiseSame(c)
    BY <1>11 DEF Shapes, Respond, OtherwiseSame
  <2>2. Served(c)'
    BY <1>11 DEF Shapes, Respond, Reading, ServedInv, Served
  <2> QED
    BY <1>11, <1>r, <2>1, <2>2, OneServed DEF Respond
<1>12. ASSUME NEW c \in Conns, EndThread(c) PROVE ServedInv'
  <2>1. OtherwiseSame(c)
    BY <1>12 DEF Shapes, EndThread, Forget, OtherwiseSame
  <2>2. call'[c] = None /\ thread'[c] = Gone
    BY <1>12 DEF Shapes, EndThread, Forget
  <2>3. Served(c)'
    BY <2>2 DEF Gone, Served
  <2> QED
    BY <1>12, <1>r, <2>1, <2>3, OneServed DEF EndThread
<1>13. ASSUME NEW c \in Conns, DropResponse(c) PROVE ServedInv'
  <2>1. OtherwiseSame(c)
    BY <1>13 DEF Shapes, DropResponse, OtherwiseSame
  <2>2. Served(c)'
    BY <1>13 DEF Shapes, DropResponse, Gone, ServedInv, Served
  <2> QED
    BY <1>13, <1>r, <2>1, <2>2, OneServed DEF DropResponse
<1>14. CASE Crash
  <2>1. ASSUME NEW c \in Conns PROVE Served(c)'
    BY <1>14 DEF Crash, Gone, Shapes, ServedInv, Served
  <2> QED
    BY <1>14, <2>1 DEF Crash, ServedInv
<1>15. CASE Restart \/ UNCHANGED vars
  BY <1>15 DEF Restart, vars, ServedInv, Served
<1> QED
  BY <1>1, <1>2, <1>3, <1>4, <1>5, <1>6, <1>7, <1>8, <1>9, <1>10, <1>11, <1>12, <1>13, <1>14, <1>15
     DEF Next, ClientStep, ThreadStep

-----------------------------------------------------------------------------
(* The call the service sees.                                               *)

\* The instance's own copies of the operators of KvStore.
LEMMA SameStore ==
  /\ Service!EmptyStore = EmptyStore
  /\ \A req : Service!Sections(req) = Sections(req)
  /\ \A req : Service!TooLarge(req) <=> TooLarge(req)
  /\ \A st, req, i : Service!StoreAfter(st, req, i) = StoreAfter(st, req, i)
  /\ \A st, req, i : Service!AnswerOf(st, req, i) = AnswerOf(st, req, i)
  /\ \A req, answers : Service!Unsendable(req, answers) <=> Unsendable(req, answers)
<1>1. Service!EmptyStore = EmptyStore
  BY DEF Service!EmptyStore, EmptyStore
<1>2. \A req : Service!Sections(req) = Sections(req)
  BY DEF Service!Sections, Sections, Service!Keyless, Keyless
<1>3. \A req : Service!TooLarge(req) <=> TooLarge(req)
  BY DEF Service!TooLarge, TooLarge, Service!Batches, Batches
<1>4. \A st, req, i : Service!StoreAfter(st, req, i) = StoreAfter(st, req, i)
  BY DEF Service!StoreAfter, StoreAfter, Service!Put, Put, Service!Clear, Clear
<1>5. \A S : Service!Cardinality(S) = Cardinality(S)
  BY DEF Service!Cardinality, Cardinality
<1>6. \A st, type : Service!Size(st, type) = Size(st, type)
  BY <1>5 DEF Service!Size, Size
<1>7. \A st, req, i : Service!AnswerOf(st, req, i) = AnswerOf(st, req, i)
  BY <1>6 DEF Service!AnswerOf, AnswerOf, Service!Get, Get, Service!Exists, Exists
<1>8. \A req, answers : Service!Unsendable(req, answers) <=> Unsendable(req, answers)
  BY DEF Service!Unsendable, Unsendable
<1> QED
  BY <1>1, <1>2, <1>3, <1>4, <1>7, <1>8

AnswersSoFar(c) == IF reply[c] \notin {None, Refused} THEN reply[c] ELSE thread[c].answers

LostCall(c) == thread[c].pc = "gone" /\ reply[c] = None

SeenCall(req, answers, lost) == [req |-> req, answers |-> answers, lost |-> lost]

LEMMA SeenCalls ==
  ASSUME NEW c \in Conns
  PROVE  Calls[c] = IF call[c] = None THEN None
                    ELSE SeenCall(call[c], AnswersSoFar(c), LostCall(c))
  BY DEF Calls, AnswersSoFar, LostCall, SeenCall

LEMMA SeenNextCalls ==
  ASSUME NEW c \in Conns
  PROVE  Calls'[c] = IF call'[c] = None THEN None
                     ELSE SeenCall(call'[c], AnswersSoFar(c)', LostCall(c)')
  BY DEF Calls, AnswersSoFar, LostCall, SeenCall

Seen == [req : Requests, answers : Seq(Answers), lost : BOOLEAN]

\* What a section, and what a crash, makes of a call.
LEMMA SeenChanged ==
  ASSUME NEW seen \in Seen, NEW more
  PROVE  /\ [seen EXCEPT !.answers = more] = SeenCall(seen.req, more, seen.lost)
         /\ [seen EXCEPT !.answers = more, !.lost = TRUE] = SeenCall(seen.req, more, TRUE)
<1>1. [seen EXCEPT !.answers = more] = SeenCall(seen.req, more, seen.lost)
  BY DEF Seen, SeenCall
<1>2. [seen EXCEPT !.answers = more, !.lost = TRUE]
        = [[seen EXCEPT !.answers = more] EXCEPT !.lost = TRUE]
  BY DEF Seen
<1>3. \A req, lost, b : [SeenCall(req, more, lost) EXCEPT !.lost = b] = SeenCall(req, more, b)
  BY DEF SeenCall
<1>4. [SeenCall(seen.req, more, seen.lost) EXCEPT !.lost = TRUE] = SeenCall(seen.req, more, TRUE)
  BY <1>3
<1> QED
  BY <1>1, <1>2, <1>4

\* A call is not mistaken for none.
LEMMA CallSeen ==
  ASSUME IInv, NEW c \in Conns, call[c] # None
  PROVE  /\ Calls[c] # None /\ Calls[c] \in Seen
         /\ Calls[c].req = call[c]
         /\ Calls[c].answers = AnswersSoFar(c)
         /\ Calls[c].lost <=> LostCall(c)
<1>1. Calls[c] = SeenCall(call[c], AnswersSoFar(c), LostCall(c))
  BY SeenCalls
<1>2. call[c] \in Requests /\ AnswersSoFar(c) \in Seq(Answers) /\ LostCall(c) \in BOOLEAN
  BY DEF IInv, Shapes, Threads, AnswersSoFar, LostCall
<1>3. SeenCall(call[c], AnswersSoFar(c), LostCall(c)) \in Seen
  BY <1>2 DEF SeenCall, Seen
<1>4. None \notin Seen
  BY RequestAssumption DEF Seen
<1> QED
  BY <1>1, <1>3, <1>4 DEF SeenCall

\* One connection's step changes the call of that connection only.
LEMMA OneCall ==
  ASSUME NEW c \in Conns, OtherwiseSame(c)
  PROVE  Calls' = [Calls EXCEPT ![c] = Calls'[c]]
<1>1. ASSUME NEW d \in Conns, d # c PROVE Calls'[d] = Calls[d]
  <2>1. UNCHANGED <<call[d], thread[d], reply[d]>>
    BY <1>1 DEF OtherwiseSame
  <2>2. /\ AnswersSoFar(d)' = AnswersSoFar(d)
        /\ LostCall(d)' = LostCall(d)
    BY <2>1 DEF AnswersSoFar, LostCall
  <2> QED
    BY <2>1, <2>2, SeenCalls, SeenNextCalls
<1>2. Calls = [d \in Conns |-> Calls[d]] /\ Calls' = [d \in Conns |-> Calls'[d]]
  BY DEF Calls
<1> QED
  BY <1>1, <1>2

\* A step that the service does not see.
LEMMA Unseen ==
  ASSUME NEW c \in Conns, OtherwiseSame(c), UNCHANGED <<store, result>>,
         call'[c] = call[c],
         call[c] # None => AnswersSoFar(c)' = AnswersSoFar(c) /\ (LostCall(c)' <=> LostCall(c))
  PROVE  UNCHANGED Service!vars
<1>1. LostCall(c)' \in BOOLEAN /\ LostCall(c) \in BOOLEAN
  BY DEF LostCall
<1>2. Calls'[c] = Calls[c]
  BY <1>1, SeenCalls, SeenNextCalls
<1>3. Calls' = Calls
  <2>1. Calls = [d \in Conns |-> Calls[d]]
    BY DEF Calls
  <2>2. Calls' = [Calls EXCEPT ![c] = Calls[c]]
    BY <1>2, OneCall
  <2> QED
    BY <2>1, <2>2
<1> QED
  BY <1>3 DEF Service!vars

-----------------------------------------------------------------------------
(* The steps.                                                               *)

\* A thread outside the sections of a request has answered nothing.
LEMMA NothingAnswered ==
  ASSUME IInv, NEW c \in Conns, thread[c].pc # "sections"
  PROVE  thread[c].answers = << >>
<1>1. thread[c].answers \in Seq(Answers) /\ Len(thread[c].answers) = 0
  BY DEF IInv, Shapes, Threads, Paired, ThreadAtCall
<1> QED
  BY <1>1

LEMMA ConnectServes ==
  ASSUME IInv, ServedInv, NEW c \in Conns, Connect(c)
  PROVE  Service!Consume(c)
<1>1. OtherwiseSame(c) /\ call' = call /\ store' = store
  BY DEF IInv, Shapes, Connect, OtherwiseSame
<1>2. call[c] = None
  BY DEF Connect, ServedInv, Served
<1>3. Calls[c] = None /\ Calls'[c] = None
  BY <1>1, <1>2, SeenCalls, SeenNextCalls
<1>4. Calls' = Calls
  <2>1. Calls = [d \in Conns |-> Calls[d]]
    BY DEF Calls
  <2> QED
    BY <1>1, <1>3, <2>1, OneCall
<1> QED
  BY <1>1, <1>3, <1>4 DEF Connect, Service!Consume

LEMMA InvokeServes ==
  ASSUME IInv, NEW c \in Conns, NEW req \in Requests, Invoke(c, req)
  PROVE  Service!Invoke(c, req)
<1>1. /\ OtherwiseSame(c) /\ call'[c] = req /\ call[c] = None
      /\ UNCHANGED <<store, thread, reply>>
      /\ result' = [result EXCEPT ![c] = None]
  BY DEF IInv, Shapes, Invoke, OtherwiseSame
<1>2. reply[c] = None /\ thread[c].pc # "sections"
  BY <1>1 DEF IInv, Paired, ReplyOfCall, ThreadAtCall
<1>3. AnswersSoFar(c)' = << >>
  BY <1>1, <1>2, NothingAnswered DEF AnswersSoFar
<1>4. PICK dead \in BOOLEAN : dead = LostCall(c)'
  BY DEF LostCall
<1>5. Calls[c] = None /\ Calls'[c] = [req |-> req, answers |-> << >>, lost |-> dead]
  <2>1. req # None
    BY RequestAssumption
  <2> QED
    BY <1>1, <1>3, <1>4, <2>1, SeenCalls, SeenNextCalls DEF SeenCall
<1>6. Calls' = [Calls EXCEPT ![c] = [req |-> req, answers |-> << >>, lost |-> dead]]
  BY <1>1, <1>5, OneCall
<1> QED
  BY <1>1, <1>5, <1>6 DEF Service!Invoke

\* A call that is over is none to the service.
LEMMA CallOver ==
  ASSUME NEW c \in Conns, OtherwiseSame(c), call'[c] = None
  PROVE  Calls' = [Calls EXCEPT ![c] = None]
<1>1. Calls'[c] = None
  BY SeenNextCalls
<1> QED
  BY <1>1, OneCall

LEMMA RaiseErrorServes ==
  ASSUME IInv, NEW c \in Conns, RaiseError(c)
  PROVE  Service!Fail(c)
<1>1. OtherwiseSame(c) /\ call'[c] = None /\ call[c] # None
  BY DEF IInv, Shapes, RaiseError, Calling, Forget, OtherwiseSame
<1>2. Calls' = [Calls EXCEPT ![c] = None] /\ Calls[c] # None
  BY <1>1, CallOver, CallSeen
<1> QED
  BY <1>2 DEF RaiseError, Service!Fail

LEMMA ReceiveServes ==
  ASSUME IInv, NEW c \in Conns, Receive(c)
  PROVE  Service!Return(c)
<1>1. /\ OtherwiseSame(c) /\ call'[c] = None /\ call[c] # None /\ reply[c] # None
      /\ result' = [result EXCEPT ![c] = reply[c]] /\ store' = store
  BY DEF IInv, Shapes, Receive, Calling, Forget, OtherwiseSame
<1>2. Calls' = [Calls EXCEPT ![c] = None]
  BY <1>1, CallOver
<1>3. /\ Calls[c] # None /\ Calls[c].req = call[c] /\ ~ Calls[c].lost
      /\ Calls[c].answers = AnswersSoFar(c)
  BY <1>1, CallSeen DEF LostCall
<1>4. IF reply[c] = Refused THEN TooLarge(call[c])
                            ELSE /\ AnswersSoFar(c) = reply[c]
                                 /\ Len(AnswersSoFar(c)) = Sections(call[c])
                                 /\ ~ Unsendable(call[c], AnswersSoFar(c))
  BY <1>1 DEF IInv, Paired, ReplyOfCall, AnswersSoFar
<1> QED
  BY <1>1, <1>2, <1>3, <1>4, SameStore DEF Service!Return

LEMMA CloseServes ==
  ASSUME IInv, NEW c \in Conns, Close(c)
  PROVE  Service!Fail(c) \/ Service!Consume(c)
<1>1. OtherwiseSame(c)
  BY DEF IInv, Shapes, Close, Forget, OtherwiseSame
<1>2. Calls = [d \in Conns |-> Calls[d]]
  BY DEF Calls
<1>3. CASE call[c] = None
  <2>1. call'[c] = None
    BY <1>3 DEF Close, Forget, IInv, Shapes
  <2>2. Calls[c] = None /\ Calls' = Calls
    BY <1>1, <1>2, <1>3, <2>1, CallOver, SeenCalls
  <2> QED
    BY <1>3, <2>2 DEF Close, Service!Consume
<1>4. CASE call[c] # None
  <2>1. Calls[c] # None /\ result' = [result EXCEPT ![c] = Failed] /\ store' = store
    BY <1>4, CallSeen DEF Close
  <2>2. CASE thread[c].pc = "gone" \/ reply[c] # None
    <3>1. call'[c] = None
      BY <2>2 DEF Close, Forget, IInv, Shapes
    <3> QED
      BY <1>1, <2>1, <3>1, CallOver DEF Service!Fail
  <2>3. CASE ~ (thread[c].pc = "gone" \/ reply[c] # None)
    <3>1. UNCHANGED <<call, thread, reply>>
      BY <2>3 DEF Close
    <3>2. Calls' = Calls
      BY <3>1 DEF Calls
    <3> QED
      BY <2>1, <3>2 DEF Service!Fail
  <2> QED
    BY <2>2, <2>3
<1> QED
  BY <1>3, <1>4

\* A call whose client has left it is dropped, or there was none.
LEMMA Dropped ==
  ASSUME ServedInv, IInv, NEW c \in Conns, OtherwiseSame(c), UNCHANGED <<store, result>>,
         conn[c] = "closed", call'[c] = None
  PROVE  Service!Abandon(c) \/ UNCHANGED Service!vars
<1>1. Calls' = [Calls EXCEPT ![c] = None]
  BY CallOver
<1>2. CASE call[c] = None
  <2>1. Calls = [d \in Conns |-> Calls[d]] /\ Calls[c] = None
    BY <1>2 DEF Calls
  <2> QED
    BY <1>1, <2>1 DEF Service!vars
<1>3. CASE call[c] # None
  <2>1. Calls[c] # None /\ result[c] = Failed
    BY <1>3, CallSeen DEF ServedInv, Served
  <2> QED
    BY <1>1, <2>1 DEF Service!Abandon
<1> QED
  BY <1>2, <1>3

LEMMA AcceptUnseen ==
  ASSUME IInv, NEW c \in Conns, Accept(c)
  PROVE  UNCHANGED Service!vars
<1>1. /\ OtherwiseSame(c) /\ UNCHANGED <<store, result, call, reply>>
      /\ thread[c].pc = "accept" /\ thread'[c] = Reading
  BY DEF IInv, Shapes, Accept, OtherwiseSame
<1>2. thread[c].answers = << >>
  BY <1>1, NothingAnswered
<1>3. AnswersSoFar(c)' = AnswersSoFar(c) /\ (LostCall(c)' <=> LostCall(c))
  BY <1>1, <1>2 DEF AnswersSoFar, LostCall, Reading
<1> QED
  BY <1>1, <1>3, Unseen

LEMMA ReadHeaderUnseen ==
  ASSUME IInv, NEW c \in Conns, ReadHeader(c)
  PROVE  UNCHANGED Service!vars
<1>1. /\ OtherwiseSame(c) /\ UNCHANGED <<store, result, call, reply>>
      /\ thread[c].pc = "header"
      /\ thread'[c] = [pc |-> "sections", done |-> 0, answers |-> << >>]
  BY ReadingThread DEF IInv, Shapes, ReadHeader, OtherwiseSame
<1>2. thread[c].answers = << >>
  BY <1>1, NothingAnswered
<1>3. AnswersSoFar(c)' = AnswersSoFar(c) /\ (LostCall(c)' <=> LostCall(c))
  BY <1>1, <1>2 DEF AnswersSoFar, LostCall
<1> QED
  BY <1>1, <1>3, Unseen

LEMMA RefuseServes ==
  ASSUME IInv, ServedInv, NEW c \in Conns, Refuse(c)
  PROVE  Service!Abandon(c) \/ UNCHANGED Service!vars
<1>1. /\ OtherwiseSame(c) /\ UNCHANGED <<store, result>>
      /\ thread[c].pc = "header" /\ thread'[c] = Gone /\ reply[c] = None
      /\ conn[c] \in {"open", "closed"}
  BY DEF IInv, Shapes, Refuse, OtherwiseSame
<1>2. CASE conn[c] = "open"
  <2>1. call'[c] = call[c] /\ reply'[c] = Refused
    BY <1>2 DEF IInv, Shapes, Refuse
  <2>2. thread[c].answers = << >> /\ Refused # None
    BY <1>1, NothingAnswered, RequestAssumption
  <2>3. AnswersSoFar(c)' = AnswersSoFar(c) /\ (LostCall(c)' <=> LostCall(c))
    BY <1>1, <2>1, <2>2 DEF AnswersSoFar, LostCall, Gone
  <2> QED
    BY <1>1, <2>1, <2>3, Unseen
<1>3. CASE conn[c] = "closed"
  <2>1. call'[c] = None
    BY <1>3 DEF IInv, Shapes, Refuse
  <2> QED
    BY <1>1, <1>3, <2>1, Dropped
<1> QED
  BY <1>1, <1>2, <1>3

LEMMA SectionServes ==
  ASSUME IInv, ServedInv, NEW c \in Conns, Section(c)
  PROVE  Service!Perform(c)
<1>1. PICK req \in Requests, i \in Nat, t \in Threads :
        /\ req = call[c] /\ t = thread[c] /\ i = t.done + 1 /\ t.pc = "sections"
        /\ i <= Sections(req) /\ req # None /\ reply[c] = None /\ t.done = Len(t.answers)
        /\ store' = StoreAfter(store, req, i)
        /\ thread' = [thread EXCEPT ![c] =
                       [pc |-> "sections", done |-> i,
                        answers |-> Append(@.answers, AnswerOf(store, req, i))]]
        /\ UNCHANGED <<call, reply, result, conn, sent>>
  <2>1. thread[c] \in Threads /\ thread[c].done + 1 \in Nat /\ thread[c].pc = "sections"
    BY DEF IInv, Shapes, Threads, Section
  <2>2. call[c] \in Requests /\ call[c] # None /\ reply[c] = None
        /\ thread[c].done = Len(thread[c].answers)
    BY <2>1 DEF IInv, Shapes, Paired, ThreadAtCall
  <2> QED
    BY <2>1, <2>2 DEF Section
<1>2. OtherwiseSame(c)
  BY <1>1 DEF IInv, Shapes, OtherwiseSame
<1>3. /\ thread'[c].answers = Append(t.answers, AnswerOf(store, req, i))
      /\ thread'[c].pc = "sections"
  <2>1. thread \in [Conns -> Threads]
    BY DEF IInv, Shapes
  <2> QED
    BY <1>1, <2>1 DEF Threads
<1> DEFINE more == Append(t.answers, AnswerOf(store, req, i))
<1>4. /\ Calls[c] = SeenCall(req, t.answers, FALSE)
      /\ Calls'[c] = SeenCall(req, more, FALSE)
  <2>1. AnswersSoFar(c) = t.answers /\ LostCall(c) = FALSE
    BY <1>1 DEF AnswersSoFar, LostCall
  <2>2. /\ AnswersSoFar(c)' = Append(t.answers, AnswerOf(store, req, i))
        /\ LostCall(c)' = FALSE
    BY <1>1, <1>3 DEF AnswersSoFar, LostCall
  <2> QED
    BY <1>1, <2>1, <2>2, SeenCalls, SeenNextCalls
<1>5. Calls' = [Calls EXCEPT ![c].answers = Append(@, AnswerOf(store, req, i))]
  <2>1. Calls[c].answers = t.answers
    BY <1>4 DEF SeenCall
  <2>2. [Calls[c] EXCEPT !.answers = more] = Calls'[c]
    <3>1. Calls[c] \in Seen
      BY <1>1, CallSeen
    <3>2. Calls[c].req = req /\ Calls[c].lost = FALSE
      BY <1>4 DEF SeenCall
    <3>3. [Calls[c] EXCEPT !.answers = more] = SeenCall(req, more, FALSE)
      BY <3>1, <3>2, SeenChanged
    <3> QED
      BY <1>4, <3>3
  <2>3. Calls' = [Calls EXCEPT ![c] = [Calls[c] EXCEPT !.answers = more]]
    BY <1>2, <2>2, OneCall
  <2> QED
    BY <2>1, <2>3
<1>6. /\ Calls[c] # None /\ ~ TooLarge(req) /\ i = Len(t.answers) + 1
      /\ Calls[c].req = req /\ Calls[c].answers = t.answers /\ ~ Calls[c].lost
  <2>1. Calls[c] # None /\ ~ TooLarge(req)
    BY <1>1, CallSeen DEF ServedInv, Served
  <2> QED
    BY <1>1, <1>4, <2>1 DEF SeenCall
<1>7. /\ i <= Service!Sections(req) /\ store' = Service!StoreAfter(store, req, i)
      /\ Calls' = [Calls EXCEPT ![c].answers = Append(@, Service!AnswerOf(store, req, i))]
      /\ ~ Service!TooLarge(req) /\ result' = result
  BY <1>1, <1>5, <1>6, SameStore
<1> QED
  BY <1>6, <1>7 DEF Service!Perform

LEMMA RespondUnseen ==
  ASSUME IInv, NEW c \in Conns, Respond(c)
  PROVE  UNCHANGED Service!vars
<1>1. /\ OtherwiseSame(c) /\ UNCHANGED <<store, result, call>>
      /\ thread[c].pc = "sections" /\ thread'[c] = Reading
      /\ reply'[c] = thread[c].answers
  BY DEF IInv, Shapes, Respond, OtherwiseSame
<1>2. reply[c] = None /\ thread[c].answers \notin {None, Refused}
  BY <1>1, RequestAssumption DEF IInv, Shapes, Threads, Paired, ThreadAtCall
<1>3. AnswersSoFar(c)' = AnswersSoFar(c) /\ (LostCall(c)' <=> LostCall(c))
  BY <1>1, <1>2 DEF AnswersSoFar, LostCall, Reading
<1> QED
  BY <1>1, <1>3, Unseen

\* The answers are all there when the thread finds that they cannot be sent.
LEMMA DropResponseServes ==
  ASSUME IInv, NEW c \in Conns, DropResponse(c)
  PROVE  Service!LoseAnswers(c)
<1>1. /\ OtherwiseSame(c) /\ UNCHANGED <<store, result, call, reply>>
      /\ thread[c].pc = "sections" /\ thread[c].done = Sections(call[c])
      /\ Unsendable(call[c], thread[c].answers) /\ thread'[c] = Gone
  BY DEF IInv, Shapes, DropResponse, OtherwiseSame
<1>2. /\ reply[c] = None /\ call[c] # None /\ Len(thread[c].answers) = Sections(call[c])
  BY <1>1 DEF IInv, Paired, ThreadAtCall
<1>3. AnswersSoFar(c) = thread[c].answers /\ LostCall(c) = FALSE
  BY <1>1, <1>2 DEF AnswersSoFar, LostCall
<1>4. AnswersSoFar(c)' = << >> /\ LostCall(c)' = TRUE
  BY <1>1, <1>2 DEF AnswersSoFar, LostCall, Gone
<1>5. /\ Calls[c] # None /\ Calls[c] \in Seen /\ Calls[c].req = call[c]
      /\ Calls[c].answers = thread[c].answers /\ ~ Calls[c].lost
  BY <1>2, <1>3, CallSeen
<1>6. Calls'[c] = SeenCall(call[c], << >>, TRUE)
  BY <1>1, <1>2, <1>4, SeenNextCalls
<1>7. Calls'[c] = [Calls[c] EXCEPT !.answers = << >>, !.lost = TRUE]
  BY <1>5, <1>6, SeenChanged
<1>8. Calls' = [Calls EXCEPT ![c].answers = << >>, ![c].lost = TRUE]
  <2>1. Calls' = [Calls EXCEPT ![c] = Calls'[c]] /\ Calls = [d \in Conns |-> Calls[d]]
    BY <1>1, OneCall DEF Calls
  <2> QED
    BY <1>7, <2>1
<1> QED
  BY <1>1, <1>2, <1>5, <1>8, SameStore DEF Service!LoseAnswers

LEMMA EndThreadServes ==
  ASSUME IInv, ServedInv, NEW c \in Conns, EndThread(c)
  PROVE  Service!Abandon(c) \/ UNCHANGED Service!vars
<1>1. OtherwiseSame(c) /\ UNCHANGED <<store, result>> /\ conn[c] = "closed" /\ call'[c] = None
  BY DEF IInv, Shapes, EndThread, Forget, OtherwiseSame
<1> QED
  BY <1>1, Dropped

\* The calls that had no response on its way are lost.
LEMMA CrashServes ==
  ASSUME IInv, ServedInv, Crash
  PROVE  \E Cs \in SUBSET Conns : Service!LoseAll(Cs)
<1> DEFINE Cs == {c \in Conns : reply[c] = None}
           lose(c) == IF c \notin Cs \/ Calls[c] = None THEN Calls[c]
                      ELSE IF result[c] = Failed THEN None
                      ELSE [Calls[c] EXCEPT !.answers = << >>, !.lost = TRUE]
<1>1. ASSUME NEW c \in Conns
      PROVE  /\ call'[c] = IF conn[c] = "open" THEN call[c] ELSE None
             /\ thread'[c] = Gone /\ reply'[c] = reply[c]
             /\ conn[c] \in {"open", "closed"}
  BY DEF Crash, IInv, Shapes
<1>2. ASSUME NEW c \in Conns \ Cs PROVE Calls[c] # None /\ Calls'[c] = Calls[c]
                                        /\ ~ Calls[c].lost /\ Service!Complete(c)
  <2>1. reply[c] # None /\ conn[c] = "open" /\ call[c] # None
    BY <1>2 DEF IInv, Paired, ReplyOfCall
  <2>2. call'[c] = call[c] /\ thread'[c] = Gone /\ reply'[c] = reply[c]
    BY <1>1, <2>1
  <2>3. /\ Calls[c] # None /\ Calls[c].req = call[c] /\ ~ Calls[c].lost
        /\ Calls[c].answers = AnswersSoFar(c)
    BY <2>1, CallSeen DEF LostCall
  <2>4. IF reply[c] = Refused THEN TooLarge(call[c]) /\ thread[c].pc = "gone"
                              ELSE Len(AnswersSoFar(c)) = Sections(call[c])
    BY <2>1 DEF IInv, Paired, ReplyOfCall, AnswersSoFar
  <2>5. AnswersSoFar(c)' = AnswersSoFar(c)
    <3>1. reply[c] = Refused => thread[c].answers = << >>
      BY <2>4, NothingAnswered
    <3> QED
      BY <2>1, <2>2, <3>1 DEF AnswersSoFar, Gone
  <2>6. LostCall(c)' = FALSE /\ LostCall(c) = FALSE
    BY <2>1, <2>2 DEF LostCall
  <2>7. Calls'[c] = Calls[c]
    BY <2>1, <2>2, <2>5, <2>6, SeenCalls, SeenNextCalls
  <2> QED
    BY <2>3, <2>4, <2>7, SameStore DEF Service!Complete
<1>3. ASSUME NEW c \in Cs PROVE Calls'[c] = lose(c)
  <2>1. CASE call[c] = None
    <3>1. call'[c] = None
      BY <1>1, <2>1
    <3> QED
      BY <2>1, <3>1, SeenCalls, SeenNextCalls
  <2>2. CASE call[c] # None /\ conn[c] = "closed"
    <3>1. call'[c] = None /\ result[c] = Failed
      BY <1>1, <2>2 DEF ServedInv, Served
    <3>2. Calls[c] # None
      BY <2>2, CallSeen
    <3> QED
      BY <3>1, <3>2, SeenNextCalls
  <2>3. CASE call[c] # None /\ conn[c] = "open"
    <3>1. /\ call'[c] = call[c] /\ call[c] # None /\ thread'[c] = Gone /\ reply'[c] = None
          /\ result[c] # Failed
      BY <1>1, <2>3, RequestAssumption DEF ServedInv, Served
    <3>2. AnswersSoFar(c)' = << >> /\ LostCall(c)' = TRUE
      BY <3>1 DEF AnswersSoFar, LostCall, Gone
    <3>3. Calls'[c] = SeenCall(call[c], << >>, TRUE)
      BY <3>1, <3>2, SeenNextCalls
    <3>4. Calls[c] # None /\ Calls[c] = SeenCall(call[c], AnswersSoFar(c), LostCall(c))
      BY <3>1, CallSeen, SeenCalls
    <3>5. [Calls[c] EXCEPT !.answers = << >>, !.lost = TRUE] = SeenCall(call[c], << >>, TRUE)
      <4>1. Calls[c] \in Seen /\ Calls[c].req = call[c]
        BY <3>1, CallSeen
      <4> QED
        BY <4>1, SeenChanged
    <3> QED
      BY <3>1, <3>3, <3>4, <3>5
  <2> QED
    BY <1>1, <2>1, <2>2, <2>3
<1>4. Calls' = [c \in Conns |-> lose(c)]
  <2>1. Calls' = [c \in Conns |-> Calls'[c]]
    BY DEF Calls
  <2>2. \A c \in Conns : Calls'[c] = lose(c)
    BY <1>2, <1>3
  <2> HIDE DEF lose
  <2> QED
    BY <2>1, <2>2
<1>5. \A c \in Conns \ Cs : Calls[c] # None /\ ~ Calls[c].lost => Service!Complete(c)
  BY <1>2
<1>6. store' = Service!EmptyStore /\ result' = result
  BY SameStore DEF Crash
<1>7. Service!LoseAll(Cs)
  BY <1>4, <1>5, <1>6 DEF Service!LoseAll
<1> QED
  BY <1>7

LEMMA InitServes == Init => Service!Init
<1> SUFFICES ASSUME Init PROVE Service!Init
  OBVIOUS
<1>1. Calls = [c \in Conns |-> None]
  BY DEF Init, Calls
<1> QED
  BY <1>1, SameStore DEF Init, Service!Init

LEMMA NextServes ==
  ASSUME IInv, ServedInv, [Next]_vars
  PROVE  [Service!Next]_(Service!vars)
<1>1. ASSUME NEW c \in Conns, NEW req \in Requests, Invoke(c, req) PROVE Service!Next
  BY <1>1, InvokeServes DEF Service!Next
<1>2. ASSUME NEW c \in Conns, SendPart(c) PROVE UNCHANGED Service!vars
  BY <1>2 DEF SendPart, Service!vars, Calls
<1>3. ASSUME NEW c \in Conns, Connect(c) \/ RaiseError(c) \/ Receive(c) \/ Close(c) \/ Section(c)
      PROVE  Service!Next
  BY <1>3, ConnectServes, RaiseErrorServes, ReceiveServes, CloseServes, SectionServes
     DEF Service!Next
<1>4. ASSUME NEW c \in Conns, Refuse(c) \/ EndThread(c)
      PROVE  Service!Next \/ UNCHANGED Service!vars
  BY <1>4, RefuseServes, EndThreadServes DEF Service!Next
<1>5. ASSUME NEW c \in Conns, Accept(c) \/ ReadHeader(c) \/ Respond(c)
      PROVE  UNCHANGED Service!vars
  BY <1>5, AcceptUnseen, ReadHeaderUnseen, RespondUnseen
<1>6. ASSUME NEW c \in Conns, DropResponse(c) PROVE Service!Next
  BY <1>6, DropResponseServes DEF Service!Next
<1>7. CASE Crash
  BY <1>7, CrashServes DEF Service!Next
<1>8. CASE Restart \/ UNCHANGED vars
  BY <1>8 DEF Restart, vars, Service!vars, Calls
<1> QED
  BY <1>1, <1>2, <1>3, <1>4, <1>5, <1>6, <1>7, <1>8 DEF Next, ClientStep, ThreadStep

\* Whatever the connections do, however often clients leave and the server
\* crashes, and whatever answers are too long to send, calls get what the service
\* promises: their sections take effect in order, each once and on the store of
\* the moment, and a call returns what its own sections answered, or fails.
THEOREM ImplementsService == Spec => ImplementsKvService
<1>1. Spec => []IInv
  BY Invariance
<1>2. Init => ServedInv
  BY InitServed
<1>3. IInv /\ IInv' /\ ServedInv /\ [Next]_vars => ServedInv'
  BY NextServed
<1>4. Spec => []ServedInv
  BY <1>1, <1>2, <1>3, PTL DEF Spec
<1>5. IInv /\ ServedInv /\ [Next]_vars => [Service!Next]_(Service!vars)
  BY NextServes
<1> QED
  BY <1>1, <1>4, <1>5, InitServes, PTL DEF Spec, Service!Spec, ImplementsKvService
=============================================================================
