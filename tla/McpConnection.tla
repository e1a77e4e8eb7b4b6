---------------------------- MODULE McpConnection ----------------------------
(***************************************************************************)
(* One MCPClient, a transport, and the server at its other end: SdkServer  *)
(* in process, or an external server that works as SdkServer does.  The    *)
(* client's callers make requests with ids, a read loop dispatches what    *)
(* comes in; the server handles each request in a task of its own, and a   *)
(* tool may ask the client something (elicitation, sampling) while it runs. *)
(* Both sides number their requests from 1, so the ids collide.            *)
(*                                                                         *)
(* A request stands for its id.  Request 1 is the handshake.  The buffers  *)
(* of 1024 messages never fill.                                            *)
(***************************************************************************)
EXTENDS Naturals, Sequences, SequencesExt

CONSTANTS
  MaxRequests,  \* bound on the client's requests
  MaxAsks,      \* bounds on the server's requests, for each transport
  ToolCalls,    \* the requests that are made by call_tool, which sets a time limit
  Setups        \* pairs of a transport, "memory", "stdio", "http" or "sse", and of what
                \* the client registered handlers for

ASSUME ConnectionAssumption ==
  /\ MaxRequests \in Nat \ {0}
  /\ MaxAsks \in [{"memory", "stdio", "http", "sse"} -> Nat]
  /\ ToolCalls \subseteq 2 .. MaxRequests
  /\ Setups \subseteq (DOMAIN MaxAsks) \X SUBSET {"elicitation", "sampling"}

VARIABLES
  wire, handlers,      \* the transport; what the client registered a handler for
  client,              \* "new", "entering", "open", "failed", "closing", "closed"
  reader,              \* _read_loop: "off", "on", "ended"
  wireClosed,          \* Transport._closed
  peer,                \* "up" or "gone": a process that died, an event stream that ended
  caller,              \* where the task that made a request is
  pending,             \* keys of MCPClient._pending
  event, failed, response,  \* of each _PendingRequest: event set, error set, response
  outcome,             \* how each request ended for its caller
  handling,            \* the task in which the client handles each question
  toServer, toClient,  \* messages under way
  cut,                 \* http: requests whose POST has failed
  capabilities,        \* client_capabilities of the server
  work,                \* the task in which the server handles each request
  served,              \* what it replied
  ask,                 \* each question of a tool: "none", "waiting", "answered", "over"
  askOf, askKind, askTimed,  \* the request it belongs to, its kind, has it a time limit?
  waiters,             \* keys of _pending_server_requests
  inbox                \* the loop of run() that reads it: "open" or "ended"

clientVars == <<client, reader, handlers, caller, pending, event, failed, response,
                outcome, handling>>
serverVars == <<capabilities, work, served, ask, askOf, askKind, askTimed, waiters, inbox>>
wireVars   == <<wire, wireClosed, peer, toServer, toClient, cut>>
vars == <<clientVars, serverVars, wireVars>>

Requests == 1 .. MaxRequests
Asks     == UNION {1 .. MaxAsks[w] : w \in DOMAIN MaxAsks}
Kinds    == {"elicitation", "sampling"}
None     == "none"

Request(r) == [type |-> "request", id |-> r]
Question(q, kind) == [type |-> "question", id |-> q, kind |-> kind]
Reply(id, body) == [type |-> "reply", id |-> id, body |-> body]
Notice == [type |-> "notice"]
\* An exception that the transport puts among the messages received.
Broken == [type |-> "broken"]

ClientInit ==
  /\ client = "new" /\ reader = "off" /\ caller = [r \in Requests |-> "new"]
  /\ pending = {} /\ event = {} /\ failed = {}
  /\ response = [r \in Requests |-> None] /\ outcome = [r \in Requests |-> None]
  /\ handling = [q \in Asks |-> None]

ServerInit ==
  /\ capabilities = {} /\ work = [r \in Requests |-> None] /\ served = [r \in Requests |-> None]
  /\ ask = [q \in Asks |-> None] /\ askOf = [q \in Asks |-> 0]
  /\ askKind = [q \in Asks |-> None] /\ askTimed = {} /\ waiters = {}
  /\ inbox = "open"

WireInit == wireClosed = FALSE /\ peer = "up" /\ toServer = <<>> /\ toClient = <<>> /\ cut = {}

Init ==
  /\ \E setup \in Setups : wire = setup[1] /\ handlers = setup[2]
  /\ ClientInit /\ ServerInit /\ WireInit

-----------------------------------------------------------------------------
(* Transports.                                                             *)

\* send() raises: the transport was closed, the process is gone, or the server
\* refused the POST of an event-stream transport.
MayRefuse == wireClosed \/ (wire = "stdio" /\ peer = "gone") \/ wire = "sse"

\* send() delivers: on http it only starts a POST task, on sse the POST may reach a
\* server whose event stream has ended, where nobody replies.
MayDeliver == ~wireClosed /\ ~(wire = "stdio" /\ peer = "gone")

Deliver(m) ==
  /\ MayDeliver
  /\ toServer' = IF peer = "up" THEN Append(toServer, m) ELSE toServer

\* The process exits, the event stream ends.
PeerGoes ==
  /\ wire \in {"stdio", "sse"} /\ peer = "up" /\ client # "new"
  /\ peer' = "gone" /\ toServer' = <<>>
  /\ UNCHANGED <<clientVars, serverVars, wire, wireClosed, toClient, cut>>

\* _post_one fails, before its message is handled or before the reply is read.
PostFails ==
  /\ wire = "http" /\ ~wireClosed
  /\ \/ \E i \in DOMAIN toServer :
          /\ toServer' = RemoveAt(toServer, i)
          /\ cut' = IF toServer[i].type = "request" THEN cut \cup {toServer[i].id} ELSE cut
     \/ \E r \in Requests \ cut :
          /\ work[r] \in {"running", "asking"} /\ cut' = cut \cup {r} /\ UNCHANGED toServer
  /\ toClient' = Append(toClient, Broken)
  /\ UNCHANGED <<clientVars, serverVars, wire, wireClosed, peer>>

\* A message from the server; on http it travels in the response to the POST of r.
Emit(m, r) ==
  toClient' = IF wireClosed \/ r \in cut THEN toClient ELSE Append(toClient, m)

-----------------------------------------------------------------------------
(* The client's callers.                                                   *)

Register(r) ==
  /\ caller[r] = "new"
  /\ caller' = [caller EXCEPT ![r] = "sending"]
  /\ pending' = pending \cup {r}

\* __aenter__: open the transport, start the read loop, begin the handshake.
Enter ==
  /\ client = "new"
  /\ client' = "entering" /\ reader' = "on"
  /\ Register(1)
  /\ UNCHANGED <<handlers, event, failed, response, outcome, handling, serverVars,
                 wireVars>>

\* call_tool has a time limit, list_tools and the handshake have none.
StartCall(r) ==
  /\ client \in {"open", "closing", "closed"}
  /\ \A s \in 1 .. (r - 1) : caller[s] # "new"
  /\ Register(r)
  /\ UNCHANGED <<client, reader, handlers, event, failed, response, outcome, handling,
                 serverVars, wireVars>>

\* The caller is done with its _PendingRequest.
Drop(r) == /\ event' = event \ {r} /\ failed' = failed \ {r}
           /\ response' = [response EXCEPT ![r] = None]

Finish(r, how) ==
  /\ caller' = [caller EXCEPT ![r] = "done"]
  /\ outcome' = [outcome EXCEPT ![r] = how]
  /\ client' = IF r # 1 THEN client ELSE IF how = "result" THEN "open" ELSE "failed"
  /\ Drop(r)

\* A request that cannot be sent leaves its entry in _pending behind.
Send(r) ==
  /\ caller[r] = "sending"
  /\ \/ /\ Deliver(Request(r))
        /\ caller' = [caller EXCEPT ![r] = "waiting"]
        /\ UNCHANGED <<client, outcome, event, failed, response>>
     \/ /\ MayRefuse /\ Finish(r, "transportClosed") /\ UNCHANGED toServer
  /\ UNCHANGED <<reader, handlers, pending, handling, serverVars, wire, wireClosed, peer,
                 toClient, cut>>

Outcome(r) == IF r \in failed THEN "transportClosed" ELSE response[r]

\* The event was set.  After the handshake comes a notice, which may fail.
Resume(r) ==
  /\ caller[r] = "waiting" /\ r \in event
  /\ pending' = pending \ {r}
  /\ IF r # 1 \/ Outcome(r) # "result"
     THEN Finish(r, Outcome(r)) /\ UNCHANGED toServer
     ELSE \/ Deliver(Notice) /\ Finish(1, "result")
          \/ MayRefuse /\ Finish(1, "transportClosed") /\ UNCHANGED toServer
  /\ UNCHANGED <<reader, handlers, handling, serverVars, wire, wireClosed, peer, toClient,
                 cut>>

\* [seeded fault] The timer belongs to the read loop, and stops with it.
TimesOutWhileReading(r) ==
  /\ reader = "on" /\ caller[r] = "waiting" /\ r \in ToolCalls \ event
  /\ pending' = pending \ {r}
  /\ \/ Deliver(Notice) /\ Finish(r, "timeout")
     \/ MayRefuse /\ Finish(r, "transportClosed") /\ UNCHANGED toServer
  /\ UNCHANGED <<reader, handlers, handling, serverVars, wire, wireClosed, peer, toClient,
                 cut>>

\* fail_after: the entry is dropped and the server is told; what comes later finds no
\* entry.  If the notice cannot be sent, that is what the caller sees.
TimesOut(r) ==
  /\ caller[r] = "waiting" /\ r \in ToolCalls \ event
  /\ pending' = pending \ {r}
  /\ \/ Deliver(Notice) /\ Finish(r, "timeout")
     \/ MayRefuse /\ Finish(r, "transportClosed") /\ UNCHANGED toServer
  /\ UNCHANGED <<reader, handlers, handling, serverVars, wire, wireClosed, peer, toClient,
                 cut>>

\* Set the error of every entry, and release whoever waits.
FailAll(rs) == /\ failed' = failed \cup rs
               /\ event' = event \cup rs

\* [seeded fault] close() leaves its waiters to the read loop, which may be over.
CloseReleasesNobody ==
  /\ client = "open"
  /\ client' = "closing" /\ wireClosed' = TRUE
  /\ pending' = {}
  /\ UNCHANGED <<reader, handlers, caller, event, failed, response, outcome, handling,
                 serverVars, wire, peer, toServer, toClient, cut>>

\* close() as far as its first await: the transport is marked closed by then.
Close ==
  /\ client = "open"
  /\ client' = "closing" /\ wireClosed' = TRUE
  /\ FailAll(pending) /\ pending' = {}
  /\ UNCHANGED <<reader, handlers, caller, response, outcome, handling, serverVars,
                 wire, peer, toServer, toClient, cut>>

\* The rest of close(): the transport's tasks and the client's are cancelled; in process
\* the server is one of them, and no tool goes on.
CloseEnds ==
  /\ client = "closing"
  /\ client' = "closed" /\ reader' = "ended"
  /\ FailAll(pending \ event)
  /\ handling' = [q \in Asks |-> IF handling[q] = "running" THEN "cancelled" ELSE handling[q]]
  /\ toServer' = <<>> /\ toClient' = <<>> /\ peer' = "gone"
  /\ IF wire = "memory"
     THEN /\ work' = [r \in Requests |-> IF work[r] \in {"running", "asking"} THEN "cancelled"
                                         ELSE work[r]]
          /\ ask' = [q \in Asks |-> IF ask[q] # None THEN "over" ELSE None]
          /\ waiters' = {}
     ELSE UNCHANGED <<work, ask, waiters>>
  /\ UNCHANGED <<handlers, caller, pending, response, outcome, wire, wireClosed, cut,
                 capabilities, served, askOf, askKind, askTimed, inbox>>

-----------------------------------------------------------------------------
(* The client's read loop and its handlers of the server's questions.      *)

ReaderEnds == reader' = "ended" /\ FailAll(pending \ event)

\* [seeded fault] Whatever carries an id is taken for the reply with that id.
DispatchById(m) ==
  IF m.type \in {"reply", "question"} /\ m.id \in pending
  THEN /\ response' = [response EXCEPT ![m.id] =
                         IF m.type = "reply" THEN m.body ELSE "result"]
       /\ event' = event \cup {m.id}
       /\ UNCHANGED handling
  ELSE UNCHANGED <<response, event, handling>>

\* _dispatch: a reply goes to the entry with its id, if there still is one; a question is
\* handled in a task of its own; a notice is dropped.
Dispatch(m) ==
  \/ /\ m.type = "reply" /\ m.id \in pending
     /\ response' = [response EXCEPT ![m.id] = m.body]
     /\ event' = event \cup {m.id}
     /\ UNCHANGED handling
  \/ /\ m.type = "question"
     /\ handling' = [handling EXCEPT ![m.id] = "running"]
     /\ UNCHANGED <<response, event>>
  \/ /\ m.type = "notice" \/ (m.type = "reply" /\ m.id \notin pending)
     /\ UNCHANGED <<response, event, handling>>

\* A receive() that waits when the wire is closed may still be given a message.
Receive ==
  /\ reader = "on" /\ toClient # <<>>
  /\ toClient' = Tail(toClient)
  /\ IF Head(toClient) = Broken
     THEN ReaderEnds /\ UNCHANGED <<response, handling>>
     ELSE Dispatch(Head(toClient)) /\ UNCHANGED <<reader, failed>>
  /\ UNCHANGED <<client, handlers, caller, pending, outcome, serverVars, wire,
                 wireClosed, peer, toServer, cut>>

\* receive() raises TransportClosed: the wire is closed, or nothing more can come.
ReceiveEnds ==
  /\ reader = "on" /\ (wireClosed \/ (peer = "gone" /\ toClient = <<>>))
  /\ ReaderEnds
  /\ UNCHANGED <<client, handlers, caller, pending, response, outcome, handling,
                 serverVars, wireVars>>

\* The answer of the registered handler, or an error reply when it raises, which releases
\* the tool as well; neither if the wire was closed.
Answer(q) ==
  /\ handling' = [handling EXCEPT ![q] = "replied"]
  /\ \/ Deliver(Reply(q, "answer"))
     \/ MayRefuse /\ UNCHANGED toServer
  /\ UNCHANGED <<client, reader, handlers, caller, pending, event, failed, response,
                 outcome, serverVars, wire, wireClosed, peer, toClient, cut>>

HandleElicitation(q) ==
  /\ handling[q] = "running" /\ askKind[q] = "elicitation"
  /\ Answer(q)

HandleSampling(q) ==
  /\ handling[q] = "running" /\ askKind[q] = "sampling"
  /\ Answer(q)

-----------------------------------------------------------------------------
(* The server.                                                             *)

\* [seeded fault] Requests are handled in the loop that reads the inbox.
InboxReadableInline == \A r \in Requests : work[r] \notin {"running", "asking"}

\* Handlers have tasks of their own, so the inbox is read while they run.
InboxReadable == TRUE

\* A reply goes to the question with its id, if the tool still waits.
RouteServerResponse(m) ==
  IF m.id \in waiters THEN ask' = [ask EXCEPT ![m.id] = "answered"] ELSE UNCHANGED ask

\* run(): the next message; the POSTs of http come in any order.
Serve ==
  /\ peer = "up" /\ inbox = "open" /\ InboxReadable
  /\ \E i \in IF wire = "http" THEN DOMAIN toServer ELSE DOMAIN toServer \cap {1} :
       LET m == toServer[i] IN
       /\ toServer' = RemoveAt(toServer, i)
       /\ IF m.type = "reply" THEN RouteServerResponse(m) ELSE UNCHANGED ask
       /\ work' = IF m.type = "request" THEN [work EXCEPT ![m.id] = "running"] ELSE work
  /\ UNCHANGED <<clientVars, capabilities, served, askOf, askKind, askTimed, waiters, inbox,
                 wire, wireClosed, peer, toClient, cut>>

\* The end of run() in process, where the closed transport ends the inbox once it is empty:
\* the tools that wait are released, to raise, and go on until CloseEnds cancels them.  The
\* end of an external server is PeerGoes.
InboxEnds ==
  /\ wire = "memory" /\ wireClosed /\ peer = "up" /\ inbox = "open" /\ toServer = <<>>
  /\ inbox' = "ended"
  /\ ask' = [q \in Asks |-> IF ask[q] = "waiting" THEN "answered" ELSE ask[q]]
  /\ waiters' = {}
  /\ UNCHANGED <<clientVars, capabilities, work, served, askOf, askKind, askTimed, wireVars>>

ReplyTo(r, body) ==
  /\ work' = [work EXCEPT ![r] = "replied"]
  /\ served' = [served EXCEPT ![r] = body]
  /\ Emit(Reply(r, body), r)
  /\ UNCHANGED <<clientVars, ask, askOf, askKind, askTimed, waiters, inbox, wire, wireClosed,
                 peer, toServer, cut>>

HandleInitialize ==
  /\ peer = "up" /\ work[1] = "running"
  /\ capabilities' = handlers
  /\ ReplyTo(1, "result")

\* _handle: a tool that returns or raises is a result either way; another method may be one
\* the server does not have.
Handle(r) ==
  /\ r # 1 /\ peer = "up" /\ work[r] = "running"
  /\ \E body \in IF r \in ToolCalls THEN {"result"} ELSE {"result", "error"} : ReplyTo(r, body)
  /\ UNCHANGED capabilities

\* A tool asks the client something.  Without the capability it raises instead.
SendQuestion(r, q, kind, limited) ==
  /\ r \in ToolCalls /\ peer = "up" /\ work[r] = "running"
  /\ kind \in capabilities /\ q <= MaxAsks[wire]
  /\ ask[q] = None /\ \A p \in 1 .. (q - 1) : ask[p] # None
  /\ ask' = [ask EXCEPT ![q] = "waiting"] /\ waiters' = waiters \cup {q}
  /\ askOf' = [askOf EXCEPT ![q] = r] /\ askKind' = [askKind EXCEPT ![q] = kind]
  /\ askTimed' = IF limited THEN askTimed \cup {q} ELSE askTimed
  /\ work' = [work EXCEPT ![r] = "asking"]
  /\ Emit(Question(q, kind), r)
  /\ UNCHANGED <<clientVars, capabilities, served, inbox, wire, wireClosed, peer, toServer,
                 cut>>

SendElicitation(r, q, limited) == SendQuestion(r, q, "elicitation", limited)
SendSampling(r, q, limited)    == SendQuestion(r, q, "sampling", limited)

\* [seeded fault] A tool that was answered leaves its entry behind.
AskEndsKeepsWaiter(q) ==
  /\ peer = "up"
  /\ \/ ask[q] = "answered" /\ UNCHANGED <<toClient, waiters>>
     \/ /\ ask[q] = "waiting" /\ q \in askTimed /\ Emit(Notice, askOf[q])
        /\ waiters' = waiters \ {q}
  /\ ask' = [ask EXCEPT ![q] = "over"]
  /\ work' = [work EXCEPT ![askOf[q]] = "running"]
  /\ askTimed' = askTimed \ {q}
  /\ UNCHANGED <<clientVars, capabilities, served, askOf, askKind, inbox, wire, wireClosed,
                 peer, toServer, cut>>

\* The tool goes on: with the answer, with the ConnectionError of InboxEnds, or with the
\* TimeoutError after a notice.
AskEnds(q) ==
  /\ peer = "up"
  /\ \/ ask[q] = "answered" /\ UNCHANGED toClient
     \/ ask[q] = "waiting" /\ q \in askTimed /\ Emit(Notice, askOf[q])
  /\ ask' = [ask EXCEPT ![q] = "over"] /\ waiters' = waiters \ {q}
  /\ work' = [work EXCEPT ![askOf[q]] = "running"]
  /\ askTimed' = askTimed \ {q}
  /\ UNCHANGED <<clientVars, capabilities, served, askOf, askKind, inbox, wire, wireClosed,
                 peer, toServer, cut>>

-----------------------------------------------------------------------------
Next ==
  \/ Enter \/ Close \/ CloseEnds \/ Receive \/ ReceiveEnds \/ Serve \/ InboxEnds
  \/ HandleInitialize
  \/ PeerGoes \/ PostFails
  \/ \E r \in Requests : \/ Send(r) \/ Resume(r) \/ TimesOut(r) \/ Handle(r) \/ StartCall(r)
  \/ \E q \in Asks : \/ HandleElicitation(q) \/ HandleSampling(q) \/ AskEnds(q)
                     \/ \E r \in Requests, limited \in BOOLEAN :
                          SendElicitation(r, q, limited) \/ SendSampling(r, q, limited)

Spec == Init /\ [][Next]_vars

\* The event loop runs every task that can run and timers fire.  Nothing is assumed of
\* tools, of the client's handlers, of the network or of when close() is called.
Fairness ==
  /\ WF_vars(Receive) /\ WF_vars(ReceiveEnds) /\ WF_vars(CloseEnds)
  /\ WF_vars(Serve) /\ WF_vars(InboxEnds) /\ WF_vars(HandleInitialize)
  /\ \A r \in Requests : WF_vars(Send(r)) /\ WF_vars(Resume(r)) /\ WF_vars(TimesOut(r))
  /\ \A q \in Asks : WF_vars(AskEnds(q))

FairSpec == Spec /\ Fairness

-----------------------------------------------------------------------------
\* _pending_server_requests holds questions whose tools wait, and all of them as long as
\* their replies are read.
WaitersRegistered ==
  LET unfinished == {q \in Asks : ask[q] \in {"waiting", "answered"}}
  IN  waiters \subseteq unfinished /\ (inbox = "open" => waiters = unfinished)

TypeOK ==
  /\ <<wire, handlers>> \in Setups /\ capabilities \subseteq handlers
  /\ client \in {"new", "entering", "open", "failed", "closing", "closed"}
  /\ reader \in {"off", "on", "ended"} /\ wireClosed \in BOOLEAN /\ peer \in {"up", "gone"}
  /\ caller \in [Requests -> {"new", "sending", "waiting", "done"}]
  /\ UNION {pending, event, failed, cut} \subseteq Requests
  /\ response \in [Requests -> {None, "result", "error"}]
  /\ outcome \in [Requests -> {None, "result", "error", "timeout", "transportClosed"}]
  /\ handling \in [Asks -> {None, "running", "replied", "cancelled"}]
  /\ work \in [Requests -> {None, "running", "asking", "replied", "cancelled"}]
  /\ served \in [Requests -> {None, "result", "error"}]
  /\ ask \in [Asks -> {None, "waiting", "answered", "over"}]
  /\ askOf \in [Asks -> 0 .. MaxRequests] /\ askTimed \subseteq Asks
  /\ inbox \in {"open", "ended"}
  /\ WaitersRegistered

\* Refinement: whatever is lost, late, reordered or closed, a request is served at most
\* once and a caller is given a result only if it is the one of its own request.
Rpc == INSTANCE RequestReply WITH
  asked  <- {r \in Requests : caller[r] # "new"},
  served <- [r \in Requests |-> IF served[r] = None THEN "unserved" ELSE served[r]],
  ended  <- [r \in Requests |-> IF outcome[r] = None THEN "open" ELSE outcome[r]]
ImplementsRequestReply == Rpc!Spec

\* Once close() has begun nobody is left waiting, also who registered a request
\* just before or sends one after.
CloseReleases ==
  client \in {"closing", "closed"} => \A r \in Requests : caller[r] = "waiting" => r \in event

\* A request with a time limit ends, whatever becomes of the connection; in process the
\* handshake, which has none, ends too.
RequestsEnd ==
  \A r \in Requests :
    (caller[r] = "waiting" /\ (r \in ToolCalls \/ (wire = "memory" /\ r = 1))) ~> caller[r] = "done"

\* A tool in process whose question the client replied to goes on: its own request, still
\* under way at the client, does not keep the reply from it.
RepliedAsksEnd ==
  \A q \in Asks :
    (wire = "memory" /\ ask[q] = "waiting" /\ handling[q] = "replied") ~> ask[q] = "over"

-----------------------------------------------------------------------------
=============================================================================
