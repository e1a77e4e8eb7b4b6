------------------------- MODULE McpConnectionProofs -------------------------
(* Theorems about McpConnection: close() releases every waiter, the types, *)
(* and the refinement of RequestReply, for any number of requests and      *)
(* questions.                                                              *)
EXTENDS McpConnection, SequenceTheorems, TLAPS

-----------------------------------------------------------------------------
(* Closing.                                                                *)

\* The strengthening: until close() begins a waiting caller has its entry in _pending, so
\* close() finds it; after that the wire is closed, so nobody gets to wait.
WaiterInv ==
  /\ caller \in [Requests -> {"new", "sending", "waiting", "done"}]
  /\ client = "new" => \A r \in Requests : caller[r] = "new"
  /\ client = "entering" => caller[1] # "new"
  /\ client \in {"open", "failed", "closing", "closed"} => caller[1] = "done"
  /\ client \in {"closing", "closed"} => wireClosed
  /\ client \in {"new", "entering", "open", "failed"} =>
       \A r \in Requests : caller[r] \in {"sending", "waiting"} => r \in pending
  /\ client \in {"new", "entering", "open", "failed", "closing", "closed"}
  /\ CloseReleases

\* Steps of the server, of the transport and of the client's handlers.
LEMMA WaitersAlone ==
  ASSUME WaiterInv, UNCHANGED <<caller, client, wireClosed, pending>>,
         event' = event \/ \E rs : event' = event \cup rs
  PROVE  WaiterInv'
  BY DEF WaiterInv, CloseReleases

\* Every step keeps it.
LEMMA WaiterStep == WaiterInv /\ [Next]_vars => WaiterInv'
<1> SUFFICES ASSUME WaiterInv, [Next]_vars PROVE WaiterInv'
  OBVIOUS
<1> USE DEF clientVars, serverVars, wireVars
<1>1. 1 \in Requests
  BY ConnectionAssumption DEF Requests
<1>2. CASE UNCHANGED vars
  BY <1>2, WaitersAlone DEF vars
<1>3. CASE Enter
  BY <1>1, <1>3 DEF Enter, Register, WaiterInv, CloseReleases
<1>4. CASE Close
  BY <1>4 DEF Close, FailAll, WaiterInv, CloseReleases
<1>5. CASE CloseEnds
  BY <1>5 DEF CloseEnds, FailAll, WaiterInv, CloseReleases
<1>6. CASE Receive
  BY <1>6, WaitersAlone DEF Receive, ReaderEnds, FailAll, Dispatch
<1>7. CASE ReceiveEnds
  BY <1>7, WaitersAlone DEF ReceiveEnds, ReaderEnds, FailAll
<1>8. CASE Serve \/ InboxEnds
  BY <1>8, WaitersAlone DEF Serve, InboxEnds
<1>9. CASE HandleInitialize
  BY <1>9, WaitersAlone DEF HandleInitialize, ReplyTo
<1>10. CASE PeerGoes \/ PostFails
  BY <1>10, WaitersAlone DEF PeerGoes, PostFails
<1>11. ASSUME NEW r \in Requests, Send(r) PROVE WaiterInv'
  <2>1. CASE Deliver(Request(r)) /\ caller' = [caller EXCEPT ![r] = "waiting"]
    <3>1. ~wireClosed /\ UNCHANGED <<event, pending, wireClosed>>
          /\ client' = client
      BY <1>11, <2>1 DEF Send, Deliver, MayDeliver, Finish, WaiterInv
    <3>2. client \in {"new", "entering", "open", "failed"} /\ r \in pending'
      BY <1>11, <3>1 DEF Send, WaiterInv
    <3>3. QED
      BY <1>1, <1>11, <2>1, <3>1, <3>2 DEF Send, WaiterInv, CloseReleases
  <2>2. CASE Finish(r, "transportClosed")
    BY <1>1, <1>11, <2>2 DEF Send, Finish, Drop, WaiterInv, CloseReleases
  <2>3. QED
    BY <1>11, <2>1, <2>2 DEF Send
<1>12. ASSUME NEW r \in Requests, Resume(r) PROVE WaiterInv'
  BY <1>1, <1>12 DEF Resume, Finish, Drop, WaiterInv, CloseReleases
<1>13. ASSUME NEW r \in Requests, TimesOut(r) PROVE WaiterInv'
  BY <1>1, <1>13 DEF TimesOut, Finish, Drop, WaiterInv, CloseReleases
<1>14. ASSUME NEW r \in Requests, Handle(r) PROVE WaiterInv'
  BY <1>14, WaitersAlone DEF Handle, ReplyTo
<1>15. ASSUME NEW r \in Requests, StartCall(r) PROVE WaiterInv'
  BY <1>1, <1>15 DEF StartCall, Register, WaiterInv, CloseReleases
<1>16. ASSUME NEW q \in Asks, HandleElicitation(q) \/ HandleSampling(q) PROVE WaiterInv'
  BY <1>16, WaitersAlone DEF HandleElicitation, HandleSampling, Answer
<1>17. ASSUME NEW q \in Asks, AskEnds(q) PROVE WaiterInv'
  BY <1>17, WaitersAlone DEF AskEnds
<1>18. ASSUME NEW q \in Asks, NEW r \in Requests, NEW limited \in BOOLEAN,
              SendElicitation(r, q, limited) \/ SendSampling(r, q, limited)
       PROVE  WaiterInv'
  BY <1>18, WaitersAlone DEF SendElicitation, SendSampling, SendQuestion
<1>19. QED
  BY <1>2, <1>3, <1>4, <1>5, <1>6, <1>7, <1>8, <1>9, <1>10, <1>11, <1>12, <1>13, <1>14, <1>15,
     <1>16, <1>17, <1>18 DEF Next

\* Once close() has begun nobody waits for a reply: not who waited, nor who had registered
\* and was about to send, nor who calls afterwards.
THEOREM ClosingReleases == Spec => []CloseReleases
<1>1. Init => WaiterInv
  BY ConnectionAssumption DEF Init, ClientInit, ServerInit, WireInit, WaiterInv, CloseReleases
<1>2. WaiterInv => CloseReleases
  BY DEF WaiterInv
<1>3. QED
  BY <1>1, <1>2, WaiterStep, PTL DEF Spec

-----------------------------------------------------------------------------
(* Types.                                                                  *)

Inbound ==
  [type : {"request"}, id : Requests] \cup [type : {"reply"}, id : Asks, body : {"answer"}]
    \cup {Notice}

Outbound ==
  [type : {"reply"}, id : Requests, body : {"result", "error"}]
    \cup [type : {"question"}, id : Asks, kind : Kinds] \cup {Notice, Broken}

\* The strengthening: what is under way is a message that the other side understands.
TypeInv == TypeOK /\ toServer \in Seq(Inbound) /\ toClient \in Seq(Outbound)

\* What RemoveAt leaves.
LEMMA RemoveAtFacts ==
  ASSUME NEW S, NEW s \in Seq(S), NEW i \in 1 .. Len(s)
  PROVE  /\ RemoveAt(s, i) \in Seq(S)
         /\ Len(RemoveAt(s, i)) = Len(s) - 1
         /\ \A k \in 1 .. (Len(s) - 1) :
              RemoveAt(s, i)[k] = IF k < i THEN s[k] ELSE s[k + 1]
<1> DEFINE a == SubSeq(s, 1, i - 1)
           b == SubSeq(s, i + 1, Len(s))
<1>1. Len(s) \in Nat /\ \A k \in 1 .. Len(s) : s[k] \in S
  BY LenProperties, ElementOfSeq
<1>2. a \in Seq(S) /\ Len(a) = i - 1 /\ \A k \in 1 .. (i - 1) : a[k] = s[k]
  BY <1>1, SubSeqProperties
<1>3. b \in Seq(S) /\ Len(b) = Len(s) - i /\ \A k \in 1 .. (Len(s) - i) : b[k] = s[i + k]
  BY <1>1, SubSeqProperties
<1>4. /\ a \o b \in Seq(S) /\ Len(a \o b) = Len(s) - 1
      /\ \A k \in 1 .. (Len(s) - 1) :
           (a \o b)[k] = IF k <= i - 1 THEN a[k] ELSE b[k - (i - 1)]
  <2>1. /\ a \o b \in Seq(S) /\ Len(a \o b) = Len(a) + Len(b)
        /\ \A k \in 1 .. (Len(a) + Len(b)) :
             (a \o b)[k] = IF k <= Len(a) THEN a[k] ELSE b[k - Len(a)]
    BY <1>2, <1>3, ConcatProperties
  <2>2. Len(a) = i - 1 /\ Len(b) = Len(s) - i /\ Len(s) \in Int /\ i \in Int
    BY <1>1, <1>2, <1>3
  <2> HIDE DEF a, b
  <2>3. Len(a) + Len(b) = Len(s) - 1
    BY <2>2
  <2>4. QED
    BY <2>1, <2>2, <2>3
<1>5. RemoveAt(s, i) = a \o b
  BY DEF RemoveAt
<1> HIDE DEF a, b
<1>6. ASSUME NEW k \in 1 .. (Len(s) - 1)
      PROVE  (a \o b)[k] = IF k < i THEN s[k] ELSE s[k + 1]
  <2>1. CASE k < i
    BY <1>1, <1>2, <1>4, <2>1
  <2>2. CASE k >= i
    <3>1. ~(k <= i - 1) /\ k - (i - 1) \in 1 .. (Len(s) - i) /\ i + (k - (i - 1)) = k + 1
      BY <1>1, <2>2
    <3>2. (a \o b)[k] = b[k - (i - 1)]
      BY <1>4, <3>1
    <3>3. b[k - (i - 1)] = s[i + (k - (i - 1))]
      BY <1>3, <3>1
    <3>4. QED
      BY <2>2, <3>1, <3>2, <3>3
  <2>3. k < i \/ k >= i
    BY <1>1
  <2>4. QED
    BY <2>1, <2>2, <2>3
<1>7. QED
  BY <1>4, <1>5, <1>6

\* The kinds of questions a client may have registered for.
LEMMA KnownKinds == TypeOK => capabilities \subseteq Kinds /\ handlers \subseteq Kinds
  BY ConnectionAssumption DEF TypeOK, Kinds

\* The two lists only hold messages after a message more, or fewer.
LEMMA ListTypes ==
  ASSUME TypeInv
  PROVE  /\ \A m \in Inbound : Append(toServer, m) \in Seq(Inbound)
         /\ \A m \in Outbound : Append(toClient, m) \in Seq(Outbound)
         /\ \A i \in DOMAIN toServer : RemoveAt(toServer, i) \in Seq(Inbound)
                                       /\ toServer[i] \in Inbound
         /\ toClient # <<>> => Tail(toClient) \in Seq(Outbound) /\ Head(toClient) \in Outbound
         /\ <<>> \in Seq(Inbound) /\ <<>> \in Seq(Outbound)
<1>1. DOMAIN toServer = 1 .. Len(toServer)
  BY LenProperties DEF TypeInv
<1>2. QED
  BY <1>1, AppendProperties, RemoveAtFacts, ElementOfSeq, HeadTailProperties, EmptySeq
     DEF TypeInv

\* The caller of a request ends, with its own outcome.
LEMMA FinishTypes ==
  ASSUME TypeInv, NEW r \in Requests,
         NEW how \in {None, "result", "error", "timeout", "transportClosed"}, Finish(r, how)
  PROVE  /\ caller' \in [Requests -> {"new", "sending", "waiting", "done"}]
         /\ outcome' \in [Requests -> {None, "result", "error", "timeout", "transportClosed"}]
         /\ response' \in [Requests -> {None, "result", "error"}]
         /\ event' \subseteq Requests /\ failed' \subseteq Requests
         /\ client' \in {"new", "entering", "open", "failed", "closing", "closed"}
  BY DEF Finish, Drop, TypeInv, TypeOK

\* A message has the fields of its type.
LEMMA MessageFields ==
  /\ \A m \in Inbound : /\ m.type = "request" => m.id \in Requests
                        /\ m.type = "reply" => m.id \in Asks
  /\ \A m \in Outbound : /\ m.type = "question" => m.id \in Asks
                         /\ m.type = "reply" =>
                              m.id \in Requests /\ m.body \in {"result", "error"}
  BY DEF Inbound, Outbound, Notice, Broken

\* A message sent keeps the list of what goes to the server.
LEMMA DeliverTypes ==
  ASSUME TypeInv, NEW m \in Inbound, Deliver(m)
  PROVE  toServer' \in Seq(Inbound)
  BY ListTypes DEF Deliver, TypeInv

\* So does a reply or a question of the server the list of what goes to the client.
LEMMA EmitTypes ==
  ASSUME TypeInv, NEW m \in Outbound, NEW r, Emit(m, r)
  PROVE  toClient' \in Seq(Outbound)
  BY ListTypes DEF Emit, TypeInv

\* Every step keeps the types.
LEMMA TypeStep == TypeInv /\ [Next]_vars => TypeInv'
<1> SUFFICES ASSUME TypeInv, [Next]_vars PROVE TypeInv'
  OBVIOUS
<1> USE DEF clientVars, serverVars, wireVars, WaitersRegistered
<1>1. 1 \in Requests /\ MaxRequests \in Nat
  BY ConnectionAssumption DEF Requests
<1>2. CASE UNCHANGED vars
  BY <1>2 DEF vars, TypeInv, TypeOK
<1>3. CASE Enter
  BY <1>1, <1>3 DEF Enter, Register, TypeInv, TypeOK
<1>4. CASE Close
  BY <1>4 DEF Close, FailAll, TypeInv, TypeOK
<1>5. CASE CloseEnds
  <2>1. toServer' \in Seq(Inbound) /\ toClient' \in Seq(Outbound)
    BY <1>5, ListTypes DEF CloseEnds
  <2>2. WaitersRegistered'
        /\ ask' \in [Asks -> {None, "waiting", "answered", "over"}]
        /\ work' \in [Requests -> {None, "running", "asking", "replied", "cancelled"}]
    <3>1. CASE wire = "memory"
      <4>1. /\ ask' = [q \in Asks |-> IF ask[q] # None THEN "over" ELSE None] /\ waiters' = {}
            /\ work' = [r \in Requests |-> IF work[r] \in {"running", "asking"}
                                           THEN "cancelled" ELSE work[r]]
        BY <1>5, <3>1 DEF CloseEnds
      <4>2. \A q \in Asks : ask'[q] \in {None, "over"}
        BY <4>1
      <4>3. WaitersRegistered'
        BY <4>1, <4>2 DEF None
      <4>4. ask' \in [Asks -> {None, "waiting", "answered", "over"}]
        BY <4>1
      <4>5. work' \in [Requests -> {None, "running", "asking", "replied", "cancelled"}]
        BY <4>1 DEF TypeInv, TypeOK
      <4>6. QED
        BY <4>1, <4>3, <4>4, <4>5
    <3>2. CASE wire # "memory"
      BY <1>5, <3>2 DEF CloseEnds, TypeInv, TypeOK
    <3>3. QED
      BY <3>1, <3>2
  <2>3. QED
    BY <1>5, <2>1, <2>2 DEF CloseEnds, FailAll, TypeInv, TypeOK
<1>6. CASE Receive
  <2>1. toClient' \in Seq(Outbound) /\ Head(toClient) \in Outbound
    BY <1>6, ListTypes DEF Receive
  <2>2. CASE Head(toClient) = Broken
    BY <1>6, <2>1, <2>2 DEF Receive, ReaderEnds, FailAll, TypeInv, TypeOK
  <2>3. CASE Head(toClient) # Broken
    <3>1. Dispatch(Head(toClient))
      BY <1>6, <2>3 DEF Receive
    <3>2. /\ response' \in [Requests -> {None, "result", "error"}]
          /\ event' \subseteq Requests
          /\ handling' \in [Asks -> {None, "running", "replied", "cancelled"}]
      <4>1. CASE Head(toClient).type = "reply" /\ Head(toClient).id \in pending
        <5>1. Head(toClient).body \in {"result", "error"} /\ Head(toClient).type # "question"
          BY <2>1, <4>1, MessageFields
        <5>2. /\ response' = [response EXCEPT ![Head(toClient).id] = Head(toClient).body]
              /\ event' = event \cup {Head(toClient).id} /\ handling' = handling
          BY <3>1, <4>1, <5>1 DEF Dispatch
        <5>3. QED
          BY <4>1, <5>1, <5>2 DEF TypeInv, TypeOK
      <4>2. CASE ~(Head(toClient).type = "reply" /\ Head(toClient).id \in pending)
        BY <3>1, <4>2 DEF Dispatch, TypeInv, TypeOK
      <4>3. QED
        BY <4>1, <4>2
    <3>3. QED
      BY <1>6, <2>1, <2>3, <3>2 DEF Receive, TypeInv, TypeOK
  <2>4. QED
    BY <2>2, <2>3
<1>7. CASE ReceiveEnds
  BY <1>7 DEF ReceiveEnds, ReaderEnds, FailAll, TypeInv, TypeOK
<1>8. CASE Serve
  <2>1. PICK i \in DOMAIN toServer :
          /\ toServer' = RemoveAt(toServer, i)
          /\ IF toServer[i].type = "reply" THEN RouteServerResponse(toServer[i])
             ELSE UNCHANGED ask
          /\ work' = IF toServer[i].type = "request"
                     THEN [work EXCEPT ![toServer[i].id] = "running"] ELSE work
    BY <1>8 DEF Serve
  <2>2. toServer' \in Seq(Inbound)
    BY <2>1, ListTypes
  <2>3. work' \in [Requests -> {None, "running", "asking", "replied", "cancelled"}]
    BY <2>1 DEF TypeInv, TypeOK
  <2>4. /\ ask' \in [Asks -> {None, "waiting", "answered", "over"}]
        /\ WaitersRegistered'
    <3>1. inbox' = inbox /\ waiters' = waiters
      BY <1>8 DEF Serve
    <3>2. /\ ask' \in [Asks -> {None, "waiting", "answered", "over"}]
          /\ \A q \in Asks : ask[q] \in {"waiting", "answered"}
                             <=> ask'[q] \in {"waiting", "answered"}
      BY <2>1 DEF RouteServerResponse, TypeInv, TypeOK
    <3>3. QED
      BY <3>1, <3>2 DEF TypeInv, TypeOK
  <2>5. QED
    BY <1>8, <2>2, <2>3, <2>4 DEF Serve, TypeInv, TypeOK
<1>9. CASE HandleInitialize
  <2>1. Reply(1, "result") \in Outbound
    BY <1>1 DEF Reply, Outbound
  <2>2. toClient' \in Seq(Outbound)
    BY <1>9, <2>1, EmitTypes DEF HandleInitialize, ReplyTo
  <2>3. QED
    BY <1>1, <1>9, <2>2 DEF HandleInitialize, ReplyTo, TypeInv, TypeOK
<1>10. CASE PeerGoes
  BY <1>10, ListTypes DEF PeerGoes, TypeInv, TypeOK
<1>11. CASE PostFails
  <2>1. Broken \in Outbound
    BY DEF Outbound
  <2>2. toClient' \in Seq(Outbound) /\ toServer' \in Seq(Inbound)
    BY <1>11, <2>1, ListTypes DEF PostFails, TypeInv
  <2>3. cut' \subseteq Requests
    <3>1. \A i \in DOMAIN toServer :
            toServer[i].type = "request" => toServer[i].id \in Requests
      BY ListTypes, MessageFields
    <3>2. cut \subseteq Requests
      BY DEF TypeInv, TypeOK
    <3>3. \/ \E i \in DOMAIN toServer :
               cut' = IF toServer[i].type = "request" THEN cut \cup {toServer[i].id} ELSE cut
          \/ \E r \in Requests : cut' = cut \cup {r}
      BY <1>11 DEF PostFails
    <3>4. QED
      BY <3>1, <3>2, <3>3
  <2>4. QED
    BY <1>11, <2>2, <2>3 DEF PostFails, TypeInv, TypeOK
<1>12. ASSUME NEW r \in Requests, Send(r) PROVE TypeInv'
  <2>1. Request(r) \in Inbound
    BY DEF Request, Inbound
  <2>2. toServer' \in Seq(Inbound)
    BY <1>12, <2>1, DeliverTypes DEF Send, TypeInv
  <2>3. QED
    <3>1. CASE Finish(r, "transportClosed")
      BY <1>12, <2>2, <3>1, FinishTypes DEF Send, TypeInv, TypeOK
    <3>2. CASE ~Finish(r, "transportClosed")
      BY <1>12, <2>2, <3>2 DEF Send, TypeInv, TypeOK
    <3>3. QED
      BY <3>1, <3>2
<1>13. Notice \in Inbound /\ Notice \in Outbound
  BY DEF Inbound, Outbound
<1>14. ASSUME NEW r \in Requests, Resume(r) PROVE TypeInv'
  <2>1. toServer' \in Seq(Inbound)
    BY <1>13, <1>14, DeliverTypes DEF Resume, TypeInv
  <2>2. PICK how \in {None, "result", "error", "timeout", "transportClosed"} : Finish(r, how)
    <3>1. Outcome(r) \in {None, "result", "error", "timeout", "transportClosed"}
      BY DEF Outcome, TypeInv, TypeOK
    <3>2. QED
      BY <1>14, <3>1 DEF Resume
  <2>3. QED
    BY <1>14, <2>1, <2>2, FinishTypes DEF Resume, TypeInv, TypeOK
<1>15. ASSUME NEW r \in Requests, TimesOut(r) PROVE TypeInv'
  <2>1. toServer' \in Seq(Inbound)
    BY <1>13, <1>15, DeliverTypes DEF TimesOut, TypeInv
  <2>2. PICK how \in {None, "result", "error", "timeout", "transportClosed"} : Finish(r, how)
    BY <1>15 DEF TimesOut
  <2>3. QED
    BY <1>15, <2>1, <2>2, FinishTypes DEF TimesOut, TypeInv, TypeOK
<1>16. ASSUME NEW r \in Requests, Handle(r) PROVE TypeInv'
  <2>1. PICK body \in {"result", "error"} : ReplyTo(r, body)
    BY <1>16 DEF Handle
  <2>2. Reply(r, body) \in Outbound
    BY DEF Reply, Outbound
  <2>3. toClient' \in Seq(Outbound)
    BY <2>1, <2>2, EmitTypes DEF ReplyTo
  <2>4. QED
    BY <1>16, <2>1, <2>3 DEF Handle, ReplyTo, TypeInv, TypeOK
<1>17. ASSUME NEW r \in Requests, StartCall(r) PROVE TypeInv'
  BY <1>17 DEF StartCall, Register, TypeInv, TypeOK
<1>18. ASSUME NEW q \in Asks, HandleElicitation(q) \/ HandleSampling(q) PROVE TypeInv'
  <2>1. Reply(q, "answer") \in Inbound
    BY DEF Reply, Inbound
  <2>2. toServer' \in Seq(Inbound)
    BY <1>18, <2>1, DeliverTypes DEF HandleElicitation, HandleSampling, Answer, TypeInv
  <2>3. WaitersRegistered' /\ handling' \in [Asks -> {None, "running", "replied", "cancelled"}]
    BY <1>18 DEF HandleElicitation, HandleSampling, Answer, TypeInv, TypeOK
  <2>4. UNCHANGED <<client, reader, handlers, caller, pending, event, failed, response, outcome,
                    capabilities, work, served, ask, askOf, askTimed, wire, wireClosed, peer,
                    toClient, cut, inbox>>
    BY <1>18 DEF HandleElicitation, HandleSampling, Answer
  <2>5. QED
    BY <2>2, <2>3, <2>4 DEF TypeInv, TypeOK
<1>19. ASSUME NEW q \in Asks, AskEnds(q) PROVE TypeInv'
  <2>1. toClient' \in Seq(Outbound)
    BY <1>13, <1>19, EmitTypes DEF AskEnds, TypeInv
  <2>2. /\ ask' = [ask EXCEPT ![q] = "over"] /\ waiters' = waiters \ {q} /\ inbox' = inbox
        /\ ask \in [Asks -> {None, "waiting", "answered", "over"}]
    BY <1>19 DEF AskEnds, TypeInv, TypeOK
  <2>3. WaitersRegistered'
    <3>1. \A p \in Asks : ask'[p] \in {"waiting", "answered"}
                         <=> ask[p] \in {"waiting", "answered"} /\ p # q
      BY <2>2
    <3>2. {p \in Asks : ask'[p] \in {"waiting", "answered"}}
          = {p \in Asks : ask[p] \in {"waiting", "answered"}} \ {q}
      BY <3>1
    <3>3. WaitersRegistered
      BY DEF TypeInv, TypeOK
    <3>4. QED
      BY <2>2, <3>2, <3>3
  <2>4. /\ ask' \in [Asks -> {None, "waiting", "answered", "over"}]
        /\ work' \in [Requests -> {None, "running", "asking", "replied", "cancelled"}]
        /\ askTimed' \subseteq Asks
    BY <1>19, <2>2 DEF AskEnds, TypeInv, TypeOK
  <2>5. QED
    BY <1>19, <2>1, <2>2, <2>3, <2>4 DEF AskEnds, TypeInv, TypeOK
<1>20. ASSUME NEW q \in Asks, NEW r \in Requests, NEW limited \in BOOLEAN,
              SendElicitation(r, q, limited) \/ SendSampling(r, q, limited)
       PROVE  TypeInv'
  <2>1. PICK kind \in Kinds : SendQuestion(r, q, kind, limited)
    BY <1>20 DEF SendElicitation, SendSampling, Kinds
  <2>2. Question(q, kind) \in Outbound
    BY DEF Question, Outbound
  <2>3. toClient' \in Seq(Outbound)
    BY <2>1, <2>2, EmitTypes DEF SendQuestion
  <2>4. askOf' \in [Asks -> 0 .. MaxRequests]
    BY <1>1, <2>1 DEF SendQuestion, TypeInv, TypeOK, Requests
  <2>5. QED
    BY <2>1, <2>3, <2>4 DEF SendQuestion, TypeInv, TypeOK
<1>21. CASE InboxEnds
  <2>1. /\ ask' = [q \in Asks |-> IF ask[q] = "waiting" THEN "answered" ELSE ask[q]]
        /\ waiters' = {} /\ inbox' = "ended"
    BY <1>21 DEF InboxEnds
  <2>2. /\ ask' \in [Asks -> {None, "waiting", "answered", "over"}]
        /\ WaitersRegistered'
    BY <2>1 DEF TypeInv, TypeOK
  <2>3. QED
    BY <1>21, <2>1, <2>2 DEF InboxEnds, TypeInv, TypeOK
<1>22. QED
  BY <1>2, <1>3, <1>4, <1>5, <1>6, <1>7, <1>8, <1>9, <1>10, <1>11, <1>12, <1>14, <1>15, <1>16,
     <1>17, <1>18, <1>19, <1>20, <1>21 DEF Next

\* The types hold initially.
LEMMA TypeInit == Init => TypeInv
<1>1. \A S : <<>> \in Seq(S)
  BY EmptySeq
<1>2. MaxRequests \in Nat
  BY ConnectionAssumption
<1> SUFFICES ASSUME Init PROVE TypeInv
  OBVIOUS
<1>3. <<wire, handlers>> \in Setups
  <2>1. PICK setup \in Setups : wire = setup[1] /\ handlers = setup[2]
    BY DEF Init, ClientInit, ServerInit, WireInit
  <2>2. setup = <<setup[1], setup[2]>>
    BY ConnectionAssumption
  <2>3. QED
    BY <2>1, <2>2
<1>4. WaitersRegistered
  BY DEF Init, ClientInit, ServerInit, WireInit, None, WaitersRegistered
<1>5. toServer \in Seq(Inbound) /\ toClient \in Seq(Outbound)
  BY <1>1 DEF Init, ClientInit, ServerInit, WireInit
<1>6. askOf \in [Asks -> 0 .. MaxRequests]
  BY <1>2 DEF Init, ClientInit, ServerInit, WireInit
<1>7. QED
  BY <1>3, <1>4, <1>5, <1>6 DEF Init, ClientInit, ServerInit, WireInit, TypeInv, TypeOK

\* Types of the connection's state; among them, that _pending_server_requests holds only
\* questions whose tools wait, and every such question while their replies are read.
THEOREM ConnectionTypes == Spec => []TypeOK
<1>1. TypeInv => TypeOK
  BY DEF TypeInv
<1>2. QED
  BY <1>1, TypeInit, TypeStep, PTL DEF Spec

-----------------------------------------------------------------------------
(* The refinement.                                                         *)

IsRequest(i) == toServer[i].type = "request"

\* A request is on its way to the server at most once, and only before it is handled.
InboxOnce ==
  /\ \A i \in DOMAIN toServer : IsRequest(i) =>
       work[toServer[i].id] = None /\ caller[toServer[i].id] \notin {"new", "sending"}
  /\ \A i, j \in DOMAIN toServer :
       IsRequest(i) /\ IsRequest(j) /\ toServer[i].id = toServer[j].id => i = j

\* What the client is given for a request is what the server made of it.
RepliesTrue ==
  /\ \A i \in DOMAIN toClient :
       toClient[i].type = "reply" => toClient[i].body = served[toClient[i].id]
  /\ \A r \in Requests : response[r] # None => response[r] = served[r]
  /\ \A r \in event : r \in failed \/ response[r] # None

\* A tool that waits is that of the one request its question belongs to.
AskersWork ==
  /\ \A q \in Asks : ask[q] \in {"waiting", "answered"} =>
       askOf[q] \in Requests /\ work[askOf[q]] = "asking"
  /\ \A p, q \in Asks :
       ask[p] \in {"waiting", "answered"} /\ ask[q] \in {"waiting", "answered"}
         /\ askOf[p] = askOf[q] => p = q

\* The server's side of a request.
ServedOnce ==
  \A r \in Requests : /\ caller[r] \in {"new", "sending"} => work[r] = None
                      /\ work[r] \in {None, "running", "asking"} => served[r] = None

\* The strengthening that makes each step one of RequestReply.
ServingInv ==
  /\ InboxOnce /\ RepliesTrue /\ AskersWork /\ ServedOnce
  /\ \A r \in Requests : outcome[r] = None <=> caller[r] # "done"

\* An unhandled request taken out of the inbox leaves the others as they were.
LEMMA InboxFewer ==
  ASSUME TypeInv, InboxOnce, NEW i \in DOMAIN toServer, toServer' = RemoveAt(toServer, i)
  PROVE  \A k \in DOMAIN toServer' :
           \E h \in DOMAIN toServer \ {i} :
             toServer'[k] = toServer[h] /\ h = IF k < i THEN k ELSE k + 1
<1>1. /\ DOMAIN toServer = 1 .. Len(toServer) /\ Len(toServer) \in Nat
      /\ toServer \in Seq(Inbound)
  BY LenProperties DEF TypeInv
<1>2. /\ toServer' \in Seq(Inbound) /\ Len(toServer') = Len(toServer) - 1
      /\ \A k \in 1 .. (Len(toServer) - 1) :
           toServer'[k] = IF k < i THEN toServer[k] ELSE toServer[k + 1]
  BY <1>1, RemoveAtFacts
<1>3. DOMAIN toServer' = 1 .. (Len(toServer) - 1)
  BY <1>2, LenProperties
<1> SUFFICES ASSUME NEW k \in 1 .. (Len(toServer) - 1)
             PROVE  \E h \in DOMAIN toServer \ {i} :
                      toServer'[k] = toServer[h] /\ h = IF k < i THEN k ELSE k + 1
  BY <1>3
<1>4. CASE k < i
  BY <1>1, <1>2, <1>4
<1>5. CASE ~(k < i)
  BY <1>1, <1>2, <1>5
<1>6. QED
  BY <1>4, <1>5

\* The others are still under way once, and not the one that was taken.
LEMMA InboxTaken ==
  ASSUME TypeInv, InboxOnce, NEW i \in DOMAIN toServer, toServer' = RemoveAt(toServer, i),
         caller' = caller,
         \A r \in Requests : work'[r] = work[r] \/ (IsRequest(i) /\ r = toServer[i].id)
  PROVE  InboxOnce'
<1>1. DOMAIN toServer = 1 .. Len(toServer) /\ Len(toServer) \in Nat
  BY LenProperties DEF TypeInv
<1>2. DOMAIN toServer' = 1 .. Len(toServer')
  BY <1>1, RemoveAtFacts, LenProperties DEF TypeInv
<1>3. \A k \in DOMAIN toServer' :
        \E h \in DOMAIN toServer \ {i} :
          toServer'[k] = toServer[h] /\ h = IF k < i THEN k ELSE k + 1
  BY InboxFewer
<1>4. ASSUME NEW k \in DOMAIN toServer', IsRequest(k)'
      PROVE  work'[toServer'[k].id] = None
             /\ caller'[toServer'[k].id] \notin {"new", "sending"}
  <2>1. PICK h \in DOMAIN toServer \ {i} : toServer'[k] = toServer[h]
    BY <1>3
  <2>2. IsRequest(h) /\ toServer[h].id \in Requests
    BY <1>4, <2>1, ListTypes, MessageFields DEF IsRequest
  <2>3. ~(IsRequest(i) /\ toServer[h].id = toServer[i].id)
    BY <2>1, <2>2 DEF InboxOnce
  <2>4. QED
    BY <2>1, <2>2, <2>3 DEF InboxOnce
<1>5. ASSUME NEW k \in DOMAIN toServer', NEW l \in DOMAIN toServer',
             IsRequest(k)', IsRequest(l)', toServer'[k].id = toServer'[l].id
      PROVE  k = l
  <2>1. PICK h \in DOMAIN toServer :
          toServer'[k] = toServer[h] /\ h = IF k < i THEN k ELSE k + 1
    BY <1>3
  <2>2. PICK g \in DOMAIN toServer :
          toServer'[l] = toServer[g] /\ g = IF l < i THEN l ELSE l + 1
    BY <1>3
  <2>3. h = g
    BY <1>5, <2>1, <2>2 DEF InboxOnce, IsRequest
  <2>4. k \in Int /\ l \in Int /\ i \in Int
    BY <1>1, <1>2
  <2>5. QED
    BY <2>1, <2>2, <2>3, <2>4
<1>6. QED
  BY <1>4, <1>5 DEF InboxOnce

\* A message more that is no request.
LEMMA InboxNotice ==
  ASSUME TypeInv, InboxOnce, NEW m \in Inbound, m.type # "request",
         toServer' \in {toServer, Append(toServer, m)},
         UNCHANGED work,
         \A r \in Requests : caller'[r] = caller[r] \/ caller'[r] \notin {"new", "sending"}
  PROVE  InboxOnce'
<1>1. toServer \in Seq(Inbound) /\ DOMAIN toServer = 1 .. Len(toServer) /\ Len(toServer) \in Nat
  BY LenProperties DEF TypeInv
<1>2. \A i \in DOMAIN toServer : toServer[i].type = "request" => toServer[i].id \in Requests
  BY ListTypes, MessageFields
<1>3. CASE toServer' = toServer
  BY <1>2, <1>3 DEF InboxOnce, IsRequest
<1>4. CASE toServer' = Append(toServer, m)
  <2>1. /\ toServer' \in Seq(Inbound) /\ Len(toServer') = Len(toServer) + 1
        /\ \A i \in 1 .. Len(toServer) : toServer'[i] = toServer[i]
        /\ toServer'[Len(toServer) + 1] = m
    BY <1>1, <1>4, AppendProperties
  <2>2. DOMAIN toServer' = 1 .. (Len(toServer) + 1)
    BY <2>1, LenProperties
  <2>3. \A i \in DOMAIN toServer' : toServer'[i].type = "request" =>
          i \in DOMAIN toServer /\ toServer'[i] = toServer[i]
    BY <1>1, <2>1, <2>2
  <2>4. QED
    BY <1>2, <2>3 DEF InboxOnce, IsRequest
<1>5. QED
  BY <1>3, <1>4

\* The request of a caller that was about to send it.
LEMMA InboxSent ==
  ASSUME TypeInv, InboxOnce, ServedOnce, NEW r \in Requests, caller[r] = "sending",
         toServer' \in {toServer, Append(toServer, Request(r))},
         UNCHANGED work, caller' = [caller EXCEPT ![r] = "waiting"]
  PROVE  InboxOnce'
<1>1. /\ toServer \in Seq(Inbound) /\ DOMAIN toServer = 1 .. Len(toServer)
      /\ Len(toServer) \in Nat /\ Request(r) \in Inbound
      /\ caller \in [Requests -> {"new", "sending", "waiting", "done"}]
  BY LenProperties DEF TypeInv, TypeOK, Request, Inbound
<1>2. \A i \in DOMAIN toServer : toServer[i].type = "request" =>
        toServer[i].id \in Requests /\ toServer[i].id # r
  BY ListTypes, MessageFields DEF InboxOnce, IsRequest
<1>3. CASE toServer' = toServer
  BY <1>1, <1>2, <1>3 DEF InboxOnce, IsRequest
<1>4. CASE toServer' = Append(toServer, Request(r))
  <2>1. /\ toServer' \in Seq(Inbound) /\ Len(toServer') = Len(toServer) + 1
        /\ \A i \in 1 .. Len(toServer) : toServer'[i] = toServer[i]
        /\ toServer'[Len(toServer) + 1] = Request(r)
    BY <1>1, <1>4, AppendProperties
  <2>2. DOMAIN toServer' = 1 .. (Len(toServer) + 1)
    BY <2>1, LenProperties
  <2>3. \A i \in DOMAIN toServer' : \/ i \in DOMAIN toServer /\ toServer'[i] = toServer[i]
                                    \/ i = Len(toServer) + 1 /\ toServer'[i] = Request(r)
    BY <1>1, <2>1, <2>2
  <2>4. Request(r).id = r
    BY DEF Request
  <2>5. work'[r] = None /\ caller'[r] = "waiting"
    BY <1>1 DEF ServedOnce
  <2>6. ASSUME NEW i \in DOMAIN toServer', IsRequest(i)'
        PROVE  work'[toServer'[i].id] = None
               /\ caller'[toServer'[i].id] \notin {"new", "sending"}
    <3>1. CASE i \in DOMAIN toServer /\ toServer'[i] = toServer[i]
      BY <1>1, <1>2, <2>6, <3>1 DEF InboxOnce, IsRequest
    <3>2. CASE i = Len(toServer) + 1 /\ toServer'[i] = Request(r)
      BY <2>4, <2>5, <3>2
    <3>3. QED
      BY <2>3, <3>1, <3>2
  <2>7. ASSUME NEW i \in DOMAIN toServer', NEW j \in DOMAIN toServer',
               IsRequest(i)', IsRequest(j)', toServer'[i].id = toServer'[j].id
        PROVE  i = j
    <3>1. CASE i \in DOMAIN toServer /\ j \in DOMAIN toServer
      <4>1. toServer'[i] = toServer[i] /\ toServer'[j] = toServer[j]
        BY <1>1, <2>1, <3>1
      <4>2. QED
        BY <2>7, <3>1, <4>1 DEF InboxOnce, IsRequest
    <3>2. CASE i \notin DOMAIN toServer /\ j \notin DOMAIN toServer
      BY <2>3, <3>2
    <3>3. CASE i \in DOMAIN toServer /\ j \notin DOMAIN toServer
      BY <1>1, <1>2, <2>1, <2>3, <2>4, <2>7, <3>3 DEF IsRequest
    <3>4. CASE i \notin DOMAIN toServer /\ j \in DOMAIN toServer
      BY <1>1, <1>2, <2>1, <2>3, <2>4, <2>7, <3>4 DEF IsRequest
    <3>5. QED
      BY <3>1, <3>2, <3>3, <3>4
  <2>8. QED
    BY <2>6, <2>7 DEF InboxOnce
<1>5. QED
  BY <1>3, <1>4

\* A message more to the client: the reply to r, or one that is no reply.
LEMMA RepliesMore ==
  ASSUME TypeInv, RepliesTrue, NEW m \in Outbound,
         toClient' \in {toClient, Append(toClient, m)},
         m.type = "reply" => m.body = served'[m.id],
         \A r \in Requests : served'[r] = served[r] \/ served[r] = None,
         UNCHANGED <<response, event, failed>>
  PROVE  RepliesTrue'
<1>1. toClient \in Seq(Outbound) /\ DOMAIN toClient = 1 .. Len(toClient) /\ Len(toClient) \in Nat
  BY LenProperties DEF TypeInv
<1>2. \A i \in DOMAIN toClient : toClient[i].type = "reply" =>
        toClient[i].id \in Requests /\ toClient[i].body = served'[toClient[i].id]
  <2> SUFFICES ASSUME NEW i \in DOMAIN toClient, toClient[i].type = "reply"
               PROVE  toClient[i].id \in Requests
                      /\ toClient[i].body = served'[toClient[i].id]
    OBVIOUS
  <2>1. toClient[i] \in Outbound
    BY <1>1, ElementOfSeq
  <2>2. toClient[i].id \in Requests /\ toClient[i].body # None
    BY <2>1, MessageFields DEF None
  <2>3. QED
    BY <2>2 DEF RepliesTrue
<1>3. \A r \in Requests : response[r] # None => response[r] = served'[r]
  BY DEF RepliesTrue
<1>4. CASE toClient' = toClient
  BY <1>2, <1>3, <1>4 DEF RepliesTrue
<1>5. CASE toClient' = Append(toClient, m)
  <2>1. /\ toClient' \in Seq(Outbound) /\ Len(toClient') = Len(toClient) + 1
        /\ \A i \in 1 .. Len(toClient) : toClient'[i] = toClient[i]
        /\ toClient'[Len(toClient) + 1] = m
    BY <1>1, <1>5, AppendProperties
  <2>2. DOMAIN toClient' = 1 .. (Len(toClient) + 1)
    BY <2>1, LenProperties
  <2>3. \A i \in DOMAIN toClient' : \/ i \in DOMAIN toClient /\ toClient'[i] = toClient[i]
                                    \/ toClient'[i] = m
    BY <1>1, <2>1, <2>2
  <2>4. \A i \in DOMAIN toClient' :
          toClient'[i].type = "reply" => toClient'[i].body = served'[toClient'[i].id]
    BY <1>2, <2>3
  <2>5. QED
    BY <1>3, <2>4 DEF RepliesTrue
<1>6. QED
  BY <1>4, <1>5

\* A request ends for its caller.
LEMMA FinishServing ==
  ASSUME TypeInv, ServingInv, NEW r \in Requests, NEW how, how # None, Finish(r, how),
         UNCHANGED <<toClient, served, work, ask, askOf>>,
         toServer' \in {toServer, Append(toServer, Notice)}
  PROVE  ServingInv'
<1> USE DEF ServingInv
<1>1. /\ caller \in [Requests -> {"new", "sending", "waiting", "done"}]
      /\ response \in [Requests -> {None, "result", "error"}]
      /\ outcome \in [Requests -> {None, "result", "error", "timeout", "transportClosed"}]
      /\ event \subseteq Requests
  BY DEF TypeInv, TypeOK
<1>2. Notice \in Inbound /\ Notice.type # "request"
  BY DEF Inbound, Notice
<1>3. InboxOnce'
  BY <1>1, <1>2, InboxNotice DEF Finish
<1>4. RepliesTrue'
  BY <1>1 DEF Finish, Drop, RepliesTrue
<1>5. AskersWork'
  BY DEF AskersWork
<1>6. ServedOnce'
  BY <1>1 DEF Finish, ServedOnce
<1>7. \A s \in Requests : outcome'[s] = None <=> caller'[s] # "done"
  BY <1>1 DEF Finish
<1>8. QED
  BY <1>3, <1>4, <1>5, <1>6, <1>7

\* A request is registered.
LEMMA RegisterServing ==
  ASSUME TypeInv, ServingInv, NEW r \in Requests, Register(r),
         UNCHANGED <<toServer, toClient, served, work, ask, askOf, response, event, failed,
                     outcome>>
  PROVE  ServingInv'
<1> USE DEF ServingInv
<1>1. caller \in [Requests -> {"new", "sending", "waiting", "done"}]
  BY DEF TypeInv, TypeOK
<1>2. InboxOnce'
  <2>1. \A i \in DOMAIN toServer : toServer[i].type = "request" => toServer[i].id \in Requests
    BY ListTypes, MessageFields
  <2>2. QED
    BY <1>1, <2>1 DEF Register, InboxOnce, IsRequest
<1>3. RepliesTrue' /\ AskersWork'
  BY DEF RepliesTrue, AskersWork
<1>4. ServedOnce' /\ \A s \in Requests : outcome'[s] = None <=> caller'[s] # "done"
  BY <1>1 DEF Register, ServedOnce
<1>5. QED
  BY <1>2, <1>3, <1>4

\* A step of the client that only fails entries.
LEMMA FailServing ==
  ASSUME ServingInv, event' \subseteq event \cup failed', failed \subseteq failed',
         UNCHANGED <<toServer, toClient, served, work, ask, askOf, response, outcome, caller>>
  PROVE  ServingInv'
  BY DEF ServingInv, InboxOnce, IsRequest, RepliesTrue, AskersWork, ServedOnce

\* The first message is taken by the read loop.
LEMMA ReceiveServing == TypeInv /\ ServingInv /\ Receive => ServingInv'
<1> SUFFICES ASSUME TypeInv, ServingInv, Receive PROVE ServingInv'
  OBVIOUS
<1> USE DEF ServingInv
<1> DEFINE m == Head(toClient)
<1>1. /\ toClient \in Seq(Outbound) /\ toClient # <<>> /\ m \in Outbound
      /\ toClient' = Tail(toClient)
  BY ListTypes DEF TypeInv, Receive
<1>2. \A i \in DOMAIN toClient' : \E j \in DOMAIN toClient : toClient'[i] = toClient[j]
  <2>1. /\ toClient' \in Seq(Outbound) /\ Len(toClient') = Len(toClient) - 1
        /\ \A i \in 1 .. Len(toClient') : toClient'[i] = toClient[i + 1]
    BY <1>1, HeadTailProperties
  <2>2. DOMAIN toClient' = 1 .. Len(toClient') /\ DOMAIN toClient = 1 .. Len(toClient)
        /\ Len(toClient) \in Nat
    BY <1>1, <2>1, LenProperties
  <2>3. \A i \in 1 .. Len(toClient') : i + 1 \in DOMAIN toClient
    BY <2>1, <2>2
  <2>4. QED
    BY <2>1, <2>2, <2>3
<1>3. 1 \in DOMAIN toClient /\ m = toClient[1]
  BY <1>1, LenProperties, EmptySeq
<1>4. m.type = "reply" => m.body = served[m.id] /\ m.id \in Requests
  BY <1>1, <1>3, MessageFields DEF RepliesTrue
<1>5. UNCHANGED <<toServer, caller, work, served, ask, askOf, outcome>>
  BY DEF Receive, serverVars
<1>6. RepliesTrue'
  <2>1. \A i \in DOMAIN toClient' :
          toClient'[i].type = "reply" => toClient'[i].body = served'[toClient'[i].id]
    BY <1>2, <1>5 DEF RepliesTrue
  <2>2. CASE m = Broken
    BY <1>5, <2>1, <2>2 DEF Receive, ReaderEnds, FailAll, RepliesTrue
  <2>3. CASE m # Broken /\ m.type = "reply" /\ m.id \in pending
    <3>1. /\ response' = [response EXCEPT ![m.id] = m.body]
          /\ event' = event \cup {m.id} /\ failed' = failed
      BY <2>3 DEF Receive, Dispatch
    <3>2. m.body # None
      BY <1>1, <2>3, MessageFields DEF None
    <3>3. response \in [Requests -> {None, "result", "error"}] /\ event \subseteq Requests
      BY DEF TypeInv, TypeOK
    <3>4. QED
      BY <1>4, <1>5, <2>1, <2>3, <3>1, <3>2, <3>3 DEF RepliesTrue
  <2>4. CASE m # Broken /\ ~(m.type = "reply" /\ m.id \in pending)
    <3>1. UNCHANGED <<response, event, failed>>
      BY <2>4 DEF Receive, Dispatch
    <3>2. QED
      BY <1>5, <2>1, <3>1 DEF RepliesTrue
  <2>5. QED
    BY <2>2, <2>3, <2>4
<1>7. InboxOnce' /\ AskersWork' /\ ServedOnce'
      /\ \A r \in Requests : outcome'[r] = None <=> caller'[r] # "done"
  BY <1>5 DEF InboxOnce, IsRequest, AskersWork, ServedOnce
<1>8. QED
  BY <1>6, <1>7

\* The server takes a message.
LEMMA ServeServing == TypeInv /\ ServingInv /\ Serve => ServingInv'
<1> SUFFICES ASSUME TypeInv, ServingInv, Serve PROVE ServingInv'
  OBVIOUS
<1> USE DEF ServingInv
<1>1. UNCHANGED <<caller, outcome, response, event, failed, served, askOf, toClient, waiters>>
  BY DEF Serve, clientVars
<1>2. PICK i \in DOMAIN toServer :
        /\ toServer' = RemoveAt(toServer, i)
        /\ IF toServer[i].type = "reply" THEN RouteServerResponse(toServer[i])
           ELSE UNCHANGED ask
        /\ work' = IF toServer[i].type = "request"
                   THEN [work EXCEPT ![toServer[i].id] = "running"] ELSE work
  BY DEF Serve
<1>3. /\ work \in [Requests -> {None, "running", "asking", "replied", "cancelled"}]
      /\ ask \in [Asks -> {None, "waiting", "answered", "over"}]
      /\ waiters \subseteq {q \in Asks : ask[q] \in {"waiting", "answered"}}
  BY DEF TypeInv, TypeOK, WaitersRegistered
<1>4. toServer[i].type = "request" =>
        toServer[i].id \in Requests /\ work[toServer[i].id] = None
          /\ caller[toServer[i].id] \notin {"new", "sending"}
  BY ListTypes, MessageFields DEF InboxOnce, IsRequest
<1>5. \A r \in Requests : work'[r] = work[r] \/ (IsRequest(i) /\ r = toServer[i].id)
  BY <1>2, <1>3 DEF IsRequest
<1>6. InboxOnce'
  BY <1>1, <1>2, <1>5, InboxTaken
<1>7. RepliesTrue'
  BY <1>1 DEF RepliesTrue
<1>8. AskersWork'
  <2>1. \A q \in Asks : ask'[q] \in {"waiting", "answered"} => ask[q] \in {"waiting", "answered"}
    BY <1>2, <1>3 DEF RouteServerResponse
  <2>2. \A r \in Requests : work[r] = "asking" => work'[r] = "asking"
    BY <1>2, <1>3, <1>4 DEF None
  <2>3. QED
    BY <1>1, <2>1, <2>2 DEF AskersWork
<1>9. ServedOnce'
  BY <1>1, <1>2, <1>3, <1>4 DEF ServedOnce
<1>10. QED
  BY <1>1, <1>6, <1>7, <1>8, <1>9

\* The inbox of a server in process ends: tools that waited still have their questions.
LEMMA InboxEndsServing == TypeInv /\ ServingInv /\ InboxEnds => ServingInv'
<1> SUFFICES ASSUME TypeInv, ServingInv, InboxEnds PROVE ServingInv'
  OBVIOUS
<1> USE DEF ServingInv
<1>1. UNCHANGED <<caller, outcome, response, event, failed, served, work, askOf, toClient,
                  toServer>>
  BY DEF InboxEnds, clientVars, wireVars
<1>2. InboxOnce' /\ RepliesTrue' /\ ServedOnce'
  BY <1>1 DEF InboxOnce, IsRequest, RepliesTrue, ServedOnce
<1>3. \A q \in Asks : ask'[q] \in {"waiting", "answered"} => ask[q] \in {"waiting", "answered"}
  BY DEF InboxEnds
<1>4. AskersWork'
  BY <1>1, <1>3 DEF AskersWork
<1>5. QED
  BY <1>1, <1>2, <1>4

\* The server replies to a request.
LEMMA ReplyServing ==
  ASSUME TypeInv, ServingInv, NEW r \in Requests, NEW body \in {"result", "error"},
         work[r] = "running", ReplyTo(r, body)
  PROVE  ServingInv'
<1> USE DEF ServingInv
<1>1. /\ work \in [Requests -> {None, "running", "asking", "replied", "cancelled"}]
      /\ served \in [Requests -> {None, "result", "error"}]
  BY DEF TypeInv, TypeOK
<1>2. /\ work' = [work EXCEPT ![r] = "replied"] /\ served' = [served EXCEPT ![r] = body]
      /\ toClient' \in {toClient, Append(toClient, Reply(r, body))}
      /\ UNCHANGED <<toServer, caller, outcome, response, event, failed, ask, askOf>>
  BY DEF ReplyTo, Emit, clientVars
<1>3. served[r] = None
  BY DEF ServedOnce
<1>4. Reply(r, body) \in Outbound /\ Reply(r, body).body = served'[r] /\ Reply(r, body).id = r
  BY <1>1, <1>2 DEF Reply, Outbound
<1>5. RepliesTrue'
  BY <1>1, <1>2, <1>3, <1>4, RepliesMore
<1>6. InboxOnce'
  <2>1. \A i \in DOMAIN toServer : toServer[i].type = "request" =>
          toServer[i].id \in Requests /\ toServer[i].id # r
    BY ListTypes, MessageFields DEF InboxOnce, IsRequest, None
  <2>2. QED
    BY <1>1, <1>2, <2>1 DEF InboxOnce, IsRequest
<1>7. AskersWork'
  BY <1>1, <1>2 DEF AskersWork
<1>8. ServedOnce'
  BY <1>1, <1>2 DEF ServedOnce, None
<1>9. QED
  BY <1>2, <1>5, <1>6, <1>7, <1>8

\* A tool asks the client.
LEMMA AskServing ==
  ASSUME TypeInv, ServingInv, NEW q \in Asks, NEW r \in Requests, NEW kind \in Kinds,
         NEW limited, SendQuestion(r, q, kind, limited)
  PROVE  ServingInv'
<1> USE DEF ServingInv
<1>1. /\ work \in [Requests -> {None, "running", "asking", "replied", "cancelled"}]
      /\ ask \in [Asks -> {None, "waiting", "answered", "over"}]
      /\ askOf \in [Asks -> 0 .. MaxRequests]
  BY DEF TypeInv, TypeOK
<1>2. /\ work[r] = "running" /\ work' = [work EXCEPT ![r] = "asking"]
      /\ ask[q] = None /\ ask' = [ask EXCEPT ![q] = "waiting"]
      /\ askOf' = [askOf EXCEPT ![q] = r]
      /\ toClient' \in {toClient, Append(toClient, Question(q, kind))}
      /\ UNCHANGED <<toServer, caller, outcome, response, event, failed, served>>
  BY DEF SendQuestion, Emit, clientVars
<1>3. Question(q, kind) \in Outbound /\ Question(q, kind).type # "reply"
  BY DEF Question, Outbound
<1>4. RepliesTrue'
  BY <1>2, <1>3, RepliesMore
<1>5. InboxOnce'
  <2>1. \A i \in DOMAIN toServer : toServer[i].type = "request" =>
          toServer[i].id \in Requests /\ toServer[i].id # r
    BY <1>2, ListTypes, MessageFields DEF InboxOnce, IsRequest, None
  <2>2. QED
    BY <1>1, <1>2, <2>1 DEF InboxOnce, IsRequest
<1>6. AskersWork'
  BY <1>1, <1>2 DEF AskersWork, None
<1>7. ServedOnce'
  BY <1>1, <1>2 DEF ServedOnce, None
<1>8. QED
  BY <1>2, <1>4, <1>5, <1>6, <1>7

\* The tool goes on.
LEMMA AskEndsServing ==
  ASSUME TypeInv, ServingInv, NEW q \in Asks, AskEnds(q)
  PROVE  ServingInv'
<1> USE DEF ServingInv
<1>1. /\ work \in [Requests -> {None, "running", "asking", "replied", "cancelled"}]
      /\ ask \in [Asks -> {None, "waiting", "answered", "over"}]
  BY DEF TypeInv, TypeOK
<1>2. /\ ask[q] \in {"waiting", "answered"} /\ ask' = [ask EXCEPT ![q] = "over"]
      /\ work' = [work EXCEPT ![askOf[q]] = "running"]
      /\ toClient' \in {toClient, Append(toClient, Notice)}
      /\ UNCHANGED <<toServer, caller, outcome, response, event, failed, served, askOf>>
  BY DEF AskEnds, Emit, clientVars
<1>3. askOf[q] \in Requests /\ work[askOf[q]] = "asking"
  BY <1>2 DEF AskersWork
<1>4. Notice \in Outbound /\ Notice.type # "reply"
  BY DEF Notice, Outbound
<1>5. RepliesTrue'
  BY <1>2, <1>4, RepliesMore
<1>6. InboxOnce'
  <2>1. \A i \in DOMAIN toServer : toServer[i].type = "request" =>
          toServer[i].id \in Requests /\ toServer[i].id # askOf[q]
    BY <1>3, ListTypes, MessageFields DEF InboxOnce, IsRequest, None
  <2>2. QED
    BY <1>1, <1>2, <2>1 DEF InboxOnce, IsRequest
<1>7. AskersWork'
  BY <1>1, <1>2, <1>3 DEF AskersWork, None
<1>8. ServedOnce'
  BY <1>1, <1>2, <1>3 DEF ServedOnce, None
<1>9. QED
  BY <1>2, <1>5, <1>6, <1>7, <1>8

\* The rest of close().
LEMMA CloseEndsServing == TypeInv /\ ServingInv /\ CloseEnds => ServingInv'
<1> SUFFICES ASSUME TypeInv, ServingInv, CloseEnds PROVE ServingInv'
  OBVIOUS
<1> USE DEF ServingInv
<1>1. toServer' = <<>> /\ toClient' = <<>> /\ DOMAIN <<>> = {}
  BY DEF CloseEnds
<1>2. UNCHANGED <<caller, outcome, response, served, askOf>>
      /\ event' = event \cup (pending \ event) /\ failed' = failed \cup (pending \ event)
  BY DEF CloseEnds, FailAll
<1>3. InboxOnce' /\ RepliesTrue'
  BY <1>1, <1>2 DEF InboxOnce, RepliesTrue
<1>4. \/ UNCHANGED <<work, ask>>
      \/ /\ work' = [r \in Requests |-> IF work[r] \in {"running", "asking"} THEN "cancelled"
                                        ELSE work[r]]
         /\ \A q \in Asks : ask'[q] \notin {"waiting", "answered"}
  BY DEF CloseEnds, None
<1>5. AskersWork'
  BY <1>2, <1>4 DEF AskersWork
<1>6. ServedOnce'
  BY <1>2, <1>4 DEF ServedOnce, None
<1>7. QED
  BY <1>2, <1>3, <1>5, <1>6

\* Every step keeps it.
LEMMA ServingStep == TypeInv /\ ServingInv /\ [Next]_vars => ServingInv'
<1> SUFFICES ASSUME TypeInv, ServingInv, [Next]_vars PROVE ServingInv'
  OBVIOUS
<1> USE DEF clientVars, serverVars, wireVars
<1>1. 1 \in Requests
  BY ConnectionAssumption DEF Requests
<1>2. CASE UNCHANGED vars
  BY <1>2, FailServing DEF vars
<1>3. CASE Enter
  BY <1>1, <1>3, RegisterServing DEF Enter
<1>4. CASE Close
  BY <1>4, FailServing DEF Close, FailAll
<1>5. CASE CloseEnds
  BY <1>5, CloseEndsServing
<1>6. CASE Receive
  BY <1>6, ReceiveServing
<1>7. CASE ReceiveEnds
  BY <1>7, FailServing DEF ReceiveEnds, ReaderEnds, FailAll
<1>8. CASE Serve
  BY <1>8, ServeServing
<1>9. CASE HandleInitialize
  BY <1>1, <1>9, ReplyServing DEF HandleInitialize
<1>10. CASE PeerGoes
  <2>1. InboxOnce'
    BY <1>10 DEF PeerGoes, InboxOnce
  <2>2. QED
    BY <1>10, <2>1 DEF PeerGoes, ServingInv, RepliesTrue, AskersWork, ServedOnce
<1>11. CASE PostFails
  <2>1. UNCHANGED <<caller, outcome, response, event, failed, served, work, ask, askOf>>
        /\ toClient' = Append(toClient, Broken)
    BY <1>11 DEF PostFails
  <2>2. Broken \in Outbound /\ Broken.type # "reply"
    BY DEF Broken, Outbound
  <2>3. RepliesTrue'
    BY <2>1, <2>2, RepliesMore DEF ServingInv
  <2>4. InboxOnce'
    <3>1. CASE toServer' = toServer
      BY <2>1, <3>1 DEF ServingInv, InboxOnce, IsRequest
    <3>2. CASE \E i \in DOMAIN toServer : toServer' = RemoveAt(toServer, i)
      BY <2>1, <3>2, InboxTaken DEF ServingInv
    <3>3. QED
      BY <1>11, <3>1, <3>2 DEF PostFails
  <2>5. QED
    BY <2>1, <2>3, <2>4 DEF ServingInv, AskersWork, ServedOnce
<1>12. ASSUME NEW r \in Requests, Send(r) PROVE ServingInv'
  <2>1. CASE Finish(r, "transportClosed")
    <3>1. toServer' = toServer \/ caller' = [caller EXCEPT ![r] = "waiting"]
      BY <1>12 DEF Send
    <3>2. toServer' = toServer
      BY <2>1, <3>1 DEF Finish, TypeInv, TypeOK
    <3>3. "transportClosed" # None
      BY DEF None
    <3>4. QED
      BY <1>12, <2>1, <3>2, <3>3, FinishServing DEF Send
  <2>2. CASE ~Finish(r, "transportClosed")
    <3>1. /\ caller[r] = "sending" /\ caller' = [caller EXCEPT ![r] = "waiting"]
          /\ toServer' \in {toServer, Append(toServer, Request(r))}
          /\ UNCHANGED <<toClient, outcome, response, event, failed, served, work, ask, askOf>>
      BY <1>12, <2>2 DEF Send, Deliver
    <3>2. InboxOnce'
      BY <3>1, InboxSent DEF ServingInv
    <3>3. QED
      BY <3>1, <3>2 DEF ServingInv, RepliesTrue, AskersWork, ServedOnce, TypeInv, TypeOK
  <2>3. QED
    BY <2>1, <2>2
<1>13. ASSUME NEW r \in Requests, Resume(r) PROVE ServingInv'
  <2>1. Outcome(r) # None /\ "result" # None /\ "transportClosed" # None
    BY <1>13 DEF Resume, Outcome, ServingInv, RepliesTrue, None
  <2>2. toServer' \in {toServer, Append(toServer, Notice)}
    BY <1>13 DEF Resume, Deliver
  <2>3. PICK how : how # None /\ Finish(r, how)
    BY <1>13, <2>1 DEF Resume
  <2>4. QED
    BY <1>13, <2>2, <2>3, FinishServing DEF Resume
<1>14. ASSUME NEW r \in Requests, TimesOut(r) PROVE ServingInv'
  <2>1. toServer' \in {toServer, Append(toServer, Notice)}
    BY <1>14 DEF TimesOut, Deliver
  <2>2. PICK how : how # None /\ Finish(r, how)
    BY <1>14 DEF TimesOut, None
  <2>3. QED
    BY <1>14, <2>1, <2>2, FinishServing DEF TimesOut
<1>15. ASSUME NEW r \in Requests, Handle(r) PROVE ServingInv'
  BY <1>15, ReplyServing DEF Handle
<1>16. ASSUME NEW r \in Requests, StartCall(r) PROVE ServingInv'
  BY <1>16, RegisterServing DEF StartCall
<1>17. ASSUME NEW q \in Asks, HandleElicitation(q) \/ HandleSampling(q) PROVE ServingInv'
  <2>1. Reply(q, "answer") \in Inbound /\ Reply(q, "answer").type # "request"
    BY DEF Reply, Inbound
  <2>2. /\ toServer' \in {toServer, Append(toServer, Reply(q, "answer"))}
        /\ UNCHANGED <<caller, toClient, outcome, response, event, failed, served, work, ask,
                       askOf>>
    BY <1>17 DEF HandleElicitation, HandleSampling, Answer, Deliver
  <2>3. InboxOnce'
    BY <2>1, <2>2, InboxNotice DEF ServingInv
  <2>4. QED
    BY <2>2, <2>3 DEF ServingInv, RepliesTrue, AskersWork, ServedOnce
<1>18. ASSUME NEW q \in Asks, AskEnds(q) PROVE ServingInv'
  BY <1>18, AskEndsServing
<1>19. ASSUME NEW q \in Asks, NEW r \in Requests, NEW limited \in BOOLEAN,
              SendElicitation(r, q, limited) \/ SendSampling(r, q, limited)
       PROVE  ServingInv'
  BY <1>19, AskServing DEF SendElicitation, SendSampling, Kinds
<1>20. CASE InboxEnds
  BY <1>20, InboxEndsServing
<1>21. QED
  BY <1>2, <1>3, <1>4, <1>5, <1>6, <1>7, <1>8, <1>9, <1>10, <1>11, <1>12, <1>13, <1>14, <1>15,
     <1>16, <1>17, <1>18, <1>19, <1>20 DEF Next

\* A request ends for its caller with what the server made of it, or with a failure.
LEMMA RpcEnds ==
  ASSUME TypeInv, ServingInv, NEW r \in Requests, Finish(r, outcome'[r]),
         caller[r] \in {"sending", "waiting"}, served' = served,
         outcome'[r] \in {"transportClosed", "timeout"}
           \/ (outcome'[r] \in {"result", "error"} /\ outcome'[r] = served[r])
  PROVE  Rpc!Next
<1>1. /\ caller \in [Requests -> {"new", "sending", "waiting", "done"}]
      /\ outcome \in [Requests -> {None, "result", "error", "timeout", "transportClosed"}]
      /\ served \in [Requests -> {None, "result", "error"}]
  BY DEF TypeInv, TypeOK
<1>2. outcome[r] = None /\ r \in {s \in Requests : caller[s] # "new"}
  BY DEF ServingInv
<1>3. /\ outcome' = [outcome EXCEPT ![r] = outcome'[r]]
      /\ caller' = [caller EXCEPT ![r] = "done"]
  BY DEF Finish
<1> DEFINE how == [x \in {r} |-> outcome'[r]]
           Ended  == [s \in Requests |-> IF outcome[s] = None THEN "open" ELSE outcome[s]]
           Served == [s \in Requests |-> IF served[s] = None THEN "unserved" ELSE served[s]]
<1>4. {s \in Requests : caller'[s] # "new"} = {s \in Requests : caller[s] # "new"}
  BY <1>1, <1>3
<1>5. how \in [{r} -> Rpc!Servings \cup Rpc!Failures]
  BY DEF Rpc!Servings, Rpc!Failures
<1>6. \A s \in {r} : how[s] \in Rpc!Servings => how[s] = Served[s]
  BY DEF Rpc!Servings, None
<1>7. Ended' = [s \in Requests |-> IF s \in {r} THEN how[s] ELSE Ended[s]]
  BY <1>1, <1>2, <1>3 DEF None
<1>8. \A s \in {r} : Ended[s] = Rpc!Open
  BY <1>2 DEF Rpc!Open
<1>9. Rpc!End({r})
  BY <1>2, <1>4, <1>5, <1>6, <1>7, <1>8 DEF Rpc!End
<1>10. {r} \in (SUBSET Requests) \ {{}}
  OBVIOUS
<1>11. QED
  BY <1>9, <1>10 DEF Rpc!Next

\* The server replies to a request.
LEMMA RpcServes ==
  ASSUME TypeInv, ServingInv, NEW r \in Requests, NEW body \in {"result", "error"},
         work[r] = "running", ReplyTo(r, body)
  PROVE  Rpc!Next
<1>1. /\ served \in [Requests -> {None, "result", "error"}]
      /\ served' = [served EXCEPT ![r] = body] /\ UNCHANGED <<caller, outcome>>
  BY DEF TypeInv, TypeOK, ReplyTo, clientVars
<1>2. served[r] = None /\ caller[r] # "new"
  BY DEF ServingInv, ServedOnce, None
<1> DEFINE Served == [s \in Requests |-> IF served[s] = None THEN "unserved" ELSE served[s]]
<1>3. Served[r] = Rpc!Unserved /\ body \in Rpc!Servings
  BY <1>2 DEF Rpc!Unserved, Rpc!Servings
<1>4. Served' = [Served EXCEPT ![r] = body]
  BY <1>1 DEF None
<1>5. Rpc!Serve(r)
  BY <1>1, <1>2, <1>3, <1>4 DEF Rpc!Serve
<1>6. QED
  BY <1>5 DEF Rpc!Next

\* A request is registered.
LEMMA RpcAsks ==
  ASSUME TypeInv, NEW r \in Requests, Register(r), UNCHANGED <<served, outcome>>
  PROVE  Rpc!Next
<1>1. caller \in [Requests -> {"new", "sending", "waiting", "done"}] /\ caller[r] = "new"
      /\ caller' = [caller EXCEPT ![r] = "sending"]
  BY DEF TypeInv, TypeOK, Register
<1>2. {s \in Requests : caller'[s] # "new"} = {s \in Requests : caller[s] # "new"} \cup {r}
  BY <1>1
<1>3. Rpc!Ask(r)
  BY <1>1, <1>2 DEF Rpc!Ask
<1>4. QED
  BY <1>3 DEF Rpc!Next

\* A step that RequestReply does not see.
LEMMA RpcStutters == UNCHANGED <<caller, served, outcome>> => UNCHANGED Rpc!vars
  BY DEF Rpc!vars

\* Every step is one of RequestReply, or changes nothing that it speaks of.
LEMMA RpcStep == TypeInv /\ ServingInv /\ [Next]_vars => [Rpc!Next]_(Rpc!vars)
<1> SUFFICES ASSUME TypeInv, ServingInv, [Next]_vars
             PROVE  Rpc!Next \/ UNCHANGED Rpc!vars
  OBVIOUS
<1> USE DEF clientVars, serverVars, wireVars
<1>1. 1 \in Requests /\ caller \in [Requests -> {"new", "sending", "waiting", "done"}]
      /\ outcome \in [Requests -> {None, "result", "error", "timeout", "transportClosed"}]
  BY ConnectionAssumption DEF Requests, TypeInv, TypeOK
<1>2. CASE UNCHANGED vars
  BY <1>2, RpcStutters DEF vars
<1>3. CASE Enter
  BY <1>1, <1>3, RpcAsks DEF Enter
<1>4. CASE Close \/ CloseEnds \/ Receive \/ ReceiveEnds \/ Serve \/ InboxEnds
           \/ PeerGoes \/ PostFails
  BY <1>4, RpcStutters DEF Close, CloseEnds, Receive, ReceiveEnds, Serve, InboxEnds, PeerGoes,
                           PostFails
<1>5. CASE HandleInitialize
  BY <1>1, <1>5, RpcServes DEF HandleInitialize
<1>6. ASSUME NEW r \in Requests, Send(r) PROVE Rpc!Next \/ UNCHANGED Rpc!vars
  <2>1. CASE Finish(r, "transportClosed")
    <3>1. outcome'[r] = "transportClosed"
      BY <1>1, <2>1 DEF Finish
    <3>2. QED
      BY <1>6, <2>1, <3>1, RpcEnds DEF Send
  <2>2. CASE ~Finish(r, "transportClosed")
    <3>1. /\ caller[r] = "sending" /\ caller' = [caller EXCEPT ![r] = "waiting"]
          /\ UNCHANGED <<served, outcome>>
      BY <1>6, <2>2 DEF Send
    <3>2. {s \in Requests : caller'[s] # "new"} = {s \in Requests : caller[s] # "new"}
      BY <1>1, <3>1
    <3>3. QED
      BY <3>1, <3>2 DEF Rpc!vars
  <2>3. QED
    BY <2>1, <2>2
<1>7. ASSUME NEW r \in Requests, Resume(r) PROVE Rpc!Next \/ UNCHANGED Rpc!vars
  <2>1. Outcome(r) \in {"result", "error"} => Outcome(r) = served[r]
    BY DEF Outcome, ServingInv, RepliesTrue, None
  <2>2. Outcome(r) \in {"result", "error", "transportClosed"}
    BY <1>7 DEF Resume, Outcome, ServingInv, RepliesTrue, TypeInv, TypeOK
  <2>3. PICK how : /\ Finish(r, how)
                   /\ how = "transportClosed"
                        \/ (how \in {"result", "error"} /\ how = served[r])
    BY <1>7, <2>1, <2>2 DEF Resume
  <2>4. outcome'[r] = how
    BY <1>1, <2>3 DEF Finish
  <2>5. QED
    BY <1>7, <2>3, <2>4, RpcEnds DEF Resume
<1>8. ASSUME NEW r \in Requests, TimesOut(r) PROVE Rpc!Next \/ UNCHANGED Rpc!vars
  <2>1. PICK how \in {"timeout", "transportClosed"} : Finish(r, how)
    BY <1>8 DEF TimesOut
  <2>2. outcome'[r] = how
    BY <1>1, <2>1 DEF Finish
  <2>3. QED
    BY <1>8, <2>1, <2>2, RpcEnds DEF TimesOut
<1>9. ASSUME NEW r \in Requests, Handle(r) PROVE Rpc!Next \/ UNCHANGED Rpc!vars
  BY <1>9, RpcServes DEF Handle
<1>10. ASSUME NEW r \in Requests, StartCall(r) PROVE Rpc!Next \/ UNCHANGED Rpc!vars
  BY <1>10, RpcAsks DEF StartCall
<1>11. ASSUME NEW q \in Asks, HandleElicitation(q) \/ HandleSampling(q) \/ AskEnds(q)
       PROVE  Rpc!Next \/ UNCHANGED Rpc!vars
  BY <1>11, RpcStutters DEF HandleElicitation, HandleSampling, Answer, AskEnds
<1>12. ASSUME NEW q \in Asks, NEW r \in Requests, NEW limited \in BOOLEAN,
              SendElicitation(r, q, limited) \/ SendSampling(r, q, limited)
       PROVE  Rpc!Next \/ UNCHANGED Rpc!vars
  BY <1>12, RpcStutters DEF SendElicitation, SendSampling, SendQuestion
<1>13. QED
  BY <1>2, <1>3, <1>4, <1>5, <1>6, <1>7, <1>8, <1>9, <1>10, <1>11, <1>12 DEF Next

\* The strengthening holds initially, and so does RequestReply.
LEMMA ServingInit == Init => ServingInv /\ Rpc!Init
<1> SUFFICES ASSUME Init PROVE ServingInv /\ Rpc!Init
  OBVIOUS
<1>1. /\ toServer = <<>> /\ toClient = <<>> /\ event = {} /\ DOMAIN <<>> = {}
      /\ caller = [r \in Requests |-> "new"] /\ served = [r \in Requests |-> None]
      /\ outcome = [r \in Requests |-> None] /\ response = [r \in Requests |-> None]
      /\ work = [r \in Requests |-> None] /\ ask = [q \in Asks |-> None]
  BY DEF Init, ClientInit, ServerInit, WireInit
<1>2. InboxOnce /\ RepliesTrue /\ AskersWork /\ ServedOnce
  BY <1>1 DEF InboxOnce, RepliesTrue, AskersWork, ServedOnce, None
<1>3. QED
  BY <1>1, <1>2 DEF ServingInv, Rpc!Init, Rpc!Unserved, Rpc!Open

\* The connection implements RequestReply: whatever is lost, reordered, late or closed, with
\* the ids of both sides colliding, a request is served at most once, and its caller is
\* given a result only if it is the one the server made of that very request.
THEOREM ConnectionImplementsRequestReply == Spec => ImplementsRequestReply
  BY TypeInit, TypeStep, ServingInit, ServingStep, RpcStep, PTL
     DEF Spec, ImplementsRequestReply, Rpc!Spec
=============================================================================
