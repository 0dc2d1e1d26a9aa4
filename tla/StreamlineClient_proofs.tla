---------------------- MODULE StreamlineClient_proofs ----------------------
(***************************************************************************)
(* The subscriptions of a client, for any topics and any number of sockets *)
(* and timeouts, with an application that calls back from inside the       *)
(* callbacks of schedule_reconnect and fail_reconnect and a send() that    *)
(* may throw.                                                              *)
(*                                                                         *)
(* Every step is one of WsConnection's or leaves its variables alone, so   *)
(* that its invariant holds here too.  On top of it: what the server has   *)
(* been asked on the current socket is what is registered, and that is     *)
(* what the application wants.                                             *)
(***************************************************************************)
EXTENDS StreamlineClient, WsContract_proofs

ClientTypes ==
    /\ owner \in Owners
    /\ persistent \subseteq Topics
    /\ topicCb \in [Topics -> Topics \union {NoCallback}]
    /\ onMessage \in {NoCallback, Default}
    /\ asked \in [Sockets -> SUBSET Topics]
    /\ unanswered \in [Sockets -> SUBSET BrowserRequest]
    /\ inbox \in [Sockets -> Seq(BrowserResponse)]
    /\ wanted \subseteq Topics
    /\ sendFailed \in BOOLEAN

HeardType ==
    heard \in [frame : BrowserResponse, callback : Topics \union {Default}] \union {Silence}

\* A socket on which nothing has been sent carries nothing.
NothingBeforeOpen ==
    \A s \in Sockets : rs[s] \notin {"OPEN", "CLOSING"} => asked[s] = {} /\ inbox[s] = <<>>

RegistryAgrees ==
    /\ \A t \in Topics : topicCb[t] \in {t, NoCallback}
    /\ \A t \in persistent : topicCb[t] = t
    /\ wanted \subseteq persistent
    /\ ~sendFailed => wanted = persistent

ServerAgrees == alive /\ HasOpenSocket /\ ~sendFailed => asked[ws] = persistent

Records(s) == {i \in DOMAIN inbox[s] : inbox[s][i].kind = "message"}

\* A record on its way is of a topic that is wanted, or has no callback.
RecordsAgree ==
    alive /\ HasOpenSocket /\ ~sendFailed =>
        \A i \in Records(ws) :
            /\ inbox[ws][i].topic \in Topics
            /\ topicCb[inbox[ws][i].topic] = NoCallback \/ inbox[ws][i].topic \in wanted

\* A StreamlineClient has no on_message, a TopicAdmin no subscription.
OwnersDiffer ==
    /\ owner = "StreamlineClient" => onMessage = NoCallback
    /\ owner = "TopicAdmin" => \A s \in Sockets : asked[s] = {} /\ Records(s) = {}
    /\ owner = "TopicAdmin" => persistent = {}

ClientInv ==
    /\ WsInv
    /\ ClientTypes
    /\ NothingBeforeOpen
    /\ RegistryAgrees
    /\ ServerAgrees
    /\ RecordsAgree
    /\ OwnersDiffer

(***************************************************************************)
(* The connection under the client                                         *)
(***************************************************************************)
\* A step of the client is a step of WsConnection, or none.
LEMMA ClientStepIsWsStep == [ClientNext]_clientVars => [Next]_vars
<1>1. ClientCall => [Next]_vars
  BY DEF ClientCall, SubscribeNotConnected, SubscribeLater, SubscribeNow, Unsubscribe,
         Produce, AdminAction, SendMessage, OnResponse, ClientDisconnect, Next, Call
<1>2. SocketTask => [Next]_vars
  BY DEF SocketTask, ClientOpens, ClientPeerCloses, ClientCloses, ServerSends,
         ServerAnswers, Push, Next
<1>3. OtherStep => [Next]_vars
  BY DEF OtherStep, Next, Call
<1>4. \A s \in Sockets : Message(s) => [Next]_vars
  BY DEF Message
<1> QED  BY <1>1, <1>2, <1>3, <1>4 DEF ClientNext, clientVars

\* The client implements the connection: what holds of WsConnection holds of
\* it (StreamlineClient and TopicAdmin add nothing to their WsConnection).
THEOREM ClientIsAConnection == ClientSpec => Spec
<1>1. ClientInit => Init
  BY DEF ClientInit
<1> QED  BY <1>1, ClientStepIsWsStep, PTL DEF ClientSpec, Spec

\* Nothing is registered, asked or in flight at first.
LEMMA ClientInitInv == ClientInit => ClientInv /\ HeardType
<1> SUFFICES ASSUME ClientInit PROVE ClientInv /\ HeardType
  OBVIOUS
<1>1. WsInv
  BY WsInit DEF ClientInit
<1>2. inbox \in [Sockets -> Seq(BrowserResponse)]
  BY DEF ClientInit
<1>3. \A s \in Sockets : Records(s) = {}
  BY DEF ClientInit, Records
<1>4. ~HasOpenSocket
  BY DEF ClientInit, Init, HasOpenSocket
<1> QED
  BY <1>1, <1>2, <1>3, <1>4
  DEF ClientInit, Init, ClientInv, ClientTypes, HeardType, NothingBeforeOpen,
      RegistryAgrees, ServerAgrees, RecordsAgree, OwnersDiffer

\* The steps of WsConnection, but for the opening of a socket, make no socket
\* open, and its end is the only one that makes it none.
LEMMA OtherStepSockets ==
    ASSUME WsInv, OtherStep \/ Disconnect \/ (\E s \in Sockets : PeerCloses(s))
    PROVE  /\ alive' /\ HasOpenSocket' => alive /\ HasOpenSocket /\ ws' = ws
           /\ \A s \in Sockets : rs'[s] \notin {"OPEN", "CLOSING"} =>
                 rs[s] \notin {"OPEN", "CLOSING"}
<1> USE NamesAssumption
    DEF WsInv, TypeOK, ReadyState, HasOpenSocket, Live, HasLiveSocket
<1>1. CASE ConnectNoop \/ ConnectRefused
  BY <1>1 DEF ConnectNoop, ConnectRefused
<1>2. ASSUME NEW s \in Sockets, ConnectStarted(s)
      PROVE  /\ ~HasOpenSocket'
             /\ \A r \in Sockets : rs'[r] = rs[r] \/ rs[r] = "none"
  BY <1>2 DEF ConnectStarted, NewSocket
<1>3. ASSUME NEW s \in Sockets, LateOpenEvent(s)
      PROVE  /\ alive' /\ HasOpenSocket' => alive /\ HasOpenSocket /\ ws' = ws
             /\ \A r \in Sockets : rs'[r] = rs[r] \/ rs'[r] = "CLOSING"
  BY <1>3 DEF LateOpenEvent
<1>4. CASE EnableAuto \/ DisableAuto \/ \E m \in MaxChoices : SetMax(m)
  BY <1>4 DEF EnableAuto, DisableAuto, SetMax, browser
<1>5. CASE Free
  BY <1>5 DEF Free, inner, browser
<1>6. CASE Resume
  BY <1>6 DEF Resume, ArmFails, ReportFailure, ArmTimer, browser
<1>7. ASSUME NEW t \in Timers, TimerIgnored(t) \/ TimerRefused(t)
      PROVE  alive' = alive /\ ws' = ws /\ rs' = rs
  BY <1>7 DEF TimerIgnored, TimerRefused
<1>8. ASSUME NEW t \in Timers, NEW s \in Sockets, TimerReconnects(t, s)
      PROVE  /\ ~HasOpenSocket'
             /\ \A r \in Sockets : rs'[r] = rs[r] \/ rs[r] = "none"
  BY <1>8 DEF TimerReconnects, NewSocket
<1>9. CASE Disconnect
  <2>1. ~HasOpenSocket'
    BY <1>9 DEF Disconnect
  <2>2. \A s \in Sockets : rs'[s] = rs[s] \/ rs'[s] = Closed(rs[s])
    BY <1>9 DEF Disconnect, CloseCurrent
  <2> QED  BY <2>1, <2>2 DEF Closed
<1>10. ASSUME NEW s \in Sockets, PeerCloses(s)
       PROVE  /\ alive' /\ HasOpenSocket' => alive /\ HasOpenSocket /\ ws' = ws
              /\ \A r \in Sockets : rs'[r] = rs[r] \/ rs'[r] = "CLOSING"
  BY <1>10 DEF PeerCloses, inner
<1>11. CASE OtherStep
  BY <1>1, <1>2, <1>3, <1>4, <1>5, <1>6, <1>7, <1>8, <1>11 DEF OtherStep, TimerTask
<1> QED  BY <1>9, <1>10, <1>11

(***************************************************************************)
(* Every step keeps the client's invariant                                 *)
(***************************************************************************)
\* What the steps below preserve besides WsInv.
ClientRest ==
    /\ ClientTypes /\ NothingBeforeOpen /\ RegistryAgrees
    /\ ServerAgrees /\ RecordsAgree /\ OwnersDiffer

\* A step that leaves registry and server alone, and opens no socket.
LEMMA QuietStep ==
    ASSUME ClientInv, UNCHANGED <<registry, server, sendFailed>>,
           alive' /\ HasOpenSocket' => alive /\ HasOpenSocket /\ ws' = ws,
           \A s \in Sockets : rs'[s] \notin {"OPEN", "CLOSING"} =>
              rs[s] \notin {"OPEN", "CLOSING"}
    PROVE  ClientRest'
<1>1. \A s \in Sockets : Records(s)' = Records(s)
  BY DEF Records, server
<1>2. ws' \in Sockets => Records(ws)' = Records(ws')
  BY DEF Records, server
<1>3. ClientTypes' /\ NothingBeforeOpen' /\ RegistryAgrees'
  BY DEF ClientInv, ClientTypes, NothingBeforeOpen, RegistryAgrees, registry, server
<1>4. ServerAgrees'
  BY DEF ClientInv, ServerAgrees, registry, server
<1>5. RecordsAgree'
  <2> SUFFICES ASSUME alive', HasOpenSocket', ~sendFailed', NEW i \in Records(ws)'
               PROVE  /\ inbox'[ws'][i].topic \in Topics
                      /\ \/ topicCb'[inbox'[ws'][i].topic] = NoCallback
                         \/ inbox'[ws'][i].topic \in wanted'
    BY DEF RecordsAgree
  <2>1. /\ alive /\ HasOpenSocket /\ ws' = ws /\ ~sendFailed
        /\ inbox' = inbox /\ topicCb' = topicCb /\ wanted' = wanted
    BY DEF registry, server
  <2>2. i \in Records(ws)
    BY <2>1 DEF Records
  <2> QED  BY <2>1, <2>2 DEF ClientInv, RecordsAgree
<1>6. OwnersDiffer'
  BY <1>1 DEF ClientInv, OwnersDiffer, registry, server
<1> QED  BY <1>3, <1>4, <1>5, <1>6 DEF ClientRest

\* A call that changes the callback and the frame of one topic, and what the
\* server has been asked on the open socket, if there is one.
LEMMA SubscriptionStep ==
    ASSUME ClientInv, NEW t \in Topics, alive, owner = "StreamlineClient",
           NEW cb \in {t, NoCallback}, NEW topics \in SUBSET Topics,
           UNCHANGED <<vars, owner, onMessage, unanswered, inbox>>,
           topicCb' = [topicCb EXCEPT ![t] = cb],
           persistent' \subseteq Topics, persistent' \ {t} = persistent \ {t},
           t \in persistent' => cb = t,
           wanted' \subseteq persistent', sendFailed' \in BOOLEAN,
           ~sendFailed' => ~sendFailed /\ wanted' = persistent',
           IF HasOpenSocket
             THEN /\ asked' = [asked EXCEPT ![ws] = topics]
                  /\ ~sendFailed' => topics = persistent'
                  /\ cb = NoCallback \/ t \in wanted' \/ sendFailed'
             ELSE asked' = asked
    PROVE  ClientRest'
<1>1. rs' = rs /\ ws' = ws /\ alive' = alive
  BY DEF vars, inner, browser
<1>2. \A s \in Sockets : Records(s)' = Records(s)
  BY DEF Records
<1>3. HasOpenSocket' <=> HasOpenSocket
  BY <1>1 DEF HasOpenSocket
<1>4. HasOpenSocket => ws \in Sockets /\ rs[ws] = "OPEN"
  BY DEF HasOpenSocket, ClientInv, WsInv, TypeOK
<1>5. ClientTypes'
  <2>1. ClientTypes
    BY DEF ClientInv
  <2>2. asked' \in [Sockets -> SUBSET Topics]
    BY <1>4, <2>1 DEF ClientTypes
  <2>3. topicCb' \in [Topics -> Topics \union {NoCallback}]
    BY <2>1 DEF ClientTypes
  <2> QED  BY <2>1, <2>2, <2>3 DEF ClientTypes
<1>6. NothingBeforeOpen'
  <2>1. \A s \in Sockets : (s = ws /\ HasOpenSocket) \/ asked'[s] = asked[s]
    BY DEF ClientInv, ClientTypes
  <2> QED  BY <1>1, <1>4, <2>1 DEF ClientInv, NothingBeforeOpen
<1>7. RegistryAgrees'
  <2>1. \A u \in Topics : u # t => topicCb'[u] = topicCb[u]
    BY DEF ClientInv, ClientTypes
  <2> QED  BY <2>1 DEF ClientInv, RegistryAgrees, ClientTypes
<1>8. ServerAgrees'
  BY <1>1, <1>3, <1>4 DEF ClientInv, ClientTypes, ServerAgrees
<1>9. RecordsAgree'
  <2> SUFFICES ASSUME HasOpenSocket, ~sendFailed', NEW i \in Records(ws)
               PROVE  /\ inbox[ws][i].topic \in Topics
                      /\ \/ topicCb'[inbox[ws][i].topic] = NoCallback
                         \/ inbox[ws][i].topic \in wanted'
    BY <1>1, <1>2, <1>3, <1>4 DEF RecordsAgree
  <2> DEFINE u == inbox[ws][i].topic
  <2>1. u \in Topics /\ (topicCb[u] = NoCallback \/ u \in wanted)
    BY DEF ClientInv, RecordsAgree
  <2>2. wanted = persistent /\ wanted' = persistent'
    BY DEF ClientInv, RegistryAgrees
  <2>3. CASE u = t
    <3>1. topicCb'[t] = cb
      BY DEF ClientInv, ClientTypes
    <3>2. cb = NoCallback \/ t \in wanted'
      OBVIOUS
    <3> QED  BY <2>1, <2>3, <3>1, <3>2
  <2>4. CASE u # t
    <3>1. topicCb'[u] = topicCb[u]
      BY <2>1, <2>4 DEF ClientInv, ClientTypes
    <3>2. u \in persistent => u \in persistent'
      BY <2>4
    <3> QED  BY <2>1, <2>2, <3>1, <3>2
  <2> QED  BY <2>3, <2>4
<1>10. OwnersDiffer'
  BY DEF ClientInv, OwnersDiffer
<1> QED  BY <1>5, <1>6, <1>7, <1>8, <1>9, <1>10 DEF ClientRest

\* subscribe() finds the state registrable while a socket is open.
LEMMA SubscribeKeeps ==
    ASSUME ClientInv, NEW t \in Topics,
           SubscribeNotConnected(t) \/ SubscribeLater(t) \/ SubscribeNow(t)
    PROVE  ClientRest'
<1>1. /\ alive /\ owner = "StreamlineClient"
      /\ topicCb' = [topicCb EXCEPT ![t] = t]
  BY DEF SubscribeNotConnected, SubscribeLater, SubscribeNow, ClientCalls, MayCall,
         SetTopicCallback
<1>2. HasOpenSocket => Registrable
  BY <1>1 DEF ClientInv, WsInv, OpenIsConnected, HasOpenSocket, Registrable
<1>3. HasOpenSocket => ws \in Sockets
  BY DEF HasOpenSocket, ClientInv, WsInv, TypeOK
<1>4. /\ persistent \subseteq Topics /\ wanted \subseteq persistent /\ sendFailed \in BOOLEAN
      /\ ~sendFailed => wanted = persistent
      /\ HasOpenSocket /\ ~sendFailed => asked[ws] = persistent
      /\ HasOpenSocket => asked[ws] \subseteq Topics
      /\ asked = [s \in Sockets |-> asked[s]]
  BY <1>1, <1>3 DEF ClientInv, RegistryAgrees, ClientTypes, ServerAgrees
<1>5. \A u \in persistent : topicCb[u] = u
  BY DEF ClientInv, RegistryAgrees
<1>6. CASE SubscribeNotConnected(t)
  <2>1. /\ UNCHANGED <<vars, owner, onMessage, unanswered, inbox>>
        /\ UNCHANGED <<persistent, asked, wanted, sendFailed>>
        /\ ~HasOpenSocket
    BY <1>2, <1>6 DEF SubscribeNotConnected, server
  <2> QED  BY <1>1, <1>4, <2>1, SubscriptionStep
<1>7. CASE SubscribeLater(t)
  <2>1. /\ UNCHANGED <<vars, owner, onMessage, unanswered, inbox>>
        /\ UNCHANGED <<asked, sendFailed>>
        /\ ~HasOpenSocket /\ persistent' = persistent \union {t}
        /\ wanted' = wanted \union {t}
    BY <1>7 DEF SubscribeLater, server, Register
  <2> QED  BY <1>1, <1>4, <2>1, SubscriptionStep
<1>8. CASE SubscribeNow(t)
  <2>1. /\ UNCHANGED <<vars, owner, onMessage, unanswered, inbox>>
        /\ HasOpenSocket /\ persistent' = persistent \union {t}
    BY <1>8 DEF SubscribeNow, Register
  <2>2. CASE sendFailed' = TRUE /\ asked' = asked /\ wanted' = wanted
    <3>1. asked' = [asked EXCEPT ![ws] = asked[ws]]
      BY <1>4, <2>2
    <3> QED  BY <1>1, <1>4, <2>1, <2>2, <3>1, SubscriptionStep
  <2>3. CASE /\ asked' = [asked EXCEPT ![ws] = @ \union {t}]
             /\ wanted' = wanted \union {t}
             /\ sendFailed' = sendFailed
    <3> DEFINE topics == asked[ws] \union {t}
    <3>1. topics \in SUBSET Topics /\ (~sendFailed => topics = persistent')
      BY <1>4, <2>1
    <3>2. asked' = [asked EXCEPT ![ws] = topics]
      BY <2>3
    <3>3. /\ persistent' \subseteq Topics /\ persistent' \ {t} = persistent \ {t}
          /\ wanted' \subseteq persistent' /\ t \in wanted'
          /\ ~sendFailed => wanted' = persistent'
      BY <1>4, <2>1, <2>3
    <3> HIDE DEF topics
    <3> QED  BY <1>1, <1>4, <2>1, <2>3, <3>1, <3>2, <3>3, SubscriptionStep
  <2> QED  BY <1>8, <2>2, <2>3 DEF SubscribeNow
<1> QED  BY <1>6, <1>7, <1>8

\* unsubscribe() forgets the topic, whatever becomes of its frame.
LEMMA UnsubscribeKeeps ==
    ASSUME ClientInv, NEW t \in Topics, Unsubscribe(t)
    PROVE  ClientRest'
<1>1. /\ alive /\ owner = "StreamlineClient"
      /\ topicCb' = [topicCb EXCEPT ![t] = NoCallback]
      /\ persistent' = persistent \ {t} /\ wanted' = wanted \ {t}
      /\ UNCHANGED <<vars, owner, onMessage, unanswered, inbox>>
  BY DEF Unsubscribe, ClientCalls, MayCall, RemoveTopicCallback, RemovePersistent
<1>2. HasOpenSocket => ws \in Sockets
  BY DEF HasOpenSocket, ClientInv, WsInv, TypeOK
<1>3. /\ persistent \subseteq Topics /\ wanted \subseteq persistent /\ sendFailed \in BOOLEAN
      /\ ~sendFailed => wanted = persistent
      /\ HasOpenSocket /\ ~sendFailed => asked[ws] = persistent
      /\ HasOpenSocket => asked[ws] \subseteq Topics
      /\ asked = [s \in Sockets |-> asked[s]]
  BY <1>1, <1>2 DEF ClientInv, RegistryAgrees, ClientTypes, ServerAgrees
<1>4. /\ persistent' \subseteq Topics /\ persistent' \ {t} = persistent \ {t}
      /\ wanted' \subseteq persistent' /\ t \notin persistent'
      /\ ~sendFailed => wanted' = persistent'
  BY <1>1, <1>3
<1>5. CASE HasOpenSocket /\ asked' = [asked EXCEPT ![ws] = @ \ {t}] /\ sendFailed' = sendFailed
  <2> DEFINE topics == asked[ws] \ {t}
  <2>1. topics \in SUBSET Topics /\ (~sendFailed => topics = persistent')
    BY <1>1, <1>3, <1>5
  <2>2. asked' = [asked EXCEPT ![ws] = topics]
    BY <1>5
  <2> HIDE DEF topics
  <2> QED  BY <1>1, <1>3, <1>4, <1>5, <2>1, <2>2, SubscriptionStep
<1>6. CASE HasOpenSocket /\ sendFailed' = TRUE /\ asked' = asked
  <2>1. asked' = [asked EXCEPT ![ws] = asked[ws]]
    BY <1>3, <1>6
  <2> QED  BY <1>1, <1>3, <1>4, <1>6, <2>1, SubscriptionStep
<1>7. CASE ~HasOpenSocket /\ UNCHANGED <<asked, sendFailed>>
  BY <1>1, <1>3, <1>4, <1>7, SubscriptionStep
<1> QED  BY <1>5, <1>6, <1>7 DEF Unsubscribe

\* A frame joins or leaves what is in flight on an open socket: a record joins
\* only if its topic has been asked for there.
LEMMA InboxStep ==
    ASSUME ClientInv, NEW s \in Sockets, rs[s] = "OPEN",
           UNCHANGED <<vars, registry, asked, sendFailed>>,
           unanswered' \in [Sockets -> SUBSET BrowserRequest],
           NEW queue \in Seq(BrowserResponse), inbox' = [inbox EXCEPT ![s] = queue],
           \A i \in DOMAIN queue : queue[i].kind = "message" =>
              \/ \E j \in Records(s) : inbox[s][j] = queue[i]
              \/ queue[i].topic \in asked[s]
    PROVE  ClientRest'
<1>1. /\ rs' = rs /\ ws' = ws /\ alive' = alive
      /\ UNCHANGED <<owner, persistent, topicCb, onMessage, wanted, asked, sendFailed>>
  BY DEF vars, inner, browser, registry
<1>2. HasOpenSocket' <=> HasOpenSocket
  BY <1>1 DEF HasOpenSocket
<1>3. inbox \in [Sockets -> Seq(BrowserResponse)]
  BY DEF ClientInv, ClientTypes
<1>4. inbox' \in [Sockets -> Seq(BrowserResponse)]
  BY <1>3
<1>5. inbox'[s] = queue /\ \A r \in Sockets : r # s => inbox'[r] = inbox[r]
  BY <1>3
<1>6. \A r \in Sockets : r # s => Records(r)' = Records(r)
  BY <1>5 DEF Records
<1>7. ClientTypes'
  BY <1>1, <1>4 DEF ClientInv, ClientTypes
<1>8. NothingBeforeOpen'
  BY <1>1, <1>5 DEF ClientInv, NothingBeforeOpen
<1>9. RegistryAgrees' /\ ServerAgrees'
  BY <1>1, <1>2 DEF ClientInv, RegistryAgrees, ServerAgrees
<1>10. RecordsAgree'
  <2> SUFFICES ASSUME alive, HasOpenSocket, ~sendFailed,
                      NEW i \in DOMAIN inbox'[ws], inbox'[ws][i].kind = "message"
               PROVE  /\ inbox'[ws][i].topic \in Topics
                      /\ \/ topicCb[inbox'[ws][i].topic] = NoCallback
                         \/ inbox'[ws][i].topic \in wanted
    BY <1>1, <1>2 DEF RecordsAgree, Records
  <2>1. \A j \in Records(ws) :
           /\ inbox[ws][j].topic \in Topics
           /\ topicCb[inbox[ws][j].topic] = NoCallback \/ inbox[ws][j].topic \in wanted
    BY DEF ClientInv, RecordsAgree
  <2>2. ws \in Sockets
    BY DEF HasOpenSocket, ClientInv, WsInv, TypeOK
  <2>3. CASE ws # s
    <3>1. i \in Records(ws) /\ inbox'[ws][i] = inbox[ws][i]
      BY <1>5, <2>2, <2>3 DEF Records
    <3> QED  BY <2>1, <3>1
  <2>4. CASE ws = s /\ \E j \in Records(s) : inbox[s][j] = queue[i]
    BY <1>5, <2>1, <2>4
  <2>5. CASE ws = s /\ queue[i].topic \in asked[s]
    <3>1. asked[s] = wanted /\ wanted \subseteq Topics
      BY <2>5 DEF ClientInv, ServerAgrees, RegistryAgrees, ClientTypes
    <3> QED  BY <1>5, <2>5, <3>1
  <2> QED  BY <1>5, <2>3, <2>4, <2>5
<1>11. OwnersDiffer'
  <2>1. owner = "TopicAdmin" => Records(s)' = {}
    <3> SUFFICES ASSUME owner = "TopicAdmin", NEW i \in Records(s)'
                 PROVE  FALSE
      OBVIOUS
    <3>1. i \in DOMAIN queue /\ queue[i].kind = "message"
      BY <1>5 DEF Records
    <3>2. Records(s) = {} /\ asked[s] = {}
      BY DEF ClientInv, OwnersDiffer
    <3> QED  BY <3>1, <3>2
  <2> QED  BY <1>1, <1>6, <2>1 DEF ClientInv, OwnersDiffer
<1> QED  BY <1>7, <1>8, <1>9, <1>10, <1>11 DEF ClientRest

\* A request changes only what the server has yet to answer.
LEMMA SendKeeps ==
    ASSUME ClientInv, NEW request \in BrowserRequest, SendMessage(request)
    PROVE  ClientRest'
<1>1. ws \in Sockets /\ rs[ws] = "OPEN"
  BY DEF SendMessage, HasOpenSocket, ClientInv, WsInv, TypeOK
<1>2. UNCHANGED <<vars, registry, asked, sendFailed, inbox>>
  BY DEF SendMessage
<1>3. unanswered' \in [Sockets -> SUBSET BrowserRequest]
  BY <1>1 DEF SendMessage, ClientInv, ClientTypes
<1>4. inbox[ws] \in Seq(BrowserResponse) /\ inbox' = [inbox EXCEPT ![ws] = inbox[ws]]
  BY <1>1, <1>2 DEF ClientInv, ClientTypes
<1>5. \A i \in DOMAIN inbox[ws] : inbox[ws][i].kind = "message" => i \in Records(ws)
  BY DEF Records
<1> QED  BY <1>1, <1>2, <1>3, <1>4, <1>5, InboxStep

\* The broker sends a record of a topic it was asked for, or an answer.
LEMMA PushKeeps ==
    ASSUME ClientInv, NEW s \in Sockets, NEW frame \in BrowserResponse, Push(s, frame),
           frame.kind = "message" => frame.topic \in asked[s],
           unanswered' \in [Sockets -> SUBSET BrowserRequest]
    PROVE  ClientRest'
<1> DEFINE queue == Append(inbox[s], frame)
<1>1. inbox[s] \in Seq(BrowserResponse)
  BY DEF ClientInv, ClientTypes
<1>2. queue \in Seq(BrowserResponse)
  BY <1>1
<1>3. \A i \in DOMAIN queue :
         queue[i] = frame \/ (i \in DOMAIN inbox[s] /\ queue[i] = inbox[s][i])
  BY <1>1
<1>4. \A i \in DOMAIN queue : queue[i].kind = "message" =>
         \/ \E j \in Records(s) : inbox[s][j] = queue[i]
         \/ queue[i].topic \in asked[s]
  BY <1>3 DEF Records
<1>5. /\ rs[s] = "OPEN" /\ UNCHANGED <<vars, registry, asked, sendFailed>>
      /\ inbox' = [inbox EXCEPT ![s] = queue]
  BY DEF Push
<1> HIDE DEF queue
<1> QED  BY <1>2, <1>4, <1>5, InboxStep

\* No answer is a record.
LEMMA AnswersAreResponses ==
    ASSUME NEW request \in BrowserRequest, NEW answer \in AnswersTo(request),
           answer \in BrowserResponse
    PROVE  answer.kind # "message"
<1>1. request.op \in {"produce", "create_topic", "delete_topic", "list_topics"}
  BY DEF BrowserRequest, RequestOps
<1>2. CASE request.op = "produce"
  BY <1>2 DEF AnswersTo, Frame
<1>3. CASE request.op = "list_topics"
  BY <1>3 DEF AnswersTo, Frame
<1>4. CASE request.op \in {"create_topic", "delete_topic"}
  BY <1>4 DEF AnswersTo, Frame
<1> QED  BY <1>1, <1>2, <1>3, <1>4

\* onmessage takes the first frame off the socket.
LEMMA MessageKeeps ==
    ASSUME ClientInv, NEW s \in Sockets, Message(s)
    PROVE  ClientRest'
<1>1. /\ rs[s] = "OPEN" /\ inbox[s] # <<>>
      /\ UNCHANGED <<vars, registry, asked, unanswered, sendFailed>>
      /\ inbox' = [inbox EXCEPT ![s] = Tail(inbox[s])]
  BY DEF Message
<1>2. inbox[s] \in Seq(BrowserResponse)
  BY DEF ClientInv, ClientTypes
<1>3. Tail(inbox[s]) \in Seq(BrowserResponse)
  BY <1>1, <1>2
<1>4. \A i \in DOMAIN Tail(inbox[s]) :
         i + 1 \in DOMAIN inbox[s] /\ Tail(inbox[s])[i] = inbox[s][i + 1]
  BY <1>1, <1>2
<1>5. \A i \in DOMAIN Tail(inbox[s]) : Tail(inbox[s])[i].kind = "message" =>
         \E j \in Records(s) : inbox[s][j] = Tail(inbox[s])[i]
  BY <1>4 DEF Records
<1>6. unanswered' \in [Sockets -> SUBSET BrowserRequest]
  BY <1>1 DEF ClientInv, ClientTypes
<1> DEFINE queue == Tail(inbox[s])
<1>7. /\ queue \in Seq(BrowserResponse) /\ inbox' = [inbox EXCEPT ![s] = queue]
      /\ \A i \in DOMAIN queue : queue[i].kind = "message" =>
            \/ \E j \in Records(s) : inbox[s][j] = queue[i]
            \/ queue[i].topic \in asked[s]
  BY <1>1, <1>3, <1>5
<1> HIDE DEF queue
<1> QED  BY <1>1, <1>6, <1>7, InboxStep

\* on_response is a TopicAdmin's, which has no subscription.
LEMMA OnResponseKeeps ==
    ASSUME ClientInv, OnResponse
    PROVE  ClientRest'
<1>1. /\ rs' = rs /\ ws' = ws /\ alive' = alive /\ owner = "TopicAdmin" /\ onMessage' = Default
      /\ UNCHANGED <<owner, persistent, topicCb, wanted, asked, unanswered, inbox, sendFailed>>
  BY DEF OnResponse, vars, inner, browser, server
<1>2. \A s \in Sockets : Records(s)' = Records(s)
  BY <1>1 DEF Records
<1>3. ClientTypes' /\ NothingBeforeOpen' /\ RegistryAgrees' /\ OwnersDiffer'
  BY <1>1, <1>2
  DEF ClientInv, ClientTypes, NothingBeforeOpen, RegistryAgrees, OwnersDiffer
<1>4. ServerAgrees' /\ RecordsAgree'
  BY <1>1 DEF ClientInv, ServerAgrees, RecordsAgree, Records, HasOpenSocket
<1> QED  BY <1>3, <1>4 DEF ClientRest

\* disconnect() clears the registry, and no socket is left.
LEMMA DisconnectKeeps ==
    ASSUME ClientInv, ClientDisconnect
    PROVE  ClientRest'
<1>1. /\ persistent' = {} /\ topicCb' = [t \in Topics |-> NoCallback] /\ wanted' = {}
      /\ UNCHANGED <<owner, onMessage, asked, unanswered, inbox, sendFailed>>
  BY DEF ClientDisconnect, ClearOnDisconnect, server
<1>2. ~HasOpenSocket'
  BY DEF ClientDisconnect, Disconnect, HasOpenSocket
<1>3. \A s \in Sockets : rs'[s] \notin {"OPEN", "CLOSING"} => rs[s] \notin {"OPEN", "CLOSING"}
  BY OtherStepSockets DEF ClientDisconnect, ClientInv
<1>4. \A s \in Sockets : Records(s)' = Records(s)
  BY <1>1 DEF Records
<1>5. ClientTypes'
  BY <1>1 DEF ClientInv, ClientTypes
<1>6. NothingBeforeOpen'
  BY <1>1, <1>3 DEF ClientInv, NothingBeforeOpen
<1>7. RegistryAgrees' /\ ServerAgrees' /\ RecordsAgree'
  BY <1>1, <1>2 DEF RegistryAgrees, ServerAgrees, RecordsAgree
<1>8. OwnersDiffer'
  BY <1>1, <1>4 DEF ClientInv, OwnersDiffer
<1> QED  BY <1>5, <1>6, <1>7, <1>8 DEF ClientRest

\* A socket opens: it carried nothing, and the replay is all it is asked.
LEMMA OpensKeeps ==
    ASSUME ClientInv, NEW s \in Sockets, ClientOpens(s)
    PROVE  ClientRest'
<1>1. /\ ws' = ws /\ alive' = alive /\ rs[s] = "CONNECTING" /\ rs' = [rs EXCEPT ![s] = "OPEN"]
      /\ UNCHANGED <<owner, persistent, topicCb, onMessage, wanted, unanswered, inbox>>
  BY DEF ClientOpens, OpenEvent, registry
<1>2. rs \in [Sockets -> ReadyState] /\ ws \in Sockets \union {NoSocket}
  BY DEF ClientInv, WsInv, TypeOK
<1>3. rs'[s] = "OPEN" /\ \A r \in Sockets : r # s => rs'[r] = rs[r]
  BY <1>1, <1>2
<1>4. asked[s] = {} /\ inbox[s] = <<>>
  BY <1>1 DEF ClientInv, NothingBeforeOpen
<1>5. \A r \in Sockets : Records(r)' = Records(r)
  BY <1>1 DEF Records
<1>6. PICK topics \in SUBSET persistent :
         /\ asked' = [asked EXCEPT ![s] = topics]
         /\ sendFailed' \in BOOLEAN
         /\ ~sendFailed' => ~sendFailed
         /\ alive /\ ws = s /\ ~sendFailed' => topics = persistent
  <2>1. sendFailed \in BOOLEAN /\ asked = [r \in Sockets |-> asked[r]]
    BY DEF ClientInv, ClientTypes
  <2>2. CASE IsCurrent(s) /\ ~intentional
    <3>1. PICK sent \in SUBSET persistent :
             /\ asked' = [asked EXCEPT ![s] = @ \union sent]
             /\ sendFailed' = (sendFailed \/ sent # persistent)
      BY <2>2 DEF ClientOpens, Replay
    <3>2. asked' = [asked EXCEPT ![s] = sent]
      BY <1>4, <3>1
    <3> WITNESS sent \in SUBSET persistent
    <3> QED  BY <2>1, <3>1, <3>2
  <2>3. CASE ~(IsCurrent(s) /\ ~intentional)
    <3>1. asked' = asked /\ sendFailed' = sendFailed
      BY <2>3 DEF ClientOpens, Replay
    <3>2. ~(alive /\ ws = s)
      BY <2>3, NamesAssumption DEF IsCurrent, ClientInv, WsInv, DisconnectIsFinal
    <3>3. asked' = [asked EXCEPT ![s] = {}]
      BY <1>4, <2>1, <3>1
    <3> WITNESS {} \in SUBSET persistent
    <3> QED  BY <2>1, <3>1, <3>2, <3>3
  <2> QED  BY <2>2, <2>3
<1>7. asked'[s] = topics /\ \A r \in Sockets : r # s => asked'[r] = asked[r]
  BY <1>6 DEF ClientInv, ClientTypes
<1>8. ClientTypes'
  BY <1>1, <1>6 DEF ClientInv, ClientTypes
<1>9. NothingBeforeOpen'
  BY <1>1, <1>3, <1>7 DEF ClientInv, NothingBeforeOpen
<1>10. RegistryAgrees'
  BY <1>1, <1>6 DEF ClientInv, RegistryAgrees
<1>11. ServerAgrees'
  BY <1>1, <1>2, <1>3, <1>6, <1>7 DEF ClientInv, ServerAgrees, HasOpenSocket
<1>12. RecordsAgree'
  <2>1. CASE ws = s
    BY <1>1, <1>4, <2>1 DEF RecordsAgree, Records
  <2>2. CASE ws # s /\ HasOpenSocket'
    <3>1. HasOpenSocket
      BY <1>1, <1>2, <1>3, <2>2 DEF HasOpenSocket
    <3> QED  BY <1>1, <1>6, <3>1 DEF ClientInv, RecordsAgree, Records
  <2>3. CASE ~HasOpenSocket'
    BY <2>3 DEF RecordsAgree
  <2> QED  BY <2>1, <2>2, <2>3
<1>13. OwnersDiffer'
  BY <1>1, <1>5, <1>7 DEF ClientInv, OwnersDiffer
<1> QED  BY <1>8, <1>9, <1>10, <1>11, <1>12, <1>13 DEF ClientRest

\* A socket ends, with what was in flight on it.
LEMMA ClosesKeeps ==
    ASSUME ClientInv, NEW s \in Sockets, ClientCloses(s)
    PROVE  ClientRest'
<1>1. /\ rs' = [rs EXCEPT ![s] = "none"] /\ alive' = alive
      /\ asked' = [asked EXCEPT ![s] = {}] /\ inbox' = [inbox EXCEPT ![s] = <<>>]
      /\ unanswered' = [unanswered EXCEPT ![s] = {}]
      /\ UNCHANGED <<owner, persistent, topicCb, onMessage, wanted, sendFailed>>
  BY DEF ClientCloses, CloseEvent, registry
<1>2. ws' = ws \/ ws' = NoSocket
  BY DEF ClientCloses, CloseEvent, OnClose
<1>3. rs \in [Sockets -> ReadyState] /\ ws \in Sockets \union {NoSocket}
  BY DEF ClientInv, WsInv, TypeOK
<1>4. rs'[s] = "none" /\ \A r \in Sockets : r # s => rs'[r] = rs[r]
  BY <1>1, <1>3
<1>5. /\ asked'[s] = {} /\ inbox'[s] = <<>>
      /\ \A r \in Sockets : r # s => asked'[r] = asked[r] /\ inbox'[r] = inbox[r]
  BY <1>1 DEF ClientInv, ClientTypes
<1>6. HasOpenSocket' => HasOpenSocket /\ ws' = ws /\ ws # s /\ ws \in Sockets
  BY <1>2, <1>3, <1>4 DEF HasOpenSocket
<1>7. \A r \in Sockets : Records(r)' = IF r = s THEN {} ELSE Records(r)
  BY <1>5 DEF Records
<1>8. ClientTypes'
  BY <1>1 DEF ClientInv, ClientTypes
<1>9. NothingBeforeOpen'
  BY <1>4, <1>5 DEF ClientInv, NothingBeforeOpen
<1>10. RegistryAgrees'
  BY <1>1 DEF ClientInv, RegistryAgrees
<1>11. ServerAgrees'
  BY <1>1, <1>5, <1>6 DEF ClientInv, ServerAgrees
<1>12. RecordsAgree'
  <2> SUFFICES ASSUME alive, HasOpenSocket', ~sendFailed PROVE RecordsAgree'
    BY <1>1 DEF RecordsAgree
  <2>1. HasOpenSocket /\ ws' = ws /\ inbox'[ws] = inbox[ws]
    BY <1>5, <1>6
  <2> QED  BY <1>1, <2>1 DEF ClientInv, RecordsAgree, Records
<1>13. OwnersDiffer'
  BY <1>1, <1>5, <1>7 DEF ClientInv, OwnersDiffer
<1> QED  BY <1>8, <1>9, <1>10, <1>11, <1>12, <1>13 DEF ClientRest

(***************************************************************************)
(* What a callback hears                                                   *)
(***************************************************************************)
HeardInv ==
    /\ HeardType
    /\ RecordsReachTheirCallback
    /\ heard.callback \in Topics => heard.callback = heard.frame.topic

\* A task that calls no callback leaves nothing to check.
LEMMA SilenceIsFine ==
    ASSUME heard' = Silence
    PROVE  HeardInv'
<1>1. heard'.callback = NoCallback /\ heard'.frame.kind = "none"
  BY DEF Silence, Frame
<1>2. NoCallback \notin Topics
  BY ClientAssumption
<1> QED  BY <1>1, <1>2 DEF HeardInv, HeardType, RecordsReachTheirCallback

\* onmessage gives a frame that has a callback to that callback, and a record
\* always has one unless its topic was given up.
LEMMA MessageIsHeard ==
    ASSUME ClientInv, NEW s \in Sockets, Message(s)
    PROVE  HeardInv'
<1> DEFINE frame == Head(inbox[s])
           cb == CallbackFor(s, frame)
<1>1. /\ rs[s] = "OPEN" /\ inbox[s] # <<>>
      /\ heard' = IF cb = NoCallback THEN Silence ELSE [frame |-> frame, callback |-> cb]
      /\ UNCHANGED <<owner, wanted, topicCb, sendFailed>>
  BY DEF Message, registry
<1>2. CASE cb = NoCallback
  BY <1>1, <1>2, SilenceIsFine
<1>3. CASE cb # NoCallback
  <2>1. inbox[s] \in Seq(BrowserResponse)
    BY DEF ClientInv, ClientTypes
  <2>2. frame \in BrowserResponse /\ 1 \in DOMAIN inbox[s] /\ frame = inbox[s][1]
    BY <1>1, <2>1
  <2>3. heard' = [frame |-> frame, callback |-> cb]
    BY <1>1, <1>3
  <2>4. alive /\ ws = s
    BY <1>3 DEF CallbackFor, IsCurrent
  <2>5. HasOpenSocket
    BY <1>1, <2>4, NamesAssumption DEF HasOpenSocket
  <2>6. /\ \A t \in Topics : topicCb[t] \in {t, NoCallback}
        /\ onMessage \in {NoCallback, Default}
    BY DEF ClientInv, RegistryAgrees, ClientTypes
  <2>7. \/ frame.topic \in Topics /\ cb = frame.topic
        \/ /\ cb = Default /\ onMessage = Default
           /\ frame.topic \in Topics => topicCb[frame.topic] = NoCallback
    BY <1>3, <2>6 DEF CallbackFor
  <2>8. Default \notin Topics
    BY ClientAssumption
  <2> HIDE DEF frame, cb
  <2>9. HeardType'
    BY <2>2, <2>3, <2>7 DEF HeardType
  <2>10. heard'.callback \in Topics => heard'.callback = heard'.frame.topic
    BY <2>3, <2>7, <2>8
  <2>11. ASSUME frame.kind = "message", ~sendFailed
         PROVE  cb = frame.topic /\ frame.topic \in wanted
    <3>1. 1 \in Records(ws) /\ inbox[ws][1] = frame
      BY <2>2, <2>4, <2>11 DEF Records
    <3>2. /\ frame.topic \in Topics
          /\ topicCb[frame.topic] = NoCallback \/ frame.topic \in wanted
      BY <2>4, <2>5, <2>11, <3>1 DEF ClientInv, RecordsAgree
    <3>3. onMessage = NoCallback
      <4>1. owner \in {"StreamlineClient", "TopicAdmin"}
        BY ClientAssumption DEF ClientInv, ClientTypes
      <4>2. owner # "TopicAdmin"
        BY <2>4, <3>1 DEF ClientInv, OwnersDiffer
      <4> QED  BY <4>1, <4>2 DEF ClientInv, OwnersDiffer
    <3>4. cb = frame.topic
      BY <2>7, <3>3, ClientAssumption
    <3>5. topicCb[frame.topic] # NoCallback
      BY <1>3, <3>2, <3>3 DEF cb, CallbackFor
    <3> QED  BY <3>2, <3>4, <3>5
  <2>12. RecordsReachTheirCallback'
    BY <1>1, <2>3, <2>11 DEF RecordsReachTheirCallback
  <2> QED  BY <2>9, <2>10, <2>12 DEF HeardInv
<1> QED  BY <1>2, <1>3

(***************************************************************************)
(* The invariant                                                           *)
(***************************************************************************)
LEMMA CallKeeps ==
    ASSUME ClientInv, ClientCall
    PROVE  ClientRest'
<1>1. ASSUME NEW t \in Topics, Produce(t)
      PROVE  ClientRest'
  <2>1. [op |-> "produce", topic |-> t] \in BrowserRequest
    BY DEF BrowserRequest, RequestOps
  <2> QED  BY <1>1, <2>1, SendKeeps DEF Produce
<1>2. ASSUME NEW op \in RequestOps, AdminAction(op)
      PROVE  ClientRest'
  <2>1. [op |-> op, topic |-> NoTopic] \in BrowserRequest
    BY DEF BrowserRequest
  <2> QED  BY <1>2, <2>1, SendKeeps DEF AdminAction
<1> QED
  BY <1>1, <1>2, SubscribeKeeps, UnsubscribeKeeps, OnResponseKeeps, DisconnectKeeps
  DEF ClientCall

\* The browser's tasks but for onmessage.
LEMMA SocketTaskKeeps ==
    ASSUME ClientInv, SocketTask
    PROVE  ClientRest'
<1> PICK s \in Sockets : \/ ClientOpens(s)
                         \/ ClientPeerCloses(s)
                         \/ ClientCloses(s)
                         \/ \E t \in Topics : ServerSends(s, t)
                         \/ ServerAnswers(s)
  BY DEF SocketTask
<1>1. CASE ClientPeerCloses(s)
  <2>1. PeerCloses(s) /\ UNCHANGED <<registry, server, sendFailed>>
    BY <1>1 DEF ClientPeerCloses
  <2>2. WsInv
    BY DEF ClientInv
  <2>3. /\ alive' /\ HasOpenSocket' => alive /\ HasOpenSocket /\ ws' = ws
        /\ \A r \in Sockets : rs'[r] \notin {"OPEN", "CLOSING"} =>
              rs[r] \notin {"OPEN", "CLOSING"}
    BY <2>1, <2>2, OtherStepSockets
  <2> QED  BY <2>1, <2>3, QuietStep
<1>2. ASSUME NEW t \in Topics, ServerSends(s, t)
      PROVE  ClientRest'
  <2>1. /\ Frame("message", t) \in BrowserResponse
        /\ Frame("message", t).topic = t
    BY DEF BrowserResponse, Frame
  <2>2. t \in asked[s] /\ Push(s, Frame("message", t)) /\ unanswered' = unanswered
    BY <1>2 DEF ServerSends
  <2>3. unanswered' \in [Sockets -> SUBSET BrowserRequest]
    BY <2>2 DEF ClientInv, ClientTypes
  <2> QED  BY <2>1, <2>2, <2>3, PushKeeps
<1>3. CASE ServerAnswers(s)
  <2>1. PICK request \in unanswered[s], answer \in BrowserResponse :
           /\ answer \in AnswersTo(request)
           /\ Push(s, answer)
           /\ unanswered' = [unanswered EXCEPT ![s] = @ \ {request}]
    BY <1>3 DEF ServerAnswers
  <2>2. unanswered \in [Sockets -> SUBSET BrowserRequest]
    BY DEF ClientInv, ClientTypes
  <2>3. unanswered' \in [Sockets -> SUBSET BrowserRequest]
    BY <2>1, <2>2
  <2>4. request \in BrowserRequest
    BY <2>2
  <2>5. answer.kind # "message"
    BY <2>1, <2>4, AnswersAreResponses
  <2> QED  BY <2>1, <2>3, <2>5, PushKeeps
<1> QED  BY <1>1, <1>2, <1>3, OpensKeeps, ClosesKeeps

\* Every step keeps the invariant.
LEMMA ClientStep == ClientInv /\ HeardInv /\ [ClientNext]_clientVars => (ClientInv /\ HeardInv)'
<1> SUFFICES ASSUME ClientInv, HeardInv, [ClientNext]_clientVars
             PROVE  (ClientInv /\ HeardInv)'
  OBVIOUS
<1>1. WsInv'
  BY ClientStepIsWsStep, WsStep DEF ClientInv
<1>2. CASE (ClientCall \/ SocketTask \/ OtherStep) /\ heard' = Silence
  <2>1. CASE OtherStep
    <3>1. UNCHANGED <<registry, server, sendFailed>>
      BY <2>1 DEF OtherStep
    <3>2. WsInv
      BY DEF ClientInv
    <3>3. /\ alive' /\ HasOpenSocket' => alive /\ HasOpenSocket /\ ws' = ws
          /\ \A r \in Sockets : rs'[r] \notin {"OPEN", "CLOSING"} =>
                rs[r] \notin {"OPEN", "CLOSING"}
      BY <2>1, <3>2, OtherStepSockets
    <3> QED  BY <1>1, <1>2, <3>1, <3>3, QuietStep, SilenceIsFine DEF ClientInv, ClientRest
  <2> QED
    BY <1>1, <1>2, <2>1, CallKeeps, SocketTaskKeeps, SilenceIsFine DEF ClientInv, ClientRest
<1>3. ASSUME NEW s \in Sockets, Message(s)
      PROVE  (ClientInv /\ HeardInv)'
  BY <1>1, <1>3, MessageKeeps, MessageIsHeard DEF ClientInv, ClientRest
<1>4. CASE UNCHANGED clientVars
  <2>1. /\ UNCHANGED <<registry, server, sendFailed>> /\ heard' = heard /\ sendFailed' = sendFailed
        /\ rs' = rs /\ ws' = ws /\ alive' = alive /\ wanted' = wanted
    BY <1>4 DEF clientVars, vars, inner, browser, registry
  <2>2. ClientRest'
    BY <2>1, QuietStep DEF HasOpenSocket
  <2>3. HeardInv'
    BY <2>1 DEF HeardInv, HeardType, RecordsReachTheirCallback
  <2> QED  BY <1>1, <2>2, <2>3 DEF ClientInv, ClientRest
<1> QED  BY <1>2, <1>3, <1>4 DEF ClientNext

\* The first state has the invariant.
LEMMA ClientInitHears == ClientInit => ClientInv /\ HeardInv
<1> SUFFICES ASSUME ClientInit PROVE ClientInv /\ HeardInv
  OBVIOUS
<1>1. heard.callback = NoCallback /\ heard.frame.kind = "none"
  BY DEF ClientInit, Silence, Frame
<1> QED
  BY <1>1, ClientInitInv, ClientAssumption DEF HeardInv, RecordsReachTheirCallback

\* The registry, the server's side and the application's wishes agree in
\* every reachable state.
THEOREM ClientInvariant == ClientSpec => [](ClientInv /\ HeardInv)
  BY ClientInitHears, ClientStep, PTL DEF ClientSpec

\* Every variable keeps its type.
THEOREM ClientTypesAreRight == ClientSpec => []ClientTypeOK
<1>1. ClientInv /\ HeardInv => ClientTypeOK
  BY DEF ClientInv, HeardInv, HeardType, WsInv, ClientTypes, ClientTypeOK
<1> QED  BY <1>1, ClientInvariant, PTL

\* Whenever the client is connected the server has been asked, on that socket,
\* for every topic the application is subscribed to.
THEOREM NoneLost == ClientSpec => []NoLostSubscription
<1>1. ClientInv => NoLostSubscription
  BY DEF ClientInv, ServerAgrees, RegistryAgrees, NoLostSubscription
<1> QED  BY <1>1, ClientInvariant, PTL

\* And for no other.
THEOREM NoGhosts == ClientSpec => []NoGhostSubscription
<1>1. ClientInv => NoGhostSubscription
  BY DEF ClientInv, ServerAgrees, RegistryAgrees, NoGhostSubscription
<1> QED  BY <1>1, ClientInvariant, PTL

\* A record is given to its topic's callback, and only while it is wanted.
THEOREM RecordsToTheirCallback == ClientSpec => []RecordsReachTheirCallback
<1>1. HeardInv => RecordsReachTheirCallback
  BY DEF HeardInv
<1> QED  BY <1>1, ClientInvariant, PTL

\* Whatever send() does, a frame to be replayed has its callback, and no
\* topic's callback is called with another topic's frame.
THEOREM ReplayKeepsCallbacks == ClientSpec => []ReplayHasItsCallback
<1>1. ClientInv /\ HeardInv => ReplayHasItsCallback
  BY DEF ClientInv, HeardInv, RegistryAgrees, ReplayHasItsCallback
<1> QED  BY <1>1, ClientInvariant, PTL

(***************************************************************************)
(* An application that does not call connect() from on_state_change: what  *)
(* is proved of its connection alone, put together with the subscriptions. *)
(***************************************************************************)

\* The client keeps the safety part of the connection's contract.
THEOREM ClientKeepsContract ==
  ASSUME "connect" \notin CallbackApi
  PROVE  ClientSpec => Contract!CSafe
<1>1. Spec => Contract!CSafe
  BY Implements
<1> QED  BY <1>1, ClientIsAConnection, PTL

\* A client that is not Disconnected serves exactly the topics wanted, or will
\* replay every one of them on a socket that an event or a timeout is to bring.
\* (Nothing is said of which: that a subscription is served in the end is
\* SubscriptionResumes.)
ServedOrOnTheWay ==
    alive /\ phase = "idle" /\ state # "Disconnected" =>
        \/ HasOpenSocket /\ (~sendFailed => asked[ws] = wanted)
        \/ /\ wanted \subseteq persistent
           /\ \/ ws # NoSocket /\ rs[ws] \in {"CONNECTING", "CLOSING"}
              \/ ws = NoSocket /\ state = "Reconnecting" /\ timerId # NoTimer

\* No subscription is left behind on a connection that nothing will move on:
\* the state in which the code could forget one is not reached.
THEOREM NoneLeftBehind ==
  ASSUME "connect" \notin CallbackApi
  PROVE  ClientSpec => []ServedOrOnTheWay
<1>1. ClientInv /\ StateMatchesSocket => ServedOrOnTheWay
  <2> SUFFICES ASSUME ClientInv, StateMatchesSocket,
                      alive, phase = "idle", state # "Disconnected"
               PROVE  \/ HasOpenSocket /\ (~sendFailed => asked[ws] = wanted)
                      \/ /\ wanted \subseteq persistent
                         /\ \/ ws # NoSocket /\ rs[ws] \in {"CONNECTING", "CLOSING"}
                            \/ ws = NoSocket /\ state = "Reconnecting" /\ timerId # NoTimer
    BY DEF ServedOrOnTheWay
  <2>1. wanted \subseteq persistent /\ (~sendFailed => wanted = persistent)
    BY DEF ClientInv, RegistryAgrees
  <2>2. state \in {"Connecting", "Connected", "Reconnecting"}
    BY DEF ClientInv, WsInv, TypeOK, ConnectionState
  <2>3. CASE HasOpenSocket
    BY <2>1, <2>3 DEF ClientInv, ServerAgrees
  <2>4. CASE ~HasOpenSocket
    BY <2>1, <2>2, <2>4 DEF StateMatchesSocket, HasOpenSocket
  <2> QED  BY <2>3, <2>4
<1>2. Spec => []StateMatchesSocket
  BY Reported
<1> QED  BY <1>1, <1>2, ClientInvariant, ClientIsAConnection, PTL

=============================================================================
