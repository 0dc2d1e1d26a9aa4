-------------------------- MODULE StreamlineClient --------------------------
(***************************************************************************)
(* The owners of a WsConnection in src/lib.rs, StreamlineClient and        *)
(* TopicAdmin, and the frames they exchange with the broker                *)
(* (src/protocol.rs): subscriptions, with persistent_messages, the         *)
(* Subscribe frames to send again on every new socket, and                 *)
(* topic_callbacks, by which onmessage finds the callback of a frame's     *)
(* topic; requests, which are sent once and not again; and their answers.  *)
(* Every action of WsConnection is taken here together with what it does   *)
(* to these, so this module implements WsConnection by construction.       *)
(*                                                                         *)
(* Topics are valid topic names: a call with any other returns before it   *)
(* changes anything.  A topic's callback stands for that topic.  The order *)
(* of persistent_messages does not show: a replay that stops at a failed   *)
(* send has sent some of them.                                             *)
(***************************************************************************)
EXTENDS WsConnection, Sequences

CONSTANTS
    Topics,
    NoTopic,       \* of a frame that has no topic field
    NoCallback,
    Default,       \* the callback in on_message
    Owners,        \* whose connection it may be
    Requests,      \* the requests the application makes of each
    Backlog        \* bound on the frames in flight to the client on one socket

RequestOps == {"produce", "create_topic", "delete_topic", "list_topics"}

ASSUME ClientAssumption ==
    /\ {NoTopic, NoCallback, Default} \intersect Topics = {}
    /\ NoCallback # Default
    /\ Owners \subseteq {"StreamlineClient", "TopicAdmin"}
    /\ Requests \in [Owners -> SUBSET RequestOps]
    /\ Backlog \in Nat

VARIABLES
    owner,
    persistent,    \* topics whose Subscribe frame is in persistent_messages
    topicCb,       \* topic_callbacks
    onMessage,     \* on_message
    asked,         \* server: topics subscribed on each socket
    unanswered,    \* server: requests received on each socket
    inbox,         \* frames on their way to the client on each socket
    heard,         \* history: the callback the last task called, with its frame
    sendFailed,    \* history: send() has thrown on an open socket
    wanted         \* history: topics whose subscribe() returned Ok, since then
                   \* neither unsubscribed nor disconnected

registry == <<owner, persistent, topicCb, onMessage, wanted>>
server   == <<asked, unanswered, inbox>>
clientVars == <<vars, registry, server, heard, sendFailed>>

\* BrowserResponse, what the client tells apart of it.
Frame(kind, topic) == [kind |-> kind, topic |-> topic]
BrowserResponse ==
    {Frame("message", t) : t \in Topics}
        \union {Frame("ack", t) : t \in Topics \union {NoTopic}}
        \union {Frame("topic_list", NoTopic), Frame("error", NoTopic)}

\* The BrowserMessages that ask for an answer, and the answers they may get.
BrowserRequest == [op : RequestOps, topic : Topics \union {NoTopic}]
AnswersTo(request) ==
    {Frame("error", NoTopic)} \union
    CASE request.op = "produce" -> {Frame("ack", request.topic), Frame("ack", NoTopic)}
      [] request.op = "list_topics" -> {Frame("topic_list", NoTopic)}
      [] request.op \in {"create_topic", "delete_topic"} -> {Frame("ack", NoTopic)}

Silence == [frame |-> Frame("none", NoTopic), callback |-> NoCallback]

HasOpenSocket == ws # NoSocket /\ rs[ws] = "OPEN"

(***************************************************************************)
(* The registry of src/websocket.rs                                        *)
(***************************************************************************)
SetTopicCallbackShared(t) == topicCb' = [u \in Topics |-> t]
SetTopicCallback(t) == topicCb' = [topicCb EXCEPT ![t] = t]

RemoveTopicCallbackForgotten(t) == UNCHANGED topicCb
RemoveTopicCallback(t) == topicCb' = [topicCb EXCEPT ![t] = NoCallback]

\* send_persistent_when_ready registers the frame in these states only.
Registrable ==
    state \in {"Connecting", "Reconnecting"} \/ (state = "Connected" /\ HasOpenSocket)

RegisterOnlyWhenConnected(t) ==
    persistent' = IF state = "Connected" THEN persistent \union {t} ELSE persistent
Register(t) == persistent' = persistent \union {t}

RemovePersistent(t) == persistent' = persistent \ {t}

\* What reaches the server of the frames sent on socket s at its opening.
ReplayNothing(s) == UNCHANGED <<asked, sendFailed>>
Replay(s) ==
    IF IsCurrent(s) /\ ~intentional
      THEN \E sent \in SUBSET persistent :
              /\ asked' = [asked EXCEPT ![s] = @ \union sent]
              /\ sendFailed' = (sendFailed \/ sent # persistent)
      ELSE UNCHANGED <<asked, sendFailed>>

(***************************************************************************)
(* subscribe and unsubscribe                                               *)
(***************************************************************************)
ClientCalls(op) == owner = "StreamlineClient" /\ MayCall(op)

\* The callback is registered first, whatever becomes of the frame.
SubscribeNotConnected(t) ==
    /\ ClientCalls("subscribe")
    /\ SetTopicCallback(t)
    /\ ~Registrable
    /\ UNCHANGED <<vars, owner, persistent, onMessage, server, wanted, sendFailed>>

SubscribeLater(t) ==                    \* the frame goes out when the socket opens
    /\ ClientCalls("subscribe")
    /\ SetTopicCallback(t)
    /\ Registrable /\ ~HasOpenSocket
    /\ Register(t)
    /\ wanted' = wanted \union {t}
    /\ UNCHANGED <<vars, owner, onMessage, server, sendFailed>>

SubscribeNow(t) ==
    /\ ClientCalls("subscribe")
    /\ SetTopicCallback(t)
    /\ Registrable /\ HasOpenSocket
    /\ Register(t)
    /\ \/ /\ asked' = [asked EXCEPT ![ws] = @ \union {t}]
          /\ wanted' = wanted \union {t}
          /\ UNCHANGED sendFailed
       \/ /\ sendFailed' = TRUE                         \* returns the error
          /\ UNCHANGED <<asked, wanted>>
    /\ UNCHANGED <<vars, owner, onMessage, unanswered, inbox>>

\* Without an open socket, or if send() throws, the call returns an error
\* after the registry has forgotten the topic.
Unsubscribe(t) ==
    /\ ClientCalls("unsubscribe")
    /\ RemoveTopicCallback(t)
    /\ RemovePersistent(t)
    /\ wanted' = wanted \ {t}
    /\ \/ /\ HasOpenSocket
          /\ asked' = [asked EXCEPT ![ws] = @ \ {t}]
          /\ UNCHANGED sendFailed
       \/ /\ HasOpenSocket
          /\ sendFailed' = TRUE
          /\ UNCHANGED asked
       \/ ~HasOpenSocket /\ UNCHANGED <<asked, sendFailed>>
    /\ UNCHANGED <<vars, owner, onMessage, unanswered, inbox>>

(***************************************************************************)
(* Requests.  They are sent on the open socket or refused, which changes   *)
(* nothing; nothing keeps them for the next socket.                        *)
(***************************************************************************)
SendMessage(request) ==
    /\ HasOpenSocket
    /\ unanswered' = [unanswered EXCEPT ![ws] = @ \union {request}]
    /\ UNCHANGED <<vars, registry, asked, inbox, sendFailed>>

\* Also produce_with_key.
Produce(t) ==
    /\ ClientCalls("produce")
    /\ "produce" \in Requests[owner]
    /\ SendMessage([op |-> "produce", topic |-> t])

\* create_topic, delete_topic and list_topics, of either owner.
AdminAction(op) ==
    /\ MayCall(op)
    /\ op \in Requests[owner]
    /\ SendMessage([op |-> op, topic |-> NoTopic])

\* TopicAdmin::on_response; a StreamlineClient sets no on_message.
OnResponse ==
    /\ owner = "TopicAdmin"
    /\ MayCall("on_response")
    /\ onMessage' = Default
    /\ UNCHANGED <<vars, owner, persistent, topicCb, wanted, server, sendFailed>>

(***************************************************************************)
(* The connection's own steps                                              *)
(***************************************************************************)
ClearOnDisconnectForgotten ==
    persistent' = persistent /\ topicCb' = [t \in Topics |-> NoCallback]
ClearOnDisconnect ==
    persistent' = {} /\ topicCb' = [t \in Topics |-> NoCallback]

ClientDisconnect ==
    /\ Disconnect
    /\ ClearOnDisconnect
    /\ wanted' = {}
    /\ UNCHANGED <<owner, onMessage, server, sendFailed>>

ClientOpens(s) ==
    /\ OpenEvent(s)
    /\ Replay(s)
    /\ UNCHANGED <<registry, unanswered, inbox>>

\* The close frame comes after the frames sent before it.
ClientPeerCloses(s) ==
    /\ PeerCloses(s)
    /\ inbox[s] = <<>>
    /\ UNCHANGED <<registry, server, sendFailed>>

ClientCloses(s) ==
    /\ CloseEvent(s)
    /\ asked' = [asked EXCEPT ![s] = {}]
    /\ unanswered' = [unanswered EXCEPT ![s] = {}]
    /\ inbox' = [inbox EXCEPT ![s] = <<>>]
    /\ UNCHANGED <<registry, sendFailed>>

\* A TopicAdmin does not offer the two setters.
OtherStep ==
    /\ \/ ConnectNoop \/ ConnectRefused
       \/ \E s \in Sockets : ConnectStarted(s) \/ LateOpenEvent(s)
       \/ /\ owner = "StreamlineClient"
          /\ EnableAuto \/ DisableAuto \/ \E m \in MaxChoices : SetMax(m)
       \/ Free \/ Resume
       \/ \E t \in Timers : TimerTask(t)
    /\ UNCHANGED <<registry, server, sendFailed>>

(***************************************************************************)
(* Frames from the broker                                                  *)
(***************************************************************************)
Push(s, frame) ==
    /\ phase = "idle"
    /\ rs[s] = "OPEN"
    /\ Len(inbox[s]) < Backlog
    /\ inbox' = [inbox EXCEPT ![s] = Append(@, frame)]
    /\ UNCHANGED <<vars, registry, asked, sendFailed>>

ServerSends(s, t) ==
    /\ t \in asked[s]
    /\ Push(s, Frame("message", t))
    /\ UNCHANGED unanswered

ServerAnswers(s) ==
    \E request \in unanswered[s], answer \in BrowserResponse :
        /\ answer \in AnswersTo(request)
        /\ Push(s, answer)
        /\ unanswered' = [unanswered EXCEPT ![s] = @ \ {request}]

\* Where onmessage takes a frame: the callback of its topic if it has one, be
\* it a record or not, and on_message otherwise.
TopicCallbackOnly(s, frame) ==
    IF IsCurrent(s) /\ frame.topic \in Topics THEN topicCb[frame.topic] ELSE NoCallback
CallbackFor(s, frame) ==
    IF ~IsCurrent(s) THEN NoCallback
    ELSE IF frame.topic \in Topics /\ topicCb[frame.topic] # NoCallback
      THEN topicCb[frame.topic]
    ELSE onMessage

Message(s) ==
    /\ phase = "idle"
    /\ rs[s] = "OPEN"
    /\ inbox[s] # <<>>
    /\ LET frame == Head(inbox[s]) IN
         heard' = IF CallbackFor(s, frame) = NoCallback THEN Silence
                  ELSE [frame |-> frame, callback |-> CallbackFor(s, frame)]
    /\ inbox' = [inbox EXCEPT ![s] = Tail(@)]
    /\ UNCHANGED <<vars, registry, asked, unanswered, sendFailed>>

(***************************************************************************)
(* The specification                                                       *)
(***************************************************************************)
ClientInit ==
    /\ Init
    /\ owner \in Owners
    /\ onMessage = NoCallback
    /\ unanswered = [s \in Sockets |-> {}]
    /\ persistent = {}
    /\ topicCb = [t \in Topics |-> NoCallback]
    /\ asked = [s \in Sockets |-> {}]
    /\ inbox = [s \in Sockets |-> <<>>]
    /\ heard = Silence
    /\ wanted = {}
    /\ sendFailed = FALSE

ClientCall ==
    \/ \E t \in Topics : \/ SubscribeNotConnected(t)
                         \/ SubscribeLater(t)
                         \/ SubscribeNow(t)
                         \/ Unsubscribe(t)
                         \/ Produce(t)
    \/ \E op \in RequestOps \ {"produce"} : AdminAction(op)
    \/ OnResponse
    \/ ClientDisconnect

SocketTask ==
    \E s \in Sockets : \/ ClientOpens(s)
                       \/ ClientPeerCloses(s)
                       \/ ClientCloses(s)
                       \/ \E t \in Topics : ServerSends(s, t)
                       \/ ServerAnswers(s)

ClientNext ==
    \/ (ClientCall \/ SocketTask \/ OtherStep) /\ heard' = Silence
    \/ \E s \in Sockets : Message(s)

ClientSpec == ClientInit /\ [][ClientNext]_clientVars

\* The browser delivers the frames of a socket that stays open.  That the
\* broker answers is an assumption about the broker.
Delivery == \A s \in Sockets : WF_clientVars(Message(s))
BrokerAnswers == \A s \in Sockets : WF_clientVars(ServerAnswers(s) /\ heard' = Silence)

ClientFairSpec == ClientSpec /\ Fairness /\ Delivery /\ BrokerAnswers

(***************************************************************************)
(* Properties                                                              *)
(***************************************************************************)
\* The type of the registry and of what is in flight.
ClientTypeOK ==
    /\ TypeOK
    /\ owner \in Owners
    /\ persistent \subseteq Topics
    /\ topicCb \in [Topics -> Topics \union {NoCallback}]
    /\ onMessage \in {NoCallback, Default}
    /\ asked \in [Sockets -> SUBSET Topics]
    /\ unanswered \in [Sockets -> SUBSET BrowserRequest]
    /\ inbox \in [Sockets -> Seq(BrowserResponse)]
    /\ heard \in [frame : BrowserResponse,
                  callback : Topics \union {Default}] \union {Silence}
    /\ wanted \subseteq Topics
    /\ sendFailed \in BOOLEAN

\* Whenever the client is connected, the server has been asked, on this very
\* socket, for every topic the application is subscribed to: through drops,
\* retries, subscribe() before or during a reconnect, and disconnect()
\* (CHANGELOG.md: reconnection replays active subscriptions on the new socket).
\* A send() that throws on an open socket, which no browser does for a text
\* frame, is the exception: the code logs it and goes on.
NoLostSubscription ==
    alive /\ HasOpenSocket /\ ~sendFailed => wanted \subseteq asked[ws]

\* Conversely the server is asked for nothing the application has given up:
\* an unsubscribe() made while the socket was down is not undone by a replay.
NoGhostSubscription ==
    alive /\ HasOpenSocket /\ ~sendFailed => asked[ws] \subseteq wanted

\* A record is only ever given to the callback of its topic, and only while the
\* application is subscribed to it: not if it was in flight when unsubscribe()
\* or disconnect() was called (README.md: each topic keeps its own callback).
\* An acknowledgement that names its topic is given to that callback as well,
\* even to one left by a subscribe() that failed.
RecordsReachTheirCallback ==
    heard.frame.kind = "message" /\ ~sendFailed =>
        heard.callback = heard.frame.topic /\ heard.frame.topic \in wanted

\* Whatever send() does: a frame that will be replayed always has a callback to
\* deliver to, and a topic's callback never gets a frame of another topic.
ReplayHasItsCallback ==
    /\ \A t \in persistent : topicCb[t] = t
    /\ heard.callback \in Topics => heard.callback = heard.frame.topic

\* Once a TopicAdmin has its response callback, every request the broker has
\* received is followed by a call of it, with an answer, or by the end of the
\* socket the request was sent on (lib.rs:733: "a callback that receives admin
\* responses"); TopicAdmin's requests carry no topic the answer could be told
\* by.  A StreamlineClient has no such callback, and hears no answer that has
\* no topic.
RequestAnswered ==
    \A s \in Sockets :
        onMessage = Default /\ unanswered[s] # {} ~>
            heard.callback = Default \/ rs[s] # "OPEN" \/ ~alive

\* A topic the application is subscribed to is served again, or the connection
\* says that it is Disconnected.  With max_reconnect_attempts = 0, which is "no
\* limit", it is not so: a connection that cannot be made is retried for ever.
SubscriptionResumes ==
    \A t \in Topics :
        alive /\ t \in wanted /\ state # "Disconnected" /\ maxAttempts # 0 ~>
            \/ ~alive \/ t \notin wanted \/ state = "Disconnected" \/ sendFailed
            \/ maxAttempts = 0
            \/ HasOpenSocket /\ t \in asked[ws]

=============================================================================
