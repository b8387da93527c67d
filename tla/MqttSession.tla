------------------------------- MODULE MqttSession -------------------------------
(***************************************************************************)
(* One MQTTSession of the vendored client and the broker it talks to: the  *)
(* connection, the QoS 2 handshake in both directions, the persistence     *)
(* with its window and its limit, retransmission, and the publish          *)
(* handlers.  A message is known by its id.  The session runs on one       *)
(* queue: a callback is one step.  The connection is a web socket, so      *)
(* packets arrive in order or, once it breaks, not at all.                 *)
(*                                                                         *)
(* The broker is external: it keeps to MQTT 3.1.1 and hands a message on   *)
(* when its PUBLISH arrives, the more demanding of the two ways to         *)
(* implement QoS 2.  The application publishes with QoS 2 only (MQTT.m:43),*)
(* so the other levels are left out: QoS 0 keeps no flow, while QoS 1 has  *)
(* one in the store, counted in the window, until its PUBACK.  DISCONNECT, *)
(* pings and subscriptions are left out too.                               *)
(***************************************************************************)
EXTENDS Integers, Sequences, FiniteSets

CONSTANTS
  MaxId,         \* bound: the last message id that is handed out
  InIds,         \* the ids of the messages the broker has for this client
  MaxWindow,     \* persistence.maxWindowSize
  MaxMessages,   \* persistence.maxMessages
  MaxConnects,   \* bound on the number of calls of connect
  MaxPackets     \* bound: no retransmission falls due while more are on the way

\* txMsgId starts at 1 and is incremented before its first use.
Ids == 2..MaxId

ASSUME SessionAssumption ==
  /\ MaxId \in Nat \ {0} /\ MaxId < 2^16
  /\ IsFiniteSet(InIds)
  /\ MaxWindow \in Nat \ {0} /\ MaxMessages \in Nat
  /\ MaxConnects \in Nat /\ MaxPackets \in Nat

VARIABLES
  clean,      \* cleanSessionFlag, set before the first connect
  status,     \* Error and Disconnecting end in Closed within one callback
  link,       \* the web socket; broken: no longer SR_OPEN, didClose not yet called
  connects,
  txMsgId,
  flow,       \* per outgoing message: commandType of its MQTTFlow, or free
  due,        \* the outgoing flows whose retransmission deadline has passed
  handler,    \* per outgoing message: what became of its publishHandler
  inFlow,     \* incoming messages stored until their PUBREL
  received,   \* per incoming message: calls of newMessage
  toBroker, toClient,   \* packets on the way
  bIn,        \* broker: ids whose PUBREL it awaits
  delivered,  \* broker: per outgoing message, how often it was handed on
  bOut        \* broker: per incoming message, its part of the handshake

clientVars == <<status, connects, txMsgId, flow, due, handler, inFlow, received>>
brokerVars == <<bIn, delivered, bOut>>
vars == <<clean, link, toBroker, toClient, clientVars, brokerVars>>

\* Packets by direction: each side answers about the other's messages.
ToBroker == [type : {"CONNECT"}, id : {0}] \union [type : {"PUBLISH", "PUBREL"}, id : Ids]
            \union [type : {"PUBREC", "PUBCOMP"}, id : InIds]
ToClient == [type : {"CONNACK", "REFUSED"}, id : {0}] \union [type : {"PUBREC", "PUBCOMP"}, id : Ids]
            \union [type : {"PUBLISH", "PUBREL"}, id : InIds]

TypeOK ==
  /\ clean \in BOOLEAN
  /\ status \in {"Created", "Connecting", "Connected", "Closed"}
  /\ link \in {"closed", "opening", "open", "broken"}
  /\ connects \in 0..MaxConnects
  /\ txMsgId \in 1..MaxId
  /\ flow \in [Ids -> {"free", "None", "Publish", "Pubrel"}]
  /\ due \subseteq Ids
  /\ handler \in [Ids -> {"unused", "pending", "delivered", "dropped", "forgotten"}]
  /\ inFlow \subseteq InIds
  /\ received \in [InIds -> Nat]
  /\ toBroker \in Seq(ToBroker) /\ toClient \in Seq(ToClient)
  /\ bIn \subseteq Ids
  /\ delivered \in [Ids -> Nat]
  /\ bOut \in [InIds -> {"new", "published", "released", "done", "lost"}]

Pkt(t, i) == [type |-> t, id |-> i]

Init ==
  /\ clean \in BOOLEAN
  /\ status = "Created" /\ link = "closed" /\ connects = 0
  /\ txMsgId = 1
  /\ flow = [i \in Ids |-> "free"] /\ due = {}
  /\ handler = [i \in Ids |-> "unused"]
  /\ inFlow = {} /\ received = [k \in InIds |-> 0]
  /\ toBroker = <<>> /\ toClient = <<>>
  /\ bIn = {} /\ delivered = [i \in Ids |-> 0]
  /\ bOut = [k \in InIds |-> "new"]

-----------------------------------------------------------------------------
(* The outgoing flows.                                                      *)

Stored == {i \in Ids : flow[i] # "free"}
Queued == {i \in Ids : flow[i] = "None"}
InFlight == Stored \ Queued
WindowSize == Cardinality(InFlight)

\* encode: the transport takes a packet only while its socket is open.
Send(p) == toBroker' = IF link = "open" THEN Append(toBroker, p) ELSE toBroker

\* Mutant: windowSize is not counted up while the flows are sent.
AdmittedUncounted == {i \in Queued : WindowSize <= MaxWindow}

\* The queued flows that checkTxFlows sends: it takes them in the order of
\* their deadlines, the times they were stored, as long as the window lets it.
Admitted == {i \in Queued : WindowSize + Cardinality({j \in Queued : j < i}) <= MaxWindow}

\* What one pass sends, and the orders it may do so in: by deadline, which
\* puts queued flows in the order of their ids and says nothing of the others.
Enumerations(S) ==
  {f \in [1..Cardinality(S) -> S] : \A m, n \in DOMAIN f : f[m] = f[n] => m = n}

Orders(S) ==
  {f \in Enumerations(S) : \A m, n \in DOMAIN f :
                              f[m] \in Queued /\ f[n] \in Queued /\ m < n => f[m] < f[n]}

\* Mutant: the PUBLISH is repeated although its PUBREC arrived.
AgainFromStart(i) == Pkt("PUBLISH", i)

Again(i) == Pkt(IF flow[i] = "Pubrel" THEN "PUBREL" ELSE "PUBLISH", i)

\* Mutant: no case for MQTTPubrel.
ToSendPublishOnly == {i \in Admitted \union due : flow[i] # "Pubrel"}

ToSend == Admitted \union due

CheckTxFlows ==
  IF link = "open"
    THEN /\ flow' = [i \in Ids |-> IF i \in Admitted THEN "Publish" ELSE flow[i]]
         /\ due' = due \ ToSend
         /\ \E f \in Orders(ToSend) : toBroker' = toBroker \o [n \in DOMAIN f |-> Again(f[n])]
    ELSE UNCHANGED <<flow, due, toBroker>>

\* checkDup, every second of a connected session.
CheckDup ==
  /\ status = "Connected"
  /\ ToSend # {}
  /\ CheckTxFlows
  /\ UNCHANGED <<clean, link, toClient, status, connects, txMsgId, handler, inFlow, received,
                 brokerVars>>

\* dupTimeout seconds have passed since the flow was last sent.
Timeout(i) ==
  /\ status = "Connected"
  /\ i \in InFlight \ due
  /\ Len(toBroker) + Len(toClient) < MaxPackets
  /\ due' = due \union {i}
  /\ UNCHANGED <<clean, link, toBroker, toClient, status, connects, txMsgId, flow, handler,
                 inFlow, received, brokerVars>>

\* Mutant: a message overtakes what is queued.
SendsAtOnceOvertaking == status = "Connected" /\ WindowSize <= MaxWindow

SendsAtOnce == status = "Connected" /\ Queued = {} /\ WindowSize <= MaxWindow

\* publishData with QoS 2: the store refuses a message over its limit; with nothing queued
\* and room in the window it is sent at once; otherwise, or when the transport
\* does not take it, it is queued.
Publish(i) ==
  LET refused == Cardinality(Stored) > MaxMessages
      sent == ~refused /\ SendsAtOnce /\ link = "open"
  IN /\ i = txMsgId + 1
     /\ txMsgId' = i
     /\ handler' = [handler EXCEPT ![i] = IF refused THEN "dropped" ELSE "pending"]
     /\ flow' = [flow EXCEPT ![i] = IF refused THEN @ ELSE IF sent THEN "Publish" ELSE "None"]
     /\ toBroker' = IF sent THEN Append(toBroker, Pkt("PUBLISH", i)) ELSE toBroker
     /\ UNCHANGED <<clean, link, toClient, status, connects, due, inFlow, received, brokerVars>>

\* decoder:didReceiveMessage hands the packet to its handler; in a state other
\* than Connecting and Connected there is no decoder to call it.
Receives(t, i) ==
  /\ toClient # <<>> /\ Head(toClient) = Pkt(t, i)
  /\ toClient' = Tail(toClient)
  /\ UNCHANGED <<clean, link, connects, txMsgId, brokerVars>>

\* handlePubrec: the PUBREL goes out whether or not there is such a flow.
HandlePubrec(i) ==
  /\ status = "Connected" /\ Receives("PUBREC", i)
  /\ flow' = [flow EXCEPT ![i] = IF @ = "Publish" THEN "Pubrel" ELSE @]
  /\ due' = IF flow[i] = "Publish" THEN due \ {i} ELSE due
  /\ Send(Pkt("PUBREL", i))
  /\ UNCHANGED <<status, handler, inFlow, received>>

HandlePubcomp(i) ==
  /\ status = "Connected" /\ Receives("PUBCOMP", i)
  /\ IF flow[i] = "Pubrel"
       THEN /\ flow' = [flow EXCEPT ![i] = "free"]
            /\ due' = due \ {i}
            /\ handler' = [handler EXCEPT ![i] = IF @ = "pending" THEN "delivered" ELSE @]
       ELSE UNCHANGED <<flow, due, handler>>
  /\ UNCHANGED <<status, toBroker, inFlow, received>>

-----------------------------------------------------------------------------
(* The incoming flows.                                                      *)

\* Mutant: a repeated PUBLISH is not taken.
StoreTakesOnce(k) == Cardinality(inFlow) <= MaxMessages /\ k \notin inFlow

\* The limit is tested before the store looks whether it holds the message.
StoreTakes(k) == Cardinality(inFlow) <= MaxMessages

\* handlePublish: a message over the limit is dropped without an answer.
HandlePublish(k) ==
  /\ status = "Connected" /\ Receives("PUBLISH", k)
  /\ IF StoreTakes(k)
       THEN inFlow' = inFlow \union {k} /\ Send(Pkt("PUBREC", k))
       ELSE UNCHANGED <<inFlow, toBroker>>
  /\ UNCHANGED <<status, flow, due, handler, received>>

\* Mutant: the delivered message stays stored.
DeletedNone(k) == inFlow

Deleted(k) == inFlow \ {k}

\* handlePubrel: without a stored message the PUBREL is not answered.
HandlePubrel(k) ==
  /\ status = "Connected" /\ Receives("PUBREL", k)
  /\ IF k \in inFlow
       THEN /\ received' = [received EXCEPT ![k] = @ + 1]
            /\ inFlow' = Deleted(k)
            /\ Send(Pkt("PUBCOMP", k))
       ELSE UNCHANGED <<received, inFlow, toBroker>>
  /\ UNCHANGED <<status, flow, due, handler>>

-----------------------------------------------------------------------------
(* The connection.                                                          *)

\* Mutant: the session stays in the state Error.
StatusAfterCloseError == "Error"

StatusAfterClose == "Closed"

\* closeInternal: every flow in flight is due at once after a reconnect; the
\* publish handlers stay.  What was sent may still reach the broker.
CloseInternal ==
  /\ status' = StatusAfterClose /\ link' = "closed"
  /\ toClient' = <<>>
  /\ due' = InFlight
  /\ UNCHANGED <<clean, toBroker, connects, txMsgId, flow, handler, inFlow, received>>

\* Mutant: a clean session forgets its flows but not its handlers.
HandlersKept == handler

HandlersForgotten ==
  [i \in Ids |-> IF handler[i] = "pending" THEN "forgotten" ELSE handler[i]]

\* connect: a clean session forgets its flows and its handlers.
Connect ==
  /\ status \in {"Created", "Closed"}
  /\ connects < MaxConnects
  /\ connects' = connects + 1
  /\ status' = "Connecting" /\ link' = "opening"
  /\ toBroker' = <<>>
  /\ IF clean
       THEN /\ flow' = [i \in Ids |-> "free"]
            /\ due' = {} /\ inFlow' = {}
            /\ handler' = HandlersForgotten
       ELSE UNCHANGED <<flow, due, inFlow, handler>>
  /\ UNCHANGED <<clean, toClient, txMsgId, received, brokerVars>>

\* mqttTransportDidOpen sends the CONNECT.
TransportDidOpen ==
  /\ link = "opening"
  /\ link' = "open"
  /\ toBroker' = <<Pkt("CONNECT", 0)>>
  /\ UNCHANGED <<clean, toClient, clientVars, brokerVars>>

\* The socket fails, or is closed by the broker; or a late close of the socket
\* before it is reported to the transport, which takes it for the present one.
Break ==
  /\ link = "open"
  /\ link' = "broken"
  /\ UNCHANGED <<clean, toBroker, toClient, clientVars, brokerVars>>

\* mqttTransportDidClose and didFailWithError, the second also while opening.
TransportDidClose ==
  /\ link \in {"opening", "broken"}
  /\ CloseInternal
  /\ UNCHANGED brokerVars

\* closeWithReturnCode, in whichever state.
Close ==
  /\ status \in {"Connecting", "Connected"}
  /\ CloseInternal
  /\ UNCHANGED brokerVars

\* The CONNACK: a session that is accepted looks at its flows at once.
HandleConnack ==
  /\ status = "Connecting" /\ Receives("CONNACK", 0)
  /\ status' = "Connected"
  /\ CheckTxFlows
  /\ UNCHANGED <<handler, inFlow, received>>

HandleRefusal ==
  /\ status = "Connecting"
  /\ toClient # <<>> /\ Head(toClient) = Pkt("REFUSED", 0)
  /\ CloseInternal
  /\ UNCHANGED brokerVars

Receive ==
  \/ HandleConnack \/ HandleRefusal
  \/ \E i \in Ids : HandlePubrec(i) \/ HandlePubcomp(i)
  \/ \E k \in InIds : HandlePublish(k) \/ HandlePubrel(k)

-----------------------------------------------------------------------------
(* The broker (external).                                                   *)

\* What the broker sends over a socket that is no longer open gets lost.
Reply(s) == toClient' = IF link = "open" THEN toClient \o s ELSE toClient

\* After a reconnect the broker repeats what is not yet acknowledged.
Unacknowledged == {k \in InIds : bOut[k] \in {"published", "released"}}

Repeated(f) ==
  [n \in DOMAIN f |-> Pkt(IF bOut[f[n]] = "released" THEN "PUBREL" ELSE "PUBLISH", f[n])]

Takes(t, i) ==
  /\ toBroker # <<>> /\ Head(toBroker) = Pkt(t, i)
  /\ toBroker' = Tail(toBroker)
  /\ UNCHANGED <<clean, clientVars>>

BrokerAccept ==
  /\ Takes("CONNECT", 0)
  /\ IF clean
       THEN /\ bIn' = {}
            /\ bOut' = [k \in InIds |-> IF k \in Unacknowledged THEN "lost" ELSE bOut[k]]
            /\ Reply(<<Pkt("CONNACK", 0)>>)
       ELSE /\ UNCHANGED <<bIn, bOut>>
            /\ \E f \in Enumerations(Unacknowledged) :
                 Reply(<<Pkt("CONNACK", 0)>> \o Repeated(f))
  /\ UNCHANGED <<link, delivered>>

BrokerRefuse ==
  /\ Takes("CONNECT", 0)
  /\ Reply(<<Pkt("REFUSED", 0)>>)
  /\ link' = IF link = "open" THEN "broken" ELSE link
  /\ UNCHANGED brokerVars

BrokerPublish(i) ==
  /\ Takes("PUBLISH", i)
  /\ bIn' = bIn \union {i}
  /\ delivered' = IF i \in bIn THEN delivered ELSE [delivered EXCEPT ![i] = @ + 1]
  /\ Reply(<<Pkt("PUBREC", i)>>)
  /\ UNCHANGED <<link, bOut>>

BrokerPubrel(i) ==
  /\ Takes("PUBREL", i)
  /\ bIn' = bIn \ {i}
  /\ Reply(<<Pkt("PUBCOMP", i)>>)
  /\ UNCHANGED <<link, delivered, bOut>>

BrokerPubrec(k) ==
  /\ Takes("PUBREC", k)
  /\ bOut' = [bOut EXCEPT ![k] = IF @ = "published" THEN "released" ELSE @]
  /\ Reply(<<Pkt("PUBREL", k)>>)
  /\ UNCHANGED <<link, bIn, delivered>>

BrokerPubcomp(k) ==
  /\ Takes("PUBCOMP", k)
  /\ bOut' = [bOut EXCEPT ![k] = IF @ = "released" THEN "done" ELSE @]
  /\ UNCHANGED <<link, toClient, bIn, delivered>>

BrokerReceive ==
  \/ BrokerAccept \/ BrokerRefuse
  \/ \E i \in Ids : BrokerPublish(i) \/ BrokerPubrel(i)
  \/ \E k \in InIds : BrokerPubrec(k) \/ BrokerPubcomp(k)

\* A message for one of the client's topics arrives at the broker.
BrokerForward(k) ==
  /\ link = "open" /\ Pkt("CONNECT", 0) \notin {toBroker[n] : n \in DOMAIN toBroker}
  /\ bOut[k] = "new"
  /\ bOut' = [bOut EXCEPT ![k] = "published"]
  /\ toClient' = Append(toClient, Pkt("PUBLISH", k))
  /\ UNCHANGED <<clean, link, toBroker, clientVars, bIn, delivered>>

-----------------------------------------------------------------------------
Next ==
  \/ Connect \/ TransportDidOpen \/ Break \/ TransportDidClose \/ Close
  \/ CheckDup \/ Receive
  \/ \E i \in Ids : Publish(i) \/ Timeout(i)
  \/ BrokerReceive
  \/ \E k \in InIds : BrokerForward(k)

Spec == Init /\ [][Next]_vars

\* The queue of the session serves what arrives and its timers, the clock runs,
\* a socket that fails is reported, and the broker answers.  Nobody has to
\* connect: the code never does so by itself.
FairSpec ==
  /\ Spec
  /\ WF_vars(Receive) /\ WF_vars(CheckDup) /\ WF_vars(TransportDidClose)
  /\ \A i \in Ids : WF_vars(Timeout(i))
  /\ WF_vars(BrokerReceive)

-----------------------------------------------------------------------------
(* Properties.                                                              *)

\* The window and the store are bounded whatever fails, retries and reconnects
\* do: by one more than configured, since both limits are tested with <=.
LimitsHold ==
  /\ WindowSize <= MaxWindow + 1
  /\ Cardinality(Stored) <= MaxMessages + 1
  /\ Cardinality(inFlow) <= MaxMessages + 1

\* publishData and checkTxFlows keep the order of publication: while a message
\* is queued, none that was published after it has been sent, even if sends
\* failed in between.
QueuedInOrder == \A i \in Queued, j \in InFlight : j < i

\* The table of publish handlers and the store agree: a handler waits exactly
\* for each stored message, over PUBCOMP, refusal, close and clean reconnects.
HandlersMatchFlows == \A i \in Ids : handler[i] = "pending" <=> i \in Stored

\* A publish handler that reports success speaks of a message that the broker
\* passed on, and the broker passed it on once, whatever was sent again.
Out == INSTANCE MqttDelivery WITH
         given <- {i \in Ids : handler[i] \notin {"unused", "dropped"}},
         count <- delivered,
         confirmed <- {i \in Ids : handler[i] = "delivered"}
OutDelivered == Out!Spec

\* A message of the broker reaches newMessage at most once, and the broker's
\* handshake ends only after it did.
In == INSTANCE MqttDelivery WITH
        Ids <- InIds,
        given <- {k \in InIds : bOut[k] # "new"},
        count <- received,
        confirmed <- {k \in InIds : bOut[k] = "done"}
InDelivered == In!Spec

\* While a connection lasts every handler that waits gets its answer: queued
\* messages leave the queue, and a handshake that a broken connection cut off
\* is taken up again.
Settles ==
  <>[](status = "Connected")
    => \A i \in Ids : handler[i] = "pending" ~> handler[i] # "pending"

\* If the store never fills up, then while a connection lasts every message the
\* broker began to send arrives, unless a clean session gave it up.  A full store
\* refuses even the repetition of a message it holds, and nothing then frees it.
Arrives ==
  /\ [](Cardinality(inFlow) <= MaxMessages)
  /\ <>[](status = "Connected")
  => \A k \in InIds : bOut[k] = "published" ~> (received[k] = 1 \/ bOut[k] = "lost")

\* maxWindowSize, "the number of messages sent before waiting for
\* acknowledgement" (MQTTSession.h:322), is never exceeded.
WindowRespected == WindowSize <= MaxWindow

=============================================================================
