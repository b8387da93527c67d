--------------------------- MODULE MqttSession_proofs ---------------------------
(***************************************************************************)
(* Proofs about MqttSession: its types, the bounds and the order of its    *)
(* outgoing flows, and that both directions deliver as MqttDelivery says,  *)
(* for every number of messages, window, limit and number of reconnects.   *)
(***************************************************************************)
EXTENDS MqttSession, TLAPS, FiniteSetTheorems

-----------------------------------------------------------------------------
(* Sequences of packets.                                                    *)

Has(q, x) == \E n \in DOMAIN q : q[n] = x

\* An a stands somewhere ahead of a b.
Before(q, a, b) == \E m, n \in DOMAIN q : m < n /\ q[m] = a /\ q[n] = b

\* What a packet at the end adds.
LEMMA Appended ==
  ASSUME NEW S, NEW q \in Seq(S), NEW p \in S
  PROVE  /\ Append(q, p) \in Seq(S)
         /\ \A x : Has(Append(q, p), x) <=> Has(q, x) \/ x = p
         /\ \A a, b : Before(Append(q, p), a, b) => Before(q, a, b) \/ (b = p /\ Has(q, a))
<1>1. /\ Append(q, p) \in Seq(S) /\ Len(q) \in Nat
      /\ DOMAIN q = 1..Len(q)
      /\ DOMAIN Append(q, p) = 1..(Len(q) + 1)
      /\ \A n \in 1..Len(q) : Append(q, p)[n] = q[n]
      /\ Append(q, p)[Len(q) + 1] = p
  OBVIOUS
<1>2. \A n \in 1..(Len(q) + 1) : n \in 1..Len(q) \/ n = Len(q) + 1
  BY <1>1
<1>3. ASSUME NEW x
      PROVE  Has(Append(q, p), x) <=> Has(q, x) \/ x = p
  BY <1>1, <1>2 DEF Has
<1>4. ASSUME NEW a, NEW b, Before(Append(q, p), a, b)
      PROVE  Before(q, a, b) \/ (b = p /\ Has(q, a))
  <2>1. PICK m \in 1..(Len(q) + 1), n \in 1..(Len(q) + 1) :
          m < n /\ Append(q, p)[m] = a /\ Append(q, p)[n] = b
    BY <1>1, <1>4 DEF Before
  <2>2. m \in 1..Len(q) /\ q[m] = a
    BY <1>1, <2>1
  <2>3. CASE n \in 1..Len(q)
    BY <1>1, <2>1, <2>2, <2>3 DEF Before
  <2>4. CASE n = Len(q) + 1
    BY <1>1, <2>1, <2>2, <2>4 DEF Has
  <2> QED
    BY <1>2, <2>3, <2>4
<1> QED
  BY <1>1, <1>3, <1>4

\* What several packets at the end add.
LEMMA Joined ==
  ASSUME NEW S, NEW q \in Seq(S), NEW s \in Seq(S)
  PROVE  /\ q \o s \in Seq(S)
         /\ \A x : Has(q \o s, x) <=> Has(q, x) \/ Has(s, x)
         /\ \A a, b : Before(q \o s, a, b)
                        => Before(q, a, b) \/ Before(s, a, b) \/ (Has(q, a) /\ Has(s, b))
<1>1. /\ q \o s \in Seq(S) /\ Len(q) \in Nat /\ Len(s) \in Nat
      /\ DOMAIN q = 1..Len(q) /\ DOMAIN s = 1..Len(s)
      /\ DOMAIN (q \o s) = 1..(Len(q) + Len(s))
      /\ \A n \in 1..Len(q) : (q \o s)[n] = q[n]
      /\ \A n \in 1..Len(s) : (q \o s)[Len(q) + n] = s[n]
  OBVIOUS
<1>2. ASSUME NEW n \in 1..(Len(q) + Len(s)), n \notin 1..Len(q)
      PROVE  n - Len(q) \in 1..Len(s) /\ n = Len(q) + (n - Len(q))
  BY <1>1, <1>2
<1>3. \A n \in 1..Len(s) : Len(q) + n \in 1..(Len(q) + Len(s))
  BY <1>1
<1>4. \A n \in 1..Len(q) : n \in 1..(Len(q) + Len(s))
  BY <1>1
<1>5. ASSUME NEW x
      PROVE  Has(q \o s, x) <=> Has(q, x) \/ Has(s, x)
  <2>1. ASSUME Has(q \o s, x) PROVE Has(q, x) \/ Has(s, x)
    BY <1>1, <1>2, <2>1 DEF Has
  <2>2. ASSUME Has(q, x) PROVE Has(q \o s, x)
    BY <1>1, <1>4, <2>2 DEF Has
  <2>3. ASSUME Has(s, x) PROVE Has(q \o s, x)
    BY <1>1, <1>3, <2>3 DEF Has
  <2> QED
    BY <2>1, <2>2, <2>3
<1>6. ASSUME NEW a, NEW b, Before(q \o s, a, b)
      PROVE  Before(q, a, b) \/ Before(s, a, b) \/ (Has(q, a) /\ Has(s, b))
  <2>1. PICK m \in 1..(Len(q) + Len(s)), n \in 1..(Len(q) + Len(s)) :
          m < n /\ (q \o s)[m] = a /\ (q \o s)[n] = b
    BY <1>1, <1>6 DEF Before
  <2>2. CASE n \in 1..Len(q)
    <3>1. m \in 1..Len(q)
      BY <1>1, <2>1, <2>2
    <3> QED
      BY <1>1, <2>1, <2>2, <3>1 DEF Before
  <2>3. CASE n \notin 1..Len(q) /\ m \in 1..Len(q)
    <3>1. Has(q, a)
      BY <1>1, <2>1, <2>3 DEF Has
    <3>2. Has(s, b)
      BY <1>1, <1>2, <2>1, <2>3 DEF Has
    <3> QED
      BY <3>1, <3>2
  <2>4. CASE n \notin 1..Len(q) /\ m \notin 1..Len(q)
    <3>1. /\ m - Len(q) \in 1..Len(s) /\ s[m - Len(q)] = a
          /\ n - Len(q) \in 1..Len(s) /\ s[n - Len(q)] = b
      BY <1>1, <1>2, <2>1, <2>4
    <3>2. m - Len(q) < n - Len(q)
      BY <1>1, <2>1
    <3> QED
      BY <1>1, <3>1, <3>2 DEF Before
  <2> QED
    BY <2>2, <2>3, <2>4
<1> QED
  BY <1>1, <1>5, <1>6

\* The packet at the front, and what stays behind it.
LEMMA Taken ==
  ASSUME NEW S, NEW q \in Seq(S), q # <<>>
  PROVE  /\ Head(q) \in S /\ Tail(q) \in Seq(S)
         /\ Has(q, Head(q))
         /\ \A x : Has(Tail(q), x) => Has(q, x) /\ Before(q, Head(q), x)
         /\ \A a, b : Before(Tail(q), a, b) => Before(q, a, b)
<1>1. /\ Head(q) \in S /\ Tail(q) \in Seq(S)
      /\ Len(q) \in Nat \ {0} /\ DOMAIN q = 1..Len(q)
      /\ Head(q) = q[1]
      /\ DOMAIN Tail(q) = 1..(Len(q) - 1)
      /\ \A n \in 1..(Len(q) - 1) : Tail(q)[n] = q[n + 1]
  OBVIOUS
<1>2. \A n \in 1..(Len(q) - 1) : n + 1 \in 1..Len(q) /\ 1 < n + 1
  BY <1>1
<1>3. 1 \in 1..Len(q)
  BY <1>1
<1>4. Has(q, Head(q))
  BY <1>1, <1>3 DEF Has
<1>5. ASSUME NEW x, Has(Tail(q), x)
      PROVE  Has(q, x) /\ Before(q, Head(q), x)
  BY <1>1, <1>2, <1>3, <1>5 DEF Has, Before
<1>6. ASSUME NEW a, NEW b, Before(Tail(q), a, b)
      PROVE  Before(q, a, b)
  <2>1. PICK m \in 1..(Len(q) - 1), n \in 1..(Len(q) - 1) :
          m < n /\ Tail(q)[m] = a /\ Tail(q)[n] = b
    BY <1>1, <1>6 DEF Before
  <2>2. /\ m + 1 \in 1..Len(q) /\ n + 1 \in 1..Len(q) /\ m + 1 < n + 1
        /\ q[m + 1] = a /\ q[n + 1] = b
    BY <1>1, <1>2, <2>1
  <2> QED
    BY <1>1, <2>2 DEF Before
<1> QED
  BY <1>1, <1>4, <1>5, <1>6

\* A sequence of no packet, and of one.
LEMMA FewPackets ==
  /\ \A x : ~Has(<<>>, x)
  /\ \A a, b : ~Before(<<>>, a, b)
  /\ \A p, x : Has(<<p>>, x) <=> x = p
  /\ \A p, a, b : ~Before(<<p>>, a, b)
BY DEF Has, Before

-----------------------------------------------------------------------------
(* Types.                                                                   *)

LEMMA MessageIds == Ids \subseteq Nat /\ IsFiniteSet(Ids) /\ \A i \in Ids : i >= 2 /\ i <= MaxId
<1>1. IsFiniteSet(2..MaxId)
  BY SessionAssumption, FS_Interval
<1> QED
  BY <1>1, SessionAssumption DEF Ids

\* Two packets are the same when type and id are.
LEMMA SamePacket == \A t, u, i, j : Pkt(t, i) = Pkt(u, j) <=> t = u /\ i = j
  BY DEF Pkt

LEMMA PacketsOut ==
  /\ Pkt("CONNECT", 0) \in ToBroker
  /\ \A i \in Ids : Pkt("PUBLISH", i) \in ToBroker /\ Pkt("PUBREL", i) \in ToBroker
  /\ \A k \in InIds : Pkt("PUBREC", k) \in ToBroker /\ Pkt("PUBCOMP", k) \in ToBroker
  /\ \A p \in ToBroker :
       /\ p = Pkt(p.type, p.id)
       /\ p.type = "CONNECT" => p.id = 0
       /\ p.type \in {"PUBLISH", "PUBREL"} => p.id \in Ids
       /\ p.type \in {"PUBREC", "PUBCOMP"} => p.id \in InIds
  BY DEF ToBroker, Pkt

LEMMA PacketsIn ==
  /\ Pkt("CONNACK", 0) \in ToClient /\ Pkt("REFUSED", 0) \in ToClient
  /\ \A i \in Ids : Pkt("PUBREC", i) \in ToClient /\ Pkt("PUBCOMP", i) \in ToClient
  /\ \A k \in InIds : Pkt("PUBLISH", k) \in ToClient /\ Pkt("PUBREL", k) \in ToClient
  /\ \A p \in ToClient :
       /\ p = Pkt(p.type, p.id)
       /\ p.type \in {"PUBLISH", "PUBREL"} => p.id \in InIds
       /\ p.type \in {"PUBREC", "PUBCOMP"} => p.id \in Ids
  BY DEF ToClient, Pkt

\* Every part of the store is finite.
LEMMA FiniteFlows ==
  ASSUME TypeOK
  PROVE  /\ Admitted \subseteq Queued /\ Queued \subseteq Stored
         /\ InFlight \subseteq Stored /\ Stored \subseteq Ids
         /\ \A S : S \subseteq Ids => IsFiniteSet(S) /\ Cardinality(S) \in Nat
         /\ \A S : S \subseteq InIds => IsFiniteSet(S) /\ Cardinality(S) \in Nat
<1>1. /\ Admitted \subseteq Queued /\ Queued \subseteq Stored
      /\ InFlight \subseteq Stored /\ Stored \subseteq Ids
  BY DEF Admitted, Queued, Stored, InFlight
<1>2. ASSUME NEW S, S \subseteq Ids
      PROVE  IsFiniteSet(S) /\ Cardinality(S) \in Nat
  BY <1>2, MessageIds, FS_Subset, FS_CardinalityType
<1>3. ASSUME NEW S, S \subseteq InIds
      PROVE  IsFiniteSet(S) /\ Cardinality(S) \in Nat
  BY <1>3, SessionAssumption, FS_Subset, FS_CardinalityType
<1> QED
  BY <1>1, <1>2, <1>3

\* What checkTxFlows sends in one pass.
LEMMA PassPackets ==
  ASSUME TypeOK, NEW f \in Orders(ToSend)
  PROVE  LET s == [n \in DOMAIN f |-> Again(f[n])]
         IN  /\ s \in Seq(ToBroker)
             /\ \A x : Has(s, x) => \E i \in ToSend : x = Again(i)
<1> DEFINE S == ToSend
           s == [n \in DOMAIN f |-> Again(f[n])]
<1>1. S \subseteq Ids /\ Cardinality(S) \in Nat
  BY FiniteFlows DEF TypeOK, ToSend
<1>2. f \in [1..Cardinality(S) -> S]
  BY DEF Orders, Enumerations
<1>3. \A i \in Ids : Again(i) \in ToBroker
  BY PacketsOut DEF Again
<1>4. s \in [1..Cardinality(S) -> ToBroker]
  BY <1>1, <1>2, <1>3
<1>5. s \in Seq(ToBroker)
  <2> HIDE DEF S, s
  <2> QED
    BY <1>1, <1>4
<1>6. \A x : Has(s, x) => \E i \in S : x = Again(i)
  BY <1>2 DEF Has
<1> QED
  BY <1>5, <1>6

\* What the broker repeats after a reconnect.
LEMMA RepeatedPackets ==
  ASSUME TypeOK, NEW f \in Enumerations(Unacknowledged)
  PROVE  /\ Repeated(f) \in Seq(ToClient)
         /\ \A x : Has(Repeated(f), x) =>
              \E k \in Unacknowledged :
                x = Pkt(IF bOut[k] = "released" THEN "PUBREL" ELSE "PUBLISH", k)
         /\ \A k : ~Before(Repeated(f), Pkt("PUBLISH", k), Pkt("PUBLISH", k))
<1> DEFINE S == Unacknowledged
<1>1. S \subseteq InIds /\ Cardinality(S) \in Nat
  BY FiniteFlows DEF Unacknowledged
<1>2. f \in [1..Cardinality(S) -> S] /\ \A m, n \in DOMAIN f : f[m] = f[n] => m = n
  BY DEF Enumerations
<1>3. \A n \in DOMAIN f : Repeated(f)[n] \in ToClient
  BY <1>1, <1>2, PacketsIn DEF Repeated
<1>4. DOMAIN Repeated(f) = 1..Cardinality(S)
  BY <1>2 DEF Repeated
<1>5. Repeated(f) \in [1..Cardinality(S) -> ToClient]
  BY <1>2, <1>3, <1>4 DEF Repeated
<1>6. Repeated(f) \in Seq(ToClient)
  BY <1>1, <1>5
<1>7. \A x : Has(Repeated(f), x) =>
        \E k \in S : x = Pkt(IF bOut[k] = "released" THEN "PUBREL" ELSE "PUBLISH", k)
  BY <1>2 DEF Has, Repeated
<1>8. ASSUME NEW k, Before(Repeated(f), Pkt("PUBLISH", k), Pkt("PUBLISH", k))
      PROVE  FALSE
  <2>1. PICK m \in DOMAIN f, n \in DOMAIN f :
          m < n /\ Repeated(f)[m] = Pkt("PUBLISH", k) /\ Repeated(f)[n] = Pkt("PUBLISH", k)
    BY <1>2, <1>4, <1>8 DEF Before
  <2>2. f[m] = k /\ f[n] = k
    BY <1>2, <2>1, SamePacket DEF Repeated
  <2>3. m = n
    BY <1>2, <2>2
  <2> QED
    BY <1>1, <1>2, <2>1, <2>3
<1> QED
  BY <1>6, <1>7, <1>8

\* encode keeps the outgoing packets outgoing packets.
LEMMA SendTypes ==
  ASSUME TypeOK, NEW p \in ToBroker, Send(p)
  PROVE  toBroker' \in Seq(ToBroker)
BY Appended DEF TypeOK, Send

LEMMA CheckTxFlowsTypes ==
  ASSUME TypeOK, CheckTxFlows
  PROVE  /\ flow' \in [Ids -> {"free", "None", "Publish", "Pubrel"}]
         /\ due' \subseteq Ids
         /\ toBroker' \in Seq(ToBroker)
<1>1. CASE link = "open"
  <2>1. /\ flow' = [i \in Ids |-> IF i \in Admitted THEN "Publish" ELSE flow[i]]
        /\ due' \subseteq due
    BY <1>1 DEF CheckTxFlows
  <2>2. PICK f \in Orders(ToSend) :
          toBroker' = toBroker \o [n \in DOMAIN f |-> Again(f[n])]
    BY <1>1 DEF CheckTxFlows
  <2>3. toBroker' \in Seq(ToBroker)
    BY <2>2, PassPackets, Joined DEF TypeOK
  <2> QED
    BY <2>1, <2>3 DEF TypeOK
<1>2. CASE link # "open"
  BY <1>2 DEF CheckTxFlows, TypeOK
<1> QED
  BY <1>1, <1>2

\* closeInternal, and the broker's answers, keep the types.
LEMMA CloseInternalTypes ==
  ASSUME TypeOK, CloseInternal, UNCHANGED brokerVars
  PROVE  TypeOK'
<1>1. InFlight \subseteq Ids
  BY FiniteFlows
<1>2. <<>> \in Seq(ToClient)
  OBVIOUS
<1> QED
  BY <1>1, <1>2 DEF TypeOK, CloseInternal, StatusAfterClose, brokerVars

LEMMA ReplyTypes ==
  ASSUME TypeOK, NEW s \in Seq(ToClient), Reply(s)
  PROVE  toClient' \in Seq(ToClient)
BY DEF TypeOK, Reply

FlowTypes == {"free", "None", "Publish", "Pubrel"}
HandlerTypes == {"unused", "pending", "delivered", "dropped", "forgotten"}

\* What a received packet leaves to show.
LEMMA ReceivesTypes ==
  ASSUME TypeOK, NEW t, NEW i, Receives(t, i), status' \in {"Connecting", "Connected"},
         flow' \in [Ids -> FlowTypes], due' \subseteq Ids, handler' \in [Ids -> HandlerTypes],
         inFlow' \subseteq InIds, received' \in [InIds -> Nat], toBroker' \in Seq(ToBroker)
  PROVE  TypeOK'
<1>1. Tail(toClient) \in Seq(ToClient)
  BY Taken DEF Receives, TypeOK
<1> QED
  BY <1>1 DEF TypeOK, Receives, brokerVars, FlowTypes, HandlerTypes

LEMMA ReceiveTypes ==
  ASSUME TypeOK, Receive
  PROVE  TypeOK'
<1>1. CASE HandleConnack
  <2>1. /\ handler' \in [Ids -> HandlerTypes]
        /\ inFlow' \subseteq InIds /\ received' \in [InIds -> Nat]
    BY <1>1 DEF HandleConnack, TypeOK, HandlerTypes
  <2> QED
    BY <1>1, <2>1, CheckTxFlowsTypes, ReceivesTypes DEF HandleConnack, FlowTypes
<1>2. CASE HandleRefusal
  BY <1>2, CloseInternalTypes DEF HandleRefusal
<1>3. ASSUME NEW i \in Ids, HandlePubrec(i)
      PROVE  TypeOK'
  <2>1. toBroker' \in Seq(ToBroker)
    BY <1>3, PacketsOut, SendTypes DEF HandlePubrec
  <2>2. /\ flow' \in [Ids -> FlowTypes] /\ due' \subseteq Ids
        /\ handler' \in [Ids -> HandlerTypes]
        /\ inFlow' \subseteq InIds /\ received' \in [InIds -> Nat]
    BY <1>3 DEF HandlePubrec, TypeOK, FlowTypes, HandlerTypes
  <2> QED
    BY <1>3, <2>1, <2>2, ReceivesTypes DEF HandlePubrec
<1>4. ASSUME NEW i \in Ids, HandlePubcomp(i)
      PROVE  TypeOK'
  <2>1. /\ flow' \in [Ids -> FlowTypes] /\ due' \subseteq Ids
        /\ handler' \in [Ids -> HandlerTypes]
        /\ inFlow' \subseteq InIds /\ received' \in [InIds -> Nat]
        /\ toBroker' \in Seq(ToBroker)
    BY <1>4 DEF HandlePubcomp, TypeOK, FlowTypes, HandlerTypes
  <2> QED
    BY <1>4, <2>1, ReceivesTypes DEF HandlePubcomp
<1>5. ASSUME NEW k \in InIds, HandlePublish(k)
      PROVE  TypeOK'
  <2>1. toBroker' \in Seq(ToBroker)
    BY <1>5, PacketsOut, SendTypes DEF HandlePublish, TypeOK
  <2>2. /\ flow' \in [Ids -> FlowTypes] /\ due' \subseteq Ids
        /\ handler' \in [Ids -> HandlerTypes]
        /\ inFlow' \subseteq InIds /\ received' \in [InIds -> Nat]
    BY <1>5 DEF HandlePublish, TypeOK, FlowTypes, HandlerTypes
  <2> QED
    BY <1>5, <2>1, <2>2, ReceivesTypes DEF HandlePublish
<1>6. ASSUME NEW k \in InIds, HandlePubrel(k)
      PROVE  TypeOK'
  <2>1. toBroker' \in Seq(ToBroker)
    BY <1>6, PacketsOut, SendTypes DEF HandlePubrel, TypeOK
  <2>2. /\ flow' \in [Ids -> FlowTypes] /\ due' \subseteq Ids
        /\ handler' \in [Ids -> HandlerTypes]
    BY <1>6 DEF HandlePubrel, TypeOK, FlowTypes, HandlerTypes
  <2>3. received[k] + 1 \in Nat /\ received \in [InIds -> Nat] /\ Deleted(k) \subseteq InIds
    BY DEF TypeOK, Deleted
  <2>4. inFlow' \subseteq InIds /\ received' \in [InIds -> Nat]
    BY <1>6, <2>3 DEF HandlePubrel, TypeOK
  <2> QED
    BY <1>6, <2>1, <2>2, <2>4, ReceivesTypes DEF HandlePubrel
<1> QED
  BY <1>1, <1>2, <1>3, <1>4, <1>5, <1>6 DEF Receive

\* What a packet taken by the broker leaves to show.
LEMMA TakesTypes ==
  ASSUME TypeOK, NEW t, NEW i, Takes(t, i), NEW s \in Seq(ToClient),
         Reply(s) \/ toClient' = toClient, link' \in {link, "broken"},
         bIn' \subseteq Ids, delivered' \in [Ids -> Nat],
         bOut' \in [InIds -> {"new", "published", "released", "done", "lost"}]
  PROVE  TypeOK'
<1>1. Tail(toBroker) \in Seq(ToBroker)
  BY Taken DEF Takes, TypeOK
<1>2. toClient' \in Seq(ToClient)
  BY ReplyTypes DEF TypeOK
<1> QED
  BY <1>1, <1>2 DEF TypeOK, Takes, clientVars

LEMMA BrokerReceiveTypes ==
  ASSUME TypeOK, BrokerReceive
  PROVE  TypeOK'
<1> USE PacketsIn
<1>0. \A p \in ToClient : <<p>> \in Seq(ToClient)
  OBVIOUS
<1>1. CASE BrokerAccept
  <2>1. CASE clean
    BY <1>0, <1>1, <2>1, TakesTypes DEF BrokerAccept, TypeOK
  <2>2. CASE ~clean
    <3>1. PICK f \in Enumerations(Unacknowledged) :
            Reply(<<Pkt("CONNACK", 0)>> \o Repeated(f))
      BY <1>1, <2>2 DEF BrokerAccept
    <3>2. <<Pkt("CONNACK", 0)>> \o Repeated(f) \in Seq(ToClient)
      BY <1>0, RepeatedPackets, Joined
    <3> QED
      BY <1>1, <2>2, <3>1, <3>2, TakesTypes DEF BrokerAccept, TypeOK
  <2> QED
    BY <2>1, <2>2
<1>2. CASE BrokerRefuse
  BY <1>0, <1>2, TakesTypes DEF BrokerRefuse, brokerVars, TypeOK
<1>3. ASSUME NEW i \in Ids, BrokerPublish(i)
      PROVE  TypeOK'
  <2>1. delivered[i] + 1 \in Nat /\ delivered \in [Ids -> Nat]
    BY DEF TypeOK
  <2>2. delivered' \in [Ids -> Nat]
    BY <1>3, <2>1 DEF BrokerPublish
  <2> QED
    BY <1>0, <1>3, <2>2, TakesTypes DEF BrokerPublish, TypeOK
<1>4. ASSUME NEW i \in Ids, BrokerPubrel(i)
      PROVE  TypeOK'
  BY <1>0, <1>4, TakesTypes DEF BrokerPubrel, TypeOK
<1>5. ASSUME NEW k \in InIds, BrokerPubrec(k)
      PROVE  TypeOK'
  BY <1>0, <1>5, TakesTypes DEF BrokerPubrec, TypeOK
<1>6. ASSUME NEW k \in InIds, BrokerPubcomp(k)
      PROVE  TypeOK'
  BY <1>0, <1>6, TakesTypes DEF BrokerPubcomp, TypeOK
<1> QED
  BY <1>1, <1>2, <1>3, <1>4, <1>5, <1>6 DEF BrokerReceive

\* The types hold.
THEOREM TypeCorrect == Spec => []TypeOK
<1>1. Init => TypeOK
  BY SessionAssumption DEF Init, TypeOK, Ids
<1>2. TypeOK /\ [Next]_vars => TypeOK'
  <2> SUFFICES ASSUME TypeOK, [Next]_vars
               PROVE  TypeOK'
    OBVIOUS
  <2>1. CASE Connect
    <3>1. connects' \in 0..MaxConnects
      BY <2>1, SessionAssumption DEF Connect, TypeOK
    <3>2. handler' \in [Ids -> HandlerTypes] /\ flow' \in [Ids -> FlowTypes]
          /\ due' \subseteq Ids /\ inFlow' \subseteq InIds
      BY <2>1 DEF Connect, TypeOK, HandlersForgotten, HandlerTypes, FlowTypes
    <3> QED
      BY <2>1, <3>1, <3>2 DEF Connect, TypeOK, brokerVars, HandlerTypes, FlowTypes
  <2>2. CASE TransportDidOpen
    <3>1. <<Pkt("CONNECT", 0)>> \in Seq(ToBroker)
      BY PacketsOut
    <3> QED
      BY <2>2, <3>1 DEF TransportDidOpen, TypeOK, clientVars, brokerVars
  <2>3. CASE Break
    BY <2>3 DEF Break, TypeOK, clientVars, brokerVars
  <2>4. CASE TransportDidClose \/ Close
    BY <2>4, CloseInternalTypes DEF TransportDidClose, Close
  <2>5. CASE CheckDup
    BY <2>5, CheckTxFlowsTypes DEF CheckDup, TypeOK, brokerVars
  <2>6. CASE Receive
    BY <2>6, ReceiveTypes
  <2>7. ASSUME NEW i \in Ids, Publish(i)
        PROVE  TypeOK'
    <3>1. Append(toBroker, Pkt("PUBLISH", i)) \in Seq(ToBroker)
      BY PacketsOut, Appended DEF TypeOK
    <3>2. toBroker' \in Seq(ToBroker)
      BY <2>7, <3>1 DEF Publish, TypeOK
    <3>3. i \in 1..MaxId
      BY SessionAssumption DEF Ids
    <3>4. /\ handler' \in [Ids -> HandlerTypes] /\ flow' \in [Ids -> FlowTypes]
          /\ txMsgId' \in 1..MaxId
      BY <2>7, <3>3 DEF Publish, TypeOK, HandlerTypes, FlowTypes
    <3> QED
      BY <2>7, <3>2, <3>4 DEF Publish, TypeOK, brokerVars, HandlerTypes, FlowTypes
  <2>8. ASSUME NEW i \in Ids, Timeout(i)
        PROVE  TypeOK'
    BY <2>8 DEF Timeout, TypeOK, brokerVars
  <2>9. CASE BrokerReceive
    BY <2>9, BrokerReceiveTypes
  <2>10. ASSUME NEW k \in InIds, BrokerForward(k)
         PROVE  TypeOK'
    <3>1. Append(toClient, Pkt("PUBLISH", k)) \in Seq(ToClient)
      BY PacketsIn, Appended DEF TypeOK
    <3> QED
      BY <2>10, <3>1 DEF BrokerForward, TypeOK, clientVars
  <2>11. CASE UNCHANGED vars
    BY <2>11 DEF vars, TypeOK, clientVars, brokerVars
  <2> QED
    BY <2>1, <2>2, <2>3, <2>4, <2>5, <2>6, <2>7, <2>8, <2>9, <2>10, <2>11 DEF Next
<1> QED
  BY <1>1, <1>2, PTL DEF Spec

-----------------------------------------------------------------------------
(* The outgoing flows: the limits, the order, and the handlers.             *)

Earlier(i) == {j \in Queued : j < i}

\* The pass sends a prefix of the queue, and no more than the window admits:
\* two admitted flows have different numbers of queued flows ahead of them.
LEMMA Admission ==
  ASSUME TypeOK, WindowSize <= MaxWindow + 1
  PROVE  /\ Cardinality(InFlight \union Admitted) <= MaxWindow + 1
         /\ \A i \in Admitted, j \in Queued \ Admitted : i < j
<1>1. /\ MaxWindow \in Nat /\ WindowSize \in Nat /\ Ids \subseteq Nat
      /\ Admitted \subseteq Queued /\ Queued \subseteq Ids /\ InFlight \subseteq Ids
      /\ IsFiniteSet(Admitted) /\ Cardinality(Admitted) \in Nat
      /\ IsFiniteSet(InFlight)
  BY SessionAssumption, MessageIds, FiniteFlows DEF WindowSize
<1>2. \A i : IsFiniteSet(Earlier(i)) /\ Cardinality(Earlier(i)) \in Nat
  BY <1>1, FiniteFlows DEF Earlier
<1>3. ASSUME NEW i \in Queued, NEW j \in Queued, i < j
      PROVE  Cardinality(Earlier(i)) < Cardinality(Earlier(j))
  <2>0. Queued \subseteq Nat /\ i \in Nat /\ j \in Nat
    BY <1>1
  <2>1. Earlier(i) \in SUBSET Earlier(j) /\ i \in Earlier(j) /\ i \notin Earlier(i)
    <3>1. \A k \in Queued : k < i => k < j
      BY <1>3, <2>0
    <3>2. ~(i < i)
      BY <2>0
    <3> QED
      BY <1>3, <3>1, <3>2 DEF Earlier
  <2>2. Cardinality(Earlier(i)) <= Cardinality(Earlier(j))
        /\ Cardinality(Earlier(i)) # Cardinality(Earlier(j))
    BY <1>2, <2>1, FS_Subset
  <2> QED
    BY <1>2, <2>2
<1>4. \A i : i \in Admitted <=> i \in Queued /\ WindowSize + Cardinality(Earlier(i)) <= MaxWindow
  BY DEF Admitted, Earlier
<1>5. ASSUME NEW i \in Admitted, NEW j \in Queued \ Admitted
      PROVE  i < j
  <2>0. i \in Nat /\ j \in Nat /\ i # j
    BY <1>1
  <2>1. SUFFICES ASSUME j < i PROVE FALSE
    BY <2>0
  <2>2. Cardinality(Earlier(j)) < Cardinality(Earlier(i))
    BY <1>1, <1>3, <2>1
  <2>3. WindowSize + Cardinality(Earlier(i)) <= MaxWindow
    BY <1>4
  <2>4. WindowSize + Cardinality(Earlier(j)) <= MaxWindow
    BY <1>1, <1>2, <2>2, <2>3
  <2> QED
    BY <1>4, <2>4
<1>6. CASE Admitted = {}
  <2>1. InFlight \union Admitted = InFlight
    BY <1>6
  <2> QED
    BY <1>5, <2>1 DEF WindowSize
<1>7. CASE Admitted # {}
  <2> DEFINE c == MaxWindow - WindowSize
             f == [i \in Admitted |-> Cardinality(Earlier(i))]
  <2>1. c \in Nat
    <3>1. PICK i \in Admitted : WindowSize + Cardinality(Earlier(i)) <= MaxWindow
      BY <1>4, <1>7
    <3> QED
      BY <1>1, <1>2, <3>1
  <2>2. IsFiniteSet(0..c) /\ Cardinality(0..c) = c + 1
    BY <2>1, FS_Interval
  <2>3. f \in [Admitted -> 0..c]
    BY <1>1, <1>2, <1>4
  <2>4. \A i, j \in Admitted : f[i] = f[j] => i = j
    <3>1. \A i, j \in Admitted : i < j \/ j < i \/ i = j
      BY <1>1
    <3>2. \A i, j \in Admitted : i < j => f[i] # f[j]
      BY <1>1, <1>2, <1>3
    <3> QED
      BY <3>1, <3>2
  <2>5. Cardinality(Admitted) <= c + 1
    <3> HIDE DEF c, f
    <3>1. SUFFICES ASSUME Cardinality(0..c) < Cardinality(Admitted) PROVE FALSE
      BY <1>1, <2>1, <2>2
    <3>2. \E i, j \in Admitted : i # j /\ f[i] = f[j]
      BY <1>1, <2>2, <2>3, <3>1, FS_PigeonHole
    <3> QED
      BY <2>4, <3>2
  <2>6. InFlight \cap Admitted = {}
    BY <1>1 DEF InFlight
  <2>7. Cardinality(InFlight \union Admitted)
          = Cardinality(InFlight) + Cardinality(Admitted)
    <3>1. Cardinality(InFlight \cap Admitted) = 0
      BY <2>6, FS_EmptySet
    <3>2. Cardinality(InFlight) \in Nat
      BY <1>1 DEF WindowSize
    <3>3. Cardinality(InFlight \union Admitted)
            = Cardinality(InFlight) + Cardinality(Admitted) - Cardinality(InFlight \cap Admitted)
      BY <1>1, FS_Union
    <3> QED
      BY <1>1, <3>1, <3>2, <3>3
  <2> QED
    BY <1>1, <1>5, <2>5, <2>7 DEF WindowSize
<1> QED
  BY <1>6, <1>7

\* LimitsHold and QueuedInOrder are inductive together with the two tables that
\* relate ids, flows and handlers.
FlowInv ==
  /\ LimitsHold
  /\ QueuedInOrder
  /\ HandlersMatchFlows
  /\ due \subseteq InFlight
  /\ \A i \in Ids : handler[i] = "unused" <=> i > txMsgId

\* A step that stores nothing and sends nothing keeps limits and order.
LEMMA NoMoreFlows ==
  ASSUME TypeOK, TypeOK', FlowInv, Stored' \subseteq Stored,
         InFlight' \subseteq InFlight, Queued' \subseteq Queued,
         inFlow' \subseteq inFlow
  PROVE  LimitsHold' /\ QueuedInOrder'
<1>1. /\ IsFiniteSet(Stored) /\ IsFiniteSet(InFlight) /\ IsFiniteSet(inFlow)
      /\ Cardinality(Stored) \in Nat /\ Cardinality(InFlight) \in Nat
      /\ Cardinality(inFlow) \in Nat
  BY FiniteFlows DEF TypeOK
<1>2. /\ Cardinality(Stored') <= Cardinality(Stored)
      /\ Cardinality(InFlight') <= Cardinality(InFlight)
      /\ Cardinality(inFlow') <= Cardinality(inFlow)
  BY <1>1, FS_Subset
<1>3. /\ \A S : S \subseteq Ids => Cardinality(S) \in Nat
      /\ \A S : S \subseteq InIds => Cardinality(S) \in Nat
      /\ Stored' \subseteq Ids /\ InFlight' \subseteq Ids /\ inFlow' \subseteq InIds
  BY FiniteFlows DEF TypeOK
<1>4. Cardinality(Stored') \in Nat /\ Cardinality(InFlight') \in Nat /\ Cardinality(inFlow') \in Nat
  BY <1>3
<1>5. LimitsHold'
  BY <1>1, <1>2, <1>4, SessionAssumption DEF FlowInv, LimitsHold, WindowSize
<1>6. QueuedInOrder'
  BY DEF FlowInv, QueuedInOrder
<1> QED
  BY <1>5, <1>6

\* A step that leaves the outgoing flows alone.
LEMMA SameFlows ==
  ASSUME FlowInv, flow' = flow, due' \subseteq InFlight, handler' = handler,
         txMsgId' = txMsgId, Cardinality(inFlow') <= MaxMessages + 1
  PROVE  FlowInv'
BY DEF FlowInv, LimitsHold, QueuedInOrder, HandlersMatchFlows, Stored, Queued, InFlight, WindowSize

LEMMA CheckTxFlowsFlows ==
  ASSUME TypeOK, TypeOK', FlowInv, CheckTxFlows,
         handler' = handler, txMsgId' = txMsgId, inFlow' = inFlow
  PROVE  FlowInv'
<1>1. CASE link = "open"
  <2>1. flow' = [i \in Ids |-> IF i \in Admitted THEN "Publish" ELSE flow[i]]
        /\ due' = due \ ToSend
    BY <1>1 DEF CheckTxFlows
  <2>2. Admitted \subseteq Queued /\ Queued \subseteq Ids /\ InFlight \subseteq Ids
        /\ WindowSize <= MaxWindow + 1
    BY FiniteFlows DEF FlowInv, LimitsHold
  <2>3. Stored' = Stored /\ Queued' = Queued \ Admitted
    BY <2>1, <2>2 DEF Stored, Queued
  <2>4. InFlight' = InFlight \union Admitted
    BY <2>2, <2>3, FiniteFlows DEF InFlight
  <2>5. WindowSize' <= MaxWindow + 1
    BY <2>2, <2>4, Admission DEF WindowSize
  <2>6. LimitsHold'
    BY <2>3, <2>5 DEF FlowInv, LimitsHold
  <2>7. QueuedInOrder'
    BY <2>2, <2>3, <2>4, Admission DEF FlowInv, QueuedInOrder
  <2> QED
    BY <2>1, <2>3, <2>4, <2>6, <2>7 DEF FlowInv, HandlersMatchFlows
<1>2. CASE link # "open"
  BY <1>2, SameFlows DEF CheckTxFlows, FlowInv, LimitsHold
<1> QED
  BY <1>1, <1>2

LEMMA CloseInternalFlows ==
  ASSUME FlowInv, CloseInternal
  PROVE  FlowInv'
BY SameFlows DEF CloseInternal, FlowInv, LimitsHold

LEMMA PublishFlows ==
  ASSUME TypeOK, TypeOK', FlowInv, NEW i \in Ids, Publish(i)
  PROVE  FlowInv'
<1> DEFINE refused == Cardinality(Stored) > MaxMessages
           sent == ~refused /\ SendsAtOnce /\ link = "open"
<1>1. /\ i = txMsgId + 1 /\ txMsgId' = i /\ due' = due /\ inFlow' = inFlow
      /\ handler' = [handler EXCEPT ![i] = IF refused THEN "dropped" ELSE "pending"]
      /\ flow' = [flow EXCEPT ![i] = IF refused THEN @ ELSE IF sent THEN "Publish" ELSE "None"]
  BY DEF Publish
<1>2. /\ \A j \in Ids : j \in Nat /\ (j > txMsgId' <=> j > txMsgId /\ j # i)
      /\ \A j \in Stored : j < i
  <2>1. txMsgId \in Nat /\ \A j \in Ids : j \in Nat
    BY MessageIds DEF TypeOK
  <2>2. \A j \in Stored : ~(j > txMsgId) /\ j \in Ids
    BY DEF FlowInv, HandlersMatchFlows, Stored
  <2> QED
    BY <1>1, <2>1, <2>2
<1>3. i \notin Stored
  BY <1>2
<1>4. /\ handler' \in [Ids -> HandlerTypes] /\ flow' \in [Ids -> FlowTypes]
      /\ handler \in [Ids -> HandlerTypes] /\ flow \in [Ids -> FlowTypes]
  BY DEF TypeOK, HandlerTypes, FlowTypes
<1>5. \A j \in Ids : handler'[j] = "unused" <=> j > txMsgId'
  BY <1>1, <1>2, <1>4 DEF FlowInv
<1>6. CASE refused
  <2>1. flow' = flow
    BY <1>1, <1>4, <1>6
  <2>2. Stored' = Stored /\ Queued' = Queued /\ InFlight' = InFlight
    BY <2>1 DEF Stored, Queued, InFlight
  <2>3. HandlersMatchFlows'
    BY <1>1, <1>3, <1>4, <1>6, <2>2 DEF FlowInv, HandlersMatchFlows
  <2>4. LimitsHold' /\ QueuedInOrder' /\ (due \subseteq InFlight)'
    BY <1>1, <2>2 DEF FlowInv, LimitsHold, WindowSize, QueuedInOrder
  <2> QED
    BY <1>5, <2>3, <2>4 DEF FlowInv
<1>7. CASE ~refused
  <2>1. flow' = [flow EXCEPT ![i] = IF sent THEN "Publish" ELSE "None"]
    BY <1>1, <1>7
  <2>2. Stored' = Stored \union {i}
    BY <1>4, <2>1 DEF Stored
  <2>3. Queued' = IF sent THEN Queued ELSE Queued \union {i}
    BY <1>3, <1>4, <2>1 DEF Stored, Queued
  <2>4. InFlight' = IF sent THEN InFlight \union {i} ELSE InFlight
    BY <1>3, <2>2, <2>3 DEF InFlight, Stored, Queued
  <2>5. /\ IsFiniteSet(Stored) /\ IsFiniteSet(InFlight)
        /\ Cardinality(Stored) \in Nat /\ Cardinality(InFlight) \in Nat
    BY FiniteFlows
  <2>6. Cardinality(Stored') <= MaxMessages + 1
    <3>1. Cardinality(Stored') = Cardinality(Stored) + 1
      BY <1>3, <2>2, <2>5, FS_AddElement
    <3> QED
      BY <1>7, <2>5, <3>1, SessionAssumption
  <2>7. WindowSize' <= MaxWindow + 1
    <3>1. i \notin InFlight
      BY <1>3, FiniteFlows
    <3>2. Cardinality(InFlight \union {i}) = Cardinality(InFlight) + 1
      BY <2>5, <3>1, FS_AddElement
    <3>3. CASE sent
      <4>1. Cardinality(InFlight) <= MaxWindow
        BY <3>3 DEF SendsAtOnce, WindowSize
      <4> QED
        BY <2>4, <2>5, <3>2, <3>3, <4>1, SessionAssumption DEF WindowSize
    <3>4. CASE ~sent
      BY <2>4, <3>4 DEF WindowSize, FlowInv, LimitsHold
    <3> QED
      BY <3>3, <3>4
  <2>8. LimitsHold'
    BY <1>1, <2>6, <2>7 DEF LimitsHold, FlowInv
  <2>9. QueuedInOrder'
    <3>1. sent => Queued = {}
      BY DEF SendsAtOnce
    <3>2. \A j \in InFlight : j < i
      BY <1>2, FiniteFlows
    <3> QED
      BY <2>3, <2>4, <3>1, <3>2 DEF FlowInv, QueuedInOrder
  <2>10. HandlersMatchFlows'
    BY <1>1, <1>4, <1>7, <2>2 DEF FlowInv, HandlersMatchFlows
  <2>11. due' \subseteq InFlight'
    BY <1>1, <2>4 DEF FlowInv
  <2> QED
    BY <1>5, <2>8, <2>9, <2>10, <2>11 DEF FlowInv
<1> QED
  BY <1>6, <1>7

LEMMA ReceiveFlows ==
  ASSUME TypeOK, TypeOK', FlowInv, Receive
  PROVE  FlowInv'
<1>0. /\ handler \in [Ids -> HandlerTypes] /\ flow \in [Ids -> FlowTypes]
  BY DEF TypeOK, HandlerTypes, FlowTypes
<1>1. CASE HandleConnack
  BY <1>1, CheckTxFlowsFlows DEF HandleConnack, Receives
<1>2. CASE HandleRefusal
  BY <1>2, CloseInternalFlows DEF HandleRefusal
<1>3. ASSUME NEW i \in Ids, HandlePubrec(i)
      PROVE  FlowInv'
  <2>1. /\ flow' = [flow EXCEPT ![i] = IF @ = "Publish" THEN "Pubrel" ELSE @]
        /\ due' \subseteq due
        /\ handler' = handler /\ inFlow' = inFlow /\ txMsgId' = txMsgId
    BY <1>3 DEF HandlePubrec, Receives
  <2>2. Stored' = Stored /\ Queued' = Queued
    BY <1>0, <2>1 DEF Stored, Queued
  <2>3. InFlight' = InFlight
    BY <2>2 DEF InFlight
  <2>4. LimitsHold' /\ QueuedInOrder'
    BY <2>1, <2>2, <2>3, NoMoreFlows
  <2> QED
    BY <2>1, <2>2, <2>3, <2>4 DEF FlowInv, HandlersMatchFlows
<1>4. ASSUME NEW i \in Ids, HandlePubcomp(i)
      PROVE  FlowInv'
  <2>0. inFlow' = inFlow /\ txMsgId' = txMsgId
    BY <1>4 DEF HandlePubcomp, Receives
  <2>1. CASE flow[i] = "Pubrel"
    <3>1. /\ flow' = [flow EXCEPT ![i] = "free"] /\ due' = due \ {i}
          /\ handler' = [handler EXCEPT ![i] = IF @ = "pending" THEN "delivered" ELSE @]
      BY <1>4, <2>1 DEF HandlePubcomp
    <3>2. Stored' = Stored \ {i} /\ Queued' = Queued
      BY <1>0, <2>1, <3>1 DEF Stored, Queued
    <3>3. InFlight' = InFlight \ {i}
      BY <3>2 DEF InFlight
    <3>4. LimitsHold' /\ QueuedInOrder'
      BY <2>0, <3>2, <3>3, NoMoreFlows
    <3>5. HandlersMatchFlows'
      BY <1>0, <3>1, <3>2 DEF FlowInv, HandlersMatchFlows
    <3>6. \A j \in Ids : handler'[j] = "unused" <=> j > txMsgId'
      BY <1>0, <2>0, <3>1 DEF FlowInv
    <3> QED
      BY <3>1, <3>3, <3>4, <3>5, <3>6 DEF FlowInv
  <2>2. CASE flow[i] # "Pubrel"
    BY <1>4, <2>0, <2>2, SameFlows DEF HandlePubcomp, FlowInv, LimitsHold
  <2> QED
    BY <2>1, <2>2
<1>5. ASSUME NEW k \in InIds, HandlePublish(k)
      PROVE  FlowInv'
  <2>1. Cardinality(inFlow') <= MaxMessages + 1
    <3>1. CASE StoreTakes(k)
      <4>1. IsFiniteSet(inFlow) /\ Cardinality(inFlow) \in Nat
        BY FiniteFlows DEF TypeOK
      <4>2. Cardinality(inFlow) <= MaxMessages /\ MaxMessages \in Nat
        BY <3>1, SessionAssumption DEF StoreTakes
      <4>3. Cardinality(inFlow \union {k}) \in {Cardinality(inFlow), Cardinality(inFlow) + 1}
        BY <4>1, FS_AddElement
      <4>4. Cardinality(inFlow \union {k}) <= MaxMessages + 1
        BY <4>1, <4>2, <4>3
      <4> QED
        BY <1>5, <3>1, <4>4 DEF HandlePublish
    <3>2. CASE ~StoreTakes(k)
      BY <1>5, <3>2 DEF HandlePublish, FlowInv, LimitsHold
    <3> QED
      BY <3>1, <3>2
  <2> QED
    BY <1>5, <2>1, SameFlows DEF HandlePublish, Receives, FlowInv
<1>6. ASSUME NEW k \in InIds, HandlePubrel(k)
      PROVE  FlowInv'
  <2>1. inFlow' \subseteq inFlow
    BY <1>6 DEF HandlePubrel, Deleted
  <2>2. flow' = flow /\ due' = due /\ handler' = handler /\ txMsgId' = txMsgId
    BY <1>6 DEF HandlePubrel, Receives
  <2>3. LimitsHold'
    BY <2>1, <2>2, NoMoreFlows DEF Stored, Queued, InFlight
  <2> QED
    BY <2>2, <2>3, SameFlows DEF FlowInv, LimitsHold
<1> QED
  BY <1>1, <1>2, <1>3, <1>4, <1>5, <1>6 DEF Receive

LEMMA NextFlows ==
  ASSUME TypeOK, TypeOK', FlowInv, [Next]_vars
  PROVE  FlowInv'
<1> USE DEF FlowInv
<1>1. CASE Connect
  <2>1. inFlow' \subseteq inFlow /\ txMsgId' = txMsgId
    BY <1>1 DEF Connect
  <2>2. CASE clean
    <3>1. /\ flow' = [i \in Ids |-> "free"] /\ due' = {} /\ handler' = HandlersForgotten
      BY <1>1, <2>2 DEF Connect
    <3>2. Stored' = {} /\ Queued' = {} /\ InFlight' = {}
      BY <3>1 DEF Stored, Queued, InFlight
    <3>3. LimitsHold' /\ QueuedInOrder'
      BY <2>1, <3>2, NoMoreFlows
    <3>4. \A i \in Ids : handler'[i] # "pending" /\ (handler'[i] = "unused" <=> handler[i] = "unused")
      BY <3>1 DEF HandlersForgotten
    <3> QED
      BY <2>1, <3>1, <3>2, <3>3, <3>4 DEF HandlersMatchFlows
  <2>3. CASE ~clean
    BY <1>1, <2>3, SameFlows DEF Connect, LimitsHold
  <2> QED
    BY <2>2, <2>3
<1>2. CASE TransportDidOpen \/ Break \/ UNCHANGED vars
  BY <1>2, SameFlows DEF TransportDidOpen, Break, vars, clientVars, LimitsHold
<1>3. CASE TransportDidClose \/ Close
  BY <1>3, CloseInternalFlows DEF TransportDidClose, Close
<1>4. CASE CheckDup
  BY <1>4, CheckTxFlowsFlows DEF CheckDup
<1>5. CASE Receive
  BY <1>5, ReceiveFlows
<1>6. ASSUME NEW i \in Ids, Publish(i)
      PROVE  FlowInv'
  BY <1>6, PublishFlows
<1>7. ASSUME NEW i \in Ids, Timeout(i)
      PROVE  FlowInv'
  BY <1>7, SameFlows DEF Timeout, LimitsHold
<1>8. CASE BrokerReceive \/ \E k \in InIds : BrokerForward(k)
  <2>1. UNCHANGED clientVars
    BY <1>8 DEF BrokerReceive, BrokerAccept, BrokerRefuse, BrokerPublish, BrokerPubrel,
                BrokerPubrec, BrokerPubcomp, BrokerForward, Takes
  <2> QED
    BY <2>1, SameFlows DEF clientVars, LimitsHold
<1> QED
  BY <1>1, <1>2, <1>3, <1>4, <1>5, <1>6, <1>7, <1>8 DEF Next

LEMMA InitFlows == ASSUME Init PROVE FlowInv
<1>1. Stored = {} /\ Queued = {} /\ InFlight = {} /\ inFlow = {} /\ due = {}
  BY DEF Init, Stored, Queued, InFlight
<1>2. Cardinality({}) = 0
  BY FS_EmptySet
<1>3. LimitsHold
  BY <1>1, <1>2, SessionAssumption DEF LimitsHold, WindowSize
<1>4. \A i \in Ids : i > 1
  BY MessageIds
<1> QED
  BY <1>1, <1>3, <1>4 DEF Init, FlowInv, QueuedInOrder, HandlersMatchFlows

\* The limits, the order of publication, and the agreement of handlers and
\* store hold for every window and store size and every number of reconnects.
THEOREM FlowsCorrect == Spec => [](LimitsHold /\ QueuedInOrder /\ HandlersMatchFlows)
<1>1. Init => FlowInv
  BY InitFlows
<1>2. TypeOK /\ TypeOK' /\ FlowInv /\ [Next]_vars => FlowInv'
  BY NextFlows
<1>3. FlowInv => LimitsHold /\ QueuedInOrder /\ HandlersMatchFlows
  BY DEF FlowInv
<1> QED
  BY <1>1, <1>2, <1>3, TypeCorrect, PTL DEF Spec

-----------------------------------------------------------------------------
(* What the steps do to the packets on the way.                             *)

LEMMA SendPackets ==
  ASSUME TypeOK, NEW p \in ToBroker, Send(p)
  PROVE  /\ \A x : Has(toBroker', x) => Has(toBroker, x) \/ (link = "open" /\ x = p)
         /\ \A a, b : Before(toBroker', a, b) => Before(toBroker, a, b) \/ b = p
<1>1. CASE link = "open"
  BY <1>1, Appended DEF Send, TypeOK
<1>2. CASE link # "open"
  BY <1>2 DEF Send
<1> QED
  BY <1>1, <1>2

LEMMA PassSends ==
  ASSUME TypeOK, CheckTxFlows
  PROVE  /\ \A x : Has(toBroker', x) =>
              Has(toBroker, x) \/ (link = "open" /\ \E i \in ToSend : x = Again(i))
         /\ \A a, b : Before(toBroker', a, b) =>
              \/ Before(toBroker, a, b)
              \/ /\ link = "open"
                 /\ Has(toBroker, a) \/ \E i \in ToSend : a = Again(i)
                 /\ \E i \in ToSend : b = Again(i)
<1>0. \A q, a, b : Before(q, a, b) => Has(q, a) /\ Has(q, b)
  BY DEF Before, Has
<1>1. CASE link = "open"
  <2>1. PICK f \in Orders(ToSend) :
          toBroker' = toBroker \o [n \in DOMAIN f |-> Again(f[n])]
    BY <1>1 DEF CheckTxFlows
  <2> DEFINE pass == [n \in DOMAIN f |-> Again(f[n])]
  <2>2. pass \in Seq(ToBroker) /\ \A x : Has(pass, x) => \E i \in ToSend : x = Again(i)
    BY PassPackets
  <2> HIDE DEF pass
  <2>3. /\ \A x : Has(toBroker', x) => Has(toBroker, x) \/ Has(pass, x)
        /\ \A a, b : Before(toBroker', a, b) =>
             Before(toBroker, a, b) \/ Before(pass, a, b) \/ (Has(toBroker, a) /\ Has(pass, b))
    BY <2>1, <2>2, Joined DEF TypeOK, pass
  <2> QED
    BY <1>0, <1>1, <2>2, <2>3
<1>2. CASE link # "open"
  BY <1>2 DEF CheckTxFlows
<1> QED
  BY <1>1, <1>2

LEMMA ReceivesPackets ==
  ASSUME TypeOK, NEW t, NEW i, Receives(t, i)
  PROVE  /\ Has(toClient, Pkt(t, i))
         /\ \A x : Has(toClient', x) => Has(toClient, x) /\ Before(toClient, Pkt(t, i), x)
         /\ \A a, b : Before(toClient', a, b) => Before(toClient, a, b)
BY Taken DEF Receives, TypeOK

LEMMA TakesPackets ==
  ASSUME TypeOK, NEW t, NEW i, Takes(t, i)
  PROVE  /\ Has(toBroker, Pkt(t, i))
         /\ \A x : Has(toBroker', x) => Has(toBroker, x) /\ Before(toBroker, Pkt(t, i), x)
         /\ \A a, b : Before(toBroker', a, b) => Before(toBroker, a, b)
BY Taken DEF Takes, TypeOK

LEMMA ReplyPackets ==
  ASSUME TypeOK, NEW s \in Seq(ToClient), Reply(s)
  PROVE  /\ \A x : Has(toClient', x) => Has(toClient, x) \/ (link = "open" /\ Has(s, x))
         /\ \A a, b : Before(toClient', a, b) =>
              Before(toClient, a, b) \/ Before(s, a, b) \/ (Has(toClient, a) /\ Has(s, b))
<1>1. CASE link = "open"
  BY <1>1, Joined DEF Reply, TypeOK
<1>2. CASE link # "open"
  BY <1>2 DEF Reply
<1> QED
  BY <1>1, <1>2

\* An answer of one packet.
LEMMA AnswerPackets ==
  ASSUME TypeOK, NEW p \in ToClient, Reply(<<p>>)
  PROVE  /\ \A x : Has(toClient', x) => Has(toClient, x) \/ (link = "open" /\ x = p)
         /\ \A a, b : Before(toClient', a, b) => Before(toClient, a, b) \/ b = p
<1>1. <<p>> \in Seq(ToClient)
  OBVIOUS
<1> QED
  BY <1>1, ReplyPackets, FewPackets

\* The CONNACK, and what the broker repeats behind it.
LEMMA ResumePackets ==
  ASSUME TypeOK, NEW f \in Enumerations(Unacknowledged), toClient = <<>>,
         Reply(<<Pkt("CONNACK", 0)>> \o Repeated(f))
  PROVE  /\ \A x : Has(toClient', x) =>
              \/ x = Pkt("CONNACK", 0)
              \/ \E k \in InIds : bOut[k] = "released" /\ x = Pkt("PUBREL", k)
              \/ \E k \in InIds : bOut[k] = "published" /\ x = Pkt("PUBLISH", k)
         /\ \A k : ~Before(toClient', Pkt("PUBLISH", k), Pkt("PUBLISH", k))
<1> DEFINE s == <<Pkt("CONNACK", 0)>> \o Repeated(f)
<1>1. <<Pkt("CONNACK", 0)>> \in Seq(ToClient)
  BY PacketsIn
<1>2. /\ s \in Seq(ToClient)
      /\ \A x : Has(s, x) => x = Pkt("CONNACK", 0) \/ Has(Repeated(f), x)
      /\ \A a, b : Before(s, a, b) => Before(Repeated(f), a, b) \/ a = Pkt("CONNACK", 0)
  <2> DEFINE c == <<Pkt("CONNACK", 0)>>
  <2>1. /\ c \in Seq(ToClient)
        /\ \A x : Has(c, x) => x = Pkt("CONNACK", 0)
        /\ \A a, b : ~Before(c, a, b)
    BY <1>1, FewPackets
  <2>2. Repeated(f) \in Seq(ToClient)
    BY RepeatedPackets
  <2> HIDE DEF c
  <2>3. /\ c \o Repeated(f) \in Seq(ToClient)
        /\ \A x : Has(c \o Repeated(f), x) => Has(c, x) \/ Has(Repeated(f), x)
        /\ \A a, b : Before(c \o Repeated(f), a, b)
             => Before(c, a, b) \/ Before(Repeated(f), a, b) \/ (Has(c, a) /\ Has(Repeated(f), b))
    BY <2>1, <2>2, Joined
  <2>4. s = c \o Repeated(f)
    BY DEF c
  <2> HIDE DEF s
  <2> QED
    BY <2>1, <2>3, <2>4
<1>3. \A k : ~Before(s, Pkt("PUBLISH", k), Pkt("PUBLISH", k))
  BY <1>2, RepeatedPackets, SamePacket
<1>4. \A x : Has(s, x) =>
              \/ x = Pkt("CONNACK", 0)
              \/ \E k \in InIds : bOut[k] = "released" /\ x = Pkt("PUBREL", k)
              \/ \E k \in InIds : bOut[k] = "published" /\ x = Pkt("PUBLISH", k)
  BY <1>2, RepeatedPackets DEF Unacknowledged
<1> HIDE DEF s
<1>5. Reply(s)
  BY DEF s
<1> QED
  BY <1>2, <1>3, <1>4, <1>5, ReplyPackets, FewPackets

-----------------------------------------------------------------------------
(* The connection: while a CONNECT is on the way it is alone, and the       *)
(* session is not connected.                                                *)

Opening == Has(toBroker, Pkt("CONNECT", 0))

ConnInv ==
  /\ link = "closed" <=> status \in {"Created", "Closed"}
  /\ link = "opening" => status = "Connecting"
  /\ link \in {"closed", "opening"} => toClient = <<>>
  /\ Opening => toBroker = <<Pkt("CONNECT", 0)>> /\ toClient = <<>> /\ status # "Connected"
  /\ clean /\ (link = "opening" \/ Opening) => \A i \in Ids : flow[i] \in {"free", "None"}

\* While a CONNECT is on the way the client has nothing to read, and a packet
\* for the broker that is no CONNECT is not at the front.
LEMMA NotOpening ==
  ASSUME TypeOK, ConnInv
  PROVE  /\ \A t, i : Receives(t, i) => ~Opening /\ link \in {"open", "broken"}
         /\ \A t, i : Takes(t, i) /\ t # "CONNECT" => ~Opening
<1>1. ASSUME NEW t, NEW i, Receives(t, i)
      PROVE  ~Opening /\ link \in {"open", "broken"}
  BY <1>1 DEF Receives, ConnInv, TypeOK
<1>2. ASSUME NEW t, NEW i, Takes(t, i), t # "CONNECT"
      PROVE  ~Opening
  <2>1. Head(<<Pkt("CONNECT", 0)>>) = Pkt("CONNECT", 0)
    OBVIOUS
  <2> QED
    BY <1>2, <2>1, SamePacket DEF Takes, ConnInv
<1> QED
  BY <1>1, <1>2

LEMMA CloseInternalConn ==
  ASSUME ConnInv, CloseInternal, link # "opening" \/ ~clean \/ \A i \in Ids : flow[i] \in {"free", "None"}
  PROVE  ConnInv'
BY DEF ConnInv, CloseInternal, StatusAfterClose, Opening

\* A packet of the broker is received.
LEMMA ReceivesConn ==
  ASSUME TypeOK, ConnInv, NEW t, NEW i, Receives(t, i),
         status' \in {status, "Connected"}, status \in {"Connecting", "Connected"},
         ~Opening'
  PROVE  ConnInv'
BY NotOpening DEF ConnInv, Receives

LEMMA ReceiveConn ==
  ASSUME TypeOK, ConnInv, Receive
  PROVE  ConnInv'
<1>0. \A t, i : t # "CONNECT" => Pkt(t, i) # Pkt("CONNECT", 0)
  BY SamePacket
<1>1. CASE HandleConnack
  <2>1. ~Opening'
    BY <1>0, <1>1, PassSends, NotOpening DEF HandleConnack, Opening, Again
  <2> QED
    BY <1>1, <2>1, ReceivesConn DEF HandleConnack
<1>2. CASE HandleRefusal
  BY <1>2, CloseInternalConn DEF HandleRefusal, ConnInv
<1>3. ASSUME NEW i \in Ids, HandlePubrec(i)
      PROVE  ConnInv'
  <2>1. ~Opening'
    BY <1>0, <1>3, SendPackets, PacketsOut, NotOpening DEF HandlePubrec, Opening
  <2> QED
    BY <1>3, <2>1, ReceivesConn DEF HandlePubrec
<1>4. ASSUME NEW i \in Ids, HandlePubcomp(i)
      PROVE  ConnInv'
  <2>1. ~Opening'
    BY <1>4, NotOpening DEF HandlePubcomp, Opening
  <2> QED
    BY <1>4, <2>1, ReceivesConn DEF HandlePubcomp
<1>5. ASSUME NEW k \in InIds, HandlePublish(k)
      PROVE  ConnInv'
  <2>1. ~Opening'
    BY <1>0, <1>5, SendPackets, PacketsOut, NotOpening DEF HandlePublish, Opening
  <2> QED
    BY <1>5, <2>1, ReceivesConn DEF HandlePublish
<1>6. ASSUME NEW k \in InIds, HandlePubrel(k)
      PROVE  ConnInv'
  <2>1. ~Opening'
    BY <1>0, <1>6, SendPackets, PacketsOut, NotOpening DEF HandlePubrel, Opening
  <2> QED
    BY <1>6, <2>1, ReceivesConn DEF HandlePubrel
<1> QED
  BY <1>1, <1>2, <1>3, <1>4, <1>5, <1>6 DEF Receive

LEMMA BrokerReceiveConn ==
  ASSUME TypeOK, ConnInv, BrokerReceive
  PROVE  ConnInv'
<1>0. ASSUME NEW t, NEW i, Takes(t, i)
      PROVE  ~Opening'
  <2>1. CASE Opening
    <3>1. Tail(<<Pkt("CONNECT", 0)>>) = <<>>
      OBVIOUS
    <3>2. toBroker' = <<>>
      BY <1>0, <2>1, <3>1 DEF Takes, ConnInv
    <3>3. ~Has(<<>>, Pkt("CONNECT", 0))
      BY FewPackets
    <3> QED
      BY <3>2, <3>3 DEF Opening
  <2>2. CASE ~Opening
    BY <1>0, <2>2, TakesPackets DEF Opening
  <2> QED
    BY <2>1, <2>2
<1>1. ASSUME NEW t, NEW i, Takes(t, i), NEW s, Reply(s) \/ toClient' = toClient,
             link' = link \/ (link = "open" /\ link' = "broken")
      PROVE  ConnInv'
  BY <1>0, <1>1 DEF ConnInv, Takes, Reply, clientVars
<1>2. CASE BrokerAccept
  BY <1>1, <1>2 DEF BrokerAccept
<1>3. CASE BrokerRefuse
  BY <1>1, <1>3 DEF BrokerRefuse
<1>4. ASSUME NEW i \in Ids, BrokerPublish(i) \/ BrokerPubrel(i)
      PROVE  ConnInv'
  BY <1>1, <1>4 DEF BrokerPublish, BrokerPubrel
<1>5. ASSUME NEW k \in InIds, BrokerPubrec(k) \/ BrokerPubcomp(k)
      PROVE  ConnInv'
  BY <1>1, <1>5 DEF BrokerPubrec, BrokerPubcomp
<1> QED
  BY <1>2, <1>3, <1>4, <1>5 DEF BrokerReceive

LEMMA NextConn ==
  ASSUME TypeOK, ConnInv, [Next]_vars
  PROVE  ConnInv'
<1>0. \A t, i : t # "CONNECT" => Pkt(t, i) # Pkt("CONNECT", 0)
  BY SamePacket
<1>1. CASE Connect
  BY <1>1, FewPackets DEF Connect, ConnInv, Opening
<1>2. CASE TransportDidOpen
  BY <1>2, FewPackets DEF TransportDidOpen, ConnInv, Opening, clientVars
<1>3. CASE Break \/ UNCHANGED vars
  BY <1>3 DEF Break, ConnInv, Opening, vars, clientVars
<1>4. CASE TransportDidClose \/ Close
  BY <1>4, CloseInternalConn DEF TransportDidClose, Close, ConnInv
<1>5. CASE CheckDup
  <2>1. ~Opening'
    BY <1>0, <1>5, PassSends DEF CheckDup, ConnInv, Opening, Again
  <2> QED
    BY <1>5, <2>1 DEF CheckDup, ConnInv
<1>6. CASE Receive
  BY <1>6, ReceiveConn
<1>7. ASSUME NEW i \in Ids, Publish(i)
      PROVE  ConnInv'
  <2>0. /\ status' = status /\ link' = link /\ toClient' = toClient /\ clean' = clean
    BY <1>7 DEF Publish
  <2>1. CASE status = "Connected"
    <3>1. ~Opening'
      BY <1>0, <1>7, <2>1, Appended, PacketsOut DEF Publish, ConnInv, Opening, TypeOK
    <3> QED
      BY <2>0, <2>1, <3>1 DEF ConnInv
  <2>2. CASE status # "Connected"
    <3>1. toBroker' = toBroker /\ \A j \in Ids : flow'[j] \in {flow[j], "None"}
      BY <1>7, <2>2 DEF Publish, SendsAtOnce, TypeOK
    <3> QED
      BY <2>0, <2>2, <3>1 DEF ConnInv, Opening
  <2> QED
    BY <2>1, <2>2
<1>8. ASSUME NEW i \in Ids, Timeout(i)
      PROVE  ConnInv'
  BY <1>8 DEF Timeout, ConnInv, Opening
<1>9. CASE BrokerReceive
  BY <1>9, BrokerReceiveConn
<1>10. ASSUME NEW k \in InIds, BrokerForward(k)
       PROVE  ConnInv'
  BY <1>10 DEF BrokerForward, ConnInv, Opening, Has, clientVars
<1> QED
  BY <1>1, <1>2, <1>3, <1>4, <1>5, <1>6, <1>7, <1>8, <1>9, <1>10 DEF Next

-----------------------------------------------------------------------------
(* Outgoing messages: the session implements MqttDelivery.                  *)

\* A PUBLISH of a message the broker has passed on meets the id in bIn; once
\* the id has left bIn no PUBLISH is on the way and none can be repeated.
OutOf(i) ==
  /\ delivered[i] \in {0, 1}
  /\ i \in bIn => delivered[i] = 1
  /\ delivered[i] = 1 \/ Has(toBroker, Pkt("PUBLISH", i)) =>
       flow[i] # "None" /\ handler[i] \notin {"unused", "dropped"}
  /\ delivered[i] = 1 /\ Has(toBroker, Pkt("PUBLISH", i)) => i \in bIn
  /\ delivered[i] = 1 /\ i \notin bIn => flow[i] \in {"Pubrel", "free"}
  /\ Has(toBroker, Pkt("PUBREL", i)) =>
       /\ delivered[i] = 1 /\ flow[i] \in {"Pubrel", "free"}
       /\ ~Before(toBroker, Pkt("PUBREL", i), Pkt("PUBLISH", i))
  /\ flow[i] = "Pubrel" => delivered[i] = 1
  /\ Has(toClient, Pkt("PUBREC", i)) \/ Has(toClient, Pkt("PUBCOMP", i)) => delivered[i] = 1

OutInv == \A i \in Ids : OutOf(i)

\* A step that adds no packet of an outgoing message.
LEMMA OutCalm ==
  ASSUME NEW i \in Ids, OutOf(i), UNCHANGED <<delivered, bIn, flow, handler>>,
         Has(toBroker', Pkt("PUBLISH", i)) => Has(toBroker, Pkt("PUBLISH", i)),
         Has(toBroker', Pkt("PUBREL", i)) => Has(toBroker, Pkt("PUBREL", i)),
         Before(toBroker', Pkt("PUBREL", i), Pkt("PUBLISH", i))
           => Before(toBroker, Pkt("PUBREL", i), Pkt("PUBLISH", i)),
         Has(toClient', Pkt("PUBREC", i)) => Has(toClient, Pkt("PUBREC", i)),
         Has(toClient', Pkt("PUBCOMP", i)) => Has(toClient, Pkt("PUBCOMP", i))
  PROVE  OutOf(i)'
BY DEF OutOf

\* One pass of checkTxFlows: what it repeats has not left bIn, and what it
\* sends for the first time the broker has not seen.
LEMMA OutPass ==
  ASSUME TypeOK, FlowInv, OutInv, CheckTxFlows, UNCHANGED <<delivered, bIn, handler>>,
         \A x : Has(toClient', x) => Has(toClient, x)
  PROVE  OutInv'
<1> SUFFICES ASSUME NEW i \in Ids PROVE OutOf(i)'
  BY DEF OutInv
<1>0. OutOf(i)
  BY DEF OutInv
<1>1. CASE link # "open"
  BY <1>0, <1>1, OutCalm DEF CheckTxFlows
<1>2. CASE link = "open"
  <2>1. flow' = [j \in Ids |-> IF j \in Admitted THEN "Publish" ELSE flow[j]]
    BY <1>2 DEF CheckTxFlows
  <2>2. /\ i \in Admitted => flow[i] = "None"
        /\ i \in due => flow[i] \in {"Publish", "Pubrel"} /\ i \notin Admitted
        /\ ToSend \subseteq Ids
    BY FiniteFlows DEF Queued, Stored, InFlight, FlowInv, Admitted, ToSend, TypeOK
  <2>3. \A j : Again(j) = Pkt("PUBLISH", i) => j = i /\ flow[i] # "Pubrel"
    BY SamePacket DEF Again
  <2>4. \A j : Again(j) = Pkt("PUBREL", i) => j = i /\ flow[i] = "Pubrel"
    BY SamePacket DEF Again
  <2>5. Has(toBroker', Pkt("PUBLISH", i)) =>
          \/ Has(toBroker, Pkt("PUBLISH", i))
          \/ i \in ToSend /\ flow[i] # "Pubrel"
    BY <2>3, PassSends
  <2>6. Has(toBroker', Pkt("PUBREL", i)) =>
          \/ Has(toBroker, Pkt("PUBREL", i))
          \/ i \in ToSend /\ flow[i] = "Pubrel"
    BY <2>4, PassSends
  <2>7. Before(toBroker', Pkt("PUBREL", i), Pkt("PUBLISH", i)) =>
          \/ Before(toBroker, Pkt("PUBREL", i), Pkt("PUBLISH", i))
          \/ /\ Has(toBroker, Pkt("PUBREL", i)) \/ flow[i] = "Pubrel"
             /\ i \in ToSend /\ flow[i] # "Pubrel"
    BY <2>3, <2>4, PassSends
  <2>8. flow[i] = "None" => handler[i] = "pending"
    BY DEF FlowInv, HandlersMatchFlows, Stored
  <2>9. flow[i] = "Publish" => handler[i] = "pending"
    BY DEF FlowInv, HandlersMatchFlows, Stored
  <2>10. i \in ToSend => i \in Admitted \/ i \in due
    BY DEF ToSend
  <2>11. flow'[i] = IF i \in Admitted THEN "Publish" ELSE flow[i]
    BY <2>1
  <2>12. CASE i \in ToSend
    <3>1. CASE flow[i] = "Pubrel"
      <4>1. i \notin Admitted /\ flow'[i] = "Pubrel"
        BY <2>2, <2>11, <3>1
      <4>2. ~Has(toBroker', Pkt("PUBLISH", i)) \/ Has(toBroker, Pkt("PUBLISH", i))
        BY <2>5, <3>1
      <4>3. ~Before(toBroker', Pkt("PUBREL", i), Pkt("PUBLISH", i))
              \/ Before(toBroker, Pkt("PUBREL", i), Pkt("PUBLISH", i))
        BY <2>7, <3>1
      <4>4. ~Before(toBroker, Pkt("PUBREL", i), Pkt("PUBLISH", i))
              \/ Has(toBroker, Pkt("PUBREL", i))
        BY DEF Before, Has
      <4> QED
        BY <1>0, <3>1, <4>1, <4>2, <4>3, <4>4 DEF OutOf
    <3>2. CASE flow[i] # "Pubrel"
      <4>1. flow[i] \in {"None", "Publish"} /\ flow'[i] = "Publish" /\ handler[i] = "pending"
        BY <2>2, <2>8, <2>9, <2>10, <2>11, <2>12, <3>2
      <4>2. ~Has(toBroker, Pkt("PUBREL", i)) /\ ~Has(toBroker', Pkt("PUBREL", i))
        BY <1>0, <2>6, <4>1 DEF OutOf
      <4>3. delivered[i] = 1 => i \in bIn
        BY <1>0, <4>1 DEF OutOf
      <4> QED
        BY <1>0, <4>1, <4>2, <4>3 DEF OutOf
    <3> QED
      BY <3>1, <3>2
  <2>13. CASE i \notin ToSend
    <3>1. flow'[i] = flow[i]
      BY <2>11, <2>13 DEF ToSend
    <3> QED
      BY <1>0, <2>5, <2>6, <2>7, <2>13, <3>1 DEF OutOf
  <2> QED
    BY <2>12, <2>13
<1> QED
  BY <1>1, <1>2

LEMMA OutReceive ==
  ASSUME TypeOK, FlowInv, OutInv, Receive
  PROVE  OutInv'
<1>1. CASE HandleConnack
  BY <1>1, OutPass, ReceivesPackets DEF HandleConnack, Receives, brokerVars
<1>2. CASE HandleRefusal
  BY <1>2, OutCalm, FewPackets DEF HandleRefusal, CloseInternal, brokerVars, OutInv
<1>3. ASSUME NEW j \in Ids, HandlePubrec(j), NEW i \in Ids
      PROVE  OutOf(i)'
  <2>0. OutOf(i) /\ OutOf(j)
    BY DEF OutInv
  <2>1. /\ flow' = [flow EXCEPT ![j] = IF @ = "Publish" THEN "Pubrel" ELSE @]
        /\ UNCHANGED <<delivered, bIn, handler>>
        /\ Send(Pkt("PUBREL", j)) /\ Receives("PUBREC", j)
    BY <1>3 DEF HandlePubrec, Receives, brokerVars
  <2>2. delivered[j] = 1 /\ flow[j] # "None"
    BY <2>0, <2>1, ReceivesPackets DEF OutOf
  <2>3. \A x : Has(toClient', x) => Has(toClient, x)
    BY <2>1, ReceivesPackets
  <2>4. /\ Has(toBroker', Pkt("PUBLISH", i)) => Has(toBroker, Pkt("PUBLISH", i))
        /\ Has(toBroker', Pkt("PUBREL", i)) => Has(toBroker, Pkt("PUBREL", i)) \/ i = j
        /\ Before(toBroker', Pkt("PUBREL", i), Pkt("PUBLISH", i))
             => Before(toBroker, Pkt("PUBREL", i), Pkt("PUBLISH", i))
    BY <2>1, SendPackets, PacketsOut, SamePacket
  <2>5. Before(toBroker, Pkt("PUBREL", i), Pkt("PUBLISH", i)) => Has(toBroker, Pkt("PUBREL", i))
    BY DEF Before, Has
  <2>6. CASE i = j
    <3>1. flow[j] \in {"free", "Publish", "Pubrel"} /\ flow'[j] \in {"free", "Pubrel"}
          /\ (flow'[j] = "free" <=> flow[j] = "free")
      BY <2>1, <2>2 DEF TypeOK
    <3> QED
      BY <2>0, <2>1, <2>2, <2>3, <2>4, <2>5, <2>6, <3>1 DEF OutOf
  <2>7. CASE i # j
    <3>1. flow'[i] = flow[i]
      BY <2>1, <2>7 DEF TypeOK
    <3> QED
      BY <2>0, <2>1, <2>3, <2>4, <2>7, <3>1 DEF OutOf
  <2> QED
    BY <2>6, <2>7
<1>4. ASSUME NEW j \in Ids, HandlePubcomp(j), NEW i \in Ids
      PROVE  OutOf(i)'
  <2>0. OutOf(i)
    BY DEF OutInv
  <2>1. \A x : Has(toClient', x) => Has(toClient, x)
    BY <1>4, ReceivesPackets DEF HandlePubcomp
  <2>2. UNCHANGED <<delivered, bIn, toBroker>>
    BY <1>4 DEF HandlePubcomp, Receives, brokerVars
  <2>3. CASE flow[j] = "Pubrel" /\ i = j
    <3>1. flow'[i] = "free" /\ (handler'[i] = handler[i] \/ handler'[i] = "delivered")
      BY <1>4, <2>3 DEF HandlePubcomp, TypeOK
    <3> QED
      BY <2>0, <2>1, <2>2, <2>3, <3>1 DEF OutOf
  <2>4. CASE ~(flow[j] = "Pubrel" /\ i = j)
    <3>1. flow'[i] = flow[i] /\ handler'[i] = handler[i]
      BY <1>4, <2>4 DEF HandlePubcomp, TypeOK
    <3> QED
      BY <2>0, <2>1, <2>2, <3>1 DEF OutOf
  <2> QED
    BY <2>3, <2>4
<1>5. ASSUME NEW k \in InIds, HandlePublish(k), NEW i \in Ids
      PROVE  OutOf(i)'
  <2>1. \A x : Has(toClient', x) => Has(toClient, x)
    BY <1>5, ReceivesPackets DEF HandlePublish
  <2>2. /\ \A x : Has(toBroker', x) => Has(toBroker, x) \/ x = Pkt("PUBREC", k)
        /\ \A a, b : Before(toBroker', a, b) => Before(toBroker, a, b) \/ b = Pkt("PUBREC", k)
    BY <1>5, SendPackets, PacketsOut DEF HandlePublish
  <2> QED
    BY <1>5, <2>1, <2>2, OutCalm, SamePacket DEF HandlePublish, Receives, brokerVars, OutInv
<1>6. ASSUME NEW k \in InIds, HandlePubrel(k), NEW i \in Ids
      PROVE  OutOf(i)'
  <2>1. \A x : Has(toClient', x) => Has(toClient, x)
    BY <1>6, ReceivesPackets DEF HandlePubrel
  <2>2. /\ \A x : Has(toBroker', x) => Has(toBroker, x) \/ x = Pkt("PUBCOMP", k)
        /\ \A a, b : Before(toBroker', a, b) => Before(toBroker, a, b) \/ b = Pkt("PUBCOMP", k)
    BY <1>6, SendPackets, PacketsOut DEF HandlePubrel
  <2> QED
    BY <1>6, <2>1, <2>2, OutCalm, SamePacket DEF HandlePubrel, Receives, brokerVars, OutInv
<1> QED
  BY <1>1, <1>2, <1>3, <1>4, <1>5, <1>6 DEF Receive, OutInv

LEMMA OutBrokerReceive ==
  ASSUME TypeOK, ConnInv, OutInv, BrokerReceive
  PROVE  OutInv'
<1>0. \A t, i : Takes(t, i) => UNCHANGED <<flow, handler>>
  BY DEF Takes, clientVars
<1>1. ASSUME BrokerAccept, NEW i \in Ids
      PROVE  OutOf(i)'
  <2>0. OutOf(i)
    BY DEF OutInv
  <2>1. Opening /\ Takes("CONNECT", 0) /\ delivered' = delivered /\ toClient = <<>>
    BY <1>1, TakesPackets DEF BrokerAccept, Opening, ConnInv
  <2>2. toBroker' = <<>>
    <3>1. Tail(<<Pkt("CONNECT", 0)>>) = <<>>
      OBVIOUS
    <3> QED
      BY <2>1, <3>1 DEF ConnInv, Takes
  <2>3. ~Has(toClient', Pkt("PUBREC", i)) /\ ~Has(toClient', Pkt("PUBCOMP", i))
    <3>1. CASE clean
      <4>1. Reply(<<Pkt("CONNACK", 0)>>)
        BY <1>1, <3>1 DEF BrokerAccept
      <4>2. \A x : Has(toClient', x) => x = Pkt("CONNACK", 0)
        BY <2>1, <4>1, AnswerPackets, PacketsIn, FewPackets
      <4> QED
        BY <4>2, SamePacket
    <3>2. CASE ~clean
      <4>1. PICK f \in Enumerations(Unacknowledged) :
              Reply(<<Pkt("CONNACK", 0)>> \o Repeated(f))
        BY <1>1, <3>2 DEF BrokerAccept
      <4> QED
        BY <2>1, <4>1, ResumePackets, SamePacket
    <3> QED
      BY <3>1, <3>2
  <2>4. clean => flow[i] \in {"free", "None"}
    BY <2>1 DEF ConnInv
  <2>5. bIn' = IF clean THEN {} ELSE bIn
    BY <1>1 DEF BrokerAccept
  <2>6. \A x : ~Has(toBroker', x)
    BY <2>2, FewPackets
  <2> QED
    BY <1>0, <2>0, <2>1, <2>3, <2>4, <2>5, <2>6 DEF OutOf
<1>2. ASSUME BrokerRefuse, NEW i \in Ids
      PROVE  OutOf(i)'
  <2>1. /\ \A x : Has(toBroker', x) => Has(toBroker, x)
        /\ \A a, b : Before(toBroker', a, b) => Before(toBroker, a, b)
    BY <1>2, TakesPackets DEF BrokerRefuse
  <2>2. \A x : Has(toClient', x) => Has(toClient, x) \/ x = Pkt("REFUSED", 0)
    BY <1>2, AnswerPackets, PacketsIn DEF BrokerRefuse
  <2> QED
    BY <1>0, <1>2, <2>1, <2>2, OutCalm, SamePacket DEF BrokerRefuse, brokerVars, OutInv
<1>3. ASSUME NEW j \in Ids, BrokerPublish(j), NEW i \in Ids
      PROVE  OutOf(i)'
  <2>0. OutOf(i) /\ OutOf(j) /\ UNCHANGED <<flow, handler>>
    BY <1>0, <1>3 DEF OutInv, BrokerPublish
  <2>1. /\ \A x : Has(toBroker', x) => Has(toBroker, x)
        /\ \A a, b : Before(toBroker', a, b) => Before(toBroker, a, b)
        /\ Has(toBroker, Pkt("PUBLISH", j))
    BY <1>3, TakesPackets DEF BrokerPublish
  <2>2. \A x : Has(toClient', x) => Has(toClient, x) \/ x = Pkt("PUBREC", j)
    BY <1>3, AnswerPackets, PacketsIn DEF BrokerPublish
  <2>3. /\ bIn' = bIn \union {j}
        /\ delivered' = IF j \in bIn THEN delivered ELSE [delivered EXCEPT ![j] = @ + 1]
    BY <1>3 DEF BrokerPublish
  <2>4. delivered'[j] = 1
    BY <2>0, <2>1, <2>3 DEF OutOf, TypeOK
  <2>5. CASE i = j
    <3>1. Has(toBroker', Pkt("PUBREL", i)) => Has(toBroker, Pkt("PUBREL", i))
      BY <2>1
    <3> QED
      BY <2>0, <2>1, <2>3, <2>4, <2>5, <3>1 DEF OutOf
  <2>6. CASE i # j
    <3>1. delivered'[i] = delivered[i] /\ (i \in bIn' <=> i \in bIn)
      BY <2>3, <2>6 DEF TypeOK
    <3>2. Has(toClient', Pkt("PUBREC", i)) => Has(toClient, Pkt("PUBREC", i))
      BY <2>2, <2>6, SamePacket
    <3>3. Has(toClient', Pkt("PUBCOMP", i)) => Has(toClient, Pkt("PUBCOMP", i))
      BY <2>2, SamePacket
    <3> QED
      BY <2>0, <2>1, <3>1, <3>2, <3>3 DEF OutOf
  <2> QED
    BY <2>5, <2>6
<1>4. ASSUME NEW j \in Ids, BrokerPubrel(j), NEW i \in Ids
      PROVE  OutOf(i)'
  <2>0. OutOf(i) /\ OutOf(j) /\ UNCHANGED <<flow, handler, delivered>>
    BY <1>0, <1>4 DEF OutInv, BrokerPubrel
  <2>1. /\ \A x : Has(toBroker', x) => Has(toBroker, x) /\ Before(toBroker, Pkt("PUBREL", j), x)
        /\ \A a, b : Before(toBroker', a, b) => Before(toBroker, a, b)
        /\ Has(toBroker, Pkt("PUBREL", j))
    BY <1>4, TakesPackets DEF BrokerPubrel
  <2>2. \A x : Has(toClient', x) => Has(toClient, x) \/ x = Pkt("PUBCOMP", j)
    BY <1>4, AnswerPackets, PacketsIn DEF BrokerPubrel
  <2>3. bIn' = bIn \ {j}
    BY <1>4 DEF BrokerPubrel
  <2>4. /\ delivered[j] = 1 /\ flow[j] \in {"Pubrel", "free"}
        /\ ~Has(toBroker', Pkt("PUBLISH", j))
    BY <2>0, <2>1 DEF OutOf
  <2>5. /\ Has(toClient', Pkt("PUBREC", i)) => Has(toClient, Pkt("PUBREC", i))
        /\ Has(toClient', Pkt("PUBCOMP", i)) => Has(toClient, Pkt("PUBCOMP", i)) \/ i = j
    BY <2>2, SamePacket
  <2> QED
    BY <2>0, <2>1, <2>3, <2>4, <2>5 DEF OutOf
<1>5. ASSUME NEW k \in InIds, BrokerPubrec(k), NEW i \in Ids
      PROVE  OutOf(i)'
  <2>1. /\ \A x : Has(toBroker', x) => Has(toBroker, x)
        /\ \A a, b : Before(toBroker', a, b) => Before(toBroker, a, b)
    BY <1>5, TakesPackets DEF BrokerPubrec
  <2>2. \A x : Has(toClient', x) => Has(toClient, x) \/ x = Pkt("PUBREL", k)
    BY <1>5, AnswerPackets, PacketsIn DEF BrokerPubrec
  <2> QED
    BY <1>0, <1>5, <2>1, <2>2, OutCalm, SamePacket DEF BrokerPubrec, OutInv
<1>6. ASSUME NEW k \in InIds, BrokerPubcomp(k), NEW i \in Ids
      PROVE  OutOf(i)'
  <2>1. /\ \A x : Has(toBroker', x) => Has(toBroker, x)
        /\ \A a, b : Before(toBroker', a, b) => Before(toBroker, a, b)
    BY <1>6, TakesPackets DEF BrokerPubcomp
  <2> QED
    BY <1>0, <1>6, <2>1, OutCalm DEF BrokerPubcomp, OutInv
<1> QED
  BY <1>1, <1>2, <1>3, <1>4, <1>5, <1>6 DEF BrokerReceive, OutInv

LEMMA NextOut ==
  ASSUME TypeOK, FlowInv, ConnInv, OutInv, [Next]_vars
  PROVE  OutInv'
<1>1. ASSUME Connect, NEW i \in Ids
      PROVE  OutOf(i)'
  <2>1. OutOf(i) /\ toBroker' = <<>> /\ UNCHANGED <<toClient, delivered, bIn>>
    BY <1>1 DEF OutInv, Connect, brokerVars
  <2>2. /\ \A x : ~Has(toBroker', x)
        /\ \A a, b : ~Before(toBroker', a, b)
    BY <2>1, FewPackets
  <2>3. CASE clean
    <3>1. /\ flow'[i] = "free" /\ handler' = HandlersForgotten
      BY <1>1, <2>3 DEF Connect
    <3>2. handler[i] \notin {"unused", "dropped"} => handler'[i] \notin {"unused", "dropped"}
      BY <3>1 DEF HandlersForgotten
    <3> QED
      BY <2>1, <2>2, <3>1, <3>2 DEF OutOf
  <2>4. CASE ~clean
    BY <1>1, <2>1, <2>2, <2>4, OutCalm DEF Connect
  <2> QED
    BY <2>3, <2>4
<1>2. CASE TransportDidOpen
  BY <1>2, OutCalm, FewPackets, SamePacket
     DEF TransportDidOpen, clientVars, brokerVars, OutInv
<1>3. CASE Break \/ UNCHANGED vars
  BY <1>3, OutCalm DEF Break, vars, clientVars, brokerVars, OutInv
<1>4. CASE TransportDidClose \/ Close
  BY <1>4, OutCalm, FewPackets DEF TransportDidClose, Close, CloseInternal, brokerVars, OutInv
<1>5. CASE CheckDup
  BY <1>5, OutPass DEF CheckDup, brokerVars
<1>6. CASE Receive
  BY <1>6, OutReceive
<1>7. ASSUME NEW j \in Ids, Publish(j), NEW i \in Ids
      PROVE  OutOf(i)'
  <2>0. OutOf(i) /\ OutOf(j) /\ UNCHANGED <<toClient, delivered, bIn>>
    BY <1>7 DEF Publish, OutInv, brokerVars
  <2>1. handler[j] = "unused" /\ flow[j] = "free"
    <3>1. j = txMsgId + 1 /\ txMsgId \in Nat
      BY <1>7 DEF Publish, TypeOK
    <3> QED
      BY <3>1 DEF FlowInv, HandlersMatchFlows, Stored
  <2>2. delivered[j] = 0 /\ ~Has(toBroker, Pkt("PUBLISH", j)) /\ ~Has(toBroker, Pkt("PUBREL", j))
    BY <2>0, <2>1 DEF OutOf
  <2>3. /\ Has(toBroker', Pkt("PUBREL", i)) => Has(toBroker, Pkt("PUBREL", i))
        /\ Has(toBroker', Pkt("PUBLISH", i)) =>
             Has(toBroker, Pkt("PUBLISH", i)) \/ (i = j /\ flow'[j] = "Publish" /\ handler'[j] = "pending")
        /\ Before(toBroker', Pkt("PUBREL", i), Pkt("PUBLISH", i)) =>
             \/ Before(toBroker, Pkt("PUBREL", i), Pkt("PUBLISH", i))
             \/ Has(toBroker, Pkt("PUBREL", i)) /\ i = j
    <3>1. CASE toBroker' = toBroker
      BY <3>1
    <3>2. CASE toBroker' # toBroker
      <4>1. toBroker' = Append(toBroker, Pkt("PUBLISH", j)) /\ flow'[j] = "Publish"
            /\ handler'[j] = "pending"
        BY <1>7, <3>2 DEF Publish, TypeOK
      <4> QED
        BY <4>1, Appended, PacketsOut, SamePacket DEF TypeOK
    <3> QED
      BY <3>1, <3>2
  <2>4. CASE i = j
    <3>1. flow'[j] \in {"free", "None", "Publish"}
      BY <1>7, <2>1 DEF Publish, TypeOK
    <3>2. i \notin bIn
      BY <2>0, <2>2, <2>4 DEF OutOf
    <3> QED
      BY <2>0, <2>2, <2>3, <2>4, <3>1, <3>2 DEF OutOf
  <2>5. CASE i # j
    <3>1. flow'[i] = flow[i] /\ handler'[i] = handler[i]
      BY <1>7, <2>5 DEF Publish, TypeOK
    <3> QED
      BY <2>0, <2>3, <2>5, <3>1 DEF OutOf
  <2> QED
    BY <2>4, <2>5
<1>8. ASSUME NEW j \in Ids, Timeout(j)
      PROVE  OutInv'
  BY <1>8, OutCalm DEF Timeout, brokerVars, OutInv
<1>9. CASE BrokerReceive
  BY <1>9, OutBrokerReceive
<1>10. ASSUME NEW k \in InIds, BrokerForward(k)
       PROVE  OutInv'
  <2>1. \A x : Has(toClient', x) => Has(toClient, x) \/ x = Pkt("PUBLISH", k)
    BY <1>10, Appended, PacketsIn DEF BrokerForward, TypeOK
  <2> QED
    BY <1>10, <2>1, OutCalm, SamePacket DEF BrokerForward, clientVars, OutInv
<1> QED
  BY <1>1, <1>2, <1>3, <1>4, <1>5, <1>6, <1>7, <1>8, <1>9, <1>10 DEF Next, OutInv

\* What every reachable state of the session satisfies, for both directions.
LEMMA Reachable == Spec => [](TypeOK /\ FlowInv /\ ConnInv /\ OutInv)
<1>1. Init => FlowInv /\ ConnInv /\ OutInv
  <2> SUFFICES ASSUME Init PROVE FlowInv /\ ConnInv /\ OutInv
    OBVIOUS
  <2>1. FlowInv
    BY InitFlows
  <2>2. \A x : ~Has(toBroker, x) /\ ~Has(toClient, x)
    BY FewPackets DEF Init
  <2>3. ConnInv
    BY <2>2 DEF Init, ConnInv, Opening
  <2>4. OutInv
    BY <2>2 DEF Init, OutInv, OutOf
  <2> QED
    BY <2>1, <2>3, <2>4
<1>2. TypeOK /\ TypeOK' /\ FlowInv /\ ConnInv /\ OutInv /\ [Next]_vars
        => (FlowInv /\ ConnInv /\ OutInv)'
  BY NextFlows, NextConn, NextOut
<1> QED
  BY <1>1, <1>2, TypeCorrect, PTL DEF Spec

\* The outgoing direction implements MqttDelivery: the broker passes a message
\* on at most once, and a handler reports success only after it did, whatever
\* is lost, repeated, refused or forgotten on the way.
THEOREM OutRefines == Spec => OutDelivered
<1> DEFINE given == {i \in Ids : handler[i] \notin {"unused", "dropped"}}
           confirmed == {i \in Ids : handler[i] = "delivered"}
<1>1. Init => Out!Init
  BY DEF Init, Out!Init
<1>2. TypeOK /\ FlowInv /\ ConnInv /\ OutInv /\ [Next]_vars => [Out!Next]_(Out!vars)
  <2> SUFFICES ASSUME TypeOK, FlowInv, ConnInv, OutInv, [Next]_vars
               PROVE  [Out!Next]_(Out!vars)
    OBVIOUS
  <2>0. handler \in [Ids -> HandlerTypes]
    BY DEF TypeOK, HandlerTypes
  <2>1. ASSUME given' = given, confirmed' = confirmed, delivered' = delivered
        PROVE  UNCHANGED Out!vars
    BY <2>1 DEF Out!vars
  <2>2. ASSUME handler' = handler, delivered' = delivered
        PROVE  UNCHANGED Out!vars
    BY <2>1, <2>2
  <2>3. CASE Connect
    <3>1. delivered' = delivered
      BY <2>3 DEF Connect, brokerVars
    <3>2. \A i \in Ids : /\ handler'[i] \in {"unused", "dropped"} <=> handler[i] \in {"unused", "dropped"}
                         /\ handler'[i] = "delivered" <=> handler[i] = "delivered"
      BY <2>3 DEF Connect, HandlersForgotten
    <3>3. given' = given /\ confirmed' = confirmed
      BY <3>2
    <3> QED
      BY <2>1, <3>1, <3>3
  <2>4. ASSUME NEW i \in Ids, Publish(i)
        PROVE  [Out!Next]_(Out!vars)
    <3>1. /\ delivered' = delivered
          /\ \/ handler' = [handler EXCEPT ![i] = "dropped"]
             \/ handler' = [handler EXCEPT ![i] = "pending"]
      BY <2>4 DEF Publish, brokerVars
    <3>2. handler[i] = "unused"
      <4>1. i = txMsgId + 1 /\ txMsgId \in Nat
        BY <2>4 DEF Publish, TypeOK
      <4> QED
        BY <4>1 DEF FlowInv
    <3>3. confirmed' = confirmed
      BY <2>0, <3>1, <3>2
    <3>4. CASE handler' = [handler EXCEPT ![i] = "dropped"]
      <4>1. given' = given
        BY <2>0, <3>2, <3>4
      <4> QED
        BY <2>1, <3>1, <3>3, <4>1
    <3>5. CASE handler' = [handler EXCEPT ![i] = "pending"]
      <4>1. i \notin given /\ given' = given \union {i}
        BY <2>0, <3>2, <3>5
      <4>2. Out!Give(i)
        BY <3>1, <3>3, <4>1 DEF Out!Give
      <4> QED
        BY <4>2 DEF Out!Next
    <3> QED
      BY <3>1, <3>4, <3>5
  <2>5. ASSUME NEW i \in Ids, HandlePubcomp(i)
        PROVE  [Out!Next]_(Out!vars)
    <3>1. delivered' = delivered
      BY <2>5 DEF HandlePubcomp, Receives, brokerVars
    <3>2. CASE flow[i] = "Pubrel" /\ handler[i] = "pending"
      <4>1. handler' = [handler EXCEPT ![i] = "delivered"]
        BY <2>0, <2>5, <3>2 DEF HandlePubcomp
      <4>2. given' = given /\ confirmed' = confirmed \union {i} /\ i \notin confirmed
        BY <2>0, <3>2, <4>1
      <4>3. delivered[i] = 1
        BY <3>2 DEF OutInv, OutOf
      <4>4. Out!Confirm(i)
        BY <3>1, <4>2, <4>3 DEF Out!Confirm
      <4> QED
        BY <4>4 DEF Out!Next
    <3>3. CASE ~(flow[i] = "Pubrel" /\ handler[i] = "pending")
      <4>1. handler' = handler
        BY <2>0, <2>5, <3>3 DEF HandlePubcomp
      <4> QED
        BY <2>2, <3>1, <4>1
    <3> QED
      BY <3>2, <3>3
  <2>6. ASSUME NEW i \in Ids, BrokerPublish(i)
        PROVE  [Out!Next]_(Out!vars)
    <3>1. handler' = handler
      BY <2>6 DEF BrokerPublish, Takes, clientVars
    <3>2. CASE i \in bIn
      BY <2>2, <2>6, <3>1, <3>2 DEF BrokerPublish
    <3>3. CASE i \notin bIn
      <4>1. Has(toBroker, Pkt("PUBLISH", i))
        BY <2>6, TakesPackets DEF BrokerPublish
      <4>2. delivered[i] = 0 /\ i \in given
        BY <3>3, <4>1 DEF OutInv, OutOf
      <4>3. delivered' = [delivered EXCEPT ![i] = 1]
        BY <2>6, <3>3, <4>2 DEF BrokerPublish
      <4>4. given' = given /\ confirmed' = confirmed
        BY <3>1
      <4>5. Out!Deliver(i)
        BY <4>2, <4>3, <4>4 DEF Out!Deliver
      <4> QED
        BY <4>5 DEF Out!Next
    <3> QED
      BY <3>2, <3>3
  <2>7. CASE Receive
    <3>1. ASSUME ~ \E i \in Ids : HandlePubcomp(i)
          PROVE  UNCHANGED <<handler, delivered>>
      BY <2>7, <3>1 DEF Receive, HandleConnack, HandleRefusal, HandlePubrec, HandlePublish,
                        HandlePubrel, Receives, CloseInternal, brokerVars
    <3> QED
      BY <2>2, <2>5, <3>1
  <2>8. CASE BrokerReceive
    <3>1. ASSUME ~ \E i \in Ids : BrokerPublish(i)
          PROVE  UNCHANGED <<handler, delivered>>
      BY <2>8, <3>1 DEF BrokerReceive, BrokerAccept, BrokerRefuse, BrokerPubrel, BrokerPubrec,
                        BrokerPubcomp, Takes, clientVars, brokerVars
    <3> QED
      BY <2>2, <2>6, <3>1
  <2>9. CASE \/ TransportDidOpen \/ Break \/ TransportDidClose \/ Close \/ CheckDup
             \/ (\E i \in Ids : Timeout(i)) \/ (\E k \in InIds : BrokerForward(k))
             \/ UNCHANGED vars
    <3>1. UNCHANGED <<handler, delivered>>
      BY <2>9 DEF TransportDidOpen, Break, TransportDidClose, Close, CloseInternal, CheckDup,
                  Timeout, BrokerForward, vars, clientVars, brokerVars
    <3> QED
      BY <2>2, <3>1
  <2> QED
    BY <2>3, <2>4, <2>7, <2>8, <2>9 DEF Next
<1> QED
  BY <1>1, <1>2, Reachable, PTL DEF Spec, OutDelivered, Out!Spec

-----------------------------------------------------------------------------
(* Incoming messages: the same in the other direction.                      *)

\* A PUBLISH is on its way to the client at most once and only before its
\* PUBREC and before newMessage, so a delivered message is not stored again.
InOf(k) ==
  /\ received[k] \in {0, 1}
  /\ k \in inFlow => received[k] = 0 /\ bOut[k] # "new"
  /\ Has(toClient, Pkt("PUBLISH", k)) => received[k] = 0 /\ bOut[k] = "published"
  /\ ~Before(toClient, Pkt("PUBLISH", k), Pkt("PUBLISH", k))
  /\ Has(toClient, Pkt("PUBREL", k)) => bOut[k] \in {"released", "done", "lost"}
  /\ Has(toBroker, Pkt("PUBREC", k)) =>
       bOut[k] # "new" /\ ~Has(toClient, Pkt("PUBLISH", k))
  /\ received[k] = 1 => bOut[k] \in {"released", "done", "lost"}
  /\ Has(toBroker, Pkt("PUBCOMP", k)) => received[k] = 1
  /\ bOut[k] = "done" => received[k] = 1

InInv == \A k \in InIds : InOf(k)

\* A step that adds no packet of an incoming message.
LEMMA InCalm ==
  ASSUME NEW k \in InIds, InOf(k), UNCHANGED <<received, bOut>>, inFlow' \subseteq inFlow,
         \A x : Has(toClient', x) /\ x.type \in {"PUBLISH", "PUBREL"} => Has(toClient, x),
         \A a, b : Before(toClient', a, b) /\ b.type = "PUBLISH" => Before(toClient, a, b),
         \A x : Has(toBroker', x) /\ x.type \in {"PUBREC", "PUBCOMP"} => Has(toBroker, x)
  PROVE  InOf(k)'
<1>1. \A t, i : Pkt(t, i).type = t
  BY DEF Pkt
<1> QED
  BY <1>1 DEF InOf

LEMMA InReceive ==
  ASSUME TypeOK, InInv, Receive
  PROVE  InInv'
<1>0. \A t, i : Pkt(t, i).type = t
  BY DEF Pkt
<1>1. CASE HandleConnack
  <2>1. \A x : Has(toBroker', x) /\ x.type \in {"PUBREC", "PUBCOMP"} => Has(toBroker, x)
    BY <1>0, <1>1, PassSends DEF HandleConnack, Again
  <2> QED
    BY <1>1, <2>1, InCalm, ReceivesPackets DEF HandleConnack, Receives, brokerVars, InInv
<1>2. CASE HandleRefusal
  BY <1>2, InCalm, FewPackets DEF HandleRefusal, CloseInternal, brokerVars, InInv
<1>3. ASSUME NEW i \in Ids, HandlePubrec(i)
      PROVE  InInv'
  <2>1. \A x : Has(toBroker', x) /\ x.type \in {"PUBREC", "PUBCOMP"} => Has(toBroker, x)
    BY <1>0, <1>3, SendPackets, PacketsOut DEF HandlePubrec
  <2> QED
    BY <1>3, <2>1, InCalm, ReceivesPackets DEF HandlePubrec, Receives, brokerVars, InInv
<1>4. ASSUME NEW i \in Ids, HandlePubcomp(i)
      PROVE  InInv'
  BY <1>4, InCalm, ReceivesPackets DEF HandlePubcomp, Receives, brokerVars, InInv
<1>5. ASSUME NEW j \in InIds, HandlePublish(j), NEW k \in InIds
      PROVE  InOf(k)'
  <2>0. InOf(k) /\ InOf(j) /\ UNCHANGED <<received, bOut>>
    BY <1>5 DEF InInv, HandlePublish, Receives, brokerVars
  <2>1. /\ Has(toClient, Pkt("PUBLISH", j))
        /\ \A x : Has(toClient', x) => Has(toClient, x) /\ Before(toClient, Pkt("PUBLISH", j), x)
        /\ \A a, b : Before(toClient', a, b) => Before(toClient, a, b)
    BY <1>5, ReceivesPackets DEF HandlePublish
  <2>2. /\ inFlow' \subseteq inFlow \union {j}
        /\ \A x : Has(toBroker', x) => Has(toBroker, x) \/ x = Pkt("PUBREC", j)
    BY <1>5, SendPackets, PacketsOut DEF HandlePublish
  <2>3. received[j] = 0 /\ bOut[j] = "published" /\ ~Has(toClient', Pkt("PUBLISH", j))
    BY <2>0, <2>1 DEF InOf
  <2>4. /\ Has(toBroker', Pkt("PUBREC", k)) => Has(toBroker, Pkt("PUBREC", k)) \/ k = j
        /\ Has(toBroker', Pkt("PUBCOMP", k)) => Has(toBroker, Pkt("PUBCOMP", k))
    BY <2>2, SamePacket
  <2> QED
    BY <2>0, <2>1, <2>2, <2>3, <2>4 DEF InOf
<1>6. ASSUME NEW j \in InIds, HandlePubrel(j), NEW k \in InIds
      PROVE  InOf(k)'
  <2>0. InOf(k) /\ InOf(j) /\ UNCHANGED bOut
    BY <1>6 DEF InInv, HandlePubrel, Receives, brokerVars
  <2>1. /\ Has(toClient, Pkt("PUBREL", j))
        /\ \A x : Has(toClient', x) => Has(toClient, x)
        /\ \A a, b : Before(toClient', a, b) => Before(toClient, a, b)
    BY <1>6, ReceivesPackets DEF HandlePubrel
  <2>2. CASE j \in inFlow
    <3>1. /\ received' = [received EXCEPT ![j] = @ + 1] /\ inFlow' = inFlow \ {j}
          /\ Send(Pkt("PUBCOMP", j))
      BY <1>6, <2>2 DEF HandlePubrel, Deleted
    <3>2. \A x : Has(toBroker', x) => Has(toBroker, x) \/ x = Pkt("PUBCOMP", j)
      BY <3>1, SendPackets, PacketsOut
    <3>3. /\ Has(toBroker', Pkt("PUBREC", k)) => Has(toBroker, Pkt("PUBREC", k))
          /\ Has(toBroker', Pkt("PUBCOMP", k)) => Has(toBroker, Pkt("PUBCOMP", k)) \/ k = j
      BY <3>2, SamePacket
    <3>4. received[j] = 0 /\ bOut[j] \in {"released", "done", "lost"}
      BY <2>0, <2>1, <2>2 DEF InOf
    <3>5. received'[j] = 1
      BY <3>1, <3>4 DEF TypeOK
    <3>6. CASE k = j
      <4>1. ~Has(toClient', Pkt("PUBLISH", k))
        BY <2>0, <2>1, <3>4, <3>6 DEF InOf
      <4>2. ~Before(toClient', Pkt("PUBLISH", k), Pkt("PUBLISH", k))
        BY <2>0, <2>1 DEF InOf
      <4>3. k \notin inFlow'
        BY <3>1, <3>6
      <4> QED
        BY <2>0, <3>4, <3>5, <3>6, <4>1, <4>2, <4>3 DEF InOf
    <3>7. CASE k # j
      <4>1. received'[k] = received[k]
        BY <3>1, <3>7 DEF TypeOK
      <4> QED
        BY <2>0, <2>1, <3>1, <3>3, <3>7, <4>1 DEF InOf
    <3> QED
      BY <3>6, <3>7
  <2>3. CASE j \notin inFlow
    BY <1>6, <2>0, <2>1, <2>3, InCalm DEF HandlePubrel
  <2> QED
    BY <2>2, <2>3
<1> QED
  BY <1>1, <1>2, <1>3, <1>4, <1>5, <1>6 DEF Receive, InInv

LEMMA InBrokerReceive ==
  ASSUME TypeOK, ConnInv, InInv, BrokerReceive
  PROVE  InInv'
<1>0. \A t, i : Takes(t, i) => UNCHANGED <<received, inFlow>>
  BY DEF Takes, clientVars
<1>1. \A t, i : Pkt(t, i).type = t
  BY DEF Pkt
<1>2. ASSUME BrokerAccept, NEW k \in InIds
      PROVE  InOf(k)'
  <2>0. InOf(k)
    BY DEF InInv
  <2>1. Opening /\ Takes("CONNECT", 0) /\ toClient = <<>>
    BY <1>2, TakesPackets DEF BrokerAccept, Opening, ConnInv
  <2>2. \A x : ~Has(toBroker', x)
    <3>1. Tail(<<Pkt("CONNECT", 0)>>) = <<>>
      OBVIOUS
    <3>2. toBroker' = <<>>
      BY <2>1, <3>1 DEF ConnInv, Takes
    <3> QED
      BY <3>2, FewPackets
  <2>3. CASE clean
    <3>1. bOut' = [j \in InIds |-> IF j \in Unacknowledged THEN "lost" ELSE bOut[j]]
          /\ Reply(<<Pkt("CONNACK", 0)>>)
      BY <1>2, <2>3 DEF BrokerAccept
    <3>2. /\ \A x : Has(toClient', x) => x = Pkt("CONNACK", 0)
          /\ \A a, b : Before(toClient', a, b) => b = Pkt("CONNACK", 0)
      BY <2>1, <3>1, AnswerPackets, PacketsIn, FewPackets
    <3>3. ~Has(toClient', Pkt("PUBLISH", k)) /\ ~Has(toClient', Pkt("PUBREL", k))
          /\ ~Before(toClient', Pkt("PUBLISH", k), Pkt("PUBLISH", k))
      BY <3>2, SamePacket
    <3>4. bOut'[k] = IF bOut[k] \in {"published", "released"} THEN "lost" ELSE bOut[k]
      BY <3>1 DEF Unacknowledged
    <3> QED
      BY <1>0, <2>0, <2>1, <2>2, <3>3, <3>4 DEF InOf
  <2>4. CASE ~clean
    <3>1. PICK f \in Enumerations(Unacknowledged) :
            Reply(<<Pkt("CONNACK", 0)>> \o Repeated(f))
      BY <1>2, <2>4 DEF BrokerAccept
    <3>2. /\ Has(toClient', Pkt("PUBLISH", k)) => bOut[k] = "published"
          /\ Has(toClient', Pkt("PUBREL", k)) => bOut[k] = "released"
          /\ ~Before(toClient', Pkt("PUBLISH", k), Pkt("PUBLISH", k))
      BY <2>1, <3>1, ResumePackets, SamePacket
    <3>3. bOut' = bOut
      BY <1>2, <2>4 DEF BrokerAccept
    <3> QED
      BY <1>0, <2>0, <2>1, <2>2, <3>2, <3>3 DEF InOf
  <2> QED
    BY <2>3, <2>4
<1>3. CASE BrokerRefuse
  <2>1. \A x : Has(toBroker', x) => Has(toBroker, x)
    BY <1>3, TakesPackets DEF BrokerRefuse
  <2>2. /\ \A x : Has(toClient', x) => Has(toClient, x) \/ x = Pkt("REFUSED", 0)
        /\ \A a, b : Before(toClient', a, b) => Before(toClient, a, b) \/ b = Pkt("REFUSED", 0)
    BY <1>3, AnswerPackets, PacketsIn DEF BrokerRefuse
  <2> QED
    BY <1>0, <1>1, <1>3, <2>1, <2>2, InCalm DEF BrokerRefuse, brokerVars, InInv
<1>4. ASSUME NEW i \in Ids, BrokerPublish(i)
      PROVE  InInv'
  <2>1. \A x : Has(toBroker', x) => Has(toBroker, x)
    BY <1>4, TakesPackets DEF BrokerPublish
  <2>2. /\ \A x : Has(toClient', x) => Has(toClient, x) \/ x = Pkt("PUBREC", i)
        /\ \A a, b : Before(toClient', a, b) => Before(toClient, a, b) \/ b = Pkt("PUBREC", i)
    BY <1>4, AnswerPackets, PacketsIn DEF BrokerPublish
  <2> QED
    BY <1>0, <1>1, <1>4, <2>1, <2>2, InCalm DEF BrokerPublish, InInv
<1>5. ASSUME NEW i \in Ids, BrokerPubrel(i)
      PROVE  InInv'
  <2>1. \A x : Has(toBroker', x) => Has(toBroker, x)
    BY <1>5, TakesPackets DEF BrokerPubrel
  <2>2. /\ \A x : Has(toClient', x) => Has(toClient, x) \/ x = Pkt("PUBCOMP", i)
        /\ \A a, b : Before(toClient', a, b) => Before(toClient, a, b) \/ b = Pkt("PUBCOMP", i)
    BY <1>5, AnswerPackets, PacketsIn DEF BrokerPubrel
  <2> QED
    BY <1>0, <1>1, <1>5, <2>1, <2>2, InCalm DEF BrokerPubrel, InInv
<1>6. ASSUME NEW j \in InIds, BrokerPubrec(j), NEW k \in InIds
      PROVE  InOf(k)'
  <2>0. InOf(k) /\ InOf(j) /\ UNCHANGED <<received, inFlow>>
    BY <1>0, <1>6 DEF InInv, BrokerPubrec
  <2>1. /\ Has(toBroker, Pkt("PUBREC", j))
        /\ \A x : Has(toBroker', x) => Has(toBroker, x)
    BY <1>6, TakesPackets DEF BrokerPubrec
  <2>2. /\ \A x : Has(toClient', x) => Has(toClient, x) \/ x = Pkt("PUBREL", j)
        /\ \A a, b : Before(toClient', a, b) => Before(toClient, a, b) \/ b = Pkt("PUBREL", j)
    BY <1>6, AnswerPackets, PacketsIn DEF BrokerPubrec
  <2>3. bOut' = [bOut EXCEPT ![j] = IF @ = "published" THEN "released" ELSE @]
    BY <1>6 DEF BrokerPubrec
  <2>4. /\ Has(toClient', Pkt("PUBLISH", k)) => Has(toClient, Pkt("PUBLISH", k))
        /\ Has(toClient', Pkt("PUBREL", k)) => Has(toClient, Pkt("PUBREL", k)) \/ k = j
        /\ ~Before(toClient', Pkt("PUBLISH", k), Pkt("PUBLISH", k))
    BY <2>0, <2>2, SamePacket DEF InOf
  <2>5. CASE k = j
    <3>1. bOut[k] # "new" /\ ~Has(toClient, Pkt("PUBLISH", k))
      BY <2>0, <2>1, <2>5 DEF InOf
    <3>2. bOut'[k] \in {"released", "done", "lost"} /\ (bOut'[k] = "done" => bOut[k] = "done")
      BY <2>3, <2>5, <3>1 DEF TypeOK
    <3> QED
      BY <2>0, <2>1, <2>4, <3>1, <3>2 DEF InOf
  <2>6. CASE k # j
    <3>1. bOut'[k] = bOut[k]
      BY <2>3, <2>6 DEF TypeOK
    <3> QED
      BY <2>0, <2>1, <2>4, <2>6, <3>1 DEF InOf
  <2> QED
    BY <2>5, <2>6
<1>7. ASSUME NEW j \in InIds, BrokerPubcomp(j), NEW k \in InIds
      PROVE  InOf(k)'
  <2>0. InOf(k) /\ InOf(j) /\ UNCHANGED <<received, inFlow, toClient>>
    BY <1>0, <1>7 DEF InInv, BrokerPubcomp
  <2>1. /\ Has(toBroker, Pkt("PUBCOMP", j))
        /\ \A x : Has(toBroker', x) => Has(toBroker, x)
    BY <1>7, TakesPackets DEF BrokerPubcomp
  <2>2. bOut' = [bOut EXCEPT ![j] = IF @ = "released" THEN "done" ELSE @]
    BY <1>7 DEF BrokerPubcomp
  <2>3. received[j] = 1 /\ bOut[j] \in {"released", "done", "lost"}
    BY <2>0, <2>1 DEF InOf
  <2>4. bOut'[k] = bOut[k] \/ (k = j /\ bOut[k] = "released" /\ bOut'[k] = "done")
    BY <2>2 DEF TypeOK
  <2> QED
    BY <2>0, <2>1, <2>3, <2>4 DEF InOf
<1> QED
  BY <1>2, <1>3, <1>4, <1>5, <1>6, <1>7 DEF BrokerReceive, InInv

LEMMA NextIn ==
  ASSUME TypeOK, ConnInv, InInv, [Next]_vars
  PROVE  InInv'
<1>0. \A t, i : Pkt(t, i).type = t
  BY DEF Pkt
<1>1. CASE Connect
  <2>1. \A x : ~Has(toBroker', x)
    BY <1>1, FewPackets DEF Connect
  <2> QED
    BY <1>1, <2>1, InCalm DEF Connect, brokerVars, InInv
<1>2. CASE TransportDidOpen
  <2>1. \A x : Has(toBroker', x) => x = Pkt("CONNECT", 0)
    BY <1>2, FewPackets DEF TransportDidOpen
  <2> QED
    BY <1>0, <1>2, <2>1, InCalm DEF TransportDidOpen, clientVars, brokerVars, InInv
<1>3. CASE Break \/ UNCHANGED vars
  BY <1>3, InCalm DEF Break, vars, clientVars, brokerVars, InInv
<1>4. CASE TransportDidClose \/ Close
  BY <1>4, InCalm, FewPackets DEF TransportDidClose, Close, CloseInternal, brokerVars, InInv
<1>5. CASE CheckDup
  <2>1. \A x : Has(toBroker', x) /\ x.type \in {"PUBREC", "PUBCOMP"} => Has(toBroker, x)
    BY <1>0, <1>5, PassSends DEF CheckDup, Again
  <2> QED
    BY <1>5, <2>1, InCalm DEF CheckDup, brokerVars, InInv
<1>6. CASE Receive
  BY <1>6, InReceive
<1>7. ASSUME NEW i \in Ids, Publish(i)
      PROVE  InInv'
  <2>1. \A x : Has(toBroker', x) => Has(toBroker, x) \/ x = Pkt("PUBLISH", i)
    BY <1>7, Appended, PacketsOut DEF Publish, TypeOK
  <2> QED
    BY <1>0, <1>7, <2>1, InCalm DEF Publish, brokerVars, InInv
<1>8. ASSUME NEW i \in Ids, Timeout(i)
      PROVE  InInv'
  BY <1>8, InCalm DEF Timeout, brokerVars, InInv
<1>9. CASE BrokerReceive
  BY <1>9, InBrokerReceive
<1>10. ASSUME NEW j \in InIds, BrokerForward(j), NEW k \in InIds
       PROVE  InOf(k)'
  <2>0. InOf(k) /\ InOf(j) /\ UNCHANGED <<received, inFlow, toBroker>>
    BY <1>10 DEF InInv, BrokerForward, clientVars
  <2>1. /\ \A x : Has(toClient', x) => Has(toClient, x) \/ x = Pkt("PUBLISH", j)
        /\ \A a, b : Before(toClient', a, b) =>
             Before(toClient, a, b) \/ (b = Pkt("PUBLISH", j) /\ Has(toClient, a))
    BY <1>10, Appended, PacketsIn DEF BrokerForward, TypeOK
  <2>2. bOut[j] = "new" /\ bOut' = [bOut EXCEPT ![j] = "published"]
    BY <1>10 DEF BrokerForward
  <2>3. CASE k = j
    <3>1. bOut'[k] = "published"
      BY <2>2, <2>3 DEF TypeOK
    <3>2. /\ received[k] = 0 /\ k \notin inFlow
          /\ ~Has(toClient, Pkt("PUBLISH", k)) /\ ~Has(toClient, Pkt("PUBREL", k))
          /\ ~Has(toBroker, Pkt("PUBREC", k)) /\ ~Has(toBroker, Pkt("PUBCOMP", k))
      BY <2>0, <2>2, <2>3 DEF InOf
    <3>3. ~Has(toClient', Pkt("PUBREL", k))
          /\ ~Before(toClient', Pkt("PUBLISH", k), Pkt("PUBLISH", k))
      BY <2>0, <2>1, <3>2, SamePacket DEF InOf
    <3> QED
      BY <2>0, <3>1, <3>2, <3>3 DEF InOf
  <2>4. CASE k # j
    <3>1. bOut'[k] = bOut[k]
      BY <2>2, <2>4 DEF TypeOK
    <3>2. /\ Has(toClient', Pkt("PUBLISH", k)) => Has(toClient, Pkt("PUBLISH", k))
          /\ Has(toClient', Pkt("PUBREL", k)) => Has(toClient, Pkt("PUBREL", k))
          /\ ~Before(toClient', Pkt("PUBLISH", k), Pkt("PUBLISH", k))
      BY <2>0, <2>1, <2>4, SamePacket DEF InOf
    <3> QED
      BY <2>0, <3>1, <3>2 DEF InOf
  <2> QED
    BY <2>3, <2>4
<1> QED
  BY <1>1, <1>2, <1>3, <1>4, <1>5, <1>6, <1>7, <1>8, <1>9, <1>10 DEF Next, InInv

\* The incoming direction implements MqttDelivery: newMessage is called at most
\* once per message, and the broker's handshake ends only after it was.
THEOREM InRefines == Spec => InDelivered
<1> DEFINE given == {k \in InIds : bOut[k] # "new"}
           confirmed == {k \in InIds : bOut[k] = "done"}
<1>1. Init => In!Init /\ InInv
  <2> SUFFICES ASSUME Init PROVE In!Init /\ InInv
    OBVIOUS
  <2>1. /\ \A x : ~Has(toBroker, x) /\ ~Has(toClient, x)
        /\ \A a, b : ~Before(toClient, a, b)
    BY FewPackets DEF Init
  <2> QED
    BY <2>1 DEF Init, In!Init, InInv, InOf
<1>2. TypeOK /\ ConnInv /\ InInv /\ [Next]_vars => InInv'
  BY NextIn
<1>3. TypeOK /\ InInv /\ [Next]_vars => [In!Next]_(In!vars)
  <2> SUFFICES ASSUME TypeOK, InInv, [Next]_vars
               PROVE  [In!Next]_(In!vars)
    OBVIOUS
  <2>0. bOut \in [InIds -> {"new", "published", "released", "done", "lost"}]
    BY DEF TypeOK
  <2>1. ASSUME given' = given, confirmed' = confirmed, received' = received
        PROVE  UNCHANGED In!vars
    BY <2>1 DEF In!vars
  <2>2. ASSUME bOut' = bOut, received' = received
        PROVE  UNCHANGED In!vars
    BY <2>1, <2>2
  <2>3. ASSUME NEW k \in InIds, HandlePubrel(k)
        PROVE  [In!Next]_(In!vars)
    <3>1. bOut' = bOut /\ Has(toClient, Pkt("PUBREL", k))
      BY <2>3, ReceivesPackets DEF HandlePubrel, Receives, brokerVars
    <3>2. CASE k \in inFlow
      <4>1. received[k] = 0 /\ k \in given
        BY <3>1, <3>2 DEF InInv, InOf
      <4>2. received' = [received EXCEPT ![k] = 1]
        BY <2>3, <3>2, <4>1 DEF HandlePubrel
      <4>3. given' = given /\ confirmed' = confirmed
        BY <3>1
      <4>4. In!Deliver(k)
        BY <4>1, <4>2, <4>3 DEF In!Deliver
      <4> QED
        BY <4>4 DEF In!Next
    <3>3. CASE k \notin inFlow
      BY <2>2, <2>3, <3>1, <3>3 DEF HandlePubrel
    <3> QED
      BY <3>2, <3>3
  <2>4. ASSUME NEW k \in InIds, BrokerPubcomp(k)
        PROVE  [In!Next]_(In!vars)
    <3>1. received' = received /\ Has(toBroker, Pkt("PUBCOMP", k))
      BY <2>4, TakesPackets DEF BrokerPubcomp, Takes, clientVars
    <3>2. CASE bOut[k] = "released"
      <4>1. bOut' = [bOut EXCEPT ![k] = "done"]
        BY <2>4, <3>2 DEF BrokerPubcomp
      <4>2. given' = given /\ confirmed' = confirmed \union {k} /\ k \notin confirmed
        BY <2>0, <3>2, <4>1
      <4>3. received[k] = 1
        BY <3>1 DEF InInv, InOf
      <4>4. In!Confirm(k)
        BY <3>1, <4>2, <4>3 DEF In!Confirm
      <4> QED
        BY <4>4 DEF In!Next
    <3>3. CASE bOut[k] # "released"
      <4>1. bOut' = bOut
        BY <2>0, <2>4, <3>3 DEF BrokerPubcomp
      <4> QED
        BY <2>2, <3>1, <4>1
    <3> QED
      BY <3>2, <3>3
  <2>5. ASSUME NEW k \in InIds, BrokerForward(k)
        PROVE  [In!Next]_(In!vars)
    <3>1. received' = received /\ bOut[k] = "new" /\ bOut' = [bOut EXCEPT ![k] = "published"]
      BY <2>5 DEF BrokerForward, clientVars
    <3>2. k \notin given /\ given' = given \union {k} /\ confirmed' = confirmed
      BY <2>0, <3>1
    <3>3. In!Give(k)
      BY <3>1, <3>2 DEF In!Give
    <3> QED
      BY <3>3 DEF In!Next
  <2>6. CASE BrokerAccept
    <3>1. received' = received
      BY <2>6 DEF BrokerAccept, Takes, clientVars
    <3>2. \A k \in InIds : /\ bOut'[k] = "new" <=> bOut[k] = "new"
                           /\ bOut'[k] = "done" <=> bOut[k] = "done"
      BY <2>6 DEF BrokerAccept, Unacknowledged
    <3>3. given' = given /\ confirmed' = confirmed
      BY <3>2
    <3> QED
      BY <2>1, <3>1, <3>3
  <2>7. ASSUME NEW k \in InIds, BrokerPubrec(k)
        PROVE  [In!Next]_(In!vars)
    <3>1. /\ received' = received
          /\ bOut' = [bOut EXCEPT ![k] = IF @ = "published" THEN "released" ELSE @]
      BY <2>7 DEF BrokerPubrec, Takes, clientVars
    <3>2. \A j \in InIds : /\ bOut'[j] = "new" <=> bOut[j] = "new"
                           /\ bOut'[j] = "done" <=> bOut[j] = "done"
      BY <2>0, <3>1
    <3>3. given' = given /\ confirmed' = confirmed
      BY <3>2
    <3> QED
      BY <2>1, <3>1, <3>3
  <2>8. CASE Receive
    <3>1. ASSUME ~ \E k \in InIds : HandlePubrel(k)
          PROVE  UNCHANGED <<bOut, received>>
      BY <2>8, <3>1 DEF Receive, HandleConnack, HandleRefusal, HandlePubrec, HandlePubcomp,
                        HandlePublish, Receives, CloseInternal, brokerVars
    <3> QED
      BY <2>2, <2>3, <3>1
  <2>9. CASE BrokerReceive
    <3>1. ASSUME ~BrokerAccept, ~ \E k \in InIds : BrokerPubrec(k) \/ BrokerPubcomp(k)
          PROVE  UNCHANGED <<bOut, received>>
      BY <2>9, <3>1 DEF BrokerReceive, BrokerRefuse, BrokerPublish, BrokerPubrel,
                        Takes, clientVars, brokerVars
    <3> QED
      BY <2>2, <2>4, <2>6, <2>7, <3>1
  <2>10. CASE \/ Connect \/ TransportDidOpen \/ Break \/ TransportDidClose \/ Close \/ CheckDup
              \/ (\E i \in Ids : Publish(i) \/ Timeout(i)) \/ UNCHANGED vars
    <3>1. UNCHANGED <<bOut, received>>
      BY <2>10 DEF Connect, TransportDidOpen, Break, TransportDidClose, Close, CloseInternal,
                   CheckDup, Publish, Timeout, vars, clientVars, brokerVars
    <3> QED
      BY <2>2, <3>1
  <2> QED
    BY <2>5, <2>8, <2>9, <2>10 DEF Next
<1> QED
  BY <1>1, <1>2, <1>3, Reachable, PTL DEF Spec, InDelivered, In!Spec

=============================================================================
