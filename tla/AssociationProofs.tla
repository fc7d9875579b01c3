-------------------------- MODULE AssociationProofs --------------------------
(***************************************************************************)
(* AuthenticatedService, AssociatedMeansAuthenticated, OkMeansServed and   *)
(* NoFalseReplay, for every configuration and every number of connections, *)
(* attempts and calls.  OkMeansServed needs StaleAssumption: fewer reads   *)
(* that fail than there are invoke ids.                                    *)
(***************************************************************************)
EXTENDS Association, TLAPS

\* The server has accepted the association of connection k.
Admitted(k) == k \in accepted /\ (Hls \/ mode.genuine)

\* It has also verified the client.
Authenticated(k) == Admitted(k) /\ mode.genuine /\ (Hls => k \in verified)

\* What may be on its way to the client of connection k: an AARE says that the
\* association was accepted, an answer to the third pass that it was verified.
Vouched(k) ==
  {a \in Apdus : /\ a.kind = "aare" => Admitted(k)
                 /\ a.kind = "hlsResponse" => Authenticated(k)}

Trust == \A k \in 1..MaxConnections : links[k].toClient \in Seq(Vouched(k))

\* An open endpoint has an association context only for an authenticated client
\* of its own connection.
ContextIsEarned ==
  server.phase = "open" =>
    /\ Admitted(server.connection)
    /\ server.context # 0 => Authenticated(server.connection)

ClientIsRight ==
  client.connection # 0 =>
    /\ client.association = "Associated" => Admitted(client.connection)
    /\ client.state = "Associated" => Authenticated(client.connection)

ServedIsAuthenticated == \A s \in served : Authenticated(s[1])

IndInv == TypeOK /\ Trust /\ ContextIsEarned /\ ClientIsRight /\ ServedIsAuthenticated

-----------------------------------------------------------------------------
LEMMA ModeFacts == ASSUME mode \in Modes
                   PROVE  /\ mode \in AllModes
                          /\ mode.auth = "None" => mode.genuine
  BY AssociationAssumption DEF AllModes

LEMMA StoreFacts ==
  /\ \A first \in Counters : NewStore(first) \in Store
  /\ \A s \in Store : ~IsExhausted(s) => TakeLocal(s) \in Store
  /\ \A s \in Store, c \in Counters : StoreRemote(s, c) \in Store
  BY MaxCounterAssumption DEF NewStore, Store, Counters, IsExhausted, TakeLocal, StoreRemote

LEMMA FirstCounters ==
  ClientCounter \in Counters /\ ServerCounter \in Counters /\ FirstServiceCounter \in Counters
  BY MaxCounterAssumption, AssociationAssumption DEF Counters, FirstServiceCounter

LEMMA NextIsNext ==
  ASSUME NEW n \in 1..InvokeIdCount
  PROVE  NextInvokeId(n) = IF n = InvokeIdCount THEN 1 ELSE n + 1
  BY AssociationAssumption DEF NextInvokeId

LEMMA InvokeIdFacts ==
  /\ 0 \in 0..InvokeIdCount /\ 1 \in 1..InvokeIdCount
  /\ \A n \in 1..InvokeIdCount : n \in 0..InvokeIdCount
  /\ \A n \in 1..InvokeIdCount : NextInvokeId(n) \in 1..InvokeIdCount
  BY NextIsNext, AssociationAssumption

LEMMA EmptyIsSequence == ASSUME NEW S PROVE <<>> \in Seq(S)
  OBVIOUS

LEMMA HeadAndTail == ASSUME NEW S, NEW q \in Seq(S), q # <<>>
                    PROVE  Head(q) \in S /\ Tail(q) \in Seq(S)
  OBVIOUS

LEMMA Concatenation == ASSUME NEW S, NEW q \in Seq(S), NEW r \in Seq(S) PROVE q \o r \in Seq(S)
  OBVIOUS

LEMMA NewLinkType == NewLink \in Link /\ NewLink.toClient = <<>>
  <1>1. <<>> \in Seq(Apdus)
    BY EmptyIsSequence
  <1> QED
    BY <1>1 DEF NewLink, Link

LEMMA SequencesGrow ==
  ASSUME NEW S, NEW T, S \subseteq T, NEW q \in Seq(S)
  PROVE  q \in Seq(T)
  OBVIOUS

LEMMA Initially == Init => IndInv
  <1> SUFFICES ASSUME Init PROVE IndInv
    OBVIOUS
  <1>1. client \in Client /\ client.connection = 0 /\ client.association = "Closed"
        /\ client.waits = "nothing"
    BY StoreFacts, FirstCounters, AssociationAssumption DEF Init, NewClient, Client
  <1>2. server \in Endpoint /\ server.phase = "closed"
    BY StoreFacts, FirstCounters, AssociationAssumption DEF Init, NewEndpoint, Endpoint
  <1>3. links \in [1..MaxConnections -> Link]
        /\ \A k \in 1..MaxConnections : links[k].toClient = <<>>
    <2>1. [NewLink EXCEPT !.client = "closed"] \in Link
      BY NewLinkType DEF Link
    <2>2. [NewLink EXCEPT !.client = "closed"].toClient = <<>>
      BY DEF NewLink
    <2> QED
      BY <2>1, <2>2 DEF Init
  <1>4. TypeOK
    BY <1>1, <1>2, <1>3, AssociationAssumption DEF Init, TypeOK
  <1>5. Trust
    BY <1>3, EmptyIsSequence DEF Trust
  <1>6. ContextIsEarned /\ ClientIsRight
    BY <1>1, <1>2 DEF ContextIsEarned, ClientIsRight
  <1>7. ServedIsAuthenticated
    BY DEF Init, ServedIsAuthenticated
  <1> QED
    BY <1>4, <1>5, <1>6, <1>7 DEF IndInv

-----------------------------------------------------------------------------
(***************************************************************************)
(* What the operators on connections preserve: the connections ls are      *)
(* well-formed and the APDUs on their way to client j are in V[j].         *)
(***************************************************************************)
Carries(ls, V) ==
  /\ ls \in [1..MaxConnections -> Link]
  /\ \A j \in 1..MaxConnections : ls[j].toClient \in Seq(V[j])

LEMMA TrustIsCarries ==
  ASSUME TypeOK, Trust
  PROVE  Carries(links, [k \in 1..MaxConnections |-> Vouched(k)])
  BY DEF TypeOK, Trust, Carries

LEMMA CarriesMore ==
  ASSUME NEW ls, NEW V, NEW W, Carries(ls, V), \A j \in 1..MaxConnections : V[j] \subseteq W[j]
  PROVE  Carries(ls, W)
  <1> SUFFICES ASSUME NEW j \in 1..MaxConnections PROVE ls[j].toClient \in Seq(W[j])
    BY DEF Carries
  <1> QED
    BY SequencesGrow DEF Carries

LEMMA SendCarries ==
  ASSUME NEW ls, NEW V, Carries(ls, V), NEW k \in 1..MaxConnections, NEW apdu \in Apdus
  PROVE  Carries([ls EXCEPT ![k].toServer = Append(@, apdu)], V)
  <1> DEFINE new == [ls EXCEPT ![k].toServer = Append(@, apdu)]
  <1>1. ls[k] \in Link
    BY DEF Carries
  <1>2. Append(ls[k].toServer, apdu) \in Seq(Apdus)
    BY <1>1 DEF Link
  <1>3. [ls[k] EXCEPT !.toServer = Append(@, apdu)] \in Link
        /\ [ls[k] EXCEPT !.toServer = Append(@, apdu)].toClient = ls[k].toClient
    BY <1>1, <1>2 DEF Link
  <1>4. new \in [1..MaxConnections -> Link]
        /\ \A j \in 1..MaxConnections : new[j].toClient = ls[j].toClient
    BY <1>3 DEF Carries
  <1> QED
    BY <1>4 DEF Carries

LEMMA TakeCarries ==
  ASSUME NEW ls, NEW V, Carries(ls, V), NEW k \in 1..MaxConnections, ls[k].toClient # <<>>
  PROVE  /\ Carries([ls EXCEPT ![k].toClient = Tail(@)], V)
         /\ Head(ls[k].toClient) \in V[k]
         /\ Head(ls[k].toClient) \in Apdus
  <1> DEFINE new == [ls EXCEPT ![k].toClient = Tail(@)]
  <1>1. ls[k] \in Link /\ ls[k].toClient \in Seq(Apdus) /\ ls[k].toClient \in Seq(V[k])
    BY DEF Carries, Link
  <1>2. Tail(ls[k].toClient) \in Seq(Apdus) /\ Tail(ls[k].toClient) \in Seq(V[k])
    BY <1>1, HeadAndTail, Zenon
  <1>3. [ls[k] EXCEPT !.toClient = Tail(@)] \in Link
        /\ [ls[k] EXCEPT !.toClient = Tail(@)].toClient = Tail(ls[k].toClient)
    BY <1>1, <1>2 DEF Link
  <1>4. new \in [1..MaxConnections -> Link] /\ new[k].toClient = Tail(ls[k].toClient)
        /\ \A j \in 1..MaxConnections : j # k => new[j] = ls[j]
    BY <1>3 DEF Carries
  <1>5. Carries(new, V)
    BY <1>2, <1>4 DEF Carries
  <1>6. Head(ls[k].toClient) \in V[k] /\ Head(ls[k].toClient) \in Apdus
    BY <1>1, HeadAndTail, Zenon
  <1> QED
    BY <1>5, <1>6

LEMMA CloseCarries ==
  ASSUME NEW ls, NEW V, Carries(ls, V), NEW k \in 0..MaxConnections
  PROVE  Carries(ClosedByClient(ls, k), V)
  <1>1. CASE k = 0
    BY <1>1 DEF ClosedByClient
  <1>2. CASE k # 0
    <2>1. ls[k] \in Link
      BY <1>2 DEF Carries
    <2>2. <<>> \in Seq(Apdus) /\ <<>> \in Seq(V[k])
      BY EmptyIsSequence
    <2>3. /\ [ls[k] EXCEPT !.client = "closed", !.toClient = <<>>] \in Link
          /\ [ls[k] EXCEPT !.client = "closed", !.toClient = <<>>].toClient = <<>>
      BY <2>1, <2>2 DEF Link
    <2> DEFINE l == [ls[k] EXCEPT !.client = "closed", !.toClient = <<>>]
    <2>4. ClosedByClient(ls, k) = [ls EXCEPT ![k] = l]
      BY <1>2, <2>1 DEF Carries, ClosedByClient
    <2> QED
      BY <1>2, <2>2, <2>3, <2>4 DEF Carries
  <1> QED
    BY <1>1, <1>2

LEMMA ServerCloseCarries ==
  ASSUME NEW ls, NEW V, Carries(ls, V), server.connection \in 1..MaxConnections
  PROVE  Carries(ClosedByServer(ls), V)
  <1> DEFINE k == server.connection
             new == [ls EXCEPT ![k].server = "closed", ![k].toServer = <<>>]
  <1>1. ls[k] \in Link /\ <<>> \in Seq(Apdus)
    BY EmptyIsSequence DEF Carries
  <1>2. /\ [ls[k] EXCEPT !.server = "closed", !.toServer = <<>>] \in Link
        /\ [ls[k] EXCEPT !.server = "closed", !.toServer = <<>>].toClient = ls[k].toClient
    BY <1>1 DEF Link
  <1>3. new \in [1..MaxConnections -> Link]
        /\ \A j \in 1..MaxConnections : new[j].toClient = ls[j].toClient
    BY <1>2 DEF Carries
  <1> QED
    BY <1>3 DEF Carries, ClosedByServer

LEMMA ServerReadCarries ==
  ASSUME NEW V, Carries(links, V), server.connection \in 1..MaxConnections,
         links[server.connection].toServer # <<>>,
         NEW apdus, apdus \in Seq(Apdus), apdus \in Seq(V[server.connection])
  PROVE  Carries(ReadByServer(apdus), V)
  <1> DEFINE k == server.connection
             q == IF links[k].client = "open" THEN links[k].toClient \o apdus
                  ELSE links[k].toClient
             l == [links[k] EXCEPT !.toServer = Tail(@), !.toClient = q]
  <1>1. links[k] \in Link
    BY DEF Carries
  <1>2. Tail(links[k].toServer) \in Seq(Apdus)
    BY <1>1 DEF Link
  <1>3. q \in Seq(Apdus) /\ q \in Seq(V[k])
    <2>1. links[k].toClient \in Seq(Apdus) /\ links[k].toClient \in Seq(V[k])
      BY <1>1 DEF Carries, Link
    <2> QED
      BY <2>1, Concatenation, Zenon
  <1>4. l \in Link /\ l.toClient = q
    BY <1>1, <1>2, <1>3 DEF Link
  <1>5. ReadByServer(apdus) = [links EXCEPT ![k] = l]
    BY <1>1 DEF ReadByServer, Carries
  <1> QED
    BY <1>3, <1>4, <1>5 DEF Carries

-----------------------------------------------------------------------------
(***************************************************************************)
(* The steps of the client.                                                *)
(***************************************************************************)
Present == [k \in 1..MaxConnections |-> Vouched(k)]

ClientFacts(c) ==
  /\ c \in Client
  /\ c.association # "Closed" \/ c.waits # "nothing" => c.connection # 0

IsRight(c) ==
  c.connection # 0 =>
    /\ c.association = "Associated" => Admitted(c.connection)
    /\ c.state = "Associated" => Authenticated(c.connection)

LEMMA Presently == ASSUME IndInv PROVE Carries(links, Present)
  BY TrustIsCarries DEF IndInv, Present

\* A step of the client leaves the server alone.
LEMMA ClientStep ==
  ASSUME IndInv, UNCHANGED <<mode, server, accepts, accepted, verified, served>>,
         ClientFacts(client'), IsRight(client'), Carries(links', Present),
         connections' \in 0..MaxConnections, attempts' \in Nat, calls' \in Nat
  PROVE  IndInv'
  <1>1. \A k : /\ Admitted(k)' = Admitted(k) /\ Authenticated(k)' = Authenticated(k)
              /\ Vouched(k)' = Vouched(k)
    BY DEF Admitted, Authenticated, Vouched, Hls
  <1>2. TypeOK'
    BY DEF IndInv, TypeOK, ClientFacts, Carries
  <1>3. Trust'
    BY <1>1 DEF Carries, Present, Trust
  <1>4. ContextIsEarned' /\ ServedIsAuthenticated'
    BY <1>1 DEF IndInv, ContextIsEarned, ServedIsAuthenticated
  <1>5. ClientIsRight'
    BY <1>1 DEF ClientIsRight, IsRight
  <1> QED
    BY <1>2, <1>3, <1>4, <1>5 DEF IndInv

\* What stays right when the client does not get further.
LEMMA NoFurther ==
  ASSUME IndInv, NEW c, c.connection = client.connection,
         c.association = "Associated" => client.association = "Associated",
         c.state = "Associated" => client.state = "Associated"
  PROVE  IsRight(c)
  BY DEF IndInv, ClientIsRight, IsRight

LEMMA ConnectStep == ASSUME IndInv, Connect PROVE IndInv'
  <1>1. connections' \in 1..MaxConnections
    BY AssociationAssumption DEF IndInv, TypeOK, Connect
  <1>2. ClientFacts(client') /\ IsRight(client')
    <2>1. CASE UNCHANGED client
      <3>1. IsRight(client')
        BY <2>1 DEF IndInv, ClientIsRight, IsRight
      <3> QED
        BY <2>1, <3>1 DEF IndInv, TypeOK, ClientFacts
    <2>2. CASE client' = [client EXCEPT !.state = "Connected", !.association = "Open",
                                        !.connection = connections']
      <3>1. client \in Client /\ connections' \in 0..MaxConnections /\ connections' # 0
        BY <1>1 DEF IndInv, TypeOK
      <3>2. /\ client' \in Client /\ client'.connection = connections'
            /\ client'.state = "Connected" /\ client'.association = "Open"
        BY <2>2, <3>1 DEF Client
      <3> QED
        BY <3>1, <3>2 DEF ClientFacts, IsRight
    <2> QED
      BY <2>1, <2>2 DEF Connect
  <1>3. Carries(links', Present)
    <2>1. CASE UNCHANGED links
      BY <2>1, Presently
    <2>2. CASE links' = [links EXCEPT ![connections'] = NewLink]
      BY <1>1, <2>2, Presently, NewLinkType, EmptyIsSequence DEF Carries
    <2> QED
      BY <2>1, <2>2 DEF Connect
  <1> QED
    BY <1>1, <1>2, <1>3, ClientStep DEF Connect, history, IndInv, TypeOK

\* The third pass sends one APDU and changes neither state nor connection.
LEMMA ReplyStep ==
  ASSUME mode \in Modes, NEW c, ClientFacts(c), c.connection # 0,
         NEW ls, Carries(ls, Present), ReplyToChallenge(c, ls)
  PROVE  /\ ClientFacts(client') /\ Carries(links', Present)
         /\ client'.connection = c.connection /\ client'.association = c.association
         /\ client'.state = c.state
  <1> DEFINE id == IF mode.ciphered THEN 1 ELSE c.nextInvokeId
             counter == IF Gmac THEN c.counters.nextLocal ELSE 0
             reply == Apdu("hls", id, 0, c.serverChallenge, counter)
  <1>1. c \in Client /\ c.connection \in 1..MaxConnections
        /\ c.counters \in Store /\ c.counters.nextLocal \in Counters /\ 0 \in Counters
    BY MaxCounterAssumption DEF ClientFacts, Client, Store, Counters
  <1>2. reply \in Apdus
    BY <1>1, InvokeIdFacts DEF Apdu, Apdus, Client
  <1>3. CASE Gmac /\ IsExhausted(c.counters)
    BY <1>1, <1>3 DEF ReplyToChallenge, ClientFacts, Client
  <1>4. CASE ~(Gmac /\ IsExhausted(c.counters))
    <2>1. Gmac => TakeLocal(c.counters) \in Store
      BY <1>1, <1>4, StoreFacts
    <2> DEFINE next == IF mode.ciphered THEN c.nextInvokeId ELSE NextInvokeId(c.nextInvokeId)
               store == IF Gmac THEN TakeLocal(c.counters) ELSE c.counters
    <2>0. next \in 1..InvokeIdCount /\ store \in Store /\ id \in 0..InvokeIdCount
      BY <1>1, <2>1, InvokeIdFacts DEF Client
    <2>2. client' = [c EXCEPT !.waits = "hls", !.invokeId = id, !.nextInvokeId = next,
                              !.counters = store]
      BY <1>1, <1>4 DEF ReplyToChallenge, Client
    <2> HIDE DEF next, store, id
    <2>3. /\ ClientFacts(client') /\ client'.connection = c.connection
          /\ client'.association = c.association /\ client'.state = c.state
      BY <1>1, <2>0, <2>2 DEF ClientFacts, Client
    <2>4. \/ links' = ls
          \/ links' = [ls EXCEPT ![c.connection].toServer = Append(@, reply)]
      BY <1>4 DEF ReplyToChallenge, id
    <2>5. Carries(links', Present)
      BY <1>1, <1>2, <2>4, SendCarries
    <2> QED
      BY <2>3, <2>5
  <1> QED
    BY <1>3, <1>4

\* What the client sends.
LEMMA ToServerCarries ==
  ASSUME IndInv, NEW apdu \in Apdus, client.connection \in 1..MaxConnections,
         ToServer(client.connection, apdu)
  PROVE  Carries(links', Present)
  BY Presently, SendCarries DEF ToServer

LEMMA ClientHasConnection ==
  ASSUME IndInv, client.association # "Closed" \/ client.waits # "nothing"
  PROVE  client \in Client /\ client.connection \in 1..MaxConnections
  BY DEF IndInv, TypeOK, Client

LEMMA OpenAssociationStep == ASSUME IndInv, OpenAssociation PROVE IndInv'
  <1>1. attempts' \in Nat
    BY DEF IndInv, TypeOK, OpenAssociation
  <1>2. CASE Establish
    <2> DEFINE challenge == IF Hls THEN attempts' ELSE 0
    <2>1. client \in Client /\ client.connection \in 1..MaxConnections
      BY <1>2, ClientHasConnection DEF Establish
    <2>2. challenge \in Nat
      BY <1>1
    <2>3. client' = [client EXCEPT !.association = "Associating", !.waits = "aare",
                                   !.clientChallenge = challenge]
      BY <1>2 DEF Establish
    <2> HIDE DEF challenge
    <2>4. /\ client' \in Client /\ client'.connection = client.connection
          /\ client'.association = "Associating" /\ client'.state = client.state
          /\ client'.clientChallenge = challenge
      BY <2>1, <2>2, <2>3 DEF Client
    <2>5. Aarq(challenge) \in Apdus
      BY <2>2, MaxCounterAssumption, InvokeIdFacts DEF Aarq, Apdu, Apdus, Counters
    <2>6. Carries(links', Present)
      BY <1>2, <2>1, <2>4, <2>5, ToServerCarries DEF Establish
    <2>7. ClientFacts(client') /\ IsRight(client')
      BY <2>1, <2>4, NoFurther DEF ClientFacts
    <2> QED
      BY <1>1, <2>6, <2>7, ClientStep DEF OpenAssociation, history, IndInv, TypeOK
  <1>3. CASE ResumeAssociation
    <2>1. client \in Client /\ client.connection \in 1..MaxConnections
      BY <1>3, ClientHasConnection DEF ResumeAssociation
    <2>2. /\ ClientFacts(client') /\ Carries(links', Present)
          /\ client'.connection = client.connection
          /\ client'.association = client.association /\ client'.state = client.state
      BY <1>3, <2>1, ReplyStep, Presently DEF ResumeAssociation, IndInv, TypeOK, ClientFacts
    <2>3. IsRight(client')
      BY <2>2, NoFurther
    <2> QED
      BY <1>1, <2>2, <2>3, ClientStep DEF OpenAssociation, history, IndInv, TypeOK
  <1> QED
    BY <1>2, <1>3 DEF OpenAssociation

\* What the client reads is vouched for.
LEMMA ClientReads ==
  ASSUME IndInv, client.waits # "nothing", links[client.connection].toClient # <<>>
  PROVE  /\ client \in Client /\ client.connection \in 1..MaxConnections
         /\ Carries(TakenByClient, Present)
         /\ Head(links[client.connection].toClient) \in Apdus
         /\ Head(links[client.connection].toClient) \in Vouched(client.connection)
  <1>1. client \in Client /\ client.connection \in 1..MaxConnections
    BY ClientHasConnection
  <1>2. /\ Carries(TakenByClient, Present)
        /\ Head(links[client.connection].toClient) \in Present[client.connection]
        /\ Head(links[client.connection].toClient) \in Apdus
    BY <1>1, Presently, TakeCarries DEF TakenByClient
  <1> QED
    BY <1>1, <1>2 DEF Present

LEMMA ReceiveAareStep == ASSUME IndInv, ReceiveAare PROVE IndInv'
  <1> DEFINE k == client.connection
             apdu == Head(links[k].toClient)
             associated == [client EXCEPT !.association = "Associated",
                                          !.serverChallenge = apdu.challenge]
  <1>1. /\ client \in Client /\ k \in 1..MaxConnections /\ Carries(TakenByClient, Present)
        /\ apdu \in Apdus /\ apdu \in Vouched(k)
    BY ClientReads DEF ReceiveAare
  <1>2. ClientFacts(client') /\ IsRight(client') /\ Carries(links', Present)
    <2>1. CASE apdu.kind # "aare"
      <3>1. client' = [client EXCEPT !.association = "Open", !.waits = "nothing"]
            /\ links' = TakenByClient
        BY <2>1 DEF ReceiveAare
      <3>2. /\ client' \in Client /\ client'.connection = k
            /\ client'.association = "Open" /\ client'.state = client.state
        BY <1>1, <3>1 DEF Client
      <3>3. IsRight(client')
        BY <3>2, NoFurther
      <3> QED
        BY <1>1, <3>1, <3>2, <3>3 DEF ClientFacts
    <2>2. CASE apdu.kind = "aare"
      <3>1. Admitted(k)
        BY <1>1, <2>2 DEF Vouched
      <3>2. apdu.challenge \in Nat
        BY <1>1 DEF Apdus
      <3>3. /\ associated \in Client /\ associated.connection = k
            /\ associated.association = "Associated" /\ associated.state = client.state
        BY <1>1, <3>2 DEF Client
      <3>4. IsRight(associated)
        BY <3>1, <3>3 DEF IsRight, IndInv, ClientIsRight
      <3> HIDE DEF associated
      <3>5. CASE Hls /\ ~mode.direct
        <4>1. ReplyToChallenge(associated, TakenByClient)
          BY <2>2, <3>5 DEF ReceiveAare, associated
        <4>2. /\ ClientFacts(client') /\ Carries(links', Present)
              /\ client'.connection = k
              /\ client'.association = associated.association
              /\ client'.state = associated.state
          BY <1>1, <3>3, <4>1, ReplyStep DEF IndInv, TypeOK, ClientFacts
        <4> QED
          BY <3>3, <3>4, <4>2 DEF IsRight
      <3>6. CASE ~(Hls /\ ~mode.direct)
        <4>1. /\ client' = [associated EXCEPT !.waits = "nothing",
                              !.state = IF Hls THEN @ ELSE "Associated"]
              /\ links' = TakenByClient
          BY <2>2, <3>6 DEF ReceiveAare, associated
        <4>2. /\ client' \in Client /\ client'.connection = k
              /\ client'.association = "Associated"
              /\ client'.state = IF Hls THEN client.state ELSE "Associated"
          BY <3>3, <4>1 DEF Client
        <4>3. ~Hls => Authenticated(k)
          BY <3>1 DEF Admitted, Authenticated
        <4> QED
          BY <1>1, <3>1, <3>3, <3>4, <4>1, <4>2, <4>3 DEF IsRight, ClientFacts
      <3> QED
        BY <3>5, <3>6
    <2> QED
      BY <2>1, <2>2
  <1> QED
    BY <1>2, ClientStep DEF ReceiveAare, history, IndInv, TypeOK

LEMMA ReceiveHlsResponseStep == ASSUME IndInv, ReceiveHlsResponse PROVE IndInv'
  <1> DEFINE k == client.connection
             apdu == Head(links[k].toClient)
             store == IF Gmac THEN StoreRemote(client.counters, apdu.counter) ELSE client.counters
  <1>1. /\ client \in Client /\ k \in 1..MaxConnections /\ Carries(TakenByClient, Present)
        /\ apdu \in Apdus /\ apdu \in Vouched(k)
    BY ClientReads DEF ReceiveHlsResponse
  <1>2. client.counters \in Store /\ apdu.counter \in Counters
    BY <1>1 DEF Client, Apdus
  <1>3. store \in Store
    BY <1>2, StoreFacts
  <1>4. \/ client' = [client EXCEPT !.waits = "nothing"]
        \/ /\ apdu.kind = "hlsResponse"
           /\ client' = [client EXCEPT !.state = "Associated", !.waits = "nothing",
                                       !.counters = store]
    BY DEF ReceiveHlsResponse
  <1> HIDE DEF store
  <1>5. apdu.kind = "hlsResponse" => Authenticated(k)
    BY <1>1 DEF Vouched
  <1>6. /\ client' \in Client /\ client'.connection = k
        /\ client'.association = client.association
        /\ client'.state = client.state \/ Authenticated(k)
    BY <1>1, <1>3, <1>4, <1>5 DEF Client
  <1>7. ClientFacts(client') /\ IsRight(client')
    BY <1>1, <1>6 DEF ClientFacts, IsRight, IndInv, ClientIsRight
  <1>8. Carries(links', Present)
    BY <1>1 DEF ReceiveHlsResponse
  <1> QED
    BY <1>7, <1>8, ClientStep DEF ReceiveHlsResponse, IndInv, TypeOK

LEMMA ServiceStep == ASSUME IndInv, Service PROVE IndInv'
  <1>1. client \in Client /\ client.connection \in 1..MaxConnections /\ calls' \in Nat
    BY ClientHasConnection DEF Service, IndInv, TypeOK
  <1> DEFINE next == NextInvokeId(client.nextInvokeId)
  <1>2. /\ client.counters \in Store /\ client.nextInvokeId \in 0..InvokeIdCount
        /\ next \in 1..InvokeIdCount
    BY <1>1, InvokeIdFacts DEF Client
  <1>3. CASE mode.ciphered /\ IsExhausted(client.counters)
    <2>1. client' = [client EXCEPT !.nextInvokeId = next] /\ UNCHANGED links
      BY <1>1, <1>3 DEF Service, Client
    <2> HIDE DEF next
    <2>2. /\ client' \in Client /\ client'.connection = client.connection
          /\ client'.association = client.association /\ client'.state = client.state
      BY <1>1, <1>2, <2>1 DEF Client
    <2>3. IsRight(client')
      BY <2>2, NoFurther
    <2>4. ClientFacts(client') /\ Carries(links', Present)
      BY <1>1, <2>1, <2>2, Presently DEF ClientFacts
    <2> QED
      BY <1>1, <2>3, <2>4, ClientStep DEF Service, history, IndInv, TypeOK
  <1>4. CASE ~(mode.ciphered /\ IsExhausted(client.counters))
    <2> DEFINE store == IF mode.ciphered THEN TakeLocal(client.counters) ELSE client.counters
               request == Apdu("request", client.nextInvokeId, calls', 0,
                               IF mode.ciphered THEN client.counters.nextLocal ELSE 0)
    <2>1. store \in Store
      BY <1>2, <1>4, StoreFacts
    <2>2. request \in Apdus
      BY <1>1, <1>2, MaxCounterAssumption DEF Apdu, Apdus, Store, Counters
    <2>3. client' = [client EXCEPT !.waits = "response", !.call = calls',
                       !.invokeId = client.nextInvokeId, !.nextInvokeId = next,
                       !.counters = store]
          /\ ToServer(client.connection, request)
      BY <1>1, <1>4 DEF Service, Client
    <2> HIDE DEF store, request, next
    <2>4. /\ client' \in Client /\ client'.connection = client.connection
          /\ client'.association = client.association /\ client'.state = client.state
      BY <1>1, <1>2, <2>1, <2>3 DEF Client
    <2>5. Carries(links', Present)
      BY <1>1, <2>2, <2>3, ToServerCarries
    <2>6. ClientFacts(client') /\ IsRight(client')
      BY <1>1, <2>4, NoFurther DEF ClientFacts
    <2> QED
      BY <1>1, <2>5, <2>6, ClientStep DEF Service, history, IndInv, TypeOK
  <1> QED
    BY <1>3, <1>4

LEMMA ReceiveResponseStep == ASSUME IndInv, ReceiveResponse PROVE IndInv'
  <1> DEFINE apdu == Head(links[client.connection].toClient)
  <1>1. /\ client \in Client /\ client.connection \in 1..MaxConnections
        /\ Carries(TakenByClient, Present) /\ apdu \in Apdus
    BY ClientReads DEF ReceiveResponse
  <1>2. client.counters \in Store /\ StoreRemote(client.counters, apdu.counter) \in Store
    BY <1>1, StoreFacts DEF Client, Apdus
  <1>3. \E store \in Store :
          client' = [client EXCEPT !.waits = "nothing", !.counters = store]
    BY <1>2 DEF ReceiveResponse
  <1>4. /\ client' \in Client /\ client'.connection = client.connection
        /\ client'.association = client.association /\ client'.state = client.state
    BY <1>1, <1>3 DEF Client
  <1>5. ClientFacts(client') /\ IsRight(client')
    BY <1>1, <1>4, NoFurther DEF ClientFacts
  <1>6. Carries(links', Present)
    BY <1>1 DEF ReceiveResponse
  <1> QED
    BY <1>5, <1>6, ClientStep DEF ReceiveResponse, IndInv, TypeOK

LEMMA ReleaseAssociationStep == ASSUME IndInv, ReleaseAssociation PROVE IndInv'
  <1>1. client \in Client /\ client.connection \in 1..MaxConnections
    BY ClientHasConnection DEF ReleaseAssociation
  <1>2. Rlrq \in Apdus
    BY MaxCounterAssumption, InvokeIdFacts DEF Rlrq, Apdu, Apdus, Counters
  <1>3. Carries(links', Present)
    BY <1>1, <1>2, ToServerCarries DEF ReleaseAssociation
  <1>4. /\ client' \in Client /\ client'.connection = client.connection
        /\ client'.association = client.association /\ client'.state = client.state
    BY <1>1 DEF ReleaseAssociation, Client
  <1>5. ClientFacts(client') /\ IsRight(client')
    BY <1>1, <1>4, NoFurther DEF ClientFacts
  <1> QED
    BY <1>3, <1>5, ClientStep DEF ReleaseAssociation, history, IndInv, TypeOK

\* A closed facade has no connection, so it claims nothing.
LEMMA FacadeCloses ==
  ASSUME IndInv, NEW ls, Carries(ls, Present), CloseFacade(ls)
  PROVE  ClientFacts(client') /\ IsRight(client') /\ Carries(links', Present)
  <1>1. client \in Client /\ client.connection \in 0..MaxConnections
    BY DEF IndInv, TypeOK, Client
  <1>2. Carries(links', Present)
    BY <1>1, CloseCarries DEF CloseFacade
  <1>3. /\ client' \in Client /\ client'.connection = 0
        /\ client'.association = "Closed" /\ client'.waits = "nothing"
    <2>1. 0 \in 0..MaxConnections
      BY AssociationAssumption
    <2>2. CASE client' = [client EXCEPT !.state = "Disconnected", !.association = "Closed",
                                        !.connection = 0, !.waits = "nothing"]
      BY <1>1, <2>1, <2>2 DEF Client
    <2>3. CASE client' = [client EXCEPT !.association = "Closed", !.connection = 0,
                                        !.waits = "nothing"]
      BY <1>1, <2>1, <2>3 DEF Client
    <2> QED
      BY <2>2, <2>3 DEF CloseFacade
  <1> QED
    BY <1>2, <1>3 DEF ClientFacts, IsRight

LEMMA ReceiveRlreStep == ASSUME IndInv, ReceiveRlre PROVE IndInv'
  <1>1. /\ client \in Client /\ client.connection \in 1..MaxConnections
        /\ Carries(TakenByClient, Present)
    BY ClientReads DEF ReceiveRlre
  <1>2. CASE CloseFacade(TakenByClient)
    BY <1>1, <1>2, FacadeCloses, ClientStep DEF ReceiveRlre, history, IndInv, TypeOK
  <1>3. CASE client' = [client EXCEPT !.waits = "nothing"] /\ links' = TakenByClient
    <2>1. /\ client' \in Client /\ client'.connection = client.connection
          /\ client'.association = client.association /\ client'.state = client.state
      BY <1>1, <1>3 DEF Client
    <2>2. ClientFacts(client') /\ IsRight(client')
      BY <1>1, <2>1, NoFurther DEF ClientFacts
    <2> QED
      BY <1>1, <1>3, <2>2, ClientStep DEF ReceiveRlre, history, IndInv, TypeOK
  <1> QED
    BY <1>2, <1>3 DEF ReceiveRlre

LEMMA CloseStep == ASSUME IndInv, Close PROVE IndInv'
  BY Presently, FacadeCloses, ClientStep DEF Close, history, IndInv, TypeOK

LEMMA ReceiveFailsStep == ASSUME IndInv, ReceiveFails PROVE IndInv'
  <1>1. client \in Client /\ client.connection \in 1..MaxConnections
    BY ClientHasConnection DEF ReceiveFails, Idle
  <1>2. /\ client' \in Client /\ client'.connection = client.connection
        /\ client'.association \in {client.association, "Open"}
        /\ client'.state = client.state
    BY <1>1 DEF ReceiveFails, Client
  <1>3. ClientFacts(client') /\ IsRight(client')
    BY <1>1, <1>2, NoFurther DEF ClientFacts
  <1> QED
    BY <1>3, Presently, ClientStep DEF ReceiveFails, history, IndInv, TypeOK

-----------------------------------------------------------------------------
(***************************************************************************)
(* The steps of the server.                                                *)
(***************************************************************************)
LEMMA Singleton == ASSUME NEW S, NEW a \in S PROVE <<a>> \in Seq(S)
  OBVIOUS

EndpointFacts(e) ==
  /\ e \in Endpoint
  /\ e.phase # "closed" => e.connection # 0

\* A step of the server leaves the client alone and takes nothing back.
LEMMA ServerStep ==
  ASSUME IndInv, UNCHANGED <<mode, client, connections, attempts, calls>>,
         accepted \subseteq accepted', verified \subseteq verified',
         EndpointFacts(server'), accepts' \in Nat, Carries(links', Present'),
         ContextIsEarned', ServedIsAuthenticated'
  PROVE  IndInv'
  <1>1. TypeOK'
    BY DEF IndInv, TypeOK, EndpointFacts, Carries
  <1>2. Trust'
    BY DEF Carries, Present, Trust
  <1>3. ClientIsRight'
    BY DEF IndInv, ClientIsRight, Admitted, Authenticated, Hls
  <1> QED
    BY <1>1, <1>2, <1>3 DEF IndInv

LEMMA StillCarried ==
  ASSUME IndInv, mode' = mode, accepted \subseteq accepted', verified \subseteq verified'
  PROVE  Carries(links, Present')
  <1>1. \A k \in 1..MaxConnections : Present[k] \subseteq Present'[k]
    BY DEF Present, Vouched, Admitted, Authenticated, Hls
  <1> QED
    BY <1>1, Presently, CarriesMore

LEMMA StillServed ==
  ASSUME IndInv, mode' = mode, accepted \subseteq accepted', verified \subseteq verified',
         served' = served
  PROVE  ServedIsAuthenticated'
  BY DEF IndInv, ServedIsAuthenticated, Admitted, Authenticated, Hls

LEMMA EndpointHasConnection ==
  ASSUME IndInv, server.phase # "closed"
  PROVE  server \in Endpoint /\ server.connection \in 1..MaxConnections
  BY DEF IndInv, TypeOK, Endpoint

LEMMA OpenStep == ASSUME IndInv, Open PROVE IndInv'
  <1>0. PICK k \in 1..connections :
        /\ \E new \in NewEndpoints :
             server' = [(IF new THEN NewEndpoint ELSE server) EXCEPT
                          !.phase = "accepting", !.connection = k]
        /\ links' = [links EXCEPT ![k].server = "open"]
    BY DEF Open
  <1>1. k \in 1..MaxConnections
    BY AssociationAssumption DEF IndInv, TypeOK
  <1>2. NewEndpoint \in Endpoint /\ server \in Endpoint
    BY StoreFacts, FirstCounters, AssociationAssumption
       DEF NewEndpoint, Endpoint, IndInv, TypeOK
  <1>3. PICK e \in Endpoint : server' = [e EXCEPT !.phase = "accepting", !.connection = k]
    BY <1>0, <1>2
  <1>4. server' \in Endpoint /\ server'.phase = "accepting" /\ server'.connection = k
    <2>1. k \in 0..MaxConnections
      BY <1>1
    <2> QED
      BY <1>3, <2>1 DEF Endpoint
  <1>5. EndpointFacts(server') /\ ContextIsEarned'
    BY <1>1, <1>4 DEF EndpointFacts, ContextIsEarned
  <1>6. Carries(links, Present') /\ ServedIsAuthenticated'
    BY StillCarried, StillServed DEF Open, history
  <1>7. Carries(links', Present')
    <2>1. links[k] \in Link
      BY <1>1, <1>6 DEF Carries
    <2>2. /\ [links[k] EXCEPT !.server = "open"] \in Link
          /\ [links[k] EXCEPT !.server = "open"].toClient = links[k].toClient
      BY <2>1 DEF Link
    <2>3. links' \in [1..MaxConnections -> Link]
          /\ \A j \in 1..MaxConnections : links'[j].toClient = links[j].toClient
      BY <1>0, <1>1, <1>6, <2>2 DEF Carries
    <2> QED
      BY <1>6, <2>3 DEF Carries
  <1> QED
    BY <1>5, <1>6, <1>7, ServerStep DEF Open, history, IndInv, TypeOK

\* An endpoint that closes its connection holds nothing to be earned.
LEMMA EndpointCloses ==
  ASSUME IndInv, server.phase # "closed", links' = ClosedByServer(links),
         EndpointFacts(server'), server'.phase = "closed", accepts' = accepts,
         UNCHANGED <<mode, client, connections, attempts, calls, accepted, verified, served>>
  PROVE  IndInv'
  <1>1. server.connection \in 1..MaxConnections
    BY EndpointHasConnection
  <1>2. Carries(links, Present') /\ ServedIsAuthenticated'
    BY StillCarried, StillServed
  <1>3. Carries(links', Present')
    BY <1>1, <1>2, ServerCloseCarries
  <1>4. ContextIsEarned'
    BY DEF ContextIsEarned
  <1> QED
    BY <1>2, <1>3, <1>4, ServerStep DEF IndInv, TypeOK

LEMMA AcceptFailsStep == ASSUME IndInv, AcceptFails PROVE IndInv'
  <1>1. server \in Endpoint /\ server' = [server EXCEPT !.phase = "closed"]
    BY EndpointHasConnection DEF AcceptFails
  <1>2. server' \in Endpoint /\ server'.phase = "closed"
    BY <1>1 DEF Endpoint
  <1> QED
    BY <1>2, EndpointCloses DEF AcceptFails, history, EndpointFacts

LEMMA CloseEndpointStep == ASSUME IndInv, CloseEndpoint PROVE IndInv'
  <1>1. server \in Endpoint
        /\ server' = [server EXCEPT !.phase = "closed", !.hlsPending = FALSE]
    BY EndpointHasConnection DEF CloseEndpoint
  <1>2. server' \in Endpoint /\ server'.phase = "closed"
    BY <1>1 DEF Endpoint
  <1> QED
    BY <1>2, EndpointCloses DEF CloseEndpoint, history, EndpointFacts

\* What the server answers goes to a client that may trust it.
LEMMA AnswerCarries ==
  ASSUME IndInv, mode' = mode, accepted \subseteq accepted', verified \subseteq verified',
         server.phase # "closed", links[server.connection].toServer # <<>>,
         NEW apdu \in Apdus, apdu \in Present'[server.connection]
  PROVE  Carries(ReadByServer(<<apdu>>), Present')
  <1>1. server.connection \in 1..MaxConnections /\ Carries(links, Present')
    BY EndpointHasConnection, StillCarried
  <1>2. <<apdu>> \in Seq(Apdus) /\ <<apdu>> \in Seq(Present'[server.connection])
    BY Singleton, Zenon
  <1> QED
    BY <1>1, <1>2, ServerReadCarries

LEMMA SilenceCarries ==
  ASSUME IndInv, mode' = mode, accepted \subseteq accepted', verified \subseteq verified',
         server.phase # "closed", links[server.connection].toServer # <<>>
  PROVE  Carries(ReadByServer(<<>>), Present')
  <1>1. server.connection \in 1..MaxConnections /\ Carries(links, Present')
    BY EndpointHasConnection, StillCarried
  <1>2. <<>> \in Seq(Apdus) /\ <<>> \in Seq(Present'[server.connection])
    BY EmptyIsSequence, Zenon
  <1> QED
    BY <1>1, <1>2, ServerReadCarries

LEMMA ServerReads ==
  ASSUME IndInv, server.phase # "closed", links[server.connection].toServer # <<>>
  PROVE  Head(links[server.connection].toServer) \in Apdus
  <1>1. links[server.connection].toServer \in Seq(Apdus)
    BY EndpointHasConnection DEF IndInv, TypeOK, Link
  <1> QED
    BY <1>1, HeadAndTail, Zenon

\* An accepted AARQ admits its connection; without HLS it also sets the context.
LEMMA NegotiateAssociationStep == ASSUME IndInv, NegotiateAssociation PROVE IndInv'
  <1> DEFINE k == server.connection
             aarq == Head(links[k].toServer)
             right == mode.auth = "LowPassword" => mode.genuine
  <1>1. server \in Endpoint /\ k \in 1..MaxConnections /\ aarq \in Apdus
    BY EndpointHasConnection, ServerReads DEF NegotiateAssociation
  <1>2. CASE /\ right
             /\ accepts' = accepts + 1
             /\ server' = [server EXCEPT !.phase = "open", !.hlsPending = Hls,
                             !.context = AcceptedContext(k),
                             !.clientChallenge = aarq.challenge,
                             !.serverChallenge = IF Hls THEN accepts' ELSE 0,
                             !.hlsCounters = NewStore(ServerCounter)]
             /\ links' = ReadByServer(<<Aare(server'.serverChallenge)>>)
             /\ accepted' = accepted \cup {k}
    <2> DEFINE context == AcceptedContext(k)
               challenge == IF Hls THEN accepts' ELSE 0
               store == NewStore(ServerCounter)
               pending == Hls
    <2>1. /\ context \in 0..MaxConnections /\ challenge \in Nat /\ store \in Store
          /\ pending \in BOOLEAN /\ aarq.challenge \in Nat /\ accepts' \in Nat
          /\ context # 0 => ~Hls
      <3>1. accepts' \in Nat /\ challenge \in Nat
        BY <1>2 DEF IndInv, TypeOK
      <3>2. context \in 0..MaxConnections /\ (context # 0 => ~Hls)
        BY <1>1, AssociationAssumption DEF AcceptedContext
      <3>3. store \in Store /\ aarq.challenge \in Nat
        BY <1>1, StoreFacts, FirstCounters DEF Apdus
      <3>4. pending \in BOOLEAN
        BY DEF Hls
      <3> QED
        BY <3>1, <3>2, <3>3, <3>4
    <2>2. server' = [server EXCEPT !.phase = "open", !.hlsPending = pending,
                       !.context = context, !.clientChallenge = aarq.challenge,
                       !.serverChallenge = challenge, !.hlsCounters = store]
      BY <1>2
    <2> HIDE DEF context, challenge, store, pending
    <2>3. /\ server' \in Endpoint /\ server'.phase = "open" /\ server'.connection = k
          /\ server'.context = context /\ server'.serverChallenge = challenge
      BY <1>1, <2>1, <2>2 DEF Endpoint
    <2>4. mode' = mode /\ accepted \subseteq accepted' /\ verified' = verified
          /\ served' = served /\ k \in accepted'
      BY <1>2 DEF NegotiateAssociation
    <2>5. Hls \/ mode.genuine
      BY <1>2, ModeFacts DEF IndInv, TypeOK, AllModes, Authentications, Hls
    <2>6. k \in accepted' /\ (Hls \/ mode.genuine) /\ (context # 0 => ~Hls /\ mode.genuine)
      BY <2>1, <2>4, <2>5
    <2>7. ContextIsEarned'
      BY <2>3, <2>4, <2>6 DEF ContextIsEarned, Admitted, Authenticated, Hls
    <2>8. Carries(links', Present')
      <3>1. Aare(challenge) \in Apdus /\ Aare(challenge).kind = "aare"
        BY <2>1, MaxCounterAssumption, InvokeIdFacts DEF Aare, Apdu, Apdus, Counters
      <3>2. Aare(challenge) \in Present'[k]
        BY <1>1, <2>4, <2>6, <3>1 DEF Present, Vouched, Admitted, Hls
      <3> QED
        BY <1>2, <2>3, <2>4, <3>1, <3>2, AnswerCarries DEF NegotiateAssociation
    <2>9. EndpointFacts(server') /\ ServedIsAuthenticated'
      BY <1>1, <2>3, <2>4, StillServed DEF EndpointFacts
    <2> QED
      BY <2>1, <2>4, <2>7, <2>8, <2>9, ServerStep DEF NegotiateAssociation
  <1>3. CASE /\ links' = ClosedByServer(links)
             /\ server' = [server EXCEPT !.phase = "closed"]
             /\ UNCHANGED <<accepts, accepted>>
    <2>1. server' \in Endpoint /\ server'.phase = "closed"
      BY <1>1, <1>3 DEF Endpoint
    <2> QED
      BY <1>3, <2>1, EndpointCloses DEF NegotiateAssociation, EndpointFacts
  <1> QED
    BY <1>2, <1>3 DEF NegotiateAssociation

Reads == server.phase = "open" /\ links[server.connection].toServer # <<>>

LEMMA HandleReleaseStep ==
  ASSUME IndInv, Reads, HandleRelease,
         UNCHANGED <<mode, client, connections, attempts, accepts, calls,
                     accepted, verified, served>>
  PROVE  IndInv'
  <1>1. server \in Endpoint /\ server.connection \in 1..MaxConnections
    BY EndpointHasConnection DEF Reads
  <1>2. ServedIsAuthenticated'
    BY StillServed
  <1>3. CASE /\ links' = ClosedByServer(ReadByServer(<<Rlre>>))
             /\ server' = [server EXCEPT !.phase = "closed", !.hlsPending = FALSE,
                                         !.context = 0]
    <2>1. Rlre \in Apdus /\ Rlre.kind = "rlre"
      BY MaxCounterAssumption, InvokeIdFacts DEF Rlre, Apdu, Apdus, Counters
    <2>2. Rlre \in Present'[server.connection]
      BY <1>1, <2>1 DEF Present, Vouched
    <2>3. Carries(ReadByServer(<<Rlre>>), Present')
      BY <2>1, <2>2, AnswerCarries DEF Reads
    <2>4. Carries(links', Present')
      BY <1>1, <1>3, <2>3, ServerCloseCarries
    <2>5. 0 \in 0..MaxConnections
      BY AssociationAssumption
    <2>6. server' \in Endpoint /\ server'.phase = "closed"
      BY <1>1, <1>3, <2>5 DEF Endpoint
    <2>7. EndpointFacts(server') /\ ContextIsEarned'
      BY <2>6 DEF EndpointFacts, ContextIsEarned
    <2> QED
      BY <1>2, <2>4, <2>7, ServerStep DEF IndInv, TypeOK
  <1>4. CASE links' = ReadByServer(<<>>) /\ UNCHANGED server
    <2>1. Carries(links', Present')
      BY <1>4, SilenceCarries DEF Reads
    <2>2. EndpointFacts(server')
      BY <1>4 DEF IndInv, TypeOK, EndpointFacts
    <2>3. ContextIsEarned'
      BY <1>4 DEF IndInv, ContextIsEarned, Admitted, Authenticated, Hls
    <2> QED
      BY <1>2, <2>1, <2>2, <2>3, ServerStep DEF IndInv, TypeOK
  <1> QED
    BY <1>3, <1>4 DEF HandleRelease

LEMMA HandleHlsReplyStep ==
  ASSUME IndInv, Reads, NEW apdu \in Apdus, HandleHlsReply(apdu),
         UNCHANGED <<mode, client, connections, attempts, accepts, calls, accepted, served>>
  PROVE  IndInv'
  <1> DEFINE k == server.connection
             authentic == mode.genuine /\ apdu.challenge = server.serverChallenge
             fresh == Gmac => AcceptsRemote(server.hlsCounters, apdu.counter)
             noted == IF Gmac /\ authentic /\ fresh
                      THEN StoreRemote(server.hlsCounters, apdu.counter)
                      ELSE server.hlsCounters
             counter == IF Gmac THEN noted.nextLocal ELSE 0
             store == IF Gmac THEN TakeLocal(noted) ELSE noted
             answer == Apdu("hlsResponse", apdu.invokeId, 0, server.clientChallenge, counter)
  <1>1. server \in Endpoint /\ k \in 1..MaxConnections /\ k \in 0..MaxConnections
    BY EndpointHasConnection DEF Reads
  <1>2. server.hlsCounters \in Store /\ apdu.counter \in Counters /\ apdu.invokeId \in 0..InvokeIdCount
        /\ server.clientChallenge \in Nat
    BY <1>1 DEF Endpoint, Apdus
  <1>3. noted \in Store
    BY <1>2, StoreFacts
  <1>4. server.phase = "open" /\ Admitted(k)
    BY DEF Reads, IndInv, ContextIsEarned
  <1>5. CASE authentic /\ fresh /\ ~(Gmac /\ IsExhausted(noted))
    <2>1. /\ server' = [server EXCEPT !.hlsPending = FALSE, !.context = k,
                                      !.hlsCounters = store]
          /\ links' = ReadByServer(<<answer>>)
          /\ verified' = verified \cup {k}
      BY <1>5 DEF HandleHlsReply
    <2>2. mode.genuine
      BY <1>5
    <2>3. store \in Store
      BY <1>3, <1>5, StoreFacts
    <2>4. counter \in Counters
      BY <1>3, MaxCounterAssumption DEF Store, Counters
    <2> HIDE DEF noted, store, counter, authentic, fresh
    <2>5. answer \in Apdus /\ answer.kind = "hlsResponse"
      BY <1>2, <2>4 DEF Apdu, Apdus
    <2>6. answer \in Present'[k]
      BY <1>1, <1>4, <2>1, <2>2, <2>5 DEF Present, Vouched, Admitted, Authenticated, Hls
    <2>7. Carries(links', Present')
      BY <2>1, <2>5, <2>6, AnswerCarries DEF Reads
    <2>8. server' \in Endpoint /\ server'.phase = "open" /\ server'.connection = k
      BY <1>1, <1>4, <2>1, <2>3 DEF Endpoint
    <2>9. ContextIsEarned'
      BY <1>4, <2>1, <2>2, <2>8 DEF ContextIsEarned, Admitted, Authenticated, Hls
    <2>10. EndpointFacts(server') /\ ServedIsAuthenticated'
      BY <1>1, <2>1, <2>8, StillServed DEF EndpointFacts
    <2> QED
      BY <2>1, <2>7, <2>9, <2>10, ServerStep DEF IndInv, TypeOK
  <1>6. CASE ~(authentic /\ fresh /\ ~(Gmac /\ IsExhausted(noted)))
    <2>1. /\ server' = [server EXCEPT !.hlsCounters = noted]
          /\ links' = ReadByServer(<<>>) /\ verified' = verified
      BY <1>6 DEF HandleHlsReply
    <2> HIDE DEF noted, authentic, fresh
    <2>2. /\ server' \in Endpoint /\ server'.phase = "open" /\ server'.connection = k
          /\ server'.context = server.context
      BY <1>1, <1>3, <1>4, <2>1 DEF Endpoint
    <2>3. ContextIsEarned'
      BY <1>4, <2>1, <2>2 DEF IndInv, ContextIsEarned, Admitted, Authenticated, Hls
    <2>4. Carries(links', Present')
      BY <2>1, SilenceCarries DEF Reads
    <2>5. EndpointFacts(server') /\ ServedIsAuthenticated'
      BY <1>1, <2>1, <2>2, StillServed DEF EndpointFacts
    <2> QED
      BY <2>1, <2>3, <2>4, <2>5, ServerStep DEF IndInv, TypeOK
  <1> QED
    BY <1>5, <1>6

\* A request is carried out only with a context, which was earned.
LEMMA ProcessRequestStep ==
  ASSUME IndInv, Reads, NEW apdu \in Apdus, ProcessRequest(apdu),
         UNCHANGED <<mode, client, connections, attempts, accepts, calls, accepted, verified>>
  PROVE  IndInv'
  <1> DEFINE k == server.connection
             seen == SeenCounters(apdu)
             authentic == mode.ciphered => mode.genuine /\ apdu.kind = "request"
             fresh == mode.ciphered => AcceptsRemote(seen, apdu.counter)
             noted == Unprotected(seen, apdu)
             carriedOut == /\ authentic /\ fresh
                           /\ apdu.kind \in {"request", "hls"} /\ server.context # 0
             answers == carriedOut /\ ~(mode.ciphered /\ IsExhausted(noted))
             counter == IF mode.ciphered THEN noted.nextLocal ELSE 0
             kind == IF apdu.kind = "request" THEN "response" ELSE "actionResponse"
             response == Apdu(kind, apdu.invokeId, apdu.call, 0, counter)
             store == IF mode.ciphered THEN TakeLocal(noted) ELSE noted
  <1>1. server \in Endpoint /\ k \in 1..MaxConnections
    BY EndpointHasConnection DEF Reads
  <1>2. /\ server.counters \in Store /\ apdu.counter \in Counters
        /\ apdu.invokeId \in 0..InvokeIdCount /\ apdu.call \in Nat
    BY <1>1 DEF Endpoint, Apdus
  <1>3. seen \in Store /\ noted \in Store
    BY <1>2, StoreFacts DEF SeenCounters, Unprotected
  <1>4. server.phase = "open" /\ Admitted(k) /\ (server.context # 0 => Authenticated(k))
    BY DEF Reads, IndInv, ContextIsEarned
  <1>5. ServedIsAuthenticated'
    <2>1. \/ served' = served
          \/ served' = served \cup {<<k, apdu.call>>} /\ server.context # 0
      BY DEF ProcessRequest
    <2>2. \A s \in served' : s \in served \/ (s[1] = k /\ Authenticated(k))
      BY <1>4, <2>1
    <2>3. \A s \in served' : Authenticated(s[1])
      BY <2>2 DEF IndInv, ServedIsAuthenticated
    <2> QED
      BY <2>3 DEF ServedIsAuthenticated, Admitted, Authenticated, Hls
  <1>6. \E c \in Store : server' = [server EXCEPT !.counters = c]
    <2>1. CASE answers
      <3>1. store \in Store
        BY <1>3, <2>1, StoreFacts
      <3> QED
        BY <2>1, <3>1 DEF ProcessRequest
    <2>2. CASE ~answers
      BY <1>3, <2>2 DEF ProcessRequest
    <2> QED
      BY <2>1, <2>2
  <1>7. links' = ReadByServer(<<response>>) \/ links' = ReadByServer(<<>>)
    BY DEF ProcessRequest
  <1>8. counter \in Counters /\ kind \in {"response", "actionResponse"}
    BY <1>3, MaxCounterAssumption DEF Store, Counters
  <1> HIDE DEF seen, noted, store, counter, authentic, fresh, carriedOut, answers, kind
  <1>9. server' \in Endpoint /\ server'.phase = "open" /\ server'.connection = k
        /\ server'.context = server.context
    BY <1>1, <1>4, <1>6 DEF Endpoint
  <1>10. EndpointFacts(server') /\ ContextIsEarned'
    BY <1>1, <1>4, <1>9 DEF EndpointFacts, ContextIsEarned, Admitted, Authenticated, Hls
  <1>11. Carries(links', Present')
    <2>1. response \in Apdus /\ response.kind = kind
      BY <1>2, <1>8 DEF Apdu, Apdus
    <2>2. response \in Present'[k]
      BY <1>1, <1>8, <2>1 DEF Present, Vouched
    <2> HIDE DEF response
    <2>3. Carries(ReadByServer(<<response>>), Present')
      BY <2>1, <2>2, AnswerCarries DEF Reads
    <2>4. Carries(ReadByServer(<<>>), Present')
      BY SilenceCarries DEF Reads
    <2> QED
      BY <1>7, <2>3, <2>4
  <1> QED
    BY <1>5, <1>10, <1>11, ServerStep DEF IndInv, TypeOK

LEMMA RunOnceStep == ASSUME IndInv, RunOnce PROVE IndInv'
  <1> DEFINE apdu == Head(links[server.connection].toServer)
  <1>1. Reads /\ apdu \in Apdus
    BY ServerReads DEF RunOnce, Reads
  <1>2. UNCHANGED <<mode, client, connections, attempts, accepts, calls, accepted>>
    BY DEF RunOnce
  <1>3. \/ HandleRelease /\ UNCHANGED <<verified, served>>
        \/ HandleHlsReply(apdu) /\ UNCHANGED served
        \/ ProcessRequest(apdu) /\ UNCHANGED verified
    BY DEF RunOnce
  <1> HIDE DEF apdu
  <1>4. CASE HandleRelease /\ UNCHANGED <<verified, served>>
    BY <1>1, <1>2, <1>4, HandleReleaseStep
  <1>5. CASE HandleHlsReply(apdu) /\ UNCHANGED served
    BY <1>1, <1>2, <1>5, HandleHlsReplyStep
  <1>6. CASE ProcessRequest(apdu) /\ UNCHANGED verified
    BY <1>1, <1>2, <1>6, ProcessRequestStep
  <1> QED
    BY <1>3, <1>4, <1>5, <1>6

LEMMA Stuttering == ASSUME IndInv, UNCHANGED vars PROVE IndInv'
  BY DEF vars, IndInv, TypeOK, Trust, ContextIsEarned, ClientIsRight, ServedIsAuthenticated,
         Vouched, Admitted, Authenticated, Hls

-----------------------------------------------------------------------------
(***************************************************************************)
(* The theorems.                                                           *)
(***************************************************************************)

\* The inductive invariant of client and server: what is on its way to a client
\* is vouched for, and the context of an open endpoint was earned on its own
\* connection, whatever the order of retries, releases, closes and new endpoints
\* (ServerEndpoint::Open, RunOnce, Close; DlmsClient::OpenAssociation).
THEOREM AssociationInvariant == Spec => []IndInv
  <1>1. IndInv /\ [Next]_vars => IndInv'
    <2> SUFFICES ASSUME IndInv, [Next]_vars PROVE IndInv'
      OBVIOUS
    <2> QED
      BY ConnectStep, OpenAssociationStep, ReceiveAareStep, ReceiveHlsResponseStep,
         ServiceStep, ReceiveResponseStep, ReleaseAssociationStep, ReceiveRlreStep,
         CloseStep, ReceiveFailsStep, OpenStep, NegotiateAssociationStep, AcceptFailsStep,
         RunOnceStep, CloseEndpointStep, Stuttering DEF Next
  <1> QED
    BY Initially, <1>1, PTL DEF Spec

\* Client, endpoint and connections stay well-formed, and whoever waits for an
\* APDU has a connection (DlmsClient, ServerEndpoint).
THEOREM AssociationTypeTheorem == Spec => []TypeOK
  <1>1. IndInv => TypeOK
    BY DEF IndInv
  <1> QED
    BY AssociationInvariant, <1>1, PTL

\* The server carries out a request only for a client that it authenticated on
\* the same connection, for every configuration and however often connections,
\* associations and endpoints follow each other (ServerEndpoint::HandleHlsReply,
\* NegotiateAssociation and the service dispatcher).
THEOREM AuthenticatedServiceTheorem == Spec => []AuthenticatedService
  <1>1. IndInv => AuthenticatedService
    BY DEF IndInv, ServedIsAuthenticated, AuthenticatedService, Authenticated, Admitted
  <1> QED
    BY AssociationInvariant, <1>1, PTL

\* A facade that reports Associated on a connection was authenticated there by
\* the server (DlmsClient::OpenAssociation, after any number of retries).
THEOREM AssociatedTheorem == Spec => []AssociatedMeansAuthenticated
  <1>1. IndInv => AssociatedMeansAuthenticated
    BY DEF IndInv, ClientIsRight, AssociatedMeansAuthenticated, Authenticated, Admitted
  <1> QED
    BY AssociationInvariant, <1>1, PTL

-----------------------------------------------------------------------------
(***************************************************************************)
(* A response belongs to its call.  The APDUs on the way on the connection *)
(* of the client are no more than the reads that failed, and one for the   *)
(* present call; the further back one stands the more ids were taken since *)
(* its own.  As reads fail less often than there are ids, no other APDU on *)
(* the way has the id of the present call.                                 *)
(***************************************************************************)
\* How many ids were taken since id, when next is the one to be taken next.
Age(id, next) == IF id < next THEN next - 1 - id ELSE next + InvokeIdCount - 1 - id

Held(a, room, c) ==
  a.kind \in {"request", "response"} =>
    /\ a.invokeId \in 1..InvokeIdCount
    /\ Age(a.invokeId, c.nextInvokeId) <= room
    /\ c.waits = "response" /\ a.invokeId = c.invokeId => a.call = c.call

InLine(q, room, c) == \A i \in 1..Len(q) : Held(q[i], room - i, c)

Fits(l, room, c) ==
  /\ Len(l.toClient) + Len(l.toServer) <= room
  /\ InLine(l.toClient, room, c)
  /\ InLine(l.toServer, room - Len(l.toClient), c)

RoomOf(f, c) == f + (IF c.waits = "nothing" THEN 0 ELSE 1)

\* The client has no counter left for another request.
Spent(c) == mode.ciphered /\ IsExhausted(c.counters) /\ c.waits # "response"

Backlog ==
  client.connection # 0 /\ ~Spent(client) =>
    Fits(links[client.connection], RoomOf(faults, client), client)

EndsAreEmpty ==
  \A k \in 1..MaxConnections : links[k].server = "closed" => links[k].toServer = <<>>

BacklogInv == faults \in 0..MaxFaults /\ EndsAreEmpty /\ Backlog

\* Nothing c waits for but a response of the old wait.
SameWait(c, d) ==
  /\ d.nextInvokeId = c.nextInvokeId
  /\ d.waits = "response" =>
       c.waits = "response" /\ d.invokeId = c.invokeId /\ d.call = c.call

\* An id is taken, for the new wait if that is one for a response.
TakesId(c, d) ==
  /\ d.nextInvokeId = NextInvokeId(c.nextInvokeId)
  /\ d.waits = "response" => d.invokeId = c.nextInvokeId

LEMMA AgesGrow ==
  ASSUME NEW id \in 1..InvokeIdCount, NEW next \in 1..InvokeIdCount
  PROVE  /\ Age(id, next) \in Nat
         /\ id = next => Age(id, next) = InvokeIdCount - 1 /\ Age(id, NextInvokeId(next)) = 0
         /\ id # next => Age(id, NextInvokeId(next)) = Age(id, next) + 1
  BY NextIsNext, AssociationAssumption DEF Age

LEMMA HeldLonger ==
  ASSUME NEW a, NEW c \in Client, NEW d, SameWait(c, d),
         NEW r \in Int, NEW s \in Int, r <= s, Held(a, r, c)
  PROVE  Held(a, s, d)
  <1> SUFFICES ASSUME a.kind \in {"request", "response"} PROVE Held(a, s, d)
    BY DEF Held
  <1>1. PICK id \in 1..InvokeIdCount : id = a.invokeId
    BY DEF Held
  <1>2. PICK next \in 1..InvokeIdCount : next = c.nextInvokeId
    BY DEF Client
  <1>3. Age(id, next) \in Nat /\ Age(id, next) <= r
    BY <1>1, <1>2, AgesGrow DEF Held
  <1>4. Age(id, next) <= s
    BY <1>3
  <1> QED
    BY <1>1, <1>2, <1>4 DEF Held, SameWait

LEMMA HeldPastId ==
  ASSUME NEW a, NEW c \in Client, NEW d, TakesId(c, d),
         NEW r \in Int, NEW s \in Int, r + 1 <= s, r < InvokeIdCount - 1, Held(a, r, c)
  PROVE  Held(a, s, d)
  <1> SUFFICES ASSUME a.kind \in {"request", "response"} PROVE Held(a, s, d)
    BY DEF Held
  <1>1. PICK id \in 1..InvokeIdCount : id = a.invokeId
    BY DEF Held
  <1>2. PICK next \in 1..InvokeIdCount : next = c.nextInvokeId
    BY DEF Client
  <1>3. Age(id, next) \in Nat /\ Age(id, next) <= r
    BY <1>1, <1>2, AgesGrow DEF Held
  <1>4. id # next
    BY <1>3, AgesGrow, AssociationAssumption
  <1>5. Age(id, NextInvokeId(next)) = Age(id, next) + 1
    BY <1>4, AgesGrow
  <1>6. Age(id, NextInvokeId(next)) <= s
    BY <1>3, <1>5
  <1> QED
    BY <1>1, <1>2, <1>4, <1>6 DEF Held, TakesId

LEMMA InLineLonger ==
  ASSUME NEW q \in Seq(Apdus), NEW c \in Client, NEW d, SameWait(c, d),
         NEW r \in Int, NEW s \in Int, r <= s, InLine(q, r, c)
  PROVE  InLine(q, s, d)
  <1> SUFFICES ASSUME NEW i \in 1..Len(q) PROVE Held(q[i], s - i, d)
    BY DEF InLine
  <1>1. i \in Int /\ r - i \in Int /\ s - i \in Int /\ r - i <= s - i
    OBVIOUS
  <1>2. Held(q[i], r - i, c)
    BY DEF InLine
  <1> QED
    BY <1>1, <1>2, HeldLonger

LEMMA InLinePastId ==
  ASSUME NEW q \in Seq(Apdus), NEW c \in Client, NEW d, TakesId(c, d),
         NEW r \in Int, NEW s \in Int, r + 1 <= s, r < InvokeIdCount, InLine(q, r, c)
  PROVE  InLine(q, s, d)
  <1> SUFFICES ASSUME NEW i \in 1..Len(q) PROVE Held(q[i], s - i, d)
    BY DEF InLine
  <1>1. /\ r - i \in Int /\ s - i \in Int /\ (r - i) + 1 <= s - i
        /\ r - i < InvokeIdCount - 1
    BY AssociationAssumption
  <1>2. Held(q[i], r - i, c)
    BY DEF InLine
  <1> QED
    BY <1>1, <1>2, HeldPastId

LEMMA InLineEmpty == ASSUME NEW r, NEW c PROVE InLine(<<>>, r, c)
  BY DEF InLine

LEMMA InLineTail ==
  ASSUME NEW q \in Seq(Apdus), q # <<>>, NEW c, NEW r \in Int, InLine(q, r, c)
  PROVE  /\ InLine(Tail(q), r - 1, c) /\ Held(Head(q), r - 1, c)
         /\ Len(Tail(q)) = Len(q) - 1 /\ Tail(q) \in Seq(Apdus)
  <1>1. /\ Len(q) \in Nat /\ Len(q) > 0 /\ Len(Tail(q)) = Len(q) - 1 /\ Head(q) = q[1]
        /\ \A i \in 1..Len(Tail(q)) : Tail(q)[i] = q[i + 1] /\ i + 1 \in 1..Len(q)
    OBVIOUS
  <1>2. Held(q[1], r - 1, c)
    BY <1>1 DEF InLine
  <1>3. ASSUME NEW i \in 1..Len(Tail(q)) PROVE Held(Tail(q)[i], (r - 1) - i, c)
    <2>1. Held(q[i + 1], r - (i + 1), c)
      BY <1>1 DEF InLine
    <2>2. r - (i + 1) = (r - 1) - i
      OBVIOUS
    <2> QED
      BY <1>1, <2>1, <2>2
  <1>4. Tail(q) \in Seq(Apdus)
    BY HeadAndTail, Zenon
  <1> QED
    BY <1>1, <1>2, <1>3, <1>4 DEF InLine

LEMMA InLineAppend ==
  ASSUME NEW q \in Seq(Apdus), NEW a, NEW c, NEW r \in Int, InLine(q, r, c),
         Held(a, r - Len(q) - 1, c)
  PROVE  InLine(Append(q, a), r, c) /\ Len(Append(q, a)) = Len(q) + 1
  <1>1. /\ Len(q) \in Nat /\ Len(Append(q, a)) = Len(q) + 1
        /\ Append(q, a)[Len(q) + 1] = a
        /\ \A i \in 1..Len(q) : Append(q, a)[i] = q[i]
    OBVIOUS
  <1>2. ASSUME NEW i \in 1..Len(Append(q, a)) PROVE Held(Append(q, a)[i], r - i, c)
    <2>1. CASE i \in 1..Len(q)
      BY <1>1, <2>1 DEF InLine
    <2>2. CASE i = Len(q) + 1
      <3>1. r - i = r - Len(q) - 1
        BY <1>1, <2>2
      <3> QED
        BY <1>1, <2>2, <3>1
    <2> QED
      BY <1>1, <2>1, <2>2
  <1> QED
    BY <1>1, <1>2 DEF InLine

LEMMA LinkQueues ==
  ASSUME NEW l \in Link
  PROVE  /\ l.toServer \in Seq(Apdus) /\ l.toClient \in Seq(Apdus)
         /\ Len(l.toServer) \in Nat /\ Len(l.toClient) \in Nat
  BY DEF Link

\* Nothing is on the way on a connection that is new or has ended.
LEMMA FitsEmpty ==
  ASSUME NEW l, l.toServer = <<>>, l.toClient = <<>>, NEW r \in Nat, NEW c
  PROVE  Fits(l, r, c)
  <1> DEFINE none == <<>>
  <1>1. Len(none) = 0 /\ \A s : InLine(none, s, c)
    BY InLineEmpty
  <1> HIDE DEF none
  <1>2. l.toServer = none /\ l.toClient = none
    BY DEF none
  <1>3. Len(l.toClient) + Len(l.toServer) <= r
    BY <1>1, <1>2
  <1> QED
    BY <1>1, <1>2, <1>3 DEF Fits

LEMMA FitsLonger ==
  ASSUME NEW l \in Link, NEW c \in Client, NEW d, SameWait(c, d),
         NEW r \in Int, NEW s \in Int, r <= s, Fits(l, r, c)
  PROVE  Fits(l, s, d)
  <1>1. PICK q \in Nat, p \in Nat : q = Len(l.toClient) /\ p = Len(l.toServer)
    BY LinkQueues
  <1>2. q + p <= r /\ InLine(l.toClient, r, c) /\ InLine(l.toServer, r - q, c)
    BY <1>1 DEF Fits
  <1>3. q + p <= s /\ r - q \in Int /\ s - q \in Int /\ r - q <= s - q
    BY <1>2
  <1>4. InLine(l.toClient, s, d) /\ InLine(l.toServer, s - q, d)
    BY <1>2, <1>3, LinkQueues, InLineLonger
  <1> QED
    BY <1>1, <1>3, <1>4 DEF Fits

\* The client takes the first APDU and ends its wait.
LEMMA FitsTaken ==
  ASSUME NEW l \in Link, l.toClient # <<>>, NEW c \in Client, NEW d, SameWait(c, d),
         NEW r \in Int, Fits(l, r, c), NEW m,
         m.toServer = l.toServer, m.toClient = Tail(l.toClient)
  PROVE  Fits(m, r - 1, d) /\ Held(Head(l.toClient), r - 1, c)
  <1>1. PICK q \in Nat, p \in Nat : q = Len(l.toClient) /\ p = Len(l.toServer)
    BY LinkQueues
  <1>2. q + p <= r /\ InLine(l.toClient, r, c) /\ InLine(l.toServer, r - q, c)
    BY <1>1 DEF Fits
  <1>3. PICK s \in Int : s = r - 1
    OBVIOUS
  <1>4. /\ InLine(Tail(l.toClient), s, c) /\ Held(Head(l.toClient), s, c)
        /\ Len(Tail(l.toClient)) = q - 1 /\ Tail(l.toClient) \in Seq(Apdus)
    BY <1>1, <1>2, <1>3, LinkQueues, InLineTail
  <1>5. s <= s /\ r - q \in Int /\ r - q <= r - q /\ s - (q - 1) = r - q /\ (q - 1) + p <= s
    BY <1>2, <1>3
  <1>6. InLine(Tail(l.toClient), s, d) /\ InLine(l.toServer, r - q, d)
    BY <1>2, <1>4, <1>5, LinkQueues, InLineLonger
  <1>7. Len(m.toClient) + Len(m.toServer) <= s
    BY <1>1, <1>4, <1>5
  <1>8. s - Len(m.toClient) = r - q
    BY <1>4, <1>5
  <1> QED
    BY <1>3, <1>4, <1>6, <1>7, <1>8 DEF Fits

\* The client sends an APDU, unless the other end is closed, and waits.
LEMMA FitsSent ==
  ASSUME NEW l \in Link, NEW c \in Client, NEW d,
         NEW r \in Nat, r < InvokeIdCount, Fits(l, r, c), NEW a \in Apdus,
         SameWait(c, d) \/ TakesId(c, d), a.kind # "response",
         a.kind = "request" => /\ TakesId(c, d) /\ a.invokeId = c.nextInvokeId
                               /\ a.call = d.call,
         NEW m, m.toClient = l.toClient,
         m.toServer = l.toServer \/ m.toServer = Append(l.toServer, a)
  PROVE  Fits(m, r + 1, d)
  <1>1. PICK q \in Nat, p \in Nat : q = Len(l.toClient) /\ p = Len(l.toServer)
    BY LinkQueues
  <1>2. q + p <= r /\ InLine(l.toClient, r, c) /\ InLine(l.toServer, r - q, c)
    BY <1>1 DEF Fits
  <1>3. PICK s \in Int, t \in Int : s = r + 1 /\ t = s - q
    OBVIOUS
  <1>4. PICK u \in Int : u = r - q
    OBVIOUS
  <1>5. /\ r \in Int /\ r <= s /\ r + 1 <= s /\ u <= t /\ u + 1 <= t /\ u < InvokeIdCount
        /\ q + p <= s /\ q + (p + 1) <= s /\ 0 <= t - p - 1
    BY <1>2, <1>3, <1>4, AssociationAssumption
  <1>6. InLine(l.toClient, s, d) /\ InLine(l.toServer, t, d)
    <2>1. CASE SameWait(c, d)
      BY <1>2, <1>4, <1>5, <2>1, LinkQueues, InLineLonger
    <2>2. CASE TakesId(c, d)
      BY <1>2, <1>4, <1>5, <2>2, LinkQueues, InLinePastId
    <2> QED
      BY <2>1, <2>2
  <1>7. Held(a, t - p - 1, d)
    <2> SUFFICES ASSUME a.kind = "request" PROVE Held(a, t - p - 1, d)
      BY DEF Held
    <2>1. PICK next \in 1..InvokeIdCount : next = c.nextInvokeId
      BY DEF Client
    <2>2. Age(next, NextInvokeId(next)) = 0
      BY AgesGrow
    <2> QED
      BY <1>5, <2>1, <2>2 DEF Held, TakesId
  <1>8. InLine(Append(l.toServer, a), t, d) /\ Len(Append(l.toServer, a)) = p + 1
    BY <1>1, <1>6, <1>7, LinkQueues, InLineAppend
  <1>9. Len(m.toClient) + Len(m.toServer) <= s /\ s - Len(m.toClient) = t
    BY <1>1, <1>3, <1>5, <1>8
  <1> QED
    BY <1>3, <1>6, <1>8, <1>9 DEF Fits

\* The server takes the first APDU, may answer it and may close the connection.
LEMMA FitsAnswered ==
  ASSUME NEW l \in Link, l.toServer # <<>>, NEW c \in Client, NEW r \in Int, Fits(l, r, c),
         NEW a \in Apdus, a.kind # "request",
         a.kind = "response" => /\ Head(l.toServer).kind = "request"
                                /\ a.invokeId = Head(l.toServer).invokeId
                                /\ a.call = Head(l.toServer).call,
         NEW m, m.toClient = l.toClient \/ m.toClient = Append(l.toClient, a),
         m.toServer = Tail(l.toServer) \/ m.toServer = <<>>
  PROVE  Fits(m, r, c)
  <1> DEFINE none == <<>>
  <1>1. PICK q \in Nat, p \in Nat : q = Len(l.toClient) /\ p = Len(l.toServer)
    BY LinkQueues
  <1>2. q + p <= r /\ InLine(l.toClient, r, c) /\ InLine(l.toServer, r - q, c)
    BY <1>1 DEF Fits
  <1>3. PICK s \in Int, t \in Int : s = r - q /\ t = s - 1
    OBVIOUS
  <1>4. /\ InLine(Tail(l.toServer), t, c) /\ Held(Head(l.toServer), t, c)
        /\ Len(Tail(l.toServer)) = p - 1 /\ Tail(l.toServer) \in Seq(Apdus)
    BY <1>1, <1>2, <1>3, LinkQueues, InLineTail
  <1>5. /\ t <= s /\ t = r - q - 1 /\ r - (q + 1) = t
        /\ q + (p - 1) <= r /\ (q + 1) + (p - 1) <= r /\ q + 0 <= r
    BY <1>2, <1>3
  <1>6. SameWait(c, c)
    BY DEF SameWait
  <1>7. InLine(Tail(l.toServer), s, c)
    BY <1>4, <1>5, <1>6, InLineLonger
  <1>8. Held(a, t, c)
    BY <1>4 DEF Held
  <1>9. InLine(Append(l.toClient, a), r, c) /\ Len(Append(l.toClient, a)) = q + 1
    BY <1>1, <1>2, <1>5, <1>8, LinkQueues, InLineAppend
  <1>10. p > 0
    BY <1>1, LinkQueues
  <1>11. (q + 1) + 0 <= r
    BY <1>2, <1>10
  <1>12. Len(none) = 0 /\ \A x : InLine(none, x, c)
    BY InLineEmpty
  <1> HIDE DEF none
  <1>13. m.toServer = Tail(l.toServer) \/ m.toServer = none
    BY DEF none
  <1>14. InLine(m.toServer, s, c) /\ InLine(m.toServer, t, c)
    BY <1>4, <1>7, <1>12, <1>13
  <1>15. Len(m.toServer) = p - 1 \/ Len(m.toServer) = 0
    BY <1>4, <1>12, <1>13
  <1>16. CASE m.toClient = l.toClient
    BY <1>1, <1>2, <1>3, <1>5, <1>14, <1>15, <1>16 DEF Fits
  <1>17. CASE m.toClient = Append(l.toClient, a)
    BY <1>5, <1>9, <1>11, <1>14, <1>15, <1>17 DEF Fits
  <1> QED
    BY <1>16, <1>17

\* The server closes a connection.
LEMMA FitsClosed ==
  ASSUME NEW l \in Link, NEW c, NEW r \in Int, Fits(l, r, c),
         NEW m, m.toClient = l.toClient, m.toServer = <<>>
  PROVE  Fits(m, r, c)
  <1> DEFINE none == <<>>
  <1>1. PICK q \in Nat, p \in Nat : q = Len(l.toClient) /\ p = Len(l.toServer)
    BY LinkQueues
  <1>2. q + p <= r /\ InLine(l.toClient, r, c)
    BY <1>1 DEF Fits
  <1>3. Len(none) = 0 /\ \A s : InLine(none, s, c)
    BY InLineEmpty
  <1>4. q + 0 <= r
    BY <1>2
  <1> HIDE DEF none
  <1>5. m.toClient = l.toClient /\ m.toServer = none
    BY DEF none
  <1> QED
    BY <1>1, <1>2, <1>3, <1>4, <1>5 DEF Fits

\* What the operators on connections do to the queues.
Ends(ls) == \A k \in 1..MaxConnections : ls[k].server = "closed" => ls[k].toServer = <<>>

AreLinks(ls) == ls \in [1..MaxConnections -> Link]

LEMMA LinksAreLinks == ASSUME IndInv PROVE AreLinks(links)
  BY DEF IndInv, TypeOK, AreLinks

LEMMA SendQueues ==
  ASSUME NEW ls, AreLinks(ls), Ends(ls), NEW k \in 1..MaxConnections, NEW a \in Apdus,
         ls[k].server # "closed", NEW new, new = [ls EXCEPT ![k].toServer = Append(@, a)]
  PROVE  /\ Ends(new)
         /\ new[k].toClient = ls[k].toClient /\ new[k].toServer = Append(ls[k].toServer, a)
  BY DEF AreLinks, Link, Ends

LEMMA ToServerQueues ==
  ASSUME AreLinks(links), Ends(links), NEW k \in 1..MaxConnections, NEW a \in Apdus,
         ToServer(k, a)
  PROVE  /\ Ends(links') /\ links'[k].toClient = links[k].toClient
         /\ \/ links'[k].toServer = links[k].toServer
            \/ links'[k].toServer = Append(links[k].toServer, a)
  <1>1. CASE links[k].server = "closed"
    BY <1>1 DEF ToServer
  <1>2. CASE links[k].server # "closed"
    <2>1. links' = [links EXCEPT ![k].toServer = Append(@, a)]
      BY <1>2 DEF ToServer
    <2> QED
      BY <1>2, <2>1 DEF AreLinks, Link, Ends
  <1> QED
    BY <1>1, <1>2

LEMMA TakeQueues ==
  ASSUME NEW ls, AreLinks(ls), Ends(ls), NEW k \in 1..MaxConnections, ls[k].toClient # <<>>,
         NEW new, new = [ls EXCEPT ![k].toClient = Tail(@)]
  PROVE  /\ Ends(new) /\ AreLinks(new)
         /\ new[k].toServer = ls[k].toServer /\ new[k].toClient = Tail(ls[k].toClient)
  <1>1. ls[k] \in Link /\ ls[k].toClient \in Seq(Apdus)
    BY DEF AreLinks, Link
  <1>2. Tail(ls[k].toClient) \in Seq(Apdus)
    BY <1>1, HeadAndTail, Zenon
  <1> QED
    BY <1>1, <1>2 DEF AreLinks, Link, Ends

LEMMA CloseQueues ==
  ASSUME NEW ls, AreLinks(ls), Ends(ls), NEW k \in 0..MaxConnections
  PROVE  Ends(ClosedByClient(ls, k))
  BY DEF AreLinks, Link, Ends, ClosedByClient

LEMMA EndedRoom ==
  ASSUME BacklogInv, IndInv
  PROVE  /\ faults \in Nat /\ faults < InvokeIdCount /\ AreLinks(links) /\ Ends(links)
         /\ client \in Client
  BY LinksAreLinks, AssociationAssumption, StaleAssumption
     DEF BacklogInv, EndsAreEmpty, Ends, IndInv, TypeOK

\* ~Spent is not regained.
LEMMA SpentStays ==
  ASSUME NEW c, NEW d, d.counters.nextLocal = c.counters.nextLocal, d.waits # "response",
         ~Spent(d)
  PROVE  ~Spent(c)
  BY DEF Spent, IsExhausted

\* The client takes an APDU.
LEMMA TakenBacklog ==
  ASSUME IndInv, BacklogInv, client.waits # "nothing",
         links[client.connection].toClient # <<>>, NEW d, SameWait(client, d)
  PROVE  /\ AreLinks(TakenByClient) /\ Ends(TakenByClient)
         /\ ~Spent(client) => /\ Fits(TakenByClient[client.connection], faults, d)
                              /\ Held(Head(links[client.connection].toClient), faults, client)
  <1> DEFINE k == client.connection
  <1>1. client \in Client /\ k \in 1..MaxConnections
    BY ClientHasConnection
  <1>2. /\ AreLinks(TakenByClient) /\ Ends(TakenByClient)
        /\ TakenByClient[k].toServer = links[k].toServer
        /\ TakenByClient[k].toClient = Tail(links[k].toClient)
    BY <1>1, EndedRoom, TakeQueues DEF TakenByClient
  <1>3. ASSUME ~Spent(client)
        PROVE  Fits(TakenByClient[k], faults, d) /\ Held(Head(links[k].toClient), faults, client)
    <2>1. PICK r \in Int : r = faults + 1
      BY EndedRoom
    <2>2. RoomOf(faults, client) = r /\ r - 1 = faults
      BY <2>1, EndedRoom DEF RoomOf
    <2>3. Fits(links[k], r, client)
      BY <1>1, <1>3, <2>2 DEF BacklogInv, Backlog
    <2>4. links[k] \in Link
      BY <1>1, EndedRoom DEF AreLinks
    <2>5. Fits(TakenByClient[k], r - 1, d) /\ Held(Head(links[k].toClient), r - 1, client)
      BY <1>1, <1>2, <2>3, <2>4, FitsTaken
    <2> QED
      BY <2>2, <2>5
  <1> QED
    BY <1>2, <1>3

LEMMA TakenStep ==
  ASSUME IndInv, BacklogInv, client.waits # "nothing",
         links[client.connection].toClient # <<>>, links' = TakenByClient,
         faults' = faults, mode' = mode, client'.connection = client.connection,
         client'.nextInvokeId = client.nextInvokeId, client'.waits = "nothing",
         client'.counters.nextLocal = client.counters.nextLocal
  PROVE  BacklogInv'
  <1> DEFINE k == client.connection
  <1>1. SameWait(client, client')
    BY DEF SameWait
  <1>2. Ends(TakenByClient) /\ (~Spent(client) => Fits(TakenByClient[k], faults, client'))
    BY <1>1, TakenBacklog
  <1>3. ~Spent(client') => ~Spent(client)
    BY SpentStays
  <1>4. RoomOf(faults', client') = faults
    BY EndedRoom DEF RoomOf
  <1>5. Backlog'
    BY <1>2, <1>3, <1>4 DEF Backlog, Spent
  <1> QED
    BY <1>2, <1>5 DEF BacklogInv, EndsAreEmpty, Ends

\* The client sends an APDU and waits.
LEMMA SentStep ==
  ASSUME IndInv, BacklogInv, client.waits = "nothing", client.connection \in 1..MaxConnections,
         NEW a \in Apdus, ToServer(client.connection, a), a.kind # "response",
         SameWait(client, client') \/ TakesId(client, client'),
         a.kind = "request" => /\ TakesId(client, client') /\ a.invokeId = client.nextInvokeId
                               /\ a.call = client'.call,
         ~Spent(client') => ~Spent(client),
         faults' = faults, mode' = mode, client'.connection = client.connection,
         client'.waits # "nothing"
  PROVE  BacklogInv'
  <1> DEFINE k == client.connection
  <1>1. /\ Ends(links') /\ links'[k].toClient = links[k].toClient
        /\ \/ links'[k].toServer = links[k].toServer
           \/ links'[k].toServer = Append(links[k].toServer, a)
    BY EndedRoom, ToServerQueues
  <1>2. RoomOf(faults, client) = faults /\ RoomOf(faults', client') = faults + 1
    BY EndedRoom DEF RoomOf
  <1>3. ASSUME ~Spent(client') PROVE Fits(links'[k], faults + 1, client')
    <2>1. ~Spent(client)
      BY <1>3
    <2>2. Fits(links[k], faults, client)
      BY <1>2, <2>1, AssociationAssumption DEF BacklogInv, Backlog
    <2>3. links[k] \in Link
      BY EndedRoom DEF AreLinks
    <2> QED
      BY <1>1, <2>2, <2>3, EndedRoom, FitsSent
  <1>4. Backlog'
    BY <1>2, <1>3 DEF Backlog, Spent
  <1> QED
    BY <1>1, <1>4 DEF BacklogInv, EndsAreEmpty, Ends

\* The third pass is sent, or there is no counter left for it.
LEMMA ReplyBacklog ==
  ASSUME mode \in Modes, NEW c, ClientFacts(c), c.connection # 0, c.waits # "response",
         NEW ls, AreLinks(ls), Ends(ls), NEW r \in Nat, r < InvokeIdCount,
         ~Spent(c) => Fits(ls[c.connection], r, c), ReplyToChallenge(c, ls)
  PROVE  /\ Ends(links') /\ client'.connection = c.connection
         /\ ~Spent(client') => Fits(links'[c.connection], RoomOf(r, client'), client')
  <1> DEFINE k == c.connection
             id == IF mode.ciphered THEN 1 ELSE c.nextInvokeId
             counter == IF Gmac THEN c.counters.nextLocal ELSE 0
             reply == Apdu("hls", id, 0, c.serverChallenge, counter)
  <1>1. c \in Client /\ k \in 1..MaxConnections
        /\ c.counters \in Store /\ c.counters.nextLocal \in Counters /\ 0 \in Counters
    BY MaxCounterAssumption DEF ClientFacts, Client, Store, Counters
  <1>2. reply \in Apdus /\ reply.kind = "hls"
    BY <1>1, InvokeIdFacts DEF Apdu, Apdus, Client
  <1>3. ls[k] \in Link
    BY <1>1 DEF AreLinks
  <1>4. mode.ciphered => Gmac
    BY ModeFacts DEF AllModes, Gmac
  <1>5. CASE Gmac /\ IsExhausted(c.counters)
    <2>1. /\ client'.connection = k /\ client'.waits = "nothing" /\ client'.counters = c.counters
          /\ client'.nextInvokeId = c.nextInvokeId /\ links' = ls
      BY <1>1, <1>5 DEF ReplyToChallenge, Client
    <2>2. RoomOf(r, client') = r /\ r <= r /\ r \in Int
      BY <2>1 DEF RoomOf
    <2>3. ASSUME ~Spent(client') PROVE Fits(ls[k], r, client')
      <3>1. ~Spent(c)
        BY <2>1, <2>3 DEF Spent
      <3>2. SameWait(c, client')
        BY <2>1 DEF SameWait
      <3> QED
        BY <1>1, <1>3, <2>2, <3>1, <3>2, FitsLonger
    <2> QED
      BY <2>1, <2>2, <2>3
  <1>6. CASE ~(Gmac /\ IsExhausted(c.counters))
    <2>1. ~Spent(c)
      BY <1>4, <1>6 DEF Spent
    <2>2. /\ client'.connection = k /\ client'.waits = "hls"
          /\ client'.nextInvokeId = IF mode.ciphered THEN c.nextInvokeId
                                    ELSE NextInvokeId(c.nextInvokeId)
      BY <1>1, <1>6 DEF ReplyToChallenge, Client
    <2>3. SameWait(c, client') \/ TakesId(c, client')
      BY <2>2 DEF SameWait, TakesId
    <2>4. links' = IF ls[k].server = "closed" THEN ls
                   ELSE [ls EXCEPT ![k].toServer = Append(@, reply)]
      BY <1>6 DEF ReplyToChallenge
    <2> HIDE DEF reply, id, counter
    <2>5. /\ Ends(links') /\ links'[k].toClient = ls[k].toClient
          /\ \/ links'[k].toServer = ls[k].toServer
             \/ links'[k].toServer = Append(ls[k].toServer, reply)
      BY <1>1, <1>2, <2>4, SendQueues
    <2>6. Fits(links'[k], r + 1, client')
      BY <1>1, <1>2, <1>3, <2>1, <2>3, <2>5, FitsSent
    <2>7. RoomOf(r, client') = r + 1
      BY <2>2 DEF RoomOf
    <2> QED
      BY <2>2, <2>5, <2>6, <2>7
  <1> QED
    BY <1>5, <1>6

LEMMA ConnectBacklog == ASSUME IndInv, BacklogInv, Connect PROVE BacklogInv'
  <1>1. faults' \in 0..MaxFaults
    BY AssociationAssumption DEF Connect, BacklogInv
  <1>2. client.waits = "nothing" /\ client \in Client
    BY EndedRoom DEF Connect, Idle
  <1>3. CASE /\ links' = [links EXCEPT ![connections'] = NewLink]
             /\ client' = [client EXCEPT !.state = "Connected", !.association = "Open",
                                         !.connection = connections']
             /\ UNCHANGED faults
    <2>1. connections' \in 1..MaxConnections
      BY AssociationAssumption DEF IndInv, TypeOK, Connect
    <2>2. client'.connection = connections' /\ client'.waits = "nothing"
      BY <1>2, <1>3 DEF Client
    <2>3. links'[connections'] = NewLink /\ Ends(links')
      BY <1>3, <2>1, EndedRoom DEF AreLinks, Ends, NewLink
    <2>4. RoomOf(faults', client') \in Nat
      <3>1. RoomOf(faults', client') = faults'
        BY <1>3, <2>2, EndedRoom DEF RoomOf
      <3> QED
        BY <1>3, <3>1, EndedRoom
    <2>5. NewLink.toServer = <<>> /\ NewLink.toClient = <<>>
      BY DEF NewLink
    <2>6. Fits(NewLink, RoomOf(faults', client'), client')
      BY <2>4, <2>5, FitsEmpty
    <2>7. Backlog'
      BY <2>2, <2>3, <2>6 DEF Backlog
    <2> QED
      BY <1>1, <2>3, <2>7 DEF BacklogInv, EndsAreEmpty, Ends
  <1>4. CASE faults' = faults + 1 /\ UNCHANGED <<client, links>>
    <2>0. RoomOf(faults, client) = faults /\ RoomOf(faults', client') = faults + 1
      BY <1>2, <1>4, EndedRoom DEF RoomOf
    <2>1. PICK r \in Int, s \in Int : r = RoomOf(faults, client) /\ s = RoomOf(faults', client')
                                      /\ r <= s
      BY <2>0, EndedRoom
    <2>2. SameWait(client, client)
      BY DEF SameWait
    <2>3. ASSUME client.connection # 0, ~Spent(client)
          PROVE  Fits(links[client.connection], s, client)
      <3>1. Fits(links[client.connection], r, client)
        BY <2>1, <2>3 DEF BacklogInv, Backlog
      <3>2. links[client.connection] \in Link
        BY <1>2, <2>3, EndedRoom DEF AreLinks, Client
      <3> QED
        BY <1>2, <2>1, <2>2, <3>1, <3>2, FitsLonger
    <2>4. mode' = mode
      BY DEF Connect
    <2>5. Backlog'
      BY <1>4, <2>1, <2>3, <2>4 DEF Backlog, Spent
    <2>6. EndsAreEmpty'
      BY <1>4 DEF BacklogInv, EndsAreEmpty
    <2> QED
      BY <1>1, <2>5, <2>6 DEF BacklogInv
  <1> QED
    BY <1>3, <1>4 DEF Connect

LEMMA OpenAssociationBacklog ==
  ASSUME IndInv, IndInv', BacklogInv, OpenAssociation PROVE BacklogInv'
  <1>0. client.waits = "nothing" /\ mode' = mode /\ faults' = faults
    BY DEF OpenAssociation, Idle
  <1>1. CASE Establish
    <2> DEFINE challenge == IF Hls THEN attempts' ELSE 0
    <2>1. client \in Client /\ client.connection \in 1..MaxConnections
      BY <1>1, ClientHasConnection DEF Establish
    <2>2. challenge \in Nat
      BY DEF IndInv, TypeOK
    <2>3. client' = [client EXCEPT !.association = "Associating", !.waits = "aare",
                                   !.clientChallenge = challenge]
      BY <1>1 DEF Establish
    <2> HIDE DEF challenge
    <2>4. /\ client'.nextInvokeId = client.nextInvokeId /\ client'.waits = "aare"
          /\ client'.clientChallenge = challenge /\ client'.counters = client.counters
          /\ client'.connection = client.connection
      BY <2>1, <2>3 DEF Client
    <2>5. Aarq(challenge) \in Apdus /\ Aarq(challenge).kind = "aarq"
      BY <2>2, MaxCounterAssumption, InvokeIdFacts DEF Aarq, Apdu, Apdus, Counters
    <2>6. ToServer(client.connection, Aarq(challenge))
      BY <1>1, <2>4 DEF Establish
    <2>7. SameWait(client, client') /\ (~Spent(client') => ~Spent(client))
      BY <2>4, SpentStays DEF SameWait
    <2> QED
      BY <1>0, <2>1, <2>4, <2>5, <2>6, <2>7, SentStep
  <1>2. CASE ResumeAssociation
    <2>1. client \in Client /\ client.connection \in 1..MaxConnections
      BY <1>2, ClientHasConnection DEF ResumeAssociation
    <2>2. /\ faults \in Nat /\ faults < InvokeIdCount /\ AreLinks(links) /\ Ends(links)
          /\ RoomOf(faults, client) = faults /\ client.connection # 0
      BY <1>0, <2>1, EndedRoom DEF RoomOf
    <2>3. ~Spent(client) => Fits(links[client.connection], faults, client)
      BY <2>2 DEF BacklogInv, Backlog
    <2>4. ClientFacts(client) /\ mode \in Modes /\ client.waits # "response"
      BY <1>0, <2>1, <2>2 DEF ClientFacts, IndInv, TypeOK
    <2>5. /\ Ends(links') /\ client'.connection = client.connection
          /\ ~Spent(client') =>
               Fits(links'[client.connection], RoomOf(faults, client'), client')
      BY <1>2, <2>2, <2>3, <2>4, ReplyBacklog DEF ResumeAssociation
    <2>6. Backlog'
      BY <1>0, <2>5 DEF Backlog, Spent
    <2> QED
      BY <1>0, <2>5, <2>6 DEF BacklogInv, EndsAreEmpty, Ends
  <1> QED
    BY <1>1, <1>2 DEF OpenAssociation

LEMMA ReceiveAareBacklog == ASSUME IndInv, BacklogInv, ReceiveAare PROVE BacklogInv'
  <1> DEFINE k == client.connection
             apdu == Head(links[k].toClient)
             associated == [client EXCEPT !.association = "Associated",
                                          !.serverChallenge = apdu.challenge]
  <1>1. /\ client \in Client /\ k \in 1..MaxConnections /\ apdu.challenge \in Nat
        /\ client.waits = "aare" /\ links[k].toClient # <<>>
        /\ mode' = mode /\ faults' = faults
    BY ClientReads DEF ReceiveAare, Apdus
  <1>2. CASE apdu.kind = "aare" /\ Hls /\ ~mode.direct
    <2>1. /\ associated \in Client /\ associated.nextInvokeId = client.nextInvokeId
          /\ associated.connection = k /\ associated.waits = "aare"
          /\ associated.counters = client.counters
      <3>1. PICK n \in Nat : n = apdu.challenge
        BY <1>1
      <3> QED
        BY <1>1, <3>1 DEF Client
    <2>2. ReplyToChallenge(associated, TakenByClient)
      BY <1>2 DEF ReceiveAare
    <2>3. SameWait(client, associated) /\ (~Spent(associated) => ~Spent(client))
      BY <1>1, <2>1 DEF SameWait, Spent
    <2> HIDE DEF associated, apdu
    <2>4. /\ AreLinks(TakenByClient) /\ Ends(TakenByClient)
          /\ ~Spent(associated) => Fits(TakenByClient[k], faults, associated)
      BY <1>1, <2>3, TakenBacklog
    <2>5. ClientFacts(associated) /\ mode \in Modes /\ k # 0
      BY <1>1, <2>1 DEF ClientFacts, IndInv, TypeOK
    <2>6. /\ Ends(links') /\ client'.connection = k
          /\ ~Spent(client') => Fits(links'[k], RoomOf(faults, client'), client')
      BY <2>1, <2>2, <2>4, <2>5, EndedRoom, ReplyBacklog
    <2>7. Backlog'
      BY <1>1, <2>6 DEF Backlog, Spent
    <2> QED
      BY <1>1, <2>6, <2>7 DEF BacklogInv, EndsAreEmpty, Ends
  <1>3. CASE ~(apdu.kind = "aare" /\ Hls /\ ~mode.direct)
    <2>1. links' = TakenByClient
      BY <1>3 DEF ReceiveAare
    <2>2. /\ client'.connection = k /\ client'.nextInvokeId = client.nextInvokeId
          /\ client'.waits = "nothing" /\ client'.counters = client.counters
      <3>1. CASE apdu.kind # "aare"
        BY <1>1, <3>1 DEF ReceiveAare, Client
      <3>2. CASE apdu.kind = "aare"
        <4>1. PICK n \in Nat : n = apdu.challenge
          BY <1>1
        <4>2. client' = [[client EXCEPT !.association = "Associated", !.serverChallenge = n]
                           EXCEPT !.waits = "nothing", !.state = IF Hls THEN @ ELSE "Associated"]
          BY <1>3, <3>2, <4>1 DEF ReceiveAare
        <4> QED
          BY <1>1, <4>2 DEF Client
      <3> QED
        BY <3>1, <3>2
    <2> QED
      BY <1>1, <2>1, <2>2, TakenStep
  <1> QED
    BY <1>2, <1>3

LEMMA ReceiveHlsResponseBacklog ==
  ASSUME IndInv, BacklogInv, ReceiveHlsResponse PROVE BacklogInv'
  <1>1. client \in Client /\ client.counters \in Store
    BY ClientReads DEF ReceiveHlsResponse, Client
  <1>2. /\ client'.connection = client.connection /\ client'.nextInvokeId = client.nextInvokeId
        /\ client'.waits = "nothing"
        /\ client'.counters.nextLocal = client.counters.nextLocal
    BY <1>1 DEF ReceiveHlsResponse, Client, StoreRemote, Store
  <1> QED
    BY <1>2, TakenStep DEF ReceiveHlsResponse

LEMMA ReceiveResponseBacklog ==
  ASSUME IndInv, BacklogInv, ReceiveResponse PROVE BacklogInv'
  <1>1. client \in Client /\ client.counters \in Store
    BY ClientReads DEF ReceiveResponse, Client
  <1>2. /\ client'.connection = client.connection /\ client'.nextInvokeId = client.nextInvokeId
        /\ client'.waits = "nothing"
        /\ client'.counters.nextLocal = client.counters.nextLocal
    BY <1>1 DEF ReceiveResponse, Client, StoreRemote, Store
  <1> QED
    BY <1>2, TakenStep DEF ReceiveResponse

LEMMA ServiceBacklog == ASSUME IndInv, IndInv', BacklogInv, Service PROVE BacklogInv'
  <1>1. /\ client \in Client /\ client.connection \in 1..MaxConnections /\ calls' \in Nat
        /\ client.waits = "nothing" /\ faults' = faults /\ mode' = mode
    BY ClientHasConnection DEF Service, Idle, IndInv, TypeOK
  <1>2. CASE mode.ciphered /\ IsExhausted(client.counters)
    <2>1. client' = [client EXCEPT !.nextInvokeId = NextInvokeId(@)] /\ UNCHANGED links
      BY <1>2 DEF Service
    <2>2. client'.waits = "nothing" /\ client'.counters = client.counters
      BY <1>1, <2>1 DEF Client
    <2>3. Backlog'
      BY <1>1, <1>2, <2>2 DEF Backlog, Spent
    <2> QED
      BY <1>1, <2>1, <2>3 DEF BacklogInv, EndsAreEmpty
  <1>3. CASE ~(mode.ciphered /\ IsExhausted(client.counters))
    <2> DEFINE request == Apdu("request", client.nextInvokeId, calls', 0,
                               IF mode.ciphered THEN client.counters.nextLocal ELSE 0)
    <2>1. /\ request \in Apdus /\ request.kind = "request"
          /\ request.invokeId = client.nextInvokeId /\ request.call = calls'
      BY <1>1, MaxCounterAssumption, InvokeIdFacts DEF Apdu, Apdus, Client, Store, Counters
    <2>2. /\ client'.waits = "response" /\ client'.call = calls'
          /\ client'.invokeId = client.nextInvokeId
          /\ client'.nextInvokeId = NextInvokeId(client.nextInvokeId)
          /\ client'.connection = client.connection
          /\ ToServer(client.connection, request)
      BY <1>1, <1>3 DEF Service, Client
    <2> HIDE DEF request
    <2>3. TakesId(client, client') /\ ~Spent(client)
      BY <1>3, <2>2 DEF TakesId, Spent
    <2> QED
      BY <1>1, <2>1, <2>2, <2>3, SentStep
  <1> QED
    BY <1>2, <1>3

LEMMA ReleaseAssociationBacklog ==
  ASSUME IndInv, BacklogInv, ReleaseAssociation PROVE BacklogInv'
  <1>1. /\ client \in Client /\ client.connection \in 1..MaxConnections
        /\ client.waits = "nothing" /\ faults' = faults /\ mode' = mode
    BY ClientHasConnection DEF ReleaseAssociation, Idle
  <1>2. Rlrq \in Apdus /\ Rlrq.kind = "rlrq"
    BY MaxCounterAssumption, InvokeIdFacts DEF Rlrq, Apdu, Apdus, Counters
  <1>3. /\ client'.nextInvokeId = client.nextInvokeId /\ client'.waits = "rlre"
        /\ client'.counters = client.counters /\ client'.connection = client.connection
        /\ ToServer(client.connection, Rlrq)
    BY <1>1 DEF ReleaseAssociation, Client
  <1>4. SameWait(client, client') /\ (~Spent(client') => ~Spent(client))
    BY <1>3, SpentStays DEF SameWait
  <1> QED
    BY <1>1, <1>2, <1>3, <1>4, SentStep

\* A closed facade has no connection on which anything is held.
LEMMA FacadeBacklog ==
  ASSUME IndInv, BacklogInv, NEW ls, AreLinks(ls), Ends(ls), CloseFacade(ls)
  PROVE  BacklogInv'
  <1>1. client \in Client /\ client.connection \in 0..MaxConnections
    BY DEF IndInv, TypeOK, Client
  <1>2. faults' \in 0..MaxFaults
    BY AssociationAssumption DEF CloseFacade, BacklogInv
  <1>3. client'.connection = 0
    BY <1>1 DEF CloseFacade, Client
  <1>4. Ends(links')
    BY <1>1, CloseQueues DEF CloseFacade
  <1> QED
    BY <1>2, <1>3, <1>4 DEF BacklogInv, Backlog, EndsAreEmpty, Ends

LEMMA ReceiveRlreBacklog == ASSUME IndInv, BacklogInv, ReceiveRlre PROVE BacklogInv'
  <1>1. client \in Client /\ client.waits # "nothing" /\ links[client.connection].toClient # <<>>
    BY EndedRoom DEF ReceiveRlre
  <1>2. CASE CloseFacade(TakenByClient)
    <2>1. SameWait(client, client)
      BY DEF SameWait
    <2>2. AreLinks(TakenByClient) /\ Ends(TakenByClient)
      BY <1>1, <2>1, TakenBacklog
    <2> QED
      BY <1>2, <2>2, FacadeBacklog
  <1>3. CASE /\ client' = [client EXCEPT !.waits = "nothing"] /\ links' = TakenByClient
             /\ UNCHANGED faults
    <2>1. /\ client'.connection = client.connection
          /\ client'.nextInvokeId = client.nextInvokeId
          /\ client'.waits = "nothing" /\ client'.counters = client.counters
      BY <1>1, <1>3 DEF Client
    <2> QED
      BY <1>1, <1>3, <2>1, TakenStep DEF ReceiveRlre
  <1> QED
    BY <1>2, <1>3 DEF ReceiveRlre

LEMMA CloseBacklog == ASSUME IndInv, BacklogInv, Close PROVE BacklogInv'
  BY EndedRoom, FacadeBacklog DEF Close

\* A read that fails leaves an APDU behind only if it counts as a fault.
LEMMA ReceiveFailsBacklog == ASSUME IndInv, BacklogInv, ReceiveFails PROVE BacklogInv'
  <1> DEFINE k == client.connection
  <1>1. /\ client \in Client /\ k \in 1..MaxConnections /\ client.waits # "nothing"
        /\ links' = links /\ mode' = mode
    BY ClientHasConnection DEF ReceiveFails, Idle
  <1>2. /\ client'.connection = k /\ client'.nextInvokeId = client.nextInvokeId
        /\ client'.waits = "nothing" /\ client'.counters = client.counters
    BY <1>1 DEF ReceiveFails, Client
  <1>3. faults' \in 0..MaxFaults /\ RoomOf(faults', client') = faults'
    BY <1>2, AssociationAssumption DEF ReceiveFails, BacklogInv, RoomOf
  <1>4. links[k] \in Link /\ Ends(links)
    BY <1>1, EndedRoom DEF AreLinks
  <1>5. ASSUME ~Spent(client') PROVE Fits(links[k], faults', client')
    <2>1. CASE ClientReadsEnd
      <3>1. links[k].toClient = <<>> /\ links[k].toServer = <<>>
        BY <1>1, <1>4, <2>1 DEF ClientReadsEnd, Ends
      <3> QED
        BY <1>3, <3>1, FitsEmpty
    <2>2. CASE faults' = faults + 1
      <3>1. PICK r \in Int : r = RoomOf(faults, client) /\ r <= faults' /\ faults' \in Int
        BY <1>1, <2>2, EndedRoom DEF RoomOf
      <3>2. ~Spent(client)
        BY <1>2, <1>5, SpentStays
      <3>3. Fits(links[k], r, client)
        BY <1>1, <3>1, <3>2 DEF BacklogInv, Backlog
      <3>4. SameWait(client, client')
        BY <1>2 DEF SameWait
      <3> QED
        BY <1>1, <1>4, <3>1, <3>3, <3>4, FitsLonger
    <2> QED
      BY <2>1, <2>2 DEF ReceiveFails
  <1>6. Backlog'
    BY <1>1, <1>2, <1>3, <1>5 DEF Backlog, Spent
  <1> QED
    BY <1>1, <1>3, <1>4, <1>6 DEF BacklogInv, EndsAreEmpty, Ends

\* What is on the way on the connections ls is no more, nor further back.
StillFits(ls) ==
  \A k \in 1..MaxConnections, r \in Int : Fits(links[k], r, client) => Fits(ls[k], r, client)

LEMMA ServerBacklog ==
  ASSUME IndInv, BacklogInv, client' = client, mode' = mode, faults' \in 0..MaxFaults,
         faults <= faults', Ends(links'), StillFits(links'), AreLinks(links')
  PROVE  BacklogInv'
  <1> DEFINE wait == IF client.waits = "nothing" THEN 0 ELSE 1
  <1>0. /\ wait \in Nat /\ faults \in Nat /\ faults' \in Nat
        /\ RoomOf(faults, client) = faults + wait /\ RoomOf(faults', client') = faults' + wait
    BY EndedRoom, AssociationAssumption DEF RoomOf
  <1> HIDE DEF wait
  <1>w. PICK w \in Nat, f \in Nat, g \in Nat : w = wait /\ f = faults /\ g = faults'
    BY <1>0
  <1>f. RoomOf(faults, client) = f + w /\ RoomOf(faults', client') = g + w /\ f <= g
    BY <1>0, <1>w
  <1> HIDE DEF RoomOf
  <1>1. /\ RoomOf(faults, client) \in Int /\ RoomOf(faults', client') \in Int
        /\ RoomOf(faults, client) <= RoomOf(faults', client')
    BY <1>f
  <1>2. PICK r \in Int : r = RoomOf(faults, client)
    BY <1>1
  <1>3. PICK s \in Int : s = RoomOf(faults', client')
    BY <1>1
  <1>4. r <= s
    BY <1>1, <1>2, <1>3
  <1>5. SameWait(client, client)
    BY DEF SameWait
  <1>6. ASSUME client.connection # 0, ~Spent(client)
        PROVE  Fits(links'[client.connection], s, client)
    <2>1. client \in Client /\ client.connection \in 1..MaxConnections
      BY <1>6, EndedRoom DEF Client
    <2>2. Fits(links[client.connection], r, client)
      BY <1>2, <1>6 DEF BacklogInv, Backlog
    <2>3. Fits(links'[client.connection], r, client) /\ links'[client.connection] \in Link
      BY <2>1, <2>2 DEF StillFits, AreLinks
    <2> QED
      BY <1>2, <1>3, <1>4, <1>5, <2>1, <2>3, FitsLonger
  <1>7. Backlog'
    BY <1>3, <1>6 DEF Backlog, Spent
  <1> QED
    BY <1>7 DEF BacklogInv, EndsAreEmpty, Ends

LEMMA ClosingFits ==
  ASSUME NEW ls, AreLinks(ls), Ends(ls), StillFits(ls), server.connection \in 1..MaxConnections
  PROVE  StillFits(ClosedByServer(ls)) /\ Ends(ClosedByServer(ls))
  <1> DEFINE j == server.connection
             new == ClosedByServer(ls)
  <1>1. /\ new[j].toClient = ls[j].toClient /\ new[j].toServer = <<>>
        /\ \A k \in 1..MaxConnections : k # j => new[k] = ls[k]
    BY DEF AreLinks, Link, ClosedByServer
  <1>2. Ends(new)
    BY <1>1 DEF Ends
  <1> HIDE DEF new
  <1>3. ASSUME NEW k \in 1..MaxConnections, NEW r \in Int, Fits(links[k], r, client)
        PROVE  Fits(new[k], r, client)
    <2>1. Fits(ls[k], r, client) /\ ls[k] \in Link
      BY <1>3 DEF StillFits, AreLinks
    <2>2. CASE k = j
      BY <1>1, <2>1, <2>2, FitsClosed
    <2>3. CASE k # j
      BY <1>1, <2>1, <2>3
    <2> QED
      BY <2>2, <2>3
  <1> QED
    BY <1>2, <1>3 DEF StillFits, new

LEMMA AppendOne == ASSUME NEW S, NEW q \in Seq(S), NEW a \in S
                   PROVE  q \o <<a>> = Append(q, a) /\ q \o <<>> = q
  OBVIOUS

\* The server takes an APDU and answers it or not.
LEMMA AnsweringFits ==
  ASSUME IndInv, BacklogInv, server.phase # "closed", links[server.connection].toServer # <<>>,
         NEW a \in Apdus, a.kind # "request",
         a.kind = "response" =>
           /\ Head(links[server.connection].toServer).kind = "request"
           /\ a.invokeId = Head(links[server.connection].toServer).invokeId
           /\ a.call = Head(links[server.connection].toServer).call,
         NEW new, new = ReadByServer(<<a>>) \/ new = ReadByServer(<<>>)
  PROVE  StillFits(new) /\ Ends(new) /\ AreLinks(new)
  <1> DEFINE j == server.connection
             l == links[j]
  <1>1. j \in 1..MaxConnections /\ AreLinks(links) /\ Ends(links) /\ client \in Client
    BY EndpointHasConnection, EndedRoom
  <1>2. l \in Link /\ l.toClient \in Seq(Apdus) /\ l.toServer \in Seq(Apdus)
    BY <1>1 DEF AreLinks, Link
  <1>3. Tail(l.toServer) \in Seq(Apdus) /\ Append(l.toClient, a) \in Seq(Apdus)
    BY <1>2
  <1>4. l.toClient \o <<a>> = Append(l.toClient, a) /\ l.toClient \o <<>> = l.toClient
    BY <1>2, AppendOne, Zenon
  <1>5. \E q \in {l.toClient, Append(l.toClient, a)} :
          new = [links EXCEPT ![j].toServer = Tail(l.toServer), ![j].toClient = q]
    BY <1>1, <1>4 DEF ReadByServer, AreLinks
  <1>6. PICK q \in {l.toClient, Append(l.toClient, a)} :
          new = [links EXCEPT ![j].toServer = Tail(l.toServer), ![j].toClient = q]
    BY <1>5
  <1>7. PICK p \in Seq(Apdus) : p = Tail(l.toServer)
    BY <1>3
  <1>8. q \in Seq(Apdus) /\ new = [links EXCEPT ![j].toServer = p, ![j].toClient = q]
    BY <1>2, <1>3, <1>6, <1>7
  <1>9. /\ new[j].toServer = p /\ new[j].toClient = q /\ new[j].server = l.server
        /\ AreLinks(new) /\ \A k \in 1..MaxConnections : k # j => new[k] = links[k]
    <2> DEFINE m == [l EXCEPT !.toServer = p]
               o == [m EXCEPT !.toClient = q]
    <2>1. new = [links EXCEPT ![j] = o]
      BY <1>1, <1>8 DEF AreLinks
    <2>2. m \in Link /\ m.toServer = p /\ m.server = l.server
      BY <1>2, <1>7 DEF Link
    <2> HIDE DEF m
    <2>3. o \in Link /\ o.toServer = p /\ o.toClient = q /\ o.server = l.server
      BY <1>8, <2>2 DEF Link
    <2> HIDE DEF o
    <2> QED
      BY <1>1, <2>1, <2>3 DEF AreLinks
  <1>10. l.server # "closed"
    BY <1>1 DEF Ends
  <1>11. Ends(new)
    BY <1>1, <1>9, <1>10 DEF Ends
  <1>12. ASSUME NEW k \in 1..MaxConnections, NEW r \in Int, Fits(links[k], r, client)
         PROVE  Fits(new[k], r, client)
    <2>1. CASE k = j
      <3>1. /\ new[k].toClient = links[k].toClient \/ new[k].toClient = Append(links[k].toClient, a)
            /\ new[k].toServer = Tail(links[k].toServer)
        BY <1>6, <1>7, <1>9, <2>1
      <3> QED
        BY <1>1, <1>2, <1>12, <2>1, <3>1, FitsAnswered
    <2>2. CASE k # j
      BY <1>9, <1>12, <2>2
    <2> QED
      BY <2>1, <2>2
  <1> QED
    BY <1>9, <1>11, <1>12 DEF StillFits

LEMMA EndpointClosesBacklog ==
  ASSUME IndInv, IndInv', BacklogInv, server.phase # "closed", links' = ClosedByServer(links),
         client' = client, mode' = mode, faults' \in 0..MaxFaults, faults <= faults'
  PROVE  BacklogInv'
  <1>1. server.connection \in 1..MaxConnections /\ AreLinks(links) /\ Ends(links) /\ AreLinks(links')
    BY EndpointHasConnection, EndedRoom, LinksAreLinks DEF IndInv, TypeOK, AreLinks
  <1>2. StillFits(links)
    BY DEF StillFits
  <1>3. StillFits(links') /\ Ends(links')
    BY <1>1, <1>2, ClosingFits
  <1> QED
    BY <1>1, <1>3, ServerBacklog

\* The server answers an APDU or not, and may close the connection.
LEMMA AnswerBacklog ==
  ASSUME IndInv, IndInv', BacklogInv, server.phase # "closed",
         links[server.connection].toServer # <<>>, NEW a \in Apdus, a.kind # "request",
         a.kind = "response" =>
           /\ Head(links[server.connection].toServer).kind = "request"
           /\ a.invokeId = Head(links[server.connection].toServer).invokeId
           /\ a.call = Head(links[server.connection].toServer).call,
         \/ links' = ReadByServer(<<a>>) \/ links' = ReadByServer(<<>>)
         \/ links' = ClosedByServer(ReadByServer(<<a>>)),
         client' = client, mode' = mode, faults' = faults
  PROVE  BacklogInv'
  <1>1. faults' \in 0..MaxFaults /\ faults <= faults' /\ AreLinks(links')
    BY AssociationAssumption DEF BacklogInv, IndInv, TypeOK, AreLinks
  <1>2. CASE links' = ReadByServer(<<a>>) \/ links' = ReadByServer(<<>>)
    <2>1. StillFits(links') /\ Ends(links')
      BY <1>2, AnsweringFits
    <2> QED
      BY <1>1, <2>1, ServerBacklog
  <1>3. CASE links' = ClosedByServer(ReadByServer(<<a>>))
    <2>1. PICK ls : ls = ReadByServer(<<a>>)
      OBVIOUS
    <2>2. StillFits(ls) /\ Ends(ls) /\ AreLinks(ls)
      BY <2>1, AnsweringFits
    <2>3. StillFits(links') /\ Ends(links')
      BY <1>3, <2>1, <2>2, EndpointHasConnection, ClosingFits
    <2> QED
      BY <1>1, <2>3, ServerBacklog
  <1> QED
    BY <1>2, <1>3

LEMMA OpenBacklog == ASSUME IndInv, IndInv', BacklogInv, Open PROVE BacklogInv'
  <1>0. PICK k \in 1..connections : links' = [links EXCEPT ![k].server = "open"]
    BY DEF Open
  <1>1. k \in 1..MaxConnections /\ AreLinks(links) /\ Ends(links) /\ AreLinks(links')
    BY AssociationAssumption, EndedRoom DEF IndInv, TypeOK, AreLinks
  <1>2. /\ \A j \in 1..MaxConnections : j # k => links'[j] = links[j]
        /\ links'[k].toServer = links[k].toServer /\ links'[k].toClient = links[k].toClient
        /\ links'[k].server = "open"
    BY <1>0, <1>1 DEF AreLinks, Link
  <1>3. Ends(links')
    BY <1>1, <1>2 DEF Ends
  <1>4. StillFits(links')
    BY <1>2 DEF StillFits, Fits
  <1>5. faults' \in 0..MaxFaults /\ faults <= faults' /\ mode' = mode /\ client' = client
    BY AssociationAssumption DEF BacklogInv, Open
  <1> QED
    BY <1>1, <1>3, <1>4, <1>5, ServerBacklog

LEMMA NegotiateAssociationBacklog ==
  ASSUME IndInv, IndInv', BacklogInv, NegotiateAssociation PROVE BacklogInv'
  <1>0. /\ mode' = mode /\ client' = client /\ faults' = faults /\ server.phase # "closed"
        /\ links[server.connection].toServer # <<>>
        /\ faults' \in 0..MaxFaults /\ faults <= faults'
    BY AssociationAssumption DEF BacklogInv, NegotiateAssociation
  <1>1. CASE links' = ClosedByServer(links)
    BY <1>0, <1>1, EndpointClosesBacklog
  <1>2. CASE links' = ReadByServer(<<Aare(server'.serverChallenge)>>)
    <2>1. server'.serverChallenge \in Nat
      BY DEF IndInv, TypeOK, Endpoint
    <2>2. /\ Aare(server'.serverChallenge) \in Apdus
          /\ Aare(server'.serverChallenge).kind = "aare"
      BY <2>1, MaxCounterAssumption, InvokeIdFacts DEF Aare, Apdu, Apdus, Counters
    <2> QED
      BY <1>0, <1>2, <2>2, AnswerBacklog
  <1> QED
    BY <1>1, <1>2 DEF NegotiateAssociation

LEMMA HandleReleaseBacklog ==
  ASSUME IndInv, IndInv', BacklogInv, Reads, HandleRelease,
         client' = client, mode' = mode, faults' = faults
  PROVE  BacklogInv'
  <1>1. Rlre \in Apdus /\ Rlre.kind = "rlre"
    BY MaxCounterAssumption, InvokeIdFacts DEF Rlre, Apdu, Apdus, Counters
  <1>2. links' = ReadByServer(<<>>) \/ links' = ClosedByServer(ReadByServer(<<Rlre>>))
    BY DEF HandleRelease
  <1> QED
    BY <1>1, <1>2, AnswerBacklog DEF Reads

LEMMA HandleHlsReplyBacklog ==
  ASSUME IndInv, IndInv', BacklogInv, Reads, NEW apdu \in Apdus, HandleHlsReply(apdu),
         client' = client, mode' = mode, faults' = faults
  PROVE  BacklogInv'
  <1>1. server \in Endpoint
    BY DEF IndInv, TypeOK
  <1>2. PICK counter \in Counters :
          \/ links' = ReadByServer(<<Apdu("hlsResponse", apdu.invokeId, 0,
                                          server.clientChallenge, counter)>>)
          \/ links' = ReadByServer(<<>>)
    BY <1>1, MaxCounterAssumption DEF HandleHlsReply, Endpoint, Store, Counters, StoreRemote
  <1> DEFINE answer == Apdu("hlsResponse", apdu.invokeId, 0, server.clientChallenge, counter)
  <1>3. answer \in Apdus /\ answer.kind = "hlsResponse"
    BY <1>1 DEF Apdu, Apdus, Endpoint
  <1>4. links' = ReadByServer(<<answer>>) \/ links' = ReadByServer(<<>>)
    BY <1>2
  <1> HIDE DEF answer
  <1> QED
    BY <1>3, <1>4, AnswerBacklog DEF Reads

\* What ProcessRequest answers carries invoke id and call of its request.
LEMMA ProcessRequestSends ==
  ASSUME IndInv, Reads, NEW apdu \in Apdus, ProcessRequest(apdu)
  PROVE  \E a \in Apdus :
           /\ a.kind \in {"response", "actionResponse"}
           /\ a.kind = "response" => apdu.kind = "request"
           /\ a.invokeId = apdu.invokeId /\ a.call = apdu.call
           /\ \/ links' = ReadByServer(<<>>)
              \/ /\ links' = ReadByServer(<<a>>)
                 /\ a.kind = "response" => <<server.connection, a.call>> \in served'
  <1> DEFINE kind == IF apdu.kind = "request" THEN "response" ELSE "actionResponse"
             noted == Unprotected(SeenCounters(apdu), apdu)
  <1>1. server \in Endpoint /\ server.counters \in Store /\ apdu.counter \in Counters
    BY EndpointHasConnection DEF Reads, Endpoint, Apdus
  <1>2. noted \in Store
    BY <1>1, StoreFacts DEF SeenCounters, Unprotected
  <1>3. PICK counter \in Counters :
          \/ links' = ReadByServer(<<Apdu(kind, apdu.invokeId, apdu.call, 0, counter)>>)
             /\ (apdu.kind = "request" => <<server.connection, apdu.call>> \in served')
          \/ links' = ReadByServer(<<>>)
    <2>1. (IF mode.ciphered THEN noted.nextLocal ELSE 0) \in Counters
      BY <1>2, MaxCounterAssumption DEF Store, Counters
    <2> HIDE DEF noted
    <2> QED
      BY <2>1 DEF ProcessRequest, noted
  <1> DEFINE answer == Apdu(kind, apdu.invokeId, apdu.call, 0, counter)
  <1>4. /\ answer \in Apdus /\ answer.kind = kind
        /\ answer.invokeId = apdu.invokeId /\ answer.call = apdu.call
    BY DEF Apdu, Apdus
  <1>5. \/ /\ links' = ReadByServer(<<answer>>)
           /\ apdu.kind = "request" => <<server.connection, apdu.call>> \in served'
        \/ links' = ReadByServer(<<>>)
    BY <1>3
  <1> HIDE DEF answer
  <1>6. /\ answer.kind \in {"response", "actionResponse"}
        /\ answer.kind = "response" => apdu.kind = "request"
    BY <1>4
  <1>7. answer.kind = "response" => <<server.connection, answer.call>> \in served'
                                     \/ links' = ReadByServer(<<>>)
    BY <1>4, <1>5, <1>6
  <1> HIDE DEF kind, noted
  <1> QED
    BY <1>4, <1>5, <1>6, <1>7

LEMMA RunOnceBacklog == ASSUME IndInv, IndInv', BacklogInv, RunOnce PROVE BacklogInv'
  <1> DEFINE apdu == Head(links[server.connection].toServer)
  <1>1. Reads /\ apdu \in Apdus
    BY ServerReads DEF RunOnce, Reads
  <1>2. HandleRelease \/ HandleHlsReply(apdu) \/ ProcessRequest(apdu)
    BY DEF RunOnce
  <1>3. client' = client /\ mode' = mode /\ faults' = faults
    BY DEF RunOnce
  <1>4. CASE ProcessRequest(apdu)
    <2> HIDE DEF apdu
    <2>1. PICK a \in Apdus :
            /\ a.kind \in {"response", "actionResponse"}
            /\ a.kind = "response" => apdu.kind = "request"
            /\ a.invokeId = apdu.invokeId /\ a.call = apdu.call
            /\ \/ links' = ReadByServer(<<>>)
               \/ /\ links' = ReadByServer(<<a>>)
                  /\ a.kind = "response" => <<server.connection, a.call>> \in served'
      BY <1>1, <1>4, ProcessRequestSends
    <2>2. links' = ReadByServer(<<>>) \/ links' = ReadByServer(<<a>>)
      BY <2>1
    <2>3. a.kind # "request"
      BY <2>1
    <2> USE DEF apdu
    <2> QED
      BY <1>1, <1>3, <2>1, <2>2, <2>3, AnswerBacklog DEF Reads
  <1> HIDE DEF apdu
  <1> QED
    BY <1>1, <1>2, <1>3, <1>4, HandleReleaseBacklog, HandleHlsReplyBacklog

LEMMA BacklogInitially == Init => BacklogInv
  <1> SUFFICES ASSUME Init PROVE BacklogInv
    OBVIOUS
  <1>1. client.connection = 0 /\ faults \in 0..MaxFaults
    BY AssociationAssumption DEF Init, NewClient
  <1>2. EndsAreEmpty
    BY DEF Init, EndsAreEmpty, NewLink
  <1> QED
    BY <1>1, <1>2 DEF BacklogInv, Backlog

\* What is on the way never outgrows the reads that failed, so that no two of
\* it that a call may take for its own share an invoke id.
LEMMA BacklogInvariant == Spec => []BacklogInv
  <1>1. IndInv /\ IndInv' /\ BacklogInv /\ [Next]_vars => BacklogInv'
    <2> SUFFICES ASSUME IndInv, IndInv', BacklogInv, [Next]_vars PROVE BacklogInv'
      OBVIOUS
    <2>1. CASE AcceptFails
      <3>1. faults' \in 0..MaxFaults /\ faults <= faults'
        BY <2>1, AssociationAssumption DEF AcceptFails, BacklogInv
      <3> QED
        BY <2>1, <3>1, EndpointClosesBacklog DEF AcceptFails
    <2>2. CASE CloseEndpoint
      <3>1. faults' \in 0..MaxFaults /\ faults <= faults'
        BY <2>2, AssociationAssumption DEF CloseEndpoint, BacklogInv
      <3> QED
        BY <2>2, <3>1, EndpointClosesBacklog DEF CloseEndpoint
    <2>3. CASE UNCHANGED vars
      BY <2>3 DEF vars, BacklogInv, EndsAreEmpty, Backlog, Spent
    <2> QED
      BY <2>1, <2>2, <2>3, ConnectBacklog, OpenAssociationBacklog, ReceiveAareBacklog,
         ReceiveHlsResponseBacklog, ServiceBacklog, ReceiveResponseBacklog,
         ReleaseAssociationBacklog, ReceiveRlreBacklog, CloseBacklog, ReceiveFailsBacklog,
         OpenBacklog, NegotiateAssociationBacklog, RunOnceBacklog DEF Next
  <1> QED
    BY AssociationInvariant, BacklogInitially, <1>1, PTL DEF Spec

-----------------------------------------------------------------------------
(***************************************************************************)
(* A request is carried out before it gets its response.                   *)
(***************************************************************************)
Answered(k) == {a \in Apdus : a.kind = "response" => <<k, a.call>> \in served}

Answers == [k \in 1..MaxConnections |-> Answered(k)]

ResponseInv == Carries(links, Answers) /\ OkMeansServed

LEMMA NoResponse ==
  \A a \in Apdus, k \in 1..MaxConnections : a.kind # "response" => a \in Answers[k]
  BY DEF Answers, Answered

\* A step that adds no response.
LEMMA NothingAdded ==
  ASSUME ResponseInv, Carries(links', Answers), returned' = returned, served \subseteq served'
  PROVE  ResponseInv'
  <1>1. \A k \in 1..MaxConnections : Answers[k] \subseteq Answers'[k]
    BY DEF Answers, Answered
  <1>2. Carries(links', Answers')
    BY <1>1, CarriesMore
  <1> QED
    BY <1>2 DEF ResponseInv, OkMeansServed

LEMMA ToServerAnswers ==
  ASSUME NEW V, Carries(links, V), client.connection \in 1..MaxConnections,
         NEW apdu \in Apdus, ToServer(client.connection, apdu)
  PROVE  Carries(links', V)
  BY SendCarries DEF ToServer

LEMMA ConnectAnswers == ASSUME IndInv, ResponseInv, Connect PROVE ResponseInv'
  <1>1. connections' \in 1..MaxConnections
    BY AssociationAssumption DEF IndInv, TypeOK, Connect
  <1>2. Carries(links', Answers)
    <2>1. CASE UNCHANGED links
      BY <2>1 DEF ResponseInv
    <2>2. CASE links' = [links EXCEPT ![connections'] = NewLink]
      <3>1. \A S : NewLink.toClient \in Seq(S)
        BY EmptyIsSequence DEF NewLink
      <3> QED
        BY <1>1, <2>2, <3>1, NewLinkType DEF ResponseInv, Carries
    <2> QED
      BY <2>1, <2>2 DEF Connect
  <1> QED
    BY <1>2, NothingAdded DEF Connect, history

LEMMA ReplyAnswers ==
  ASSUME mode \in Modes, NEW c, ClientFacts(c), c.connection # 0, NEW ls, NEW V,
         Carries(ls, V), ReplyToChallenge(c, ls)
  PROVE  Carries(links', V)
  <1> DEFINE id == IF mode.ciphered THEN 1 ELSE c.nextInvokeId
             counter == IF Gmac THEN c.counters.nextLocal ELSE 0
             reply == Apdu("hls", id, 0, c.serverChallenge, counter)
  <1>1. c \in Client /\ c.connection \in 1..MaxConnections
        /\ c.counters \in Store /\ c.counters.nextLocal \in Counters /\ 0 \in Counters
    BY MaxCounterAssumption DEF ClientFacts, Client, Store, Counters
  <1>2. reply \in Apdus
    BY <1>1, InvokeIdFacts DEF Apdu, Apdus, Client
  <1>3. \/ links' = ls
        \/ links' = [ls EXCEPT ![c.connection].toServer = Append(@, reply)]
    BY DEF ReplyToChallenge
  <1> HIDE DEF reply
  <1> QED
    BY <1>1, <1>2, <1>3, SendCarries

LEMMA OpenAssociationAnswers ==
  ASSUME IndInv, IndInv', ResponseInv, OpenAssociation PROVE ResponseInv'
  <1>1. CASE Establish
    <2>1. client \in Client /\ client.connection \in 1..MaxConnections
      BY <1>1, ClientHasConnection DEF Establish
    <2>2. client'.clientChallenge \in Nat
      BY DEF IndInv, TypeOK, Client
    <2>3. Aarq(client'.clientChallenge) \in Apdus
      BY <2>2, MaxCounterAssumption, InvokeIdFacts DEF Aarq, Apdu, Apdus, Counters
    <2>4. Carries(links', Answers)
      BY <1>1, <2>1, <2>3, ToServerAnswers DEF Establish, ResponseInv
    <2> QED
      BY <2>4, NothingAdded DEF OpenAssociation, history
  <1>2. CASE ResumeAssociation
    <2>1. client \in Client /\ client.connection \in 1..MaxConnections
      BY <1>2, ClientHasConnection DEF ResumeAssociation
    <2>2. Carries(links', Answers)
      BY <1>2, <2>1, ReplyAnswers DEF ResumeAssociation, IndInv, TypeOK, ClientFacts, ResponseInv
    <2> QED
      BY <2>2, NothingAdded DEF OpenAssociation, history
  <1> QED
    BY <1>1, <1>2 DEF OpenAssociation

\* What the client reads.
LEMMA ClientReadsAnswer ==
  ASSUME IndInv, ResponseInv, client.waits # "nothing",
         links[client.connection].toClient # <<>>
  PROVE  /\ client \in Client /\ client.connection \in 1..MaxConnections
         /\ Carries(TakenByClient, Answers)
         /\ Head(links[client.connection].toClient) \in Apdus
         /\ Head(links[client.connection].toClient) \in Answered(client.connection)
  <1>1. client \in Client /\ client.connection \in 1..MaxConnections
        /\ Head(links[client.connection].toClient) \in Apdus
    BY ClientReads
  <1>2. /\ Carries(TakenByClient, Answers)
        /\ Head(links[client.connection].toClient) \in Answers[client.connection]
    BY <1>1, TakeCarries DEF TakenByClient, ResponseInv
  <1> QED
    BY <1>1, <1>2 DEF Answers

LEMMA ReceiveAareAnswers == ASSUME IndInv, ResponseInv, ReceiveAare PROVE ResponseInv'
  <1> DEFINE k == client.connection
             apdu == Head(links[k].toClient)
             associated == [client EXCEPT !.association = "Associated",
                                          !.serverChallenge = apdu.challenge]
  <1>1. /\ client \in Client /\ k \in 1..MaxConnections
        /\ Carries(TakenByClient, Answers) /\ apdu \in Apdus /\ apdu.challenge \in Nat
    BY ClientReadsAnswer DEF ReceiveAare, Apdus
  <1>2. associated \in Client /\ associated.connection = k
    <2>1. PICK n \in Nat : n = apdu.challenge
      BY <1>1
    <2> QED
      BY <1>1, <2>1 DEF Client
  <1>3. Carries(links', Answers)
    <2>1. CASE links' = TakenByClient
      BY <1>1, <2>1
    <2>2. CASE ReplyToChallenge(associated, TakenByClient)
      <3>1. ClientFacts(associated) /\ associated.connection # 0 /\ mode \in Modes
        BY <1>1, <1>2 DEF ClientFacts, IndInv, TypeOK
      <3> HIDE DEF associated
      <3> QED
        BY <1>1, <2>2, <3>1, ReplyAnswers
    <2> QED
      BY <2>1, <2>2 DEF ReceiveAare
  <1> QED
    BY <1>3, NothingAdded DEF ReceiveAare, history

LEMMA ReceiveHlsResponseAnswers ==
  ASSUME IndInv, ResponseInv, ReceiveHlsResponse PROVE ResponseInv'
  BY ClientReadsAnswer, NothingAdded DEF ReceiveHlsResponse

LEMMA ServiceAnswers == ASSUME IndInv, IndInv', ResponseInv, Service PROVE ResponseInv'
  <1>1. /\ client \in Client /\ client.connection \in 1..MaxConnections /\ calls' \in Nat
        /\ client.counters \in Store
    BY ClientHasConnection DEF Service, IndInv, TypeOK, Client
  <1>2. CASE UNCHANGED links
    BY <1>2, NothingAdded DEF Service, history, ResponseInv
  <1>3. CASE ~ UNCHANGED links
    <2> DEFINE request == Apdu("request", client.nextInvokeId, calls', 0,
                               IF mode.ciphered THEN client.counters.nextLocal ELSE 0)
    <2>1. request \in Apdus
      BY <1>1, MaxCounterAssumption, InvokeIdFacts DEF Apdu, Apdus, Client, Store, Counters
    <2>2. ToServer(client.connection, request)
      BY <1>3 DEF Service
    <2> HIDE DEF request
    <2>3. Carries(links', Answers)
      BY <1>1, <2>1, <2>2, ToServerAnswers DEF ResponseInv
    <2> QED
      BY <2>3, NothingAdded DEF Service, history
  <1> QED
    BY <1>2, <1>3

\* The response the client takes for its own is the one to its call.
LEMMA ReceiveResponseAnswers ==
  ASSUME IndInv, BacklogInv, ResponseInv, ReceiveResponse PROVE ResponseInv'
  <1> DEFINE apdu == Head(links[client.connection].toClient)
  <1>1. Carries(TakenByClient, Answers) /\ apdu \in Answered(client.connection)
    BY ClientReadsAnswer DEF ReceiveResponse
  <1>2. CASE returned' = returned
    BY <1>1, <1>2, NothingAdded DEF ReceiveResponse
  <1>3. CASE returned' # returned
    <2>1. /\ returned' = [call |-> client.call, connection |-> client.connection]
          /\ IsMyResponse(apdu) /\ client.waits = "response"
      BY <1>3 DEF ReceiveResponse
    <2>2. ~Spent(client) /\ SameWait(client, client)
      BY <2>1 DEF Spent, SameWait
    <2>3. Held(apdu, faults, client)
      BY <2>1, <2>2, TakenBacklog DEF ReceiveResponse
    <2>4. <<client.connection, client.call>> \in served
      BY <1>1, <2>1, <2>3 DEF Answered, Held, IsMyResponse
    <2>5. served' = served /\ links' = TakenByClient
      BY DEF ReceiveResponse
    <2> HIDE DEF apdu
    <2>6. returned'.call = client.call /\ returned'.connection = client.connection
      BY <2>1
    <2>7. OkMeansServed'
      BY <2>4, <2>5, <2>6 DEF OkMeansServed
    <2>8. Answers' = Answers
      BY <2>5 DEF Answers, Answered
    <2> QED
      BY <1>1, <2>5, <2>7, <2>8 DEF ResponseInv
  <1> QED
    BY <1>2, <1>3

LEMMA ReleaseAssociationAnswers ==
  ASSUME IndInv, ResponseInv, ReleaseAssociation PROVE ResponseInv'
  <1>1. client \in Client /\ client.connection \in 1..MaxConnections
    BY ClientHasConnection DEF ReleaseAssociation
  <1>2. Rlrq \in Apdus
    BY MaxCounterAssumption, InvokeIdFacts DEF Rlrq, Apdu, Apdus, Counters
  <1>3. Carries(links', Answers)
    BY <1>1, <1>2, ToServerAnswers DEF ReleaseAssociation, ResponseInv
  <1> QED
    BY <1>3, NothingAdded DEF ReleaseAssociation, history

LEMMA FacadeAnswers ==
  ASSUME IndInv, NEW ls, NEW V, Carries(ls, V), CloseFacade(ls)
  PROVE  Carries(links', V)
  <1>1. client.connection \in 0..MaxConnections
    BY DEF IndInv, TypeOK, Client
  <1> QED
    BY <1>1, CloseCarries DEF CloseFacade

LEMMA ReceiveRlreAnswers == ASSUME IndInv, ResponseInv, ReceiveRlre PROVE ResponseInv'
  <1>1. Carries(TakenByClient, Answers)
    BY ClientReadsAnswer DEF ReceiveRlre
  <1>2. Carries(links', Answers)
    BY <1>1, FacadeAnswers DEF ReceiveRlre
  <1> QED
    BY <1>2, NothingAdded DEF ReceiveRlre, history

LEMMA CloseAnswers == ASSUME IndInv, ResponseInv, Close PROVE ResponseInv'
  BY FacadeAnswers, NothingAdded DEF Close, ResponseInv, history

LEMMA OpenAnswers == ASSUME IndInv, ResponseInv, Open PROVE ResponseInv'
  <1>0. PICK k \in 1..connections : links' = [links EXCEPT ![k].server = "open"]
    BY DEF Open
  <1>1. k \in 1..MaxConnections
    BY AssociationAssumption DEF IndInv, TypeOK
  <1>2. links' \in [1..MaxConnections -> Link]
        /\ \A j \in 1..MaxConnections : links'[j].toClient = links[j].toClient
    BY <1>0, <1>1 DEF IndInv, TypeOK, Link
  <1>3. Carries(links', Answers)
    BY <1>2 DEF ResponseInv, Carries
  <1> QED
    BY <1>3, NothingAdded DEF Open, history

LEMMA EndpointClosesAnswers ==
  ASSUME IndInv, ResponseInv, server.phase # "closed", links' = ClosedByServer(links),
         UNCHANGED <<served, returned>>
  PROVE  ResponseInv'
  BY EndpointHasConnection, ServerCloseCarries, NothingAdded DEF ResponseInv

\* What the server sends.
LEMMA ServerSends ==
  ASSUME IndInv, NEW V, Carries(links, V), server.phase # "closed",
         links[server.connection].toServer # <<>>, NEW apdu \in Apdus
  PROVE  /\ apdu \in V[server.connection] => Carries(ReadByServer(<<apdu>>), V)
         /\ Carries(ReadByServer(<<>>), V)
  <1> DEFINE k == server.connection
  <1>1. k \in 1..MaxConnections
    BY EndpointHasConnection
  <1>2. <<>> \in Seq(Apdus) /\ <<>> \in Seq(V[k])
    BY EmptyIsSequence, Zenon
  <1>3. CASE apdu \in V[k]
    <2>1. <<apdu>> \in Seq(Apdus) /\ <<apdu>> \in Seq(V[k])
      BY <1>3, Singleton, Zenon
    <2> QED
      BY <1>1, <1>2, <2>1, ServerReadCarries
  <1> QED
    BY <1>1, <1>2, <1>3, ServerReadCarries

LEMMA NegotiateAssociationAnswers ==
  ASSUME IndInv, IndInv', ResponseInv, NegotiateAssociation PROVE ResponseInv'
  <1>1. CASE links' = ClosedByServer(links)
    BY <1>1, EndpointClosesAnswers DEF NegotiateAssociation
  <1>2. CASE links' = ReadByServer(<<Aare(server'.serverChallenge)>>)
    <2>1. server'.serverChallenge \in Nat
      BY DEF IndInv, TypeOK, Endpoint
    <2>2. /\ Aare(server'.serverChallenge) \in Apdus
          /\ Aare(server'.serverChallenge).kind = "aare"
      BY <2>1, MaxCounterAssumption, InvokeIdFacts DEF Aare, Apdu, Apdus, Counters
    <2>3. Carries(links', Answers)
      BY <1>2, <2>2, ServerSends, NoResponse, EndpointHasConnection
         DEF NegotiateAssociation, ResponseInv
    <2> QED
      BY <2>3, NothingAdded DEF NegotiateAssociation
  <1> QED
    BY <1>1, <1>2 DEF NegotiateAssociation

LEMMA HandleReleaseAnswers ==
  ASSUME IndInv, ResponseInv, Reads, HandleRelease, UNCHANGED <<served, returned>>
  PROVE  ResponseInv'
  <1>1. Rlre \in Apdus /\ Rlre.kind = "rlre"
    BY MaxCounterAssumption, InvokeIdFacts DEF Rlre, Apdu, Apdus, Counters
  <1>2. Carries(ReadByServer(<<Rlre>>), Answers) /\ Carries(ReadByServer(<<>>), Answers)
    BY <1>1, ServerSends, NoResponse, EndpointHasConnection DEF Reads, ResponseInv
  <1>3. Carries(links', Answers)
    BY <1>2, EndpointHasConnection, ServerCloseCarries DEF HandleRelease, Reads
  <1> QED
    BY <1>3, NothingAdded

LEMMA HandleHlsReplyAnswers ==
  ASSUME IndInv, ResponseInv, Reads, NEW apdu \in Apdus, HandleHlsReply(apdu),
         UNCHANGED <<served, returned>>
  PROVE  ResponseInv'
  <1>1. server \in Endpoint
    BY DEF IndInv, TypeOK
  <1>2. PICK counter \in Counters :
          \/ links' = ReadByServer(<<Apdu("hlsResponse", apdu.invokeId, 0,
                                          server.clientChallenge, counter)>>)
          \/ links' = ReadByServer(<<>>)
    BY <1>1, MaxCounterAssumption DEF HandleHlsReply, Endpoint, Store, Counters, StoreRemote
  <1> DEFINE answer == Apdu("hlsResponse", apdu.invokeId, 0, server.clientChallenge, counter)
  <1>3. answer \in Apdus /\ answer.kind = "hlsResponse"
    BY <1>1 DEF Apdu, Apdus, Endpoint
  <1>4. links' = ReadByServer(<<answer>>) \/ links' = ReadByServer(<<>>)
    BY <1>2
  <1> HIDE DEF answer
  <1>5. Carries(links', Answers)
    BY <1>3, <1>4, ServerSends, NoResponse, EndpointHasConnection DEF Reads, ResponseInv
  <1> QED
    BY <1>5, NothingAdded

\* The request of a response was carried out.
LEMMA ProcessRequestAnswers ==
  ASSUME IndInv, ResponseInv, Reads, NEW apdu \in Apdus, ProcessRequest(apdu),
         UNCHANGED returned
  PROVE  ResponseInv'
  <1>1. served \subseteq served' /\ server.connection \in 1..MaxConnections
    BY EndpointHasConnection DEF ProcessRequest, Reads
  <1>2. Carries(links, Answers') /\ OkMeansServed'
    <2>1. \A k \in 1..MaxConnections : Answers[k] \subseteq Answers'[k]
      BY <1>1 DEF Answers, Answered
    <2> QED
      BY <1>1, <2>1, CarriesMore DEF ResponseInv, OkMeansServed
  <1>3. PICK a \in Apdus :
          /\ a.kind \in {"response", "actionResponse"}
          /\ a.kind = "response" => apdu.kind = "request"
          /\ a.invokeId = apdu.invokeId /\ a.call = apdu.call
          /\ \/ links' = ReadByServer(<<>>)
             \/ /\ links' = ReadByServer(<<a>>)
                /\ a.kind = "response" => <<server.connection, a.call>> \in served'
    BY ProcessRequestSends
  <1>4. CASE links' = ReadByServer(<<>>)
    BY <1>2, <1>4, ServerSends DEF Reads, ResponseInv
  <1>5. CASE /\ links' = ReadByServer(<<a>>)
             /\ a.kind = "response" => <<server.connection, a.call>> \in served'
    <2>1. PICK k \in 1..MaxConnections : k = server.connection
      BY <1>1
    <2>2. a \in Answers'[k]
      BY <1>3, <1>5, <2>1 DEF Answers, Answered
    <2> QED
      BY <1>2, <1>3, <1>5, <2>1, <2>2, ServerSends DEF Reads, ResponseInv
  <1> QED
    BY <1>2, <1>3, <1>4, <1>5 DEF ResponseInv

LEMMA RunOnceAnswers == ASSUME IndInv, ResponseInv, RunOnce PROVE ResponseInv'
  <1> DEFINE apdu == Head(links[server.connection].toServer)
  <1>1. Reads /\ apdu \in Apdus
    BY ServerReads DEF RunOnce, Reads
  <1>2. \/ HandleRelease /\ UNCHANGED served
        \/ HandleHlsReply(apdu) /\ UNCHANGED served
        \/ ProcessRequest(apdu)
    BY DEF RunOnce
  <1>3. UNCHANGED returned
    BY DEF RunOnce
  <1> HIDE DEF apdu
  <1> QED
    BY <1>1, <1>2, <1>3, HandleReleaseAnswers, HandleHlsReplyAnswers, ProcessRequestAnswers

\* A service call that returns Ok was carried out by the server, on the
\* connection of the call and for every configuration.  By StaleAssumption fewer
\* reads fail than there are invoke ids; then no late response to an earlier
\* call is taken for its own (DlmsClient's service calls, XdlmsClient's check of
\* the invoke id, InvokeIdAllocator, ServerEndpoint::RunOnce).
THEOREM OkMeansServedTheorem == Spec => []OkMeansServed
  <1>1. Init => ResponseInv
    <2> SUFFICES ASSUME Init PROVE ResponseInv
      OBVIOUS
    <2>1. \A k \in 1..MaxConnections : links[k].toClient = <<>>
      BY DEF Init, NewLink
    <2>2. links \in [1..MaxConnections -> Link]
      BY Initially DEF IndInv, TypeOK
    <2>3. Carries(links, Answers)
      BY <2>1, <2>2, EmptyIsSequence DEF Carries
    <2> QED
      BY <2>3 DEF ResponseInv, OkMeansServed, Init
  <1>2. IndInv /\ IndInv' /\ BacklogInv /\ ResponseInv /\ [Next]_vars => ResponseInv'
    <2> SUFFICES ASSUME IndInv, IndInv', BacklogInv, ResponseInv, [Next]_vars
                 PROVE  ResponseInv'
      OBVIOUS
    <2>1. CASE AcceptFails \/ CloseEndpoint
      BY <2>1, EndpointClosesAnswers DEF AcceptFails, CloseEndpoint, history
    <2>2. CASE UNCHANGED vars
      BY <2>2, NothingAdded DEF vars, ResponseInv
    <2>3. CASE ReceiveFails
      BY <2>3, NothingAdded DEF ReceiveFails, history, ResponseInv
    <2> QED
      BY <2>1, <2>2, <2>3, ConnectAnswers, OpenAssociationAnswers, ReceiveAareAnswers,
         ReceiveHlsResponseAnswers, ServiceAnswers, ReceiveResponseAnswers,
         ReleaseAssociationAnswers, ReceiveRlreAnswers, CloseAnswers,
         OpenAnswers, NegotiateAssociationAnswers, RunOnceAnswers DEF Next
  <1>3. ResponseInv => OkMeansServed
    BY DEF ResponseInv
  <1> QED
    BY AssociationInvariant, BacklogInvariant, <1>1, <1>2, <1>3, PTL DEF Spec

-----------------------------------------------------------------------------
(***************************************************************************)
(* The third pass comes first: an application that opens its associations  *)
(* with the facade has no request on the way before the server verified    *)
(* it, so that none comes in the place of the third pass.                  *)
(***************************************************************************)
Sendable(k) ==
  {a \in Apdus : a.kind = "request" /\ ~mode.direct /\ Hls => k \in verified}

\* Connections ls with only such requests, whose servers are those of links.
Orderly(ls) ==
  /\ AreLinks(ls)
  /\ \A k \in 1..MaxConnections :
       ls[k].toServer \in Seq(Sendable(k)) /\ ls[k].server = links[k].server

\* A connection is verified by the endpoint that serves it, while it does.
VerifiedWhenServed ==
  /\ server.phase # "closed" => links[server.connection].server # "waiting"
  /\ \A k \in verified :
       /\ k \in 1..MaxConnections /\ links[k].server # "waiting"
       /\ server.phase = "accepting" => server.connection # k
  /\ server.phase = "open" /\ server.hlsPending => server.connection \notin verified

UnservedWaits == \A k \in 1..MaxConnections : k > connections => links[k].server = "waiting"

PassInv == UnservedWaits /\ VerifiedWhenServed /\ Orderly(links)

LEMMA ClientPass ==
  ASSUME IndInv, PassInv, UNCHANGED <<mode, server, verified, connections>>, Orderly(links')
  PROVE  PassInv'
  <1>1. \A k : Sendable(k)' = Sendable(k)
    BY DEF Sendable, Hls
  <1>2. Orderly(links)'
    BY <1>1 DEF Orderly, AreLinks
  <1>3. \A k \in 1..MaxConnections : links'[k].server = links[k].server
    BY DEF Orderly
  <1>4. UnservedWaits'
    BY <1>3 DEF PassInv, UnservedWaits
  <1>5. server.phase # "closed" => server.connection \in 1..MaxConnections
    BY EndpointHasConnection
  <1> QED
    BY <1>2, <1>3, <1>4, <1>5 DEF PassInv, VerifiedWhenServed

LEMMA SendOrderly ==
  ASSUME NEW ls, Orderly(ls), NEW k \in 1..MaxConnections, NEW a \in Sendable(k)
  PROVE  Orderly([ls EXCEPT ![k].toServer = Append(@, a)])
  <1> DEFINE new == [ls EXCEPT ![k].toServer = Append(@, a)]
  <1>1. ls[k] \in Link /\ ls[k].toServer \in Seq(Sendable(k)) /\ a \in Apdus
    BY DEF Orderly, AreLinks, Sendable
  <1>2. Append(ls[k].toServer, a) \in Seq(Sendable(k)) /\ Append(ls[k].toServer, a) \in Seq(Apdus)
    BY <1>1 DEF Link
  <1>3. /\ new[k].toServer = Append(ls[k].toServer, a) /\ new[k].server = ls[k].server
        /\ AreLinks(new) /\ \A j \in 1..MaxConnections : j # k => new[j] = ls[j]
    BY <1>1, <1>2 DEF Orderly, AreLinks, Link
  <1> HIDE DEF new
  <1> QED
    BY <1>2, <1>3 DEF Orderly, new

LEMMA TakeOrderly ==
  ASSUME NEW ls, Orderly(ls), NEW k \in 1..MaxConnections, ls[k].toClient # <<>>
  PROVE  Orderly([ls EXCEPT ![k].toClient = Tail(@)])
  <1> DEFINE new == [ls EXCEPT ![k].toClient = Tail(@)]
  <1>1. ls[k] \in Link /\ ls[k].toClient \in Seq(Apdus)
    BY DEF Orderly, AreLinks, Link
  <1>2. Tail(ls[k].toClient) \in Seq(Apdus)
    BY <1>1, HeadAndTail, Zenon
  <1>3. AreLinks(new) /\ \A j \in 1..MaxConnections : /\ new[j].toServer = ls[j].toServer
                                                     /\ new[j].server = ls[j].server
    BY <1>1, <1>2 DEF Orderly, AreLinks, Link
  <1> HIDE DEF new
  <1> QED
    BY <1>3 DEF Orderly, new

LEMMA CloseOrderly ==
  ASSUME NEW ls, Orderly(ls), NEW k \in 0..MaxConnections
  PROVE  Orderly(ClosedByClient(ls, k))
  <1>1. <<>> \in Seq(Apdus)
    BY EmptyIsSequence
  <1>2. /\ AreLinks(ClosedByClient(ls, k))
        /\ \A j \in 1..MaxConnections : /\ ClosedByClient(ls, k)[j].toServer = ls[j].toServer
                                        /\ ClosedByClient(ls, k)[j].server = ls[j].server
    BY <1>1 DEF Orderly, AreLinks, Link, ClosedByClient
  <1> QED
    BY <1>2 DEF Orderly

LEMMA NoRequestSendable ==
  \A a \in Apdus, k \in 1..MaxConnections : a.kind # "request" => a \in Sendable(k)
  BY DEF Sendable

LEMMA ToServerOrderly ==
  ASSUME PassInv, client.connection \in 1..MaxConnections,
         NEW a \in Sendable(client.connection), ToServer(client.connection, a)
  PROVE  Orderly(links')
  BY SendOrderly DEF ToServer, PassInv

LEMMA ReplyOrderly ==
  ASSUME mode \in Modes, NEW c, ClientFacts(c), c.connection # 0, NEW ls, Orderly(ls),
         ReplyToChallenge(c, ls)
  PROVE  Orderly(links')
  <1> DEFINE id == IF mode.ciphered THEN 1 ELSE c.nextInvokeId
             counter == IF Gmac THEN c.counters.nextLocal ELSE 0
             reply == Apdu("hls", id, 0, c.serverChallenge, counter)
  <1>1. c \in Client /\ c.connection \in 1..MaxConnections
        /\ c.counters \in Store /\ c.counters.nextLocal \in Counters /\ 0 \in Counters
    BY MaxCounterAssumption DEF ClientFacts, Client, Store, Counters
  <1>2. reply \in Apdus /\ reply.kind = "hls"
    BY <1>1, InvokeIdFacts DEF Apdu, Apdus, Client
  <1>3. \/ links' = ls
        \/ links' = [ls EXCEPT ![c.connection].toServer = Append(@, reply)]
    BY DEF ReplyToChallenge
  <1> HIDE DEF reply
  <1> QED
    BY <1>1, <1>2, <1>3, NoRequestSendable, SendOrderly

LEMMA ConnectPass == ASSUME IndInv, IndInv', PassInv, Connect PROVE PassInv'
  <1>1. UNCHANGED <<mode, server, verified>>
    BY DEF Connect, history
  <1>2. connections' \in 1..MaxConnections /\ connections' = connections + 1 /\ connections \in Nat
    BY AssociationAssumption DEF IndInv, TypeOK, Connect
  <1>3. CASE UNCHANGED links
    BY <1>1, <1>2, <1>3 DEF PassInv, UnservedWaits, VerifiedWhenServed, Orderly, Sendable, Hls,
                            AreLinks
  <1>4. CASE links' = [links EXCEPT ![connections'] = NewLink]
    <2>1. links[connections'].server = "waiting"
      BY <1>2 DEF PassInv, UnservedWaits
    <2>2. /\ links'[connections'].server = "waiting" /\ links'[connections'].toServer = <<>>
          /\ AreLinks(links') /\ \A j \in 1..MaxConnections : j # connections' => links'[j] = links[j]
      BY <1>2, <1>4, NewLinkType DEF PassInv, Orderly, AreLinks, NewLink
    <2>3. \A j \in 1..MaxConnections : links'[j].server = links[j].server
      BY <2>1, <2>2
    <2>4. ASSUME NEW j \in 1..MaxConnections
          PROVE  links'[j].toServer \in Seq(Sendable(j)) /\ Sendable(j)' = Sendable(j)
      <3>1. links[j].toServer \in Seq(Sendable(j))
        BY DEF PassInv, Orderly
      <3> QED
        BY <1>1, <2>2, <3>1, EmptyIsSequence DEF Sendable, Hls
    <2>5. UnservedWaits'
      BY <1>2, <2>3 DEF PassInv, UnservedWaits
    <2>6. VerifiedWhenServed'
      <3>1. server.phase # "closed" => server.connection \in 1..MaxConnections
        BY EndpointHasConnection
      <3> QED
        BY <1>1, <2>3, <3>1 DEF PassInv, VerifiedWhenServed
    <2> QED
      BY <2>2, <2>4, <2>5, <2>6 DEF PassInv, Orderly, AreLinks
  <1> QED
    BY <1>3, <1>4 DEF Connect

LEMMA OpenAssociationPass == ASSUME IndInv, IndInv', PassInv, OpenAssociation PROVE PassInv'
  <1>0. UNCHANGED <<mode, server, verified, connections>>
    BY DEF OpenAssociation, history
  <1>1. client.connection \in 1..MaxConnections
    BY ClientHasConnection DEF OpenAssociation, Establish, ResumeAssociation
  <1>2. CASE Establish
    <2>1. client'.clientChallenge \in Nat
      BY DEF IndInv, TypeOK, Client
    <2>2. Aarq(client'.clientChallenge) \in Apdus /\ Aarq(client'.clientChallenge).kind = "aarq"
      BY <2>1, MaxCounterAssumption, InvokeIdFacts DEF Aarq, Apdu, Apdus, Counters
    <2>3. Orderly(links')
      BY <1>1, <1>2, <2>2, NoRequestSendable, ToServerOrderly DEF Establish
    <2> QED
      BY <1>0, <2>3, ClientPass
  <1>3. CASE ResumeAssociation
    <2>1. Orderly(links')
      BY <1>1, <1>3, ReplyOrderly DEF ResumeAssociation, IndInv, TypeOK, ClientFacts, PassInv
    <2> QED
      BY <1>0, <2>1, ClientPass
  <1> QED
    BY <1>2, <1>3 DEF OpenAssociation

LEMMA TakenOrderly ==
  ASSUME IndInv, PassInv, client.waits # "nothing", links[client.connection].toClient # <<>>
  PROVE  Orderly(TakenByClient)
  BY ClientHasConnection, TakeOrderly DEF TakenByClient, PassInv

LEMMA ReceiveAarePass == ASSUME IndInv, PassInv, ReceiveAare PROVE PassInv'
  <1> DEFINE k == client.connection
             apdu == Head(links[k].toClient)
             associated == [client EXCEPT !.association = "Associated",
                                          !.serverChallenge = apdu.challenge]
  <1>1. /\ client \in Client /\ k \in 1..MaxConnections /\ apdu \in Apdus /\ apdu.challenge \in Nat
    BY ClientReads DEF ReceiveAare, Apdus
  <1>2. associated \in Client /\ associated.connection = k
    <2>1. PICK n \in Nat : n = apdu.challenge
      BY <1>1
    <2> QED
      BY <1>1, <2>1 DEF Client
  <1>3. Orderly(TakenByClient)
    BY TakenOrderly DEF ReceiveAare
  <1>4. Orderly(links')
    <2>1. CASE links' = TakenByClient
      BY <1>3, <2>1
    <2>2. CASE ReplyToChallenge(associated, TakenByClient)
      <3>1. ClientFacts(associated) /\ associated.connection # 0 /\ mode \in Modes
        BY <1>1, <1>2 DEF ClientFacts, IndInv, TypeOK
      <3> HIDE DEF associated
      <3> QED
        BY <1>3, <2>2, <3>1, ReplyOrderly
    <2> QED
      BY <2>1, <2>2 DEF ReceiveAare
  <1> QED
    BY <1>4, ClientPass DEF ReceiveAare, history

LEMMA TakenPass ==
  ASSUME IndInv, PassInv, ReceiveHlsResponse \/ ReceiveResponse
  PROVE  PassInv'
  BY TakenOrderly, ClientPass DEF ReceiveHlsResponse, ReceiveResponse

\* The facade sends no request before it is associated.
LEMMA ServicePass == ASSUME IndInv, IndInv', PassInv, Service PROVE PassInv'
  <1>1. /\ client \in Client /\ client.connection \in 1..MaxConnections /\ calls' \in Nat
        /\ client.counters \in Store
    BY ClientHasConnection DEF Service, IndInv, TypeOK, Client
  <1>2. CASE UNCHANGED links
    BY <1>2, ClientPass DEF Service, history, PassInv
  <1>3. CASE ~ UNCHANGED links
    <2> DEFINE request == Apdu("request", client.nextInvokeId, calls', 0,
                               IF mode.ciphered THEN client.counters.nextLocal ELSE 0)
    <2>1. request \in Apdus
      BY <1>1, MaxCounterAssumption, InvokeIdFacts DEF Apdu, Apdus, Client, Store, Counters
    <2>2. ToServer(client.connection, request)
      BY <1>3 DEF Service
    <2> HIDE DEF request
    <2>3. ~mode.direct /\ Hls => client.connection \in verified
      BY <1>1 DEF Service, IndInv, ClientIsRight, Authenticated
    <2>4. request \in Sendable(client.connection)
      BY <2>1, <2>3 DEF Sendable
    <2>5. Orderly(links')
      BY <1>1, <2>2, <2>4, ToServerOrderly
    <2> QED
      BY <2>5, ClientPass DEF Service, history
  <1> QED
    BY <1>2, <1>3

LEMMA ReleaseAssociationPass == ASSUME IndInv, PassInv, ReleaseAssociation PROVE PassInv'
  <1>1. client.connection \in 1..MaxConnections
    BY ClientHasConnection DEF ReleaseAssociation
  <1>2. Rlrq \in Apdus /\ Rlrq.kind = "rlrq"
    BY MaxCounterAssumption, InvokeIdFacts DEF Rlrq, Apdu, Apdus, Counters
  <1>3. Orderly(links')
    BY <1>1, <1>2, NoRequestSendable, ToServerOrderly DEF ReleaseAssociation
  <1> QED
    BY <1>3, ClientPass DEF ReleaseAssociation, history

LEMMA FacadePass ==
  ASSUME IndInv, NEW ls, Orderly(ls), CloseFacade(ls)
  PROVE  Orderly(links')
  <1>1. client.connection \in 0..MaxConnections
    BY DEF IndInv, TypeOK, Client
  <1> QED
    BY <1>1, CloseOrderly DEF CloseFacade

LEMMA ReceiveRlrePass == ASSUME IndInv, PassInv, ReceiveRlre PROVE PassInv'
  <1>1. Orderly(TakenByClient)
    BY TakenOrderly DEF ReceiveRlre
  <1>2. Orderly(links')
    BY <1>1, FacadePass DEF ReceiveRlre
  <1> QED
    BY <1>2, ClientPass DEF ReceiveRlre, history

LEMMA ClosePass == ASSUME IndInv, PassInv, Close PROVE PassInv'
  BY FacadePass, ClientPass DEF Close, PassInv, history

LEMMA ReceiveFailsPass == ASSUME IndInv, PassInv, ReceiveFails PROVE PassInv'
  BY ClientPass DEF ReceiveFails, PassInv, history

-----------------------------------------------------------------------------
\* What a step of the endpoint leaves of the connections.
Served(ls) ==
  LET k == server.connection
  IN /\ \A j \in 1..MaxConnections : j # k => ls[j] = links[j]
     /\ ls[k].server # "waiting"
     /\ \/ ls[k].toServer = <<>>
        \/ links[k].toServer # <<>> /\ ls[k].toServer = Tail(links[k].toServer)

LEMMA ServerPass ==
  ASSUME IndInv, IndInv', PassInv, mode' = mode, connections' = connections,
         server.phase # "closed", Served(links'),
         verified' \in {verified, verified \cup {server.connection}},
         server'.connection = server.connection, server'.phase \in {"open", "closed"},
         server'.phase = "open" /\ server'.hlsPending => server.connection \notin verified'
  PROVE  PassInv'
  <1> DEFINE k == server.connection
  <1>1. k \in 1..MaxConnections
    BY EndpointHasConnection
  <1>2. links[k].server # "waiting" /\ links'[k].server # "waiting"
    BY DEF PassInv, VerifiedWhenServed, Served
  <1>3. UnservedWaits'
    BY <1>2 DEF PassInv, UnservedWaits, Served
  <1>4. VerifiedWhenServed'
    BY <1>1, <1>2 DEF PassInv, VerifiedWhenServed, Served
  <1>5. ASSUME NEW j \in 1..MaxConnections PROVE links'[j].toServer \in Seq(Sendable(j)')
    <2>1. Sendable(j) \subseteq Sendable(j)'
      BY DEF Sendable, Hls
    <2>2. links[j].toServer \in Seq(Sendable(j))
      BY DEF PassInv, Orderly
    <2>3. links'[j].toServer \in Seq(Sendable(j))
      <3>1. CASE j = k
        BY <2>2, <3>1, HeadAndTail, EmptyIsSequence, Zenon DEF Served
      <3>2. CASE j # k
        BY <2>2, <3>2 DEF Served
      <3> QED
        BY <3>1, <3>2
    <2> QED
      BY <2>1, <2>3, SequencesGrow
  <1>6. AreLinks(links')
    BY DEF IndInv, TypeOK, AreLinks
  <1> QED
    BY <1>3, <1>4, <1>5, <1>6 DEF PassInv, Orderly, AreLinks

LEMMA ServedLinks ==
  ASSUME IndInv, PassInv, server.phase # "closed", NEW apdus
  PROVE  /\ Served(ClosedByServer(links))
         /\ links[server.connection].toServer # <<>> =>
              Served(ReadByServer(apdus)) /\ Served(ClosedByServer(ReadByServer(apdus)))
  <1> DEFINE k == server.connection
             ls == ReadByServer(apdus)
  <1>1. k \in 1..MaxConnections /\ AreLinks(links) /\ links[k].server # "waiting"
    BY EndpointHasConnection DEF PassInv, Orderly, VerifiedWhenServed
  <1>2. Served(ClosedByServer(links))
    BY <1>1 DEF AreLinks, Link, ClosedByServer, Served
  <1>3. ASSUME links[k].toServer # <<>> PROVE Served(ls) /\ Served(ClosedByServer(ls))
    <2>1. /\ ls[k].toServer = Tail(links[k].toServer) /\ ls[k].server = links[k].server
          /\ \A j \in 1..MaxConnections : j # k => ls[j] = links[j]
      BY <1>1 DEF AreLinks, Link, ReadByServer
    <2>2. /\ ClosedByServer(ls)[k].toServer = <<>> /\ ClosedByServer(ls)[k].server = "closed"
          /\ \A j \in 1..MaxConnections : j # k => ClosedByServer(ls)[j] = ls[j]
      BY <1>1 DEF AreLinks, Link, ReadByServer, ClosedByServer
    <2> HIDE DEF ls
    <2> QED
      BY <1>1, <1>3, <2>1, <2>2 DEF Served
  <1> QED
    BY <1>2, <1>3

LEMMA OpenPass == ASSUME IndInv, IndInv', PassInv, Open PROVE PassInv'
  <1>0. PICK k \in 1..connections :
          /\ links[k].server = "waiting" /\ links' = [links EXCEPT ![k].server = "open"]
          /\ \E new \in NewEndpoints :
               server' = [(IF new THEN NewEndpoint ELSE server) EXCEPT
                            !.phase = "accepting", !.connection = k]
    BY DEF Open
  <1>1. k \in 1..MaxConnections /\ AreLinks(links) /\ server \in Endpoint
    BY AssociationAssumption DEF IndInv, TypeOK, AreLinks
  <1>2. server'.phase = "accepting" /\ server'.connection = k
    BY <1>0, <1>1 DEF NewEndpoint, Endpoint
  <1>3. /\ links'[k].server = "open" /\ links'[k].toServer = links[k].toServer /\ AreLinks(links')
        /\ \A j \in 1..MaxConnections : j # k => links'[j] = links[j]
    BY <1>0, <1>1 DEF AreLinks, Link
  <1>4. UNCHANGED <<mode, verified, connections>> /\ connections \in Nat
    BY DEF Open, history, IndInv, TypeOK
  <1>5. UnservedWaits'
    BY <1>0, <1>3, <1>4 DEF PassInv, UnservedWaits
  <1>6. VerifiedWhenServed'
    BY <1>0, <1>2, <1>3, <1>4 DEF PassInv, VerifiedWhenServed
  <1>7. \A j \in 1..MaxConnections : links'[j].toServer \in Seq(Sendable(j)')
    BY <1>3, <1>4 DEF PassInv, Orderly, Sendable, Hls
  <1> QED
    BY <1>3, <1>5, <1>6, <1>7 DEF PassInv, Orderly, AreLinks

LEMMA NegotiateAssociationPass ==
  ASSUME IndInv, IndInv', PassInv, NegotiateAssociation PROVE PassInv'
  <1>1. /\ server.phase = "accepting" /\ links[server.connection].toServer # <<>>
        /\ UNCHANGED <<mode, connections, verified>> /\ server \in Endpoint
    BY DEF NegotiateAssociation, IndInv, TypeOK
  <1>2. server.connection \notin verified
    BY <1>1 DEF PassInv, VerifiedWhenServed
  <1>3. /\ \/ links' = ClosedByServer(links)
           \/ links' = ReadByServer(<<Aare(server'.serverChallenge)>>)
        /\ server'.connection = server.connection /\ server'.phase \in {"open", "closed"}
    BY <1>1 DEF NegotiateAssociation, Endpoint
  <1>4. Served(links')
    BY <1>1, <1>3, ServedLinks
  <1> QED
    BY <1>1, <1>2, <1>3, <1>4, ServerPass

LEMMA EndpointClosesPass ==
  ASSUME IndInv, IndInv', PassInv, AcceptFails \/ CloseEndpoint
  PROVE  PassInv'
  <1>1. /\ server.phase # "closed" /\ links' = ClosedByServer(links)
        /\ UNCHANGED <<mode, connections, verified>> /\ server \in Endpoint
    BY DEF AcceptFails, CloseEndpoint, history, IndInv, TypeOK
  <1>2. server'.connection = server.connection /\ server'.phase = "closed"
    BY <1>1 DEF AcceptFails, CloseEndpoint, Endpoint
  <1> QED
    BY <1>1, <1>2, ServedLinks, ServerPass

LEMMA RunOncePass == ASSUME IndInv, IndInv', PassInv, RunOnce PROVE PassInv'
  <1> DEFINE apdu == Head(links[server.connection].toServer)
  <1>1. /\ server.phase = "open" /\ links[server.connection].toServer # <<>>
        /\ UNCHANGED <<mode, connections>> /\ server \in Endpoint
    BY DEF RunOnce, IndInv, TypeOK
  <1>2. Served(links')
    <2>1. \E apdus : \/ links' = ReadByServer(apdus) \/ links' = ClosedByServer(ReadByServer(apdus))
      BY DEF RunOnce, HandleRelease, HandleHlsReply, ProcessRequest
    <2> QED
      BY <1>1, <2>1, ServedLinks
  <1>3. server.hlsPending => server.connection \notin verified
    BY <1>1 DEF PassInv, VerifiedWhenServed
  <1>4. CASE HandleRelease /\ UNCHANGED verified
    <2>1. /\ server'.connection = server.connection /\ server'.phase \in {"open", "closed"}
          /\ server'.phase = "open" => server' = server
      BY <1>1, <1>4 DEF HandleRelease, Endpoint
    <2> QED
      BY <1>1, <1>2, <1>3, <1>4, <2>1, ServerPass
  <1>5. CASE HandleHlsReply(apdu)
    <2>1. /\ server'.connection = server.connection /\ server'.phase = "open"
          /\ \/ verified' = verified \cup {server.connection} /\ server'.hlsPending = FALSE
             \/ verified' = verified /\ server'.hlsPending = server.hlsPending
      BY <1>1, <1>5 DEF HandleHlsReply, Endpoint
    <2> QED
      BY <1>1, <1>2, <1>3, <2>1, ServerPass
  <1>6. CASE ProcessRequest(apdu) /\ UNCHANGED verified
    <2>1. /\ server'.connection = server.connection /\ server'.phase = "open"
          /\ server'.hlsPending = server.hlsPending
      BY <1>1, <1>6 DEF ProcessRequest, Endpoint
    <2> QED
      BY <1>1, <1>2, <1>3, <1>6, <2>1, ServerPass
  <1> QED
    BY <1>4, <1>5, <1>6 DEF RunOnce

LEMMA PassInvariant == Spec => []PassInv
  <1>1. Init => PassInv
    <2> SUFFICES ASSUME Init PROVE PassInv
      OBVIOUS
    <2>1. /\ \A k \in 1..MaxConnections : links[k].server = "waiting" /\ links[k].toServer = <<>>
          /\ verified = {} /\ server.phase = "closed"
      BY DEF Init, NewLink, NewEndpoint
    <2>2. AreLinks(links)
      BY Initially, LinksAreLinks
    <2> QED
      BY <2>1, <2>2, EmptyIsSequence DEF PassInv, UnservedWaits, VerifiedWhenServed, Orderly
  <1>2. IndInv /\ IndInv' /\ PassInv /\ [Next]_vars => PassInv'
    <2> SUFFICES ASSUME IndInv, IndInv', PassInv, [Next]_vars PROVE PassInv'
      OBVIOUS
    <2>1. CASE UNCHANGED vars
      BY <2>1, ClientPass DEF vars, PassInv
    <2> QED
      BY <2>1, ConnectPass, OpenAssociationPass, ReceiveAarePass, TakenPass, ServicePass,
         ReleaseAssociationPass, ReceiveRlrePass, ClosePass, ReceiveFailsPass, OpenPass,
         NegotiateAssociationPass, EndpointClosesPass, RunOncePass DEF Next
  <1> QED
    BY AssociationInvariant, <1>1, <1>2, PTL DEF Spec

\* A protected request that comes in the place of the third pass is one of an
\* application that skips the facade.
LEMMA EarlyIsDirect ==
  ASSUME IndInv, PassInv, server.phase = "open", server.hlsPending, Hls,
         links[server.connection].toServer # <<>>,
         Head(links[server.connection].toServer).kind = "request"
  PROVE  mode.direct
  <1> DEFINE k == server.connection
  <1>1. k \in 1..MaxConnections /\ k \notin verified
    BY EndpointHasConnection DEF PassInv, VerifiedWhenServed
  <1>2. links[k].toServer \in Seq(Sendable(k))
    BY <1>1 DEF PassInv, Orderly
  <1>3. Head(links[k].toServer) \in Sendable(k)
    BY <1>2, HeadAndTail, Zenon
  <1> QED
    BY <1>1, <1>3 DEF Sendable

-----------------------------------------------------------------------------
(***************************************************************************)
(* Counters rise on every connection, and within the first association     *)
(* those that one side has noted lie behind those that are on the way.     *)
(***************************************************************************)
\* The counters of the APDUs in q that have one rise, above low and below high.
Rising(q, low, high) ==
  /\ low < high
  /\ \A i \in 1..Len(q) : q[i].counter # 0 => low < q[i].counter /\ q[i].counter < high
  /\ \A i, j \in 1..Len(q) :
       i < j /\ q[i].counter # 0 /\ q[j].counter # 0 => q[i].counter < q[j].counter

\* What is sent under a counter has one.
Counted ==
  {a \in Apdus : /\ a.kind \in {"hls", "hlsResponse"} /\ Gmac => a.counter # 0
                 /\ a.kind = "request" /\ mode.ciphered => a.counter # 0}

\* The server uses no counter below this one in the association that it has.
ServerNext ==
  IF server.phase # "open" THEN MaxCounter + 1
  ELSE IF server.hlsPending THEN ServerCounter ELSE server.counters.nextLocal

\* Before the first association the server has sent and noted nothing.
Untouched ==
  /\ \A k \in 1..MaxConnections : links[k].toClient = <<>>
  /\ client.counters.highestRemote = 0
  /\ server.phase # "open" /\ server.counters = NewStore(FirstServiceCounter)

ToServerRises ==
  /\ client.counters.nextLocal # 0
  /\ \A k \in 1..MaxConnections :
       /\ links[k].toServer \in Seq(Counted)
       /\ Rising(links[k].toServer, 0, client.counters.nextLocal)

ToClientRises ==
  /\ \A k \in 1..MaxConnections :
       /\ links[k].toClient \in Seq(Counted)
       /\ Rising(links[k].toClient, client.counters.highestRemote, ServerNext)
  /\ \A j, k \in 1..MaxConnections :
       links[j].toClient # <<>> /\ links[k].toClient # <<>> => j = k

ServerIsBehind ==
  server.phase = "open" =>
    /\ \A k \in 1..MaxConnections : links[k].toClient # <<>> => k = server.connection
    /\ Rising(links[server.connection].toServer, server.hlsCounters.highestRemote,
              client.counters.nextLocal)
    /\ Rising(links[server.connection].toServer, server.counters.highestRemote,
              client.counters.nextLocal)
    /\ server.hlsPending => server.hlsCounters.nextLocal = ServerCounter
    /\ server.counters.nextLocal >= FirstServiceCounter

\* What NoFalseReplay says of the first association.
OnlyEarly == replayed \subseteq (IF mode.direct /\ mode.ciphered THEN {"early"} ELSE {})

ReplayInv ==
  /\ ToServerRises
  /\ accepts <= 1 => /\ OnlyEarly /\ ToClientRises /\ ServerIsBehind
                     /\ accepts = 0 => Untouched

-----------------------------------------------------------------------------
LEMMA StillOnlyEarly == ASSUME OnlyEarly, UNCHANGED <<mode, replayed>> PROVE OnlyEarly'
  BY DEF OnlyEarly

LEMMA CounterType == \A a \in Apdus : a.counter \in Nat /\ a.counter < MaxCounter + 1
  BY MaxCounterAssumption DEF Apdus, Counters

LEMMA CountersOf == ASSUME NEW q \in Seq(Apdus) PROVE \A i \in 1..Len(q) : q[i].counter \in Nat
  <1>1. \A i \in 1..Len(q) : q[i] \in Apdus
    OBVIOUS
  <1> QED
    BY <1>1, CounterType

\* The same bounds for a queue without an APDU, with one more, with one less.
LEMMA RisingEmpty == ASSUME NEW low, NEW high, low < high PROVE Rising(<<>>, low, high)
  BY DEF Rising

LEMMA RisingWider ==
  ASSUME NEW q \in Seq(Apdus), NEW low \in Nat, NEW high \in Nat, NEW wide \in Nat,
         Rising(q, low, high), high <= wide
  PROVE  Rising(q, low, wide)
  <1>1. \A i \in 1..Len(q) : q[i].counter \in Nat
    BY CountersOf
  <1> QED
    BY <1>1 DEF Rising

LEMMA RisingAppend ==
  ASSUME NEW q \in Seq(Apdus), NEW low \in Nat, NEW high \in Nat, NEW wide \in Nat,
         Rising(q, low, high), high <= wide, NEW a \in Apdus,
         a.counter # 0 => high <= a.counter /\ a.counter < wide
  PROVE  Rising(Append(q, a), low, wide)
  <1> DEFINE r == Append(q, a)
  <1>1. /\ \A i \in 1..Len(q) : q[i].counter \in Nat
        /\ a.counter \in Nat
    BY CountersOf, CounterType
  <1>2. /\ Len(q) \in Nat /\ Len(r) = Len(q) + 1 /\ r[Len(q) + 1] = a
        /\ \A i \in 1..Len(q) : r[i] = q[i]
    OBVIOUS
  <1> HIDE DEF r
  <1>3. \A i \in 1..Len(r) : i \in 1..Len(q) \/ i = Len(q) + 1
    BY <1>2
  <1>4. \A i \in 1..Len(r) : r[i].counter # 0 => low < r[i].counter /\ r[i].counter < wide
    BY <1>1, <1>2, <1>3 DEF Rising
  <1>5. \A i, j \in 1..Len(r) :
          i < j /\ r[i].counter # 0 /\ r[j].counter # 0 => r[i].counter < r[j].counter
    <2> SUFFICES ASSUME NEW i \in 1..Len(r), NEW j \in 1..Len(r), i < j,
                        r[i].counter # 0, r[j].counter # 0
                 PROVE  r[i].counter < r[j].counter
      OBVIOUS
    <2>1. i \in 1..Len(q)
      BY <1>2
    <2>2. CASE j \in 1..Len(q)
      BY <1>2, <2>1, <2>2 DEF Rising
    <2>3. CASE j = Len(q) + 1
      BY <1>1, <1>2, <2>1, <2>3 DEF Rising
    <2> QED
      BY <1>3, <2>2, <2>3
  <1>6. low < wide
    BY DEF Rising
  <1> QED
    BY <1>4, <1>5, <1>6 DEF Rising, r

LEMMA RisingTail ==
  ASSUME NEW q \in Seq(Apdus), q # <<>>, NEW low \in Nat, NEW high \in Nat,
         Rising(q, low, high)
  PROVE  /\ Rising(Tail(q), low, high)
         /\ Head(q).counter # 0 =>
              /\ low < Head(q).counter
              /\ Rising(Tail(q), Head(q).counter, high)
  <1> DEFINE r == Tail(q)
  <1>1. \A i \in 1..Len(q) : q[i].counter \in Nat
    BY CountersOf
  <1>2. /\ Len(q) \in Nat \ {0} /\ Len(r) = Len(q) - 1 /\ Head(q) = q[1]
        /\ \A i \in 1..Len(r) : r[i] = q[i + 1]
    OBVIOUS
  <1> HIDE DEF r
  <1>3. \A i \in 1..Len(r) : i + 1 \in 1..Len(q) /\ 1 < i + 1
    BY <1>2
  <1>4. 1 \in 1..Len(q)
    BY <1>2
  <1>5. /\ \A i \in 1..Len(r) : r[i].counter # 0 => low < r[i].counter /\ r[i].counter < high
        /\ \A i, j \in 1..Len(r) :
             i < j /\ r[i].counter # 0 /\ r[j].counter # 0 => r[i].counter < r[j].counter
    <2>1. \A i, j \in 1..Len(r) : i < j => i + 1 < j + 1
      BY <1>2
    <2> QED
      BY <1>2, <1>3, <2>1 DEF Rising
  <1>6. Head(q).counter # 0 =>
          /\ low < Head(q).counter /\ Head(q).counter < high
          /\ \A i \in 1..Len(r) : r[i].counter # 0 => Head(q).counter < r[i].counter
    BY <1>2, <1>3, <1>4 DEF Rising
  <1> QED
    BY <1>5, <1>6 DEF Rising, r

-----------------------------------------------------------------------------
LEMMA StoreTypes == \A s \in Store : /\ s.nextLocal \in Nat /\ s.nextLocal <= MaxCounter
                                    /\ s.highestRemote \in Nat
  BY MaxCounterAssumption DEF Store, Counters

LEMMA ReplayTypes ==
  ASSUME IndInv
  PROVE  /\ \A k \in 1..MaxConnections : /\ links[k].toServer \in Seq(Apdus)
                                         /\ links[k].toClient \in Seq(Apdus)
         /\ client.counters.nextLocal \in Nat /\ client.counters.highestRemote \in Nat
         /\ server.counters.nextLocal \in Nat /\ server.counters.highestRemote \in Nat
         /\ server.hlsCounters.nextLocal \in Nat /\ server.hlsCounters.highestRemote \in Nat
         /\ server.counters.nextLocal <= MaxCounter
         /\ ServerNext \in Nat /\ ServerNext <= MaxCounter + 1
         /\ server.phase = "open" => server.connection \in 1..MaxConnections
  <1>1. /\ client.counters \in Store /\ server.counters \in Store /\ server.hlsCounters \in Store
        /\ links \in [1..MaxConnections -> Link]
        /\ server.phase = "open" => server.connection \in 1..MaxConnections
    BY DEF IndInv, TypeOK, Client, Endpoint
  <1>2. \A s \in Store : /\ s.nextLocal \in Nat /\ s.nextLocal <= MaxCounter
                         /\ s.highestRemote \in Nat
    BY StoreTypes
  <1>3. ServerNext \in Nat /\ ServerNext <= MaxCounter + 1
    BY <1>1, <1>2, MaxCounterAssumption, AssociationAssumption DEF ServerNext
  <1>4. \A k \in 1..MaxConnections : links[k].toServer \in Seq(Apdus)
                                     /\ links[k].toClient \in Seq(Apdus)
    BY <1>1 DEF Link
  <1> QED
    BY <1>1, <1>2, <1>3, <1>4

LEMMA ReplayTypesNext ==
  ASSUME IndInv'
  PROVE  /\ \A k \in 1..MaxConnections : /\ links'[k].toServer \in Seq(Apdus)
                                         /\ links'[k].toClient \in Seq(Apdus)
         /\ client'.counters.nextLocal \in Nat /\ client'.counters.highestRemote \in Nat
         /\ server'.counters.nextLocal \in Nat /\ server'.counters.highestRemote \in Nat
         /\ server'.counters.nextLocal <= MaxCounter
         /\ server'.hlsCounters.nextLocal \in Nat /\ server'.hlsCounters.highestRemote \in Nat
  <1>1. /\ client'.counters \in Store /\ server'.counters \in Store
        /\ server'.hlsCounters \in Store /\ links' \in [1..MaxConnections -> Link]
    BY DEF IndInv, TypeOK, Client, Endpoint
  <1>2. \A k \in 1..MaxConnections : links'[k].toServer \in Seq(Apdus)
                                     /\ links'[k].toClient \in Seq(Apdus)
    BY <1>1 DEF Link
  <1> QED
    BY <1>1, <1>2, StoreTypes

\* r is q, or empty, or q with an APDU under a counter that the client took.
Follows(r, q) ==
  \/ r = q \/ r = <<>>
  \/ \E a \in Counted :
       /\ r = Append(q, a)
       /\ a.counter # 0 => /\ client.counters.nextLocal <= a.counter
                           /\ a.counter < client'.counters.nextLocal

LEMMA FollowsRises ==
  ASSUME IndInv, IndInv', client.counters.nextLocal <= client'.counters.nextLocal,
         NEW q \in Seq(Apdus), NEW r, Follows(r, q), NEW low \in Nat,
         Rising(q, low, client.counters.nextLocal)
  PROVE  Rising(r, low, client'.counters.nextLocal)
  <1>1. client.counters.nextLocal \in Nat /\ client'.counters.nextLocal \in Nat
    BY ReplayTypes, ReplayTypesNext
  <1>2. low < client'.counters.nextLocal
    BY <1>1 DEF Rising
  <1>3. CASE r = q
    BY <1>1, <1>3, RisingWider
  <1>4. CASE r = <<>>
    BY <1>2, <1>4, RisingEmpty
  <1>5. CASE r # q /\ r # <<>>
    <2>1. PICK a \in Counted :
            /\ r = Append(q, a)
            /\ a.counter # 0 => /\ client.counters.nextLocal <= a.counter
                                /\ a.counter < client'.counters.nextLocal
      BY <1>5 DEF Follows
    <2>2. a \in Apdus
      BY DEF Counted
    <2> QED
      BY <1>1, <2>1, <2>2, RisingAppend
  <1> QED
    BY <1>3, <1>4, <1>5

\* What a step of the client leaves of the APDUs on their way to it.
OnlyReads(k) ==
  \/ links'[k].toClient \in {links[k].toClient, <<>>}
  \/ links[k].toClient # <<>> /\ links'[k].toClient = Tail(links[k].toClient)

\* It notes the counter of an APDU that it takes.
Notes(k) ==
  LET apdu == Head(links[k].toClient)
  IN /\ links[k].toClient # <<>> /\ links'[k].toClient = Tail(links[k].toClient)
     /\ apdu.counter # 0 /\ client'.counters.highestRemote = apdu.counter

LEMMA ClientStepRises ==
  ASSUME IndInv, IndInv', ReplayInv, UNCHANGED <<mode, server, accepts>>,
         client.counters.nextLocal <= client'.counters.nextLocal,
         \A k \in 1..MaxConnections : Follows(links'[k].toServer, links[k].toServer),
         \A k \in 1..MaxConnections : OnlyReads(k),
         \/ client'.counters.highestRemote = client.counters.highestRemote
         \/ \E k \in 1..MaxConnections : Notes(k),
         accepts <= 1 => OnlyEarly'
  PROVE  ReplayInv'
  <1>0. /\ \A k \in 1..MaxConnections : /\ links[k].toServer \in Seq(Apdus)
                                        /\ links[k].toClient \in Seq(Apdus)
                                        /\ links'[k].toServer \in Seq(Apdus)
                                        /\ links'[k].toClient \in Seq(Apdus)
        /\ client.counters.nextLocal \in Nat /\ client'.counters.nextLocal \in Nat
        /\ client.counters.highestRemote \in Nat /\ client'.counters.highestRemote \in Nat
        /\ ServerNext \in Nat
        /\ server.counters.highestRemote \in Nat /\ server.hlsCounters.highestRemote \in Nat
        /\ server.phase = "open" => server.connection \in 1..MaxConnections
    BY ReplayTypes, ReplayTypesNext
  <1>1. Counted' = Counted /\ ServerNext' = ServerNext
    BY DEF Counted, Gmac, ServerNext
  <1>2. ToServerRises'
    <2>1. client'.counters.nextLocal # 0
      BY <1>0 DEF ReplayInv, ToServerRises
    <2>2. ASSUME NEW k \in 1..MaxConnections
          PROVE  links'[k].toServer \in Seq(Counted)
      <3>1. links[k].toServer \in Seq(Counted)
        BY DEF ReplayInv, ToServerRises
      <3>2. \A a \in Counted : Append(links[k].toServer, a) \in Seq(Counted)
        BY <3>1
      <3> QED
        BY <3>1, <3>2, EmptyIsSequence DEF Follows
    <2>3. ASSUME NEW k \in 1..MaxConnections
          PROVE  Rising(links'[k].toServer, 0, client'.counters.nextLocal)
      BY <1>0, FollowsRises DEF ReplayInv, ToServerRises
    <2> QED
      BY <1>1, <2>1, <2>2, <2>3 DEF ToServerRises
  <1>3. ASSUME accepts <= 1 PROVE ToClientRises'
    <2>1. \A k \in 1..MaxConnections : links[k].toClient = <<>> => links'[k].toClient = <<>>
      BY DEF OnlyReads
    <2>2. /\ \A k \in 1..MaxConnections :
               Rising(links[k].toClient, client.counters.highestRemote, ServerNext)
          /\ \A j, k \in 1..MaxConnections :
               links[j].toClient # <<>> /\ links[k].toClient # <<>> => j = k
      BY <1>3 DEF ReplayInv, ToClientRises
    <2>3. ASSUME NEW k \in 1..MaxConnections
          PROVE  Rising(links'[k].toClient, client'.counters.highestRemote, ServerNext)
      <3>1. CASE client'.counters.highestRemote = client.counters.highestRemote
        <4>1. client.counters.highestRemote < ServerNext
          BY <2>2 DEF Rising
        <4> QED
          BY <1>0, <2>2, <3>1, <4>1, RisingEmpty, RisingTail DEF OnlyReads
      <3>2. CASE \E j \in 1..MaxConnections : Notes(j)
        <4>1. PICK j \in 1..MaxConnections : Notes(j)
          BY <3>2
        <4>2. Rising(links'[j].toClient, client'.counters.highestRemote, ServerNext)
          BY <1>0, <2>2, <4>1, RisingTail DEF Notes
        <4>3. CASE k = j
          BY <4>2, <4>3
        <4>4. CASE k # j
          <5>1. links'[k].toClient = <<>>
            BY <2>1, <2>2, <4>1, <4>4 DEF Notes
          <5>2. client'.counters.highestRemote < ServerNext
            BY <4>2 DEF Rising
          <5> QED
            BY <5>1, <5>2, RisingEmpty
        <4> QED
          BY <4>3, <4>4
      <3> QED
        BY <3>1, <3>2
    <2>4. \A j, k \in 1..MaxConnections :
            links'[j].toClient # <<>> /\ links'[k].toClient # <<>> => j = k
      BY <2>1, <2>2
    <2>5. ASSUME NEW k \in 1..MaxConnections
          PROVE  links'[k].toClient \in Seq(Counted)
      <3>1. links[k].toClient \in Seq(Counted)
        BY <1>3 DEF ReplayInv, ToClientRises
      <3>2. links[k].toClient # <<>> => Tail(links[k].toClient) \in Seq(Counted)
        BY <3>1, HeadAndTail, Zenon
      <3> QED
        BY <3>1, <3>2, EmptyIsSequence DEF OnlyReads
    <2> QED
      BY <1>1, <2>3, <2>4, <2>5 DEF ToClientRises
  <1>4. ASSUME accepts <= 1 PROVE ServerIsBehind'
    <2> SUFFICES ASSUME server.phase = "open" PROVE ServerIsBehind'
      BY DEF ServerIsBehind
    <2> DEFINE c == server.connection
    <2>1. ServerIsBehind /\ c \in 1..MaxConnections
      BY <1>0, <1>4 DEF ReplayInv
    <2>2. /\ Rising(links'[c].toServer, server.hlsCounters.highestRemote,
                    client'.counters.nextLocal)
          /\ Rising(links'[c].toServer, server.counters.highestRemote,
                    client'.counters.nextLocal)
      BY <1>0, <2>1, FollowsRises DEF ServerIsBehind
    <2>3. \A k \in 1..MaxConnections : links'[k].toClient # <<>> => k = c
      BY <2>1 DEF ServerIsBehind, OnlyReads
    <2> QED
      BY <2>1, <2>2, <2>3 DEF ServerIsBehind
  <1>5. ASSUME accepts = 0 PROVE Untouched'
    <2>1. Untouched
      BY <1>5 DEF ReplayInv
    <2> QED
      BY <2>1 DEF Untouched, OnlyReads, Notes
  <1> QED
    BY <1>2, <1>3, <1>4, <1>5 DEF ReplayInv

-----------------------------------------------------------------------------
\* What the operators on connections do to the queues.
LEMMA SendEffect ==
  ASSUME NEW ls \in [1..MaxConnections -> Link], NEW k \in 1..MaxConnections, NEW apdu
  PROVE  LET new == [ls EXCEPT ![k].toServer = Append(@, apdu)]
         IN /\ new[k].toServer = Append(ls[k].toServer, apdu)
            /\ \A j \in 1..MaxConnections : j # k => new[j] = ls[j]
            /\ \A j \in 1..MaxConnections : new[j].toClient = ls[j].toClient
  BY DEF Link

LEMMA TakeEffect ==
  ASSUME NEW ls \in [1..MaxConnections -> Link], NEW k \in 1..MaxConnections
  PROVE  LET new == [ls EXCEPT ![k].toClient = Tail(@)]
         IN /\ new[k].toClient = Tail(ls[k].toClient)
            /\ \A j \in 1..MaxConnections : j # k => new[j] = ls[j]
            /\ \A j \in 1..MaxConnections : new[j].toServer = ls[j].toServer
  BY DEF Link

LEMMA CloseEffect ==
  ASSUME NEW ls \in [1..MaxConnections -> Link], NEW k \in 0..MaxConnections
  PROVE  \A j \in 1..MaxConnections :
           /\ ClosedByClient(ls, k)[j].toServer = ls[j].toServer
           /\ ClosedByClient(ls, k)[j].toClient = ls[j].toClient
              \/ ClosedByClient(ls, k)[j].toClient = <<>>
  BY DEF Link, ClosedByClient

LEMMA ServerCloseEffect ==
  ASSUME NEW ls \in [1..MaxConnections -> Link], server.connection \in 1..MaxConnections
  PROVE  \A j \in 1..MaxConnections :
           /\ ClosedByServer(ls)[j].toClient = ls[j].toClient
           /\ ClosedByServer(ls)[j].toServer = ls[j].toServer
              \/ ClosedByServer(ls)[j].toServer = <<>>
  BY DEF Link, ClosedByServer

\* The queue is the old one, or has one APDU more.
Grown(r, q, apdus) ==
  r = q \/ (\E a \in Apdus : apdus = <<a>> /\ r = Append(q, a))

LEMMA ServerReadEffect ==
  ASSUME links \in [1..MaxConnections -> Link], server.connection \in 1..MaxConnections,
         NEW apdus, apdus = <<>> \/ (\E a \in Apdus : apdus = <<a>>)
  PROVE  LET new == ReadByServer(apdus)
             k == server.connection
         IN /\ new[k].toServer = Tail(links[k].toServer)
            /\ Grown(new[k].toClient, links[k].toClient, apdus)
            /\ \A j \in 1..MaxConnections : j # k => new[j] = links[j]
  <1> DEFINE k == server.connection
             new == ReadByServer(apdus)
  <1>1. links[k] \in Link /\ links[k].toClient \in Seq(Apdus)
    BY DEF Link
  <1>2. /\ new[k].toServer = Tail(links[k].toServer)
        /\ new[k].toClient = IF links[k].client = "open" THEN links[k].toClient \o apdus
                             ELSE links[k].toClient
        /\ \A j \in 1..MaxConnections : j # k => new[j] = links[j]
    BY <1>1 DEF ReadByServer, Link
  <1>3. links[k].toClient \o <<>> = links[k].toClient
    BY <1>1
  <1>4. \A a \in Apdus : links[k].toClient \o <<a>> = Append(links[k].toClient, a)
    BY <1>1
  <1>5. Grown(new[k].toClient, links[k].toClient, apdus)
    BY <1>2, <1>3, <1>4 DEF Grown
  <1> QED
    BY <1>2, <1>5

-----------------------------------------------------------------------------
\* The steps of the client.
LEMMA LinksType == ASSUME IndInv PROVE links \in [1..MaxConnections -> Link]
  BY DEF IndInv, TypeOK

LEMMA AllFollow == ASSUME \A k \in 1..MaxConnections : links'[k].toServer = links[k].toServer
                   PROVE  \A k \in 1..MaxConnections : Follows(links'[k].toServer, links[k].toServer)
  BY DEF Follows

SentOn(new, ls, k, apdu) == new = ls \/ new = [ls EXCEPT ![k].toServer = Append(@, apdu)]

\* The client sends an APDU with the counter that it takes, or one without.
LEMMA SentFollows ==
  ASSUME NEW ls \in [1..MaxConnections -> Link], NEW k \in 1..MaxConnections,
         \A j \in 1..MaxConnections : ls[j].toServer = links[j].toServer,
         NEW apdu \in Counted,
         apdu.counter # 0 => /\ client.counters.nextLocal <= apdu.counter
                             /\ apdu.counter < client'.counters.nextLocal,
         SentOn(links', ls, k, apdu)
  PROVE  /\ \A j \in 1..MaxConnections : Follows(links'[j].toServer, links[j].toServer)
         /\ \A j \in 1..MaxConnections : links'[j].toClient = ls[j].toClient
  <1>1. CASE links' = ls
    BY <1>1, AllFollow
  <1>2. CASE links' = [ls EXCEPT ![k].toServer = Append(@, apdu)]
    <2>1. /\ links'[k].toServer = Append(ls[k].toServer, apdu)
          /\ \A j \in 1..MaxConnections : j # k => links'[j] = ls[j]
          /\ \A j \in 1..MaxConnections : links'[j].toClient = ls[j].toClient
      BY <1>2, SendEffect
    <2>2. Follows(links'[k].toServer, links[k].toServer)
      BY <2>1 DEF Follows
    <2>3. \A j \in 1..MaxConnections : j # k => Follows(links'[j].toServer, links[j].toServer)
      BY <2>1 DEF Follows
    <2> QED
      BY <2>1, <2>2, <2>3
  <1> QED
    BY <1>1, <1>2 DEF SentOn

LEMMA ToServerFollows ==
  ASSUME IndInv, client.connection \in 1..MaxConnections, NEW apdu \in Counted,
         apdu.counter # 0 => /\ client.counters.nextLocal <= apdu.counter
                             /\ apdu.counter < client'.counters.nextLocal,
         ToServer(client.connection, apdu)
  PROVE  /\ \A j \in 1..MaxConnections : Follows(links'[j].toServer, links[j].toServer)
         /\ \A j \in 1..MaxConnections : links'[j].toClient = links[j].toClient
  <1>1. SentOn(links', links, client.connection, apdu)
    BY DEF ToServer, SentOn
  <1> QED
    BY <1>1, LinksType, SentFollows

LEMMA ConnectRises == ASSUME IndInv, IndInv', ReplayInv, Connect PROVE ReplayInv'
  <1>1. connections' \in 1..MaxConnections
    BY AssociationAssumption DEF IndInv, TypeOK, Connect
  <1>2. client'.counters = client.counters
    BY DEF Connect, IndInv, TypeOK, Client
  <1>3. \A k \in 1..MaxConnections :
          \/ links'[k] = links[k]
          \/ links'[k].toServer = <<>> /\ links'[k].toClient = <<>>
    <2>1. CASE UNCHANGED links
      BY <2>1
    <2>2. CASE links' = [links EXCEPT ![connections'] = NewLink]
      BY <1>1, <2>2, LinksType DEF NewLink
    <2> QED
      BY <2>1, <2>2 DEF Connect
  <1>4. \A k \in 1..MaxConnections : Follows(links'[k].toServer, links[k].toServer) /\ OnlyReads(k)
    BY <1>3 DEF Follows, OnlyReads
  <1>5. UNCHANGED <<mode, server, accepts, replayed>>
    BY DEF Connect, history
  <1>6. client.counters.nextLocal <= client'.counters.nextLocal
    BY <1>2, ReplayTypes
  <1> QED
    BY <1>2, <1>4, <1>5, <1>6, ClientStepRises, StillOnlyEarly DEF ReplayInv

\* The third pass takes a counter with GMAC.
LEMMA ReplyRises ==
  ASSUME IndInv, ReplayInv, NEW c, c \in Client, c.connection \in 1..MaxConnections,
         c.counters = client.counters, NEW ls \in [1..MaxConnections -> Link],
         \A j \in 1..MaxConnections : ls[j].toServer = links[j].toServer,
         ReplyToChallenge(c, ls)
  PROVE  /\ \A j \in 1..MaxConnections : Follows(links'[j].toServer, links[j].toServer)
         /\ \A j \in 1..MaxConnections : links'[j].toClient = ls[j].toClient
         /\ client.counters.nextLocal <= client'.counters.nextLocal
         /\ client'.counters.highestRemote = client.counters.highestRemote
  <1> DEFINE id == IF mode.ciphered THEN 1 ELSE c.nextInvokeId
             counter == IF Gmac THEN c.counters.nextLocal ELSE 0
             reply == Apdu("hls", id, 0, c.serverChallenge, counter)
  <1>1. /\ client.counters \in Store /\ client.counters.nextLocal \in Nat
        /\ client.counters.nextLocal # 0 /\ client.counters.nextLocal \in Counters
    BY ReplayTypes DEF IndInv, TypeOK, Client, ReplayInv, ToServerRises, Store
  <1>2. CASE Gmac /\ IsExhausted(c.counters)
    <2>1. links' = ls /\ client' = [c EXCEPT !.waits = "nothing"]
      BY <1>2 DEF ReplyToChallenge
    <2>2. client'.counters = client.counters
      BY <2>1 DEF Client
    <2> QED
      BY <1>1, <2>1, <2>2, AllFollow
  <1>3. CASE ~(Gmac /\ IsExhausted(c.counters))
    <2>1. SentOn(links', ls, c.connection, reply)
      BY <1>3 DEF ReplyToChallenge, SentOn
    <2>2. client'.counters = IF Gmac THEN TakeLocal(client.counters) ELSE client.counters
      BY <1>3 DEF ReplyToChallenge, Client
    <2>3. /\ client'.counters.highestRemote = client.counters.highestRemote
          /\ client'.counters.nextLocal = IF Gmac THEN client.counters.nextLocal + 1
                                          ELSE client.counters.nextLocal
      BY <1>1, <2>2 DEF TakeLocal, Store
    <2>4. reply \in Apdus /\ reply.kind = "hls" /\ reply.counter = counter
      BY <1>1, MaxCounterAssumption, InvokeIdFacts DEF Apdu, Apdus, Client, Counters
    <2>5. reply \in Counted
      BY <1>1, <2>4 DEF Counted
    <2>6. reply.counter # 0 => /\ client.counters.nextLocal <= reply.counter
                               /\ reply.counter < client'.counters.nextLocal
      BY <1>1, <2>3, <2>4
    <2> HIDE DEF reply, counter
    <2>7. /\ \A j \in 1..MaxConnections : Follows(links'[j].toServer, links[j].toServer)
          /\ \A j \in 1..MaxConnections : links'[j].toClient = ls[j].toClient
      BY <2>1, <2>5, <2>6, SentFollows
    <2> QED
      BY <1>1, <2>3, <2>7
  <1> QED
    BY <1>2, <1>3

\* APDUs without a counter.
LEMMA Uncounted ==
  \A a \in Apdus : a.kind \notin {"hls", "hlsResponse", "request"} => a \in Counted
  BY DEF Counted

LEMMA OpenAssociationRises ==
  ASSUME IndInv, IndInv', ReplayInv, OpenAssociation PROVE ReplayInv'
  <1>0. UNCHANGED <<mode, server, accepts, replayed>>
    BY DEF OpenAssociation, history
  <1>1. CASE Establish
    <2> DEFINE aarq == Aarq(client'.clientChallenge)
    <2>1. client \in Client /\ client.connection \in 1..MaxConnections
      BY <1>1, ClientHasConnection DEF Establish
    <2>2. client'.counters = client.counters /\ client'.clientChallenge \in Nat
      BY <1>1, <2>1 DEF Establish, Client, IndInv, TypeOK
    <2>3. aarq \in Apdus /\ aarq.kind = "aarq" /\ aarq.counter = 0
      BY <2>2, MaxCounterAssumption, InvokeIdFacts DEF Aarq, Apdu, Apdus, Counters
    <2>4. ToServer(client.connection, aarq)
      BY <1>1 DEF Establish
    <2> HIDE DEF aarq
    <2>5. /\ \A j \in 1..MaxConnections : Follows(links'[j].toServer, links[j].toServer)
          /\ \A j \in 1..MaxConnections : links'[j].toClient = links[j].toClient
      BY <2>1, <2>3, <2>4, Uncounted, ToServerFollows
    <2> QED
      BY <1>0, <2>2, <2>5, ClientStepRises, StillOnlyEarly, ReplayTypes DEF OnlyReads, ReplayInv
  <1>2. CASE ResumeAssociation
    <2>1. client \in Client /\ client.connection \in 1..MaxConnections
      BY <1>2, ClientHasConnection DEF ResumeAssociation
    <2>2. /\ \A j \in 1..MaxConnections : Follows(links'[j].toServer, links[j].toServer)
          /\ \A j \in 1..MaxConnections : links'[j].toClient = links[j].toClient
          /\ client.counters.nextLocal <= client'.counters.nextLocal
          /\ client'.counters.highestRemote = client.counters.highestRemote
      BY <1>2, <2>1, ReplyRises, LinksType DEF ResumeAssociation
    <2> QED
      BY <1>0, <2>2, ClientStepRises, StillOnlyEarly DEF OnlyReads, ReplayInv
  <1> QED
    BY <1>1, <1>2 DEF OpenAssociation

\* What the client takes from its connection.
LEMMA TakenEffect ==
  ASSUME IndInv, client.waits # "nothing", links[client.connection].toClient # <<>>
  PROVE  /\ TakenByClient \in [1..MaxConnections -> Link]
         /\ client \in Client /\ client.connection \in 1..MaxConnections
         /\ Head(links[client.connection].toClient) \in Apdus
         /\ TakenByClient[client.connection].toClient = Tail(links[client.connection].toClient)
         /\ \A j \in 1..MaxConnections :
              /\ TakenByClient[j].toServer = links[j].toServer
              /\ j # client.connection => TakenByClient[j] = links[j]
  <1>1. /\ client \in Client /\ client.connection \in 1..MaxConnections
        /\ Carries(TakenByClient, Present)
        /\ Head(links[client.connection].toClient) \in Apdus
    BY ClientReads
  <1> QED
    BY <1>1, LinksType, TakeEffect DEF Carries, TakenByClient

LEMMA TakenReads ==
  ASSUME IndInv, client.waits # "nothing", links[client.connection].toClient # <<>>,
         \A j \in 1..MaxConnections : links'[j].toClient = TakenByClient[j].toClient
  PROVE  \A j \in 1..MaxConnections : OnlyReads(j)
  <1>1. OnlyReads(client.connection)
    BY TakenEffect DEF OnlyReads
  <1>2. \A j \in 1..MaxConnections : j # client.connection => OnlyReads(j)
    BY TakenEffect DEF OnlyReads
  <1> QED
    BY <1>1, <1>2

LEMMA ReceiveAareRises == ASSUME IndInv, IndInv', ReplayInv, ReceiveAare PROVE ReplayInv'
  <1> DEFINE k == client.connection
             apdu == Head(links[k].toClient)
             associated == [client EXCEPT !.association = "Associated",
                                          !.serverChallenge = apdu.challenge]
  <1>0. UNCHANGED <<mode, server, accepts, replayed>>
    BY DEF ReceiveAare, history
  <1>1. /\ client \in Client /\ k \in 1..MaxConnections /\ apdu \in Apdus /\ apdu.challenge \in Nat
        /\ TakenByClient \in [1..MaxConnections -> Link]
        /\ \A j \in 1..MaxConnections : TakenByClient[j].toServer = links[j].toServer
        /\ client.counters.nextLocal \in Nat
    BY TakenEffect, ReplayTypes DEF ReceiveAare, Apdus
  <1>2. /\ associated \in Client /\ associated.counters = client.counters
        /\ associated.connection = k
    <2>1. PICK n \in Nat : n = apdu.challenge
      BY <1>1
    <2> QED
      BY <1>1, <2>1 DEF Client
  <1>3. /\ \A j \in 1..MaxConnections : Follows(links'[j].toServer, links[j].toServer)
        /\ \A j \in 1..MaxConnections : links'[j].toClient = TakenByClient[j].toClient
        /\ client.counters.nextLocal <= client'.counters.nextLocal
        /\ client'.counters.highestRemote = client.counters.highestRemote
    <2>1. CASE apdu.kind # "aare"
      <3>1. links' = TakenByClient /\ client'.counters = client.counters
        BY <1>1, <2>1 DEF ReceiveAare, Client
      <3> QED
        BY <1>1, <3>1, AllFollow
    <2>2. CASE apdu.kind = "aare" /\ Hls /\ ~mode.direct
      <3>1. ReplyToChallenge(associated, TakenByClient)
        BY <2>2 DEF ReceiveAare
      <3> HIDE DEF associated
      <3> QED
        BY <1>1, <1>2, <3>1, ReplyRises
    <2>3. CASE apdu.kind = "aare" /\ ~(Hls /\ ~mode.direct)
      <3>1. client' = [associated EXCEPT !.waits = "nothing",
                         !.state = IF Hls THEN @ ELSE "Associated"]
            /\ links' = TakenByClient
        BY <2>3 DEF ReceiveAare
      <3> HIDE DEF associated
      <3>2. client'.counters = client.counters
        BY <1>2, <3>1 DEF Client
      <3> QED
        BY <1>1, <3>1, <3>2, AllFollow
    <2> QED
      BY <2>1, <2>2, <2>3
  <1>4. \A j \in 1..MaxConnections : OnlyReads(j)
    BY <1>3, TakenReads DEF ReceiveAare
  <1> QED
    BY <1>0, <1>3, <1>4, ClientStepRises, StillOnlyEarly DEF ReplayInv

\* A counter that the client reads within the first association is fresh.
LEMMA CounterIsFresh ==
  ASSUME IndInv, ReplayInv, client.waits # "nothing", accepts <= 1,
         links[client.connection].toClient # <<>>,
         Head(links[client.connection].toClient).counter # 0
  PROVE  AcceptsRemote(client.counters, Head(links[client.connection].toClient).counter)
  <1> DEFINE k == client.connection
             q == links[k].toClient
  <1>1. k \in 1..MaxConnections
    BY ClientHasConnection
  <1>2. /\ q \in Seq(Apdus) /\ client.counters.highestRemote \in Nat /\ ServerNext \in Nat
        /\ Rising(q, client.counters.highestRemote, ServerNext)
    BY <1>1, ReplayTypes DEF ReplayInv, ToClientRises
  <1> HIDE DEF q
  <1>3. client.counters.highestRemote < Head(q).counter
    BY <1>2, RisingTail DEF q
  <1>4. Head(q).counter \in Nat
    BY <1>2, HeadAndTail, CounterType DEF q
  <1> QED
    BY <1>2, <1>3, <1>4 DEF AcceptsRemote, q

LEMMA NotedByClient ==
  ASSUME IndInv, IndInv', ReplayInv, client.waits # "nothing",
         links[client.connection].toClient # <<>>, links' = TakenByClient,
         UNCHANGED <<mode, server, accepts>>,
         \/ client'.counters = client.counters
         \/ /\ Head(links[client.connection].toClient).counter # 0
            /\ client'.counters = StoreRemote(client.counters,
                                              Head(links[client.connection].toClient).counter),
         accepts <= 1 => OnlyEarly'
  PROVE  ReplayInv'
  <1> DEFINE k == client.connection
             apdu == Head(links[k].toClient)
  <1>1. /\ client \in Client /\ k \in 1..MaxConnections
        /\ \A j \in 1..MaxConnections : links'[j].toServer = links[j].toServer
        /\ links'[k].toClient = Tail(links[k].toClient)
    BY TakenEffect
  <1>2. client.counters \in Store /\ client.counters.nextLocal \in Nat
    BY <1>1, StoreTypes DEF Client
  <1> HIDE DEF apdu
  <1>3. /\ client'.counters.nextLocal = client.counters.nextLocal
        /\ \/ client'.counters.highestRemote = client.counters.highestRemote
           \/ apdu.counter # 0 /\ client'.counters.highestRemote = apdu.counter
    <2>1. CASE client'.counters = client.counters
      BY <2>1
    <2>2. CASE apdu.counter # 0 /\ client'.counters = StoreRemote(client.counters, apdu.counter)
      BY <1>2, <2>2 DEF StoreRemote, Store
    <2> QED
      BY <2>1, <2>2 DEF apdu
  <1>4. client'.counters.highestRemote = client.counters.highestRemote \/ Notes(k)
    BY <1>1, <1>3 DEF Notes, apdu
  <1>5. \A j \in 1..MaxConnections : OnlyReads(j)
    BY TakenReads
  <1>6. \A j \in 1..MaxConnections : Follows(links'[j].toServer, links[j].toServer)
    BY <1>1, AllFollow
  <1> QED
    BY <1>1, <1>2, <1>3, <1>4, <1>5, <1>6, ClientStepRises, StillOnlyEarly

\* An answer to the third pass has a counter with GMAC.
LEMMA ReceiveHlsResponseRises ==
  ASSUME IndInv, IndInv', ReplayInv, ReceiveHlsResponse PROVE ReplayInv'
  <1> DEFINE apdu == Head(links[client.connection].toClient)
             authentic == /\ apdu.kind = "hlsResponse" /\ apdu.invokeId = client.invokeId
                          /\ apdu.challenge = client.clientChallenge
             fresh == Gmac => AcceptsRemote(client.counters, apdu.counter)
  <1>1. /\ client.waits # "nothing" /\ links[client.connection].toClient # <<>>
        /\ links' = TakenByClient /\ UNCHANGED <<mode, server, accepts>>
        /\ client \in Client
    BY DEF ReceiveHlsResponse, IndInv, TypeOK
  <1>2. /\ client'.counters = IF authentic /\ fresh /\ Gmac
                              THEN StoreRemote(client.counters, apdu.counter)
                              ELSE client.counters
        /\ ~(authentic /\ ~fresh) => replayed' = replayed
    BY <1>1 DEF ReceiveHlsResponse, Client, Refused
  <1>3. fresh /\ Gmac => apdu.counter # 0
    BY DEF AcceptsRemote
  <1>4. accepts <= 1 /\ authentic /\ Gmac => apdu.counter # 0
    <2> SUFFICES ASSUME accepts <= 1, authentic, Gmac PROVE apdu.counter # 0
      OBVIOUS
    <2>1. links[client.connection].toClient \in Seq(Counted)
      BY <1>1, ClientHasConnection DEF ReplayInv, ToClientRises
    <2>2. apdu \in Counted
      BY <1>1, <2>1, HeadAndTail, Zenon
    <2> QED
      BY <2>2 DEF Counted
  <1>5. accepts <= 1 => OnlyEarly'
    BY <1>1, <1>2, <1>4, CounterIsFresh, StillOnlyEarly DEF ReplayInv
  <1> QED
    BY <1>1, <1>2, <1>3, <1>5, NotedByClient

\* A request takes a counter with ciphering.
LEMMA ServiceRises == ASSUME IndInv, IndInv', ReplayInv, Service PROVE ReplayInv'
  <1>0. UNCHANGED <<mode, server, accepts, replayed>>
    BY DEF Service, history
  <1>1. /\ client \in Client /\ client.connection \in 1..MaxConnections /\ calls' \in Nat
        /\ client.nextInvokeId \in 1..InvokeIdCount /\ client.counters \in Store
        /\ client.counters.nextLocal \in Nat /\ client.counters.nextLocal \in Counters
        /\ client.counters.nextLocal # 0
    BY ClientHasConnection, ReplayTypes
       DEF Service, IndInv, TypeOK, Client, Store, ReplayInv, ToServerRises
  <1>2. CASE mode.ciphered /\ IsExhausted(client.counters)
    <2>1. client'.counters = client.counters /\ links' = links
      BY <1>1, <1>2 DEF Service, Client
    <2> QED
      BY <1>0, <1>1, <2>1, AllFollow, ClientStepRises, StillOnlyEarly DEF OnlyReads, ReplayInv
  <1>3. CASE ~(mode.ciphered /\ IsExhausted(client.counters))
    <2> DEFINE counter == IF mode.ciphered THEN client.counters.nextLocal ELSE 0
               request == Apdu("request", client.nextInvokeId, calls', 0, counter)
    <2>1. /\ request \in Apdus /\ request.kind = "request" /\ request.counter = counter
      BY <1>1, MaxCounterAssumption, InvokeIdFacts DEF Apdu, Apdus, Counters
    <2>2. client'.counters = IF mode.ciphered THEN TakeLocal(client.counters) ELSE client.counters
      BY <1>1, <1>3 DEF Service, Client
    <2>3. /\ client'.counters.highestRemote = client.counters.highestRemote
          /\ client'.counters.nextLocal = IF mode.ciphered THEN client.counters.nextLocal + 1
                                          ELSE client.counters.nextLocal
      BY <1>1, <2>2 DEF TakeLocal, Store
    <2>4. request \in Counted
      BY <1>1, <2>1 DEF Counted
    <2>5. request.counter # 0 => /\ client.counters.nextLocal <= request.counter
                                 /\ request.counter < client'.counters.nextLocal
      BY <1>1, <2>1, <2>3
    <2>6. ToServer(client.connection, request)
      BY <1>3 DEF Service
    <2> HIDE DEF request, counter
    <2>7. /\ \A j \in 1..MaxConnections : Follows(links'[j].toServer, links[j].toServer)
          /\ \A j \in 1..MaxConnections : links'[j].toClient = links[j].toClient
      BY <1>1, <2>4, <2>5, <2>6, ToServerFollows
    <2> QED
      BY <1>0, <1>1, <2>3, <2>7, ClientStepRises, StillOnlyEarly DEF OnlyReads, ReplayInv
  <1> QED
    BY <1>2, <1>3

LEMMA ReceiveResponseRises ==
  ASSUME IndInv, IndInv', ReplayInv, ReceiveResponse PROVE ReplayInv'
  <1> DEFINE apdu == Head(links[client.connection].toClient)
             authentic == mode.ciphered => apdu.counter # 0 /\ apdu.kind = "response"
             fresh == mode.ciphered => AcceptsRemote(client.counters, apdu.counter)
  <1>1. /\ client.waits # "nothing" /\ links[client.connection].toClient # <<>>
        /\ links' = TakenByClient /\ UNCHANGED <<mode, server, accepts>>
        /\ client \in Client
    BY DEF ReceiveResponse, IndInv, TypeOK
  <1>2. /\ client'.counters = IF mode.ciphered /\ authentic /\ fresh
                              THEN StoreRemote(client.counters, apdu.counter)
                              ELSE client.counters
        /\ ~(authentic /\ ~fresh) => replayed' = replayed
    BY <1>1 DEF ReceiveResponse, Client, Refused
  <1>3. accepts <= 1 => OnlyEarly'
    BY <1>1, <1>2, CounterIsFresh, StillOnlyEarly DEF ReplayInv
  <1> QED
    BY <1>1, <1>2, <1>3, NotedByClient

LEMMA ReleaseAssociationRises ==
  ASSUME IndInv, IndInv', ReplayInv, ReleaseAssociation PROVE ReplayInv'
  <1>0. UNCHANGED <<mode, server, accepts, replayed>>
    BY DEF ReleaseAssociation, history
  <1>1. client \in Client /\ client.connection \in 1..MaxConnections
    BY ClientHasConnection DEF ReleaseAssociation
  <1>2. Rlrq \in Apdus /\ Rlrq.kind = "rlrq" /\ Rlrq.counter = 0
    BY MaxCounterAssumption, InvokeIdFacts DEF Rlrq, Apdu, Apdus, Counters
  <1>3. client'.counters = client.counters
    BY <1>1 DEF ReleaseAssociation, Client
  <1>4. /\ \A j \in 1..MaxConnections : Follows(links'[j].toServer, links[j].toServer)
        /\ \A j \in 1..MaxConnections : links'[j].toClient = links[j].toClient
    <2>1. Rlrq \in Counted
      BY <1>2, Uncounted
    <2> QED
      BY <1>1, <1>2, <2>1, ToServerFollows DEF ReleaseAssociation
  <1> QED
    BY <1>0, <1>3, <1>4, ClientStepRises, StillOnlyEarly, ReplayTypes DEF OnlyReads, ReplayInv

LEMMA FacadeRises ==
  ASSUME IndInv, NEW ls \in [1..MaxConnections -> Link], CloseFacade(ls)
  PROVE  /\ client'.counters = client.counters
         /\ \A j \in 1..MaxConnections :
              /\ links'[j].toServer = ls[j].toServer
              /\ links'[j].toClient = ls[j].toClient \/ links'[j].toClient = <<>>
  <1>1. client \in Client /\ client.connection \in 0..MaxConnections
    BY DEF IndInv, TypeOK, Client
  <1>2. client'.counters = client.counters
    BY <1>1 DEF CloseFacade, Client
  <1> QED
    BY <1>1, <1>2, CloseEffect DEF CloseFacade

LEMMA ReceiveRlreRises == ASSUME IndInv, IndInv', ReplayInv, ReceiveRlre PROVE ReplayInv'
  <1>0. UNCHANGED <<mode, server, accepts, replayed>>
    BY DEF ReceiveRlre, history
  <1>1. CASE CloseFacade(TakenByClient)
    <2>1. /\ client'.counters = client.counters
          /\ \A j \in 1..MaxConnections :
               /\ links'[j].toServer = TakenByClient[j].toServer
               /\ \/ links'[j].toClient = TakenByClient[j].toClient
                  \/ links'[j].toClient = <<>>
      BY <1>1, TakenEffect, FacadeRises DEF ReceiveRlre
    <2>2. \A j \in 1..MaxConnections : links'[j].toServer = links[j].toServer
      BY <2>1, TakenEffect DEF ReceiveRlre
    <2>3. \A j \in 1..MaxConnections : OnlyReads(j)
      <3>1. OnlyReads(client.connection)
        BY <2>1, TakenEffect DEF ReceiveRlre, OnlyReads
      <3>2. \A j \in 1..MaxConnections : j # client.connection => OnlyReads(j)
        BY <2>1, TakenEffect DEF ReceiveRlre, OnlyReads
      <3> QED
        BY <3>1, <3>2
    <2> QED
      BY <1>0, <2>1, <2>2, <2>3, AllFollow, ClientStepRises, StillOnlyEarly, ReplayTypes DEF ReplayInv
  <1>2. CASE client' = [client EXCEPT !.waits = "nothing"] /\ links' = TakenByClient
    <2>1. client'.counters = client.counters
      BY <1>2 DEF IndInv, TypeOK, Client
    <2> QED
      BY <1>0, <1>2, <2>1, NotedByClient, StillOnlyEarly DEF ReceiveRlre, ReplayInv
  <1> QED
    BY <1>1, <1>2 DEF ReceiveRlre

LEMMA CloseRises == ASSUME IndInv, IndInv', ReplayInv, Close PROVE ReplayInv'
  <1>1. /\ client'.counters = client.counters
        /\ \A j \in 1..MaxConnections :
             /\ links'[j].toServer = links[j].toServer
             /\ links'[j].toClient = links[j].toClient \/ links'[j].toClient = <<>>
    BY LinksType, FacadeRises DEF Close
  <1>2. UNCHANGED <<mode, server, accepts, replayed>>
    BY DEF Close, history
  <1>3. \A j \in 1..MaxConnections : OnlyReads(j)
    BY <1>1 DEF OnlyReads
  <1>4. \A j \in 1..MaxConnections : Follows(links'[j].toServer, links[j].toServer)
    BY <1>1, AllFollow
  <1>5. client.counters.nextLocal <= client'.counters.nextLocal
    BY <1>1, ReplayTypes
  <1> QED
    BY <1>1, <1>2, <1>3, <1>4, <1>5, ClientStepRises, StillOnlyEarly DEF ReplayInv

LEMMA ReceiveFailsRises == ASSUME IndInv, IndInv', ReplayInv, ReceiveFails PROVE ReplayInv'
  <1>1. client'.counters = client.counters /\ links' = links
    BY DEF ReceiveFails, IndInv, TypeOK, Client
  <1>2. UNCHANGED <<mode, server, accepts, replayed>>
    BY DEF ReceiveFails, history
  <1> QED
    BY <1>1, <1>2, AllFollow, ClientStepRises, StillOnlyEarly, ReplayTypes DEF OnlyReads, ReplayInv

-----------------------------------------------------------------------------
\* The steps of the server.  It sends nothing, or on its connection an APDU with
\* the counter that it takes, or one without.
SendsRising ==
  \A k \in 1..MaxConnections :
    \/ links'[k].toClient = links[k].toClient
    \/ /\ server.phase = "open" /\ k = server.connection
       /\ \E a \in Counted :
            /\ links'[k].toClient = Append(links[k].toClient, a)
            /\ a.counter # 0 => ServerNext <= a.counter /\ a.counter < ServerNext'

LEMMA ServerSendsRising ==
  ASSUME IndInv, IndInv', ReplayInv, UNCHANGED <<client, mode>>, accepts <= 1, SendsRising,
         ServerNext' \in Nat, ServerNext <= ServerNext'
  PROVE  ToClientRises'
  <1>0. /\ \A k \in 1..MaxConnections : links[k].toClient \in Seq(Apdus)
        /\ client.counters.highestRemote \in Nat /\ ServerNext \in Nat
        /\ Counted' = Counted
    BY ReplayTypes DEF Counted, Gmac
  <1>1. /\ \A k \in 1..MaxConnections :
             /\ links[k].toClient \in Seq(Counted)
             /\ Rising(links[k].toClient, client.counters.highestRemote, ServerNext)
        /\ \A j, k \in 1..MaxConnections :
             links[j].toClient # <<>> /\ links[k].toClient # <<>> => j = k
        /\ ServerIsBehind
    BY DEF ReplayInv, ToClientRises
  <1>2. ASSUME NEW k \in 1..MaxConnections
        PROVE  /\ links'[k].toClient \in Seq(Counted)
               /\ Rising(links'[k].toClient, client.counters.highestRemote, ServerNext')
    <2>1. CASE links'[k].toClient = links[k].toClient
      BY <1>0, <1>1, <2>1, RisingWider
    <2>2. CASE links'[k].toClient # links[k].toClient
      <3>1. PICK a \in Counted :
              /\ links'[k].toClient = Append(links[k].toClient, a)
              /\ a.counter # 0 => ServerNext <= a.counter /\ a.counter < ServerNext'
        BY <2>2 DEF SendsRising
      <3>2. a \in Apdus
        BY DEF Counted
      <3>3. Append(links[k].toClient, a) \in Seq(Counted)
        BY <1>1
      <3> QED
        BY <1>0, <1>1, <3>1, <3>2, <3>3, RisingAppend
    <2> QED
      BY <2>1, <2>2
  <1>3. \A k \in 1..MaxConnections : links'[k].toClient # <<>> =>
          links[k].toClient # <<>> \/ (server.phase = "open" /\ k = server.connection)
    BY DEF SendsRising
  <1>4. \A j, k \in 1..MaxConnections :
          links'[j].toClient # <<>> /\ links'[k].toClient # <<>> => j = k
    BY <1>1, <1>3 DEF ServerIsBehind
  <1> QED
    BY <1>0, <1>2, <1>4 DEF ToClientRises

\* What the server has read or dropped is gone.
LEMMA StillToServer ==
  ASSUME IndInv, ReplayInv, UNCHANGED <<client, mode>>,
         \A k \in 1..MaxConnections :
           \/ links'[k].toServer \in {links[k].toServer, <<>>}
           \/ links[k].toServer # <<>> /\ links'[k].toServer = Tail(links[k].toServer)
  PROVE  ToServerRises'
  <1>0. /\ \A k \in 1..MaxConnections : links[k].toServer \in Seq(Apdus)
        /\ client.counters.nextLocal \in Nat /\ client.counters.nextLocal # 0
        /\ Counted' = Counted
    BY ReplayTypes DEF Counted, Gmac, ReplayInv, ToServerRises
  <1>1. ASSUME NEW k \in 1..MaxConnections
        PROVE  /\ links'[k].toServer \in Seq(Counted)
               /\ Rising(links'[k].toServer, 0, client.counters.nextLocal)
    <2>1. /\ links[k].toServer \in Seq(Counted)
          /\ Rising(links[k].toServer, 0, client.counters.nextLocal)
      BY DEF ReplayInv, ToServerRises
    <2>2. CASE links'[k].toServer = links[k].toServer
      BY <2>1, <2>2
    <2>3. CASE links'[k].toServer = <<>>
      BY <1>0, <2>3, RisingEmpty, EmptyIsSequence
    <2>4. CASE links[k].toServer # <<>> /\ links'[k].toServer = Tail(links[k].toServer)
      <3>1. Tail(links[k].toServer) \in Seq(Counted)
        BY <2>1, <2>4, HeadAndTail, Zenon
      <3> QED
        BY <1>0, <2>1, <2>4, <3>1, RisingTail
    <2> QED
      BY <2>2, <2>3, <2>4
  <1> QED
    BY <1>0, <1>1 DEF ToServerRises

\* The endpoint is not open after the step.
LEMMA EndpointDown ==
  ASSUME IndInv, IndInv', ReplayInv, UNCHANGED <<client, mode, accepts, replayed>>,
         server'.phase # "open",
         server'.counters \in {server.counters, NewStore(FirstServiceCounter)},
         SendsRising,
         \A k \in 1..MaxConnections :
           \/ links'[k].toServer \in {links[k].toServer, <<>>}
           \/ links[k].toServer # <<>> /\ links'[k].toServer = Tail(links[k].toServer)
  PROVE  ReplayInv'
  <1>1. ServerNext' = MaxCounter + 1
    BY DEF ServerNext
  <1>2. ServerNext' \in Nat /\ ServerNext <= ServerNext'
    BY <1>1, ReplayTypes, MaxCounterAssumption
  <1>3. ToServerRises'
    BY StillToServer
  <1>4. accepts <= 1 => ToClientRises'
    BY <1>2, ServerSendsRising
  <1>5. ServerIsBehind'
    BY DEF ServerIsBehind
  <1>6. accepts = 0 => Untouched'
    BY DEF ReplayInv, Untouched, SendsRising
  <1> QED
    BY <1>3, <1>4, <1>5, <1>6, StillOnlyEarly DEF ReplayInv

LEMMA SendsNothing == ASSUME \A k \in 1..MaxConnections : links'[k].toClient = links[k].toClient
                      PROVE  SendsRising
  BY DEF SendsRising

LEMMA OpenRises == ASSUME IndInv, IndInv', ReplayInv, Open PROVE ReplayInv'
  <1>0. PICK k \in 1..connections :
          /\ links' = [links EXCEPT ![k].server = "open"]
          /\ \E new \in NewEndpoints :
               server' = [(IF new THEN NewEndpoint ELSE server) EXCEPT
                            !.phase = "accepting", !.connection = k]
    BY DEF Open
  <1>1. k \in 1..MaxConnections
    BY AssociationAssumption DEF IndInv, TypeOK
  <1>2. \A j \in 1..MaxConnections : /\ links'[j].toClient = links[j].toClient
                                     /\ links'[j].toServer = links[j].toServer
    BY <1>0, <1>1, LinksType DEF Link
  <1>3. /\ server'.phase # "open"
        /\ server'.counters \in {server.counters, NewStore(FirstServiceCounter)}
    <2>1. PICK new \in NewEndpoints :
            server' = [(IF new THEN NewEndpoint ELSE server) EXCEPT
                         !.phase = "accepting", !.connection = k]
      BY <1>0
    <2>2. CASE new
      BY <2>1, <2>2 DEF NewEndpoint
    <2>3. CASE ~new
      BY <2>1, <2>3 DEF IndInv, TypeOK, Endpoint
    <2> QED
      BY <2>2, <2>3
  <1>4. UNCHANGED <<client, mode, accepts, replayed>>
    BY DEF Open, history
  <1> QED
    BY <1>2, <1>3, <1>4, SendsNothing, EndpointDown

LEMMA EndpointClosesRises ==
  ASSUME IndInv, IndInv', ReplayInv, UNCHANGED <<client, mode, accepts, replayed>>,
         server.phase # "closed", links' = ClosedByServer(links), server'.phase = "closed",
         server'.counters = server.counters
  PROVE  ReplayInv'
  <1>1. \A j \in 1..MaxConnections :
          /\ links'[j].toClient = links[j].toClient
          /\ links'[j].toServer \in {links[j].toServer, <<>>}
    BY EndpointHasConnection, ServerCloseEffect, LinksType
  <1> QED
    BY <1>1, SendsNothing, EndpointDown

\* The first association starts with nothing noted and nothing on the way to a
\* client.
LEMMA AcceptRises ==
  ASSUME IndInv, IndInv', ReplayInv, UNCHANGED <<client, mode, replayed>>,
         server.phase = "accepting", accepts' = accepts + 1,
         links[server.connection].toServer # <<>>,
         server' = [server EXCEPT !.phase = "open", !.hlsPending = Hls,
                      !.context = server'.context, !.clientChallenge = server'.clientChallenge,
                      !.serverChallenge = server'.serverChallenge,
                      !.hlsCounters = NewStore(ServerCounter)],
         links' = ReadByServer(<<Aare(server'.serverChallenge)>>)
  PROVE  ReplayInv'
  <1> DEFINE k == server.connection
             aare == Aare(server'.serverChallenge)
  <1>1. server \in Endpoint /\ k \in 1..MaxConnections /\ accepts \in Nat
    BY EndpointHasConnection DEF IndInv, TypeOK
  <1>2. /\ server'.phase = "open" /\ server'.hlsPending = Hls /\ server'.connection = k
        /\ server'.hlsCounters = NewStore(ServerCounter) /\ server'.counters = server.counters
    BY <1>1 DEF Endpoint
  <1>3. aare \in Apdus /\ aare.kind = "aare" /\ aare.counter = 0
    <2>1. server'.serverChallenge \in Nat
      BY DEF IndInv, TypeOK, Endpoint
    <2> QED
      BY <2>1, MaxCounterAssumption, InvokeIdFacts DEF Aare, Apdu, Apdus, Counters
  <1> HIDE DEF aare
  <1>4. /\ links'[k].toServer = Tail(links[k].toServer)
        /\ Grown(links'[k].toClient, links[k].toClient, <<aare>>)
        /\ \A j \in 1..MaxConnections : j # k => links'[j] = links[j]
    BY <1>1, <1>3, LinksType, ServerReadEffect DEF aare
  <1>5. ToServerRises'
    <2>1. \A j \in 1..MaxConnections :
            \/ links'[j].toServer \in {links[j].toServer, <<>>}
            \/ links[j].toServer # <<>> /\ links'[j].toServer = Tail(links[j].toServer)
      BY <1>4
    <2> QED
      BY <2>1, StillToServer
  <1>6. ASSUME accepts' <= 1
        PROVE  OnlyEarly' /\ ToClientRises' /\ ServerIsBehind'
    <2>1. accepts = 0 /\ Untouched
      BY <1>1, <1>6 DEF ReplayInv
    <2>2. /\ server'.counters.nextLocal = ServerCounter + 2
          /\ server'.counters.highestRemote = 0
          /\ server'.hlsCounters.nextLocal = ServerCounter
          /\ server'.hlsCounters.highestRemote = 0
          /\ ServerCounter \in Nat \ {0}
      BY <1>2, <2>1, AssociationAssumption, MaxCounterAssumption
         DEF Untouched, NewStore, FirstServiceCounter
    <2>3. ServerNext' \in Nat /\ 0 < ServerNext'
      BY <1>2, <2>2 DEF ServerNext
    <2>4. client.counters.highestRemote = 0 /\ client.counters.nextLocal \in Nat
      BY <2>1, ReplayTypes DEF Untouched
    <2>5. \A j \in 1..MaxConnections : links'[j].toClient = <<>>
                                       \/ (j = k /\ links'[j].toClient = <<aare>>)
      <3>1. links[k].toClient = <<>> /\ Append(<<>>, aare) = <<aare>>
        BY <1>1, <2>1 DEF Untouched
      <3>2. links'[k].toClient = <<>> \/ links'[k].toClient = Append(<<>>, aare)
        <4>1. CASE links'[k].toClient = links[k].toClient
          BY <3>1, <4>1
        <4>2. CASE \E a \in Apdus : /\ <<aare>> = <<a>>
                                    /\ links'[k].toClient = Append(links[k].toClient, a)
          BY <3>1, <4>2
        <4> QED
          BY <1>4, <4>1, <4>2 DEF Grown
      <3>3. \A j \in 1..MaxConnections : j # k => links'[j].toClient = <<>>
        BY <1>4, <2>1 DEF Untouched
      <3> QED
        BY <3>1, <3>2, <3>3
    <2>6. /\ Rising(<<aare>>, 0, ServerNext') /\ Rising(<<>>, 0, ServerNext')
          /\ <<aare>> \in Seq(Counted) /\ <<>> \in Seq(Counted) /\ Counted' = Counted
      <3>1. aare \in Counted
        BY <1>3, Uncounted
      <3>2. <<aare>> \in Seq(Counted) /\ <<>> \in Seq(Counted)
        BY <3>1
      <3>3. Rising(<<aare>>, 0, ServerNext')
        <4>1. Len(<<aare>>) = 1 /\ <<aare>>[1] = aare
          OBVIOUS
        <4> QED
          BY <1>3, <2>3, <4>1 DEF Rising
      <3> QED
        BY <2>3, <3>2, <3>3, RisingEmpty DEF Counted, Gmac
    <2>7. ToClientRises'
      BY <2>4, <2>5, <2>6 DEF ToClientRises
    <2>8. Rising(links'[k].toServer, 0, client.counters.nextLocal)
      BY <1>1, <1>5 DEF ToServerRises
    <2>9. ServerIsBehind'
      BY <1>2, <2>2, <2>5, <2>8 DEF ServerIsBehind, FirstServiceCounter
    <2>10. OnlyEarly'
      BY <1>6, <2>1, StillOnlyEarly DEF ReplayInv
    <2> QED
      BY <2>7, <2>9, <2>10
  <1>7. accepts' # 0
    BY <1>1
  <1> QED
    BY <1>5, <1>6, <1>7 DEF ReplayInv

LEMMA NegotiateRises == ASSUME IndInv, IndInv', ReplayInv, NegotiateAssociation PROVE ReplayInv'
  <1>0. UNCHANGED <<client, mode, replayed>> /\ server.phase = "accepting"
        /\ links[server.connection].toServer # <<>> /\ server \in Endpoint
    BY DEF NegotiateAssociation, IndInv, TypeOK
  <1> DEFINE aarq == Head(links[server.connection].toServer)
             k == server.connection
  <1>1. CASE /\ accepts' = accepts + 1
             /\ server' = [server EXCEPT !.phase = "open", !.hlsPending = Hls,
                             !.context = AcceptedContext(k),
                             !.clientChallenge = aarq.challenge,
                             !.serverChallenge = IF Hls THEN accepts' ELSE 0,
                             !.hlsCounters = NewStore(ServerCounter)]
             /\ links' = ReadByServer(<<Aare(server'.serverChallenge)>>)
    <2>1. /\ server'.context = AcceptedContext(k) /\ server'.clientChallenge = aarq.challenge
          /\ server'.serverChallenge = IF Hls THEN accepts' ELSE 0
      BY <1>0, <1>1 DEF Endpoint
    <2> QED
      BY <1>0, <1>1, <2>1, AcceptRises
  <1>2. CASE /\ links' = ClosedByServer(links) /\ server' = [server EXCEPT !.phase = "closed"]
             /\ UNCHANGED <<accepts, accepted>>
    <2>1. server'.phase = "closed" /\ server'.counters = server.counters
      BY <1>0, <1>2 DEF Endpoint
    <2> QED
      BY <1>0, <1>2, <2>1, EndpointClosesRises
  <1> QED
    BY <1>1, <1>2 DEF NegotiateAssociation

LEMMA AcceptFailsRises == ASSUME IndInv, IndInv', ReplayInv, AcceptFails PROVE ReplayInv'
  <1>1. server'.phase = "closed" /\ server'.counters = server.counters
    BY DEF AcceptFails, IndInv, TypeOK, Endpoint
  <1> QED
    BY <1>1, EndpointClosesRises DEF AcceptFails, history

LEMMA CloseEndpointRises == ASSUME IndInv, IndInv', ReplayInv, CloseEndpoint PROVE ReplayInv'
  <1>1. server'.phase = "closed" /\ server'.counters = server.counters
    BY DEF CloseEndpoint, IndInv, TypeOK, Endpoint
  <1> QED
    BY <1>1, EndpointClosesRises DEF CloseEndpoint, history

\* A step of an open endpoint that reads an APDU and stays open.
LEMMA EndpointReads ==
  ASSUME IndInv, IndInv', ReplayInv, UNCHANGED <<client, mode, accepts>>,
         server.phase = "open", server'.phase = "open", server'.connection = server.connection,
         links[server.connection].toServer # <<>>,
         links'[server.connection].toServer = Tail(links[server.connection].toServer),
         \A j \in 1..MaxConnections : j # server.connection => links'[j] = links[j],
         NEW noted, noted = Head(links[server.connection].toServer).counter,
         \/ server'.hlsCounters.highestRemote = server.hlsCounters.highestRemote
         \/ noted # 0 /\ server'.hlsCounters.highestRemote = noted,
         \/ server'.counters.highestRemote = server.counters.highestRemote
         \/ noted # 0 /\ server'.counters.highestRemote = noted,
         server'.hlsPending => /\ server.hlsPending
                               /\ server'.hlsCounters.nextLocal = server.hlsCounters.nextLocal,
         server.counters.nextLocal <= server'.counters.nextLocal,
         accepts <= 1 => OnlyEarly' /\ SendsRising /\ ServerNext <= ServerNext'
  PROVE  ReplayInv'
  <1> DEFINE k == server.connection
  <1>0. /\ k \in 1..MaxConnections /\ links[k].toServer \in Seq(Apdus)
        /\ client.counters.nextLocal \in Nat
        /\ server.counters.nextLocal \in Nat /\ server.counters.highestRemote \in Nat
        /\ server.hlsCounters.highestRemote \in Nat /\ server'.counters.nextLocal \in Nat
        /\ ServerCounter \in Nat /\ FirstServiceCounter \in Nat
    BY ReplayTypes, ReplayTypesNext, AssociationAssumption DEF FirstServiceCounter
  <1>1. ToServerRises'
    BY <1>0, StillToServer
  <1>2. ASSUME accepts <= 1 PROVE ToClientRises'
    <2>1. ServerNext' \in Nat
      BY <1>0 DEF ServerNext
    <2> QED
      BY <1>2, <2>1, ServerSendsRising
  <1>3. ASSUME accepts <= 1 PROVE ServerIsBehind'
    <2>1. ServerIsBehind
      BY <1>3 DEF ReplayInv
    <2>2. /\ Rising(links'[k].toServer, server'.hlsCounters.highestRemote,
                    client.counters.nextLocal)
          /\ Rising(links'[k].toServer, server'.counters.highestRemote,
                    client.counters.nextLocal)
      BY <1>0, <2>1, RisingTail DEF ServerIsBehind
    <2>3. \A j \in 1..MaxConnections : links'[j].toClient # <<>> => j = k
      BY <2>1 DEF ServerIsBehind
    <2>4. /\ server'.hlsPending => server'.hlsCounters.nextLocal = ServerCounter
          /\ server'.counters.nextLocal >= FirstServiceCounter
      BY <1>0, <2>1 DEF ServerIsBehind
    <2> QED
      BY <2>2, <2>3, <2>4 DEF ServerIsBehind
  <1>4. accepts # 0
    BY DEF ReplayInv, Untouched
  <1> QED
    BY <1>1, <1>2, <1>3, <1>4 DEF ReplayInv

\* What a request that the endpoint reads has for a counter.
LEMMA EndpointReadsCounted ==
  ASSUME IndInv, ReplayInv, server.phase = "open", links[server.connection].toServer # <<>>
  PROVE  /\ Head(links[server.connection].toServer) \in Counted
         /\ Head(links[server.connection].toServer) \in Apdus
         /\ server \in Endpoint /\ server.connection \in 1..MaxConnections
         /\ accepts <= 1 /\ Head(links[server.connection].toServer).counter # 0 =>
              /\ AcceptsRemote(server.hlsCounters, Head(links[server.connection].toServer).counter)
              /\ AcceptsRemote(server.counters, Head(links[server.connection].toServer).counter)
  <1> DEFINE k == server.connection
             q == links[k].toServer
  <1>1. server \in Endpoint /\ k \in 1..MaxConnections
    BY EndpointHasConnection
  <1>2. q \in Seq(Counted) /\ q \in Seq(Apdus)
    BY <1>1, ReplayTypes DEF ReplayInv, ToServerRises
  <1>3. /\ client.counters.nextLocal \in Nat /\ server.counters.highestRemote \in Nat
        /\ server.hlsCounters.highestRemote \in Nat
    BY ReplayTypes
  <1>4. accepts <= 1 =>
          /\ Rising(q, server.hlsCounters.highestRemote, client.counters.nextLocal)
          /\ Rising(q, server.counters.highestRemote, client.counters.nextLocal)
    BY DEF ReplayInv, ServerIsBehind
  <1> HIDE DEF q
  <1>5. Head(q) \in Counted /\ Head(q) \in Apdus
    BY <1>2, HeadAndTail, Zenon DEF q
  <1>6. accepts <= 1 /\ Head(q).counter # 0 =>
          /\ server.hlsCounters.highestRemote < Head(q).counter
          /\ server.counters.highestRemote < Head(q).counter
    BY <1>2, <1>3, <1>4, RisingTail DEF q
  <1>7. Head(q).counter \in Nat
    BY <1>5, CounterType
  <1>8. accepts <= 1 /\ Head(q).counter # 0 =>
          /\ AcceptsRemote(server.hlsCounters, Head(q).counter)
          /\ AcceptsRemote(server.counters, Head(q).counter)
    BY <1>3, <1>6, <1>7 DEF AcceptsRemote
  <1> QED
    BY <1>1, <1>5, <1>8 DEF q

\* What the endpoint sends goes to its connection.
LEMMA GrownSendsRising ==
  ASSUME IndInv, server.phase = "open", NEW apdus,
         Grown(links'[server.connection].toClient, links[server.connection].toClient, apdus),
         \A j \in 1..MaxConnections : j # server.connection => links'[j] = links[j],
         \A a \in Apdus : apdus = <<a>> =>
           /\ a \in Counted
           /\ a.counter # 0 => ServerNext <= a.counter /\ a.counter < ServerNext'
  PROVE  SendsRising
  BY DEF SendsRising, Grown

LEMMA HandleReleaseRises ==
  ASSUME IndInv, IndInv', ReplayInv, UNCHANGED <<client, mode, accepts, replayed>>,
         server.phase = "open", links[server.connection].toServer # <<>>, HandleRelease
  PROVE  ReplayInv'
  <1> DEFINE k == server.connection
  <1>1. server \in Endpoint /\ k \in 1..MaxConnections /\ links \in [1..MaxConnections -> Link]
        /\ server.counters \in Store
    BY EndpointHasConnection, LinksType DEF Endpoint
  <1>2. CASE /\ links' = ClosedByServer(ReadByServer(<<Rlre>>))
             /\ server' = [server EXCEPT !.phase = "closed", !.hlsPending = FALSE, !.context = 0]
    <2> DEFINE ls == ReadByServer(<<Rlre>>)
    <2>1. Rlre \in Apdus /\ Rlre.kind = "rlre" /\ Rlre.counter = 0
      BY MaxCounterAssumption, InvokeIdFacts DEF Rlre, Apdu, Apdus, Counters
    <2>2. Rlre \in Counted
      BY <2>1, Uncounted
    <2>3. /\ ls[k].toServer = Tail(links[k].toServer)
          /\ Grown(ls[k].toClient, links[k].toClient, <<Rlre>>)
          /\ \A j \in 1..MaxConnections : j # k => ls[j] = links[j]
      BY <1>1, <2>1, ServerReadEffect
    <2>4. ls \in [1..MaxConnections -> Link]
      <3>1. <<Rlre>> \in Seq(Apdus)
        BY <2>1
      <3> DEFINE V == [j \in 1..MaxConnections |-> Apdus]
      <3>2. Carries(links, V) /\ V[k] = Apdus
        BY <1>1 DEF Carries, Link
      <3> HIDE DEF V
      <3>3. Carries(ls, V)
        BY <1>1, <3>1, <3>2, ServerReadCarries
      <3> QED
        BY <3>3 DEF Carries
    <2> HIDE DEF ls
    <2>5. \A j \in 1..MaxConnections :
            /\ links'[j].toClient = ls[j].toClient
            /\ links'[j].toServer = ls[j].toServer \/ links'[j].toServer = <<>>
      BY <1>1, <1>2, <2>4, ServerCloseEffect DEF ls
    <2>6. SendsRising
      BY <1>1, <2>1, <2>2, <2>3, <2>5 DEF SendsRising, Grown
    <2>7. \A j \in 1..MaxConnections :
            \/ links'[j].toServer \in {links[j].toServer, <<>>}
            \/ links[j].toServer # <<>> /\ links'[j].toServer = Tail(links[j].toServer)
      BY <2>3, <2>5
    <2>8. server'.phase = "closed" /\ server'.counters = server.counters
      BY <1>1, <1>2 DEF Endpoint
    <2> QED
      BY <2>6, <2>7, <2>8, EndpointDown
  <1>3. CASE links' = ReadByServer(<<>>) /\ UNCHANGED server
    <2>1. /\ links'[k].toServer = Tail(links[k].toServer)
          /\ Grown(links'[k].toClient, links[k].toClient, <<>>)
          /\ \A j \in 1..MaxConnections : j # k => links'[j] = links[j]
      BY <1>1, <1>3, ServerReadEffect
    <2>2. ServerNext' = ServerNext /\ ServerNext \in Nat /\ server.counters.nextLocal \in Nat
      BY <1>3, ReplayTypes DEF ServerNext
    <2>3. SendsRising
      <3>1. \A a \in Apdus : <<>> # <<a>>
        OBVIOUS
      <3> QED
        BY <2>1, <3>1, GrownSendsRising
    <2> QED
      BY <1>3, <2>1, <2>2, <2>3, EndpointReads, StillOnlyEarly DEF ReplayInv
  <1> QED
    BY <1>2, <1>3 DEF HandleRelease

LEMMA HandleHlsReplyRises ==
  ASSUME IndInv, IndInv', ReplayInv, UNCHANGED <<client, mode, accepts>>,
         server.phase = "open", links[server.connection].toServer # <<>>, server.hlsPending,
         NEW apdu, apdu = Head(links[server.connection].toServer), apdu.kind = "hls",
         HandleHlsReply(apdu)
  PROVE  ReplayInv'
  <1> DEFINE k == server.connection
             authentic == mode.genuine /\ apdu.challenge = server.serverChallenge
             fresh == Gmac => AcceptsRemote(server.hlsCounters, apdu.counter)
             noted == IF Gmac /\ authentic /\ fresh
                      THEN StoreRemote(server.hlsCounters, apdu.counter)
                      ELSE server.hlsCounters
             counter == IF Gmac THEN noted.nextLocal ELSE 0
             answer == Apdu("hlsResponse", apdu.invokeId, 0, server.clientChallenge, counter)
  <1>1. /\ apdu \in Counted /\ apdu \in Apdus /\ server \in Endpoint /\ k \in 1..MaxConnections
        /\ server.hlsCounters \in Store /\ links \in [1..MaxConnections -> Link]
        /\ server.counters.nextLocal \in Nat /\ server.hlsCounters.nextLocal \in Nat
        /\ server.hlsCounters.nextLocal \in Counters
    BY EndpointReadsCounted, LinksType, ReplayTypes DEF Endpoint, Store
  <1>2. Gmac => apdu.counter # 0
    BY <1>1 DEF Counted
  <1>3. ~(authentic /\ ~fresh) => replayed' = replayed
    BY DEF HandleHlsReply, Refused
  <1>4. accepts <= 1 => OnlyEarly'
    BY <1>2, <1>3, EndpointReadsCounted, StillOnlyEarly DEF ReplayInv
  <1>5. /\ noted.nextLocal = server.hlsCounters.nextLocal /\ noted \in Store
        /\ \/ noted.highestRemote = server.hlsCounters.highestRemote
           \/ apdu.counter # 0 /\ noted.highestRemote = apdu.counter
    <2>1. apdu.counter \in Counters
      BY <1>1 DEF Apdus
    <2>2. CASE Gmac /\ authentic /\ fresh
      BY <1>1, <1>2, <2>1, <2>2 DEF StoreRemote, Store
    <2>3. CASE ~(Gmac /\ authentic /\ fresh)
      BY <1>1, <2>3
    <2> QED
      BY <2>2, <2>3
  <1>6. ServerNext = ServerCounter /\ ServerCounter \in Nat \ {0} /\ FirstServiceCounter = ServerCounter + 2
    BY AssociationAssumption, MaxCounterAssumption DEF ServerNext, FirstServiceCounter
  <1>7. accepts <= 1 => /\ server.hlsCounters.nextLocal = ServerCounter
                        /\ server.counters.nextLocal >= FirstServiceCounter
    BY DEF ReplayInv, ServerIsBehind
  <1>8. CASE authentic /\ fresh /\ ~(Gmac /\ IsExhausted(noted))
    <2>1. /\ server' = [server EXCEPT !.hlsPending = FALSE, !.context = k,
                          !.hlsCounters = IF Gmac THEN TakeLocal(noted) ELSE noted]
          /\ links' = ReadByServer(<<answer>>)
      BY <1>8 DEF HandleHlsReply
    <2>2. /\ answer \in Apdus /\ answer.kind = "hlsResponse" /\ answer.counter = counter
      BY <1>1, <1>5, MaxCounterAssumption DEF Apdu, Apdus, Endpoint, Counters, Store
    <2> HIDE DEF noted
    <2>3. /\ server'.phase = "open" /\ server'.connection = k /\ server'.hlsPending = FALSE
          /\ server'.counters = server.counters
          /\ server'.hlsCounters.highestRemote = noted.highestRemote
      BY <1>1, <1>5, <2>1 DEF Endpoint, TakeLocal, Store
    <2>4. ServerNext' = server.counters.nextLocal
      BY <2>3 DEF ServerNext
    <2> HIDE DEF answer
    <2>5. /\ links'[k].toServer = Tail(links[k].toServer)
          /\ Grown(links'[k].toClient, links[k].toClient, <<answer>>)
          /\ \A j \in 1..MaxConnections : j # k => links'[j] = links[j]
      BY <1>1, <2>1, <2>2, ServerReadEffect
    <2>6. ASSUME accepts <= 1 PROVE SendsRising /\ ServerNext <= ServerNext'
      <3>1. /\ answer.counter # 0 => ServerNext <= answer.counter /\ answer.counter < ServerNext'
            /\ Gmac => answer.counter # 0
            /\ ServerNext <= ServerNext'
        BY <1>1, <1>5, <1>6, <1>7, <2>2, <2>4, <2>6
      <3>2. answer \in Counted
        BY <2>2, <3>1 DEF Counted
      <3>3. \A a \in Apdus : <<answer>> = <<a>> => a = answer
        OBVIOUS
      <3> QED
        BY <2>5, <3>1, <3>2, <3>3, GrownSendsRising
    <2> QED
      BY <1>1, <1>4, <1>5, <2>3, <2>5, <2>6, EndpointReads
  <1>9. CASE ~(authentic /\ fresh /\ ~(Gmac /\ IsExhausted(noted)))
    <2>1. server' = [server EXCEPT !.hlsCounters = noted] /\ links' = ReadByServer(<<>>)
      BY <1>9 DEF HandleHlsReply
    <2> HIDE DEF noted
    <2>2. /\ server'.phase = "open" /\ server'.connection = k /\ server'.hlsPending
          /\ server'.counters = server.counters /\ server'.hlsCounters = noted
      BY <1>1, <2>1 DEF Endpoint
    <2>3. ServerNext' = ServerNext
      BY <2>2 DEF ServerNext
    <2>4. /\ links'[k].toServer = Tail(links[k].toServer)
          /\ Grown(links'[k].toClient, links[k].toClient, <<>>)
          /\ \A j \in 1..MaxConnections : j # k => links'[j] = links[j]
      BY <1>1, <2>1, ServerReadEffect
    <2>5. SendsRising
      <3>1. \A a \in Apdus : <<>> # <<a>>
        OBVIOUS
      <3> QED
        BY <2>4, <3>1, GrownSendsRising
    <2> QED
      BY <1>1, <1>4, <1>5, <1>6, <2>2, <2>3, <2>4, <2>5, EndpointReads
  <1> QED
    BY <1>8, <1>9

\* The counters after a request: Unprotect notes its counter once, and while a
\* third pass is due does not take it a second time.
LEMMA SeenOnce ==
  ASSUME NEW apdu \in Apdus, server.counters \in Store
  PROVE  LET noted == Unprotected(SeenCounters(apdu), apdu)
         IN /\ noted \in Store /\ noted.nextLocal = server.counters.nextLocal
            /\ \/ noted.highestRemote = server.counters.highestRemote
               \/ mode.ciphered /\ apdu.kind = "request"
                  /\ noted.highestRemote = apdu.counter
            /\ server.hlsPending /\ mode.ciphered /\ mode.genuine /\ apdu.kind = "request" =>
                 ~AcceptsRemote(SeenCounters(apdu), apdu.counter)
            /\ ~server.hlsPending => SeenCounters(apdu) = server.counters
  <1> DEFINE seen == SeenCounters(apdu)
             noted == Unprotected(seen, apdu)
             once == StoreRemote(server.counters, apdu.counter)
             honest == mode.ciphered /\ mode.genuine /\ apdu.kind = "request"
  <1>1. apdu.counter \in Counters
    BY DEF Apdus
  <1>2. /\ once \in Store /\ once.nextLocal = server.counters.nextLocal
        /\ once.highestRemote = apdu.counter
    BY <1>1, StoreFacts DEF StoreRemote, Store
  <1>3. ~AcceptsRemote(once, apdu.counter)
    BY <1>1, <1>2, MaxCounterAssumption DEF AcceptsRemote, Counters
  <1>4. noted \in {server.counters, once} /\ (noted = once => honest \/ once = server.counters)
    BY <1>3 DEF SeenCounters, Unprotected
  <1>5. server.hlsPending /\ honest => ~AcceptsRemote(seen, apdu.counter)
    BY <1>3 DEF SeenCounters, Unprotected
  <1>6. ~server.hlsPending => seen = server.counters
    BY DEF SeenCounters
  <1> HIDE DEF seen, noted, once
  <1>7. /\ noted \in Store /\ noted.nextLocal = server.counters.nextLocal
        /\ \/ noted.highestRemote = server.counters.highestRemote
           \/ honest /\ noted.highestRemote = apdu.counter
    BY <1>2, <1>4
  <1> QED
    BY <1>5, <1>6, <1>7 DEF seen, noted

LEMMA ProcessRequestRises ==
  ASSUME IndInv, IndInv', PassInv, ReplayInv, UNCHANGED <<client, mode, accepts>>,
         server.phase = "open", links[server.connection].toServer # <<>>,
         NEW apdu, apdu = Head(links[server.connection].toServer), ProcessRequest(apdu)
  PROVE  ReplayInv'
  <1> DEFINE k == server.connection
             authentic == mode.ciphered => mode.genuine /\ apdu.kind = "request"
             seen == SeenCounters(apdu)
             fresh == mode.ciphered => AcceptsRemote(seen, apdu.counter)
             noted == Unprotected(seen, apdu)
             carriedOut == /\ authentic /\ fresh
                           /\ apdu.kind \in {"request", "hls"} /\ server.context # 0
             answers == carriedOut /\ ~(mode.ciphered /\ IsExhausted(noted))
             counter == IF mode.ciphered THEN noted.nextLocal ELSE 0
             response == Apdu(IF apdu.kind = "request" THEN "response" ELSE "actionResponse",
                              apdu.invokeId, apdu.call, 0, counter)
  <1>1. /\ apdu \in Counted /\ apdu \in Apdus /\ server \in Endpoint /\ k \in 1..MaxConnections
        /\ server.counters \in Store /\ links \in [1..MaxConnections -> Link]
        /\ server.counters.nextLocal \in Nat /\ server.counters.nextLocal \in Counters
        /\ server.hlsCounters.nextLocal \in Nat
    BY EndpointReadsCounted, LinksType, ReplayTypes DEF Endpoint, Store
  <1>2. mode.ciphered /\ apdu.kind = "request" => apdu.counter # 0
    BY <1>1 DEF Counted
  <1>3. replayed' = IF authentic /\ ~fresh
                    THEN replayed \cup {IF server.hlsPending THEN "early" ELSE "late"}
                    ELSE replayed
    BY DEF ProcessRequest, Refused
  <1>4. accepts <= 1 => OnlyEarly'
    <2> SUFFICES ASSUME accepts <= 1 PROVE OnlyEarly'
      OBVIOUS
    <2>1. CASE ~(authentic /\ ~fresh)
      BY <1>3, <2>1, StillOnlyEarly DEF ReplayInv
    <2>2. CASE authentic /\ ~fresh
      <3>1. mode.ciphered /\ apdu.kind = "request" /\ apdu.counter # 0
        BY <1>2, <2>2
      <3>2. server.hlsPending
        BY <1>1, <2>2, <3>1, EndpointReadsCounted, SeenOnce
      <3>3. Hls
        BY <3>1, ModeFacts DEF AllModes, Hls, IndInv, TypeOK
      <3>4. mode.direct
        BY <3>1, <3>2, <3>3, EarlyIsDirect
      <3> HIDE DEF authentic, fresh
      <3>5. replayed' = replayed \cup {"early"}
        BY <1>3, <2>2, <3>2
      <3> QED
        BY <3>1, <3>4, <3>5 DEF ReplayInv, OnlyEarly
    <2> QED
      BY <2>1, <2>2
  <1>5. /\ noted.nextLocal = server.counters.nextLocal /\ noted \in Store
        /\ \/ noted.highestRemote = server.counters.highestRemote
           \/ apdu.counter # 0 /\ noted.highestRemote = apdu.counter
    BY <1>1, <1>2, SeenOnce
  <1>6. CASE answers
    <2>1. /\ server' = [server EXCEPT !.counters =
                          IF mode.ciphered THEN TakeLocal(noted) ELSE noted]
          /\ links' = ReadByServer(<<response>>)
      BY <1>6 DEF ProcessRequest
    <2>2. mode.ciphered => ~server.hlsPending
      BY <1>1, <1>6, SeenOnce
    <2> HIDE DEF noted
    <2>3. /\ response \in Apdus /\ response.kind \notin {"hls", "hlsResponse", "request"}
          /\ response.counter = counter
      <3>1. counter \in Counters
        BY <1>1, <1>5, MaxCounterAssumption DEF Counters
      <3>2. apdu.invokeId \in 0..InvokeIdCount /\ apdu.call \in Nat
        BY <1>1 DEF Apdus
      <3> HIDE DEF counter
      <3> QED
        BY <3>1, <3>2 DEF Apdu, Apdus
    <2>4. /\ server'.phase = "open" /\ server'.connection = k
          /\ server'.hlsPending = server.hlsPending /\ server'.hlsCounters = server.hlsCounters
          /\ server'.counters.highestRemote = noted.highestRemote
          /\ server'.counters.nextLocal = IF mode.ciphered THEN noted.nextLocal + 1
                                          ELSE noted.nextLocal
      BY <1>1, <1>5, <2>1 DEF Endpoint, TakeLocal, Store
    <2> HIDE DEF response
    <2>5. /\ links'[k].toServer = Tail(links[k].toServer)
          /\ Grown(links'[k].toClient, links[k].toClient, <<response>>)
          /\ \A j \in 1..MaxConnections : j # k => links'[j] = links[j]
      BY <1>1, <2>1, <2>3, ServerReadEffect
    <2>6. /\ response.counter # 0 => /\ ServerNext <= response.counter
                                     /\ response.counter < ServerNext'
          /\ ServerNext <= ServerNext'
      <3>1. CASE mode.ciphered
        <4>1. /\ ServerNext = server.counters.nextLocal
              /\ ServerNext' = server.counters.nextLocal + 1
          BY <1>5, <2>2, <2>4, <3>1 DEF ServerNext
        <4> QED
          BY <1>1, <1>5, <2>3, <3>1, <4>1
      <3>2. CASE ~mode.ciphered
        <4>1. ServerNext' = ServerNext /\ ServerNext \in Nat
          BY <1>5, <2>4, <3>2, ReplayTypes DEF ServerNext
        <4> QED
          BY <2>3, <3>2, <4>1
      <3> QED
        BY <3>1, <3>2
    <2>7. SendsRising
      <3>1. \A a \in Apdus : <<response>> = <<a>> => a = response
        OBVIOUS
      <3> QED
        BY <2>3, <2>5, <2>6, <3>1, Uncounted, GrownSendsRising
    <2>8. server.counters.nextLocal <= server'.counters.nextLocal
      BY <1>1, <1>5, <2>4
    <2> QED
      BY <1>1, <1>4, <1>5, <2>4, <2>5, <2>6, <2>7, <2>8, EndpointReads
  <1>7. CASE ~answers
    <2>1. server' = [server EXCEPT !.counters = noted] /\ links' = ReadByServer(<<>>)
      BY <1>7 DEF ProcessRequest
    <2> HIDE DEF noted
    <2>2. /\ server'.phase = "open" /\ server'.connection = k
          /\ server'.hlsPending = server.hlsPending
          /\ server'.counters = noted /\ server'.hlsCounters = server.hlsCounters
      BY <1>1, <2>1 DEF Endpoint
    <2>3. ServerNext' = ServerNext /\ ServerNext \in Nat
      BY <1>5, <2>2, ReplayTypes DEF ServerNext
    <2>4. /\ links'[k].toServer = Tail(links[k].toServer)
          /\ Grown(links'[k].toClient, links[k].toClient, <<>>)
          /\ \A j \in 1..MaxConnections : j # k => links'[j] = links[j]
      BY <1>1, <2>1, ServerReadEffect
    <2>5. SendsRising
      <3>1. \A a \in Apdus : <<>> # <<a>>
        OBVIOUS
      <3> QED
        BY <2>4, <3>1, GrownSendsRising
    <2> QED
      BY <1>1, <1>4, <1>5, <2>2, <2>3, <2>4, <2>5, EndpointReads
  <1> QED
    BY <1>6, <1>7

LEMMA RunOnceRises == ASSUME IndInv, IndInv', PassInv, ReplayInv, RunOnce PROVE ReplayInv'
  <1> DEFINE apdu == Head(links[server.connection].toServer)
  <1>1. /\ server.phase = "open" /\ links[server.connection].toServer # <<>>
        /\ UNCHANGED <<client, mode, accepts>>
    BY DEF RunOnce
  <1>2. CASE HandleRelease /\ UNCHANGED replayed
    BY <1>1, <1>2, HandleReleaseRises
  <1>3. CASE apdu.kind = "hls" /\ server.hlsPending /\ HandleHlsReply(apdu)
    BY <1>1, <1>3, HandleHlsReplyRises
  <1>4. CASE ProcessRequest(apdu)
    BY <1>1, <1>4, ProcessRequestRises
  <1> QED
    BY <1>2, <1>3, <1>4 DEF RunOnce

LEMMA InitiallyRising == ASSUME Init PROVE ReplayInv
  <1>1. /\ \A k \in 1..MaxConnections : links[k].toServer = <<>> /\ links[k].toClient = <<>>
        /\ client.counters.nextLocal = ClientCounter /\ client.counters.highestRemote = 0
        /\ server.phase = "closed" /\ server.counters = NewStore(FirstServiceCounter)
    BY DEF Init, NewLink, NewClient, NewEndpoint, NewStore
  <1>2. ClientCounter \in Nat \ {0} /\ ServerNext = MaxCounter + 1 /\ 0 < ServerNext
    BY <1>1, AssociationAssumption, MaxCounterAssumption DEF ServerNext
  <1>3. ToServerRises
    <2>1. Rising(<<>>, 0, ClientCounter) /\ <<>> \in Seq(Counted)
      BY <1>2, RisingEmpty
    <2> QED
      BY <1>1, <1>2, <2>1 DEF ToServerRises
  <1>4. ToClientRises
    BY <1>1, <1>2, RisingEmpty, EmptyIsSequence DEF ToClientRises
  <1>5. ServerIsBehind /\ Untouched
    BY <1>1 DEF ServerIsBehind, Untouched
  <1> QED
    BY <1>3, <1>4, <1>5 DEF ReplayInv, OnlyEarly, Init

\* NoFalseReplay: the two counter stores of the server (HLS passes and APDUs) and
\* the one of the client never make an honest APDU of the first association look
\* like a replay, but for a protected request that an application without the
\* facade sends in the place of the third pass (ServerEndpoint::Open,
\* HandleHlsReply and ProcessRequest, CipheredApduProcessor,
\* InMemoryInvocationCounterStore::ValidateRemoteForSystemTitle).
THEOREM NoFalseReplayTheorem == Spec => []NoFalseReplay
  <1>1. Init => ReplayInv
    BY InitiallyRising
  <1>2. IndInv /\ IndInv' /\ PassInv /\ ReplayInv /\ [Next]_vars => ReplayInv'
    <2> SUFFICES ASSUME IndInv, IndInv', PassInv, ReplayInv, [Next]_vars PROVE ReplayInv'
      OBVIOUS
    <2>1. CASE UNCHANGED vars
      BY <2>1 DEF vars, ReplayInv, OnlyEarly, ToServerRises, ToClientRises, ServerIsBehind, Untouched,
                  ServerNext, Counted, Gmac
    <2>2. CASE Next
      BY <2>2, ConnectRises, OpenAssociationRises, ReceiveAareRises, ReceiveHlsResponseRises,
         ServiceRises, ReceiveResponseRises, ReleaseAssociationRises, ReceiveRlreRises,
         CloseRises, ReceiveFailsRises, OpenRises, NegotiateRises, AcceptFailsRises,
         RunOnceRises, CloseEndpointRises
         DEF Next
    <2> QED
      BY <2>1, <2>2
  <1>3. ReplayInv => NoFalseReplay
    BY DEF ReplayInv, NoFalseReplay, OnlyEarly
  <1> QED
    BY <1>1, <1>2, <1>3, AssociationInvariant, PassInvariant, PTL DEF Spec

=============================================================================
