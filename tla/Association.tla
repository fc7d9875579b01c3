------------------------------ MODULE Association ------------------------------
(***************************************************************************)
(* The life of an application association: a DlmsClient with its           *)
(* AssociationClient, and a ServerEndpoint with its AssociationServer, on  *)
(* one transport connection after another.  A call of the client that      *)
(* waits for an APDU is two steps: what it sends, and what it does with    *)
(* the APDU it reads, or with the failure to read one.  The server side is *)
(* driven by an application that opens the endpoint, calls RunOnce and     *)
(* closes the endpoint as it likes, with one endpoint for all connections  *)
(* or a new one for each (as ServerListenerRuntime has it).                *)
(*                                                                         *)
(* A challenge is the number of the AARQ or AARE that carries it, as the   *)
(* random bytes of the code differ each time.  A response to a challenge   *)
(* carries the challenge and whether the password or key is the right one. *)
(***************************************************************************)
EXTENDS InvocationCounters, Sequences, FiniteSets

CONSTANTS
  Modes,            \* configurations to start from, a subset of AllModes
  NewEndpoints,     \* may the server use a new endpoint for a connection: set of BOOLEANs
  ClientCounter,    \* DlmsClientOptions::security.invocationCounter
  ServerCounter,    \* EndpointSecurityOptions::invocationCounter
  InvokeIdCount,    \* number of invoke ids, 15 in the code
  MaxConnections,   \* bound: transport connections
  MaxAttempts,      \* bound: calls of OpenAssociation
  MaxCalls,         \* bound: service calls
  MaxFaults         \* bound: reads that time out, data link releases that fail

Authentications == {"None", "LowPassword", "HighPassword", "HighGmac"}

\* genuine: the client has the password or key of the server.
\* dataLink: the client has an HDLC data link of its own to release.
\* direct: the application drives the AssociationClient and the XdlmsClient by
\* itself and may send requests before the third pass.
AllModes ==
  {m \in [auth : Authentications, ciphered : BOOLEAN, genuine : BOOLEAN,
          dataLink : BOOLEAN, direct : BOOLEAN] :
     /\ m.ciphered => m.auth = "HighGmac"
     /\ m.auth = "None" => m.genuine}

ASSUME AssociationAssumption ==
  /\ Modes \subseteq AllModes
  /\ NewEndpoints \subseteq BOOLEAN
  /\ ClientCounter \in 1..(MaxCounter - 1)
  /\ ServerCounter \in 1..(MaxCounter - 2)
  /\ InvokeIdCount \in Nat \ {0}
  /\ MaxConnections \in Nat /\ MaxAttempts \in Nat
  /\ MaxCalls \in Nat /\ MaxFaults \in Nat

\* A call that times out may leave a response behind.  While there are fewer of
\* them than ids none of their ids is due again: with as many as ids the code
\* takes the response to an earlier call for its own.
ASSUME StaleAssumption == MaxFaults < InvokeIdCount

VARIABLES
  mode,       \* the configuration, chosen at the start
  client,     \* DlmsClient and AssociationClient
  server,     \* ServerEndpoint and AssociationServer
  links,      \* the transport connections
  connections, attempts, accepts, calls, faults,   \* how many there were
  accepted,   \* connections on which the server accepted an AARQ
  verified,   \* connections on which it verified the response to its challenge
  served,     \* <<connection, call>> of the requests it carried out
  returned,   \* the last service call that returned Ok
  lastLocal,  \* the last invocation counter the server used
  rolledBack, \* it used one that is not above all it used before
  replayed    \* when an APDU in order was refused for its counter: "early" when
              \* it came in the place of the third pass, "late" otherwise

history == <<accepted, verified, served, returned, lastLocal, rolledBack, replayed>>
vars == <<mode, client, server, links, connections, attempts, accepts, calls,
          faults, accepted, verified, served, returned, lastLocal, rolledBack, replayed>>

Hls == mode.auth \in {"HighPassword", "HighGmac"}
Gmac == mode.auth = "HighGmac"

NewClient ==
  [state |-> "Disconnected", association |-> "Closed", connection |-> 0,
   waits |-> "nothing", invokeId |-> 0, nextInvokeId |-> 1, call |-> 0,
   clientChallenge |-> 0, serverChallenge |-> 0,
   counters |-> NewStore(ClientCounter)]

\* Mutant: the counters of the APDUs start where those of the HLS passes do.
FirstServiceCounter_Same == ServerCounter

\* The counters of the APDUs start above those of the HLS passes.
FirstServiceCounter == ServerCounter + 2

\* context is the connection for which the association context was set.
NewEndpoint ==
  [phase |-> "closed", connection |-> 0, hlsPending |-> FALSE, context |-> 0,
   clientChallenge |-> 0, serverChallenge |-> 0,
   hlsCounters |-> NewStore(ServerCounter),
   counters |-> NewStore(FirstServiceCounter)]

NewLink == [toServer |-> <<>>, toClient |-> <<>>, client |-> "open", server |-> "waiting"]

Init ==
  /\ mode \in Modes
  /\ client = NewClient
  /\ server = NewEndpoint
  /\ links = [k \in 1..MaxConnections |-> [NewLink EXCEPT !.client = "closed"]]
  /\ connections = 0 /\ attempts = 0 /\ accepts = 0 /\ calls = 0 /\ faults = 0
  /\ accepted = {} /\ verified = {} /\ served = {}
  /\ returned = [call |-> 0, connection |-> 0]
  /\ lastLocal = 0 /\ rolledBack = FALSE /\ replayed = {}

-----------------------------------------------------------------------------
(***************************************************************************)
(* APDUs.  A counter is 0 in an APDU that has none.                        *)
(***************************************************************************)
Apdu(kind, invokeId, call, challenge, counter) ==
  [kind |-> kind, invokeId |-> invokeId, call |-> call,
   challenge |-> challenge, counter |-> counter]

Aarq(challenge) == Apdu("aarq", 0, 0, challenge, 0)
Aare(challenge) == Apdu("aare", 0, 0, challenge, 0)
Rlrq == Apdu("rlrq", 0, 0, 0, 0)
Rlre == Apdu("rlre", 0, 0, 0, 0)

\* What SendApdu puts on a connection reaches the other end unless it is closed.
ToServer(k, apdu) ==
  links' = IF links[k].server = "closed" THEN links
           ELSE [links EXCEPT ![k].toServer = Append(@, apdu)]

\* ReadSome has nothing more to give: the other end closed the connection.
ClientReadsEnd == LET l == links[client.connection] IN l.toClient = <<>> /\ l.server = "closed"
ServerReadsEnd == LET l == links[server.connection] IN l.toServer = <<>> /\ l.client = "closed"

\* The calls of the client read from and close the connection this way.
TakenByClient == [links EXCEPT ![client.connection].toClient = Tail(@)]
ClosedByClient(ls, k) ==
  IF k = 0 THEN ls ELSE [ls EXCEPT ![k].client = "closed", ![k].toClient = <<>>]

-----------------------------------------------------------------------------
(***************************************************************************)
(* The client.                                                             *)
(***************************************************************************)
Idle == client.waits = "nothing"

\* A data link that does not come up closes the association client again.
Connect ==
  /\ Idle /\ client.state = "Disconnected"
  /\ connections < MaxConnections
  /\ connections' = connections + 1
  /\ \/ /\ links' = [links EXCEPT ![connections'] = NewLink]
        /\ client' = [client EXCEPT !.state = "Connected", !.association = "Open",
                                    !.connection = connections']
        /\ UNCHANGED faults
     \/ /\ mode.dataLink /\ faults < MaxFaults
        /\ faults' = faults + 1
        /\ UNCHANGED <<client, links>>
  /\ UNCHANGED <<mode, server, attempts, accepts, calls, history>>

\* InvokeIdAllocator: ids go from 1 to InvokeIdCount and round again.
NextInvokeId(n) ==
  LET next == (n + 1) % (InvokeIdCount + 1) IN IF next = 0 THEN 1 ELSE next

\* AssociationClient::Establish, up to the AARQ it sends.
Establish ==
  /\ client.association = "Open"
  /\ client' = [client EXCEPT !.association = "Associating", !.waits = "aare",
                              !.clientChallenge = IF Hls THEN attempts' ELSE 0]
  /\ ToServer(client.connection, Aarq(client'.clientChallenge))

\* The third pass: the response to the challenge of the AARE.  With ciphering
\* it is sent by an XdlmsClient of its own, whose first invoke id is 1.
ReplyToChallenge(c, ls) ==
  LET id == IF mode.ciphered THEN 1 ELSE c.nextInvokeId
      counter == IF Gmac THEN c.counters.nextLocal ELSE 0
      reply == Apdu("hls", id, 0, c.serverChallenge, counter)
      k == c.connection
  IN IF Gmac /\ IsExhausted(c.counters)
     THEN /\ client' = [c EXCEPT !.waits = "nothing"]
          /\ links' = ls
     ELSE /\ client' = [c EXCEPT !.waits = "hls", !.invokeId = id,
                                 !.nextInvokeId = IF mode.ciphered THEN @ ELSE NextInvokeId(@),
                                 !.counters = IF Gmac THEN TakeLocal(@) ELSE @]
          /\ links' = IF ls[k].server = "closed" THEN ls
                      ELSE [ls EXCEPT ![k].toServer = Append(@, reply)]

\* Mutant: AlreadyAssociated ends the call.
ResumeAssociation_AsDone ==
  /\ client.association = "Associated"
  /\ client' = [client EXCEPT !.state = "Associated"]
  /\ UNCHANGED links

\* AlreadyAssociated is mapped to Ok, so that a second call goes on with the
\* third pass when the first one failed there.
ResumeAssociation ==
  Hls /\ client.association = "Associated" /\ ReplyToChallenge(client, links)

OpenAssociation ==
  /\ Idle /\ client.state = "Connected"
  /\ attempts < MaxAttempts
  /\ attempts' = attempts + 1
  /\ Establish \/ ResumeAssociation
  /\ UNCHANGED <<mode, server, connections, accepts, calls, faults, history>>

ReceiveAare ==
  /\ client.waits = "aare" /\ links[client.connection].toClient # <<>>
  /\ LET apdu == Head(links[client.connection].toClient)
         associated == [client EXCEPT !.association = "Associated",
                                      !.serverChallenge = apdu.challenge]
     IN IF apdu.kind # "aare"
        THEN /\ client' = [client EXCEPT !.association = "Open", !.waits = "nothing"]
             /\ links' = TakenByClient
        ELSE IF Hls /\ ~mode.direct THEN ReplyToChallenge(associated, TakenByClient)
             ELSE /\ client' = [associated EXCEPT !.waits = "nothing",
                                  !.state = IF Hls THEN @ ELSE "Associated"]
                  /\ links' = TakenByClient
  /\ UNCHANGED <<mode, server, connections, attempts, accepts, calls, faults, history>>

Refused(moment, isRefused) ==
  replayed' = IF isRefused THEN replayed \cup {moment} ELSE replayed

\* VerifyResponse checks the tag, then the counter.
ReceiveHlsResponse ==
  /\ client.waits = "hls" /\ links[client.connection].toClient # <<>>
  /\ LET apdu == Head(links[client.connection].toClient)
         authentic == /\ apdu.kind = "hlsResponse" /\ apdu.invokeId = client.invokeId
                      /\ apdu.challenge = client.clientChallenge
         fresh == Gmac => AcceptsRemote(client.counters, apdu.counter)
     IN /\ client' = IF authentic /\ fresh
                     THEN [client EXCEPT !.state = "Associated", !.waits = "nothing",
                             !.counters = IF Gmac THEN StoreRemote(@, apdu.counter) ELSE @]
                     ELSE [client EXCEPT !.waits = "nothing"]
        /\ Refused("late", authentic /\ ~fresh)
  /\ links' = TakenByClient
  /\ UNCHANGED <<mode, server, connections, attempts, accepts, calls, faults,
                 accepted, verified, served, returned, lastLocal, rolledBack>>

\* A GET, SET or ACTION.  The invoke id is taken before the APDU is protected.
Service ==
  /\ Idle /\ (mode.direct \/ client.state = "Associated")
  /\ client.association = "Associated"
  /\ calls < MaxCalls
  /\ calls' = calls + 1
  /\ IF mode.ciphered /\ IsExhausted(client.counters)
     THEN /\ client' = [client EXCEPT !.nextInvokeId = NextInvokeId(@)]
          /\ UNCHANGED links
     ELSE /\ ToServer(client.connection,
                      Apdu("request", client.nextInvokeId, calls', 0,
                           IF mode.ciphered THEN client.counters.nextLocal ELSE 0))
          /\ client' = [client EXCEPT !.waits = "response", !.call = calls',
                          !.invokeId = client.nextInvokeId,
                          !.nextInvokeId = NextInvokeId(@),
                          !.counters = IF mode.ciphered THEN TakeLocal(@) ELSE @]
  /\ UNCHANGED <<mode, server, connections, attempts, accepts, faults, history>>

\* Mutant: the invoke id of a response is not looked at.
IsMyResponse_AnyInvokeId(apdu) == apdu.kind = "response"

IsMyResponse(apdu) == apdu.kind = "response" /\ apdu.invokeId = client.invokeId

\* Unprotect, then the checks of the xDLMS client.
ReceiveResponse ==
  /\ client.waits = "response" /\ links[client.connection].toClient # <<>>
  /\ LET apdu == Head(links[client.connection].toClient)
         authentic == mode.ciphered => apdu.counter # 0 /\ apdu.kind = "response"
         fresh == mode.ciphered => AcceptsRemote(client.counters, apdu.counter)
     IN /\ client' = [client EXCEPT !.waits = "nothing",
                        !.counters = IF mode.ciphered /\ authentic /\ fresh
                                     THEN StoreRemote(@, apdu.counter) ELSE @]
        /\ Refused("late", authentic /\ ~fresh)
        /\ returned' = IF authentic /\ fresh /\ IsMyResponse(apdu)
                       THEN [call |-> client.call, connection |-> client.connection]
                       ELSE returned
  /\ links' = TakenByClient
  /\ UNCHANGED <<mode, server, connections, attempts, accepts, calls, faults,
                 accepted, verified, served, lastLocal, rolledBack>>

ReleaseAssociation ==
  /\ Idle /\ client.state = "Associated"
  /\ client.association = "Associated"
  /\ ToServer(client.connection, Rlrq)
  /\ client' = [client EXCEPT !.waits = "rlre"]
  /\ UNCHANGED <<mode, server, connections, attempts, accepts, calls, faults, history>>

\* The end of ReleaseAssociation, and Close: the data link is released, which
\* may fail, and the association client closed; only if both went well is the
\* facade disconnected.
CloseFacade(ls) ==
  /\ links' = ClosedByClient(ls, client.connection)
  /\ \/ /\ client' = [client EXCEPT !.state = "Disconnected", !.association = "Closed",
                                    !.connection = 0, !.waits = "nothing"]
        /\ UNCHANGED faults
     \/ /\ mode.dataLink /\ client.connection # 0 /\ faults < MaxFaults
        /\ client' = [client EXCEPT !.association = "Closed", !.connection = 0,
                                    !.waits = "nothing"]
        /\ faults' = faults + 1

ReceiveRlre ==
  /\ client.waits = "rlre" /\ links[client.connection].toClient # <<>>
  /\ IF Head(links[client.connection].toClient).kind = "rlre"
     THEN CloseFacade(TakenByClient)
     ELSE /\ client' = [client EXCEPT !.waits = "nothing"]
          /\ links' = TakenByClient
          /\ UNCHANGED faults
  /\ UNCHANGED <<mode, server, connections, attempts, accepts, calls, history>>

Close ==
  /\ Idle /\ client.state # "Disconnected"
  /\ CloseFacade(links)
  /\ UNCHANGED <<mode, server, connections, attempts, accepts, calls, history>>

\* ReceiveApdu fails: at the end of the connection, or by a timeout.
ReceiveFails ==
  /\ ~Idle
  /\ \/ ClientReadsEnd /\ UNCHANGED faults
     \/ faults < MaxFaults /\ faults' = faults + 1
  /\ client' = [client EXCEPT !.waits = "nothing",
                  !.association = IF client.waits = "aare" THEN "Open" ELSE @]
  /\ UNCHANGED <<mode, server, links, connections, attempts, accepts, calls, history>>

-----------------------------------------------------------------------------
(***************************************************************************)
(* The server.  Send is what a step sends on its connection and leaves of  *)
(* it: the APDU it read is gone.                                           *)
(***************************************************************************)
ReadByServer(apdus) ==
  LET k == server.connection
  IN [links EXCEPT ![k].toServer = Tail(@),
                   ![k].toClient = IF links[k].client = "open" THEN @ \o apdus ELSE @]

ClosedByServer(ls) ==
  [ls EXCEPT ![server.connection].server = "closed", ![server.connection].toServer = <<>>]

UseCounter(counter) ==
  /\ lastLocal' = counter
  /\ rolledBack' = (rolledBack \/ counter <= lastLocal)

\* ServerEndpoint::Open opens the channel of a connection and waits for an AARQ.
Open ==
  /\ server.phase = "closed"
  /\ \E k \in 1..connections :
       /\ links[k].server = "waiting"
       /\ \A j \in 1..(k - 1) : links[j].server # "waiting"
       /\ \E new \in NewEndpoints :
            server' = [(IF new THEN NewEndpoint ELSE server) EXCEPT
                         !.phase = "accepting", !.connection = k]
       /\ links' = [links EXCEPT ![k].server = "open"]
  /\ UNCHANGED <<mode, client, connections, attempts, accepts, calls, faults, history>>

\* Mutant: an earlier context is not cleared.
AcceptedContext_Kept(k) == IF Hls THEN server.context ELSE k

\* With HLS there is no context before the third pass.
AcceptedContext(k) == IF Hls THEN 0 ELSE k

\* NegotiateAssociation: the HLS strategy and its counters are made anew, the
\* AARQ is decoded and answered.  The processor of the APDUs stays.
NegotiateAssociation ==
  /\ server.phase = "accepting" /\ links[server.connection].toServer # <<>>
  /\ LET aarq == Head(links[server.connection].toServer)
         k == server.connection
         right == mode.auth = "LowPassword" => mode.genuine
     IN \/ /\ aarq.kind = "aarq" /\ right
           /\ accepts' = accepts + 1
           /\ server' = [server EXCEPT !.phase = "open", !.hlsPending = Hls,
                           !.context = AcceptedContext(k),
                           !.clientChallenge = aarq.challenge,
                           !.serverChallenge = IF Hls THEN accepts' ELSE 0,
                           !.hlsCounters = NewStore(ServerCounter)]
           /\ links' = ReadByServer(<<Aare(server'.serverChallenge)>>)
           /\ accepted' = accepted \cup {k}
        \/ /\ \/ aarq.kind # "aarq" \/ ~right
              \/ links[k].client = "closed"   \* the AARE cannot be sent
           /\ links' = ClosedByServer(links)
           /\ server' = [server EXCEPT !.phase = "closed"]
           /\ UNCHANGED <<accepts, accepted>>
  /\ UNCHANGED <<mode, client, connections, attempts, calls, faults, verified, served,
                 returned, lastLocal, rolledBack, replayed>>

\* No AARQ comes: Open closes the channel.
AcceptFails ==
  /\ server.phase = "accepting"
  /\ \/ ServerReadsEnd /\ UNCHANGED faults
     \/ faults < MaxFaults /\ faults' = faults + 1
  /\ links' = ClosedByServer(links)
  /\ server' = [server EXCEPT !.phase = "closed"]
  /\ UNCHANGED <<mode, client, connections, attempts, accepts, calls, history>>

\* AssociationServer::Release; if the RLRE cannot be sent nothing is released.
HandleRelease ==
  \/ /\ links' = ClosedByServer(ReadByServer(<<Rlre>>))
     /\ server' = [server EXCEPT !.phase = "closed", !.hlsPending = FALSE, !.context = 0]
  \/ /\ links[server.connection].client = "closed"
     /\ links' = ReadByServer(<<>>)
     /\ UNCHANGED server

\* HandleHlsReply: the response of the client is verified and answered, and the
\* context set.  The answer is not protected.
HandleHlsReply(apdu) ==
  LET authentic == mode.genuine /\ apdu.challenge = server.serverChallenge
      fresh == Gmac => AcceptsRemote(server.hlsCounters, apdu.counter)
      noted == IF Gmac /\ authentic /\ fresh
               THEN StoreRemote(server.hlsCounters, apdu.counter) ELSE server.hlsCounters
      counter == IF Gmac THEN noted.nextLocal ELSE 0
  IN /\ Refused("late", authentic /\ ~fresh)
     /\ IF authentic /\ fresh /\ ~(Gmac /\ IsExhausted(noted))
        THEN /\ server' = [server EXCEPT !.hlsPending = FALSE,
                             !.context = server.connection,
                             !.hlsCounters = IF Gmac THEN TakeLocal(noted) ELSE noted]
             /\ links' = ReadByServer(<<Apdu("hlsResponse", apdu.invokeId, 0,
                                             server.clientChallenge, counter)>>)
             /\ verified' = verified \cup {server.connection}
             /\ IF Gmac THEN UseCounter(counter) ELSE UNCHANGED <<lastLocal, rolledBack>>
        ELSE /\ server' = [server EXCEPT !.hlsCounters = noted]
             /\ links' = ReadByServer(<<>>)
             /\ UNCHANGED <<verified, lastLocal, rolledBack>>

\* What CipheredApduProcessor::Unprotect leaves of the counters: the counter of
\* a request that is protected with the right key, and new, is noted.
Unprotected(counters, apdu) ==
  IF /\ mode.ciphered /\ mode.genuine /\ apdu.kind = "request"
     /\ AcceptsRemote(counters, apdu.counter)
  THEN StoreRemote(counters, apdu.counter) ELSE counters

\* While a third pass is due HandleHlsReply unprotects every APDU first, to see
\* whether it is the one, and leaves the others as they came.
SeenCounters(apdu) ==
  IF server.hlsPending THEN Unprotected(server.counters, apdu) ELSE server.counters

\* ProcessRequest and the service dispatcher, which refuses a request without
\* an association context; what is refused gets no response.
ProcessRequest(apdu) ==
  LET seen == SeenCounters(apdu)
      authentic == mode.ciphered => mode.genuine /\ apdu.kind = "request"
      fresh == mode.ciphered => AcceptsRemote(seen, apdu.counter)
      noted == Unprotected(seen, apdu)
      carriedOut == /\ authentic /\ fresh
                    /\ apdu.kind \in {"request", "hls"} /\ server.context # 0
      answers == carriedOut /\ ~(mode.ciphered /\ IsExhausted(noted))
      counter == IF mode.ciphered THEN noted.nextLocal ELSE 0
      response == Apdu(IF apdu.kind = "request" THEN "response" ELSE "actionResponse",
                       apdu.invokeId, apdu.call, 0, counter)
  IN /\ Refused(IF server.hlsPending THEN "early" ELSE "late", authentic /\ ~fresh)
     /\ served' = IF carriedOut /\ apdu.kind = "request"
                  THEN served \cup {<<server.connection, apdu.call>>} ELSE served
     /\ IF answers
        THEN /\ server' = [server EXCEPT !.counters =
                             IF mode.ciphered THEN TakeLocal(noted) ELSE noted]
             /\ links' = ReadByServer(<<response>>)
             /\ IF mode.ciphered THEN UseCounter(counter)
                                 ELSE UNCHANGED <<lastLocal, rolledBack>>
        ELSE /\ server' = [server EXCEPT !.counters = noted]
             /\ links' = ReadByServer(<<>>)
             /\ UNCHANGED <<lastLocal, rolledBack>>

RunOnce ==
  /\ server.phase = "open" /\ links[server.connection].toServer # <<>>
  /\ LET apdu == Head(links[server.connection].toServer)
     IN \/ /\ apdu.kind = "rlrq" /\ HandleRelease
           /\ UNCHANGED <<verified, served, lastLocal, rolledBack, replayed>>
        \/ /\ apdu.kind = "hls" /\ server.hlsPending /\ HandleHlsReply(apdu)
           /\ UNCHANGED served
        \/ /\ apdu.kind # "rlrq" /\ ~(apdu.kind = "hls" /\ server.hlsPending)
           /\ ProcessRequest(apdu)
           /\ UNCHANGED verified
  /\ UNCHANGED <<mode, client, connections, attempts, accepts, calls, faults,
                 accepted, returned>>

\* Close leaves the association context, the processor and its counters.
CloseEndpoint ==
  /\ server.phase = "open"
  /\ links' = ClosedByServer(links)
  /\ server' = [server EXCEPT !.phase = "closed", !.hlsPending = FALSE]
  /\ UNCHANGED <<mode, client, connections, attempts, accepts, calls, faults, history>>

-----------------------------------------------------------------------------
Next ==
  \/ Connect \/ OpenAssociation \/ ReceiveAare \/ ReceiveHlsResponse
  \/ Service \/ ReceiveResponse \/ ReleaseAssociation \/ ReceiveRlre
  \/ Close \/ ReceiveFails
  \/ Open \/ NegotiateAssociation \/ AcceptFails \/ RunOnce \/ CloseEndpoint

Spec == Init /\ [][Next]_vars

-----------------------------------------------------------------------------
(***************************************************************************)
(* Properties.                                                             *)
(***************************************************************************)
Apdus ==
  [kind : {"aarq", "aare", "rlrq", "rlre", "hls", "hlsResponse", "request",
           "response", "actionResponse"},
   invokeId : 0..InvokeIdCount, call : Nat, challenge : Nat, counter : Counters]

Client ==
  [state : {"Disconnected", "Connected", "Associated"},
   association : {"Closed", "Open", "Associating", "Associated"},
   connection : 0..MaxConnections,
   waits : {"nothing", "aare", "hls", "response", "rlre"},
   invokeId : 0..InvokeIdCount, nextInvokeId : 1..InvokeIdCount, call : Nat,
   clientChallenge : Nat, serverChallenge : Nat, counters : Store]

Endpoint ==
  [phase : {"closed", "accepting", "open"}, connection : 0..MaxConnections,
   hlsPending : BOOLEAN, context : 0..MaxConnections,
   clientChallenge : Nat, serverChallenge : Nat, hlsCounters : Store, counters : Store]

Link ==
  [toServer : Seq(Apdus), toClient : Seq(Apdus), client : {"open", "closed"},
   server : {"waiting", "open", "closed"}]

\* Client, endpoint and connections are well-formed, whoever waits for an APDU
\* has a connection, and no counter is used past its end.
TypeOK ==
  /\ mode \in Modes
  /\ client \in Client
  /\ client.association # "Closed" \/ client.waits # "nothing" => client.connection # 0
  /\ server \in Endpoint
  /\ server.phase # "closed" => server.connection # 0
  /\ links \in [1..MaxConnections -> Link]
  /\ connections \in 0..MaxConnections
  /\ attempts \in Nat /\ accepts \in Nat /\ calls \in Nat

\* The server carries out a request only for a client that proved to have the
\* password or key on the same connection: no association context survives the
\* connection it was made for, nor is one set before the third pass succeeds
\* (ServerEndpoint::NegotiateAssociation, HandleHlsReply, Close).
AuthenticatedService ==
  \A s \in served :
     /\ s[1] \in accepted
     /\ mode.genuine
     /\ Hls => s[1] \in verified

\* A facade that reports Associated is on a connection on which the server
\* accepted the association and, with HLS, verified the client; both sides hold
\* the same secret (DlmsClient::OpenAssociation, after any number of retries).
AssociatedMeansAuthenticated ==
  client.state = "Associated" /\ client.connection # 0 =>
    /\ client.connection \in accepted
    /\ mode.genuine
    /\ Hls => client.connection \in verified

\* A service call that returns Ok was carried out by the server: while fewer
\* calls failed than there are invoke ids, no late response to an earlier one is
\* taken for its own (XdlmsClient, which looks at the invoke id alone).
OkMeansServed ==
  returned.call # 0 => <<returned.connection, returned.call>> \in served

\* Within the first association no APDU that arrives in order is refused as a
\* replay, though the HLS passes and the APDUs take their counters from two
\* stores of the server and one of the client.  The one exception is met only
\* by an application that skips the facade: a protected request it sends in the
\* place of the third pass is unprotected twice, by HandleHlsReply and by
\* ProcessRequest, and the second time its counter is known.
NoFalseReplay ==
  accepts <= 1 =>
    replayed \subseteq (IF mode.direct /\ mode.ciphered THEN {"early"} ELSE {})

\* "The local invocation counter ... must be monotonically increasing across
\* the entire lifetime": the server never uses a counter again.
CountersOnlyGrow == ~rolledBack

=============================================================================
