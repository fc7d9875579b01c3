-------------------------- MODULE HdlcStationProofs --------------------------
(***************************************************************************)
(* The properties of HdlcStation for every role, every choice of limits    *)
(* with windows of at most 7 and every peer.                               *)
(***************************************************************************)
EXTENDS HdlcStation, HdlcSessionLemmas

\* The history counters are what the three-bit sequence variables count.
CountersAgree ==
  /\ session.sendSequence = sent % 8
  /\ session.acknowledgeSequence = acked % 8

\* The window is respected by the true counters, not only by their residues.
WindowRespected ==
  /\ acked <= sent
  /\ sent - acked <= session.windowSizeTransmit
  /\ session.windowSizeTransmit <= 7

\* The options never change, and only a client waits for a UA to its SNRM.
RoleFixed ==
  /\ session.local = Normalise(Limits)
  /\ session.role = "server" => session.state # "AwaitingConnection"

\* The inductive strengthening of the properties.
IndInv ==
  /\ TypeOK
  /\ CountersAgree
  /\ WindowRespected
  /\ RoleFixed
  /\ FreshWhenNotConnected
  /\ ConnectAnswerOnlyWhenDown
  /\ ServerWithinCapability

USE DEF Roles, SessionStates, SequenceNumbers, kDefaultMaxInfoFieldLength,
        kDefaultWindowSize, kNegotiationBlockSize

-----------------------------------------------------------------------------
\* A constructed session satisfies the invariant.
LEMMA InitEstablishes == Init => IndInv
  <1> SUFFICES ASSUME Init PROVE IndInv
    OBVIOUS
  <1> USE LimitsAssumption, CodecAssumption, WindowAssumption
  <1>1. Normalise(Limits) \in NegotiationLimits /\ Normalise(Limits).windowTransmit <= 7
    BY DEF Normalise, NegotiationLimits
  <1>2. TypeOK
    BY <1>1 DEF Init, TypeOK, NewSession, Session, DefaultSnrmParams, SnrmParams, NegotiationLimits
  <1>3. CountersAgree /\ WindowRespected /\ RoleFixed
    BY <1>1 DEF Init, CountersAgree, WindowRespected, RoleFixed, NewSession, NegotiationLimits
  <1>4. FreshWhenNotConnected /\ ConnectAnswerOnlyWhenDown
    BY DEF Init, FreshWhenNotConnected, ConnectAnswerOnlyWhenDown, NewSession
  <1>5. ServerWithinCapability
    BY <1>1 DEF Init, ServerWithinCapability, NewSession, NegotiationLimits
  <1> QED
    BY <1>2, <1>3, <1>4, <1>5 DEF IndInv


\* Normalisation keeps the windows three bits wide.
LEMMA NormalisedLimits ==
  Normalise(Limits) \in NegotiationLimits /\ Normalise(Limits).windowTransmit <= 7
  BY LimitsAssumption, WindowAssumption DEF Normalise, NegotiationLimits

-----------------------------------------------------------------------------
(***************************************************************************)
(* The two shapes of step that preserve the invariant: entering a state    *)
(* with fresh counters, and changing nothing the counters depend on.       *)
(***************************************************************************)

\* What a session must satisfy for the invariant to hold once its sequence
\* variables are reset.
Resettable(s) ==
  /\ s \in Session
  /\ s.local = Normalise(Limits)
  /\ s.role = "server" => s.state # "AwaitingConnection"
  /\ s.windowSizeTransmit <= 7
  /\ s.connectResponsePending => s.role = "server" /\ s.state = "Disconnected"
  /\ s.role = "server" =>
       /\ s.negotiated.maxTransmit <= s.local.maxTransmit
       /\ s.negotiated.maxReceive <= s.local.maxReceive
       /\ s.negotiated.windowTransmit <= s.local.windowTransmit
       /\ s.negotiated.windowReceive <= s.local.windowReceive

\* A call that resets the sequence variables establishes the invariant.
LEMMA ResetEstablishes ==
  ASSUME NEW s, Resettable(s), session' = ResetSequences(s), sent' = 0, acked' = 0
  PROVE  IndInv'
  <1>1. s \in Session
    BY DEF Resettable
  <1>2. session'.windowSizeTransmit \in Nat
    BY <1>1, ResetFields DEF Session
  <1>3. TypeOK' /\ CountersAgree' /\ FreshWhenNotConnected'
    BY <1>1, ResetFields DEF TypeOK, CountersAgree, FreshWhenNotConnected
  <1>4. WindowRespected' /\ RoleFixed'
    BY <1>1, <1>2, ResetFields DEF Resettable, WindowRespected, RoleFixed
  <1>5. ConnectAnswerOnlyWhenDown' /\ ServerWithinCapability'
    BY <1>1, ResetFields DEF Resettable, ConnectAnswerOnlyWhenDown, ServerWithinCapability
  <1> QED
    BY <1>3, <1>4, <1>5 DEF IndInv

\* The invariant is enough for such a call.
LEMMA InvariantIsResettable == ASSUME IndInv PROVE Resettable(session)
  BY DEF IndInv, Resettable, TypeOK, RoleFixed, WindowRespected,
         ConnectAnswerOnlyWhenDown, ServerWithinCapability

\* A step that may raise a pending flag or start a disconnect.
LEMMA QuietStep ==
  ASSUME IndInv, NEW s \in Session,
         session' = s, sent' = sent, acked' = acked,
         s.role = session.role, s.local = session.local,
         s.negotiated = session.negotiated,
         s.windowSizeTransmit = session.windowSizeTransmit,
         s.sendSequence = session.sendSequence,
         s.receiveSequence = session.receiveSequence,
         s.acknowledgeSequence = session.acknowledgeSequence,
         s.connectResponsePending = session.connectResponsePending,
         \/ s.state = session.state
         \/ session.state = "Connected" /\ s.state = "AwaitingDisconnect"
  PROVE  IndInv'
  <1>1. TypeOK' /\ CountersAgree' /\ WindowRespected'
    BY DEF IndInv, TypeOK, CountersAgree, WindowRespected
  <1>2. RoleFixed' /\ ServerWithinCapability'
    BY DEF IndInv, RoleFixed, ServerWithinCapability
  <1>3. FreshWhenNotConnected' /\ ConnectAnswerOnlyWhenDown'
    BY DEF IndInv, FreshWhenNotConnected, ConnectAnswerOnlyWhenDown
  <1> QED
    BY <1>1, <1>2, <1>3 DEF IndInv

\* A refused call changes nothing.
LEMMA StutterPreserves ==
  ASSUME IndInv, UNCHANGED vars
  PROVE  IndInv'
  BY QuietStep DEF vars, IndInv, TypeOK

-----------------------------------------------------------------------------
(***************************************************************************)
(* One lemma per operation.                                                *)
(***************************************************************************)
LEMMA ConnectRequestPreserves ==
  ASSUME IndInv, NEW include, NEW size,
         ResettingCall(BuildConnectRequestInternal(session, include, size))
  PROVE  IndInv'
  <1> DEFINE r == BuildConnectRequestInternal(session, include, size)
             s == [session EXCEPT !.state = "AwaitingConnection"]
  <1>1. CASE r.status = "Ok"
    <2>1. session.role = "client" /\ session.state = "Disconnected" /\ r.session = ResetSequences(s)
      BY <1>1 DEF BuildConnectRequestInternal, NoOutput, Result
    <2>2. session' = ResetSequences(s) /\ sent' = 0 /\ acked' = 0
      BY <1>1, <2>1 DEF ResettingCall
    <2>3. Resettable(s)
      BY <2>1, InvariantIsResettable DEF Resettable, Session
    <2> QED
      BY <2>2, <2>3, ResetEstablishes
  <1>2. CASE r.status # "Ok"
    <2>1. r.session = session
      BY <1>2 DEF BuildConnectRequestInternal, NoOutput, Result
    <2> QED
      BY <1>2, <2>1, StutterPreserves DEF ResettingCall, vars
  <1> QED
    BY <1>1, <1>2

\* BuildConnectResponse, refused or not.
LEMMA ConnectResponsePreserves ==
  ASSUME IndInv, ConnectResponse
  PROVE  IndInv'
  <1> DEFINE r == BuildConnectResponse(session)
             n == NegotiateParams(session.pending, session.local)
             adopted == IF session.pendingActive
                        THEN AdoptNegotiation(session, n.maxInfoRx, n.maxInfoTx,
                                              n.windowRx, n.windowTx)
                        ELSE session
             s1 == [adopted EXCEPT !.state = "Connected"]
             s2 == [s1 EXCEPT !.connectResponsePending = FALSE]
             s3 == [s2 EXCEPT !.pendingActive = FALSE]
  <1>0. session \in Session /\ session.pending \in SnrmParams /\ session.local \in NegotiationLimits
    BY DEF IndInv, TypeOK, Session
  <1>1. /\ n.maxInfoTx \in Nat /\ n.maxInfoTx <= session.local.maxReceive
        /\ n.maxInfoRx \in Nat /\ n.maxInfoRx <= session.local.maxTransmit
        /\ n.windowTx \in Nat /\ n.windowTx <= session.local.windowReceive
        /\ n.windowRx \in Nat /\ n.windowRx <= session.local.windowTransmit
    BY <1>0, NegotiateFields DEF SnrmParams
  <1>2. session.local.windowTransmit <= 7 /\ session.local.windowTransmit \in Nat
        /\ session.local.windowReceive \in Nat
    BY <1>0, NormalisedLimits DEF IndInv, RoleFixed, NegotiationLimits
  <1> HIDE DEF n
  <1>3. ASSUME session.connectResponsePending
        PROVE  /\ Resettable(adopted)
               /\ adopted.state = session.state
               /\ adopted.sendSequence = session.sendSequence
               /\ adopted.receiveSequence = session.receiveSequence
               /\ adopted.acknowledgeSequence = session.acknowledgeSequence
    <2>1. CASE ~session.pendingActive
      BY <2>1, InvariantIsResettable
    <2>2. CASE session.pendingActive
      <3> DEFINE m == AdoptNegotiation(session, n.maxInfoRx, n.maxInfoTx,
                                       n.windowRx, n.windowTx)
      <3>0. m \in Session
        BY <1>0, <1>1, AdoptType
      <3>1. /\ m.negotiated.maxTransmit = n.maxInfoRx
            /\ m.negotiated.maxReceive = n.maxInfoTx
            /\ m.negotiated.windowTransmit = n.windowRx % 256
            /\ m.negotiated.windowReceive = n.windowTx % 256
            /\ m.windowSizeTransmit = n.windowRx % 256
            /\ m.role = session.role /\ m.local = session.local /\ m.state = session.state
            /\ m.connectResponsePending = session.connectResponsePending
            /\ m.sendSequence = session.sendSequence
            /\ m.receiveSequence = session.receiveSequence
            /\ m.acknowledgeSequence = session.acknowledgeSequence
        BY <1>0, AdoptFields
      <3> HIDE DEF m
      <3>2. n.windowRx % 256 <= n.windowRx /\ n.windowTx % 256 <= n.windowTx
            /\ n.windowRx % 256 \in Nat /\ n.windowTx % 256 \in Nat
        BY <1>1
      <3>3. Resettable(m)
        BY <1>1, <1>2, <3>0, <3>1, <3>2, InvariantIsResettable DEF Resettable
      <3> QED
        BY <2>2, <3>0, <3>1, <3>3 DEF m
    <2> QED
      BY <2>1, <2>2
  <1>4. CASE r.status = "Ok"
    <2>1. session.role = "server" /\ session.connectResponsePending
          /\ r.session = ResetSequences(s3)
      BY <1>4 DEF BuildConnectResponse, NoOutput, Result, n
    <2>2. session' = ResetSequences(s3) /\ sent' = 0 /\ acked' = 0
      BY <1>4, <2>1 DEF ConnectResponse, ResettingCall
    <2>3. Resettable(adopted)
      BY <1>3, <2>1
    <2> HIDE DEF adopted
    <2>4. s1 \in Session
      BY <2>3 DEF Resettable, Session
    <2>5. s2 \in Session
      <3> HIDE DEF s1
      <3> QED BY <2>4 DEF Session
    <2>6. s3 \in Session
      <3> HIDE DEF s2
      <3> QED BY <2>5 DEF Session
    <2>7. /\ s3.role = adopted.role /\ s3.local = adopted.local /\ s3.state = "Connected"
          /\ s3.negotiated = adopted.negotiated
          /\ s3.windowSizeTransmit = adopted.windowSizeTransmit
          /\ s3.connectResponsePending = FALSE
      BY <2>3 DEF Resettable, Session
    <2> HIDE DEF s3
    <2>8. Resettable(s3)
      BY <2>3, <2>6, <2>7 DEF Resettable
    <2> QED
      BY <2>2, <2>8, ResetEstablishes
  <1>5. CASE r.status # "Ok" /\ r.session = session
    BY <1>5, StutterPreserves DEF ConnectResponse, ResettingCall, vars
  <1>6. CASE r.status # "Ok" /\ r.session # session
    <2>1. session.connectResponsePending /\ r.session = adopted
      BY <1>6 DEF BuildConnectResponse, NoOutput, Result, n
    <2>2. session' = adopted /\ sent' = sent /\ acked' = acked
      BY <1>6, <2>1 DEF ConnectResponse, ResettingCall
    <2>3. /\ Resettable(adopted)
          /\ adopted.state = session.state
          /\ adopted.sendSequence = session.sendSequence
          /\ adopted.receiveSequence = session.receiveSequence
          /\ adopted.acknowledgeSequence = session.acknowledgeSequence
      BY <1>3, <2>1
    <2> HIDE DEF adopted
    <2>4. session.state = "Disconnected" /\ sent = 0 /\ acked = 0
          /\ session.sendSequence = 0 /\ session.receiveSequence = 0
          /\ session.acknowledgeSequence = 0
      BY <2>1 DEF IndInv, ConnectAnswerOnlyWhenDown, FreshWhenNotConnected
    <2>5. adopted.windowSizeTransmit \in Nat
      BY <2>3 DEF Resettable, Session
    <2>6. TypeOK' /\ CountersAgree' /\ WindowRespected'
      BY <2>2, <2>3, <2>4, <2>5 DEF TypeOK, CountersAgree, WindowRespected, Resettable
    <2>7. RoleFixed' /\ FreshWhenNotConnected' /\ ConnectAnswerOnlyWhenDown' /\ ServerWithinCapability'
      BY <2>2, <2>3, <2>4 DEF RoleFixed, FreshWhenNotConnected, ConnectAnswerOnlyWhenDown,
                              ServerWithinCapability, Resettable
    <2> QED
      BY <2>6, <2>7 DEF IndInv
  <1> QED
    BY <1>4, <1>5, <1>6

\* BuildDisconnectRequest, refused or not.
LEMMA DisconnectRequestPreserves ==
  ASSUME IndInv, DisconnectRequest
  PROVE  IndInv'
  <1> DEFINE s == [session EXCEPT !.state = "AwaitingDisconnect"]
  <1>1. CASE session.state = "Connected"
    <2>1. session' = s /\ sent' = sent /\ acked' = acked
      BY <1>1 DEF DisconnectRequest, PlainCall, BuildDisconnectRequest, Result
    <2>2. s \in Session /\ session \in Session
      BY DEF IndInv, TypeOK, Session
    <2> QED
      BY <1>1, <2>1, <2>2, QuietStep DEF Session
  <1>2. CASE session.state # "Connected"
    BY <1>2, StutterPreserves
       DEF DisconnectRequest, PlainCall, BuildDisconnectRequest, NoOutput, Result, vars
  <1> QED
    BY <1>1, <1>2

\* BuildDisconnectResponse, refused or not.
LEMMA DisconnectResponsePreserves ==
  ASSUME IndInv, DisconnectResponse
  PROVE  IndInv'
  <1> DEFINE s1 == [session EXCEPT !.state = "Disconnected"]
             s2 == [s1 EXCEPT !.disconnectResponsePending = FALSE]
  <1>1. CASE session.disconnectResponsePending
    <2>1. session' = ResetSequences(s2) /\ sent' = 0 /\ acked' = 0
      BY <1>1 DEF DisconnectResponse, ResettingCall, BuildDisconnectResponse, Result
    <2>2. session \in Session
      BY DEF IndInv, TypeOK
    <2>3. s1 \in Session
      BY <2>2 DEF Session
    <2>4. s2 \in Session
      <3> HIDE DEF s1
      <3> QED BY <2>3 DEF Session
    <2>5. /\ s2.role = session.role /\ s2.local = session.local
          /\ s2.state = "Disconnected"
          /\ s2.negotiated = session.negotiated
          /\ s2.windowSizeTransmit = session.windowSizeTransmit
          /\ s2.connectResponsePending = session.connectResponsePending
      BY <2>2 DEF Session
    <2> HIDE DEF s2
    <2>6. Resettable(s2)
      BY <2>4, <2>5, InvariantIsResettable DEF Resettable
    <2> QED
      BY <2>1, <2>6, ResetEstablishes
  <1>2. CASE ~session.disconnectResponsePending
    BY <1>2, StutterPreserves
       DEF DisconnectResponse, ResettingCall, BuildDisconnectResponse, NoOutput, Result, vars
  <1> QED
    BY <1>1, <1>2

\* BuildDmResponse, refused or not.
LEMMA DmResponsePreserves ==
  ASSUME IndInv, DmResponse
  PROVE  IndInv'
  <1> DEFINE s == [session EXCEPT !.dmResponsePending = FALSE]
  <1>1. CASE session.dmResponsePending
    <2>1. session' = s /\ sent' = sent /\ acked' = acked
      BY <1>1 DEF DmResponse, PlainCall, BuildDmResponse, Result
    <2>2. s \in Session /\ session \in Session
      BY DEF IndInv, TypeOK, Session
    <2> QED
      BY <2>1, <2>2, QuietStep DEF Session
  <1>2. CASE ~session.dmResponsePending
    BY <1>2, StutterPreserves
       DEF DmResponse, PlainCall, BuildDmResponse, NoOutput, Result, vars
  <1> QED
    BY <1>1, <1>2

\* BuildReceiveReadyFrame, refused or not.
LEMMA ReceiveReadyPreserves ==
  ASSUME IndInv, ReceiveReady
  PROVE  IndInv'
  BY StutterPreserves
     DEF ReceiveReady, PlainCall, BuildReceiveReadyFrame, NoOutput, Result, vars

\* BuildInformationFrame: the window bounds what is sent.
LEMMA SendInformationPreserves ==
  ASSUME IndInv, SendInformation
  PROVE  IndInv'
  <1> PICK size \in InfoSizes :
        LET r == BuildInformationFrame(session, size, NoPayload)
        IN /\ sent < MaxSent
           /\ session' = r.session
           /\ sent' = IF r.status = "Ok" THEN sent + 1 ELSE sent
           /\ UNCHANGED acked
    BY DEF SendInformation
  <1> DEFINE r == BuildInformationFrame(session, size, NoPayload)
             s == [session EXCEPT !.sendSequence = NextSequence(@)]
  <1>0. session \in Session /\ sent \in Nat /\ acked \in Nat
    BY DEF IndInv, TypeOK
  <1>1. CASE r.status # "Ok"
    <2>1. r.session = session
      BY <1>1 DEF BuildInformationFrame, NoOutput, Result
    <2> QED
      BY <1>1, <2>1, StutterPreserves DEF vars
  <1>2. CASE r.status = "Ok"
    <2>1. session.state = "Connected" /\ CanSendInformationFrame(session) /\ r.session = s
      BY <1>2 DEF BuildInformationFrame, NoOutput, Result
    <2>2. session' = s /\ sent' = sent + 1 /\ acked' = acked
      BY <1>2, <2>1
    <2>3. /\ s \in Session
          /\ s.sendSequence = (session.sendSequence + 1) % 8
          /\ s.acknowledgeSequence = session.acknowledgeSequence
          /\ s.windowSizeTransmit = session.windowSizeTransmit
          /\ s.windowSizeTransmit \in Nat
          /\ s.state = session.state /\ s.role = session.role /\ s.local = session.local
          /\ s.negotiated = session.negotiated
          /\ s.connectResponsePending = session.connectResponsePending
      BY <1>0 DEF Session, NextSequence
    <2> HIDE DEF s
    <2>4. CountersAgree'
      BY <1>0, <2>2, <2>3, NextResidue DEF IndInv, CountersAgree
    <2>5. sent - acked < session.windowSizeTransmit
      <3>1. (session.sendSequence - session.acknowledgeSequence) % 8 = sent - acked
        BY <1>0, <2>3, DifferenceOfResidues DEF IndInv, CountersAgree, WindowRespected
      <3> QED
        BY <2>1, <3>1 DEF CanSendInformationFrame, Outstanding
    <2>6. WindowRespected'
      BY <1>0, <2>2, <2>3, <2>5 DEF IndInv, WindowRespected
    <2>7. TypeOK' /\ RoleFixed' /\ FreshWhenNotConnected'
      BY <1>0, <2>1, <2>2, <2>3 DEF IndInv, TypeOK, RoleFixed, FreshWhenNotConnected
    <2>8. ConnectAnswerOnlyWhenDown' /\ ServerWithinCapability'
      BY <2>2, <2>3 DEF IndInv, ConnectAnswerOnlyWhenDown, ServerWithinCapability
    <2> QED
      BY <2>4, <2>6, <2>7, <2>8 DEF IndInv
  <1> QED
    BY <1>1, <1>2

\* An accepted N(R) lies between the true counters, so the history counter
\* advances to it without passing the frames that were sent.
LEMMA AcknowledgeAdvances ==
  ASSUME IndInv, NEW nr \in SequenceNumbers, AcknowledgeInWindow(session, nr)
  PROVE  LET d == (nr - session.acknowledgeSequence) % 8
         IN d \in Nat /\ acked + d <= sent /\ (acked + d) % 8 = nr
  <1>1. sent \in Nat /\ acked \in Nat
    BY DEF IndInv, TypeOK
  <1>2. (session.sendSequence - session.acknowledgeSequence) % 8 = sent - acked
    <2>1. session.windowSizeTransmit \in Nat
      BY DEF IndInv, TypeOK, Session
    <2> QED
      BY <1>1, <2>1, DifferenceOfResidues DEF IndInv, CountersAgree, WindowRespected
  <1>3. (nr - session.acknowledgeSequence) % 8 <= sent - acked
    BY <1>2 DEF AcknowledgeInWindow
  <1>4. (acked + ((nr - session.acknowledgeSequence) % 8)) % 8 = nr
    BY <1>1, AdvanceToResidue DEF IndInv, CountersAgree
  <1>5. (nr - session.acknowledgeSequence) % 8 \in Nat
    <2>1. session.acknowledgeSequence \in 0..7
      BY DEF IndInv, TypeOK, Session
    <2> QED
      BY <2>1
  <1> QED
    BY <1>1, <1>3, <1>4, <1>5

\* Moving V(A) to nr, with or without advancing V(R), keeps the invariant.
LEMMA AcknowledgePreserves ==
  ASSUME IndInv, session.state = "Connected",
         NEW nr \in SequenceNumbers, AcknowledgeInWindow(session, nr),
         NEW s \in Session, session' = s, sent' = sent,
         acked' = acked + ((nr - session.acknowledgeSequence) % 8),
         s.acknowledgeSequence = nr,
         s.sendSequence = session.sendSequence,
         s.windowSizeTransmit = session.windowSizeTransmit,
         s.state = session.state, s.role = session.role, s.local = session.local,
         s.negotiated = session.negotiated,
         s.connectResponsePending = session.connectResponsePending
  PROVE  IndInv'
  <1> DEFINE d == (nr - session.acknowledgeSequence) % 8
  <1>1. d \in Nat /\ acked + d <= sent /\ (acked + d) % 8 = nr
    BY AcknowledgeAdvances
  <1>2. sent \in Nat /\ acked \in Nat /\ session.windowSizeTransmit \in Nat
    BY DEF IndInv, TypeOK, Session
  <1>3. acked' = acked + d
    OBVIOUS
  <1> HIDE DEF d
  <1>4. TypeOK' /\ CountersAgree'
    BY <1>1, <1>2, <1>3 DEF IndInv, TypeOK, CountersAgree
  <1>5. WindowRespected'
    BY <1>1, <1>2, <1>3 DEF IndInv, WindowRespected
  <1>6. RoleFixed' /\ FreshWhenNotConnected' /\ ConnectAnswerOnlyWhenDown' /\ ServerWithinCapability'
    BY DEF IndInv, RoleFixed, FreshWhenNotConnected, ConnectAnswerOnlyWhenDown,
           ServerWithinCapability
  <1> QED
    BY <1>4, <1>5, <1>6 DEF IndInv

\* ReceiveFrame of an I-frame or RR: N(R) acknowledges what was sent.
LEMMA ReceiveNumberedPreserves ==
  ASSUME IndInv, ReceiveNumbered
  PROVE  IndInv'
  <1> PICK f \in NumberedFrames :
        LET r == ReceiveFrame(session, f)
        IN /\ session' = r.session
           /\ acked' = IF r.status = "Ok"
                       THEN acked + ((f.nr - session.acknowledgeSequence) % 8)
                       ELSE acked
           /\ UNCHANGED sent
    BY DEF ReceiveNumbered
  <1> DEFINE r == ReceiveFrame(session, f)
  <1>0. f.kind \in {"I", "S"} /\ f.nr \in SequenceNumbers
    BY DEF NumberedFrames, Frame
  <1>1. session \in Session
    BY DEF IndInv, TypeOK
  <1>2. CASE r.status # "Ok"
    <2>1. r.session = session
      BY <1>0, <1>2 DEF ReceiveFrame, ReceiveInformationFrame, ReceiveSupervisoryFrame,
                        NoOutput, Result
    <2> QED
      BY <1>2, <2>1, StutterPreserves DEF vars
  <1>3. CASE r.status = "Ok" /\ f.kind = "S"
    <2> DEFINE s == [session EXCEPT !.acknowledgeSequence = f.nr]
    <2>1. session.state = "Connected" /\ AcknowledgeInWindow(session, f.nr) /\ r.session = s
      BY <1>3 DEF ReceiveFrame, ReceiveSupervisoryFrame, NoOutput, Result
    <2>2. s \in Session
      BY <1>0, <1>1 DEF Session
    <2>3. /\ s.acknowledgeSequence = f.nr
          /\ s.sendSequence = session.sendSequence
          /\ s.windowSizeTransmit = session.windowSizeTransmit
          /\ s.state = session.state /\ s.role = session.role /\ s.local = session.local
          /\ s.negotiated = session.negotiated
          /\ s.connectResponsePending = session.connectResponsePending
      BY <1>1 DEF Session
    <2> HIDE DEF s
    <2> QED
      BY <1>0, <1>3, <2>1, <2>2, <2>3, AcknowledgePreserves
  <1>4. CASE r.status = "Ok" /\ f.kind = "I"
    <2> DEFINE s1 == [session EXCEPT !.acknowledgeSequence = f.nr]
               s2 == [s1 EXCEPT !.receiveSequence = NextSequence(@)]
    <2>1. session.state = "Connected" /\ AcknowledgeInWindow(session, f.nr) /\ r.session = s2
      BY <1>4 DEF ReceiveFrame, ReceiveInformationFrame, NoOutput, Result
    <2>2. s1 \in Session
      BY <1>0, <1>1 DEF Session
    <2>3. s2 \in Session
      <3> HIDE DEF s1
      <3> QED BY <2>2 DEF Session, NextSequence
    <2>4. /\ s2.acknowledgeSequence = f.nr
          /\ s2.sendSequence = session.sendSequence
          /\ s2.windowSizeTransmit = session.windowSizeTransmit
          /\ s2.state = session.state /\ s2.role = session.role /\ s2.local = session.local
          /\ s2.negotiated = session.negotiated
          /\ s2.connectResponsePending = session.connectResponsePending
      BY <1>1 DEF Session
    <2> HIDE DEF s2
    <2> QED
      BY <1>0, <1>4, <2>1, <2>3, <2>4, AcknowledgePreserves
  <1> QED
    BY <1>0, <1>2, <1>3, <1>4

\* ReceiveFrame of an SNRM.
LEMMA ReceiveSnrmPreserves ==
  ASSUME IndInv, NEW f \in UnnumberedFrames, ResettingCall(ReceiveSnrm(session, f))
  PROVE  IndInv'
  <1> DEFINE r == ReceiveSnrm(session, f)
  <1>0. session \in Session /\ f.params \in SnrmParams
    BY PeerAssumption DEF IndInv, TypeOK, UnnumberedFrames, UFrame, Frame
  <1>1. CASE session.role # "server" \/ session.state # "Disconnected"
    BY <1>1, StutterPreserves DEF ResettingCall, ReceiveSnrm, MayBeConnected, NoOutput, Result, vars
  <1>2. CASE session.role = "server" /\ session.state = "Disconnected" /\ f.info = "bad"
    <2> DEFINE s1 == [session EXCEPT !.pendingActive = FALSE]
               s2 == [s1 EXCEPT !.dmResponsePending = TRUE]
    <2>1. session' = s2 /\ sent' = sent /\ acked' = acked
      BY <1>2 DEF ResettingCall, ReceiveSnrm, MayBeConnected, NoOutput, Result
    <2>2. s1 \in Session
      BY <1>0 DEF Session
    <2>3. s2 \in Session
      <3> HIDE DEF s1
      <3> QED BY <2>2 DEF Session
    <2>4. /\ s2.role = session.role /\ s2.local = session.local
          /\ s2.negotiated = session.negotiated
          /\ s2.windowSizeTransmit = session.windowSizeTransmit
          /\ s2.sendSequence = session.sendSequence
          /\ s2.receiveSequence = session.receiveSequence
          /\ s2.acknowledgeSequence = session.acknowledgeSequence
          /\ s2.connectResponsePending = session.connectResponsePending
          /\ s2.state = session.state
      BY <1>0 DEF Session
    <2> HIDE DEF s2
    <2> QED
      BY <2>1, <2>3, <2>4, QuietStep
  <1>3. CASE session.role = "server" /\ session.state = "Disconnected" /\ f.info # "bad"
    <2> DEFINE s1 == [session EXCEPT !.pendingActive = (f.info = "block")]
               s2 == [s1 EXCEPT !.pending = IF f.info = "block" THEN f.params ELSE @]
               s3 == [s2 EXCEPT !.connectResponsePending = TRUE]
    <2>1. session' = ResetSequences(s3) /\ sent' = 0 /\ acked' = 0
      BY <1>3 DEF ResettingCall, ReceiveSnrm, MayBeConnected, NoOutput, Result
    <2>2. s1 \in Session
      BY <1>0 DEF Session
    <2>3. s2 \in Session
      <3> HIDE DEF s1
      <3> QED BY <1>0, <2>2 DEF Session
    <2>4. s3 \in Session
      <3> HIDE DEF s2
      <3> QED BY <2>3 DEF Session
    <2>5. /\ s3.role = session.role /\ s3.local = session.local
          /\ s3.state = session.state
          /\ s3.negotiated = session.negotiated
          /\ s3.windowSizeTransmit = session.windowSizeTransmit
      BY <1>0 DEF Session
    <2> HIDE DEF s3
    <2>6. Resettable(s3)
      BY <1>3, <2>4, <2>5, InvariantIsResettable DEF Resettable
    <2> QED
      BY <2>1, <2>6, ResetEstablishes
  <1> QED
    BY <1>1, <1>2, <1>3

\* ReceiveFrame of a UA.
LEMMA ReceiveUaPreserves ==
  ASSUME IndInv, NEW f \in UnnumberedFrames, ResettingCall(ReceiveUa(session, f))
  PROVE  IndInv'
  <1>0. session \in Session /\ f.params \in SnrmParams /\ f.params.windowTx <= 7
    BY PeerAssumption, WindowAssumption DEF IndInv, TypeOK, UnnumberedFrames, UFrame, Frame
  <1>1. CASE session.state = "AwaitingConnection"
    <2> DEFINE m == AdoptNegotiation(session, f.params.maxInfoTx, f.params.maxInfoRx,
                                     f.params.windowTx, f.params.windowRx)
               adopted == IF f.info = "block" THEN m ELSE session
               s == [adopted EXCEPT !.state = "Connected"]
    <2>1. session' = ResetSequences(s) /\ sent' = 0 /\ acked' = 0
      BY <1>1 DEF ResettingCall, ReceiveUa, NoOutput, Result
    <2>2. session.role = "client" /\ ~session.connectResponsePending
      BY <1>0, <1>1 DEF IndInv, RoleFixed, ConnectAnswerOnlyWhenDown, Session
    <2>3. /\ m \in Session
          /\ m.windowSizeTransmit <= 7
          /\ m.role = session.role /\ m.local = session.local
          /\ m.connectResponsePending = session.connectResponsePending
      BY <1>0, AdoptUaFields
    <2> HIDE DEF m
    <2>4. /\ adopted \in Session
          /\ adopted.role = "client"
          /\ adopted.local = Normalise(Limits)
          /\ ~adopted.connectResponsePending
          /\ adopted.windowSizeTransmit <= 7
      BY <1>0, <2>2, <2>3 DEF IndInv, RoleFixed, WindowRespected
    <2> HIDE DEF adopted
    <2>5. Resettable(s)
      BY <2>4 DEF Resettable, Session
    <2> QED
      BY <2>1, <2>5, ResetEstablishes
  <1>2. CASE session.state = "AwaitingDisconnect"
    <2> DEFINE s == [session EXCEPT !.state = "Disconnected"]
    <2>1. session' = ResetSequences(s) /\ sent' = 0 /\ acked' = 0
      BY <1>2 DEF ResettingCall, ReceiveUa, NoOutput, Result
    <2>2. Resettable(s)
      BY <1>0, InvariantIsResettable DEF Resettable, Session
    <2> QED
      BY <2>1, <2>2, ResetEstablishes
  <1>3. CASE session.state \notin {"AwaitingConnection", "AwaitingDisconnect"}
    BY <1>3, StutterPreserves DEF ResettingCall, ReceiveUa, NoOutput, Result, vars
  <1> QED
    BY <1>1, <1>2, <1>3

\* ReceiveFrame of a DISC.
LEMMA ReceiveDiscPreserves ==
  ASSUME IndInv, NEW f, PlainCall(ReceiveDisc(session, f))
  PROVE  IndInv'
  <1> DEFINE s == [session EXCEPT !.disconnectResponsePending = TRUE]
  <1>1. CASE session.state = "Connected"
    <2>1. session' = s /\ sent' = sent /\ acked' = acked
      BY <1>1 DEF PlainCall, ReceiveDisc, NoOutput, Result
    <2>2. s \in Session /\ session \in Session
      BY DEF IndInv, TypeOK, Session
    <2> QED
      BY <2>1, <2>2, QuietStep DEF Session
  <1>2. CASE session.state # "Connected"
    BY <1>2, StutterPreserves DEF PlainCall, ReceiveDisc, NoOutput, Result, vars
  <1> QED
    BY <1>1, <1>2

\* ReceiveFrame of a DM.
LEMMA ReceiveDmPreserves ==
  ASSUME IndInv, NEW f, ResettingCall(ReceiveDm(session, f))
  PROVE  IndInv'
  <1> DEFINE s == [session EXCEPT !.state = "Disconnected"]
  <1>1. session' = ResetSequences(s) /\ sent' = 0 /\ acked' = 0
    BY DEF ResettingCall, ReceiveDm, NoOutput, Result
  <1>2. Resettable(s)
    BY InvariantIsResettable DEF Resettable, Session
  <1> QED
    BY <1>1, <1>2, ResetEstablishes

\* ReceiveFrame of any U-frame.
LEMMA ReceiveUnnumberedPreserves ==
  ASSUME IndInv, ReceiveUnnumbered
  PROVE  IndInv'
  <1> PICK f \in UnnumberedFrames :
        LET r == ReceiveFrame(session, f)
        IN IF f.kind = "Disc" THEN PlainCall(r) ELSE ResettingCall(r)
    BY DEF ReceiveUnnumbered
  <1>0. f.kind \in {"Snrm", "Ua", "Disc", "Dm", "Frmr", "Ui"}
    BY DEF UnnumberedFrames, UFrame, Frame, FrameKinds
  <1>1. CASE ~IncomingAddressesMatch(session, f) \/ f.kind \in {"Frmr", "Ui"}
    BY <1>0, <1>1, StutterPreserves
       DEF ReceiveFrame, ReceiveUnnumberedFrame, PlainCall, ResettingCall, NoOutput, Result, vars
  <1>2. CASE IncomingAddressesMatch(session, f) /\ f.kind = "Snrm"
    BY <1>2, ReceiveSnrmPreserves DEF ReceiveFrame, ReceiveUnnumberedFrame
  <1>3. CASE IncomingAddressesMatch(session, f) /\ f.kind = "Ua"
    BY <1>3, ReceiveUaPreserves DEF ReceiveFrame, ReceiveUnnumberedFrame
  <1>4. CASE IncomingAddressesMatch(session, f) /\ f.kind = "Disc"
    BY <1>4, ReceiveDiscPreserves DEF ReceiveFrame, ReceiveUnnumberedFrame
  <1>5. CASE IncomingAddressesMatch(session, f) /\ f.kind = "Dm"
    BY <1>5, ReceiveDmPreserves DEF ReceiveFrame, ReceiveUnnumberedFrame
  <1> QED
    BY <1>0, <1>1, <1>2, <1>3, <1>4, <1>5

-----------------------------------------------------------------------------
(***************************************************************************)
(* The theorems.                                                           *)
(***************************************************************************)

\* Every call the owner makes and every frame the peer sends, in any order,
\* preserves the inductive invariant.
LEMMA NextPreserves == IndInv /\ [Next]_vars => IndInv'
  <1> SUFFICES ASSUME IndInv, [Next]_vars PROVE IndInv'
    OBVIOUS
  <1>1. CASE ConnectRequest
    BY <1>1, ConnectRequestPreserves DEF ConnectRequest, BuildConnectRequest
  <1>2. CASE ConnectResponse
    BY <1>2, ConnectResponsePreserves
  <1>3. CASE DisconnectRequest
    BY <1>3, DisconnectRequestPreserves
  <1>4. CASE DisconnectResponse
    BY <1>4, DisconnectResponsePreserves
  <1>5. CASE DmResponse
    BY <1>5, DmResponsePreserves
  <1>6. CASE SendInformation
    BY <1>6, SendInformationPreserves
  <1>7. CASE ReceiveReady
    BY <1>7, ReceiveReadyPreserves
  <1>8. CASE ReceiveNumbered
    BY <1>8, ReceiveNumberedPreserves
  <1>9. CASE ReceiveUnnumbered
    BY <1>9, ReceiveUnnumberedPreserves
  <1>10. CASE UNCHANGED vars
    BY <1>10, StutterPreserves
  <1> QED
    BY <1>1, <1>2, <1>3, <1>4, <1>5, <1>6, <1>7, <1>8, <1>9, <1>10 DEF Next

\* The inductive invariant holds of every behaviour of a session.
THEOREM StationInvariant == Spec => []IndInv
  BY InitEstablishes, NextPreserves, PTL DEF Spec

\* The sequence variables of a session stay three-bit numbers and its records
\* keep their shape, whatever the owner calls and the peer sends.
THEOREM StationTypeCorrect == Spec => []TypeOK
  <1>1. IndInv => TypeOK
    BY DEF IndInv
  <1> QED
    BY <1>1, StationInvariant, PTL

\* For every window up to 7, CanSendInformationFrame and the N(R) check keep
\* the frames in flight within the window in force, and V(S) - V(A) mod 8 is
\* their true number: the three-bit numbers never wrap onto a frame that is
\* still unacknowledged.
THEOREM StationWindowSafety == Spec => []WindowSafety
  <1>1. IndInv => WindowSafety
    <2> SUFFICES ASSUME IndInv PROVE WindowSafety
      OBVIOUS
    <2>1. sent \in Nat /\ acked \in Nat /\ session.windowSizeTransmit \in Nat
      BY DEF IndInv, TypeOK, Session
    <2>2. (session.sendSequence - session.acknowledgeSequence) % 8 = sent - acked
      BY <2>1, DifferenceOfResidues DEF IndInv, CountersAgree, WindowRespected
    <2> QED
      BY <2>1, <2>2 DEF IndInv, WindowRespected, WindowSafety, Outstanding
  <1> QED
    BY <1>1, StationInvariant, PTL

\* No connection starts with counters left over from an earlier one.
THEOREM StationFreshStart == Spec => []FreshWhenNotConnected
  <1>1. IndInv => FreshWhenNotConnected
    BY DEF IndInv
  <1> QED
    BY <1>1, StationInvariant, PTL

\* A pending answer to an SNRM can never reset a connection that is up.
THEOREM StationConnectAnswer == Spec => []ConnectAnswerOnlyWhenDown
  <1>1. IndInv => ConnectAnswerOnlyWhenDown
    BY DEF IndInv
  <1> QED
    BY <1>1, StationInvariant, PTL

\* Whatever an SNRM proposes, a server's negotiated limits stay within its own.
THEOREM StationWithinCapability == Spec => []ServerWithinCapability
  <1>1. IndInv => ServerWithinCapability
    BY DEF IndInv
  <1> QED
    BY <1>1, StationInvariant, PTL

=============================================================================
