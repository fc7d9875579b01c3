-------------------------- MODULE HdlcSessionLemmas --------------------------
(***************************************************************************)
(* Facts about the operators of HdlcSession: what each call leaves of a    *)
(* session and which frames it writes.  They hold for every session and    *)
(* every frame and are used wherever sessions are proved about.            *)
(***************************************************************************)
EXTENDS HdlcSession, Sequences, TLAPS

USE DEF Roles, SessionStates, SequenceNumbers, kDefaultMaxInfoFieldLength,
        kDefaultWindowSize, kNegotiationBlockSize

\* The frames that the two stations write.
Frames ==
  [kind : {"I", "S", "Snrm", "Ua", "Disc"}, src : Roles,
   ns : SequenceNumbers, nr : SequenceNumbers,
   info : {"empty", "block"}, params : SnrmParams, data : Seq(Nat)]

\* Arithmetic of three-bit counters.
LEMMA NextResidue == \A n \in Nat : ((n % 8) + 1) % 8 = (n + 1) % 8
  OBVIOUS

\* A difference of residues is the true difference if that is at most 7.
LEMMA DifferenceOfResidues ==
  \A m, n \in Nat : m <= n /\ n - m <= 7 => ((n % 8) - (m % 8)) % 8 = n - m
  OBVIOUS

\* Advancing by a difference of residues reaches the other residue.
LEMMA AdvanceToResidue ==
  \A m \in Nat : \A r \in 0..7 : (m + ((r - (m % 8)) % 8)) % 8 = r
  OBVIOUS

-----------------------------------------------------------------------------
(***************************************************************************)
(* What the building blocks of the session operators do to a session.      *)
(***************************************************************************)

\* ResetSequences clears the three sequence variables and nothing else.
LEMMA ResetFields ==
  ASSUME NEW s \in Session
  PROVE  /\ ResetSequences(s) \in Session
         /\ ResetSequences(s).sendSequence = 0
         /\ ResetSequences(s).receiveSequence = 0
         /\ ResetSequences(s).acknowledgeSequence = 0
         /\ ResetSequences(s).role = s.role
         /\ ResetSequences(s).local = s.local
         /\ ResetSequences(s).state = s.state
         /\ ResetSequences(s).connectResponsePending = s.connectResponsePending
         /\ ResetSequences(s).negotiated = s.negotiated
         /\ ResetSequences(s).windowSizeTransmit = s.windowSizeTransmit
  <1> DEFINE a == [s EXCEPT !.sendSequence = 0]
             b == [a EXCEPT !.receiveSequence = 0]
             c == [b EXCEPT !.acknowledgeSequence = 0]
  <1>1. c = ResetSequences(s)
    BY DEF ResetSequences
  <1>2. a \in Session
    BY DEF Session
  <1> HIDE DEF a
  <1>3. b \in Session
    BY <1>2 DEF Session
  <1> HIDE DEF b
  <1>4. c \in Session
    BY <1>3 DEF Session
  <1> QED
    BY <1>1, <1>4 DEF ResetSequences, Session

\* AdoptNegotiation yields a session.
LEMMA AdoptType ==
  ASSUME NEW s \in Session,
         NEW maxTx \in Nat, NEW maxRx \in Nat, NEW winTx \in Nat, NEW winRx \in Nat
  PROVE  AdoptNegotiation(s, maxTx, maxRx, winTx, winRx) \in Session
  <1> DEFINE l == [maxTransmit |-> maxTx, maxReceive |-> maxRx,
                   windowTransmit |-> winTx % 256, windowReceive |-> winRx % 256]
             a == [s EXCEPT !.negotiated = l]
             b == [a EXCEPT !.maximumInformationFieldSize = maxTx]
             c == [b EXCEPT !.windowSizeTransmit = winTx % 256]
  <1>1. c = AdoptNegotiation(s, maxTx, maxRx, winTx, winRx)
    BY DEF AdoptNegotiation
  <1>2. l \in NegotiationLimits /\ winTx % 256 \in Nat
    BY DEF NegotiationLimits
  <1> HIDE DEF l
  <1>3. a \in Session
    BY <1>2 DEF Session
  <1> HIDE DEF a
  <1>4. b \in Session
    BY <1>3 DEF Session
  <1> HIDE DEF b
  <1>5. c \in Session
    BY <1>2, <1>4 DEF Session
  <1> QED
    BY <1>1, <1>5

\* It changes the limits, the codec limit and the window, and nothing else.
LEMMA AdoptFields ==
  ASSUME NEW s \in Session, NEW maxTx, NEW maxRx, NEW winTx, NEW winRx,
         NEW n, n = AdoptNegotiation(s, maxTx, maxRx, winTx, winRx)
  PROVE  /\ n.negotiated.maxTransmit = maxTx
         /\ n.negotiated.maxReceive = maxRx
         /\ n.negotiated.windowTransmit = winTx % 256
         /\ n.negotiated.windowReceive = winRx % 256
         /\ n.windowSizeTransmit = winTx % 256
         /\ n.role = s.role
         /\ n.local = s.local
         /\ n.state = s.state
         /\ n.sendSequence = s.sendSequence
         /\ n.receiveSequence = s.receiveSequence
         /\ n.acknowledgeSequence = s.acknowledgeSequence
         /\ n.connectResponsePending = s.connectResponsePending
  BY DEF AdoptNegotiation, Session

\* The same for the parameters p of a UA, as a client adopts them.
LEMMA AdoptUaFields ==
  ASSUME NEW s \in Session, NEW p \in SnrmParams, p.windowTx <= 7
  PROVE  LET m == AdoptNegotiation(s, p.maxInfoTx, p.maxInfoRx, p.windowTx, p.windowRx)
         IN /\ m \in Session
            /\ m.windowSizeTransmit <= 7
            /\ m.role = s.role
            /\ m.local = s.local
            /\ m.connectResponsePending = s.connectResponsePending
  <1>1. p.maxInfoTx \in Nat /\ p.maxInfoRx \in Nat /\ p.windowTx \in Nat /\ p.windowRx \in Nat
    BY DEF SnrmParams
  <1>2. p.windowTx % 256 <= 7
    BY <1>1
  <1>3. AdoptNegotiation(s, p.maxInfoTx, p.maxInfoRx, p.windowTx, p.windowRx) \in Session
    BY <1>1, AdoptType
  <1> QED
    BY <1>2, <1>3, AdoptFields

\* The negotiation rule keeps every parameter within the local capability.
LEMMA NegotiateFields ==
  ASSUME NEW p \in SnrmParams, NEW l \in NegotiationLimits
  PROVE  /\ NegotiateParams(p, l) \in SnrmParams
         /\ NegotiateParams(p, l).maxInfoTx <= l.maxReceive
         /\ NegotiateParams(p, l).maxInfoRx <= l.maxTransmit
         /\ NegotiateParams(p, l).windowTx <= l.windowReceive
         /\ NegotiateParams(p, l).windowRx <= l.windowTransmit
  BY DEF NegotiateParams, Smaller, SnrmParams, NegotiationLimits

\* The session t that a call leaves of s.
Heir(s, t) ==
  /\ t \in Session /\ t.role = s.role /\ t.local = s.local

\* A record that ResetSequences returns.
LEMMA ResetHeir ==
  ASSUME NEW s \in Session, NEW t, t = ResetSequences(s)
  PROVE  /\ Heir(s, t)
         /\ t.sendSequence = 0 /\ t.receiveSequence = 0 /\ t.acknowledgeSequence = 0
         /\ t.state = s.state
         /\ t.connectResponsePending = s.connectResponsePending
         /\ t.disconnectResponsePending = s.disconnectResponsePending
         /\ t.pendingActive = s.pendingActive /\ t.pending = s.pending
         /\ t.negotiated = s.negotiated
         /\ t.windowSizeTransmit = s.windowSizeTransmit
  <1>1. Heir(s, t)
    BY ResetFields DEF Heir
  <1> QED
    BY <1>1, ResetFields DEF ResetSequences, Session

\* A session that moves to another state.
LEMMA StateHeir ==
  ASSUME NEW s \in Session, NEW st \in SessionStates, NEW t, t = [s EXCEPT !.state = st]
  PROVE  /\ Heir(s, t) /\ t.state = st
         /\ t.sendSequence = s.sendSequence /\ t.receiveSequence = s.receiveSequence
         /\ t.acknowledgeSequence = s.acknowledgeSequence
         /\ t.connectResponsePending = s.connectResponsePending
         /\ t.disconnectResponsePending = s.disconnectResponsePending
         /\ t.pendingActive = s.pendingActive /\ t.pending = s.pending
         /\ t.negotiated = s.negotiated
         /\ t.windowSizeTransmit = s.windowSizeTransmit
  BY DEF Heir, Session

\* A new session is a session.
LEMMA NewSessionType ==
  ASSUME NEW r \in Roles, NEW l \in NegotiationLimits, NEW s, s = NewSession(r, l, 0)
  PROVE  s \in Session /\ s.role = r /\ s.state = "Disconnected" /\ s.local = Normalise(l)
  <1>1. Normalise(l) \in NegotiationLimits
    BY DEF Normalise, NegotiationLimits
  <1>2. Normalise(l).windowTransmit \in Nat
    BY <1>1 DEF NegotiationLimits
  <1>3. DefaultSnrmParams \in SnrmParams
    BY DEF DefaultSnrmParams, SnrmParams
  <1> QED
    BY <1>1, <1>2, <1>3 DEF NewSession, Session

-----------------------------------------------------------------------------
(***************************************************************************)
(* What a call leaves of the state of a session.                           *)
(***************************************************************************)

\* The frames that ReceiveFrame accepts, and the state they lead to.
Accepts(s, f, t) ==
  \/ f.kind \in {"I", "S", "Disc"} /\ s.state = "Connected" /\ t.state = "Connected"
  \/ f.kind = "Snrm" /\ s.role = "server" /\ s.state = "Disconnected" /\ t.state = "Disconnected"
  \/ f.kind = "Ua" /\ s.state = "AwaitingConnection" /\ t.state = "Connected"
  \/ f.kind = "Ua" /\ s.state = "AwaitingDisconnect" /\ t.state = "Disconnected"

\* An I-frame or RR is taken whole or refused without a trace.
LEMMA ReceiveNumberedState ==
  ASSUME NEW s \in Session, NEW f \in Frames, f.kind \in {"I", "S"},
         NEW res, res = ReceiveInformationFrame(s, f) \/ res = ReceiveSupervisoryFrame(s, f)
  PROVE  /\ Heir(s, res.session) /\ res.frame = NoFrame
         /\ res.status # "Ok" => res.session = s
         /\ res.status = "Ok" => Accepts(s, f, res.session)
  <1> DEFINE m == [s EXCEPT !.acknowledgeSequence = f.nr]
             t == [m EXCEPT !.receiveSequence = NextSequence(@)]
  <1>1. f.nr \in 0..7
    BY DEF Frames
  <1>2. m \in Session /\ Heir(s, m) /\ m.state = s.state /\ m.receiveSequence \in 0..7
    BY <1>1 DEF Heir, Session
  <1>3. \/ res = NoOutput("Ok", m) /\ s.state = "Connected"
        \/ res = NoOutput("Ok", t) /\ s.state = "Connected"
        \/ res = NoOutput("UnsupportedFrame", s)
        \/ res = NoOutput("InvalidControlField", s)
    BY DEF ReceiveInformationFrame, ReceiveSupervisoryFrame
  <1> HIDE DEF m
  <1>4. NextSequence(m.receiveSequence) \in 0..7
    BY <1>2 DEF NextSequence
  <1>5. Heir(s, t) /\ t.state = s.state
    BY <1>2, <1>4 DEF Heir, Session
  <1> HIDE DEF t
  <1> QED
    BY <1>2, <1>3, <1>5 DEF NoOutput, Result, Accepts, Heir

\* An SNRM is taken by a server that is not connected, and by nobody else.
LEMMA ReceiveSnrmState ==
  ASSUME NEW s \in Session, NEW f \in Frames, f.kind = "Snrm", NEW res, res = ReceiveSnrm(s, f)
  PROVE  /\ Heir(s, res.session) /\ res.frame = NoFrame
         /\ res.status # "Ok" => res.session = s
         /\ res.status = "Ok" => Accepts(s, f, res.session)
  <1> DEFINE m1 == [s EXCEPT !.pendingActive = (f.info = "block")]
             m2 == [m1 EXCEPT !.pending = IF f.info = "block" THEN f.params ELSE @]
             m3 == [m2 EXCEPT !.connectResponsePending = TRUE]
             t == ResetSequences(m3)
  <1>1. f.params \in SnrmParams /\ f.info \in {"empty", "block"}
    BY DEF Frames
  <1>2. \/ res = NoOutput("Ok", t) /\ s.role = "server" /\ s.state = "Disconnected"
        \/ res = NoOutput("UnsupportedFrame", s)
    BY <1>1 DEF ReceiveSnrm, MayBeConnected
  <1>3. m1 \in Session /\ Heir(s, m1) /\ m1.state = s.state
    BY DEF Heir, Session
  <1> HIDE DEF m1
  <1>4. m2 \in Session /\ Heir(s, m2) /\ m2.state = s.state
    BY <1>1, <1>3 DEF Heir, Session
  <1> HIDE DEF m2
  <1>5. m3 \in Session /\ Heir(s, m3) /\ m3.state = s.state
    BY <1>4 DEF Heir, Session
  <1> HIDE DEF m3
  <1>6. Heir(s, t) /\ t.state = s.state
    BY <1>5, ResetHeir DEF Heir
  <1> HIDE DEF t
  <1> QED
    BY <1>2, <1>6 DEF NoOutput, Result, Accepts, Heir

\* A UA is taken by a client that waits for it, or by a side that disconnects.
LEMMA ReceiveUaState ==
  ASSUME NEW s \in Session, NEW f \in Frames, f.kind = "Ua", NEW res, res = ReceiveUa(s, f)
  PROVE  /\ Heir(s, res.session) /\ res.frame = NoFrame
         /\ res.status # "Ok" => res.session = s
         /\ res.status = "Ok" => Accepts(s, f, res.session)
  <1> DEFINE p == f.params
             o == AdoptNegotiation(s, p.maxInfoTx, p.maxInfoRx, p.windowTx, p.windowRx)
             a == IF f.info = "block" THEN o ELSE s
             m == [a EXCEPT !.state = "Connected"]
             t == ResetSequences(m)
             n == [s EXCEPT !.state = "Disconnected"]
             u == ResetSequences(n)
  <1>1. \/ res = NoOutput("Ok", t) /\ s.state = "AwaitingConnection"
        \/ res = NoOutput("Ok", u) /\ s.state = "AwaitingDisconnect"
        \/ res = NoOutput("UnsupportedFrame", s)
    BY DEF ReceiveUa
  <1>2. o \in Session /\ Heir(s, o)
    <2>1. p.maxInfoTx \in Nat /\ p.maxInfoRx \in Nat /\ p.windowTx \in Nat /\ p.windowRx \in Nat
      BY DEF Frames, SnrmParams
    <2>2. o \in Session
      BY <2>1, AdoptType
    <2> QED
      BY <2>2 DEF AdoptNegotiation, Session, Heir
  <1> HIDE DEF o
  <1>3. a \in Session /\ Heir(s, a)
    BY <1>2 DEF Heir
  <1> HIDE DEF a
  <1>4. m \in Session /\ Heir(s, m) /\ m.state = "Connected"
        /\ n \in Session /\ Heir(s, n) /\ n.state = "Disconnected"
    BY <1>3, StateHeir DEF Heir
  <1> HIDE DEF m, n
  <1>5. Heir(s, t) /\ t.state = "Connected" /\ Heir(s, u) /\ u.state = "Disconnected"
    BY <1>4, ResetHeir DEF Heir
  <1> HIDE DEF t, u
  <1> QED
    BY <1>1, <1>5 DEF NoOutput, Result, Accepts, Heir

\* ReceiveFrame leaves a session that refuses a frame as it was, and accepts one
\* only in the states above.
LEMMA ReceiveState ==
  ASSUME NEW s \in Session, NEW f \in Frames, NEW res, res = ReceiveFrame(s, f)
  PROVE  /\ Heir(s, res.session) /\ res.frame = NoFrame
         /\ res.status # "Ok" => res.session = s
         /\ res.status = "Ok" => Accepts(s, f, res.session)
  <1>1. f.kind \in {"I", "S", "Snrm", "Ua", "Disc"}
    BY DEF Frames
  <1>2. Heir(s, s)
    BY DEF Heir
  <1>3. CASE ~IncomingAddressesMatch(s, f)
    BY <1>2, <1>3 DEF ReceiveFrame, NoOutput, Result
  <1>4. CASE IncomingAddressesMatch(s, f) /\ f.kind = "I"
    BY <1>4, ReceiveNumberedState DEF ReceiveFrame
  <1>5. CASE IncomingAddressesMatch(s, f) /\ f.kind = "S"
    BY <1>5, ReceiveNumberedState DEF ReceiveFrame
  <1>6. CASE IncomingAddressesMatch(s, f) /\ f.kind = "Snrm"
    BY <1>6, ReceiveSnrmState DEF ReceiveFrame, ReceiveUnnumberedFrame
  <1>7. CASE IncomingAddressesMatch(s, f) /\ f.kind = "Ua"
    BY <1>7, ReceiveUaState DEF ReceiveFrame, ReceiveUnnumberedFrame
  <1>8. CASE IncomingAddressesMatch(s, f) /\ f.kind = "Disc"
    <2> DEFINE t == [s EXCEPT !.disconnectResponsePending = TRUE]
    <2>1. Heir(s, t) /\ t.state = s.state
      BY DEF Heir, Session
    <2>2. \/ res = NoOutput("Ok", t) /\ s.state = "Connected"
          \/ res = NoOutput("UnsupportedFrame", s)
      BY <1>8 DEF ReceiveFrame, ReceiveUnnumberedFrame, ReceiveDisc
    <2> HIDE DEF t
    <2> QED
      BY <1>2, <1>8, <2>1, <2>2 DEF NoOutput, Result, Accepts
  <1> QED
    BY <1>1, <1>3, <1>4, <1>5, <1>6, <1>7, <1>8

-----------------------------------------------------------------------------
(***************************************************************************)
(* The build methods.  One that refuses leaves the session as it was, but  *)
(* for a server that adopts limits which its UA does not fit.              *)
(***************************************************************************)
Refuses(s, res) == res.status # "Ok" /\ res.session = s /\ res.frame = NoFrame

\* A negotiation block is well-formed.
LEMMA NegotiationFrameType ==
  ASSUME NEW s \in Session, NEW kind \in {"Snrm", "Ua"}, NEW include \in BOOLEAN,
         NEW p \in SnrmParams, NEW f, f = NegotiationFrame(kind, s, include, p)
  PROVE  f \in Frames /\ f.kind = kind
  <1>1. EncodeSnrmNegotiationBlock(p) \in SnrmParams /\ DefaultSnrmParams \in SnrmParams
    BY DEF EncodeSnrmNegotiationBlock, SnrmParams, DefaultSnrmParams
  <1>2. s.role \in Roles /\ <<>> \in Seq(Nat)
    BY DEF Session
  <1> QED
    BY <1>1, <1>2 DEF NegotiationFrame, UFrame, Frame, Frames, NoPayload

\* An SNRM is written by a client that is disconnected, which then waits.
LEMMA BuildConnectRequestState ==
  ASSUME NEW s \in Session, NEW res, res = BuildConnectRequest(s)
  PROVE  /\ Heir(s, res.session)
         /\ \/ Refuses(s, res)
            \/ /\ res.status = "Ok" /\ s.role = "client" /\ s.state = "Disconnected"
               /\ res.session.state = "AwaitingConnection"
               /\ res.frame \in Frames /\ res.frame.kind = "Snrm"
  <1> DEFINE m == [s EXCEPT !.state = "AwaitingConnection"]
             t == ResetSequences(m)
             inc == ~IsDefaultNegotiationLimits(s.local)
             f == NegotiationFrame("Snrm", s, inc, Proposal(s.local))
  <1>1. \/ res.status # "Ok" /\ res.session = s /\ res.frame = NoFrame
        \/ res = Result("Ok", t, f) /\ s.role = "client" /\ s.state = "Disconnected"
    BY DEF BuildConnectRequest, BuildConnectRequestInternal, NoOutput, Result
  <1>2. Proposal(s.local) \in SnrmParams
    BY DEF Session, NegotiationLimits, Proposal, SnrmParams
  <1>3. f \in Frames /\ f.kind = "Snrm"
    BY <1>2, NegotiationFrameType
  <1>4. m \in Session /\ Heir(s, m) /\ m.state = "AwaitingConnection"
    BY StateHeir DEF Heir
  <1> HIDE DEF m, f
  <1>5. Heir(s, t) /\ t.state = "AwaitingConnection"
    BY <1>4, ResetHeir DEF Heir
  <1> HIDE DEF t
  <1> QED
    BY <1>1, <1>3, <1>5 DEF Refuses, Heir, Result

\* A UA that answers an SNRM is written by the server that received it, which is
\* connected from then on.
LEMMA BuildConnectResponseState ==
  ASSUME NEW s \in Session, NEW res, res = BuildConnectResponse(s)
  PROVE  /\ Heir(s, res.session)
         /\ \/ res.status # "Ok" /\ res.session.state = s.state /\ res.frame = NoFrame
            \/ /\ res.status = "Ok" /\ s.role = "server" /\ s.connectResponsePending
               /\ res.session.state = "Connected"
               /\ res.frame \in Frames /\ res.frame.kind = "Ua"
  <1> DEFINE n == NegotiateParams(s.pending, s.local)
             a == IF s.pendingActive
                  THEN AdoptNegotiation(s, n.maxInfoRx, n.maxInfoTx, n.windowRx, n.windowTx)
                  ELSE s
             m1 == [a EXCEPT !.state = "Connected"]
             m2 == [m1 EXCEPT !.connectResponsePending = FALSE]
             m3 == [m2 EXCEPT !.pendingActive = FALSE]
             t == ResetSequences(m3)
             f == NegotiationFrame("Ua", s, s.pendingActive, n)
  <1>1. \/ res = NoOutput("UnsupportedFeature", s)
        \/ res = NoOutput("UnsupportedFrame", s)
        \/ res = NoOutput("InformationFieldTooLarge", a)
        \/ res = Result("Ok", t, f) /\ s.role = "server" /\ s.connectResponsePending
    BY DEF BuildConnectResponse
  <1>2. n \in SnrmParams
    BY NegotiateFields DEF Session
  <1>3. f \in Frames /\ f.kind = "Ua"
    <2>1. s.pendingActive \in BOOLEAN
      BY DEF Session
    <2> QED
      BY <1>2, <2>1, NegotiationFrameType
  <1> HIDE DEF f
  <1>4. a \in Session /\ Heir(s, a) /\ a.state = s.state
    <2>1. n.maxInfoTx \in Nat /\ n.maxInfoRx \in Nat /\ n.windowTx \in Nat /\ n.windowRx \in Nat
      BY <1>2 DEF SnrmParams
    <2> HIDE DEF n
    <2> DEFINE o == AdoptNegotiation(s, n.maxInfoRx, n.maxInfoTx, n.windowRx, n.windowTx)
    <2>2. o \in Session
      BY <2>1, AdoptType
    <2>3. o.role = s.role /\ o.local = s.local /\ o.state = s.state
      BY DEF AdoptNegotiation, Session
    <2> HIDE DEF o
    <2>4. a = o \/ a = s
      BY DEF o
    <2> QED
      BY <2>2, <2>3, <2>4 DEF Heir
  <1> HIDE DEF a
  <1>5. m1 \in Session /\ Heir(s, m1) /\ m1.state = "Connected"
    BY <1>4, StateHeir DEF Heir
  <1> HIDE DEF m1
  <1>6. m2 \in Session /\ Heir(s, m2) /\ m2.state = "Connected"
    BY <1>5 DEF Heir, Session
  <1> HIDE DEF m2
  <1>7. m3 \in Session /\ Heir(s, m3) /\ m3.state = "Connected"
    BY <1>6 DEF Heir, Session
  <1> HIDE DEF m3
  <1>8. Heir(s, t) /\ t.state = "Connected"
    BY <1>7, ResetHeir DEF Heir
  <1> HIDE DEF t
  <1>9. Heir(s, s)
    BY DEF Heir
  <1> QED
    BY <1>1, <1>3, <1>4, <1>8, <1>9 DEF NoOutput, Result

\* A DISC is written by a connected side, which then waits.
LEMMA BuildDisconnectRequestState ==
  ASSUME NEW s \in Session, NEW res, res = BuildDisconnectRequest(s)
  PROVE  /\ Heir(s, res.session)
         /\ \/ Refuses(s, res)
            \/ /\ res.status = "Ok" /\ s.state = "Connected"
               /\ res.session.state = "AwaitingDisconnect"
               /\ res.frame \in Frames /\ res.frame.kind = "Disc"
  <1> DEFINE t == [s EXCEPT !.state = "AwaitingDisconnect"]
             f == UFrame("Disc", s.role, "empty", DefaultSnrmParams, NoPayload)
  <1>1. \/ res = NoOutput("UnsupportedFrame", s)
        \/ res = Result("Ok", t, f) /\ s.state = "Connected"
    BY DEF BuildDisconnectRequest
  <1>2. f \in Frames /\ f.kind = "Disc"
    <2>1. s.role \in Roles /\ <<>> \in Seq(Nat) /\ DefaultSnrmParams \in SnrmParams
      BY DEF Session, DefaultSnrmParams, SnrmParams
    <2> QED
      BY <2>1 DEF UFrame, Frame, Frames, NoPayload
  <1> HIDE DEF f
  <1>3. Heir(s, t) /\ t.state = "AwaitingDisconnect"
    BY StateHeir
  <1> HIDE DEF t
  <1>4. Heir(s, s)
    BY DEF Heir
  <1> QED
    BY <1>1, <1>2, <1>3, <1>4 DEF Refuses, NoOutput, Result

\* The answer to a DISC leaves its writer disconnected.
LEMMA BuildDisconnectResponseState ==
  ASSUME NEW s \in Session, NEW res, res = BuildDisconnectResponse(s)
  PROVE  /\ Heir(s, res.session)
         /\ \/ Refuses(s, res)
            \/ /\ res.status = "Ok" /\ s.disconnectResponsePending
               /\ res.session.state = "Disconnected"
               /\ res.frame \in Frames /\ res.frame.kind = "Ua"
  <1> DEFINE m == [s EXCEPT !.state = "Disconnected"]
             n == [m EXCEPT !.disconnectResponsePending = FALSE]
             t == ResetSequences(n)
             f == UFrame("Ua", s.role, "empty", DefaultSnrmParams, NoPayload)
  <1>1. \/ res = NoOutput("UnsupportedFrame", s)
        \/ res = Result("Ok", t, f) /\ s.disconnectResponsePending
    BY DEF BuildDisconnectResponse
  <1>2. f \in Frames /\ f.kind = "Ua"
    <2>1. s.role \in Roles /\ <<>> \in Seq(Nat) /\ DefaultSnrmParams \in SnrmParams
      BY DEF Session, DefaultSnrmParams, SnrmParams
    <2> QED
      BY <2>1 DEF UFrame, Frame, Frames, NoPayload
  <1> HIDE DEF f
  <1>3. m \in Session /\ Heir(s, m) /\ m.state = "Disconnected"
    BY StateHeir DEF Heir
  <1> HIDE DEF m
  <1>4. n \in Session /\ Heir(s, n) /\ n.state = "Disconnected"
    BY <1>3 DEF Heir, Session
  <1> HIDE DEF n
  <1>5. Heir(s, t) /\ t.state = "Disconnected"
    BY <1>4, ResetHeir DEF Heir
  <1> HIDE DEF t
  <1>6. Heir(s, s)
    BY DEF Heir
  <1> QED
    BY <1>1, <1>2, <1>5, <1>6 DEF Refuses, NoOutput, Result

\* An I-frame is written in the connected state and counts V(S) up.
LEMMA BuildInformationFrameState ==
  ASSUME NEW s \in Session, NEW size, NEW data \in Seq(Nat),
         NEW res, res = BuildInformationFrame(s, size, data)
  PROVE  /\ Heir(s, res.session) /\ res.session.state = s.state
         /\ \/ Refuses(s, res)
            \/ /\ res.status = "Ok" /\ s.state = "Connected"
               /\ res.frame \in Frames /\ res.frame.kind = "I"
  <1> DEFINE t == [s EXCEPT !.sendSequence = NextSequence(@)]
             f == Frame("I", s.role, s.sendSequence, s.receiveSequence, "empty",
                        DefaultSnrmParams, data)
  <1>1. \/ res = NoOutput("UnsupportedFrame", s)
        \/ res = NoOutput("InformationFieldTooLarge", s)
        \/ res = Result("Ok", t, f) /\ s.state = "Connected"
    BY DEF BuildInformationFrame
  <1>2. s.sendSequence \in 0..7 /\ s.receiveSequence \in 0..7 /\ s.role \in Roles
    BY DEF Session
  <1>3. f \in Frames /\ f.kind = "I"
    <2>1. DefaultSnrmParams \in SnrmParams
      BY DEF DefaultSnrmParams, SnrmParams
    <2> QED
      BY <1>2, <2>1 DEF Frame, Frames
  <1> HIDE DEF f
  <1>4. NextSequence(s.sendSequence) \in 0..7
    BY <1>2 DEF NextSequence
  <1>5. Heir(s, t) /\ t.state = s.state
    BY <1>4 DEF Heir, Session
  <1> HIDE DEF t
  <1>6. Heir(s, s)
    BY DEF Heir
  <1> QED
    BY <1>1, <1>3, <1>5, <1>6 DEF Refuses, NoOutput, Result

\* An RR is written in the connected state and changes nothing.
LEMMA BuildReceiveReadyFrameState ==
  ASSUME NEW s \in Session, NEW res, res = BuildReceiveReadyFrame(s)
  PROVE  /\ res.session = s
         /\ \/ Refuses(s, res)
            \/ /\ res.status = "Ok" /\ s.state = "Connected"
               /\ res.frame \in Frames /\ res.frame.kind = "S"
  <1> DEFINE f == Frame("S", s.role, 0, s.receiveSequence, "empty", DefaultSnrmParams, NoPayload)
  <1>1. \/ res = NoOutput("UnsupportedFrame", s)
        \/ res = Result("Ok", s, f) /\ s.state = "Connected"
    BY DEF BuildReceiveReadyFrame
  <1>2. f \in Frames /\ f.kind = "S"
    <2>1. s.receiveSequence \in 0..7 /\ s.role \in Roles /\ <<>> \in Seq(Nat)
          /\ DefaultSnrmParams \in SnrmParams
      BY DEF Session, DefaultSnrmParams, SnrmParams
    <2> QED
      BY <2>1 DEF Frame, Frames, NoPayload
  <1> HIDE DEF f
  <1> QED
    BY <1>1, <1>2 DEF Refuses, NoOutput, Result

=============================================================================
