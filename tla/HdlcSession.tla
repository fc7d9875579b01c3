----------------------------- MODULE HdlcSession -----------------------------
(***************************************************************************)
(* The HDLC session state machine of lib/dlms-hdlc (class HdlcSession), as *)
(* operators on one session record.  Every public member function that     *)
(* changes state is an operator that takes the session before the call and *)
(* returns a result record: the status, the session after the call and the *)
(* encoded frame, NoFrame when the call writes none.  The modules that     *)
(* compose sessions decide when the calls happen.                          *)
(*                                                                         *)
(* Data abstraction: an encoded frame is its decoded fields.  The          *)
(* Poll/Final bit is never read by the session and User_Information is     *)
(* passed through unread, so neither is kept.  The payload of an I-frame   *)
(* is opaque to the session.                                               *)
(***************************************************************************)
EXTENDS Integers

Roles == {"client", "server"}

Peer(role) == IF role = "client" THEN "server" ELSE "client"

SessionStates ==
  {"Disconnected", "AwaitingConnection", "Connected", "AwaitingDisconnect"}

\* Three-bit sequence numbers: N(S), N(R), V(S), V(R) and V(A).
SequenceNumbers == 0..7

kDefaultMaxInfoFieldLength == 128
kDefaultWindowSize == 1

\* Encoded size of the 81-80-len block that EncodeSnrmNegotiationBlock writes.
kNegotiationBlockSize == 23

(***************************************************************************)
(* Negotiation parameters.  SnrmParams is seen from the primary station    *)
(* (the client); limits are seen from the station that holds them.         *)
(***************************************************************************)
SnrmParams ==
  [maxInfoTx : Nat, maxInfoRx : Nat, windowTx : Nat, windowRx : Nat]

NegotiationLimits ==
  [maxTransmit : Nat, maxReceive : Nat, windowTransmit : Nat, windowReceive : Nat]

DefaultSnrmParams ==
  [maxInfoTx |-> kDefaultMaxInfoFieldLength,
   maxInfoRx |-> kDefaultMaxInfoFieldLength,
   windowTx  |-> kDefaultWindowSize,
   windowRx  |-> kDefaultWindowSize]

DefaultHdlcSessionNegotiationLimits ==
  [maxTransmit    |-> kDefaultMaxInfoFieldLength,
   maxReceive     |-> kDefaultMaxInfoFieldLength,
   windowTransmit |-> kDefaultWindowSize,
   windowReceive  |-> kDefaultWindowSize]

IsDefaultNegotiationLimits(l) == l = DefaultHdlcSessionNegotiationLimits

\* std::min
Smaller(a, b) == IF a <= b THEN a ELSE b

\* Mutant: the windows of the two directions swapped.
NegotiateParams_WindowsSwapped(proposed, local) ==
  [maxInfoTx |-> Smaller(proposed.maxInfoTx, local.maxReceive),
   maxInfoRx |-> Smaller(proposed.maxInfoRx, local.maxTransmit),
   windowTx  |-> Smaller(proposed.windowTx, local.windowTransmit),
   windowRx  |-> Smaller(proposed.windowRx, local.windowReceive)]

\* The secondary answers with the minimum of the proposal and its capability.
NegotiateParams(proposed, local) ==
  [maxInfoTx |-> Smaller(proposed.maxInfoTx, local.maxReceive),
   maxInfoRx |-> Smaller(proposed.maxInfoRx, local.maxTransmit),
   windowTx  |-> Smaller(proposed.windowTx, local.windowReceive),
   windowRx  |-> Smaller(proposed.windowRx, local.windowTransmit)]

\* Mutant: the two lengths written under each other's parameter identifier.
EncodeSnrmNegotiationBlock_LengthsSwapped(p) ==
  [maxInfoTx |-> p.maxInfoRx % 65536, maxInfoRx |-> p.maxInfoTx % 65536,
   windowTx  |-> p.windowTx % 256,    windowRx  |-> p.windowRx % 256]

\* EncodeSnrmNegotiationBlock keeps two bytes of a length and one of a window.
EncodeSnrmNegotiationBlock(p) ==
  [maxInfoTx |-> p.maxInfoTx % 65536, maxInfoRx |-> p.maxInfoRx % 65536,
   windowTx  |-> p.windowTx % 256,    windowRx  |-> p.windowRx % 256]

(***************************************************************************)
(* Frames.  "info" says what ParseSnrmInfoField makes of the Information   *)
(* field of a U-frame: "empty" (no negotiation block), "block" (params are *)
(* meaningful) or "bad" (an unknown tag or a malformed block).             *)
(***************************************************************************)
FrameKinds == {"I", "S", "Snrm", "Ua", "Disc", "Dm", "Frmr", "Ui"}

NoPayload == <<>>

Frame(kind, src, ns, nr, info, params, data) ==
  [kind |-> kind, src |-> src, ns |-> ns, nr |-> nr,
   info |-> info, params |-> params, data |-> data]

UFrame(kind, src, info, params, data) ==
  Frame(kind, src, 0, 0, info, params, data)

NoFrame == UFrame("none", "none", "empty", DefaultSnrmParams, NoPayload)

Result(status, session, frame) ==
  [status |-> status, session |-> session, frame |-> frame]

\* A call that writes no frame: a receive, or a build that failed.
NoOutput(status, s) == Result(status, s, NoFrame)

-----------------------------------------------------------------------------
(***************************************************************************)
(* The session object.                                                     *)
(***************************************************************************)
Session ==
  [role : Roles,
   local : NegotiationLimits,
   state : SessionStates,
   sendSequence : SequenceNumbers,
   receiveSequence : SequenceNumbers,
   acknowledgeSequence : SequenceNumbers,
   connectResponsePending : BOOLEAN,
   disconnectResponsePending : BOOLEAN,
   dmResponsePending : BOOLEAN,
   pendingActive : BOOLEAN,
   pending : SnrmParams,
   negotiated : NegotiationLimits,
   windowSizeTransmit : Nat,
   maximumInformationFieldSize : Nat]

\* Zero fields of the options stand for the protocol defaults.
Normalise(l) ==
  [maxTransmit    |-> IF l.maxTransmit = 0 THEN kDefaultMaxInfoFieldLength ELSE l.maxTransmit,
   maxReceive     |-> IF l.maxReceive = 0 THEN kDefaultMaxInfoFieldLength ELSE l.maxReceive,
   windowTransmit |-> IF l.windowTransmit = 0 THEN kDefaultWindowSize ELSE l.windowTransmit,
   windowReceive  |-> IF l.windowReceive = 0 THEN kDefaultWindowSize ELSE l.windowReceive]

\* The constructor; codecMax is options.limits.maximumInformationFieldSize, 0
\* when the limit is derived from the frame size.
NewSession(role, limits, codecMax) ==
  [role |-> role,
   local |-> Normalise(limits),
   state |-> "Disconnected",
   sendSequence |-> 0,
   receiveSequence |-> 0,
   acknowledgeSequence |-> 0,
   connectResponsePending |-> FALSE,
   disconnectResponsePending |-> FALSE,
   dmResponsePending |-> FALSE,
   pendingActive |-> FALSE,
   pending |-> DefaultSnrmParams,
   negotiated |-> Normalise(limits),
   windowSizeTransmit |-> Normalise(limits).windowTransmit,
   maximumInformationFieldSize |-> codecMax]

\* Mutant: no wrap.
NextSequence_NoWrap(n) == n + 1

\* Sequence numbers advance modulo 8.
NextSequence(n) == (n + 1) % 8

ResetSequences(s) ==
  [s EXCEPT !.sendSequence = 0, !.receiveSequence = 0, !.acknowledgeSequence = 0]

\* V(S) - V(A) mod 8: the I-frames sent and not acknowledged.
Outstanding(s) == (s.sendSequence - s.acknowledgeSequence) % 8

CanSendInformationFrame(s) == Outstanding(s) < s.windowSizeTransmit

\* EncodeFrame accepts an Information field of this size.
InformationFits(s, size) ==
  \/ s.maximumInformationFieldSize = 0
  \/ size <= s.maximumInformationFieldSize

-----------------------------------------------------------------------------
(***************************************************************************)
(* Build methods.                                                          *)
(***************************************************************************)
Proposal(l) ==
  [maxInfoTx |-> l.maxTransmit,    maxInfoRx |-> l.maxReceive,
   windowTx  |-> l.windowTransmit, windowRx  |-> l.windowReceive]

\* The Information field of an SNRM or UA with or without a negotiation block.
NegotiationFrame(kind, s, include, p) ==
  IF include
  THEN UFrame(kind, s.role, "block", EncodeSnrmNegotiationBlock(p), NoPayload)
  ELSE UFrame(kind, s.role, "empty", DefaultSnrmParams, NoPayload)

NegotiationSize(include) == IF include THEN kNegotiationBlockSize ELSE 0

\* The overload with user information always includes the block; userSize is
\* the length of that user information, 0 for the plain overload.
BuildConnectRequestInternal(s, includeNegotiation, userSize) ==
  IF s.role # "client" THEN NoOutput("UnsupportedFeature", s)
  ELSE IF s.state # "Disconnected" THEN NoOutput("UnsupportedFrame", s)
  ELSE IF ~InformationFits(s, NegotiationSize(includeNegotiation) + userSize)
    THEN NoOutput("InformationFieldTooLarge", s)
  ELSE Result("Ok",
              ResetSequences([s EXCEPT !.state = "AwaitingConnection"]),
              NegotiationFrame("Snrm", s, includeNegotiation, Proposal(s.local)))

BuildConnectRequest(s) ==
  BuildConnectRequestInternal(s, ~IsDefaultNegotiationLimits(s.local), 0)

\* The window, the codec limit and the negotiated limits that one side adopts:
\* it transmits up to maxTx with window winTx and receives up to maxRx, winRx.
AdoptNegotiation(s, maxTx, maxRx, winTx, winRx) ==
  [s EXCEPT !.negotiated = [maxTransmit |-> maxTx, maxReceive |-> maxRx,
                            windowTransmit |-> winTx % 256,
                            windowReceive |-> winRx % 256],
            !.maximumInformationFieldSize = maxTx,
            !.windowSizeTransmit = winTx % 256]

\* Negotiation is applied before the UA is built, so a UA that the new limits
\* cannot carry leaves them changed and the response still pending.
BuildConnectResponse(s) ==
  LET n == NegotiateParams(s.pending, s.local)
      adopted == IF s.pendingActive
                 THEN AdoptNegotiation(s, n.maxInfoRx, n.maxInfoTx, n.windowRx, n.windowTx)
                 ELSE s
  IN IF s.role # "server" THEN NoOutput("UnsupportedFeature", s)
     ELSE IF ~s.connectResponsePending THEN NoOutput("UnsupportedFrame", s)
     ELSE IF ~InformationFits(adopted, NegotiationSize(s.pendingActive))
       THEN NoOutput("InformationFieldTooLarge", adopted)
     ELSE Result("Ok",
                 ResetSequences([adopted EXCEPT !.state = "Connected",
                                                !.connectResponsePending = FALSE,
                                                !.pendingActive = FALSE]),
                 NegotiationFrame("Ua", s, s.pendingActive, n))

BuildDisconnectRequest(s) ==
  IF s.state # "Connected" THEN NoOutput("UnsupportedFrame", s)
  ELSE Result("Ok", [s EXCEPT !.state = "AwaitingDisconnect"],
              UFrame("Disc", s.role, "empty", DefaultSnrmParams, NoPayload))

BuildDisconnectResponse(s) ==
  IF ~s.disconnectResponsePending THEN NoOutput("UnsupportedFrame", s)
  ELSE Result("Ok",
              ResetSequences([s EXCEPT !.state = "Disconnected",
                                       !.disconnectResponsePending = FALSE]),
              UFrame("Ua", s.role, "empty", DefaultSnrmParams, NoPayload))

BuildDmResponse(s) ==
  IF ~s.dmResponsePending THEN NoOutput("UnsupportedFrame", s)
  ELSE Result("Ok", [s EXCEPT !.dmResponsePending = FALSE],
              UFrame("Dm", s.role, "empty", DefaultSnrmParams, NoPayload))

BuildInformationFrame(s, size, data) ==
  IF s.state # "Connected" \/ ~CanSendInformationFrame(s)
  THEN NoOutput("UnsupportedFrame", s)
  ELSE IF ~InformationFits(s, size) THEN NoOutput("InformationFieldTooLarge", s)
  ELSE Result("Ok", [s EXCEPT !.sendSequence = NextSequence(@)],
              Frame("I", s.role, s.sendSequence, s.receiveSequence,
                    "empty", DefaultSnrmParams, data))

\* Mutant: acknowledges one frame too many.
BuildReceiveReadyFrame_AcksNext(s) ==
  IF s.state # "Connected" THEN NoOutput("UnsupportedFrame", s)
  ELSE Result("Ok", s, Frame("S", s.role, 0, NextSequence(s.receiveSequence),
                             "empty", DefaultSnrmParams, NoPayload))

BuildReceiveReadyFrame(s) ==
  IF s.state # "Connected" THEN NoOutput("UnsupportedFrame", s)
  ELSE Result("Ok", s, Frame("S", s.role, 0, s.receiveSequence,
                             "empty", DefaultSnrmParams, NoPayload))

-----------------------------------------------------------------------------
(***************************************************************************)
(* ReceiveFrame and its three handlers.                                    *)
(***************************************************************************)
IncomingAddressesMatch(s, f) == f.src = Peer(s.role)

\* Mutant: any N(R) is taken.
AcknowledgeInWindow_Unchecked(s, nr) == TRUE

\* N(R) is within [V(A), V(S)] modulo 8.
AcknowledgeInWindow(s, nr) ==
  (nr - s.acknowledgeSequence) % 8 <= (s.sendSequence - s.acknowledgeSequence) % 8

\* Mutant: N(S) is not compared with V(R).
ReceiveInformationFrame_AnyOrder(s, f) ==
  IF s.state # "Connected" THEN NoOutput("UnsupportedFrame", s)
  ELSE IF ~AcknowledgeInWindow(s, f.nr) THEN NoOutput("InvalidControlField", s)
  ELSE NoOutput("Ok", [s EXCEPT !.acknowledgeSequence = f.nr,
                                !.receiveSequence = NextSequence(@)])

ReceiveInformationFrame(s, f) ==
  IF s.state # "Connected" THEN NoOutput("UnsupportedFrame", s)
  ELSE IF f.ns # s.receiveSequence \/ ~AcknowledgeInWindow(s, f.nr)
    THEN NoOutput("InvalidControlField", s)
  ELSE NoOutput("Ok", [s EXCEPT !.acknowledgeSequence = f.nr,
                                !.receiveSequence = NextSequence(@)])

ReceiveSupervisoryFrame(s, f) ==
  IF s.state # "Connected" THEN NoOutput("UnsupportedFrame", s)
  ELSE IF ~AcknowledgeInWindow(s, f.nr) THEN NoOutput("InvalidControlField", s)
  ELSE NoOutput("Ok", [s EXCEPT !.acknowledgeSequence = f.nr])

\* Mutant: an SNRM is taken in every state.
MayBeConnected_AnyState(s) == s.role = "server"

\* Only a server that is down takes an SNRM.
MayBeConnected(s) == s.role = "server" /\ s.state = "Disconnected"

ReceiveSnrm(s, f) ==
  IF ~MayBeConnected(s) THEN NoOutput("UnsupportedFrame", s)
  ELSE IF f.info = "bad"
    THEN NoOutput("InvalidFrameFormat", [s EXCEPT !.pendingActive = FALSE,
                                                  !.dmResponsePending = TRUE])
  ELSE NoOutput("Ok",
         ResetSequences([s EXCEPT !.pendingActive = (f.info = "block"),
                                  !.pending = IF f.info = "block" THEN f.params ELSE @,
                                  !.connectResponsePending = TRUE]))

ReceiveUa(s, f) ==
  CASE s.state = "AwaitingConnection" ->
         LET adopted == IF f.info = "block"
                        THEN AdoptNegotiation(s, f.params.maxInfoTx, f.params.maxInfoRx,
                                              f.params.windowTx, f.params.windowRx)
                        ELSE s
         IN NoOutput("Ok", ResetSequences([adopted EXCEPT !.state = "Connected"]))
    [] s.state = "AwaitingDisconnect" ->
         NoOutput("Ok", ResetSequences([s EXCEPT !.state = "Disconnected"]))
    [] OTHER -> NoOutput("UnsupportedFrame", s)

\* Mutant: the DISC is accepted and forgotten.
ReceiveDisc_Forgotten(s, f) ==
  IF s.state # "Connected" THEN NoOutput("UnsupportedFrame", s) ELSE NoOutput("Ok", s)

ReceiveDisc(s, f) ==
  IF s.state # "Connected" THEN NoOutput("UnsupportedFrame", s)
  ELSE NoOutput("Ok", [s EXCEPT !.disconnectResponsePending = TRUE])

ReceiveDm(s, f) ==
  NoOutput("Ok", ResetSequences([s EXCEPT !.state = "Disconnected"]))

ReceiveUnnumberedFrame(s, f) ==
  CASE f.kind = "Snrm" -> ReceiveSnrm(s, f)
    [] f.kind = "Ua"   -> ReceiveUa(s, f)
    [] f.kind = "Disc" -> ReceiveDisc(s, f)
    [] f.kind = "Dm"   -> ReceiveDm(s, f)
    [] OTHER           -> NoOutput("UnsupportedFrame", s)

ReceiveFrame(s, f) ==
  IF ~IncomingAddressesMatch(s, f) THEN NoOutput("InvalidAddress", s)
  ELSE CASE f.kind = "I" -> ReceiveInformationFrame(s, f)
         [] f.kind = "S" -> ReceiveSupervisoryFrame(s, f)
         [] OTHER        -> ReceiveUnnumberedFrame(s, f)

=============================================================================
