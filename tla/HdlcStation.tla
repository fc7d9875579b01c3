----------------------------- MODULE HdlcStation -----------------------------
(***************************************************************************)
(* One HdlcSession object used against an arbitrary peer: the owner may    *)
(* call any build method at any moment and any decoded frame may arrive,   *)
(* in any order, from either address.  Nothing is assumed of the peer but  *)
(* the windows its negotiation blocks announce.                            *)
(*                                                                         *)
(* sent and acked are history variables: how many I-frames the station has *)
(* built, and how many of them the peer has acknowledged, since the        *)
(* sequence variables were last reset.  MaxSent bounds them.               *)
(***************************************************************************)
EXTENDS HdlcSession

CONSTANTS
  Limits,      \* its negotiation limits, zero meaning the default
  CodecMax,    \* its information field limit before negotiation, zero for none
  PeerParams,  \* the parameters a peer may put into a negotiation block
  InfoSizes,   \* sizes of the Information fields the owner sends
  MaxSent      \* bound on I-frames between two resets

ASSUME LimitsAssumption == Limits \in NegotiationLimits
ASSUME CodecAssumption == CodecMax \in Nat
ASSUME PeerAssumption == PeerParams \subseteq SnrmParams
ASSUME InfoAssumption == InfoSizes \subseteq Nat
ASSUME MaxSentAssumption == MaxSent \in Nat

\* Three-bit sequence numbers leave room for a window of at most 7.
ASSUME WindowAssumption ==
  /\ Limits.windowTransmit <= 7
  /\ \A p \in PeerParams : p.windowTx <= 7

VARIABLES session, sent, acked

vars == <<session, sent, acked>>

\* Everything that can come out of the decoder and be handed to ReceiveFrame.
NumberedFrames ==
  {Frame(k, src, ns, nr, "empty", DefaultSnrmParams, NoPayload) :
     k \in {"I", "S"}, src \in Roles, ns \in SequenceNumbers, nr \in SequenceNumbers}

UnnumberedFrames ==
  {UFrame(k, src, info, p, NoPayload) :
     k \in FrameKinds \ {"I", "S"}, src \in Roles,
     info \in {"empty", "block", "bad"}, p \in PeerParams}

IncomingFrames == NumberedFrames \cup UnnumberedFrames

-----------------------------------------------------------------------------
Init ==
  /\ \E role \in Roles : session = NewSession(role, Limits, CodecMax)
  /\ sent = 0
  /\ acked = 0

\* A call that resets the sequence variables when it succeeds.
ResettingCall(r) ==
  /\ session' = r.session
  /\ sent' = IF r.status = "Ok" THEN 0 ELSE sent
  /\ acked' = IF r.status = "Ok" THEN 0 ELSE acked

\* A call that leaves the sequence variables alone.
PlainCall(r) ==
  /\ session' = r.session
  /\ UNCHANGED <<sent, acked>>

ConnectRequest ==
  \/ ResettingCall(BuildConnectRequest(session))
  \/ \E size \in InfoSizes :
       ResettingCall(BuildConnectRequestInternal(session, TRUE, size))

ConnectResponse == ResettingCall(BuildConnectResponse(session))

DisconnectRequest == PlainCall(BuildDisconnectRequest(session))

DisconnectResponse == ResettingCall(BuildDisconnectResponse(session))

DmResponse == PlainCall(BuildDmResponse(session))

SendInformation ==
  \E size \in InfoSizes :
    LET r == BuildInformationFrame(session, size, NoPayload)
    IN /\ sent < MaxSent
       /\ session' = r.session
       /\ sent' = IF r.status = "Ok" THEN sent + 1 ELSE sent
       /\ UNCHANGED acked

ReceiveReady == PlainCall(BuildReceiveReadyFrame(session))

\* The I- or S-frame f advances V(A) to N(R).
ReceiveNumbered ==
  \E f \in NumberedFrames :
    LET r == ReceiveFrame(session, f)
    IN /\ session' = r.session
       /\ acked' = IF r.status = "Ok"
                   THEN acked + ((f.nr - session.acknowledgeSequence) % 8)
                   ELSE acked
       /\ UNCHANGED sent

\* An accepted SNRM, UA or DM resets the sequence variables; a DISC does not.
ReceiveUnnumbered ==
  \E f \in UnnumberedFrames :
    LET r == ReceiveFrame(session, f)
    IN IF f.kind = "Disc" THEN PlainCall(r) ELSE ResettingCall(r)

Next ==
  \/ ConnectRequest
  \/ ConnectResponse
  \/ DisconnectRequest
  \/ DisconnectResponse
  \/ DmResponse
  \/ SendInformation
  \/ ReceiveReady
  \/ ReceiveNumbered
  \/ ReceiveUnnumbered

Spec == Init /\ [][Next]_vars

-----------------------------------------------------------------------------
(***************************************************************************)
(* Properties.                                                             *)
(***************************************************************************)

\* The session object keeps its types: every sequence variable stays a
\* three-bit number whatever the peer sends.
TypeOK ==
  /\ session \in Session
  /\ sent \in Nat
  /\ acked \in Nat

\* What V(S) - V(A) mod 8 says is the truth: it is the number of I-frames sent
\* and not acknowledged since the last reset, that number never exceeds the
\* window in force, and no acknowledgement covers a frame that was not sent.
\* It would fail if a window were adopted while frames are outstanding, if an
\* N(R) outside [V(A), V(S)] were accepted, or with a window over 7.
WindowSafety ==
  /\ acked <= sent
  /\ sent - acked <= session.windowSizeTransmit
  /\ Outstanding(session) = sent - acked
  /\ session.windowSizeTransmit <= 7

\* A session that is not yet connected has nothing outstanding, so that a
\* connection can never inherit the counters of the previous one.
FreshWhenNotConnected ==
  session.state \in {"Disconnected", "AwaitingConnection"} =>
    /\ sent = 0 /\ acked = 0
    /\ session.sendSequence = 0
    /\ session.receiveSequence = 0
    /\ session.acknowledgeSequence = 0

\* An SNRM is answered by a UA only from Disconnected: the pending answer can
\* never reset the sequence variables of a connection that is already up.
ConnectAnswerOnlyWhenDown ==
  session.connectResponsePending =>
    session.role = "server" /\ session.state = "Disconnected"

\* A server that has negotiated never promises more than its own options allow.
ServerWithinCapability ==
  session.role = "server" =>
    /\ session.negotiated.maxTransmit <= session.local.maxTransmit
    /\ session.negotiated.maxReceive <= session.local.maxReceive
    /\ session.negotiated.windowTransmit <= session.local.windowTransmit
    /\ session.negotiated.windowReceive <= session.local.windowReceive

=============================================================================
