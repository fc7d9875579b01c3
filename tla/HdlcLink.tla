------------------------------- MODULE HdlcLink -------------------------------
(***************************************************************************)
(* A client session and a server session (HdlcSession) joined by two       *)
(* first-in first-out wires that may lose frames.  SNRM and DISC are       *)
(* retransmitted as the profile channel does it, by writing the same       *)
(* encoded frame again; I-frames never are.                                *)
(*                                                                         *)
(* History: conn[r] numbers the connection r is in or is opening, an SNRM  *)
(* carries that number and an I-frame carries it with its index, so that a *)
(* receiver can be asked what it really accepted.  The sessions read       *)
(* neither.                                                                *)
(***************************************************************************)
EXTENDS HdlcSession, Sequences

CONSTANTS
  LinkLimits,      \* [Roles -> NegotiationLimits], the options of both sides
  InfoSize,        \* size of the Information fields that are sent
  Disconnecters,   \* the roles whose owner starts a disconnect
  MaxConn,         \* bound: connections the client opens
  LinkMaxSent,     \* [Roles -> Nat], bound: I-frames sent in a connection
  MaxRetries,      \* bound: retransmissions of one SNRM or DISC
  MaxLosses,       \* bound: frames lost
  MaxWire          \* bound: data frames and retransmissions queued on a wire

ASSUME LinkLimitsAssumption ==
  /\ LinkLimits \in [Roles -> NegotiationLimits]
  /\ \A r \in Roles : LinkLimits[r].windowTransmit <= 7
ASSUME LinkBoundsAssumption ==
  /\ InfoSize \in Nat /\ MaxConn \in Nat /\ MaxRetries \in Nat
  /\ MaxLosses \in Nat /\ MaxWire \in Nat
  /\ LinkMaxSent \in [Roles -> Nat]
  /\ Disconnecters \subseteq Roles

VARIABLES
  sessions,  \* [Roles -> Session]
  wire,      \* wire[r]: frames on their way to r
  request,   \* request[r]: the SNRM or DISC that r would retransmit
  retries,   \* retries[r]: how often r has retransmitted it
  losses,
  conn,      \* history, see above
  sentBy,    \* sentBy[r]: I-frames r has sent in connection conn[r]
  ackedBy,   \* ackedBy[r]: of these, how many r knows to be acknowledged
  rcvd,      \* rcvd[r]: I-frames r has accepted in connection conn[r]
  got        \* got[r]: the payload r accepted last

linkVars == <<sessions, wire, request, retries, losses, conn, sentBy, ackedBy, rcvd, got>>

\* I-frame i of connection c; an SNRM of connection c carries <<c>>.
Payload(c, i) == <<c, i>>

LinkInit ==
  /\ sessions = [r \in Roles |-> NewSession(r, LinkLimits[r], 0)]
  /\ wire = [r \in Roles |-> <<>>]
  /\ request = [r \in Roles |-> NoFrame]
  /\ retries = [r \in Roles |-> 0]
  /\ losses = 0
  /\ conn = [r \in Roles |-> 0]
  /\ sentBy = [r \in Roles |-> 0]
  /\ ackedBy = [r \in Roles |-> 0]
  /\ rcvd = [r \in Roles |-> 0]
  /\ got = [r \in Roles |-> Payload(0, 0)]

-----------------------------------------------------------------------------
Write(r, frame) == wire' = [wire EXCEPT ![Peer(r)] = Append(@, frame)]

\* The counters of the connection that r enters or leaves.
FreshCounters(r) ==
  /\ sentBy' = [sentBy EXCEPT ![r] = 0]
  /\ ackedBy' = [ackedBy EXCEPT ![r] = 0]
  /\ rcvd' = [rcvd EXCEPT ![r] = 0]
  /\ UNCHANGED got

SameCounters == UNCHANGED <<sentBy, ackedBy, rcvd, got>>

Connect ==
  LET res == BuildConnectRequest(sessions["client"])
      snrm == [res.frame EXCEPT !.data = <<conn["client"] + 1>>]
  IN /\ conn["client"] < MaxConn
     /\ res.status = "Ok"
     /\ sessions' = [sessions EXCEPT !["client"] = res.session]
     /\ Write("client", snrm)
     /\ request' = [request EXCEPT !["client"] = snrm]
     /\ retries' = [retries EXCEPT !["client"] = 0]
     /\ conn' = [conn EXCEPT !["client"] = @ + 1]
     /\ FreshCounters("client")
     /\ UNCHANGED losses

\* A UA that does not fit leaves the negotiated limits behind, see
\* BuildConnectResponse.
AnswerConnect ==
  LET res == BuildConnectResponse(sessions["server"])
  IN /\ sessions["server"].connectResponsePending
     /\ sessions' = [sessions EXCEPT !["server"] = res.session]
     /\ IF res.status = "Ok"
        THEN Write("server", res.frame) /\ FreshCounters("server")
        ELSE UNCHANGED wire /\ SameCounters
     /\ UNCHANGED <<request, retries, losses, conn>>

Disconnect(r) ==
  LET res == BuildDisconnectRequest(sessions[r])
  IN /\ r \in Disconnecters
     /\ res.status = "Ok"
     /\ sessions' = [sessions EXCEPT ![r] = res.session]
     /\ Write(r, res.frame)
     /\ request' = [request EXCEPT ![r] = res.frame]
     /\ retries' = [retries EXCEPT ![r] = 0]
     /\ SameCounters
     /\ UNCHANGED <<losses, conn>>

AnswerDisconnect(r) ==
  LET res == BuildDisconnectResponse(sessions[r])
  IN /\ res.status = "Ok"
     /\ sessions' = [sessions EXCEPT ![r] = res.session]
     /\ Write(r, res.frame)
     /\ FreshCounters(r)
     /\ UNCHANGED <<request, retries, losses, conn>>

\* The owner waits for an answer and its receive timed out.
Retransmit(r) ==
  /\ sessions[r].state \in {"AwaitingConnection", "AwaitingDisconnect"}
  /\ retries[r] < MaxRetries
  /\ Len(wire[Peer(r)]) < MaxWire
  /\ Write(r, request[r])
  /\ retries' = [retries EXCEPT ![r] = @ + 1]
  /\ SameCounters
  /\ UNCHANGED <<sessions, request, losses, conn>>

Send(r) ==
  LET res == BuildInformationFrame(sessions[r], InfoSize, Payload(conn[r], sentBy[r] + 1))
  IN /\ sentBy[r] < LinkMaxSent[r]
     /\ Len(wire[Peer(r)]) < MaxWire
     /\ res.status = "Ok"
     /\ sessions' = [sessions EXCEPT ![r] = res.session]
     /\ Write(r, res.frame)
     /\ sentBy' = [sentBy EXCEPT ![r] = @ + 1]
     /\ UNCHANGED <<request, retries, losses, conn, ackedBy, rcvd, got>>

SendReceiveReady(r) ==
  LET res == BuildReceiveReadyFrame(sessions[r])
  IN /\ Len(wire[Peer(r)]) < MaxWire
     /\ res.status = "Ok"
     /\ Write(r, res.frame)
     /\ SameCounters
     /\ UNCHANGED <<sessions, request, retries, losses, conn>>

\* The history of a frame that ReceiveFrame has processed with this status.
RecordReceipt(r, f, status) ==
  CASE status = "Ok" /\ f.kind = "I" ->
         /\ ackedBy' = [ackedBy EXCEPT ![r] = @ + ((f.nr - sessions[r].acknowledgeSequence) % 8)]
         /\ rcvd' = [rcvd EXCEPT ![r] = @ + 1]
         /\ got' = [got EXCEPT ![r] = f.data]
         /\ UNCHANGED <<conn, sentBy>>
    [] status = "Ok" /\ f.kind = "S" ->
         /\ ackedBy' = [ackedBy EXCEPT ![r] = @ + ((f.nr - sessions[r].acknowledgeSequence) % 8)]
         /\ UNCHANGED <<conn, sentBy, rcvd, got>>
    [] status = "Ok" /\ f.kind = "Snrm" ->
         /\ conn' = [conn EXCEPT ![r] = f.data[1]]
         /\ FreshCounters(r)
    [] status = "Ok" /\ f.kind = "Ua" ->
         /\ FreshCounters(r)
         /\ UNCHANGED conn
    [] OTHER -> SameCounters /\ UNCHANGED conn

Deliver(r) ==
  /\ wire[r] # <<>>
  /\ LET f == Head(wire[r])
         res == ReceiveFrame(sessions[r], f)
     IN /\ sessions' = [sessions EXCEPT ![r] = res.session]
        /\ RecordReceipt(r, f, res.status)
  /\ wire' = [wire EXCEPT ![r] = Tail(@)]
  /\ UNCHANGED <<request, retries, losses>>

Lose(r) ==
  /\ losses < MaxLosses
  /\ wire[r] # <<>>
  /\ wire' = [wire EXCEPT ![r] = Tail(@)]
  /\ losses' = losses + 1
  /\ SameCounters
  /\ UNCHANGED <<sessions, request, retries, conn>>

LinkNext ==
  \/ Connect
  \/ AnswerConnect
  \/ \E r \in Roles :
       \/ Disconnect(r)
       \/ AnswerDisconnect(r)
       \/ Retransmit(r)
       \/ Send(r)
       \/ SendReceiveReady(r)
       \/ Deliver(r)
       \/ Lose(r)

LinkSpec == LinkInit /\ [][LinkNext]_linkVars

\* Frames keep arriving and the owners of both sessions answer requests.
LinkFairness ==
  /\ \A r \in Roles : WF_linkVars(Deliver(r)) /\ WF_linkVars(AnswerDisconnect(r))
  /\ WF_linkVars(AnswerConnect)

FairLinkSpec == LinkSpec /\ LinkFairness

-----------------------------------------------------------------------------
(***************************************************************************)
(* Properties.                                                             *)
(***************************************************************************)
LinkTypeOK ==
  /\ sessions \in [Roles -> Session]
  /\ \A r \in Roles : sessions[r].role = r
  /\ losses \in 0..MaxLosses
  /\ \A r \in Roles :
       /\ conn[r] \in 0..MaxConn
       /\ sentBy[r] \in 0..LinkMaxSent[r]
       /\ ackedBy[r] \in Nat
       /\ rcvd[r] \in Nat
       /\ retries[r] \in 0..MaxRetries

BothConnected ==
  /\ \A r \in Roles : sessions[r].state = "Connected"
  /\ conn["client"] = conn["server"]

\* The n-th I-frame a station accepts in a connection is the n-th one its peer
\* sent in that same connection: a lost frame is never skipped by a wrap of
\* the three-bit numbers, none is accepted twice, and none comes from an
\* earlier connection.  It depends on the N(S) check, on the resets at SNRM
\* and UA, and on the window.
InOrderExactlyOnce ==
  \A r \in Roles : rcvd[r] > 0 => got[r] = Payload(conn[r], rcvd[r])

\* What a station takes for acknowledged its peer has really accepted, in the
\* same connection.
AcknowledgedWasAccepted ==
  BothConnected => \A r \in Roles : ackedBy[r] <= rcvd[Peer(r)]

\* Two connected stations agree on the limits of both directions.
NegotiationAgreed ==
  BothConnected =>
    \A r \in Roles :
      LET mine == sessions[r].negotiated
          theirs == sessions[Peer(r)].negotiated
      IN /\ mine.maxTransmit = theirs.maxReceive
         /\ mine.windowTransmit = theirs.windowReceive

\* A connected station never sends longer fields or more frames than the
\* options of its peer allow the peer to receive.
PeerCanReceive ==
  BothConnected =>
    \A r \in Roles :
      LET peer == sessions[Peer(r)].local
      IN /\ sessions[r].negotiated.maxTransmit <= peer.maxReceive
         /\ sessions[r].windowSizeTransmit <= peer.windowReceive

\* A request of the data link completes when no frame is lost and only one side
\* disconnects: a client that waits for the UA of its SNRM gets connected, and a
\* station that waits for the UA of its DISC becomes Disconnected.
RequestsComplete ==
  /\ sessions["client"].state = "AwaitingConnection" ~> sessions["client"].state = "Connected"
  /\ \A r \in Disconnecters :
       sessions[r].state = "AwaitingDisconnect" ~> sessions[r].state = "Disconnected"

=============================================================================
