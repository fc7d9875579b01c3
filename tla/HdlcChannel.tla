----------------------------- MODULE HdlcChannel -----------------------------
(***************************************************************************)
(* Two HdlcProfileChannel objects in session mode (lib/dlms-profile), a    *)
(* client and a server, over a byte stream.  A call on a channel is a      *)
(* sequence of steps that ends at each read of the stream, so that the two *)
(* ends interleave where the code can: between a write and the next read.  *)
(*                                                                         *)
(* Data abstraction.  An APDU is a number; its LLC LPDU is cut into chunks *)
(* <<apdu, i, n>>, chunk i of n, of which only the first carries the LLC   *)
(* header.  A frame is segmented when its chunk is not the last.  One read *)
(* of the stream returns one or more whole frames (a partial frame is a    *)
(* read that has not happened yet), nothing for now, or bytes that do not  *)
(* decode, in which case every frame of that read is gone.  The transport  *)
(* connection may break; stream_.IsOpen() does not notice, but what was in *)
(* flight is gone and every later read and write fails.                    *)
(***************************************************************************)
EXTENDS HdlcSession, Sequences

CONSTANTS
  Limits,          \* [Roles -> NegotiationLimits]
  RetryCount,      \* options.hdlcRetryCount
  ReassemblyLimit, \* chunks that fit maximumReassembledInformationSize
  ChunkCounts,     \* numbers of chunks an APDU may need
  MaxApdus,        \* [Roles -> Nat], bound: APDUs sent
  MaxFaults,       \* bound: reads that return nothing for now or do not decode,
                   \* and connections that are refused
  MaxOpens,        \* bound: transport connections after the first
  SendAfterFailure \* TRUE if owners use a channel again after a failed SendApdu

ASSUME ChannelAssumption ==
  /\ Limits \in [Roles -> NegotiationLimits]
  /\ RetryCount \in Nat /\ ReassemblyLimit \in Nat
  /\ ChunkCounts \subseteq Nat \ {0}
  /\ MaxApdus \in [Roles -> Nat]
  /\ MaxFaults \in Nat /\ MaxOpens \in Nat
  /\ SendAfterFailure \in BOOLEAN

VARIABLES
  channel,   \* [Roles -> channel record]
  wire,      \* wire[r]: frames on their way to r
  call,      \* call[r]: the call r's owner is in
  outcome,   \* outcome[r]: operation and status of the last finished call
  apdus,     \* apdus[r]: number of APDUs r's owner has passed to SendApdu
  returned,  \* returned[r]: the APDUs that ReceiveApdu has returned at r
  up,        \* the transport connection works
  faults,    \* reads that returned nothing or did not decode, and refusals
  opens      \* transport connections after the first

vars == <<channel, wire, call, outcome, apdus, returned, up, faults, opens>>

-----------------------------------------------------------------------------
(***************************************************************************)
(* The channel object.                                                     *)
(***************************************************************************)
NewChannel(r) ==
  [session |-> NewSession(r, Limits[r], 0),
   reassembler |-> <<>>,
   pendingHdlcFrames |-> <<>>,
   pendingApdus |-> <<>>]

\* A session that is not Disconnected is kept, whatever became of its link.
EnsureSession(r, c) ==
  IF c.session.state = "Disconnected"
  THEN [c EXCEPT !.session = NewSession(r, Limits[r], 0),
                 !.reassembler = <<>>,
                 !.pendingHdlcFrames = <<>>]
  ELSE c

\* Close clears every buffer and leaves the session as it is.
ClosedChannel(c) ==
  [c EXCEPT !.reassembler = <<>>, !.pendingHdlcFrames = <<>>, !.pendingApdus = <<>>]

Segmented(f) == f.kind = "I" /\ f.data[2] < f.data[3]

\* The Information field as the reassembler sees it: the chunks of an I-frame,
\* something that is no LPDU for a negotiation block, nothing otherwise.
Information(f) ==
  CASE f.kind = "I" -> <<f.data>>
    [] f.info = "block" -> << <<0, 0, 0>> >>
    [] OTHER -> <<>>

\* Mutant: the final chunk is not appended.
PushFrame_LosesFinalChunk(pending, f) ==
  IF Segmented(f)
  THEN [status |-> "NeedMoreData", pending |-> pending \o Information(f), completed |-> <<>>]
  ELSE [status |-> "Ok", pending |-> <<>>,
        completed |-> IF pending = <<>> THEN Information(f) ELSE pending]

\* HdlcReassembler::PushFrame on the pending chunks.
PushFrame(pending, f) ==
  LET all == pending \o Information(f)
  IN IF pending # <<>> /\ f.kind # "I"
     THEN [status |-> "InvalidFrame", pending |-> <<>>, completed |-> <<>>]
     ELSE IF Len(all) > ReassemblyLimit
     THEN [status |-> "PayloadTooLarge", pending |-> <<>>, completed |-> <<>>]
     ELSE IF Segmented(f)
     THEN [status |-> "NeedMoreData", pending |-> all, completed |-> <<>>]
     ELSE [status |-> "Ok", pending |-> <<>>, completed |-> all]

\* DecodeLpdu finds the LLC header at the start of the first chunk.
DecodesAsLpdu(chunks) == chunks[1][2] = 1

\* What a step of a call leaves behind: status, channel and frame to write.
Step(status, c, frame) == [status |-> status, channel |-> c, frame |-> frame]

MapHdlcStatus(status) ==
  CASE status = "Ok" -> "Ok"
    [] status \in {"InvalidControlField", "InvalidFrameFormat"} -> "InvalidFrame"
    [] status = "InvalidAddress" -> "InvalidAddress"
    [] status = "InformationFieldTooLarge" -> "PayloadTooLarge"
    [] OTHER -> "UnsupportedFeature"

\* The reassembler sees a frame before the session has accepted it; a frame
\* the session rejects resets the reassembler.
DecodeFrameToPendingApdu(c, f) ==
  LET pushed == PushFrame(c.reassembler, f)
      received == ReceiveFrame(c.session, f)
      status == MapHdlcStatus(received.status)
      reset == [c EXCEPT !.reassembler = <<>>, !.session = received.session]
      accepted == [c EXCEPT !.reassembler = pushed.pending, !.session = received.session]
      rr == BuildReceiveReadyFrame(received.session)
  IN IF pushed.status \notin {"Ok", "NeedMoreData"}
     THEN Step(pushed.status, [c EXCEPT !.reassembler = <<>>], NoFrame)
     ELSE IF status # "Ok" THEN Step(status, reset, NoFrame)
     ELSE IF pushed.status = "NeedMoreData"
     THEN Step(IF rr.status = "Ok" THEN "NeedMoreData" ELSE MapHdlcStatus(rr.status),
               accepted, rr.frame)
     ELSE IF pushed.completed = <<>> THEN Step("Ok", accepted, NoFrame)
     ELSE IF ~DecodesAsLpdu(pushed.completed) THEN Step("InvalidFrame", accepted, NoFrame)
     ELSE Step("Ok", [accepted EXCEPT !.pendingApdus = Append(@, pushed.completed)], NoFrame)

\* Mutant: the status of the session is not looked at.
ReceiveSessionControlFrame_AnyStatus(c, f) ==
  IF f.kind = "I" THEN DecodeFrameToPendingApdu(c, f)
  ELSE Step("Ok", [c EXCEPT !.session = ReceiveFrame(c.session, f).session], NoFrame)

ReceiveSessionControlFrame(c, f) ==
  IF f.kind = "I" THEN DecodeFrameToPendingApdu(c, f)
  ELSE LET received == ReceiveFrame(c.session, f)
       IN Step(MapHdlcStatus(received.status),
               [c EXCEPT !.session = received.session], NoFrame)

-----------------------------------------------------------------------------
(***************************************************************************)
(* Calls.                                                                  *)
(***************************************************************************)
\* attempt and frame belong to a request that is retried, apdu, chunk and
\* count to SendApdu; checked says that its window check is behind it.
Call(op, frame, apdu, count) ==
  [op |-> op, frame |-> frame, attempt |-> 0,
   apdu |-> apdu, chunk |-> 1, count |-> count, checked |-> FALSE]

Idle == Call("idle", NoFrame, 0, 0)

Init ==
  /\ channel = [r \in Roles |-> NewChannel(r)]
  /\ wire = [r \in Roles |-> <<>>]
  /\ call = [r \in Roles |-> Idle]
  /\ outcome = [r \in Roles |-> <<"none", "Ok">>]
  /\ apdus = [r \in Roles |-> 0]
  /\ returned = [r \in Roles |-> << >>]
  /\ up = TRUE
  /\ faults = 0
  /\ opens = 0

\* WriteFrameBytes after a step with this status.
Written(status, frame) == IF frame # NoFrame /\ ~up THEN "ConnectionClosed" ELSE status

\* r's channel becomes c and, unless it is NoFrame, frame is written; w is the
\* wires without what r has just read.  The session has advanced even when the
\* write fails.
Put(r, w, c, frame) ==
  /\ channel' = [channel EXCEPT ![r] = c]
  /\ wire' = IF frame = NoFrame \/ ~up THEN w
             ELSE [w EXCEPT ![Peer(r)] = Append(@, frame)]

Return(r, status) ==
  /\ call' = [call EXCEPT ![r] = Idle]
  /\ outcome' = [outcome EXCEPT ![r] = <<call[r].op, status>>]

Continue(r, c) ==
  /\ call' = [call EXCEPT ![r] = c]
  /\ UNCHANGED outcome

\* A call that is refused before it has touched the stream.
Refuse(r, op, status) ==
  /\ outcome' = [outcome EXCEPT ![r] = <<op, status>>]
  /\ UNCHANGED call

SameBudgets == UNCHANGED <<up, faults, opens>>

MayCall(r) ==
  /\ call[r].op = "idle"
  /\ SendAfterFailure \/ outcome[r][1] # "send" \/ outcome[r][2] = "Ok"

ConnectDataLink ==
  LET c == EnsureSession("client", channel["client"])
      res == BuildConnectRequest(c.session)
      status == Written(MapHdlcStatus(res.status), res.frame)
  IN /\ MayCall("client")
     /\ Put("client", wire, [c EXCEPT !.session = res.session], res.frame)
     /\ IF status = "Ok"
        THEN Continue("client", Call("connect", res.frame, 0, 0))
        ELSE Refuse("client", "connect", status)
     /\ UNCHANGED <<apdus, returned>>
     /\ SameBudgets

AcceptDataLink ==
  /\ MayCall("server")
  /\ Put("server", wire, EnsureSession("server", channel["server"]), NoFrame)
  /\ Continue("server", Call("accept", NoFrame, 0, 0))
  /\ UNCHANGED <<apdus, returned>>
  /\ SameBudgets

DisconnectDataLink(r) ==
  LET c == channel[r]
      res == BuildDisconnectRequest(c.session)
      status == Written(MapHdlcStatus(res.status), res.frame)
  IN /\ MayCall(r)
     /\ Put(r, wire, [c EXCEPT !.session = res.session], res.frame)
     /\ IF status = "Ok"
        THEN Continue(r, Call("disconnect", res.frame, 0, 0))
        ELSE Refuse(r, "disconnect", status)
     /\ UNCHANGED <<apdus, returned>>
     /\ SameBudgets

AcceptDisconnectDataLink ==
  /\ MayCall("server")
  /\ Continue("server", Call("acceptDisconnect", NoFrame, 0, 0))
  /\ UNCHANGED <<channel, wire, apdus, returned>>
  /\ SameBudgets

SendApdu(r) ==
  /\ MayCall(r)
  /\ apdus[r] < MaxApdus[r]
  /\ IF channel[r].session.state = "Connected"
     THEN /\ \E n \in ChunkCounts : Continue(r, Call("send", NoFrame, apdus[r] + 1, n))
          /\ apdus' = [apdus EXCEPT ![r] = @ + 1]
     ELSE Refuse(r, "send", "NotOpen") /\ UNCHANGED apdus
  /\ UNCHANGED <<channel, wire, returned>>
  /\ SameBudgets

\* One pass of the loop of SendSessionInformation.
SendChunk(r) ==
  LET c == channel[r]
      k == call[r]
      res == BuildInformationFrame(c.session, 1, <<k.apdu, k.chunk, k.count>>)
      status == Written(MapHdlcStatus(res.status), res.frame)
  IN /\ k.op = "send"
     /\ k.checked \/ CanSendInformationFrame(c.session)
     /\ Put(r, wire, [c EXCEPT !.session = res.session], res.frame)
     /\ IF status # "Ok" \/ k.chunk = k.count
        THEN Return(r, status)
        ELSE Continue(r, [k EXCEPT !.chunk = @ + 1, !.checked = FALSE])
     /\ UNCHANGED <<apdus, returned>>
     /\ SameBudgets

\* Mutant: a pending APDU is returned and not removed.
WithoutFront_Kept(c) == c

\* The APDU in front of the pending ones is removed when it is returned.
WithoutFront(c) == [c EXCEPT !.pendingApdus = Tail(@)]

\* ReceiveApdu of r returns the APDU in front of c's pending ones.
HandOut(r, c) ==
  returned' = [returned EXCEPT ![r] = Append(@, Head(c.pendingApdus))]

ReceiveApdu(r) ==
  /\ MayCall(r)
  /\ IF channel[r].pendingApdus # <<>>
     THEN /\ channel' = [channel EXCEPT ![r] = WithoutFront(@)]
          /\ HandOut(r, channel[r])
          /\ Refuse(r, "receive", "Ok")
     ELSE /\ Continue(r, Call("receive", NoFrame, 0, 0))
          /\ UNCHANGED <<channel, returned>>
  /\ UNCHANGED <<wire, apdus>>
  /\ SameBudgets

-----------------------------------------------------------------------------
(***************************************************************************)
(* Reads.                                                                  *)
(***************************************************************************)
Waiting(r) ==
  \/ call[r].op \in {"connect", "accept", "disconnect", "acceptDisconnect", "receive"}
  \/ call[r].op = "send" /\ ~call[r].checked /\ ~CanSendInformationFrame(channel[r].session)

\* The answer to an accepted SNRM or DISC.
Answer(r, w, step, res) ==
  LET frame == IF step.status = "Ok" THEN res.frame ELSE step.frame
      status == IF step.status = "Ok" THEN MapHdlcStatus(res.status) ELSE step.status
      c == IF step.status = "Ok" THEN [step.channel EXCEPT !.session = res.session]
           ELSE step.channel
  IN /\ Put(r, w, c, frame)
     /\ Return(r, Written(status, frame))
     /\ UNCHANGED <<apdus, returned>>

\* A read that could not be used for the request: write it again or give up.
\* kept is the channel after the read.
RetryOrReturn(r, w, kept, status) ==
  /\ IF status \in {"Timeout", "NeedMoreData"} /\ call[r].attempt < RetryCount
     THEN /\ Put(r, w, kept, call[r].frame)
          /\ IF up THEN Continue(r, [call[r] EXCEPT !.attempt = @ + 1])
                   ELSE Return(r, "ConnectionClosed")
     ELSE /\ Put(r, w, kept, NoFrame)
          /\ Return(r, status)
  /\ UNCHANGED <<apdus, returned>>

\* The call that waits takes frame f; c is the channel without it.
TakeFrame(r, w, c, f) ==
  LET control == ReceiveSessionControlFrame(c, f)
      data == DecodeFrameToPendingApdu(c, f)
      status == Written(data.status, data.frame)
  IN CASE call[r].op \in {"connect", "disconnect"} ->
            RetryOrReturn(r, w, control.channel, control.status)
       [] call[r].op = "accept" ->
            Answer(r, w, control, BuildConnectResponse(control.channel.session))
       [] call[r].op = "acceptDisconnect" ->
            Answer(r, w, control, BuildDisconnectResponse(control.channel.session))
       [] call[r].op = "send" ->
            /\ Put(r, w, control.channel, control.frame)
            /\ IF control.status = "Ok"
               THEN Continue(r, [call[r] EXCEPT !.checked = TRUE])
               ELSE Return(r, Written(control.status, control.frame))
            /\ UNCHANGED <<apdus, returned>>
       [] OTHER ->
            IF status = "Ok" /\ data.channel.pendingApdus # <<>>
            THEN /\ Put(r, w, WithoutFront(data.channel), data.frame)
                 /\ Return(r, "Ok")
                 /\ HandOut(r, data.channel)
                 /\ UNCHANGED apdus
            ELSE /\ Put(r, w, data.channel, data.frame)
                 /\ IF status \in {"Ok", "NeedMoreData"}
                    THEN UNCHANGED <<call, outcome>>
                    ELSE Return(r, status)
                 /\ UNCHANGED <<apdus, returned>>

\* ReceiveDecodedFrame: a frame left over from an earlier read, or the first
\* of the frames that this read returns.
ReadFrame(r) ==
  /\ Waiting(r)
  /\ LET c == channel[r]
         queued == c.pendingHdlcFrames
     IN \/ /\ queued # <<>>
           /\ TakeFrame(r, wire, [c EXCEPT !.pendingHdlcFrames = Tail(@)], Head(queued))
        \/ /\ queued = <<>>
           /\ \E k \in 1..Len(wire[r]) :
                TakeFrame(r, [wire EXCEPT ![r] = SubSeq(@, k + 1, Len(@))],
                          [c EXCEPT !.pendingHdlcFrames = SubSeq(wire[r], 2, k)],
                          Head(wire[r]))
  /\ SameBudgets

\* A failed read ends the call, unless the call retries its request.
ReadFails(r, w, status) ==
  /\ Waiting(r)
  /\ channel[r].pendingHdlcFrames = <<>>
  /\ IF call[r].op \in {"connect", "disconnect"}
     THEN RetryOrReturn(r, w, channel[r], status)
     ELSE /\ Put(r, w, channel[r], NoFrame)
          /\ Return(r, status)
          /\ UNCHANGED <<apdus, returned>>

ReadTimesOut(r) ==
  /\ faults < MaxFaults
  /\ up
  /\ ReadFails(r, wire, "Timeout")
  /\ faults' = faults + 1
  /\ UNCHANGED <<up, opens>>

ReadIsGarbled(r) ==
  /\ faults < MaxFaults
  /\ \E k \in 1..Len(wire[r]) :
       ReadFails(r, [wire EXCEPT ![r] = SubSeq(@, k + 1, Len(@))], "InvalidFrame")
  /\ faults' = faults + 1
  /\ UNCHANGED <<up, opens>>

ReadFindsBreak(r) ==
  /\ ~up
  /\ ReadFails(r, wire, "ConnectionClosed")
  /\ SameBudgets

-----------------------------------------------------------------------------
Break ==
  /\ up
  /\ opens < MaxOpens
  /\ up' = FALSE
  /\ wire' = [r \in Roles |-> <<>>]
  /\ UNCHANGED <<channel, call, outcome, apdus, returned, faults, opens>>

\* A connection that the server refuses, as the session requirements have it
\* do: its owner, or a station of another make in its place, answers the SNRM
\* with a DM and does not accept.
RefuseConnection ==
  /\ up /\ faults < MaxFaults
  /\ call["server"].op = "idle"
  /\ channel["server"].session.state = "Disconnected"
  /\ channel["server"].pendingHdlcFrames = <<>>
  /\ wire["server"] # <<>> /\ Head(wire["server"]).kind = "Snrm"
  /\ wire' = [wire EXCEPT
       !["server"] = Tail(@),
       !["client"] = Append(@, UFrame("Dm", "server", "empty", DefaultSnrmParams, NoPayload))]
  /\ faults' = faults + 1
  /\ UNCHANGED <<channel, call, outcome, apdus, returned, up, opens>>

\* The client closes its channel and opens it again on a new transport
\* connection, for which the listener makes a new server channel.
Reopen ==
  /\ call["client"].op = "idle"
  /\ opens < MaxOpens
  /\ channel' = [channel EXCEPT !["client"] = ClosedChannel(@),
                                !["server"] = NewChannel("server")]
  /\ wire' = [r \in Roles |-> <<>>]
  /\ call' = [call EXCEPT !["server"] = Idle]
  /\ outcome' = [r \in Roles |-> <<"open", "Ok">>]
  /\ up' = TRUE
  /\ opens' = opens + 1
  /\ UNCHANGED <<apdus, returned, faults>>

Next ==
  \/ ConnectDataLink
  \/ AcceptDataLink
  \/ AcceptDisconnectDataLink
  \/ Break
  \/ RefuseConnection
  \/ Reopen
  \/ \E r \in Roles :
       \/ DisconnectDataLink(r)
       \/ SendApdu(r)
       \/ SendChunk(r)
       \/ ReceiveApdu(r)
       \/ ReadFrame(r)
       \/ ReadTimesOut(r)
       \/ ReadIsGarbled(r)
       \/ ReadFindsBreak(r)

Spec == Init /\ [][Next]_vars

\* The loop of the server's endpoint, which runs once the data link is up.
ServerReceives ==
  /\ channel["server"].session.state = "Connected"
  /\ ReceiveApdu("server")

\* Owners as DlmsClient and the accepted endpoint channel are: one connect, one
\* accept, then requests of the client that the server receives.
RequestNext ==
  \/ channel["client"].session.state = "Disconnected" /\ ConnectDataLink
  \/ channel["server"].session.state = "Disconnected" /\ AcceptDataLink
  \/ SendApdu("client")
  \/ ServerReceives
  \/ \E r \in Roles : SendChunk(r) \/ ReadFrame(r)

\* A call runs on while it can, and the server calls ReceiveApdu again and
\* again, as the loop of its endpoint does.
Fairness ==
  /\ \A r \in Roles : WF_vars(SendChunk(r)) /\ WF_vars(ReadFrame(r))
  /\ WF_vars(ServerReceives)

RequestSpec == Init /\ [][RequestNext]_vars /\ Fairness

-----------------------------------------------------------------------------
(***************************************************************************)
(* Properties.                                                             *)
(***************************************************************************)
Operations ==
  {"idle", "connect", "accept", "disconnect", "acceptDisconnect", "send", "receive"}

TypeOK ==
  /\ \A r \in Roles :
       /\ channel[r].session \in Session
       /\ channel[r].session.role = r
       /\ Len(channel[r].reassembler) <= ReassemblyLimit
       /\ call[r].op \in Operations
       /\ call[r].attempt \in 0..RetryCount
       /\ apdus[r] \in 0..MaxApdus[r]
  /\ faults \in 0..MaxFaults
  /\ opens \in 0..MaxOpens

\* The APDUs of r's peer that r has returned, and those it will return next.
Received(r) == returned[r] \o channel[r].pendingApdus

Whole(chunks) == \A i \in 1..Len(chunks) : chunks[i] = <<chunks[1][1], i, Len(chunks)>>

\* An APDU comes out of a channel byte for byte as it went into the other one:
\* never without a chunk, with a chunk of another APDU, or with chunks in
\* another order, whatever is delayed, lost, or read in one piece.
ApduIntegrity ==
  \A r \in Roles : \A i \in 1..Len(Received(r)) : Whole(Received(r)[i])

\* Over all that a channel ever hands out, by a read or from its queue, across
\* connections: no APDU comes twice and none overtakes another.
ApdusInOrder ==
  \A r \in Roles : \A i, j \in 1..Len(Received(r)) :
    i < j => Received(r)[i][1][1] < Received(r)[j][1][1]

\* The frame that the next read of r gives its call, if there is one.
NextFrame(r) ==
  CASE channel[r].pendingHdlcFrames # <<>> -> Head(channel[r].pendingHdlcFrames)
    [] channel[r].pendingHdlcFrames = <<>> /\ wire[r] # <<>> -> Head(wire[r])
    [] OTHER -> NoFrame

\* What the Ok of a call says of the session, although these calls return Ok
\* after any frame that the session takes: an accept has connected it, a
\* disconnect has disconnected it, and a connect has connected it unless the
\* server has refused.  A DM is the only frame that a connect takes for an
\* answer, and reports as Ok, without being connected.
OutcomesAreTrue ==
  [][\A r \in Roles :
       call[r].op # "idle" /\ call'[r].op = "idle" /\ outcome'[r] = <<call[r].op, "Ok">> =>
         /\ call[r].op = "connect" =>
              channel'[r].session.state =
                IF NextFrame(r).kind = "Dm" THEN "Disconnected" ELSE "Connected"
         /\ call[r].op = "accept" => channel'[r].session.state = "Connected"
         /\ call[r].op \in {"disconnect", "acceptDisconnect"} =>
              channel'[r].session.state = "Disconnected"]_<<call, channel, outcome>>

\* The profile's architecture has a client's ConnectDataLink write an SNRM, read
\* a UA and end with a connected session.
ConnectMeansConnected ==
  call["client"].op = "idle" /\ outcome["client"] = <<"connect", "Ok">> =>
    channel["client"].session.state = "Connected"

\* Flow control never blocks a sender for good while each window can hold one
\* final frame per request: while every read succeeds and the server keeps
\* receiving, a SendApdu call of the client ends, and the server gets the APDU.
SendCompletes ==
  /\ call["client"].op = "send" ~> call["client"].op = "idle"
  /\ \A n \in 1..MaxApdus["client"] :
       apdus["client"] = n ~>
         \E i \in 1..Len(returned["server"]) : returned["server"][i][1][1] = n

\* The session requirements have a connect request repeated after a timeout
\* until the owner gives up, and a session that can be reset.
ConnectMayBeRepeated ==
  outcome["client"] = <<"connect", "UnsupportedFeature">> =>
    channel["client"].session.state # "AwaitingConnection"

=============================================================================
