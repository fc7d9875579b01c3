-------------------------- MODULE HdlcChannelProofs --------------------------
(***************************************************************************)
(* What the calls of two profile channels promise, for all limits, retry   *)
(* counts, reassembly limits and APDUs.                                    *)
(***************************************************************************)
EXTENDS HdlcChannel, HdlcSessionLemmas, SequenceTheorems

USE DEF Roles, SessionStates, SequenceNumbers, kDefaultMaxInfoFieldLength,
        kDefaultWindowSize, kNegotiationBlockSize

Chunks == Seq(Nat)

\* The frames on the wires: what the two stations write, and a refusal.
ChannelFrames ==
  [kind : {"I", "S", "Snrm", "Ua", "Disc", "Dm"}, src : Roles,
   ns : SequenceNumbers, nr : SequenceNumbers,
   info : {"empty", "block"}, params : SnrmParams, data : Seq(Nat)]

Channels ==
  [session : Session, reassembler : Seq(Chunks),
   pendingHdlcFrames : Seq(ChannelFrames), pendingApdus : Seq(Seq(Chunks))]

\* A channel that can be r's.
ChannelOf(r, c) ==
  /\ c \in Channels
  /\ c.session.role = r
  /\ Len(c.reassembler) <= ReassemblyLimit

Calls ==
  [op : Operations, frame : ChannelFrames \cup {NoFrame}, attempt : 0..RetryCount,
   apdu : Nat, chunk : Nat, count : Nat, checked : BOOLEAN]

BudgetTypes ==
  /\ apdus \in [Roles -> Nat] /\ \A r \in Roles : apdus[r] <= MaxApdus[r]
  /\ returned \in [Roles -> Seq(Seq(Chunks))]
  /\ up \in BOOLEAN
  /\ faults \in 0..MaxFaults
  /\ opens \in 0..MaxOpens

ChannelTypes ==
  /\ channel \in [Roles -> Channels] /\ \A r \in Roles : ChannelOf(r, channel[r])
  /\ wire \in [Roles -> Seq(ChannelFrames)]
  /\ call \in [Roles -> Calls]
  /\ outcome = [r \in Roles |-> outcome[r]]
  /\ BudgetTypes

\* A call that waits for the answer to its request waits in the state that the
\* request has led to, and holds the frame that it would write again.
Requesting(r) ==
  /\ call[r].op = "connect" =>
       /\ r = "client" /\ channel[r].session.state = "AwaitingConnection"
       /\ call[r].frame \in ChannelFrames
  /\ call[r].op = "disconnect" =>
       channel[r].session.state = "AwaitingDisconnect" /\ call[r].frame \in ChannelFrames

CallInv ==
  /\ ChannelTypes
  /\ \A r \in Roles : Requesting(r)

-----------------------------------------------------------------------------
(***************************************************************************)
(* The operators of the channel.                                           *)
(***************************************************************************)

\* The stations write frames of a channel, and all but a DM are theirs.
LEMMA WrittenFrames ==
  /\ Frames \subseteq ChannelFrames
  /\ \A f \in ChannelFrames : f.kind # "Dm" => f \in Frames
  BY DEF Frames, ChannelFrames

\* The frames that a session of a channel takes, and the state they lead to.
ChannelAccepts(s, f, t) ==
  \/ f.kind # "Dm" /\ Accepts(s, f, t)
  \/ f.kind = "Dm" /\ t.state = "Disconnected"

\* ReceiveFrame takes a DM in every state and goes down.
LEMMA ChannelReceiveState ==
  ASSUME NEW s \in Session, NEW f \in ChannelFrames, NEW res, res = ReceiveFrame(s, f)
  PROVE  /\ Heir(s, res.session) /\ res.frame = NoFrame
         /\ res.status # "Ok" => res.session = s
         /\ res.status = "Ok" => ChannelAccepts(s, f, res.session)
  <1>1. CASE f.kind # "Dm"
    <2>1. f \in Frames
      BY <1>1, WrittenFrames
    <2> QED
      BY <1>1, <2>1, ReceiveState DEF ChannelAccepts
  <1>2. CASE f.kind = "Dm"
    <2> DEFINE m == [s EXCEPT !.state = "Disconnected"]
               t == ResetSequences(m)
    <2>1. res = NoOutput("Ok", t) \/ res = NoOutput("InvalidAddress", s)
      BY <1>2 DEF ReceiveFrame, ReceiveUnnumberedFrame, ReceiveDm
    <2>2. m \in Session /\ Heir(s, m) /\ m.state = "Disconnected"
      BY StateHeir DEF Heir
    <2> HIDE DEF m
    <2>3. Heir(s, t) /\ t.state = "Disconnected" /\ Heir(s, s)
      BY <2>2, ResetHeir DEF Heir
    <2> HIDE DEF t
    <2> QED
      BY <1>2, <2>1, <2>3 DEF NoOutput, Result, ChannelAccepts
  <1> QED
    BY <1>1, <1>2

\* The reassembler never holds more than its limit.
LEMMA PushFrameTypes ==
  ASSUME NEW p \in Seq(Chunks), NEW f \in ChannelFrames, NEW pushed, pushed = PushFrame(p, f)
  PROVE  /\ pushed.pending \in Seq(Chunks) /\ Len(pushed.pending) <= ReassemblyLimit
         /\ pushed.completed \in Seq(Chunks)
         /\ pushed.status \in {"Ok", "NeedMoreData", "InvalidFrame", "PayloadTooLarge"}
         /\ pushed.status = "NeedMoreData" => f.kind = "I"
  <1> DEFINE all == p \o Information(f)
             none == <<>>
  <1>1. Information(f) \in Seq(Chunks)
    <2>1. f.data \in Chunks /\ <<0, 0, 0>> \in Chunks
      BY DEF ChannelFrames, Chunks
    <2> QED
      BY <2>1 DEF Information
  <1>2. all \in Seq(Chunks) /\ none \in Seq(Chunks)
    BY <1>1, ConcatProperties
  <1>3. Len(none) <= ReassemblyLimit
    BY ChannelAssumption
  <1>4. Len(all) \in Nat /\ ReassemblyLimit \in Nat
    BY <1>2, ChannelAssumption, LenProperties
  <1>5. \/ pushed = [status |-> "InvalidFrame", pending |-> none, completed |-> none]
        \/ pushed = [status |-> "PayloadTooLarge", pending |-> none, completed |-> none]
        \/ /\ pushed = [status |-> "NeedMoreData", pending |-> all, completed |-> none]
           /\ ~(Len(all) > ReassemblyLimit) /\ f.kind = "I"
        \/ pushed = [status |-> "Ok", pending |-> none, completed |-> all]
    BY DEF PushFrame, Segmented
  <1> HIDE DEF all, none
  <1>6. CASE pushed.status = "NeedMoreData"
    BY <1>2, <1>4, <1>5, <1>6
  <1>7. CASE pushed.status # "NeedMoreData"
    <2>1. pushed.pending = none /\ pushed.completed \in {none, all}
          /\ pushed.status \in {"Ok", "InvalidFrame", "PayloadTooLarge"}
      BY <1>5, <1>7
    <2> QED
      BY <1>2, <1>3, <1>7, <2>1
  <1> QED
    BY <1>6, <1>7

\* "Ok" of the session is "Ok" of the channel, and no other status is.
LEMMA MapHdlcStatusOk ==
  ASSUME NEW s
  PROVE  /\ MapHdlcStatus(s) = "Ok" <=> s = "Ok"
         /\ MapHdlcStatus(s) \notin {"Timeout", "NeedMoreData"}
  BY DEF MapHdlcStatus

\* A channel whose session and reassembler are replaced.
With(c, p, s) == [c EXCEPT !.reassembler = p, !.session = s]

\* What remains of a channel whose session and reassembler are replaced.
LEMMA ReplacedParts ==
  ASSUME NEW r \in Roles, NEW c, ChannelOf(r, c), NEW s, Heir(c.session, s),
         NEW p \in Seq(Chunks), Len(p) <= ReassemblyLimit,
         NEW d, d = With(c, p, s)
  PROVE  /\ ChannelOf(r, d) /\ d.session = s /\ d.reassembler = p
         /\ d.pendingApdus = c.pendingApdus /\ d.pendingHdlcFrames = c.pendingHdlcFrames
  <1> DEFINE m == [c EXCEPT !.reassembler = p]
  <1>1. m \in Channels /\ m.reassembler = p /\ m.session = c.session
        /\ m.pendingApdus = c.pendingApdus /\ m.pendingHdlcFrames = c.pendingHdlcFrames
    BY DEF ChannelOf, Channels
  <1>2. d = [m EXCEPT !.session = s]
    BY DEF With
  <1> HIDE DEF m
  <1> QED
    BY <1>1, <1>2 DEF ChannelOf, Channels, Heir

\* The same for the session alone.
LEMMA ReplacedSession ==
  ASSUME NEW r \in Roles, NEW c, ChannelOf(r, c), NEW s, Heir(c.session, s),
         NEW d, d = [c EXCEPT !.session = s]
  PROVE  /\ ChannelOf(r, d) /\ d.session = s /\ d.reassembler = c.reassembler
         /\ d.pendingApdus = c.pendingApdus /\ d.pendingHdlcFrames = c.pendingHdlcFrames
  BY DEF ChannelOf, Channels, Heir

\* What a call makes of a frame: the session is as it was or has accepted it.
Takes(r, c, f, step) ==
  /\ ChannelOf(r, step.channel)
  /\ step.channel.pendingHdlcFrames = c.pendingHdlcFrames
  /\ step.frame \in ChannelFrames \cup {NoFrame}
  /\ step.status # "Timeout"
  /\ step.channel.session = c.session \/ ChannelAccepts(c.session, f, step.channel.session)
  /\ step.status \in {"Ok", "NeedMoreData"} => ChannelAccepts(c.session, f, step.channel.session)
  /\ step.status = "NeedMoreData" => f.kind = "I"

\* DecodeFrameToPendingApdu takes a frame: session, reassembler and queue go
\* together or not at all.
LEMMA DecodeTakes ==
  ASSUME NEW r \in Roles, NEW c, ChannelOf(r, c), NEW f \in ChannelFrames,
         NEW step, step = DecodeFrameToPendingApdu(c, f)
  PROVE  Takes(r, c, f, step)
  <1> DEFINE pushed == PushFrame(c.reassembler, f)
             received == ReceiveFrame(c.session, f)
             status == MapHdlcStatus(received.status)
             none == <<>>
             reset == With(c, none, received.session)
             accepted == With(c, pushed.pending, received.session)
             rr == BuildReceiveReadyFrame(received.session)
             refused == [c EXCEPT !.reassembler = none]
             completed == [accepted EXCEPT !.pendingApdus = Append(@, pushed.completed)]
             st == IF rr.status = "Ok" THEN "NeedMoreData" ELSE MapHdlcStatus(rr.status)
  <1>1. c.session \in Session /\ c.reassembler \in Seq(Chunks) /\ c.session.role = r
        /\ c.pendingApdus \in Seq(Seq(Chunks))
    BY DEF ChannelOf, Channels
  <1>2. /\ Heir(c.session, received.session)
        /\ received.status # "Ok" => received.session = c.session
        /\ received.status = "Ok" => ChannelAccepts(c.session, f, received.session)
    BY <1>1, ChannelReceiveState
  <1>3. /\ pushed.pending \in Seq(Chunks) /\ Len(pushed.pending) <= ReassemblyLimit
        /\ pushed.completed \in Seq(Chunks)
        /\ pushed.status \in {"Ok", "NeedMoreData", "InvalidFrame", "PayloadTooLarge"}
        /\ pushed.status = "NeedMoreData" => f.kind = "I"
    BY <1>1, PushFrameTypes
  <1>4. none \in Seq(Chunks) /\ Len(none) <= ReassemblyLimit
    BY ChannelAssumption
  <1>5. rr.frame \in ChannelFrames \cup {NoFrame}
    BY <1>2, WrittenFrames, BuildReceiveReadyFrameState DEF Heir, Refuses
  <1>6. \/ step = Step(pushed.status, refused, NoFrame) /\ pushed.status \notin {"Ok", "NeedMoreData"}
        \/ step = Step(status, reset, NoFrame) /\ status # "Ok"
        \/ step = Step(st, accepted, rr.frame) /\ status = "Ok" /\ pushed.status = "NeedMoreData"
        \/ step = Step("Ok", accepted, NoFrame) /\ status = "Ok"
        \/ step = Step("InvalidFrame", accepted, NoFrame) /\ status = "Ok"
        \/ step = Step("Ok", completed, NoFrame) /\ status = "Ok"
    BY DEF DecodeFrameToPendingApdu, With
  <1>7. status = "Ok" <=> received.status = "Ok"
    BY MapHdlcStatusOk
  <1>8. status \notin {"Timeout", "NeedMoreData"} /\ st # "Timeout"
        /\ MapHdlcStatus(rr.status) # "Timeout"
    BY MapHdlcStatusOk
  <1> HIDE DEF pushed, received, status, rr, st, none
  <1>9. ChannelOf(r, reset) /\ reset.session = received.session
        /\ reset.pendingHdlcFrames = c.pendingHdlcFrames
    BY <1>2, <1>4, ReplacedParts
  <1>10. ChannelOf(r, accepted) /\ accepted.session = received.session
         /\ accepted.pendingApdus = c.pendingApdus
         /\ accepted.pendingHdlcFrames = c.pendingHdlcFrames
    BY <1>2, <1>3, ReplacedParts
  <1>11. ChannelOf(r, refused) /\ refused.session = c.session
         /\ refused.pendingHdlcFrames = c.pendingHdlcFrames
    BY <1>1, <1>4 DEF ChannelOf, Channels
  <1> HIDE DEF reset, accepted, refused
  <1>12. ChannelOf(r, completed) /\ completed.session = received.session
         /\ completed.pendingHdlcFrames = c.pendingHdlcFrames
    <2>1. Append(accepted.pendingApdus, pushed.completed) \in Seq(Seq(Chunks))
      BY <1>1, <1>3, <1>10, AppendProperties
    <2> QED
      BY <1>10, <2>1 DEF ChannelOf, Channels
  <1> HIDE DEF completed
  <1> QED
    BY <1>2, <1>3, <1>5, <1>6, <1>7, <1>8, <1>9, <1>10, <1>11, <1>12 DEF Step, Takes

\* ReceiveSessionControlFrame takes a frame in the same way.
LEMMA ControlTakes ==
  ASSUME NEW r \in Roles, NEW c, ChannelOf(r, c), NEW f \in ChannelFrames,
         NEW step, step = ReceiveSessionControlFrame(c, f)
  PROVE  Takes(r, c, f, step)
  <1>1. CASE f.kind = "I"
    BY <1>1, DecodeTakes DEF ReceiveSessionControlFrame
  <1>2. CASE f.kind # "I"
    <2> DEFINE received == ReceiveFrame(c.session, f)
               d == [c EXCEPT !.session = received.session]
    <2>1. step = Step(MapHdlcStatus(received.status), d, NoFrame)
      BY <1>2 DEF ReceiveSessionControlFrame
    <2>2. /\ Heir(c.session, received.session)
          /\ received.status # "Ok" => received.session = c.session
          /\ received.status = "Ok" => ChannelAccepts(c.session, f, received.session)
      BY ChannelReceiveState DEF ChannelOf, Channels
    <2>3. ChannelOf(r, d) /\ d.session = received.session
          /\ d.pendingHdlcFrames = c.pendingHdlcFrames
      BY <2>2, ReplacedSession
    <2>4. MapHdlcStatus(received.status) = "Ok" <=> received.status = "Ok"
      BY MapHdlcStatusOk
    <2>5. MapHdlcStatus(received.status) \notin {"Timeout", "NeedMoreData"}
      BY MapHdlcStatusOk
    <2> HIDE DEF received, d
    <2> QED
      BY <2>1, <2>2, <2>3, <2>4, <2>5 DEF Step, Takes
  <1> QED
    BY <1>1, <1>2

-----------------------------------------------------------------------------
(***************************************************************************)
(* What a step of r's call leaves behind.                                  *)
(***************************************************************************)
Wires == [Roles -> Seq(ChannelFrames)]

\* r's outcome is true, if its call ends.
TrueOutcome(r) ==
  call[r].op # "idle" /\ call'[r].op = "idle" /\ outcome'[r] = <<call[r].op, "Ok">> =>
    /\ call[r].op = "connect" =>
         channel'[r].session.state = IF NextFrame(r).kind = "Dm" THEN "Disconnected"
                                     ELSE "Connected"
    /\ call[r].op = "accept" => channel'[r].session.state = "Connected"
    /\ call[r].op \in {"disconnect", "acceptDisconnect"} =>
         channel'[r].session.state = "Disconnected"

\* The state in which a call of r has done what it promises.
Carried(r, state) ==
  LET op == call[r].op
  IN
  /\ op = "connect" => state = IF NextFrame(r).kind = "Dm" THEN "Disconnected" ELSE "Connected"
  /\ op = "accept" => state = "Connected"
  /\ op \in {"disconnect", "acceptDisconnect"} => state = "Disconnected"

\* A call that r may be in while its channel is c.
Fits(r, k, c) ==
  /\ k \in Calls
  /\ k.op = "connect" =>
       r = "client" /\ c.session.state = "AwaitingConnection" /\ k.frame \in ChannelFrames
  /\ k.op = "disconnect" => c.session.state = "AwaitingDisconnect" /\ k.frame \in ChannelFrames

Advances == CallInv' /\ \A r \in Roles : TrueOutcome(r)

\* Putting a channel and a frame back.
LEMMA PutTypes ==
  ASSUME ChannelTypes, NEW r \in Roles, NEW c, ChannelOf(r, c), NEW w \in Wires,
         NEW frame \in ChannelFrames \cup {NoFrame}, Put(r, w, c, frame)
  PROVE  /\ channel' \in [Roles -> Channels]
         /\ \A q \in Roles : ChannelOf(q, channel'[q])
         /\ channel'[r] = c /\ \A q \in Roles : q # r => channel'[q] = channel[q]
         /\ wire' \in Wires
  <1>1. channel' = [channel EXCEPT ![r] = c] /\ c \in Channels
    BY DEF Put, ChannelOf
  <1>2. /\ channel' \in [Roles -> Channels] /\ channel'[r] = c
        /\ \A q \in Roles : q # r => channel'[q] = channel[q]
    BY <1>1 DEF ChannelTypes
  <1>3. wire' \in Wires
    <2>1. CASE wire' = w
      BY <2>1
    <2>2. CASE wire' # w
      <3>1. frame \in ChannelFrames /\ wire' = [w EXCEPT ![Peer(r)] = Append(@, frame)]
            /\ Peer(r) \in Roles
        BY <2>2 DEF Put, Peer
      <3>2. Append(w[Peer(r)], frame) \in Seq(ChannelFrames)
        BY <3>1, AppendProperties DEF Wires
      <3> QED
        BY <3>1, <3>2 DEF Wires
    <2> QED
      BY <2>1, <2>2
  <1> QED
    BY <1>2, <1>3 DEF ChannelTypes

\* A step after which r is in call k, which is idle if its call has ended.
LEMMA CallStep ==
  ASSUME CallInv, NEW r \in Roles, NEW c, ChannelOf(r, c), NEW w \in Wires,
         NEW frame \in ChannelFrames \cup {NoFrame}, Put(r, w, c, frame),
         NEW k, call' = [call EXCEPT ![r] = k], Fits(r, k, c),
         outcome' = [q \in Roles |-> outcome'[q]], BudgetTypes',
         call[r].op # "idle" /\ k.op = "idle" /\ outcome'[r] = <<call[r].op, "Ok">> =>
           Carried(r, c.session.state)
  PROVE  Advances
  <1>1. /\ channel' \in [Roles -> Channels]
        /\ \A q \in Roles : ChannelOf(q, channel'[q])
        /\ channel'[r] = c /\ \A q \in Roles : q # r => channel'[q] = channel[q]
        /\ wire' \in Wires
    BY PutTypes DEF CallInv
  <1>2. /\ call' \in [Roles -> Calls] /\ call'[r] = k
        /\ \A q \in Roles : q # r => call'[q] = call[q]
    BY DEF CallInv, ChannelTypes, Fits
  <1>3. ChannelTypes'
    BY <1>1, <1>2 DEF ChannelTypes, Wires, ChannelOf
  <1>4. \A q \in Roles : Requesting(q)'
    <2>1. Requesting(r)'
      BY <1>1, <1>2 DEF Requesting, Fits
    <2>2. \A q \in Roles : q # r => Requesting(q)'
      BY <1>1, <1>2 DEF Requesting, CallInv
    <2> QED
      BY <2>1, <2>2
  <1>5. \A q \in Roles : TrueOutcome(q)
    <2>1. TrueOutcome(r)
      BY <1>1, <1>2 DEF TrueOutcome, Carried
    <2>2. \A q \in Roles : q # r => TrueOutcome(q)
      BY <1>2 DEF TrueOutcome
    <2> QED
      BY <2>1, <2>2
  <1> QED
    BY <1>3, <1>4, <1>5 DEF Advances, CallInv

\* The call ends.
LEMMA ReturnStep ==
  ASSUME CallInv, NEW r \in Roles, NEW c, ChannelOf(r, c), NEW w \in Wires,
         NEW frame \in ChannelFrames \cup {NoFrame}, Put(r, w, c, frame),
         NEW status, Return(r, status), BudgetTypes',
         status = "Ok" => Carried(r, c.session.state)
  PROVE  Advances
  <1>1. Idle \in Calls /\ Idle.op = "idle"
    BY ChannelAssumption DEF Idle, Call, Calls, Operations
  <1>2. Fits(r, Idle, c)
    BY <1>1 DEF Fits
  <1>3. /\ call' = [call EXCEPT ![r] = Idle]
        /\ outcome' = [outcome EXCEPT ![r] = <<call[r].op, status>>]
    BY DEF Return
  <1>4. outcome' = [q \in Roles |-> outcome'[q]] /\ outcome'[r] = <<call[r].op, status>>
    BY <1>3 DEF CallInv, ChannelTypes
  <1>5. outcome'[r] = <<call[r].op, "Ok">> => status = "Ok"
    BY <1>4
  <1> QED
    BY <1>2, <1>3, <1>4, <1>5, CallStep

\* The call goes on.
LEMMA ContinueStep ==
  ASSUME CallInv, NEW r \in Roles, NEW c, ChannelOf(r, c), NEW w \in Wires,
         NEW frame \in ChannelFrames \cup {NoFrame}, Put(r, w, c, frame),
         NEW k, Continue(r, k), Fits(r, k, c), k.op # "idle", BudgetTypes'
  PROVE  Advances
  <1>1. call' = [call EXCEPT ![r] = k] /\ outcome' = outcome
    BY DEF Continue
  <1>2. outcome' = [q \in Roles |-> outcome'[q]]
    BY <1>1 DEF CallInv, ChannelTypes
  <1> QED
    BY <1>1, <1>2, CallStep

\* A call is refused.
LEMMA RefuseStep ==
  ASSUME CallInv, NEW r \in Roles, NEW c, ChannelOf(r, c), NEW w \in Wires,
         NEW frame \in ChannelFrames \cup {NoFrame}, Put(r, w, c, frame),
         NEW op, NEW status, Refuse(r, op, status), call[r].op = "idle", BudgetTypes'
  PROVE  Advances
  <1>1. call' = [call EXCEPT ![r] = call[r]] /\ call[r] \in Calls
    BY DEF Refuse, CallInv, ChannelTypes
  <1>2. outcome' = [q \in Roles |-> outcome'[q]]
    BY DEF Refuse, CallInv, ChannelTypes
  <1>3. Fits(r, call[r], c)
    BY <1>1 DEF Fits
  <1> QED
    BY <1>1, <1>2, <1>3, CallStep

\* The call waits on with the channel and the call as they are.
LEMMA WaitStep ==
  ASSUME CallInv, NEW r \in Roles, NEW c, ChannelOf(r, c), NEW w \in Wires,
         NEW frame \in ChannelFrames \cup {NoFrame}, Put(r, w, c, frame),
         call' = call, outcome' = outcome, call[r].op \notin {"connect", "disconnect"},
         BudgetTypes'
  PROVE  Advances
  <1>1. call' = [call EXCEPT ![r] = call[r]] /\ call[r] \in Calls
    BY DEF CallInv, ChannelTypes
  <1>2. outcome' = [q \in Roles |-> outcome'[q]]
    BY DEF CallInv, ChannelTypes
  <1>3. Fits(r, call[r], c)
    BY <1>1 DEF Fits
  <1> QED
    BY <1>1, <1>2, <1>3, CallStep

-----------------------------------------------------------------------------
(***************************************************************************)
(* Every action.                                                           *)
(***************************************************************************)

\* What is known of r before a step.
LEMMA StationTypes ==
  ASSUME CallInv, NEW r \in Roles
  PROVE  /\ ChannelOf(r, channel[r]) /\ channel[r].session \in Session
         /\ channel[r].session.role = r
         /\ wire \in Wires /\ wire[r] \in Seq(ChannelFrames)
         /\ channel[r].pendingHdlcFrames \in Seq(ChannelFrames)
         /\ channel[r].pendingApdus \in Seq(Seq(Chunks))
         /\ call[r] \in Calls /\ call[r].op \in Operations /\ call[r].attempt \in 0..RetryCount
         /\ Requesting(r) /\ BudgetTypes
  BY DEF CallInv, ChannelTypes, ChannelOf, Channels, Calls, Wires

\* A step that sends and returns no APDU keeps the types of the budgets.
LEMMA SameBudgetTypes ==
  ASSUME CallInv, UNCHANGED <<apdus, returned>>, UNCHANGED up, opens' = opens,
         faults' \in 0..MaxFaults
  PROVE  BudgetTypes'
  BY DEF CallInv, ChannelTypes, BudgetTypes

\* A fresh call.
LEMMA CallType ==
  ASSUME NEW op \in Operations, NEW frame \in ChannelFrames \cup {NoFrame},
         NEW apdu \in Nat, NEW count \in Nat
  PROVE  Call(op, frame, apdu, count) \in Calls /\ Call(op, frame, apdu, count).op = op
         /\ Call(op, frame, apdu, count).frame = frame
  BY ChannelAssumption DEF Call, Calls

\* EnsureSession keeps the channel or makes it a new session.
LEMMA EnsureSessionType ==
  ASSUME NEW r \in Roles, NEW c, ChannelOf(r, c), NEW d, d = EnsureSession(r, c)
  PROVE  ChannelOf(r, d)
  <1> DEFINE s == NewSession(r, Limits[r], 0)
             none == <<>>
             m1 == [c EXCEPT !.session = s]
             m2 == [m1 EXCEPT !.reassembler = none]
             m3 == [m2 EXCEPT !.pendingHdlcFrames = none]
  <1>1. d = m3 \/ d = c
    BY DEF EnsureSession
  <1>2. s \in Session /\ s.role = r
    BY ChannelAssumption, NewSessionType
  <1>3. none \in Seq(Chunks) /\ none \in Seq(ChannelFrames) /\ Len(none) <= ReassemblyLimit
    BY ChannelAssumption
  <1> HIDE DEF s, none
  <1>4. m1 \in Channels /\ m1.session = s
    BY <1>2 DEF ChannelOf, Channels
  <1> HIDE DEF m1
  <1>5. m2 \in Channels /\ m2.session = s /\ m2.reassembler = none
    BY <1>3, <1>4 DEF Channels
  <1> HIDE DEF m2
  <1>6. m3 \in Channels /\ m3.session = s /\ m3.reassembler = none
    BY <1>3, <1>5 DEF Channels
  <1> HIDE DEF m3
  <1> QED
    BY <1>1, <1>2, <1>3, <1>6 DEF ChannelOf

\* ConnectDataLink begins a call.
LEMMA ConnectAdvances == ASSUME CallInv, ConnectDataLink PROVE Advances
  <1> DEFINE c == EnsureSession("client", channel["client"])
             res == BuildConnectRequest(c.session)
             d == [c EXCEPT !.session = res.session]
             status == Written(MapHdlcStatus(res.status), res.frame)
             k == Call("connect", res.frame, 0, 0)
  <1>1. /\ Put("client", wire, d, res.frame)
        /\ \/ status = "Ok" /\ Continue("client", k)
           \/ Refuse("client", "connect", status)
        /\ call["client"].op = "idle"
        /\ UNCHANGED <<apdus, returned>> /\ SameBudgets
    BY DEF ConnectDataLink, MayCall
  <1>2. ChannelOf("client", c)
    BY StationTypes, EnsureSessionType
  <1> HIDE DEF c
  <1>3. /\ Heir(c.session, res.session)
        /\ \/ Refuses(c.session, res)
           \/ /\ res.status = "Ok" /\ res.session.state = "AwaitingConnection"
              /\ res.frame \in ChannelFrames
    BY <1>2, WrittenFrames, BuildConnectRequestState DEF ChannelOf, Channels
  <1>4. status = "Ok" => res.status = "Ok"
    BY MapHdlcStatusOk DEF Written
  <1> HIDE DEF res, status
  <1>5. ChannelOf("client", d) /\ d.session = res.session
    BY <1>2, <1>3, ReplacedSession
  <1>6. res.frame \in ChannelFrames \cup {NoFrame}
    BY <1>3 DEF Refuses
  <1>7. k \in Calls /\ k.op = "connect" /\ k.frame = res.frame
    BY <1>6, CallType DEF Operations
  <1> HIDE DEF d, k
  <1>8. status = "Ok" => Fits("client", k, d)
    BY <1>3, <1>4, <1>5, <1>7 DEF Fits, Refuses
  <1>9. BudgetTypes' /\ wire \in Wires
    BY <1>1, SameBudgetTypes, StationTypes DEF SameBudgets, BudgetTypes
  <1>10. CASE status = "Ok" /\ Continue("client", k)
    BY <1>1, <1>5, <1>6, <1>7, <1>8, <1>9, <1>10, ContinueStep
  <1>11. CASE Refuse("client", "connect", status)
    BY <1>1, <1>5, <1>6, <1>9, <1>11, RefuseStep
  <1> QED
    BY <1>1, <1>10, <1>11

\* AcceptDataLink begins a call.
LEMMA AcceptAdvances == ASSUME CallInv, AcceptDataLink PROVE Advances
  <1> DEFINE c == EnsureSession("server", channel["server"])
             k == Call("accept", NoFrame, 0, 0)
  <1>1. /\ Put("server", wire, c, NoFrame) /\ Continue("server", k)
        /\ UNCHANGED <<apdus, returned>> /\ SameBudgets
    BY DEF AcceptDataLink
  <1>2. ChannelOf("server", c)
    BY StationTypes, EnsureSessionType
  <1>3. k \in Calls /\ k.op = "accept"
    BY CallType DEF Operations
  <1>4. Fits("server", k, c)
    BY <1>3 DEF Fits
  <1> HIDE DEF c, k
  <1>5. BudgetTypes' /\ wire \in Wires
    BY <1>1, SameBudgetTypes, StationTypes DEF SameBudgets, BudgetTypes
  <1> QED
    BY <1>1, <1>2, <1>3, <1>4, <1>5, ContinueStep

\* DisconnectDataLink begins a call, or reports Ok of a session that is down.
LEMMA DisconnectAdvances ==
  ASSUME CallInv, NEW r \in Roles, DisconnectDataLink(r) PROVE Advances
  <1> DEFINE c == channel[r]
             res == BuildDisconnectRequest(c.session)
             d == [c EXCEPT !.session = res.session]
             status == Written(MapHdlcStatus(res.status), res.frame)
             k == Call("disconnect", res.frame, 0, 0)
  <1>1. /\ Put(r, wire, d, res.frame)
        /\ \/ status = "Ok" /\ Continue(r, k)
           \/ Refuse(r, "disconnect", status)
        /\ call[r].op = "idle"
        /\ UNCHANGED <<apdus, returned>> /\ SameBudgets
    BY DEF DisconnectDataLink, MayCall
  <1>2. ChannelOf(r, c)
    BY StationTypes
  <1> HIDE DEF c
  <1>3. /\ Heir(c.session, res.session)
        /\ \/ Refuses(c.session, res)
           \/ /\ res.status = "Ok" /\ res.session.state = "AwaitingDisconnect"
              /\ res.frame \in ChannelFrames
    BY <1>2, WrittenFrames, BuildDisconnectRequestState DEF ChannelOf, Channels
  <1>4. status = "Ok" => res.status = "Ok"
    BY MapHdlcStatusOk DEF Written
  <1> HIDE DEF res, status
  <1>5. ChannelOf(r, d) /\ d.session = res.session
    BY <1>2, <1>3, ReplacedSession
  <1>6. res.frame \in ChannelFrames \cup {NoFrame}
    BY <1>3 DEF Refuses
  <1>7. k \in Calls /\ k.op = "disconnect" /\ k.frame = res.frame
    BY <1>6, CallType DEF Operations
  <1> HIDE DEF d, k
  <1>8. status = "Ok" => Fits(r, k, d)
    BY <1>3, <1>4, <1>5, <1>7 DEF Fits, Refuses
  <1>9. BudgetTypes' /\ wire \in Wires
    BY <1>1, SameBudgetTypes, StationTypes DEF SameBudgets, BudgetTypes
  <1>10. CASE status = "Ok" /\ Continue(r, k)
    BY <1>1, <1>5, <1>6, <1>7, <1>8, <1>9, <1>10, ContinueStep
  <1>11. CASE Refuse(r, "disconnect", status)
    BY <1>1, <1>5, <1>6, <1>9, <1>11, RefuseStep
  <1> QED
    BY <1>1, <1>10, <1>11

\* A step that leaves the channels and the wires alone.
LEMMA StayPut ==
  ASSUME CallInv, NEW r \in Roles, channel' = channel, wire' = wire
  PROVE  Put(r, wire, channel[r], NoFrame)
  BY DEF Put, CallInv, ChannelTypes

\* AcceptDisconnectDataLink begins a call.
LEMMA AcceptDisconnectAdvances == ASSUME CallInv, AcceptDisconnectDataLink PROVE Advances
  <1> DEFINE k == Call("acceptDisconnect", NoFrame, 0, 0)
  <1>1. /\ Put("server", wire, channel["server"], NoFrame) /\ Continue("server", k)
        /\ UNCHANGED <<apdus, returned>> /\ SameBudgets
    BY StayPut DEF AcceptDisconnectDataLink
  <1>2. k \in Calls /\ k.op = "acceptDisconnect"
    BY CallType DEF Operations
  <1> HIDE DEF k
  <1>3. Fits("server", k, channel["server"])
    BY <1>2 DEF Fits
  <1>4. BudgetTypes' /\ wire \in Wires /\ ChannelOf("server", channel["server"])
    BY <1>1, SameBudgetTypes, StationTypes DEF SameBudgets, BudgetTypes
  <1> QED
    BY <1>1, <1>2, <1>3, <1>4, ContinueStep

\* SendApdu begins a call, or fails at once.
LEMMA SendApduAdvances ==
  ASSUME CallInv, NEW r \in Roles, SendApdu(r) PROVE Advances
  <1>1. /\ Put(r, wire, channel[r], NoFrame)
        /\ call[r].op = "idle" /\ apdus[r] < MaxApdus[r]
        /\ UNCHANGED returned /\ SameBudgets
    BY StayPut DEF SendApdu, MayCall
  <1>2. wire \in Wires /\ ChannelOf(r, channel[r]) /\ BudgetTypes
    BY StationTypes
  <1>3. apdus[r] + 1 \in Nat /\ apdus[r] + 1 <= MaxApdus[r]
    BY <1>1, <1>2, ChannelAssumption DEF BudgetTypes
  <1>4. CASE /\ \E n \in ChunkCounts : Continue(r, Call("send", NoFrame, apdus[r] + 1, n))
             /\ apdus' = [apdus EXCEPT ![r] = @ + 1]
    <2>1. PICK n \in ChunkCounts : Continue(r, Call("send", NoFrame, apdus[r] + 1, n))
      BY <1>4
    <2> DEFINE k == Call("send", NoFrame, apdus[r] + 1, n)
    <2>2. k \in Calls /\ k.op = "send"
      <3>1. n \in Nat /\ NoFrame \in ChannelFrames \cup {NoFrame} /\ "send" \in Operations
        BY ChannelAssumption DEF Operations
      <3>2. PICK a \in Nat : a = apdus[r] + 1
        BY <1>3
      <3>3. Call("send", NoFrame, a, n) \in Calls /\ Call("send", NoFrame, a, n).op = "send"
        BY <3>1, CallType
      <3> QED
        BY <3>2, <3>3
    <2>3. BudgetTypes'
      BY <1>1, <1>2, <1>3, <1>4 DEF BudgetTypes, SameBudgets
    <2> HIDE DEF k
    <2>4. Fits(r, k, channel[r])
      BY <2>2 DEF Fits
    <2> QED
      BY <1>1, <1>2, <2>1, <2>2, <2>3, <2>4, ContinueStep DEF k
  <1>5. CASE Refuse(r, "send", "NotOpen") /\ UNCHANGED apdus
    <2>1. BudgetTypes'
      BY <1>1, <1>5, SameBudgetTypes, StationTypes DEF SameBudgets, BudgetTypes
    <2> QED
      BY <1>1, <1>2, <1>5, <2>1, RefuseStep
  <1> QED
    BY <1>4, <1>5 DEF SendApdu

\* A chunk that SendApdu writes, or fails to write.
LEMMA SendChunkAdvances ==
  ASSUME CallInv, NEW r \in Roles, SendChunk(r) PROVE Advances
  <1> DEFINE c == channel[r]
             k == call[r]
             res == BuildInformationFrame(c.session, 1, <<k.apdu, k.chunk, k.count>>)
             d == [c EXCEPT !.session = res.session]
             status == Written(MapHdlcStatus(res.status), res.frame)
             n == [k EXCEPT !.chunk = @ + 1, !.checked = FALSE]
  <1>1. /\ Put(r, wire, d, res.frame) /\ k.op = "send"
        /\ Return(r, status) \/ Continue(r, n)
        /\ UNCHANGED <<apdus, returned>> /\ SameBudgets
    BY DEF SendChunk
  <1>2. ChannelOf(r, c) /\ k \in Calls
    BY StationTypes
  <1>3. Heir(c.session, res.session) /\ res.frame \in ChannelFrames \cup {NoFrame}
    <2>1. <<k.apdu, k.chunk, k.count>> \in Seq(Nat)
      BY <1>2 DEF Calls
    <2> QED
      BY <1>2, <2>1, WrittenFrames, BuildInformationFrameState DEF ChannelOf, Channels, Refuses
  <1>4. n \in Calls /\ n.op = "send"
    <2> DEFINE m == [k EXCEPT !.chunk = @ + 1]
    <2>1. m \in Calls /\ m.op = "send"
      BY <1>1, <1>2 DEF Calls
    <2> HIDE DEF k
    <2>2. n = [m EXCEPT !.checked = FALSE]
      OBVIOUS
    <2> HIDE DEF m
    <2> QED
      BY <2>1, <2>2 DEF Calls
  <1> HIDE DEF c, res, status, n
  <1>5. ChannelOf(r, d) /\ d.session = res.session
    BY <1>2, <1>3, ReplacedSession
  <1> HIDE DEF d
  <1>6. Fits(r, n, d)
    BY <1>4 DEF Fits
  <1>7. BudgetTypes' /\ wire \in Wires
    BY <1>1, SameBudgetTypes, StationTypes DEF SameBudgets, BudgetTypes
  <1>8. CASE Return(r, status)
    BY <1>1, <1>3, <1>5, <1>7, <1>8, ReturnStep DEF Carried
  <1>9. CASE Continue(r, n)
    BY <1>1, <1>3, <1>4, <1>5, <1>6, <1>7, <1>9, ContinueStep
  <1> QED
    BY <1>1, <1>8, <1>9

\* An APDU that is handed out leaves the queue.
LEMMA HandOutTypes ==
  ASSUME NEW r \in Roles, NEW c, ChannelOf(r, c), c.pendingApdus # <<>>, BudgetTypes,
         HandOut(r, c), apdus' = apdus
  PROVE  /\ ChannelOf(r, WithoutFront(c))
         /\ up' = up /\ faults' = faults /\ opens' = opens => BudgetTypes'
  <1> DEFINE pending == c.pendingApdus
             all == Append(returned[r], Head(pending))
  <1>1. pending \in Seq(Seq(Chunks))
    BY DEF ChannelOf, Channels
  <1>2. Head(pending) \in Seq(Chunks) /\ Tail(pending) \in Seq(Seq(Chunks))
    BY <1>1, HeadTailProperties, EmptySeq
  <1>3. WithoutFront(c) = [c EXCEPT !.pendingApdus = Tail(pending)]
    BY DEF WithoutFront
  <1>4. returned' = [returned EXCEPT ![r] = all]
    BY DEF HandOut
  <1> HIDE DEF pending
  <1>5. ChannelOf(r, WithoutFront(c))
    BY <1>2, <1>3 DEF ChannelOf, Channels
  <1>6. returned[r] \in Seq(Seq(Chunks))
    BY DEF BudgetTypes
  <1>7. all \in Seq(Seq(Chunks))
    BY <1>2, <1>6, AppendProperties
  <1> HIDE DEF all
  <1>8. returned' \in [Roles -> Seq(Seq(Chunks))]
    BY <1>4, <1>7 DEF BudgetTypes
  <1> QED
    BY <1>5, <1>8 DEF BudgetTypes

\* ReceiveApdu returns an APDU that is there, or begins a call.
LEMMA ReceiveApduAdvances ==
  ASSUME CallInv, NEW r \in Roles, ReceiveApdu(r) PROVE Advances
  <1>1. call[r].op = "idle" /\ wire' = wire /\ apdus' = apdus /\ SameBudgets
    BY DEF ReceiveApdu, MayCall
  <1>2. wire \in Wires /\ ChannelOf(r, channel[r]) /\ BudgetTypes
    BY StationTypes
  <1>3. CASE channel[r].pendingApdus # <<>>
    <2> DEFINE d == WithoutFront(channel[r])
    <2>1. /\ channel' = [channel EXCEPT ![r] = d]
          /\ HandOut(r, channel[r])
          /\ Refuse(r, "receive", "Ok")
      BY <1>3 DEF ReceiveApdu
    <2>2. ChannelOf(r, d) /\ (up' = up /\ faults' = faults /\ opens' = opens => BudgetTypes')
      BY <1>1, <1>2, <1>3, <2>1, HandOutTypes
    <2> HIDE DEF d
    <2>3. Put(r, wire, d, NoFrame)
      BY <1>1, <2>1 DEF Put
    <2> QED
      BY <1>1, <1>2, <2>1, <2>2, <2>3, RefuseStep DEF SameBudgets
  <1>4. CASE channel[r].pendingApdus = <<>>
    <2> DEFINE k == Call("receive", NoFrame, 0, 0)
    <2>1. Continue(r, k) /\ UNCHANGED <<channel, returned>>
      BY <1>4 DEF ReceiveApdu
    <2>2. k \in Calls /\ k.op = "receive"
      BY CallType DEF Operations
    <2> HIDE DEF k
    <2>3. Fits(r, k, channel[r])
      BY <2>2 DEF Fits
    <2>4. Put(r, wire, channel[r], NoFrame)
      BY <1>1, <2>1, StayPut
    <2>5. BudgetTypes'
      BY <1>1, <2>1, SameBudgetTypes, StationTypes DEF SameBudgets, BudgetTypes
    <2> QED
      BY <1>2, <2>1, <2>2, <2>3, <2>4, <2>5, ContinueStep
  <1> QED
    BY <1>3, <1>4

-----------------------------------------------------------------------------
(***************************************************************************)
(* Reads.                                                                  *)
(***************************************************************************)

\* A request that is retried or given up.
LEMMA RetryStep ==
  ASSUME CallInv, NEW r \in Roles, call[r].op \in {"connect", "disconnect"},
         NEW w \in Wires, NEW kept, ChannelOf(r, kept), NEW status,
         RetryOrReturn(r, w, kept, status),
         status \in {"Timeout", "NeedMoreData"} =>
           kept.session.state = channel[r].session.state,
         status = "Ok" => Carried(r, kept.session.state),
         UNCHANGED up, opens' = opens, faults' \in 0..MaxFaults
  PROVE  Advances
  <1>1. call[r] \in Calls /\ Requesting(r) /\ call[r].frame \in ChannelFrames
    BY StationTypes DEF Requesting
  <1>2. BudgetTypes'
    BY SameBudgetTypes DEF RetryOrReturn
  <1> DEFINE k == [call[r] EXCEPT !.attempt = @ + 1]
  <1>3. CASE Put(r, w, kept, call[r].frame) /\ Continue(r, k)
             /\ status \in {"Timeout", "NeedMoreData"} /\ call[r].attempt < RetryCount
    <2>1. call[r].attempt + 1 \in 0..RetryCount
      BY <1>1, <1>3, ChannelAssumption DEF Calls
    <2>2. k \in Calls /\ k.op = call[r].op /\ k.frame = call[r].frame
      BY <1>1, <2>1 DEF Calls
    <2> HIDE DEF k
    <2>3. Fits(r, k, kept)
      BY <1>1, <1>3, <2>2 DEF Fits, Requesting
    <2>4. k.op # "idle"
      BY <2>2
    <2> QED
      BY <1>1, <1>2, <1>3, <2>3, <2>4, ContinueStep
  <1>4. CASE Put(r, w, kept, call[r].frame) /\ Return(r, "ConnectionClosed")
    BY <1>1, <1>2, <1>4, ReturnStep
  <1>5. CASE Put(r, w, kept, NoFrame) /\ Return(r, status)
    BY <1>2, <1>5, ReturnStep
  <1> QED
    BY <1>3, <1>4, <1>5 DEF RetryOrReturn

\* The answer to a request that was accepted, or none.
LEMMA AnswerStep ==
  ASSUME CallInv, NEW r \in Roles, NEW w \in Wires, NEW step, NEW res,
         Answer(r, w, step, res), UNCHANGED <<apdus, returned>> => BudgetTypes',
         ChannelOf(r, step.channel), step.frame \in ChannelFrames \cup {NoFrame},
         Heir(step.channel.session, res.session), res.frame \in ChannelFrames \cup {NoFrame},
         res.status = "Ok" => Carried(r, res.session.state)
  PROVE  Advances
  <1> DEFINE d == [step.channel EXCEPT !.session = res.session]
             st == MapHdlcStatus(res.status)
  <1>1. BudgetTypes'
    BY DEF Answer
  <1>2. CASE step.status = "Ok"
    <2>1. Put(r, w, d, res.frame) /\ Return(r, Written(st, res.frame))
      BY <1>2 DEF Answer
    <2>2. ChannelOf(r, d) /\ d.session = res.session
      BY ReplacedSession
    <2>3. Written(st, res.frame) = "Ok" => res.status = "Ok"
      BY MapHdlcStatusOk DEF Written
    <2> HIDE DEF d, st
    <2> QED
      BY <1>1, <2>1, <2>2, <2>3, ReturnStep
  <1>3. CASE step.status # "Ok"
    <2>1. /\ Put(r, w, step.channel, step.frame)
          /\ Return(r, Written(step.status, step.frame))
      BY <1>3 DEF Answer
    <2>2. Written(step.status, step.frame) # "Ok"
      BY <1>3 DEF Written
    <2> QED
      BY <1>1, <2>1, <2>2, ReturnStep
  <1> QED
    BY <1>2, <1>3

\* A frame that a call takes.
LEMMA TakeFrameAdvances ==
  ASSUME CallInv, NEW r \in Roles, NEW w \in Wires, NEW c, ChannelOf(r, c),
         c.session = channel[r].session, NEW f \in ChannelFrames, f = NextFrame(r),
         TakeFrame(r, w, c, f), SameBudgets
  PROVE  Advances
  <1> DEFINE control == ReceiveSessionControlFrame(c, f)
             data == DecodeFrameToPendingApdu(c, f)
             status == Written(data.status, data.frame)
  <1>1. Takes(r, c, f, control) /\ Takes(r, c, f, data)
    BY ControlTakes, DecodeTakes
  <1>2. /\ Requesting(r) /\ call[r] \in Calls /\ call[r].op \in Operations
        /\ BudgetTypes
    BY StationTypes
  <1>3. up' = up /\ faults' = faults /\ opens' = opens /\ faults' \in 0..MaxFaults
    BY <1>2 DEF SameBudgets, BudgetTypes
  <1>4. UNCHANGED <<apdus, returned>> => BudgetTypes'
    BY <1>3, SameBudgetTypes
  <1>5. c.session \in Session
    BY DEF ChannelOf, Channels
  <1>6. CASE call[r].op \in {"connect", "disconnect"}
    <2>1. RetryOrReturn(r, w, control.channel, control.status)
      BY <1>6 DEF TakeFrame
    <2> HIDE DEF control
    <2>2. /\ control.status \notin {"Timeout", "NeedMoreData"}
          /\ control.status = "Ok" => Carried(r, control.channel.session.state)
      BY <1>1, <1>2, <1>6 DEF Takes, ChannelAccepts, Accepts, Requesting, Carried
    <2>3. ChannelOf(r, control.channel)
      BY <1>1 DEF Takes
    <2> QED
      BY <1>3, <1>6, <2>1, <2>2, <2>3, RetryStep
  <1>7. CASE call[r].op = "accept"
    <2> DEFINE res == BuildConnectResponse(control.channel.session)
    <2>1. Answer(r, w, control, res)
      BY <1>7 DEF TakeFrame
    <2> HIDE DEF control
    <2>2. ChannelOf(r, control.channel) /\ control.channel.session \in Session
          /\ control.frame \in ChannelFrames \cup {NoFrame}
      BY <1>1 DEF Takes, ChannelOf, Channels
    <2>3. /\ Heir(control.channel.session, res.session)
          /\ res.frame \in ChannelFrames \cup {NoFrame}
          /\ res.status = "Ok" => res.session.state = "Connected"
      BY <2>2, WrittenFrames, BuildConnectResponseState
    <2>4. res.status = "Ok" => Carried(r, res.session.state)
      BY <1>7, <2>3 DEF Carried
    <2> HIDE DEF res
    <2> QED
      BY <1>4, <2>1, <2>2, <2>3, <2>4, AnswerStep
  <1>8. CASE call[r].op = "acceptDisconnect"
    <2> DEFINE res == BuildDisconnectResponse(control.channel.session)
    <2>1. Answer(r, w, control, res)
      BY <1>8 DEF TakeFrame
    <2> HIDE DEF control
    <2>2. ChannelOf(r, control.channel) /\ control.channel.session \in Session
          /\ control.frame \in ChannelFrames \cup {NoFrame}
      BY <1>1 DEF Takes, ChannelOf, Channels
    <2>3. /\ Heir(control.channel.session, res.session)
          /\ res.frame \in ChannelFrames \cup {NoFrame}
          /\ res.status = "Ok" => res.session.state = "Disconnected"
      BY <2>2, WrittenFrames, BuildDisconnectResponseState DEF Refuses
    <2>4. res.status = "Ok" => Carried(r, res.session.state)
      BY <1>8, <2>3 DEF Carried
    <2> HIDE DEF res
    <2> QED
      BY <1>4, <2>1, <2>2, <2>3, <2>4, AnswerStep
  <1>9. CASE call[r].op = "send"
    <2> DEFINE k == [call[r] EXCEPT !.checked = TRUE]
    <2>1. /\ Put(r, w, control.channel, control.frame)
          /\ \/ Continue(r, k)
             \/ \E st : Return(r, st)
          /\ UNCHANGED <<apdus, returned>>
      BY <1>9 DEF TakeFrame
    <2> HIDE DEF control
    <2>2. ChannelOf(r, control.channel) /\ control.frame \in ChannelFrames \cup {NoFrame}
      BY <1>1 DEF Takes
    <2>3. k \in Calls /\ k.op = "send"
      BY <1>2, <1>9 DEF Calls
    <2> HIDE DEF k
    <2>4. Fits(r, k, control.channel)
      BY <2>3 DEF Fits
    <2>5. CASE Continue(r, k)
      BY <1>4, <2>1, <2>2, <2>3, <2>4, <2>5, ContinueStep
    <2>6. CASE \E st : Return(r, st)
      BY <1>4, <1>9, <2>1, <2>2, <2>6, ReturnStep DEF Carried
    <2> QED
      BY <2>1, <2>5, <2>6
  <1>10. CASE call[r].op \notin {"connect", "disconnect", "accept", "acceptDisconnect", "send"}
    <2>1. ChannelOf(r, data.channel) /\ data.frame \in ChannelFrames \cup {NoFrame}
      BY <1>1 DEF Takes
    <2>2. CASE status = "Ok" /\ data.channel.pendingApdus # <<>>
      <3> DEFINE d == WithoutFront(data.channel)
      <3>1. /\ Put(r, w, d, data.frame) /\ Return(r, "Ok") /\ UNCHANGED apdus
            /\ HandOut(r, data.channel)
        BY <1>10, <2>2 DEF TakeFrame
      <3> HIDE DEF data, control
      <3>2. ChannelOf(r, d) /\ BudgetTypes'
        BY <1>2, <1>3, <2>1, <2>2, <3>1, HandOutTypes
      <3> HIDE DEF d
      <3> QED
        BY <1>10, <2>1, <3>1, <3>2, ReturnStep DEF Carried
    <2>3. CASE ~(status = "Ok" /\ data.channel.pendingApdus # <<>>)
      <3>1. /\ Put(r, w, data.channel, data.frame)
            /\ UNCHANGED <<call, outcome>> \/ Return(r, status)
            /\ UNCHANGED <<apdus, returned>>
        BY <1>10, <2>3 DEF TakeFrame
      <3> HIDE DEF data, control, status
      <3>2. CASE UNCHANGED <<call, outcome>>
        BY <1>4, <1>10, <2>1, <3>1, <3>2, WaitStep
      <3>3. CASE Return(r, status)
        BY <1>4, <1>10, <2>1, <3>1, <3>3, ReturnStep DEF Carried
      <3> QED
        BY <3>1, <3>2, <3>3
    <2> QED
      BY <2>2, <2>3
  <1> QED
    BY <1>6, <1>7, <1>8, <1>9, <1>10

\* What is left of a wire after its first frames.
LEMMA SubSeqFrames ==
  ASSUME NEW s \in Seq(ChannelFrames), NEW m \in Nat \ {0}, NEW n \in 0..Len(s)
  PROVE  SubSeq(s, m, n) \in Seq(ChannelFrames)
  <1>1. \A i \in m..n : i \in 1..Len(s)
    BY LenProperties
  <1>2. \A i \in m..n : s[i] \in ChannelFrames
    BY <1>1, ElementOfSeq
  <1> QED
    BY <1>2, SubSeqProperties, LenProperties

\* A read takes the first frames of the stream.
LEMMA WireRead ==
  ASSUME CallInv, NEW r \in Roles, NEW k \in 1..Len(wire[r])
  PROVE  /\ [wire EXCEPT ![r] = SubSeq(@, k + 1, Len(@))] \in Wires
         /\ SubSeq(wire[r], 2, k) \in Seq(ChannelFrames)
         /\ wire[r] # <<>> /\ Head(wire[r]) \in ChannelFrames
  <1>1. wire \in Wires /\ wire[r] \in Seq(ChannelFrames) /\ Len(wire[r]) \in Nat
    BY StationTypes, LenProperties
  <1>2. SubSeq(wire[r], k + 1, Len(wire[r])) \in Seq(ChannelFrames)
    BY <1>1, SubSeqFrames
  <1>3. SubSeq(wire[r], 2, k) \in Seq(ChannelFrames)
    BY <1>1, SubSeqFrames
  <1>4. wire[r] # <<>>
    BY <1>1, EmptySeq
  <1> QED
    BY <1>1, <1>2, <1>3, <1>4, HeadTailProperties DEF Wires

\* A read that returns frames, whatever the call and the first of the frames.
LEMMA ReadFrameAdvances ==
  ASSUME CallInv, NEW r \in Roles, ReadFrame(r) PROVE Advances
  <1> DEFINE c == channel[r]
             queued == c.pendingHdlcFrames
  <1>1. ChannelOf(r, c) /\ queued \in Seq(ChannelFrames) /\ wire \in Wires /\ SameBudgets
    BY StationTypes DEF ReadFrame
  <1>2. CASE queued # <<>> /\ TakeFrame(r, wire, [c EXCEPT !.pendingHdlcFrames = Tail(@)], Head(queued))
    <2> DEFINE d == [c EXCEPT !.pendingHdlcFrames = Tail(@)]
    <2>1. Head(queued) \in ChannelFrames /\ Tail(queued) \in Seq(ChannelFrames)
      BY <1>1, <1>2, HeadTailProperties, EmptySeq
    <2>2. ChannelOf(r, d) /\ d.session = c.session
      BY <1>1, <2>1 DEF ChannelOf, Channels
    <2>3. TakeFrame(r, wire, d, Head(queued)) /\ Head(queued) = NextFrame(r)
      BY <1>2 DEF NextFrame
    <2> HIDE DEF d
    <2> QED
      BY <1>1, <2>1, <2>2, <2>3, TakeFrameAdvances
  <1>3. ASSUME NEW k \in 1..Len(wire[r]),
               queued = <<>>,
               TakeFrame(r, [wire EXCEPT ![r] = SubSeq(@, k + 1, Len(@))],
                         [c EXCEPT !.pendingHdlcFrames = SubSeq(wire[r], 2, k)],
                         Head(wire[r]))
        PROVE  Advances
    <2> DEFINE w == [wire EXCEPT ![r] = SubSeq(@, k + 1, Len(@))]
               rest == SubSeq(wire[r], 2, k)
               d == [c EXCEPT !.pendingHdlcFrames = rest]
    <2>1. w \in Wires /\ rest \in Seq(ChannelFrames) /\ Head(wire[r]) \in ChannelFrames
      BY WireRead
    <2> HIDE DEF w, rest
    <2>2. ChannelOf(r, d) /\ d.session = c.session
      BY <1>1, <2>1 DEF ChannelOf, Channels
    <2>3. TakeFrame(r, w, d, Head(wire[r]))
      BY <1>3 DEF w, rest
    <2>4. Head(wire[r]) = NextFrame(r)
      BY <1>3, WireRead DEF NextFrame
    <2> HIDE DEF d
    <2> QED
      BY <1>1, <2>1, <2>2, <2>3, <2>4, TakeFrameAdvances
  <1> QED
    BY <1>2, <1>3 DEF ReadFrame

\* A read that fails ends the call or makes it write its request again.
LEMMA ReadFailsAdvances ==
  ASSUME CallInv, NEW r \in Roles, NEW w \in Wires, NEW status, status # "Ok",
         status # "NeedMoreData", ReadFails(r, w, status),
         UNCHANGED up, opens' = opens, faults' \in 0..MaxFaults
  PROVE  Advances
  <1>1. ChannelOf(r, channel[r])
    BY StationTypes
  <1>2. CASE call[r].op \in {"connect", "disconnect"}
    <2>1. RetryOrReturn(r, w, channel[r], status)
      BY <1>2 DEF ReadFails
    <2> QED
      BY <1>1, <1>2, <2>1, RetryStep
  <1>3. CASE call[r].op \notin {"connect", "disconnect"}
    <2>1. Put(r, w, channel[r], NoFrame) /\ Return(r, status) /\ UNCHANGED <<apdus, returned>>
      BY <1>3 DEF ReadFails
    <2>2. BudgetTypes'
      BY <2>1, SameBudgetTypes
    <2> QED
      BY <1>1, <2>1, <2>2, ReturnStep
  <1> QED
    BY <1>2, <1>3

\* A read that times out or fails: the call writes its request again or ends.
LEMMA FailedReadAdvances ==
  ASSUME CallInv, NEW r \in Roles,
         ReadTimesOut(r) \/ ReadIsGarbled(r) \/ ReadFindsBreak(r)
  PROVE  Advances
  <1>1. wire \in Wires /\ faults \in 0..MaxFaults /\ MaxFaults \in Nat
    BY StationTypes, ChannelAssumption DEF BudgetTypes
  <1>2. CASE ReadTimesOut(r)
    <2>1. /\ ReadFails(r, wire, "Timeout") /\ faults' \in 0..MaxFaults
          /\ UNCHANGED up /\ opens' = opens
      BY <1>1, <1>2 DEF ReadTimesOut
    <2> QED
      BY <1>1, <2>1, ReadFailsAdvances
  <1>3. CASE ReadIsGarbled(r)
    <2>1. /\ faults' \in 0..MaxFaults /\ UNCHANGED up /\ opens' = opens
      BY <1>1, <1>3 DEF ReadIsGarbled
    <2>2. PICK k \in 1..Len(wire[r]) :
            ReadFails(r, [wire EXCEPT ![r] = SubSeq(@, k + 1, Len(@))], "InvalidFrame")
      BY <1>3 DEF ReadIsGarbled
    <2>3. [wire EXCEPT ![r] = SubSeq(@, k + 1, Len(@))] \in Wires
      BY WireRead
    <2> QED
      BY <2>1, <2>2, <2>3, ReadFailsAdvances
  <1>4. CASE ReadFindsBreak(r)
    <2>1. /\ ReadFails(r, wire, "ConnectionClosed") /\ faults' \in 0..MaxFaults
          /\ UNCHANGED up /\ opens' = opens
      BY <1>1, <1>4 DEF ReadFindsBreak, SameBudgets
    <2> QED
      BY <1>1, <2>1, ReadFailsAdvances
  <1> QED
    BY <1>2, <1>3, <1>4

-----------------------------------------------------------------------------
(***************************************************************************)
(* The transport connection, and the theorems.                             *)
(***************************************************************************)
LEMMA EmptyWires ==
  ASSUME NEW w, w = [r \in Roles |-> <<>>]
  PROVE  w \in Wires
  BY DEF Wires

\* A connection that breaks leaves both channels as they are.
LEMMA BreakAdvances == ASSUME CallInv, Break PROVE Advances
  <1>1. wire' \in Wires
    BY EmptyWires DEF Break
  <1>2. UNCHANGED <<channel, call, outcome, apdus, returned, faults, opens>> /\ up' \in BOOLEAN
    BY DEF Break
  <1>3. BudgetTypes'
    BY <1>2 DEF CallInv, ChannelTypes, BudgetTypes
  <1>4. ChannelTypes'
    BY <1>1, <1>2, <1>3 DEF CallInv, ChannelTypes, Wires, ChannelOf
  <1>5. \A r \in Roles : Requesting(r)' /\ TrueOutcome(r)
    BY <1>2 DEF CallInv, Requesting, TrueOutcome
  <1> QED
    BY <1>4, <1>5 DEF Advances, CallInv

\* A refusal puts a DM on the client's wire and leaves both channels as they are.
LEMMA RefusalAdvances == ASSUME CallInv, RefuseConnection PROVE Advances
  <1> DEFINE dm == UFrame("Dm", "server", "empty", DefaultSnrmParams, NoPayload)
  <1>1. /\ wire' = [wire EXCEPT !["server"] = Tail(@), !["client"] = Append(@, dm)]
        /\ wire["server"] # <<>> /\ faults < MaxFaults /\ faults' = faults + 1
        /\ UNCHANGED <<channel, call, outcome, apdus, returned, up, opens>>
    BY DEF RefuseConnection
  <1>2. dm \in ChannelFrames
    <2>1. DefaultSnrmParams \in SnrmParams /\ <<>> \in Seq(Nat)
      BY DEF DefaultSnrmParams, SnrmParams
    <2> QED
      BY <2>1 DEF UFrame, Frame, ChannelFrames, NoPayload
  <1> HIDE DEF dm
  <1>3. wire \in Wires /\ wire["client"] \in Seq(ChannelFrames)
        /\ wire["server"] \in Seq(ChannelFrames) /\ BudgetTypes
    BY StationTypes
  <1>4. /\ Tail(wire["server"]) \in Seq(ChannelFrames)
        /\ Append(wire["client"], dm) \in Seq(ChannelFrames)
    BY <1>1, <1>2, <1>3, HeadTailProperties, AppendProperties, EmptySeq
  <1>5. wire' \in Wires
    BY <1>1, <1>3, <1>4 DEF Wires
  <1>6. BudgetTypes'
    BY <1>1, <1>3, ChannelAssumption DEF BudgetTypes
  <1>7. ChannelTypes'
    BY <1>1, <1>5, <1>6 DEF CallInv, ChannelTypes, Wires, ChannelOf
  <1>8. \A r \in Roles : Requesting(r)' /\ TrueOutcome(r)
    BY <1>1 DEF CallInv, Requesting, TrueOutcome
  <1> QED
    BY <1>7, <1>8 DEF Advances, CallInv

\* A new channel.
LEMMA NewChannelType ==
  ASSUME NEW r \in Roles PROVE ChannelOf(r, NewChannel(r))
  <1>1. NewSession(r, Limits[r], 0) \in Session /\ NewSession(r, Limits[r], 0).role = r
    BY ChannelAssumption, NewSessionType
  <1>2. <<>> \in Seq(Chunks) /\ <<>> \in Seq(ChannelFrames) /\ <<>> \in Seq(Seq(Chunks))
        /\ Len(<<>>) <= ReassemblyLimit
    BY ChannelAssumption
  <1> QED
    BY <1>1, <1>2 DEF NewChannel, ChannelOf, Channels

\* A closed one.
LEMMA ClosedChannelType ==
  ASSUME NEW r \in Roles, NEW c, ChannelOf(r, c)
  PROVE  ChannelOf(r, ClosedChannel(c)) /\ ClosedChannel(c).session = c.session
  <1> DEFINE none == <<>>
             m1 == [c EXCEPT !.reassembler = none]
             m2 == [m1 EXCEPT !.pendingHdlcFrames = none]
             m3 == [m2 EXCEPT !.pendingApdus = none]
  <1>1. ClosedChannel(c) = m3
    BY DEF ClosedChannel
  <1>2. none \in Seq(Chunks) /\ none \in Seq(ChannelFrames) /\ none \in Seq(Seq(Chunks))
        /\ Len(none) <= ReassemblyLimit
    BY ChannelAssumption
  <1> HIDE DEF none
  <1>3. m1 \in Channels /\ m1.session = c.session /\ m1.reassembler = none
    BY <1>2 DEF ChannelOf, Channels
  <1> HIDE DEF m1
  <1>4. m2 \in Channels /\ m2.session = c.session /\ m2.reassembler = none
    BY <1>2, <1>3 DEF Channels
  <1> HIDE DEF m2
  <1>5. m3 \in Channels /\ m3.session = c.session /\ m3.reassembler = none
    BY <1>2, <1>4 DEF Channels
  <1> HIDE DEF m3
  <1> QED
    BY <1>1, <1>2, <1>5 DEF ChannelOf

\* No call is running.
LEMMA IdleType == Idle \in Calls /\ Idle.op = "idle"
  BY ChannelAssumption DEF Idle, Call, Calls, Operations

\* Close and Open of the client channel, with a new channel for the server.
LEMMA ReopenAdvances == ASSUME CallInv, Reopen PROVE Advances
  <1> DEFINE c == ClosedChannel(channel["client"])
             s == NewChannel("server")
  <1>1. /\ call["client"].op = "idle"
        /\ channel' = [channel EXCEPT !["client"] = c, !["server"] = s]
        /\ call' = [call EXCEPT !["server"] = Idle]
        /\ outcome' = [r \in Roles |-> <<"open", "Ok">>]
        /\ up' = TRUE /\ opens' = opens + 1 /\ opens < MaxOpens
        /\ UNCHANGED <<apdus, returned, faults>>
    BY DEF Reopen
  <1>2. ChannelOf("client", c) /\ ChannelOf("server", s)
    BY StationTypes, ClosedChannelType, NewChannelType
  <1> HIDE DEF c, s
  <1>3. /\ channel' \in [Roles -> Channels]
        /\ channel'["client"] = c /\ channel'["server"] = s
    BY <1>1, <1>2 DEF CallInv, ChannelTypes, ChannelOf
  <1>4. /\ call' \in [Roles -> Calls]
        /\ call'["client"].op = "idle" /\ call'["server"].op = "idle"
    BY <1>1, IdleType DEF CallInv, ChannelTypes
  <1>5. BudgetTypes'
    BY <1>1, ChannelAssumption DEF CallInv, ChannelTypes, BudgetTypes
  <1>6. outcome' = [r \in Roles |-> outcome'[r]]
    BY <1>1
  <1>7. wire' \in Wires
    BY EmptyWires DEF Reopen
  <1>8. ChannelTypes'
    BY <1>2, <1>3, <1>4, <1>5, <1>6, <1>7 DEF ChannelTypes, Wires, ChannelOf
  <1>9. \A r \in Roles : Requesting(r)'
    BY <1>4 DEF Requesting
  <1>10. \A r \in Roles : TrueOutcome(r)
    <2>1. \A r \in Roles : outcome'[r] = <<"open", "Ok">>
      BY <1>1
    <2>2. \A op : <<"open", "Ok">> = <<op, "Ok">> => op = "open"
      OBVIOUS
    <2> QED
      BY <2>1, <2>2 DEF TrueOutcome
  <1> QED
    BY <1>8, <1>9, <1>10 DEF Advances, CallInv

\* A step of another component.
LEMMA CallStutter == ASSUME CallInv, UNCHANGED vars PROVE Advances
  <1>1. UNCHANGED <<channel, wire, call, outcome>>
        /\ UNCHANGED <<apdus, returned, up, faults, opens>>
    BY DEF vars
  <1>2. BudgetTypes'
    BY <1>1 DEF CallInv, ChannelTypes, BudgetTypes
  <1>3. ChannelTypes'
    BY <1>1, <1>2 DEF CallInv, ChannelTypes, ChannelOf
  <1>4. \A r \in Roles : Requesting(r)' /\ TrueOutcome(r)
    BY <1>1 DEF CallInv, Requesting, TrueOutcome
  <1> QED
    BY <1>3, <1>4 DEF Advances, CallInv

\* Every step keeps the invariant, and the outcomes that it reports are true.
LEMMA CallsAdvance == ASSUME CallInv, [Next]_vars PROVE Advances
  <1>1. CASE UNCHANGED vars
    BY <1>1, CallStutter
  <1>2. CASE ConnectDataLink \/ AcceptDataLink \/ AcceptDisconnectDataLink \/ Break
             \/ RefuseConnection \/ Reopen
    BY <1>2, RefusalAdvances, ConnectAdvances, AcceptAdvances, AcceptDisconnectAdvances, BreakAdvances,
       ReopenAdvances
  <1>3. ASSUME NEW r \in Roles,
               \/ DisconnectDataLink(r) \/ SendApdu(r) \/ SendChunk(r) \/ ReceiveApdu(r)
               \/ ReadFrame(r) \/ ReadTimesOut(r) \/ ReadIsGarbled(r) \/ ReadFindsBreak(r)
        PROVE  Advances
    BY <1>3, DisconnectAdvances, SendApduAdvances, SendChunkAdvances, ReceiveApduAdvances,
       ReadFrameAdvances, FailedReadAdvances
  <1> QED
    BY <1>1, <1>2, <1>3 DEF Next

\* Both channels begin with a fresh session and no call.
LEMMA CallInit == Init => CallInv
  <1> SUFFICES ASSUME Init PROVE CallInv
    OBVIOUS
  <1>1. wire \in Wires
    BY EmptyWires DEF Init
  <1>2. /\ channel \in [Roles -> Channels]
        /\ \A r \in Roles : ChannelOf(r, channel[r])
    BY NewChannelType DEF Init, ChannelOf
  <1>3. call \in [Roles -> Calls] /\ \A r \in Roles : call[r].op = "idle"
    BY IdleType DEF Init
  <1>4. outcome = [r \in Roles |-> outcome[r]]
    BY DEF Init
  <1>5. BudgetTypes
    <2>1. <<>> \in Seq(Seq(Chunks))
      OBVIOUS
    <2> QED
      BY <2>1, ChannelAssumption DEF Init, BudgetTypes
  <1>6. ChannelTypes
    BY <1>1, <1>2, <1>3, <1>4, <1>5 DEF ChannelTypes, Wires
  <1> QED
    BY <1>3, <1>6 DEF CallInv, Requesting

\* The channels keep their types, and a call that waits for the answer to its
\* request waits in the state which that request has led to.
THEOREM CallInvariant == Spec => []CallInv
  <1>1. CallInv /\ [Next]_vars => CallInv'
    BY CallsAdvance DEF Advances
  <1> QED
    BY <1>1, CallInit, PTL DEF Spec

\* Sessions keep their roles, a reassembler its limit, and calls their budgets
\* of retries.
THEOREM ChannelTypeTheorem == Spec => []TypeOK
  <1>1. CallInv => TypeOK
    <2> SUFFICES ASSUME CallInv PROVE TypeOK
      OBVIOUS
    <2>1. BudgetTypes
      BY DEF CallInv, ChannelTypes
    <2>2. \A r \in Roles : apdus[r] \in 0..MaxApdus[r]
      BY <2>1, ChannelAssumption DEF BudgetTypes
    <2> QED
      BY <2>1, <2>2, StationTypes DEF TypeOK, ChannelOf, BudgetTypes
  <1> QED
    BY <1>1, CallInvariant, PTL

\* What the Ok of a call says of the session is true: an accept has connected it,
\* a disconnect has disconnected it, and a connect has connected it unless the
\* frame that it took was the DM of a server that refuses.  Retransmissions,
\* frames out of place and writes that fail never make the report wrong.
THEOREM OutcomesTheorem == Spec => OutcomesAreTrue
  <1> DEFINE Report ==
        \A r \in Roles :
          call[r].op # "idle" /\ call'[r].op = "idle" /\ outcome'[r] = <<call[r].op, "Ok">> =>
            /\ call[r].op = "connect" =>
                 channel'[r].session.state =
                   IF NextFrame(r).kind = "Dm" THEN "Disconnected" ELSE "Connected"
            /\ call[r].op = "accept" => channel'[r].session.state = "Connected"
            /\ call[r].op \in {"disconnect", "acceptDisconnect"} =>
                 channel'[r].session.state = "Disconnected"
  <1>1. CallInv /\ [Next]_vars => [Report]_<<call, channel, outcome>>
    BY CallsAdvance DEF Advances, TrueOutcome
  <1>2. Spec => [][Report]_<<call, channel, outcome>>
    BY <1>1, CallInvariant, PTL DEF Spec
  <1> QED
    BY <1>2 DEF OutcomesAreTrue

=============================================================================
