--------------------------- MODULE HdlcLinkProofs ---------------------------
(***************************************************************************)
(* The safety properties of HdlcLink for every choice of limits with       *)
(* transmit windows of at most 7, every number of connections, frames,     *)
(* retransmissions and losses.                                             *)
(*                                                                         *)
(* A number of three bits means something only together with what is on    *)
(* the wires, so the invariant LinkInv says which frames can be on them:   *)
(*   Phases, Answers     which states the two stations are in together     *)
(*   WireInv             which requests and answers are on the way, and    *)
(*                       which of them can be in front of which            *)
(*   Synchronised        acked <= received <= sent, in both directions     *)
(*   DataInv             what the numbered frames that a station will take *)
(*                       tell it is true, and later frames tell more       *)
(* Every step of the two sessions is first described by what it does to    *)
(* the few variables the argument reads (the lemmas named Station and the  *)
(* operators named Takes), and then shown to keep LinkInv.                 *)
(***************************************************************************)
EXTENDS HdlcLink, HdlcStationProofs, SequenceTheorems

USE DEF Roles, SessionStates, SequenceNumbers, kDefaultMaxInfoFieldLength,
        kDefaultWindowSize, kNegotiationBlockSize

LinkTypes ==
  /\ sessions \in [Roles -> Session]
  /\ \A r \in Roles : sessions[r].role = r /\ sessions[r].local = Normalise(LinkLimits[r])
  /\ wire \in [Roles -> Seq(Frames)]
  /\ request \in [Roles -> Frames \cup {NoFrame}]
  /\ retries \in [Roles -> 0..MaxRetries]
  /\ losses \in 0..MaxLosses
  /\ conn \in [Roles -> 0..MaxConn]
  /\ sentBy \in [Roles -> Nat]
  /\ ackedBy \in [Roles -> Nat]
  /\ rcvd \in [Roles -> Nat]
  /\ got \in [Roles -> Seq(Nat)]
  /\ \A r \in Roles : sentBy[r] <= LinkMaxSent[r]

\* What the argument reads of a station.
State(r)   == sessions[r].state
VS(r)      == sessions[r].sendSequence
VA(r)      == sessions[r].acknowledgeSequence
VR(r)      == sessions[r].receiveSequence
Window(r)  == sessions[r].windowSizeTransmit
Agreed(r)  == sessions[r].negotiated
Leaving(r) == sessions[r].disconnectResponsePending
Entering(r) == sessions[r].connectResponsePending

(***************************************************************************)
(* The counters of a station are what its three-bit variables count, and   *)
(* they respect its window.                                                *)
(***************************************************************************)
StationCounts(r) ==
  /\ VS(r) = sentBy[r] % 8
  /\ VA(r) = ackedBy[r] % 8
  /\ VR(r) = rcvd[r] % 8
  /\ ackedBy[r] <= sentBy[r]
  /\ sentBy[r] - ackedBy[r] <= Window(r)
  /\ Window(r) \in 0..7
  /\ State(r) \in {"Disconnected", "AwaitingConnection"} =>
       sentBy[r] = 0 /\ ackedBy[r] = 0 /\ rcvd[r] = 0

-----------------------------------------------------------------------------
(***************************************************************************)
(* The negotiation that the limits of the two stations lead to.            *)
(***************************************************************************)
ClientLimits == Normalise(LinkLimits["client"])
ServerLimits == Normalise(LinkLimits["server"])

\* Only a client whose limits are not the defaults sends a negotiation block.
Negotiates == ~IsDefaultNegotiationLimits(ClientLimits)

Proposed == EncodeSnrmNegotiationBlock(Proposal(ClientLimits))
Outcome  == NegotiateParams(Proposed, ServerLimits)

\* The frames of the data link requests.
SnrmFrame(c) ==
  UFrame("Snrm", "client", IF Negotiates THEN "block" ELSE "empty",
         IF Negotiates THEN Proposed ELSE DefaultSnrmParams, <<c>>)

DiscFrame(r) == UFrame("Disc", r, "empty", DefaultSnrmParams, NoPayload)

\* What the server has kept of the SNRM that it has not answered.
AsProposed ==
  /\ sessions["server"].pendingActive <=> Negotiates
  /\ Negotiates => sessions["server"].pending = Proposed

\* The limits of a connected station are those of the outcome.
Settled ==
  Negotiates =>
    /\ State("client") = "Connected" =>
         /\ Agreed("client") = [maxTransmit |-> Outcome.maxInfoTx,
                                maxReceive |-> Outcome.maxInfoRx,
                                windowTransmit |-> Outcome.windowTx % 256,
                                windowReceive |-> Outcome.windowRx % 256]
         /\ Window("client") = Outcome.windowTx % 256
    /\ State("server") = "Connected" =>
         /\ Agreed("server") = [maxTransmit |-> Outcome.maxInfoRx,
                                maxReceive |-> Outcome.maxInfoTx,
                                windowTransmit |-> Outcome.windowRx % 256,
                                windowReceive |-> Outcome.windowTx % 256]
         /\ Window("server") = Outcome.windowRx % 256

-----------------------------------------------------------------------------
(***************************************************************************)
(* Where the two stations can be at the same time.                         *)
(***************************************************************************)
Phases ==
  /\ conn["server"] <= conn["client"]
  /\ State("server") # "AwaitingConnection"
  /\ State("client") = "Connected" =>
       State("server") \in {"Connected", "AwaitingDisconnect"} /\ conn["server"] = conn["client"]
  /\ State("server") = "Connected" =>
       State("client") # "Disconnected" /\ conn["server"] = conn["client"]
  /\ State("client") = "AwaitingDisconnect" /\ State("server") = "AwaitingDisconnect" =>
       conn["server"] = conn["client"]

\* A station owes an answer only while its peer waits for one.
Answers ==
  /\ ~Entering("client")
  /\ Entering("server") =>
       /\ State("server") = "Disconnected" /\ State("client") = "AwaitingConnection"
       /\ conn["server"] = conn["client"] /\ AsProposed
  /\ Leaving("client") =>
       /\ State("client") \in {"Connected", "AwaitingDisconnect"}
       /\ State("server") = "AwaitingDisconnect" /\ ~Leaving("server")
  /\ Leaving("server") =>
       /\ State("server") \in {"Connected", "AwaitingDisconnect"}
       /\ State("client") = "AwaitingDisconnect"

Requested ==
  /\ State("client") = "AwaitingConnection" => request["client"] = SnrmFrame(conn["client"])
  /\ \A r \in Roles : State(r) = "AwaitingDisconnect" => request[r] = DiscFrame(r)

-----------------------------------------------------------------------------
(***************************************************************************)
(* Which frames can be on a wire, and which of them in front of which.     *)
(***************************************************************************)

\* An SNRM of the connection that the client is opening.
OfThisRequest(f) ==
  State("client") = "AwaitingConnection" /\ f = SnrmFrame(conn["client"])

ToServer(f) ==
  /\ f.kind = "Ua" =>
       /\ State("server") = "AwaitingDisconnect" /\ ~Leaving("server")
       /\ State("client") \in {"Disconnected", "AwaitingConnection"}
       /\ State("client") = "AwaitingConnection" => conn["server"] # conn["client"]
  /\ State("server") = "Disconnected" /\ f.kind = "Snrm" => OfThisRequest(f)
  /\ Entering("server") => f.kind = "Snrm"
  /\ Leaving("server") => f.kind = "Disc"
  /\ State("server") = "Connected" /\ State("client") = "AwaitingConnection" => f.kind = "Snrm"
  /\ State("server") = "Connected" /\ State("client") = "Connected" => f.kind # "Disc"

ToServerOrder(f, g) ==
  /\ State("server") = "Disconnected" /\ f.kind = "Snrm" => g.kind = "Snrm"
  /\ State("server") = "Connected" /\ f.kind = "Disc" => g.kind = "Disc"
  /\ f.kind = "Ua" => OfThisRequest(g)

ToClient(f) ==
  /\ f.kind = "Ua" =>
       \/ /\ State("client") = "AwaitingConnection"
          /\ State("server") \in {"Connected", "AwaitingDisconnect"}
          /\ conn["server"] = conn["client"]
          /\ f.info = IF Negotiates THEN "block" ELSE "empty"
          /\ Negotiates => f.params = Outcome
       \/ State("client") = "AwaitingDisconnect" /\ State("server") = "Disconnected"
  /\ f.kind = "Disc" /\ State("client") = "Connected" => State("server") = "AwaitingDisconnect"

ToClientOrder(f, g) ==
  f.kind = "Ua" =>
    /\ g.kind # "Ua"
    /\ State("client") = "AwaitingConnection" /\ g.kind = "Disc" =>
         State("server") = "AwaitingDisconnect"

Allowed(p, f) == IF p = "server" THEN ToServer(f) ELSE ToClient(f)

Follows(p, f, g) == IF p = "server" THEN ToServerOrder(f, g) ELSE ToClientOrder(f, g)

WireInv(p) ==
  \A i \in 1..Len(wire[p]) :
    /\ Allowed(p, wire[p][i])
    /\ \A j \in 1..Len(wire[p]) : i < j => Follows(p, wire[p][i], wire[p][j])

-----------------------------------------------------------------------------
(***************************************************************************)
(* The data phase.                                                         *)
(***************************************************************************)

\* Both stations are in the same connection, or were when they left it.
InSync ==
  /\ State("client") # "Disconnected"
  /\ State("server") \in {"Connected", "AwaitingDisconnect"}
  /\ conn["server"] = conn["client"]

Synchronised ==
  InSync => \A r \in Roles : ackedBy[r] <= rcvd[Peer(r)] /\ rcvd[Peer(r)] <= sentBy[r]

Numbered(f) == f.kind \in {"I", "S"}

\* How many I-frames the N(R) of f acknowledges to p.
Ahead(p, f) == (f.nr - VA(p)) % 8

\* The index of an I-frame in its connection.
Index(f) == f.data[2]

\* f tells p what its sender has sent and accepted.
Truthful(p, f) ==
  /\ Numbered(f) => ackedBy[p] + Ahead(p, f) <= rcvd[Peer(p)]
  /\ f.kind = "I" =>
       /\ f.data = Payload(conn[p], Index(f))
       /\ Index(f) \in Nat
       /\ rcvd[p] < Index(f) /\ Index(f) <= sentBy[Peer(p)]
       /\ f.ns = (Index(f) - 1) % 8

Rises(p, f, g) ==
  /\ Numbered(f) /\ Numbered(g) => Ahead(p, f) <= Ahead(p, g)
  /\ f.kind = "I" /\ g.kind = "I" => Index(f) < Index(g)

\* The frame at place i will find p connected.
Current(p, i) ==
  \/ State(p) = "Connected"
  \/ /\ p = "client" /\ State("client") = "AwaitingConnection"
     /\ \E j \in 1..Len(wire[p]) : j < i /\ wire[p][j].kind = "Ua"

DataInv(p) ==
  \A i \in 1..Len(wire[p]) : Current(p, i) =>
    /\ Truthful(p, wire[p][i])
    /\ \A j \in 1..Len(wire[p]) : i < j => Rises(p, wire[p][i], wire[p][j])

\* The inductive invariant: each part needs the others.
LinkInv ==
  /\ LinkTypes
  /\ \A r \in Roles : StationCounts(r)
  /\ Phases
  /\ Answers
  /\ Requested
  /\ Settled
  /\ \A p \in Roles : WireInv(p)
  /\ Synchronised
  /\ \A p \in Roles : DataInv(p)
  /\ InOrderExactlyOnce

-----------------------------------------------------------------------------
(***************************************************************************)
(* Wires that grow and shrink.                                             *)
(***************************************************************************)
LEMMA Appended ==
  ASSUME NEW S, NEW w \in Seq(S), NEW f \in S, NEW v, v = Append(w, f)
  PROVE  /\ v \in Seq(S) /\ Len(w) \in Nat /\ Len(v) = Len(w) + 1
         /\ \A i \in 1..Len(w) : v[i] = w[i]
         /\ v[Len(w) + 1] = f
  BY AppendProperties

\* Tail moves every element one place forward.
LEMMA Shortened ==
  ASSUME NEW S, NEW w \in Seq(S), w # <<>>, NEW v, v = Tail(w)
  PROVE  /\ v \in Seq(S) /\ Len(w) \in Nat /\ Len(w) >= 1 /\ Len(v) = Len(w) - 1
         /\ \A i \in 1..Len(v) : v[i] = w[i + 1]
         /\ Head(w) = w[1] /\ w[1] \in S
  BY HeadTailProperties, EmptySeq

\* A wire holds frames only.
LEMMA WireTypes ==
  ASSUME LinkTypes, NEW p \in Roles
  PROVE  /\ wire[p] \in Seq(Frames) /\ Len(wire[p]) \in Nat
         /\ \A i \in 1..Len(wire[p]) : wire[p][i] \in Frames
  <1>1. wire[p] \in Seq(Frames)
    BY DEF LinkTypes
  <1> QED
    BY <1>1, LenProperties, ElementOfSeq

\* A step that leaves what is on a wire in its place.
Persists(p) ==
  /\ \A g \in Frames : Allowed(p, g) => Allowed(p, g)'
  /\ \A g, k \in Frames : Allowed(p, g) /\ Allowed(p, k) /\ Follows(p, g, k) => Follows(p, g, k)'

\* A wire that is not written to keeps its invariant under such a step.
LEMMA WireKept ==
  ASSUME LinkTypes, NEW p \in Roles, WireInv(p), Persists(p), wire'[p] = wire[p]
  PROVE  WireInv(p)'
  BY WireTypes DEF WireInv, Persists

\* So does a wire that gets a frame which is allowed behind all the others.
LEMMA WireGrows ==
  ASSUME LinkTypes, NEW p \in Roles, WireInv(p), Persists(p),
         NEW f \in Frames, wire'[p] = Append(wire[p], f), Allowed(p, f)',
         \A g \in Frames : Allowed(p, g) => Follows(p, g, f)'
  PROVE  WireInv(p)'
  <1>0. PICK w, v : w = wire[p] /\ v = wire'[p]
    OBVIOUS
  <1>1. /\ Len(w) \in Nat /\ Len(v) = Len(w) + 1 /\ v[Len(w) + 1] = f
        /\ \A i \in 1..Len(w) : v[i] = w[i] /\ w[i] \in Frames
    BY <1>0, WireTypes, Appended
  <1>2. \A i \in 1..Len(w) : Allowed(p, w[i])
        /\ \A j \in 1..Len(w) : i < j => Follows(p, w[i], w[j])
    BY <1>0 DEF WireInv
  <1>3. \A i \in 1..Len(v) : Allowed(p, v[i])'
    BY <1>1, <1>2 DEF Persists
  <1>4. ASSUME NEW i \in 1..Len(v), NEW j \in 1..Len(v), i < j
        PROVE  Follows(p, v[i], v[j])'
    <2>1. CASE j \in 1..Len(w)
      BY <1>1, <1>2, <1>4, <2>1 DEF Persists
    <2>2. CASE j = Len(w) + 1
      BY <1>1, <1>2, <1>4, <2>2
    <2> QED
      BY <1>1, <2>1, <2>2
  <1> QED
    BY <1>0, <1>3, <1>4 DEF WireInv

\* The frame h leaves the wire.
Passes(p, h) ==
  /\ \A g \in Frames : Allowed(p, g) /\ Follows(p, h, g) => Allowed(p, g)'
  /\ \A g, k \in Frames :
       /\ Allowed(p, g) /\ Allowed(p, k)
       /\ Follows(p, h, g) /\ Follows(p, h, k) /\ Follows(p, g, k)
       => Follows(p, g, k)'

\* So does a wire that loses its first frame.
LEMMA WireShrinks ==
  ASSUME LinkTypes, NEW p \in Roles, WireInv(p),
         wire[p] # <<>>, wire'[p] = Tail(wire[p]), Passes(p, wire[p][1])
  PROVE  WireInv(p)'
  <1>0. PICK w, v, h : w = wire[p] /\ v = wire'[p] /\ h = wire[p][1]
    OBVIOUS
  <1>1. /\ Len(w) \in Nat /\ Len(w) >= 1 /\ Len(v) = Len(w) - 1
        /\ \A i \in 1..Len(v) : v[i] = w[i + 1]
        /\ \A i \in 1..Len(w) : w[i] \in Frames
    BY <1>0, WireTypes, Shortened
  <1>2. \A i \in 1..Len(w) : Allowed(p, w[i])
        /\ \A j \in 1..Len(w) : i < j => Follows(p, w[i], w[j])
    BY <1>0 DEF WireInv
  <1>3. \A i \in 1..Len(v) : i + 1 \in 1..Len(w) /\ v[i] = w[i + 1]
        /\ Allowed(p, v[i]) /\ Follows(p, h, v[i]) /\ v[i] \in Frames
    BY <1>0, <1>1, <1>2
  <1>4. \A i \in 1..Len(v) : \A j \in 1..Len(v) : i < j => Follows(p, v[i], v[j])
    BY <1>1, <1>2
  <1>5. Passes(p, h)
    BY <1>0
  <1>6. \A i \in 1..Len(v) : Allowed(p, v[i])'
    BY <1>3, <1>5 DEF Passes
  <1>7. \A i \in 1..Len(v) : \A j \in 1..Len(v) : i < j => Follows(p, v[i], v[j])'
    BY <1>3, <1>4, <1>5 DEF Passes
  <1> QED
    BY <1>0, <1>6, <1>7 DEF WireInv

-----------------------------------------------------------------------------
(***************************************************************************)
(* The data phase of a wire.                                               *)
(***************************************************************************)

\* No frame on the wire will find p connected.
Closed(p) ==
  /\ State(p) # "Connected"
  /\ p = "client" /\ State("client") = "AwaitingConnection" =>
       \A i \in 1..Len(wire[p]) : wire[p][i].kind # "Ua"

\* There is nothing to know of the data on a closed wire.
LEMMA ClosedWireNext ==
  ASSUME NEW p \in Roles, Closed(p)'
  PROVE  DataInv(p)'
  BY DEF Closed, DataInv, Current

\* The numbers that the argument calculates with.
LEMMA CounterTypes ==
  ASSUME LinkTypes, NEW p \in Roles
  PROVE  /\ conn[p] \in Nat /\ sentBy[p] \in Nat /\ ackedBy[p] \in Nat /\ rcvd[p] \in Nat
         /\ Peer(p) \in Roles /\ VA(p) \in 0..7 /\ VS(p) \in 0..7 /\ VR(p) \in 0..7
  <1>1. sessions[p] \in Session /\ conn[p] \in 0..MaxConn /\ MaxConn \in Nat
    BY LinkBoundsAssumption DEF LinkTypes
  <1>2. sentBy[p] \in Nat /\ ackedBy[p] \in Nat /\ rcvd[p] \in Nat
    BY DEF LinkTypes
  <1>3. VA(p) \in 0..7 /\ VS(p) \in 0..7 /\ VR(p) \in 0..7
    BY <1>1 DEF VA, VS, VR, Session
  <1> QED
    BY <1>1, <1>2, <1>3 DEF Peer

\* An N(R) is at most seven frames ahead.
LEMMA AheadType ==
  ASSUME LinkTypes, NEW p \in Roles
  PROVE  \A f \in Frames : Ahead(p, f) \in 0..7
  <1>1. VA(p) \in 0..7
    BY CounterTypes
  <1>2. \A f \in Frames : f.nr \in 0..7
    BY DEF Frames
  <1>3. \A a, b \in 0..7 : (a - b) % 8 \in 0..7
    OBVIOUS
  <1> QED
    BY <1>1, <1>2, <1>3 DEF Ahead

\* A step that p does not see and that its peer does not take back.
Unseen(p) ==
  /\ VA(p)' = VA(p)
  /\ ackedBy'[p] = ackedBy[p] /\ rcvd'[p] = rcvd[p] /\ conn'[p] = conn[p]
  /\ rcvd[Peer(p)] <= rcvd'[Peer(p)] /\ rcvd'[Peer(p)] \in Nat
  /\ sentBy[Peer(p)] <= sentBy'[Peer(p)] /\ sentBy'[Peer(p)] \in Nat

\* Such a step leaves true what the frames tell p.
LEMMA StillTruthful ==
  ASSUME LinkTypes, NEW p \in Roles, Unseen(p)
  PROVE  /\ \A f \in Frames : Truthful(p, f) => Truthful(p, f)'
         /\ \A f, g \in Frames : Rises(p, f, g) => Rises(p, f, g)'
  <1>1. \A f : Ahead(p, f)' = Ahead(p, f)
    BY DEF Ahead, Unseen
  <1>2. \A f \in Frames : Ahead(p, f) \in 0..7
    BY AheadType
  <1>3. Peer(p) \in Roles /\ Peer(p)' = Peer(p)
    BY DEF Peer
  <1>4. /\ ackedBy[p] \in Nat /\ rcvd[p] \in Nat /\ rcvd[Peer(p)] \in Nat
        /\ sentBy[Peer(p)] \in Nat
    BY <1>3, CounterTypes
  <1>5. ASSUME NEW f \in Frames, Truthful(p, f)
        PROVE  Truthful(p, f)'
    <2>1. Numbered(f)' => ackedBy'[p] + Ahead(p, f)' <= rcvd'[Peer(p)]
      <3>1. Numbered(f)' => ackedBy[p] + Ahead(p, f) <= rcvd[Peer(p)]
        BY <1>5 DEF Truthful, Numbered
      <3>2. ackedBy'[p] + Ahead(p, f)' = ackedBy[p] + Ahead(p, f)
        BY <1>1 DEF Unseen
      <3>3. Ahead(p, f) \in 0..7
        BY <1>2
      <3> QED
        BY <3>1, <3>2, <3>3, <1>4 DEF Unseen
    <2>2. f.kind = "I" =>
            /\ f.data = Payload(conn'[p], Index(f))
            /\ Index(f) \in Nat
            /\ rcvd'[p] < Index(f) /\ Index(f) <= sentBy'[Peer(p)]
            /\ f.ns = (Index(f) - 1) % 8
      BY <1>4, <1>5 DEF Truthful, Unseen
    <2> QED
      BY <2>1, <2>2, <1>3 DEF Truthful, Payload, Index, Numbered
  <1>6. ASSUME NEW f \in Frames, NEW g \in Frames, Rises(p, f, g)
        PROVE  Rises(p, f, g)'
    BY <1>1, <1>6 DEF Rises, Numbered, Index
  <1> QED
    BY <1>5, <1>6

\* A wire that is not written to keeps its data invariant under such a step.
LEMMA DataKept ==
  ASSUME LinkTypes, NEW p \in Roles, DataInv(p), Unseen(p), State(p)' = State(p),
         wire'[p] = wire[p]
  PROVE  DataInv(p)'
  <1>1. \A i \in 1..Len(wire[p]) : wire[p][i] \in Frames
    BY WireTypes
  <1>2. \A i : Current(p, i)' => Current(p, i)
    BY DEF Current
  <1> QED
    BY <1>1, <1>2, StillTruthful DEF DataInv

\* The first frame leaves the wire.
LEMMA DataTaken ==
  ASSUME LinkTypes, NEW p \in Roles, DataInv(p), Unseen(p), wire[p] # <<>>, wire'[p] = Tail(wire[p]),
         \A i \in 1..Len(wire'[p]) : Current(p, i)' => Current(p, i + 1)
  PROVE  DataInv(p)'
  <1>0. PICK w, v : w = wire[p] /\ v = wire'[p]
    OBVIOUS
  <1>1. /\ Len(w) \in Nat /\ Len(w) >= 1 /\ Len(v) = Len(w) - 1
        /\ \A i \in 1..Len(v) : v[i] = w[i + 1]
        /\ \A i \in 1..Len(w) : w[i] \in Frames
    BY <1>0, WireTypes, Shortened
  <1>2. ASSUME NEW i \in 1..Len(v), Current(p, i)'
        PROVE  Current(p, i + 1)
    BY <1>0, <1>2
  <1>3. \A i \in 1..Len(w) : Current(p, i) => Truthful(p, w[i])
        /\ \A j \in 1..Len(w) : i < j => Rises(p, w[i], w[j])
    BY <1>0 DEF DataInv
  <1>4. ASSUME NEW i \in 1..Len(v), Current(p, i)'
        PROVE  Truthful(p, v[i])' /\ \A j \in 1..Len(v) : i < j => Rises(p, v[i], v[j])'
    <2>1. i + 1 \in 1..Len(w) /\ v[i] = w[i + 1] /\ v[i] \in Frames
      BY <1>1
    <2>2. Truthful(p, v[i])
      BY <1>2, <1>3, <1>4, <2>1
    <2>3. ASSUME NEW j \in 1..Len(v), i < j
          PROVE  Rises(p, v[i], v[j])'
      <3>1. j + 1 \in 1..Len(w) /\ v[j] = w[j + 1] /\ v[j] \in Frames /\ i + 1 < j + 1
        BY <1>1, <2>3
      <3>2. Rises(p, v[i], v[j])
        BY <1>2, <1>3, <1>4, <2>1, <3>1
      <3> QED
        BY <2>1, <3>1, <3>2, StillTruthful
    <2> QED
      BY <2>1, <2>2, <2>3, StillTruthful
  <1> QED
    BY <1>0, <1>4 DEF DataInv

\* The same for a wire whose reader stays where it is.
LEMMA DataShrinks ==
  ASSUME LinkTypes, NEW p \in Roles, DataInv(p), Unseen(p), State(p)' = State(p),
         wire[p] # <<>>, wire'[p] = Tail(wire[p])
  PROVE  DataInv(p)'
  <1>0. PICK w, v : w = wire[p] /\ v = wire'[p]
    OBVIOUS
  <1>1. /\ Len(w) \in Nat /\ Len(w) >= 1 /\ Len(v) = Len(w) - 1
        /\ \A i \in 1..Len(v) : v[i] = w[i + 1]
    BY <1>0, WireTypes, Shortened
  <1>2. ASSUME NEW i \in 1..Len(v), Current(p, i)'
        PROVE  Current(p, i + 1)
    <2>1. CASE State(p) = "Connected"
      BY <2>1 DEF Current
    <2>2. CASE State(p) # "Connected"
      <3>1. PICK j \in 1..Len(v) : j < i /\ v[j].kind = "Ua"
        BY <1>0, <1>2, <2>2 DEF Current
      <3>2. j + 1 \in 1..Len(w) /\ j + 1 < i + 1 /\ w[j + 1].kind = "Ua"
        BY <1>1, <3>1
      <3>3. p = "client" /\ State("client") = "AwaitingConnection"
        BY <1>2, <2>2 DEF Current
      <3> QED
        BY <1>0, <3>2, <3>3 DEF Current
    <2> QED
      BY <2>1, <2>2
  <1> QED
    BY <1>0, <1>2, DataTaken

\* A frame that finds p connected is the last to be written.
LEMMA DataGrows ==
  ASSUME LinkTypes, NEW p \in Roles, DataInv(p), Unseen(p), State(p)' = State(p),
         NEW f \in Frames, wire'[p] = Append(wire[p], f),
         Numbered(f) =>
           \A i \in Nat : Current(p, i) =>
             Truthful(p, f)' /\ \A g \in Frames : Truthful(p, g) => Rises(p, g, f)'
  PROVE  DataInv(p)'
  <1>0. PICK w, v : w = wire[p] /\ v = wire'[p]
    OBVIOUS
  <1>1. /\ Len(w) \in Nat /\ Len(v) = Len(w) + 1 /\ v[Len(w) + 1] = f
        /\ \A i \in 1..Len(w) : v[i] = w[i] /\ w[i] \in Frames
    BY <1>0, WireTypes, Appended
  <1>2. ASSUME NEW i \in 1..Len(v), Current(p, i)'
        PROVE  Current(p, i)
    <2>1. CASE State(p) = "Connected"
      BY <2>1 DEF Current
    <2>2. CASE State(p) # "Connected"
      <3>1. PICK j \in 1..Len(v) : j < i /\ v[j].kind = "Ua"
        BY <1>0, <1>2, <2>2 DEF Current
      <3>2. j \in 1..Len(w) /\ j < i /\ w[j].kind = "Ua"
        BY <1>1, <3>1
      <3>3. p = "client" /\ State("client") = "AwaitingConnection"
        BY <1>2, <2>2 DEF Current
      <3> QED
        BY <1>0, <3>2, <3>3 DEF Current
    <2> QED
      BY <2>1, <2>2
  <1>3. \A i \in 1..Len(w) : Current(p, i) => Truthful(p, w[i])
        /\ \A j \in 1..Len(w) : i < j => Rises(p, w[i], w[j])
    BY <1>0 DEF DataInv
  <1>4. ASSUME NEW i \in 1..Len(v), Current(p, i)'
        PROVE  Truthful(p, v[i])' /\ \A j \in 1..Len(v) : i < j => Rises(p, v[i], v[j])'
    <2>0. Current(p, i) /\ i \in Nat
      BY <1>1, <1>2, <1>4
    <2>1. CASE i \in 1..Len(w)
      <3>1. Truthful(p, v[i]) /\ v[i] \in Frames
        BY <1>1, <1>3, <2>0, <2>1
      <3>2. ASSUME NEW j \in 1..Len(v), i < j
            PROVE  Rises(p, v[i], v[j])'
        <4>1. CASE j \in 1..Len(w)
          <5>1. Rises(p, v[i], v[j]) /\ v[j] \in Frames
            BY <1>1, <1>3, <2>0, <2>1, <3>2, <4>1
          <5> QED
            BY <3>1, <5>1, StillTruthful
        <4>2. CASE j = Len(w) + 1 /\ Numbered(f)
          BY <1>1, <2>0, <3>1, <4>2
        <4>3. CASE j = Len(w) + 1 /\ ~Numbered(f)
          <5>1. v[j] = f /\ f.kind # "I"
            BY <1>1, <4>3 DEF Numbered
          <5> QED
            BY <4>3, <5>1 DEF Rises, Numbered
        <4> QED
          BY <1>1, <4>1, <4>2, <4>3
      <3> QED
        BY <3>1, <3>2, StillTruthful
    <2>2. CASE i = Len(w) + 1
      <3>1. v[i] = f /\ \A j \in 1..Len(v) : ~(i < j)
        BY <1>1, <2>2
      <3>2. CASE Numbered(f)
        BY <2>0, <3>1, <3>2
      <3>3. CASE ~Numbered(f)
        BY <3>1, <3>3 DEF Truthful, Numbered
      <3> QED
        BY <3>2, <3>3
    <2> QED
      BY <1>1, <2>1, <2>2
  <1> QED
    BY <1>0, <1>4 DEF DataInv

-----------------------------------------------------------------------------
(***************************************************************************)
(* What a step does to a station.                                          *)
(***************************************************************************)
SameNumbers(r) == VS(r)' = VS(r) /\ VA(r)' = VA(r) /\ VR(r)' = VR(r)

ClearNumbers(r) == VS(r)' = 0 /\ VA(r)' = 0 /\ VR(r)' = 0

SameLimits(r) == Window(r)' = Window(r) /\ Agreed(r)' = Agreed(r)

SamePending(r) == (Entering(r)' <=> Entering(r)) /\ (r = "server" => (AsProposed' <=> AsProposed))

Stays(r) ==
  /\ State(r)' = State(r) /\ SameNumbers(r) /\ SameLimits(r) /\ SamePending(r)
  /\ Leaving(r)' <=> Leaving(r)

SessionTypes ==
  /\ sessions \in [Roles -> Session]
  /\ \A r \in Roles : sessions[r].role = r /\ sessions[r].local = Normalise(LinkLimits[r])

\* The other station does not notice.
LEMMA Replaced ==
  ASSUME LinkTypes, NEW r \in Roles, NEW t, Heir(sessions[r], t),
         sessions' = [sessions EXCEPT ![r] = t]
  PROVE  /\ SessionTypes' /\ sessions'[r] = t
         /\ \A q \in Roles : q # r => sessions'[q] = sessions[q] /\ Stays(q)
  <1>1. sessions \in [Roles -> Session]
        /\ \A q \in Roles : sessions[q].role = q /\ sessions[q].local = Normalise(LinkLimits[q])
    BY DEF LinkTypes
  <1>2. sessions'[r] = t /\ \A q \in Roles : q # r => sessions'[q] = sessions[q]
    BY <1>1
  <1>3. SessionTypes'
    BY <1>1, <1>2 DEF SessionTypes, Heir
  <1>4. \A q \in Roles : q # r => Stays(q)
    BY <1>2 DEF Stays, SameNumbers, SameLimits, SamePending, State, VS, VA, VR, Window, Agreed,
                Leaving, Entering, AsProposed
  <1> QED
    BY <1>2, <1>3, <1>4

\* A step that leaves both stations alone.
LEMMA Unmoved ==
  ASSUME LinkTypes, UNCHANGED sessions
  PROVE  SessionTypes' /\ \A q \in Roles : Stays(q)
  BY DEF LinkTypes, SessionTypes, Stays, SameNumbers, SameLimits, SamePending, State, VS, VA, VR,
         Window, Agreed, Leaving, Entering, AsProposed

\* Writing back the session that was read changes nothing.
LEMMA UnmovedOne ==
  ASSUME LinkTypes, NEW r \in Roles, sessions' = [sessions EXCEPT ![r] = sessions[r]]
  PROVE  SessionTypes' /\ \A q \in Roles : Stays(q)
  <1>1. sessions' = sessions
    BY DEF LinkTypes
  <1> QED
    BY <1>1, Unmoved

\* BuildConnectRequest makes a Disconnected client wait for the UA with cleared
\* sequence variables.
LEMMA ConnectStation ==
  ASSUME LinkTypes, Connect
  PROVE  /\ SessionTypes' /\ Stays("server")
         /\ State("client") = "Disconnected" /\ State("client")' = "AwaitingConnection"
         /\ ClearNumbers("client") /\ SameLimits("client") /\ SamePending("client")
         /\ (Leaving("client")' <=> Leaving("client"))
  <1> DEFINE s == sessions["client"]
             m == [s EXCEPT !.state = "AwaitingConnection"]
             t == ResetSequences(m)
  <1>1. s \in Session
    BY DEF LinkTypes
  <1>2. s.state = "Disconnected" /\ sessions' = [sessions EXCEPT !["client"] = t]
    BY DEF Connect, BuildConnectRequest, BuildConnectRequestInternal, NoOutput, Result
  <1>3. /\ Heir(s, t) /\ t.state = "AwaitingConnection"
        /\ t.sendSequence = 0 /\ t.receiveSequence = 0 /\ t.acknowledgeSequence = 0
        /\ t.connectResponsePending = s.connectResponsePending
        /\ t.disconnectResponsePending = s.disconnectResponsePending
        /\ t.negotiated = s.negotiated
        /\ t.windowSizeTransmit = s.windowSizeTransmit
    <2>1. m \in Session /\ Heir(s, m) /\ m.state = "AwaitingConnection"
          /\ m.connectResponsePending = s.connectResponsePending
          /\ m.disconnectResponsePending = s.disconnectResponsePending
          /\ m.negotiated = s.negotiated
          /\ m.windowSizeTransmit = s.windowSizeTransmit
      BY <1>1, StateHeir DEF Heir
    <2> HIDE DEF m
    <2> QED
      BY <2>1, ResetHeir DEF Heir
  <1> HIDE DEF t
  <1>4. SessionTypes' /\ sessions'["client"] = t /\ Stays("server")
    BY <1>2, <1>3, Replaced
  <1> QED
    BY <1>2, <1>3, <1>4 DEF State, ClearNumbers, SameLimits, SamePending, Leaving, Entering,
                            VS, VA, VR, Window, Agreed

\* BuildDisconnectRequest only moves a Connected station to AwaitingDisconnect.
LEMMA DisconnectStation ==
  ASSUME LinkTypes, NEW r \in Roles, Disconnect(r)
  PROVE  /\ SessionTypes' /\ \A q \in Roles : q # r => Stays(q)
         /\ State(r) = "Connected" /\ State(r)' = "AwaitingDisconnect"
         /\ SameNumbers(r) /\ SameLimits(r) /\ SamePending(r)
         /\ (Leaving(r)' <=> Leaving(r))
  <1> DEFINE s == sessions[r]
             t == [s EXCEPT !.state = "AwaitingDisconnect"]
  <1>1. s \in Session
    BY DEF LinkTypes
  <1>2. s.state = "Connected" /\ sessions' = [sessions EXCEPT ![r] = t]
    BY DEF Disconnect, BuildDisconnectRequest, NoOutput, Result
  <1>3. /\ Heir(s, t) /\ t.state = "AwaitingDisconnect"
        /\ t.sendSequence = s.sendSequence /\ t.receiveSequence = s.receiveSequence
        /\ t.acknowledgeSequence = s.acknowledgeSequence
        /\ t.connectResponsePending = s.connectResponsePending
        /\ t.disconnectResponsePending = s.disconnectResponsePending
        /\ t.pendingActive = s.pendingActive /\ t.pending = s.pending
        /\ t.negotiated = s.negotiated
        /\ t.windowSizeTransmit = s.windowSizeTransmit
    BY <1>1, StateHeir
  <1> HIDE DEF t
  <1>4. SessionTypes' /\ sessions'[r] = t /\ \A q \in Roles : q # r => Stays(q)
    BY <1>2, <1>3, Replaced
  <1> QED
    BY <1>2, <1>3, <1>4 DEF State, SameNumbers, SameLimits, SamePending, Leaving, Entering,
                            VS, VA, VR, Window, Agreed, AsProposed

\* BuildDisconnectResponse answers the DISC that is pending and clears the
\* sequence variables.
LEMMA AnswerDisconnectStation ==
  ASSUME LinkTypes, NEW r \in Roles, AnswerDisconnect(r)
  PROVE  /\ SessionTypes' /\ \A q \in Roles : q # r => Stays(q)
         /\ Leaving(r) /\ ~Leaving(r)' /\ State(r)' = "Disconnected"
         /\ ClearNumbers(r) /\ SameLimits(r) /\ SamePending(r)
  <1> DEFINE s == sessions[r]
             m == [s EXCEPT !.state = "Disconnected"]
             n == [m EXCEPT !.disconnectResponsePending = FALSE]
             t == ResetSequences(n)
  <1>1. s \in Session
    BY DEF LinkTypes
  <1>2. s.disconnectResponsePending /\ sessions' = [sessions EXCEPT ![r] = t]
    BY DEF AnswerDisconnect, BuildDisconnectResponse, NoOutput, Result
  <1>3. /\ Heir(s, t) /\ t.state = "Disconnected"
        /\ t.sendSequence = 0 /\ t.receiveSequence = 0 /\ t.acknowledgeSequence = 0
        /\ t.connectResponsePending = s.connectResponsePending
        /\ t.disconnectResponsePending = FALSE
        /\ t.pendingActive = s.pendingActive /\ t.pending = s.pending
        /\ t.negotiated = s.negotiated
        /\ t.windowSizeTransmit = s.windowSizeTransmit
    <2>1. m \in Session /\ Heir(s, m) /\ m.state = "Disconnected"
          /\ m.connectResponsePending = s.connectResponsePending
          /\ m.pendingActive = s.pendingActive /\ m.pending = s.pending
          /\ m.negotiated = s.negotiated
          /\ m.windowSizeTransmit = s.windowSizeTransmit
      BY <1>1, StateHeir DEF Heir
    <2> HIDE DEF m
    <2>2. n \in Session /\ Heir(s, n) /\ n.state = "Disconnected"
          /\ n.connectResponsePending = s.connectResponsePending
          /\ n.disconnectResponsePending = FALSE
          /\ n.pendingActive = s.pendingActive /\ n.pending = s.pending
          /\ n.negotiated = s.negotiated
          /\ n.windowSizeTransmit = s.windowSizeTransmit
      BY <2>1 DEF Heir, Session
    <2> HIDE DEF n
    <2> QED
      BY <2>2, ResetHeir DEF Heir
  <1> HIDE DEF t
  <1>4. SessionTypes' /\ sessions'[r] = t /\ \A q \in Roles : q # r => Stays(q)
    BY <1>2, <1>3, Replaced
  <1> QED
    BY <1>2, <1>3, <1>4 DEF State, ClearNumbers, SameLimits, SamePending, Leaving, Entering,
                            VS, VA, VR, Window, Agreed, AsProposed

\* An I-frame is built only with room in the window.
LEMMA SendStation ==
  ASSUME LinkTypes, NEW r \in Roles, Send(r)
  PROVE  /\ SessionTypes' /\ \A q \in Roles : q # r => Stays(q)
         /\ State(r) = "Connected" /\ State(r)' = "Connected"
         /\ (VS(r) - VA(r)) % 8 < Window(r)
         /\ VS(r)' = (VS(r) + 1) % 8 /\ VA(r)' = VA(r) /\ VR(r)' = VR(r)
         /\ SameLimits(r) /\ SamePending(r)
         /\ (Leaving(r)' <=> Leaving(r))
         /\ wire' = [wire EXCEPT ![Peer(r)] =
              Append(@, Frame("I", r, VS(r), VR(r), "empty", DefaultSnrmParams,
                              Payload(conn[r], sentBy[r] + 1)))]
  <1> DEFINE s == sessions[r]
             t == [s EXCEPT !.sendSequence = NextSequence(@)]
  <1>1. s \in Session /\ s.role = r
    BY DEF LinkTypes
  <1>2. /\ s.state = "Connected" /\ CanSendInformationFrame(s)
        /\ sessions' = [sessions EXCEPT ![r] = t]
        /\ wire' = [wire EXCEPT ![Peer(r)] =
             Append(@, Frame("I", s.role, s.sendSequence, s.receiveSequence, "empty",
                             DefaultSnrmParams, Payload(conn[r], sentBy[r] + 1)))]
    BY DEF Send, BuildInformationFrame, NoOutput, Result, Write
  <1>3. (s.sendSequence - s.acknowledgeSequence) % 8 < s.windowSizeTransmit
    BY <1>2 DEF CanSendInformationFrame, Outstanding
  <1>4. s.sendSequence \in 0..7
    BY <1>1 DEF Session
  <1>5. NextSequence(s.sendSequence) = (s.sendSequence + 1) % 8
        /\ NextSequence(s.sendSequence) \in 0..7
    BY <1>4 DEF NextSequence
  <1>6. /\ Heir(s, t) /\ t.state = s.state
        /\ t.sendSequence = (s.sendSequence + 1) % 8 /\ t.receiveSequence = s.receiveSequence
        /\ t.acknowledgeSequence = s.acknowledgeSequence
        /\ t.connectResponsePending = s.connectResponsePending
        /\ t.disconnectResponsePending = s.disconnectResponsePending
        /\ t.pendingActive = s.pendingActive /\ t.pending = s.pending
        /\ t.negotiated = s.negotiated
        /\ t.windowSizeTransmit = s.windowSizeTransmit
    BY <1>1, <1>5 DEF Heir, Session
  <1> HIDE DEF t
  <1>7. SessionTypes' /\ sessions'[r] = t /\ \A q \in Roles : q # r => Stays(q)
    BY <1>2, <1>6, Replaced
  <1> QED
    BY <1>1, <1>2, <1>3, <1>6, <1>7
       DEF State, SameLimits, SamePending, Leaving, Entering, VS, VA, VR, Window, Agreed, AsProposed

-----------------------------------------------------------------------------
(***************************************************************************)
(* The negotiation.                                                        *)
(***************************************************************************)
LEMMA LimitTypes ==
  /\ ClientLimits \in NegotiationLimits /\ ServerLimits \in NegotiationLimits
  /\ ClientLimits.windowTransmit <= 7 /\ ServerLimits.windowTransmit <= 7
  <1>1. ASSUME NEW l \in NegotiationLimits, l.windowTransmit <= 7
        PROVE  Normalise(l) \in NegotiationLimits /\ Normalise(l).windowTransmit <= 7
    BY <1>1 DEF Normalise, NegotiationLimits, kDefaultMaxInfoFieldLength, kDefaultWindowSize
  <1>2. \A r \in Roles : LinkLimits[r] \in NegotiationLimits /\ LinkLimits[r].windowTransmit <= 7
    BY LinkLimitsAssumption
  <1> QED
    BY <1>1, <1>2 DEF ClientLimits, ServerLimits

\* The smaller of two numbers of which one fits a field of the block fits it.
SmallerOf(m, x, y, z) == z = Smaller(x % m, y)

\* It is within both, and a field carries it unchanged.
LEMMA SmallerResidue ==
  ASSUME NEW m \in Nat, m > 0, NEW x \in Nat, NEW y \in Nat, NEW z, SmallerOf(m, x, y, z)
  PROVE  z \in Nat /\ z <= y /\ z <= x /\ z % m = z
  <1>1. x % m \in Nat /\ x % m < m /\ x % m <= x
    OBVIOUS
  <1>2. z \in Nat /\ z <= y /\ z <= x /\ z < m
    BY <1>1 DEF Smaller, SmallerOf
  <1> QED
    BY <1>2

\* The outcome is within the options of both stations, and a negotiation
\* block carries it unchanged.
LEMMA OutcomeFields ==
  /\ Proposed \in SnrmParams /\ Outcome \in SnrmParams
  /\ EncodeSnrmNegotiationBlock(Outcome) = Outcome
  /\ Outcome.windowTx <= 7 /\ Outcome.windowRx <= 7
  /\ Outcome.maxInfoTx <= ServerLimits.maxReceive
  /\ Outcome.windowTx <= ServerLimits.windowReceive
  /\ Outcome.maxInfoRx <= ClientLimits.maxReceive
  /\ Outcome.windowRx <= ClientLimits.windowReceive
  <1> DEFINE c == ClientLimits
             s == ServerLimits
  <1>1. c \in NegotiationLimits /\ s \in NegotiationLimits
        /\ c.windowTransmit <= 7 /\ s.windowTransmit <= 7
    BY LimitTypes
  <1>2. PICK a \in Nat, b \in Nat, u \in Nat, v \in Nat :
          /\ a = c.maxTransmit /\ b = c.maxReceive
          /\ u = c.windowTransmit /\ v = c.windowReceive /\ u <= 7
    BY <1>1 DEF NegotiationLimits
  <1>3. PICK aa \in Nat, bb \in Nat, uu \in Nat, vv \in Nat :
          /\ aa = s.maxTransmit /\ bb = s.maxReceive
          /\ uu = s.windowTransmit /\ vv = s.windowReceive /\ uu <= 7
    BY <1>1 DEF NegotiationLimits
  <1>4. PICK m \in Nat, n \in Nat : m = 65536 /\ n = 256 /\ m > 0 /\ n > 0
    OBVIOUS
  <1>5. Proposed = [maxInfoTx |-> a % m, maxInfoRx |-> b % m,
                    windowTx |-> u % n, windowRx |-> v % n]
    BY <1>2, <1>4 DEF Proposed, EncodeSnrmNegotiationBlock, Proposal
  <1>6. PICK d, e, f, g :
          /\ d = Smaller(a % m, bb) /\ e = Smaller(b % m, aa)
          /\ f = Smaller(u % n, vv) /\ g = Smaller(v % n, uu)
          /\ Outcome = [maxInfoTx |-> d, maxInfoRx |-> e, windowTx |-> f, windowRx |-> g]
    BY <1>3, <1>5 DEF Outcome, NegotiateParams
  <1>7. /\ m > 0 /\ n > 0
        /\ SmallerOf(m, a, bb, d) /\ SmallerOf(m, b, aa, e)
        /\ SmallerOf(n, u, vv, f) /\ SmallerOf(n, v, uu, g)
    BY <1>4, <1>6 DEF SmallerOf
  <1>8. d \in Nat /\ d <= bb /\ d % m = d
    BY <1>7, SmallerResidue
  <1>9. e \in Nat /\ e <= b /\ e % m = e
    BY <1>7, SmallerResidue
  <1>10. f \in Nat /\ f <= vv /\ f <= u /\ f % n = f
    BY <1>7, SmallerResidue
  <1>11. g \in Nat /\ g <= uu /\ g <= v /\ g % n = g
    BY <1>7, SmallerResidue
  <1>12. a % m \in Nat /\ b % m \in Nat /\ u % n \in Nat /\ v % n \in Nat
    BY <1>7
  <1>13. Proposed \in SnrmParams
    BY <1>5, <1>12 DEF SnrmParams
  <1>14. Outcome \in SnrmParams
    BY <1>6, <1>8, <1>9, <1>10, <1>11 DEF SnrmParams
  <1>15. EncodeSnrmNegotiationBlock(Outcome)
           = [maxInfoTx |-> d % m, maxInfoRx |-> e % m, windowTx |-> f % n, windowRx |-> g % n]
    BY <1>4, <1>6 DEF EncodeSnrmNegotiationBlock
  <1>16. EncodeSnrmNegotiationBlock(Outcome) = Outcome
    BY <1>6, <1>8, <1>9, <1>10, <1>11, <1>15
  <1>17. /\ Outcome.maxInfoTx = d /\ Outcome.maxInfoRx = e
         /\ Outcome.windowTx = f /\ Outcome.windowRx = g
    BY <1>6
  <1> HIDE DEF c, s
  <1>18. /\ f <= 7 /\ g <= 7 /\ d <= s.maxReceive /\ f <= s.windowReceive
         /\ e <= c.maxReceive /\ g <= c.windowReceive
    BY <1>2, <1>3, <1>8, <1>9, <1>10, <1>11
  <1> QED
    BY <1>13, <1>14, <1>16, <1>17, <1>18 DEF c, s

\* The UA of the server's answer.
UaFrame ==
  UFrame("Ua", "server", IF Negotiates THEN "block" ELSE "empty",
         IF Negotiates THEN Outcome ELSE DefaultSnrmParams, NoPayload)

\* The server adopts the outcome, whether or not its UA fits.
LEMMA AnswerConnectStation ==
  ASSUME LinkTypes, AnswerConnect, AsProposed, Window("server") \in 0..7
  PROVE  /\ SessionTypes' /\ Stays("client")
         /\ Entering("server") /\ Window("server")' \in 0..7
         /\ (Leaving("server")' <=> Leaving("server"))
         /\ \/ /\ State("server")' = State("server") /\ SameNumbers("server")
               /\ SamePending("server")
               /\ UNCHANGED wire /\ SameCounters
            \/ /\ State("server")' = "Connected" /\ ClearNumbers("server")
               /\ ~Entering("server")'
               /\ Negotiates => /\ Agreed("server")' = [maxTransmit |-> Outcome.maxInfoRx,
                                                        maxReceive |-> Outcome.maxInfoTx,
                                                        windowTransmit |-> Outcome.windowRx % 256,
                                                        windowReceive |-> Outcome.windowTx % 256]
                                /\ Window("server")' = Outcome.windowRx % 256
               /\ wire' = [wire EXCEPT !["client"] = Append(@, UaFrame)]
               /\ FreshCounters("server")
  <1> DEFINE s == sessions["server"]
             n == NegotiateParams(s.pending, s.local)
             a == IF s.pendingActive
                  THEN AdoptNegotiation(s, n.maxInfoRx, n.maxInfoTx, n.windowRx, n.windowTx)
                  ELSE s
             m1 == [a EXCEPT !.state = "Connected"]
             m2 == [m1 EXCEPT !.connectResponsePending = FALSE]
             m3 == [m2 EXCEPT !.pendingActive = FALSE]
             t == ResetSequences(m3)
  <1>1. s \in Session /\ s.role = "server" /\ s.local = ServerLimits
    BY DEF LinkTypes, ServerLimits
  <1>2. s.pendingActive => n = Outcome
    BY <1>1 DEF AsProposed, Outcome
  <1> HIDE DEF n
  <1>3. /\ Outcome.maxInfoTx \in Nat /\ Outcome.maxInfoRx \in Nat
        /\ Outcome.windowTx \in Nat /\ Outcome.windowRx \in Nat /\ Outcome.windowRx <= 7
    BY OutcomeFields DEF SnrmParams
  <1>4. /\ Heir(s, a) /\ a.state = s.state
        /\ a.sendSequence = s.sendSequence /\ a.receiveSequence = s.receiveSequence
        /\ a.acknowledgeSequence = s.acknowledgeSequence
        /\ a.connectResponsePending = s.connectResponsePending
        /\ a.disconnectResponsePending = s.disconnectResponsePending
        /\ a.pendingActive = s.pendingActive /\ a.pending = s.pending
        /\ a.windowSizeTransmit \in 0..7
        /\ Negotiates =>
             /\ a.negotiated = [maxTransmit |-> Outcome.maxInfoRx,
                                maxReceive |-> Outcome.maxInfoTx,
                                windowTransmit |-> Outcome.windowRx % 256,
                                windowReceive |-> Outcome.windowTx % 256]
             /\ a.windowSizeTransmit = Outcome.windowRx % 256
    <2>1. CASE s.pendingActive
      <3> DEFINE o == AdoptNegotiation(s, Outcome.maxInfoRx, Outcome.maxInfoTx,
                                       Outcome.windowRx, Outcome.windowTx)
      <3>1. a = o
        BY <1>2, <2>1
      <3>2. o \in Session
        BY <1>1, <1>3, AdoptType
      <3>3. /\ o.role = s.role /\ o.local = s.local /\ o.state = s.state
            /\ o.sendSequence = s.sendSequence /\ o.receiveSequence = s.receiveSequence
            /\ o.acknowledgeSequence = s.acknowledgeSequence
            /\ o.connectResponsePending = s.connectResponsePending
            /\ o.disconnectResponsePending = s.disconnectResponsePending
            /\ o.pendingActive = s.pendingActive /\ o.pending = s.pending
            /\ o.negotiated = [maxTransmit |-> Outcome.maxInfoRx,
                               maxReceive |-> Outcome.maxInfoTx,
                               windowTransmit |-> Outcome.windowRx % 256,
                               windowReceive |-> Outcome.windowTx % 256]
            /\ o.windowSizeTransmit = Outcome.windowRx % 256
        BY <1>1 DEF AdoptNegotiation, Session
      <3>4. Outcome.windowRx % 256 \in 0..7
        BY <1>3
      <3> HIDE DEF o, a
      <3> QED
        BY <3>1, <3>2, <3>3, <3>4 DEF Heir
    <2>2. CASE ~s.pendingActive
      <3>1. a = s /\ ~Negotiates
        BY <2>2 DEF AsProposed
      <3> HIDE DEF a
      <3> QED
        BY <1>1, <3>1 DEF Heir, Window
    <2> QED
      BY <2>1, <2>2
  <1>5. Entering("server")
    BY DEF AnswerConnect, Entering
  <1>6. CASE sessions' = [sessions EXCEPT !["server"] = a] /\ UNCHANGED wire /\ SameCounters
    <2> HIDE DEF a
    <2>1. SessionTypes' /\ sessions'["server"] = a /\ Stays("client")
      BY <1>4, <1>6, Replaced
    <2> QED
      BY <1>4, <1>5, <1>6, <2>1
         DEF State, SameNumbers, SamePending, Leaving, Entering, VS, VA, VR, Window, AsProposed
  <1>7. CASE /\ sessions' = [sessions EXCEPT !["server"] = t]
             /\ wire' = [wire EXCEPT !["client"] = Append(@, UaFrame)]
             /\ FreshCounters("server")
    <2> HIDE DEF a
    <2>1. m1 \in Session /\ Heir(s, m1) /\ m1.state = "Connected"
          /\ m1.disconnectResponsePending = s.disconnectResponsePending
          /\ m1.negotiated = a.negotiated
          /\ m1.windowSizeTransmit = a.windowSizeTransmit
      BY <1>4, StateHeir DEF Heir
    <2> HIDE DEF m1
    <2>2. m2 \in Session /\ Heir(s, m2) /\ m2.state = "Connected" /\ ~m2.connectResponsePending
          /\ m2.disconnectResponsePending = s.disconnectResponsePending
          /\ m2.negotiated = a.negotiated
          /\ m2.windowSizeTransmit = a.windowSizeTransmit
      BY <2>1 DEF Heir, Session
    <2> HIDE DEF m2
    <2>3. m3 \in Session /\ Heir(s, m3) /\ m3.state = "Connected" /\ ~m3.connectResponsePending
          /\ m3.disconnectResponsePending = s.disconnectResponsePending
          /\ m3.negotiated = a.negotiated
          /\ m3.windowSizeTransmit = a.windowSizeTransmit
      BY <2>2 DEF Heir, Session
    <2> HIDE DEF m3
    <2>4. Heir(s, t) /\ t.state = "Connected" /\ ~t.connectResponsePending
          /\ t.sendSequence = 0 /\ t.receiveSequence = 0 /\ t.acknowledgeSequence = 0
          /\ t.disconnectResponsePending = s.disconnectResponsePending
          /\ t.negotiated = a.negotiated
          /\ t.windowSizeTransmit = a.windowSizeTransmit
      BY <2>3, ResetHeir DEF Heir
    <2> HIDE DEF t
    <2>5. SessionTypes' /\ sessions'["server"] = t /\ Stays("client")
      BY <1>7, <2>4, Replaced
    <2> QED
      BY <1>4, <1>5, <1>7, <2>4, <2>5
         DEF State, ClearNumbers, Leaving, Entering, VS, VA, VR, Window, Agreed
  <1>8. \/ sessions' = [sessions EXCEPT !["server"] = a] /\ UNCHANGED wire /\ SameCounters
        \/ /\ sessions' = [sessions EXCEPT !["server"] = t]
           /\ wire' = [wire EXCEPT !["client"] = Append(@, UaFrame)]
           /\ FreshCounters("server")
    <2>1. NegotiationFrame("Ua", s, s.pendingActive, n) = UaFrame
      BY <1>1, <1>2, OutcomeFields DEF NegotiationFrame, UaFrame, AsProposed
    <2>2. CASE InformationFits(a, NegotiationSize(s.pendingActive))
      <3>1. BuildConnectResponse(s) = Result("Ok", t, NegotiationFrame("Ua", s, s.pendingActive, n))
        BY <1>1, <1>5, <2>2 DEF BuildConnectResponse, Entering, n
      <3> HIDE DEF t
      <3> QED
        BY <2>1, <3>1 DEF AnswerConnect, Write, Result, Peer
    <2>3. CASE ~InformationFits(a, NegotiationSize(s.pendingActive))
      <3>1. BuildConnectResponse(s) = NoOutput("InformationFieldTooLarge", a)
        BY <1>1, <1>5, <2>3 DEF BuildConnectResponse, Entering, n
      <3> HIDE DEF a
      <3> QED
        BY <3>1 DEF AnswerConnect, NoOutput, Result
    <2> QED
      BY <2>2, <2>3
  <1> QED
    BY <1>6, <1>7, <1>8

-----------------------------------------------------------------------------
(***************************************************************************)
(* What a delivered frame f does to r.                                     *)
(***************************************************************************)
Ignores(r) ==
  Stays(r) /\ UNCHANGED <<conn, sentBy, ackedBy, rcvd, got>>

TakesNumbered(r, f) ==
  /\ Numbered(f) /\ State(r) = "Connected" /\ State(r)' = "Connected"
  /\ Ahead(r, f) <= (VS(r) - VA(r)) % 8
  /\ VA(r)' = f.nr /\ VS(r)' = VS(r)
  /\ SameLimits(r) /\ SamePending(r) /\ (Leaving(r)' <=> Leaving(r))
  /\ ackedBy' = [ackedBy EXCEPT ![r] = @ + Ahead(r, f)]
  /\ UNCHANGED <<conn, sentBy>>
  /\ \/ /\ f.kind = "I" /\ f.ns = VR(r) /\ VR(r)' = (VR(r) + 1) % 8
        /\ rcvd' = [rcvd EXCEPT ![r] = @ + 1] /\ got' = [got EXCEPT ![r] = f.data]
     \/ f.kind = "S" /\ VR(r)' = VR(r) /\ UNCHANGED <<rcvd, got>>

TakesSnrm(r, f) ==
  /\ r = "server" /\ f.kind = "Snrm" /\ State(r) = "Disconnected" /\ State(r)' = "Disconnected"
  /\ ClearNumbers(r) /\ SameLimits(r) /\ Entering(r)' /\ (Leaving(r)' <=> Leaving(r))
  /\ \A c : f = SnrmFrame(c) => AsProposed'
  /\ conn' = [conn EXCEPT ![r] = f.data[1]] /\ FreshCounters(r)

TakesConnectUa(r, f) ==
  /\ f.kind = "Ua" /\ State(r) = "AwaitingConnection" /\ State(r)' = "Connected"
  /\ ClearNumbers(r) /\ SamePending(r) /\ (Leaving(r)' <=> Leaving(r))
  /\ \/ f.info = "empty" /\ SameLimits(r)
     \/ /\ f.info = "block"
        /\ Agreed(r)' = [maxTransmit |-> f.params.maxInfoTx, maxReceive |-> f.params.maxInfoRx,
                         windowTransmit |-> f.params.windowTx % 256,
                         windowReceive |-> f.params.windowRx % 256]
        /\ Window(r)' = f.params.windowTx % 256
  /\ FreshCounters(r) /\ UNCHANGED conn

TakesDisconnectUa(r, f) ==
  /\ f.kind = "Ua" /\ State(r) = "AwaitingDisconnect" /\ State(r)' = "Disconnected"
  /\ ClearNumbers(r) /\ SameLimits(r) /\ SamePending(r) /\ (Leaving(r)' <=> Leaving(r))
  /\ FreshCounters(r) /\ UNCHANGED conn

TakesDisc(r, f) ==
  /\ f.kind = "Disc" /\ State(r) = "Connected" /\ State(r)' = "Connected"
  /\ SameNumbers(r) /\ SameLimits(r) /\ SamePending(r) /\ Leaving(r)'
  /\ UNCHANGED <<conn, sentBy, ackedBy, rcvd, got>>

\* A frame that ReceiveFrame refuses leaves the station as it was.
LEMMA DeliverIgnored ==
  ASSUME LinkTypes, NEW r \in Roles, NEW f, NEW status, status # "Ok",
         sessions' = [sessions EXCEPT ![r] = sessions[r]], RecordReceipt(r, f, status)
  PROVE  SessionTypes' /\ (\A q \in Roles : Stays(q)) /\ Ignores(r)
  <1>1. SessionTypes' /\ \A q \in Roles : Stays(q)
    BY UnmovedOne
  <1>2. UNCHANGED <<conn, sentBy, ackedBy, rcvd, got>>
    BY DEF RecordReceipt, SameCounters
  <1> QED
    BY <1>1, <1>2 DEF Ignores

\* An I-frame is taken only in sequence and with its N(R) inside the window.
LEMMA DeliverInformation ==
  ASSUME LinkTypes, NEW r \in Roles, NEW f \in Frames, f.kind = "I",
         NEW res, res = ReceiveInformationFrame(sessions[r], f),
         sessions' = [sessions EXCEPT ![r] = res.session], RecordReceipt(r, f, res.status)
  PROVE  /\ SessionTypes' /\ \A q \in Roles : q # r => Stays(q)
         /\ Ignores(r) \/ TakesNumbered(r, f)
  <1> DEFINE s == sessions[r]
             m == [s EXCEPT !.acknowledgeSequence = f.nr]
             t == [m EXCEPT !.receiveSequence = NextSequence(@)]
  <1>1. s \in Session /\ f.nr \in 0..7
    BY DEF LinkTypes, Frames
  <1>2. CASE s.state = "Connected" /\ f.ns = s.receiveSequence /\ AcknowledgeInWindow(s, f.nr)
    <2>1. res = Result("Ok", t, NoFrame)
      BY <1>2 DEF ReceiveInformationFrame, NoOutput
    <2>2. m \in Session /\ Heir(s, m) /\ m.state = s.state /\ m.acknowledgeSequence = f.nr
          /\ m.sendSequence = s.sendSequence /\ m.receiveSequence = s.receiveSequence
          /\ m.connectResponsePending = s.connectResponsePending
          /\ m.disconnectResponsePending = s.disconnectResponsePending
          /\ m.pendingActive = s.pendingActive /\ m.pending = s.pending
          /\ m.negotiated = s.negotiated
          /\ m.windowSizeTransmit = s.windowSizeTransmit
      BY <1>1 DEF Heir, Session
    <2> HIDE DEF m
    <2>3. NextSequence(m.receiveSequence) = (s.receiveSequence + 1) % 8
          /\ NextSequence(m.receiveSequence) \in 0..7
      <3>1. s.receiveSequence \in 0..7
        BY <1>1 DEF Session
      <3> QED
        BY <2>2, <3>1 DEF NextSequence
    <2>4. Heir(s, t) /\ t.state = s.state /\ t.acknowledgeSequence = f.nr
          /\ t.sendSequence = s.sendSequence
          /\ t.receiveSequence = (s.receiveSequence + 1) % 8
          /\ t.connectResponsePending = s.connectResponsePending
          /\ t.disconnectResponsePending = s.disconnectResponsePending
          /\ t.pendingActive = s.pendingActive /\ t.pending = s.pending
          /\ t.negotiated = s.negotiated
          /\ t.windowSizeTransmit = s.windowSizeTransmit
      BY <2>2, <2>3 DEF Heir, Session
    <2> HIDE DEF t
    <2>5. res.status = "Ok" /\ res.session = t
      BY <2>1 DEF Result
    <2>6. SessionTypes' /\ sessions'[r] = t /\ \A q \in Roles : q # r => Stays(q)
      BY <2>4, <2>5, Replaced
    <2>7. /\ ackedBy' = [ackedBy EXCEPT ![r] = @ + Ahead(r, f)]
          /\ rcvd' = [rcvd EXCEPT ![r] = @ + 1] /\ got' = [got EXCEPT ![r] = f.data]
          /\ UNCHANGED <<conn, sentBy>>
      BY <2>5 DEF RecordReceipt, Ahead, VA
    <2>8. Ahead(r, f) <= (VS(r) - VA(r)) % 8
      BY <1>2 DEF AcknowledgeInWindow, Ahead, VA, VS
    <2> QED
      BY <1>2, <2>4, <2>6, <2>7, <2>8
         DEF TakesNumbered, Numbered, State, SameLimits, SamePending, Leaving, Entering, VS, VA, VR,
             Window, Agreed, AsProposed
  <1>3. CASE ~(s.state = "Connected" /\ f.ns = s.receiveSequence /\ AcknowledgeInWindow(s, f.nr))
    <2>1. res.status # "Ok" /\ res.session = s
      BY <1>3 DEF ReceiveInformationFrame, NoOutput, Result
    <2> QED
      BY <2>1, DeliverIgnored
  <1> QED
    BY <1>2, <1>3

\* An RR is taken only with its N(R) inside the window.
LEMMA DeliverSupervisory ==
  ASSUME LinkTypes, NEW r \in Roles, NEW f \in Frames, f.kind = "S",
         NEW res, res = ReceiveSupervisoryFrame(sessions[r], f),
         sessions' = [sessions EXCEPT ![r] = res.session], RecordReceipt(r, f, res.status)
  PROVE  /\ SessionTypes' /\ \A q \in Roles : q # r => Stays(q)
         /\ Ignores(r) \/ TakesNumbered(r, f)
  <1> DEFINE s == sessions[r]
             t == [s EXCEPT !.acknowledgeSequence = f.nr]
  <1>1. s \in Session /\ f.nr \in 0..7
    BY DEF LinkTypes, Frames
  <1>2. CASE s.state = "Connected" /\ AcknowledgeInWindow(s, f.nr)
    <2>1. res = Result("Ok", t, NoFrame)
      BY <1>2 DEF ReceiveSupervisoryFrame, NoOutput
    <2>2. Heir(s, t) /\ t.state = s.state /\ t.acknowledgeSequence = f.nr
          /\ t.sendSequence = s.sendSequence /\ t.receiveSequence = s.receiveSequence
          /\ t.connectResponsePending = s.connectResponsePending
          /\ t.disconnectResponsePending = s.disconnectResponsePending
          /\ t.pendingActive = s.pendingActive /\ t.pending = s.pending
          /\ t.negotiated = s.negotiated
          /\ t.windowSizeTransmit = s.windowSizeTransmit
      BY <1>1 DEF Heir, Session
    <2> HIDE DEF t
    <2>3. res.status = "Ok" /\ res.session = t
      BY <2>1 DEF Result
    <2>4. SessionTypes' /\ sessions'[r] = t /\ \A q \in Roles : q # r => Stays(q)
      BY <2>2, <2>3, Replaced
    <2>5. /\ ackedBy' = [ackedBy EXCEPT ![r] = @ + Ahead(r, f)]
          /\ UNCHANGED <<conn, sentBy, rcvd, got>>
      BY <2>3 DEF RecordReceipt, Ahead, VA
    <2>6. Ahead(r, f) <= (VS(r) - VA(r)) % 8
      BY <1>2 DEF AcknowledgeInWindow, Ahead, VA, VS
    <2> QED
      BY <1>2, <2>2, <2>4, <2>5, <2>6
         DEF TakesNumbered, Numbered, State, SameLimits, SamePending, Leaving, Entering, VS, VA, VR,
             Window, Agreed, AsProposed
  <1>3. CASE ~(s.state = "Connected" /\ AcknowledgeInWindow(s, f.nr))
    <2>1. res.status # "Ok" /\ res.session = s
      BY <1>3 DEF ReceiveSupervisoryFrame, NoOutput, Result
    <2> QED
      BY <2>1, DeliverIgnored
  <1> QED
    BY <1>2, <1>3

\* An SNRM is taken only by a Disconnected server, which keeps the proposal.
LEMMA DeliverSnrm ==
  ASSUME LinkTypes, NEW r \in Roles, NEW f \in Frames, f.kind = "Snrm",
         NEW res, res = ReceiveSnrm(sessions[r], f),
         sessions' = [sessions EXCEPT ![r] = res.session], RecordReceipt(r, f, res.status)
  PROVE  /\ SessionTypes' /\ \A q \in Roles : q # r => Stays(q)
         /\ Ignores(r) \/ TakesSnrm(r, f)
  <1> DEFINE s == sessions[r]
             m1 == [s EXCEPT !.pendingActive = (f.info = "block")]
             m2 == [m1 EXCEPT !.pending = IF f.info = "block" THEN f.params ELSE @]
             m3 == [m2 EXCEPT !.connectResponsePending = TRUE]
             t == ResetSequences(m3)
  <1>1. s \in Session /\ f.params \in SnrmParams /\ f.info \in {"empty", "block"} /\ s.role = r
    BY DEF LinkTypes, Frames
  <1>2. CASE MayBeConnected(s)
    <2>1. res = Result("Ok", t, NoFrame)
      BY <1>1, <1>2 DEF ReceiveSnrm, NoOutput
    <2>2. m1 \in Session /\ Heir(s, m1) /\ m1.state = s.state
          /\ m1.disconnectResponsePending = s.disconnectResponsePending
          /\ m1.pendingActive = (f.info = "block") /\ m1.pending = s.pending
          /\ m1.negotiated = s.negotiated
          /\ m1.windowSizeTransmit = s.windowSizeTransmit
      BY <1>1 DEF Heir, Session
    <2> HIDE DEF m1
    <2>3. m2 \in Session /\ Heir(s, m2) /\ m2.state = s.state
          /\ m2.disconnectResponsePending = s.disconnectResponsePending
          /\ m2.pendingActive = (f.info = "block")
          /\ (f.info = "block" => m2.pending = f.params)
          /\ m2.negotiated = s.negotiated
          /\ m2.windowSizeTransmit = s.windowSizeTransmit
      BY <1>1, <2>2 DEF Heir, Session
    <2> HIDE DEF m2
    <2>4. m3 \in Session /\ Heir(s, m3) /\ m3.state = s.state
          /\ m3.disconnectResponsePending = s.disconnectResponsePending
          /\ m3.connectResponsePending = TRUE
          /\ m3.pendingActive = (f.info = "block")
          /\ (f.info = "block" => m3.pending = f.params)
          /\ m3.negotiated = s.negotiated
          /\ m3.windowSizeTransmit = s.windowSizeTransmit
      BY <2>3 DEF Heir, Session
    <2> HIDE DEF m3
    <2>5. Heir(s, t) /\ t.state = s.state
          /\ t.sendSequence = 0 /\ t.receiveSequence = 0 /\ t.acknowledgeSequence = 0
          /\ t.disconnectResponsePending = s.disconnectResponsePending
          /\ t.connectResponsePending = TRUE
          /\ t.pendingActive = (f.info = "block")
          /\ (f.info = "block" => t.pending = f.params)
          /\ t.negotiated = s.negotiated
          /\ t.windowSizeTransmit = s.windowSizeTransmit
      BY <2>4, ResetHeir DEF Heir
    <2> HIDE DEF t
    <2>6. res.status = "Ok" /\ res.session = t
      BY <2>1 DEF Result
    <2>7. SessionTypes' /\ sessions'[r] = t /\ \A q \in Roles : q # r => Stays(q)
      BY <2>5, <2>6, Replaced
    <2>8. conn' = [conn EXCEPT ![r] = f.data[1]] /\ FreshCounters(r)
      BY <2>6 DEF RecordReceipt
    <2>9. r = "server" /\ s.state = "Disconnected"
      BY <1>1, <1>2 DEF MayBeConnected
    <2>10. ASSUME NEW c, f = SnrmFrame(c)
           PROVE  AsProposed'
      <3>1. /\ f.info = IF Negotiates THEN "block" ELSE "empty"
            /\ f.params = IF Negotiates THEN Proposed ELSE DefaultSnrmParams
        BY <2>10 DEF SnrmFrame, UFrame, Frame
      <3> QED
        BY <2>5, <2>7, <2>9, <3>1 DEF AsProposed
    <2> QED
      BY <2>5, <2>7, <2>8, <2>9, <2>10
         DEF TakesSnrm, State, ClearNumbers, SameLimits, Leaving, Entering, VS, VA, VR, Window, Agreed
  <1>3. CASE ~MayBeConnected(s)
    <2>1. res.status # "Ok" /\ res.session = s
      BY <1>3 DEF ReceiveSnrm, NoOutput, Result
    <2> QED
      BY <2>1, DeliverIgnored
  <1> QED
    BY <1>2, <1>3

\* A UA is taken only by a station that waits for one.
LEMMA DeliverUa ==
  ASSUME LinkTypes, NEW r \in Roles, NEW f \in Frames, f.kind = "Ua",
         NEW res, res = ReceiveUa(sessions[r], f),
         sessions' = [sessions EXCEPT ![r] = res.session], RecordReceipt(r, f, res.status)
  PROVE  /\ SessionTypes' /\ \A q \in Roles : q # r => Stays(q)
         /\ Ignores(r) \/ TakesConnectUa(r, f) \/ TakesDisconnectUa(r, f)
  <1> DEFINE s == sessions[r]
             p == f.params
             o == AdoptNegotiation(s, p.maxInfoTx, p.maxInfoRx, p.windowTx, p.windowRx)
             a == IF f.info = "block" THEN o ELSE s
  <1>1. s \in Session /\ p \in SnrmParams /\ f.info \in {"empty", "block"}
    BY DEF LinkTypes, Frames
  <1>2. CASE s.state = "AwaitingConnection"
    <2> DEFINE m == [a EXCEPT !.state = "Connected"]
               t == ResetSequences(m)
    <2>1. res = Result("Ok", t, NoFrame)
      BY <1>2 DEF ReceiveUa, NoOutput
    <2>2. /\ Heir(s, o) /\ o.state = s.state
          /\ o.disconnectResponsePending = s.disconnectResponsePending
          /\ o.connectResponsePending = s.connectResponsePending
          /\ o.pendingActive = s.pendingActive /\ o.pending = s.pending
          /\ o.negotiated = [maxTransmit |-> p.maxInfoTx, maxReceive |-> p.maxInfoRx,
                             windowTransmit |-> p.windowTx % 256,
                             windowReceive |-> p.windowRx % 256]
          /\ o.windowSizeTransmit = p.windowTx % 256
      <3>1. p.maxInfoTx \in Nat /\ p.maxInfoRx \in Nat /\ p.windowTx \in Nat /\ p.windowRx \in Nat
        BY <1>1 DEF SnrmParams
      <3>2. o \in Session
        BY <1>1, <3>1, AdoptType
      <3> QED
        BY <1>1, <3>2 DEF AdoptNegotiation, Session, Heir
    <2> HIDE DEF o
    <2>3. /\ Heir(s, a) /\ a.state = s.state
          /\ a.disconnectResponsePending = s.disconnectResponsePending
          /\ a.connectResponsePending = s.connectResponsePending
          /\ a.pendingActive = s.pendingActive /\ a.pending = s.pending
          /\ \/ /\ f.info = "empty" /\ a.negotiated = s.negotiated
                /\ a.windowSizeTransmit = s.windowSizeTransmit
             \/ /\ f.info = "block"
                /\ a.negotiated = [maxTransmit |-> p.maxInfoTx, maxReceive |-> p.maxInfoRx,
                                   windowTransmit |-> p.windowTx % 256,
                                   windowReceive |-> p.windowRx % 256]
                /\ a.windowSizeTransmit = p.windowTx % 256
      BY <1>1, <2>2 DEF Heir
    <2> HIDE DEF a
    <2>4. /\ m \in Session /\ Heir(s, m) /\ m.state = "Connected"
          /\ m.disconnectResponsePending = s.disconnectResponsePending
          /\ m.connectResponsePending = s.connectResponsePending
          /\ m.pendingActive = s.pendingActive /\ m.pending = s.pending
          /\ m.negotiated = a.negotiated
          /\ m.windowSizeTransmit = a.windowSizeTransmit
      BY <2>3, StateHeir DEF Heir
    <2> HIDE DEF m
    <2>5. /\ Heir(s, t) /\ t.state = "Connected"
          /\ t.sendSequence = 0 /\ t.receiveSequence = 0 /\ t.acknowledgeSequence = 0
          /\ t.disconnectResponsePending = s.disconnectResponsePending
          /\ t.connectResponsePending = s.connectResponsePending
          /\ t.pendingActive = s.pendingActive /\ t.pending = s.pending
          /\ t.negotiated = a.negotiated
          /\ t.windowSizeTransmit = a.windowSizeTransmit
      BY <2>4, ResetHeir DEF Heir
    <2> HIDE DEF t
    <2>6. res.status = "Ok" /\ res.session = t
      BY <2>1 DEF Result
    <2>7. SessionTypes' /\ sessions'[r] = t /\ \A q \in Roles : q # r => Stays(q)
      BY <2>5, <2>6, Replaced
    <2>8. UNCHANGED conn /\ FreshCounters(r)
      BY <2>6 DEF RecordReceipt
    <2>9. \/ f.info = "empty" /\ SameLimits(r)
          \/ /\ f.info = "block"
             /\ Agreed(r)' = [maxTransmit |-> p.maxInfoTx, maxReceive |-> p.maxInfoRx,
                              windowTransmit |-> p.windowTx % 256,
                              windowReceive |-> p.windowRx % 256]
             /\ Window(r)' = p.windowTx % 256
      BY <2>3, <2>5, <2>7 DEF SameLimits, Window, Agreed
    <2> QED
      BY <1>2, <2>5, <2>7, <2>8, <2>9
         DEF TakesConnectUa, State, ClearNumbers, SamePending, Leaving, Entering, VS, VA, VR, AsProposed
  <1>3. CASE s.state = "AwaitingDisconnect"
    <2> DEFINE m == [s EXCEPT !.state = "Disconnected"]
               t == ResetSequences(m)
    <2>1. res = Result("Ok", t, NoFrame)
      BY <1>3 DEF ReceiveUa, NoOutput
    <2>2. /\ m \in Session /\ Heir(s, m) /\ m.state = "Disconnected"
          /\ m.disconnectResponsePending = s.disconnectResponsePending
          /\ m.connectResponsePending = s.connectResponsePending
          /\ m.pendingActive = s.pendingActive /\ m.pending = s.pending
          /\ m.negotiated = s.negotiated
          /\ m.windowSizeTransmit = s.windowSizeTransmit
      BY <1>1, StateHeir DEF Heir
    <2> HIDE DEF m
    <2>3. /\ Heir(s, t) /\ t.state = "Disconnected"
          /\ t.sendSequence = 0 /\ t.receiveSequence = 0 /\ t.acknowledgeSequence = 0
          /\ t.disconnectResponsePending = s.disconnectResponsePending
          /\ t.connectResponsePending = s.connectResponsePending
          /\ t.pendingActive = s.pendingActive /\ t.pending = s.pending
          /\ t.negotiated = s.negotiated
          /\ t.windowSizeTransmit = s.windowSizeTransmit
      BY <2>2, ResetHeir DEF Heir
    <2> HIDE DEF t
    <2>4. res.status = "Ok" /\ res.session = t
      BY <2>1 DEF Result
    <2>5. SessionTypes' /\ sessions'[r] = t /\ \A q \in Roles : q # r => Stays(q)
      BY <2>3, <2>4, Replaced
    <2>6. UNCHANGED conn /\ FreshCounters(r)
      BY <2>4 DEF RecordReceipt
    <2> QED
      BY <1>3, <2>3, <2>5, <2>6
         DEF TakesDisconnectUa, State, ClearNumbers, SameLimits, SamePending, Leaving, Entering,
             VS, VA, VR, Window, Agreed, AsProposed
  <1>4. CASE s.state \notin {"AwaitingConnection", "AwaitingDisconnect"}
    <2>1. res.status # "Ok" /\ res.session = s
      BY <1>4 DEF ReceiveUa, NoOutput, Result
    <2> QED
      BY <2>1, DeliverIgnored
  <1> QED
    BY <1>2, <1>3, <1>4

\* A DISC is taken only by a Connected station, which then owes a UA.
LEMMA DeliverDisc ==
  ASSUME LinkTypes, NEW r \in Roles, NEW f \in Frames, f.kind = "Disc",
         NEW res, res = ReceiveDisc(sessions[r], f),
         sessions' = [sessions EXCEPT ![r] = res.session], RecordReceipt(r, f, res.status)
  PROVE  /\ SessionTypes' /\ \A q \in Roles : q # r => Stays(q)
         /\ Ignores(r) \/ TakesDisc(r, f)
  <1> DEFINE s == sessions[r]
             t == [s EXCEPT !.disconnectResponsePending = TRUE]
  <1>1. s \in Session
    BY DEF LinkTypes
  <1>2. CASE s.state = "Connected"
    <2>1. res = Result("Ok", t, NoFrame)
      BY <1>2 DEF ReceiveDisc, NoOutput
    <2>2. Heir(s, t) /\ t.state = s.state /\ t.acknowledgeSequence = s.acknowledgeSequence
          /\ t.sendSequence = s.sendSequence /\ t.receiveSequence = s.receiveSequence
          /\ t.connectResponsePending = s.connectResponsePending
          /\ t.disconnectResponsePending = TRUE
          /\ t.pendingActive = s.pendingActive /\ t.pending = s.pending
          /\ t.negotiated = s.negotiated
          /\ t.windowSizeTransmit = s.windowSizeTransmit
      BY <1>1 DEF Heir, Session
    <2> HIDE DEF t
    <2>3. res.status = "Ok" /\ res.session = t
      BY <2>1 DEF Result
    <2>4. SessionTypes' /\ sessions'[r] = t /\ \A q \in Roles : q # r => Stays(q)
      BY <2>2, <2>3, Replaced
    <2>5. UNCHANGED <<conn, sentBy, ackedBy, rcvd, got>>
      BY DEF RecordReceipt, SameCounters
    <2> QED
      BY <1>2, <2>2, <2>4, <2>5
         DEF TakesDisc, State, SameNumbers, SameLimits, SamePending, Leaving, Entering, VS, VA, VR,
             Window, Agreed, AsProposed
  <1>3. CASE s.state # "Connected"
    <2>1. res.status # "Ok" /\ res.session = s
      BY <1>3 DEF ReceiveDisc, NoOutput, Result
    <2> QED
      BY <2>1, DeliverIgnored
  <1> QED
    BY <1>2, <1>3

\* ReceiveFrame dispatches on the kind of the frame.
LEMMA DeliverStation ==
  ASSUME LinkTypes, NEW r \in Roles, Deliver(r), NEW f, f = wire[r][1]
  PROVE  /\ f \in Frames /\ wire[r] # <<>> /\ wire' = [wire EXCEPT ![r] = Tail(@)]
         /\ UNCHANGED <<request, retries, losses>>
         /\ SessionTypes' /\ \A q \in Roles : q # r => Stays(q)
         /\ \/ Ignores(r) \/ TakesNumbered(r, f) \/ TakesSnrm(r, f)
            \/ TakesConnectUa(r, f) \/ TakesDisconnectUa(r, f) \/ TakesDisc(r, f)
  <1> DEFINE s == sessions[r]
             res == ReceiveFrame(s, f)
  <1>1. wire[r] # <<>> /\ wire[r] \in Seq(Frames)
    BY DEF Deliver, LinkTypes
  <1>2. f = Head(wire[r]) /\ f \in Frames
    BY <1>1, Shortened
  <1>3. /\ sessions' = [sessions EXCEPT ![r] = res.session] /\ RecordReceipt(r, f, res.status)
        /\ wire' = [wire EXCEPT ![r] = Tail(@)] /\ UNCHANGED <<request, retries, losses>>
    BY <1>2 DEF Deliver
  <1>4. CASE ~IncomingAddressesMatch(s, f)
    <2>1. res.status # "Ok" /\ res.session = s
      BY <1>4 DEF ReceiveFrame, NoOutput, Result
    <2> QED
      BY <1>1, <1>2, <1>3, <2>1, DeliverIgnored
  <1>5. CASE IncomingAddressesMatch(s, f) /\ f.kind = "I"
    <2>1. res = ReceiveInformationFrame(s, f)
      BY <1>5 DEF ReceiveFrame
    <2> HIDE DEF res
    <2> QED
      BY <1>1, <1>2, <1>3, <1>5, <2>1, DeliverInformation
  <1>6. CASE IncomingAddressesMatch(s, f) /\ f.kind = "S"
    <2>1. res = ReceiveSupervisoryFrame(s, f)
      BY <1>6 DEF ReceiveFrame
    <2> HIDE DEF res
    <2> QED
      BY <1>1, <1>2, <1>3, <1>6, <2>1, DeliverSupervisory
  <1>7. CASE IncomingAddressesMatch(s, f) /\ f.kind = "Snrm"
    <2>1. res = ReceiveSnrm(s, f)
      BY <1>7 DEF ReceiveFrame, ReceiveUnnumberedFrame
    <2> HIDE DEF res
    <2> QED
      BY <1>1, <1>2, <1>3, <1>7, <2>1, DeliverSnrm
  <1>8. CASE IncomingAddressesMatch(s, f) /\ f.kind = "Ua"
    <2>1. res = ReceiveUa(s, f)
      BY <1>8 DEF ReceiveFrame, ReceiveUnnumberedFrame
    <2> HIDE DEF res
    <2> QED
      BY <1>1, <1>2, <1>3, <1>8, <2>1, DeliverUa
  <1>9. CASE IncomingAddressesMatch(s, f) /\ f.kind = "Disc"
    <2>1. res = ReceiveDisc(s, f)
      BY <1>9 DEF ReceiveFrame, ReceiveUnnumberedFrame
    <2> HIDE DEF res
    <2> QED
      BY <1>1, <1>2, <1>3, <1>9, <2>1, DeliverDisc
  <1>10. f.kind \in {"I", "S", "Snrm", "Ua", "Disc"}
    BY <1>2 DEF Frames
  <1> QED
    BY <1>4, <1>5, <1>6, <1>7, <1>8, <1>9, <1>10

-----------------------------------------------------------------------------
(***************************************************************************)
(* Counters and wires of a step.                                           *)
(***************************************************************************)
LEMMA Written ==
  ASSUME LinkTypes, NEW p \in Roles, NEW f \in Frames,
         wire' = [wire EXCEPT ![p] = Append(@, f)]
  PROVE  /\ wire' \in [Roles -> Seq(Frames)] /\ wire'[p] = Append(wire[p], f)
         /\ \A q \in Roles : q # p => wire'[q] = wire[q]
  <1>1. wire \in [Roles -> Seq(Frames)]
    BY DEF LinkTypes
  <1>2. Append(wire[p], f) \in Seq(Frames)
    BY <1>1, AppendProperties
  <1> QED
    BY <1>1, <1>2

\* A frame is read from the front of a wire.
LEMMA Taken ==
  ASSUME LinkTypes, NEW p \in Roles, wire[p] # <<>>, wire' = [wire EXCEPT ![p] = Tail(@)]
  PROVE  /\ wire' \in [Roles -> Seq(Frames)] /\ wire'[p] = Tail(wire[p])
         /\ \A q \in Roles : q # p => wire'[q] = wire[q]
  <1>1. wire \in [Roles -> Seq(Frames)]
    BY DEF LinkTypes
  <1>2. Tail(wire[p]) \in Seq(Frames)
    BY <1>1, HeadTailProperties
  <1> QED
    BY <1>1, <1>2

CounterTypesNext ==
  /\ sentBy' \in [Roles -> Nat] /\ ackedBy' \in [Roles -> Nat] /\ rcvd' \in [Roles -> Nat]
  /\ got' \in [Roles -> Seq(Nat)]
  /\ \A q \in Roles : sentBy'[q] <= LinkMaxSent[q]

\* The counters of q are what they were.
SameCounts(q) ==
  sentBy'[q] = sentBy[q] /\ ackedBy'[q] = ackedBy[q] /\ rcvd'[q] = rcvd[q] /\ got'[q] = got[q]

\* The history of a step that sends, takes and resets nothing.
LEMMA CountersKept ==
  ASSUME LinkTypes, SameCounters
  PROVE  CounterTypesNext /\ \A q \in Roles : SameCounts(q)
  BY DEF LinkTypes, SameCounters, CounterTypesNext, SameCounts

\* The history of a station that enters or leaves a connection.
LEMMA CountersFresh ==
  ASSUME LinkTypes, NEW r \in Roles, FreshCounters(r)
  PROVE  /\ CounterTypesNext /\ \A q \in Roles : q # r => SameCounts(q)
         /\ sentBy'[r] = 0 /\ ackedBy'[r] = 0 /\ rcvd'[r] = 0 /\ got'[r] = got[r]
  <1>1. \A q \in Roles : LinkMaxSent[q] \in Nat
    BY LinkBoundsAssumption
  <1>2. /\ sentBy' \in [Roles -> Nat] /\ ackedBy' \in [Roles -> Nat] /\ rcvd' \in [Roles -> Nat]
        /\ got' \in [Roles -> Seq(Nat)]
        /\ sentBy'[r] = 0 /\ ackedBy'[r] = 0 /\ rcvd'[r] = 0 /\ got'[r] = got[r]
    BY DEF LinkTypes, FreshCounters
  <1>3. \A q \in Roles : q # r => SameCounts(q)
    BY DEF LinkTypes, FreshCounters, SameCounts
  <1>4. \A q \in Roles : sentBy'[q] <= LinkMaxSent[q]
    <2>1. \A q \in Roles : sentBy[q] <= LinkMaxSent[q]
      BY DEF LinkTypes
    <2> QED
      BY <1>1, <1>2, <1>3, <2>1 DEF SameCounts
  <1> QED
    BY <1>2, <1>3, <1>4 DEF CounterTypesNext

\* The counters of a station that is left alone still agree with its variables.
LEMMA CountsStay ==
  ASSUME NEW q \in Roles, StationCounts(q), Stays(q), SameCounts(q)
  PROVE  StationCounts(q)'
  BY DEF StationCounts, Stays, SameNumbers, SameLimits, SameCounts

\* So do those of a station whose variables are cleared.
LEMMA CountsClear ==
  ASSUME NEW q \in Roles, ClearNumbers(q), Window(q)' \in 0..7,
         sentBy'[q] = 0, ackedBy'[q] = 0, rcvd'[q] = 0
  PROVE  StationCounts(q)'
  BY DEF StationCounts, ClearNumbers

\* Nothing new is accepted.
LEMMA OrderKept ==
  ASSUME InOrderExactlyOnce,
         \A q \in Roles : rcvd'[q] = 0 \/ (rcvd'[q] = rcvd[q] /\ got'[q] = got[q] /\ conn'[q] = conn[q])
  PROVE  InOrderExactlyOnce'
  <1> SUFFICES ASSUME NEW q \in Roles, rcvd'[q] > 0 PROVE got'[q] = Payload(conn'[q], rcvd'[q])
    BY DEF InOrderExactlyOnce, Payload
  <1>1. rcvd'[q] = rcvd[q] /\ got'[q] = got[q] /\ conn'[q] = conn[q]
    OBVIOUS
  <1> QED
    BY <1>1 DEF InOrderExactlyOnce

\* The types, part by part.
LEMMA TypesNext ==
  ASSUME SessionTypes', wire' \in [Roles -> Seq(Frames)],
         request' \in [Roles -> Frames \cup {NoFrame}],
         retries' \in [Roles -> 0..MaxRetries], losses' \in 0..MaxLosses,
         conn' \in [Roles -> 0..MaxConn], CounterTypesNext
  PROVE  LinkTypes'
  BY DEF SessionTypes, LinkTypes, CounterTypesNext

\* The frames that the two stations write are frames.
LEMMA FrameTypes ==
  /\ \A c \in Nat : SnrmFrame(c) \in Frames /\ SnrmFrame(c).kind = "Snrm"
       /\ SnrmFrame(c).data[1] = c
  /\ \A r \in Roles : DiscFrame(r) \in Frames /\ DiscFrame(r).kind = "Disc"
  /\ UaFrame \in Frames /\ UaFrame.kind = "Ua"
       /\ UaFrame.info = (IF Negotiates THEN "block" ELSE "empty")
       /\ (Negotiates => UaFrame.params = Outcome)
  <1>1. DefaultSnrmParams \in SnrmParams /\ Proposed \in SnrmParams /\ Outcome \in SnrmParams
    BY OutcomeFields DEF DefaultSnrmParams, SnrmParams
  <1>2. NoPayload \in Seq(Nat) /\ \A c \in Nat : <<c>> \in Seq(Nat) /\ <<c>>[1] = c
    BY DEF NoPayload
  <1>3. ASSUME NEW c \in Nat
        PROVE  SnrmFrame(c) \in Frames /\ SnrmFrame(c).kind = "Snrm" /\ SnrmFrame(c).data[1] = c
    BY <1>1, <1>2 DEF SnrmFrame, UFrame, Frame, Frames
  <1>4. ASSUME NEW r \in Roles
        PROVE  DiscFrame(r) \in Frames /\ DiscFrame(r).kind = "Disc"
    BY <1>1, <1>2 DEF DiscFrame, UFrame, Frame, Frames
  <1>5. /\ UaFrame \in Frames /\ UaFrame.kind = "Ua"
        /\ UaFrame.info = IF Negotiates THEN "block" ELSE "empty"
        /\ (Negotiates => UaFrame.params = Outcome)
    <2>1. PICK i \in {"empty", "block"}, p \in SnrmParams :
            /\ i = IF Negotiates THEN "block" ELSE "empty"
            /\ p = IF Negotiates THEN Outcome ELSE DefaultSnrmParams
      BY <1>1
    <2>2. UaFrame = Frame("Ua", "server", 0, 0, i, p, NoPayload)
      BY <2>1 DEF UaFrame, UFrame
    <2>3. /\ UaFrame \in Frames /\ UaFrame.kind = "Ua"
          /\ UaFrame.info = i /\ UaFrame.params = p
      <3>1. NoPayload \in Seq(Nat)
        BY <1>2
      <3> QED
        BY <2>2, <3>1 DEF Frame, Frames
    <2>4. (Negotiates => p = Outcome)
      BY <2>1
    <2> QED
      BY <2>1, <2>3, <2>4
  <1> QED
    BY <1>3, <1>4, <1>5

\* The parts of the invariant, to cite them together.
LEMMA InvParts ==
  ASSUME LinkInv
  PROVE  /\ LinkTypes /\ Phases /\ Answers /\ Requested /\ Settled /\ Synchronised
         /\ InOrderExactlyOnce
         /\ \A r \in Roles : StationCounts(r) /\ WireInv(r) /\ DataInv(r)
  BY DEF LinkInv

-----------------------------------------------------------------------------
(***************************************************************************)
(* One lemma per operation.                                                *)
(***************************************************************************)
\* The frame that the client writes.
LEMMA ConnectFrame ==
  ASSUME LinkTypes, Connect
  PROVE  /\ wire' = [wire EXCEPT !["server"] = Append(@, SnrmFrame(conn["client"] + 1))]
         /\ request' = [request EXCEPT !["client"] = SnrmFrame(conn["client"] + 1)]
         /\ retries' = [retries EXCEPT !["client"] = 0]
         /\ conn' = [conn EXCEPT !["client"] = @ + 1] /\ conn["client"] < MaxConn
         /\ FreshCounters("client") /\ UNCHANGED losses
  <1> DEFINE s == sessions["client"]
             res == BuildConnectRequest(s)
             snrm == [res.frame EXCEPT !.data = <<conn["client"] + 1>>]
  <1>1. s.role = "client" /\ s.local = ClientLimits
    BY DEF LinkTypes, ClientLimits
  <1>2. res.frame = NegotiationFrame("Snrm", s, Negotiates, Proposal(ClientLimits))
    BY <1>1 DEF Connect, BuildConnectRequest, BuildConnectRequestInternal, NoOutput, Result, Negotiates
  <1>3. NegotiationFrame("Snrm", s, Negotiates, Proposal(ClientLimits))
          = UFrame("Snrm", "client", IF Negotiates THEN "block" ELSE "empty",
                   IF Negotiates THEN Proposed ELSE DefaultSnrmParams, NoPayload)
    BY <1>1 DEF NegotiationFrame, Proposed
  <1>4. snrm = SnrmFrame(conn["client"] + 1)
    BY <1>2, <1>3 DEF SnrmFrame, UFrame, Frame
  <1> QED
    BY <1>4 DEF Connect, Write, Peer

\* The parts of the invariant that do not speak of the wires.
StationInv == Phases /\ Answers /\ Requested /\ Settled /\ Synchronised

\* The parts that establish the invariant after a step.
LEMMA InvNext ==
  ASSUME LinkTypes', \A r \in Roles : StationCounts(r)', StationInv',
         WireInv("client")', WireInv("server")', DataInv("client")', DataInv("server")',
         InOrderExactlyOnce'
  PROVE  LinkInv'
  BY DEF LinkInv, StationInv

\* The client opens a connection only when the server has left the last one, so
\* the SNRM cannot meet a server that is connected to it.
LEMMA ConnectPreserves ==
  ASSUME LinkInv, Connect
  PROVE  LinkInv'
  <1> USE InvParts
  <1>0. PICK c, f : c = conn["client"] + 1 /\ f = SnrmFrame(c)
    OBVIOUS
  <1>1. /\ SessionTypes' /\ Stays("server")
        /\ State("client") = "Disconnected" /\ State("client")' = "AwaitingConnection"
        /\ ClearNumbers("client") /\ SameLimits("client") /\ SamePending("client")
        /\ (Leaving("client")' <=> Leaving("client"))
    BY ConnectStation
  <1>2. /\ wire' = [wire EXCEPT !["server"] = Append(@, f)]
        /\ request' = [request EXCEPT !["client"] = f]
        /\ retries' = [retries EXCEPT !["client"] = 0]
        /\ conn' = [conn EXCEPT !["client"] = @ + 1] /\ conn["client"] < MaxConn
        /\ FreshCounters("client") /\ UNCHANGED losses
    BY <1>0, ConnectFrame
  <1>3. conn["client"] \in Nat /\ conn["server"] \in Nat /\ c \in Nat /\ f \in Frames /\ f.kind = "Snrm"
    BY <1>0, CounterTypes, FrameTypes
  <1>4. /\ wire' \in [Roles -> Seq(Frames)] /\ wire'["server"] = Append(wire["server"], f)
        /\ wire'["client"] = wire["client"]
    BY <1>2, <1>3, Written
  <1>5. /\ CounterTypesNext /\ SameCounts("server")
        /\ sentBy'["client"] = 0 /\ ackedBy'["client"] = 0 /\ rcvd'["client"] = 0
    BY <1>2, CountersFresh
  <1>6. /\ request' \in [Roles -> Frames \cup {NoFrame}]
        /\ request'["client"] = f /\ request'["server"] = request["server"]
        /\ conn' \in [Roles -> 0..MaxConn] /\ conn'["client"] = c /\ conn'["server"] = conn["server"]
    <2>1. request \in [Roles -> Frames \cup {NoFrame}] /\ conn \in [Roles -> 0..MaxConn]
      BY DEF LinkTypes
    <2>2. c \in 0..MaxConn
      BY <1>0, <1>2, <1>3, LinkBoundsAssumption
    <2> QED
      BY <1>0, <1>2, <1>3, <2>1, <2>2
  <1>7. retries' \in [Roles -> 0..MaxRetries] /\ losses' \in 0..MaxLosses
    BY <1>2, LinkBoundsAssumption DEF LinkTypes
  <1>8. LinkTypes'
    BY <1>1, <1>4, <1>5, <1>6, <1>7, TypesNext
  <1>9. \A r \in Roles : StationCounts(r)'
    <2>1. Window("client")' \in 0..7
      BY <1>1 DEF StationCounts, SameLimits
    <2> QED
      BY <1>1, <1>5, <2>1, CountsClear, CountsStay
  <1>10. State("server") \in {"Disconnected", "AwaitingDisconnect"}
         /\ conn["server"] <= conn["client"] /\ ~Leaving("client") /\ ~Leaving("server")
         /\ ~Entering("server")
    <2>1. State("server") \in SessionStates
      BY DEF LinkTypes, Session, State
    <2> QED
      BY <1>1, <2>1 DEF Phases, Answers
  <1>11. StationInv'
    <2>1. conn'["server"] # conn'["client"] /\ conn'["server"] <= conn'["client"]
      BY <1>0, <1>3, <1>6, <1>10
    <2>2. Phases'
      BY <1>1, <1>10, <2>1 DEF Phases, Stays
    <2>3. Answers'
      BY <1>1, <1>10 DEF Answers, Stays, SamePending
    <2>4. Requested'
      <3>1. request'["client"] = SnrmFrame(conn'["client"])
        BY <1>0, <1>6
      <3> QED
        BY <1>1, <1>6, <3>1 DEF Requested, Stays, SnrmFrame, DiscFrame
    <2>5. Settled' /\ Synchronised'
      BY <1>1, <1>10, <2>1 DEF Settled, Synchronised, InSync, Stays, SameLimits
    <2> QED
      BY <2>2, <2>3, <2>4, <2>5 DEF StationInv
  <1>12. WireInv("client")'
    <2>1. Persists("client")
      BY <1>1, <1>10 DEF Persists, Allowed, Follows, ToClient, ToClientOrder, Stays
    <2> QED
      BY <1>4, <2>1, WireKept
  <1>13. WireInv("server")'
    <2>1. f = SnrmFrame(conn'["client"])
      BY <1>0, <1>6
    <2>2. OfThisRequest(f)'
      BY <1>1, <2>1 DEF OfThisRequest, SnrmFrame
    <2>3. conn'["server"] # conn'["client"]
      BY <1>0, <1>3, <1>6, <1>10
    <2>4. \A g : ~OfThisRequest(g)
      BY <1>1 DEF OfThisRequest
    <2>5. Persists("server")
      BY <1>1, <1>10, <2>3, <2>4 DEF Persists, Allowed, Follows, ToServer, ToServerOrder, Stays, SamePending
    <2>6. Allowed("server", f)'
      BY <1>1, <1>3, <1>10, <2>2 DEF Allowed, ToServer, Stays, SamePending
    <2>7. \A g \in Frames : Allowed("server", g) => Follows("server", g, f)'
      BY <1>1, <1>3, <1>10, <2>2 DEF Allowed, Follows, ToServer, ToServerOrder, Stays
    <2> QED
      BY <1>3, <1>4, <2>5, <2>6, <2>7, WireGrows
  <1>14. DataInv("client")' /\ DataInv("server")'
    <2>1. \A i \in 1..Len(wire["client"]) : wire["client"][i].kind # "Ua"
      <3>1. \A i \in 1..Len(wire["client"]) : ToClient(wire["client"][i])
        BY DEF WireInv, Allowed
      <3> QED
        BY <1>1, <3>1 DEF ToClient
    <2>2. Closed("client")' /\ Closed("server")'
      BY <1>1, <1>4, <1>10, <2>1 DEF Closed, Stays
    <2> QED
      BY <2>2, ClosedWireNext
  <1>15. InOrderExactlyOnce'
    BY <1>5, <1>6, OrderKept DEF SameCounts
  <1> QED
    BY <1>8, <1>9, <1>11, <1>12, <1>13, <1>14, <1>15, InvNext

\* A session is in one of the four states.
LEMMA StateTypes ==
  ASSUME LinkTypes
  PROVE  \A r \in Roles : State(r) \in SessionStates
  BY DEF LinkTypes, Session, State

\* The requests of the data link and their answers are no news of the data.
LEMMA UnnumberedNext ==
  ASSUME NEW p \in Roles, \A i \in 1..Len(wire'[p]) : ~Numbered(wire'[p][i])
  PROVE  DataInv(p)'
  BY DEF DataInv, Truthful, Rises, Numbered

\* The types of the variables that a step does not change.
LEMMA OtherTypes ==
  ASSUME LinkTypes
  PROVE  /\ request \in [Roles -> Frames \cup {NoFrame}] /\ retries \in [Roles -> 0..MaxRetries]
         /\ losses \in 0..MaxLosses /\ conn \in [Roles -> 0..MaxConn]
         /\ wire \in [Roles -> Seq(Frames)]
  BY DEF LinkTypes

\* When the server answers, the client still waits for this connection and
\* everything on the way to the server is its SNRM.
LEMMA AnswerConnectPreserves ==
  ASSUME LinkInv, AnswerConnect
  PROVE  LinkInv'
  <1> USE InvParts
  <1>1. /\ Entering("server")
        /\ State("server") = "Disconnected" /\ State("client") = "AwaitingConnection"
        /\ conn["server"] = conn["client"] /\ AsProposed
        /\ ~Leaving("client") /\ ~Leaving("server") /\ ~Entering("client")
    BY DEF AnswerConnect, Answers, Entering
  <1>2. Window("server") \in 0..7 /\ Window("client") \in 0..7
    BY DEF StationCounts
  <1>3. /\ SessionTypes' /\ Stays("client")
        /\ Window("server")' \in 0..7
        /\ (Leaving("server")' <=> Leaving("server"))
    BY <1>1, <1>2, AnswerConnectStation
  <1>4. UNCHANGED <<request, retries, losses, conn>>
    BY DEF AnswerConnect
  <1>5. /\ sentBy["client"] = 0 /\ ackedBy["client"] = 0 /\ rcvd["client"] = 0
        /\ sentBy["server"] = 0 /\ ackedBy["server"] = 0 /\ rcvd["server"] = 0
    BY <1>1 DEF StationCounts
  <1>6. CASE /\ State("server")' = State("server") /\ SameNumbers("server")
             /\ SamePending("server")
             /\ UNCHANGED wire /\ SameCounters
    <2>1. CounterTypesNext /\ \A q \in Roles : SameCounts(q)
      BY <1>6, CountersKept
    <2>2. LinkTypes'
      BY <1>3, <1>4, <1>6, <2>1, OtherTypes, TypesNext
    <2>3. \A r \in Roles : StationCounts(r)'
      <3>1. StationCounts("client")'
        BY <1>3, <2>1, CountsStay
      <3>2. StationCounts("server")'
        BY <1>3, <1>5, <1>6, <2>1 DEF StationCounts, SameNumbers, SameCounts
      <3> QED
        BY <3>1, <3>2
    <2>4. StationInv'
      <3>1. Phases' /\ Synchronised'
        BY <1>1, <1>3, <1>4, <1>6 DEF Phases, Synchronised, InSync, Stays
      <3>2. Answers'
        BY <1>1, <1>3, <1>4, <1>6 DEF Answers, Stays, SamePending
      <3>3. Requested'
        BY <1>1, <1>3, <1>4, <1>6 DEF Requested, Stays, SnrmFrame, DiscFrame
      <3>4. Settled'
        BY <1>1, <1>3, <1>6 DEF Settled, Stays
      <3> QED
        BY <3>1, <3>2, <3>3, <3>4 DEF StationInv
    <2>5. \A p \in Roles : Persists(p)
      <3>1. \A f : OfThisRequest(f)' <=> OfThisRequest(f)
        BY <1>3, <1>4 DEF OfThisRequest, Stays, SnrmFrame
      <3>2. Persists("client")
        BY <1>1, <1>3, <1>4, <1>6 DEF Persists, Allowed, Follows, ToClient, ToClientOrder, Stays
      <3>3. Persists("server")
        BY <1>1, <1>3, <1>4, <1>6, <3>1
           DEF Persists, Allowed, Follows, ToServer, ToServerOrder, Stays, SamePending
      <3> QED
        BY <3>2, <3>3
    <2>6. WireInv("client")' /\ WireInv("server")'
      BY <1>6, <2>5, WireKept
    <2>7. Unseen("client") /\ Unseen("server")
      BY <1>3, <1>4, <1>6, <2>1, CounterTypes DEF Unseen, Stays, SameNumbers, SameCounts, Peer
    <2>8. DataInv("client")' /\ DataInv("server")'
      BY <1>3, <1>6, <2>7, DataKept DEF Stays
    <2>9. InOrderExactlyOnce'
      BY <1>4, <2>1, OrderKept DEF SameCounts
    <2> QED
      BY <2>2, <2>3, <2>4, <2>6, <2>8, <2>9, InvNext
  <1>7. CASE /\ State("server")' = "Connected" /\ ClearNumbers("server")
             /\ ~Entering("server")'
             /\ Negotiates => /\ Agreed("server")' = [maxTransmit |-> Outcome.maxInfoRx,
                                                      maxReceive |-> Outcome.maxInfoTx,
                                                      windowTransmit |-> Outcome.windowRx % 256,
                                                      windowReceive |-> Outcome.windowTx % 256]
                              /\ Window("server")' = Outcome.windowRx % 256
             /\ wire' = [wire EXCEPT !["client"] = Append(@, UaFrame)]
             /\ FreshCounters("server")
    <2>0. PICK f : f = UaFrame
      OBVIOUS
    <2>1. /\ f \in Frames /\ f.kind = "Ua" /\ f.info = (IF Negotiates THEN "block" ELSE "empty")
          /\ (Negotiates => f.params = Outcome)
      BY <2>0, FrameTypes
    <2>2. /\ wire' \in [Roles -> Seq(Frames)] /\ wire'["client"] = Append(wire["client"], f)
          /\ wire'["server"] = wire["server"]
      BY <1>7, <2>0, <2>1, Written
    <2>3. /\ CounterTypesNext /\ SameCounts("client")
          /\ sentBy'["server"] = 0 /\ ackedBy'["server"] = 0 /\ rcvd'["server"] = 0
      BY <1>7, CountersFresh
    <2>4. LinkTypes'
      BY <1>3, <1>4, <2>2, <2>3, OtherTypes, TypesNext
    <2>5. \A r \in Roles : StationCounts(r)'
      BY <1>3, <1>7, <2>3, CountsClear, CountsStay
    <2>6. StationInv'
      <3>1. Phases'
        BY <1>1, <1>3, <1>4, <1>7 DEF Phases, Stays
      <3>2. Synchronised'
        BY <1>5, <2>3 DEF Synchronised, SameCounts, Peer
      <3>3. Answers'
        BY <1>1, <1>3, <1>4, <1>7 DEF Answers, Stays, SamePending
      <3>4. Requested'
        BY <1>1, <1>3, <1>4, <1>7 DEF Requested, Stays, SnrmFrame, DiscFrame
      <3>5. Settled'
        BY <1>1, <1>3, <1>7 DEF Settled, Stays
      <3> QED
        BY <3>1, <3>2, <3>3, <3>4, <3>5 DEF StationInv
    <2>7. \A g \in Frames : Allowed("server", g) => g.kind = "Snrm"
      BY <1>1 DEF Allowed, ToServer
    <2>8. \A g \in Frames : Allowed("client", g) => g.kind # "Ua"
      BY <1>1 DEF Allowed, ToClient
    <2>9. WireInv("server")'
      <3>1. Persists("server")
        BY <1>1, <1>3, <1>4, <1>7, <2>7
           DEF Persists, Allowed, Follows, ToServer, ToServerOrder, Stays, SamePending
      <3> QED
        BY <2>2, <3>1, WireKept
    <2>10. WireInv("client")'
      <3>1. Persists("client")
        BY <1>1, <1>3, <1>7, <2>8 DEF Persists, Allowed, Follows, ToClient, ToClientOrder, Stays
      <3>2. Allowed("client", f)'
        BY <1>1, <1>3, <1>4, <1>7, <2>1 DEF Allowed, ToClient, Stays
      <3>3. \A g \in Frames : Allowed("client", g) => Follows("client", g, f)'
        BY <2>8 DEF Follows, ToClientOrder
      <3> QED
        BY <2>1, <2>2, <3>1, <3>2, <3>3, WireGrows
    <2>11. DataInv("server")'
      <3>1. \A i \in 1..Len(wire["server"]) : wire["server"][i].kind = "Snrm"
        BY <2>7, WireTypes DEF WireInv
      <3> QED
        BY <2>2, <3>1, UnnumberedNext DEF Numbered
    <2>12. DataInv("client")'
      <3>0. PICK w, v : w = wire["client"] /\ v = wire'["client"]
        OBVIOUS
      <3>1. /\ Len(w) \in Nat /\ Len(v) = Len(w) + 1
            /\ \A i \in 1..Len(w) : v[i] = w[i] /\ w[i].kind # "Ua"
        BY <2>1, <2>2, <2>8, <3>0, WireTypes, Appended DEF WireInv
      <3>2. \A i \in 1..Len(v) : ~(\E j \in 1..Len(v) : j < i /\ v[j].kind = "Ua")
        BY <3>1
      <3>3. State("client")' # "Connected"
        BY <1>1, <1>3 DEF Stays
      <3> QED
        BY <3>0, <3>2, <3>3 DEF DataInv, Current
    <2>13. InOrderExactlyOnce'
      BY <1>4, <2>3, OrderKept DEF SameCounts
    <2> QED
      BY <2>4, <2>5, <2>6, <2>9, <2>10, <2>11, <2>12, <2>13, InvNext
  <1> QED
    BY <1>1, <1>2, <1>6, <1>7, AnswerConnectStation

\* The counters of a station that starts to leave agree with its variables.
LEMMA CountsMove ==
  ASSUME NEW q \in Roles, StationCounts(q), SameNumbers(q), SameLimits(q), SameCounts(q),
         State(q)' \notin {"Disconnected", "AwaitingConnection"}
  PROVE  StationCounts(q)'
  BY DEF StationCounts, SameNumbers, SameLimits, SameCounts

\* The frame that a station writes to leave the connection.
LEMMA DisconnectFrame ==
  ASSUME LinkTypes, NEW r \in Roles, Disconnect(r), NEW f, f = DiscFrame(r)
  PROVE  /\ f \in Frames /\ f.kind = "Disc"
         /\ wire' \in [Roles -> Seq(Frames)] /\ wire'[Peer(r)] = Append(wire[Peer(r)], f)
         /\ wire'[r] = wire[r]
         /\ request' \in [Roles -> Frames \cup {NoFrame}]
         /\ request'[r] = f /\ request'[Peer(r)] = request[Peer(r)]
         /\ retries' \in [Roles -> 0..MaxRetries]
         /\ losses' \in 0..MaxLosses /\ conn' = conn
         /\ CounterTypesNext /\ \A q \in Roles : SameCounts(q)
  <1>1. sessions[r].role = r
    BY DEF LinkTypes
  <1>2. /\ wire' = [wire EXCEPT ![Peer(r)] = Append(@, f)]
        /\ request' = [request EXCEPT ![r] = f]
        /\ retries' = [retries EXCEPT ![r] = 0]
        /\ SameCounters /\ UNCHANGED <<losses, conn>>
    BY <1>1 DEF Disconnect, BuildDisconnectRequest, NoOutput, Result, Write, DiscFrame
  <1>3. f \in Frames /\ f.kind = "Disc"
    BY FrameTypes
  <1>4. Peer(r) \in Roles /\ Peer(r) # r
    BY DEF Peer
  <1>5. /\ wire' \in [Roles -> Seq(Frames)] /\ wire'[Peer(r)] = Append(wire[Peer(r)], f)
        /\ wire'[r] = wire[r]
    BY <1>2, <1>3, <1>4, Written
  <1>6. /\ request' \in [Roles -> Frames \cup {NoFrame}]
        /\ request'[r] = f /\ request'[Peer(r)] = request[Peer(r)]
    BY <1>2, <1>3, <1>4, OtherTypes
  <1>7. retries' \in [Roles -> 0..MaxRetries] /\ losses' \in 0..MaxLosses /\ conn' = conn
    BY <1>2, OtherTypes, LinkBoundsAssumption
  <1>8. CounterTypesNext /\ \A q \in Roles : SameCounts(q)
    BY <1>2, CountersKept
  <1> QED
    BY <1>3, <1>5, <1>6, <1>7, <1>8

\* When the client leaves, no UA is on either wire.
LEMMA DisconnectClientPreserves ==
  ASSUME LinkInv, Disconnect("client")
  PROVE  LinkInv'
  <1> USE InvParts
  <1>0. PICK f : f = DiscFrame("client")
    OBVIOUS
  <1>1. /\ SessionTypes' /\ Stays("server")
        /\ State("client") = "Connected" /\ State("client")' = "AwaitingDisconnect"
        /\ SameNumbers("client") /\ SameLimits("client") /\ SamePending("client")
        /\ (Leaving("client")' <=> Leaving("client"))
    BY DisconnectStation
  <1>2. /\ f \in Frames /\ f.kind = "Disc"
        /\ wire' \in [Roles -> Seq(Frames)] /\ wire'["server"] = Append(wire["server"], f)
        /\ wire'["client"] = wire["client"]
        /\ request' \in [Roles -> Frames \cup {NoFrame}]
        /\ request'["client"] = f /\ request'["server"] = request["server"]
        /\ retries' \in [Roles -> 0..MaxRetries]
        /\ losses' \in 0..MaxLosses /\ conn' = conn
        /\ CounterTypesNext /\ \A q \in Roles : SameCounts(q)
    BY <1>0, DisconnectFrame DEF Peer
  <1>3. LinkTypes'
    BY <1>1, <1>2, OtherTypes, TypesNext
  <1>4. \A r \in Roles : StationCounts(r)'
    BY <1>1, <1>2, CountsStay, CountsMove
  <1>5. /\ State("server") \in {"Connected", "AwaitingDisconnect"}
        /\ conn["server"] = conn["client"] /\ ~Leaving("server")
        /\ ~Entering("server") /\ ~Entering("client")
    BY <1>1 DEF Phases, Answers
  <1>6. StationInv'
    <2>1. Phases'
      BY <1>1, <1>2, <1>5 DEF Phases, Stays
    <2>2. Answers'
      BY <1>1, <1>5 DEF Answers, Stays, SamePending
    <2>3. Requested'
      BY <1>0, <1>1, <1>2 DEF Requested, Stays, DiscFrame
    <2>4. Settled'
      BY <1>1 DEF Settled, Stays, SameLimits
    <2>5. Synchronised'
      BY <1>1, <1>2, <1>5 DEF Synchronised, InSync, SameCounts, Peer
    <2> QED
      BY <2>1, <2>2, <2>3, <2>4, <2>5 DEF StationInv
  <1>7. WireInv("client")'
    <2>1. Persists("client")
      BY <1>1, <1>5 DEF Persists, Allowed, Follows, ToClient, ToClientOrder, Stays
    <2> QED
      BY <1>2, <2>1, WireKept
  <1>8. WireInv("server")'
    <2>1. \A g \in Frames : Allowed("server", g) =>
            g.kind # "Ua" /\ (State("server") = "Connected" => g.kind # "Disc")
      BY <1>1 DEF Allowed, ToServer
    <2>2. Persists("server")
      BY <1>1, <1>5, <2>1 DEF Persists, Allowed, Follows, ToServer, ToServerOrder, Stays, SamePending
    <2>3. Allowed("server", f)'
      BY <1>1, <1>2, <1>5 DEF Allowed, ToServer, Stays, SamePending
    <2>4. \A g \in Frames : Allowed("server", g) => Follows("server", g, f)'
      BY <1>1, <1>2, <1>5, <2>1 DEF Follows, ToServerOrder, Stays
    <2> QED
      BY <1>2, <2>2, <2>3, <2>4, WireGrows
  <1>9. DataInv("client")'
    <2>1. Closed("client")'
      BY <1>1 DEF Closed
    <2> QED
      BY <2>1, ClosedWireNext
  <1>10. DataInv("server")'
    <2>1. Unseen("server")
      BY <1>1, <1>2, CounterTypes DEF Unseen, Stays, SameNumbers, SameCounts, Peer
    <2> QED
      BY <1>1, <1>2, <2>1, DataGrows DEF Stays, Numbered
  <1>11. InOrderExactlyOnce'
    BY <1>2, OrderKept DEF SameCounts
  <1> QED
    BY <1>3, <1>4, <1>6, <1>7, <1>8, <1>9, <1>10, <1>11, InvNext

\* When the server leaves, the UA that connects the client may still be on its way.
LEMMA DisconnectServerPreserves ==
  ASSUME LinkInv, Disconnect("server")
  PROVE  LinkInv'
  <1> USE InvParts
  <1>0. PICK f : f = DiscFrame("server")
    OBVIOUS
  <1>1. /\ SessionTypes' /\ Stays("client")
        /\ State("server") = "Connected" /\ State("server")' = "AwaitingDisconnect"
        /\ SameNumbers("server") /\ SameLimits("server") /\ SamePending("server")
        /\ (Leaving("server")' <=> Leaving("server"))
    BY DisconnectStation
  <1>2. /\ f \in Frames /\ f.kind = "Disc"
        /\ wire' \in [Roles -> Seq(Frames)] /\ wire'["client"] = Append(wire["client"], f)
        /\ wire'["server"] = wire["server"]
        /\ request' \in [Roles -> Frames \cup {NoFrame}]
        /\ request'["server"] = f /\ request'["client"] = request["client"]
        /\ retries' \in [Roles -> 0..MaxRetries]
        /\ losses' \in 0..MaxLosses /\ conn' = conn
        /\ CounterTypesNext /\ \A q \in Roles : SameCounts(q)
    BY <1>0, DisconnectFrame DEF Peer
  <1>3. LinkTypes'
    BY <1>1, <1>2, OtherTypes, TypesNext
  <1>4. \A r \in Roles : StationCounts(r)'
    BY <1>1, <1>2, CountsStay, CountsMove
  <1>5. /\ State("client") \in {"AwaitingConnection", "Connected", "AwaitingDisconnect"}
        /\ conn["server"] = conn["client"] /\ ~Leaving("client")
        /\ ~Entering("server") /\ ~Entering("client")
        /\ Leaving("server") => State("client") = "AwaitingDisconnect"
    BY <1>1, StateTypes DEF Phases, Answers
  <1>6. StationInv'
    <2>1. Phases'
      BY <1>1, <1>2, <1>5 DEF Phases, Stays
    <2>2. Answers'
      BY <1>1, <1>5 DEF Answers, Stays, SamePending
    <2>3. Requested'
      BY <1>0, <1>1, <1>2 DEF Requested, Stays, DiscFrame, SnrmFrame
    <2>4. Settled'
      BY <1>1 DEF Settled, Stays, SameLimits
    <2>5. Synchronised'
      BY <1>1, <1>2, <1>5 DEF Synchronised, InSync, SameCounts, Peer
    <2> QED
      BY <2>1, <2>2, <2>3, <2>4, <2>5 DEF StationInv
  <1>7. WireInv("client")'
    <2>1. Persists("client")
      BY <1>1, <1>2, <1>5 DEF Persists, Allowed, Follows, ToClient, ToClientOrder, Stays
    <2>2. Allowed("client", f)'
      BY <1>1, <1>2 DEF Allowed, ToClient
    <2>3. \A g \in Frames : Allowed("client", g) => Follows("client", g, f)'
      BY <1>1, <1>2 DEF Follows, ToClientOrder
    <2> QED
      BY <1>2, <2>1, <2>2, <2>3, WireGrows
  <1>8. WireInv("server")'
    <2>1. \A g \in Frames : Allowed("server", g) => g.kind # "Ua"
      BY <1>1 DEF Allowed, ToServer
    <2>2. Persists("server")
      BY <1>1, <1>5, <2>1 DEF Persists, Allowed, Follows, ToServer, ToServerOrder, Stays, SamePending
    <2> QED
      BY <1>2, <2>2, WireKept
  <1>9. DataInv("server")'
    <2>1. Closed("server")'
      BY <1>1 DEF Closed
    <2> QED
      BY <2>1, ClosedWireNext
  <1>10. DataInv("client")'
    <2>1. Unseen("client")
      BY <1>1, <1>2, CounterTypes DEF Unseen, Stays, SameNumbers, SameCounts, Peer
    <2> QED
      BY <1>1, <1>2, <2>1, DataGrows DEF Stays, Numbered
  <1>11. InOrderExactlyOnce'
    BY <1>2, OrderKept DEF SameCounts
  <1> QED
    BY <1>3, <1>4, <1>6, <1>7, <1>8, <1>9, <1>10, <1>11, InvNext

\* The UA with which a station leaves the connection.
LeaveFrame(r) == UFrame("Ua", r, "empty", DefaultSnrmParams, NoPayload)

\* The step that writes it, on the wires and on the history.
LEMMA LeaveFrameTypes ==
  ASSUME LinkTypes, NEW r \in Roles, AnswerDisconnect(r), NEW f, f = LeaveFrame(r)
  PROVE  /\ f \in Frames /\ f.kind = "Ua"
         /\ wire' \in [Roles -> Seq(Frames)] /\ wire'[Peer(r)] = Append(wire[Peer(r)], f)
         /\ wire'[r] = wire[r]
         /\ UNCHANGED <<request, retries, losses, conn>>
         /\ CounterTypesNext /\ SameCounts(Peer(r))
         /\ sentBy'[r] = 0 /\ ackedBy'[r] = 0 /\ rcvd'[r] = 0
  <1>1. sessions[r].role = r
    BY DEF LinkTypes
  <1>2. /\ wire' = [wire EXCEPT ![Peer(r)] = Append(@, f)]
        /\ FreshCounters(r) /\ UNCHANGED <<request, retries, losses, conn>>
    BY <1>1 DEF AnswerDisconnect, BuildDisconnectResponse, NoOutput, Result, Write, LeaveFrame
  <1>3. f \in Frames /\ f.kind = "Ua"
    <2>1. DefaultSnrmParams \in SnrmParams
      BY DEF DefaultSnrmParams, SnrmParams
    <2>2. NoPayload \in Seq(Nat)
      BY DEF NoPayload
    <2> QED
      BY <2>1, <2>2 DEF LeaveFrame, UFrame, Frame, Frames
  <1>4. Peer(r) \in Roles /\ Peer(r) # r
    BY DEF Peer
  <1>5. /\ wire' \in [Roles -> Seq(Frames)] /\ wire'[Peer(r)] = Append(wire[Peer(r)], f)
        /\ wire'[r] = wire[r]
    BY <1>2, <1>3, <1>4, Written
  <1>6. /\ CounterTypesNext /\ SameCounts(Peer(r))
        /\ sentBy'[r] = 0 /\ ackedBy'[r] = 0 /\ rcvd'[r] = 0
    BY <1>2, <1>4, CountersFresh
  <1> QED
    BY <1>2, <1>3, <1>5, <1>6

\* The client answers only a server that waits for the UA.
LEMMA AnswerDisconnectClientPreserves ==
  ASSUME LinkInv, AnswerDisconnect("client")
  PROVE  LinkInv'
  <1> USE InvParts
  <1>0. PICK f : f = LeaveFrame("client")
    OBVIOUS
  <1>1. /\ SessionTypes' /\ Stays("server")
        /\ Leaving("client") /\ ~Leaving("client")' /\ State("client")' = "Disconnected"
        /\ ClearNumbers("client") /\ SameLimits("client") /\ SamePending("client")
    BY AnswerDisconnectStation
  <1>2. /\ f \in Frames /\ f.kind = "Ua"
        /\ wire' \in [Roles -> Seq(Frames)] /\ wire'["server"] = Append(wire["server"], f)
        /\ wire'["client"] = wire["client"]
        /\ UNCHANGED <<request, retries, losses, conn>>
        /\ CounterTypesNext /\ SameCounts("server")
        /\ sentBy'["client"] = 0 /\ ackedBy'["client"] = 0 /\ rcvd'["client"] = 0
    BY <1>0, LeaveFrameTypes DEF Peer
  <1>3. LinkTypes'
    BY <1>1, <1>2, OtherTypes, TypesNext
  <1>4. \A r \in Roles : StationCounts(r)'
    <2>1. Window("client")' \in 0..7
      BY <1>1 DEF StationCounts, SameLimits
    <2> QED
      BY <1>1, <1>2, <2>1, CountsStay, CountsClear
  <1>5. /\ State("client") \in {"Connected", "AwaitingDisconnect"}
        /\ State("server") = "AwaitingDisconnect" /\ ~Leaving("server")
        /\ ~Entering("server") /\ ~Entering("client")
    BY <1>1 DEF Answers
  <1>6. StationInv'
    <2>1. Phases'
      BY <1>1, <1>2, <1>5 DEF Phases, Stays
    <2>2. Answers'
      BY <1>1, <1>5 DEF Answers, Stays, SamePending
    <2>3. Requested'
      BY <1>1, <1>2 DEF Requested, Stays, DiscFrame
    <2>4. Settled' /\ Synchronised'
      BY <1>1, <1>5 DEF Settled, Synchronised, InSync, Stays, SameLimits
    <2> QED
      BY <2>1, <2>2, <2>3, <2>4 DEF StationInv
  <1>7. WireInv("client")'
    <2>1. Persists("client")
      BY <1>1, <1>5 DEF Persists, Allowed, Follows, ToClient, ToClientOrder, Stays
    <2> QED
      BY <1>2, <2>1, WireKept
  <1>8. WireInv("server")'
    <2>1. \A g \in Frames : Allowed("server", g) => g.kind # "Ua"
      BY <1>5 DEF Allowed, ToServer
    <2>2. Persists("server")
      BY <1>1, <1>5, <2>1 DEF Persists, Allowed, Follows, ToServer, ToServerOrder, Stays, SamePending
    <2>3. Allowed("server", f)'
      BY <1>1, <1>2, <1>5 DEF Allowed, ToServer, Stays, SamePending
    <2>4. \A g \in Frames : Allowed("server", g) => Follows("server", g, f)'
      BY <1>1, <1>5, <2>1 DEF Follows, ToServerOrder, Stays
    <2> QED
      BY <1>2, <2>2, <2>3, <2>4, WireGrows
  <1>9. DataInv("client")' /\ DataInv("server")'
    <2>1. Closed("client")' /\ Closed("server")'
      BY <1>1, <1>5 DEF Closed, Stays
    <2> QED
      BY <2>1, ClosedWireNext
  <1>10. InOrderExactlyOnce'
    BY <1>2, OrderKept DEF SameCounts
  <1> QED
    BY <1>3, <1>4, <1>6, <1>7, <1>8, <1>9, <1>10, InvNext

\* The server answers only a client that waits for the UA, and then only DISCs
\* are on the way to the server.
LEMMA AnswerDisconnectServerPreserves ==
  ASSUME LinkInv, AnswerDisconnect("server")
  PROVE  LinkInv'
  <1> USE InvParts
  <1>0. PICK f : f = LeaveFrame("server")
    OBVIOUS
  <1>1. /\ SessionTypes' /\ Stays("client")
        /\ Leaving("server") /\ ~Leaving("server")' /\ State("server")' = "Disconnected"
        /\ ClearNumbers("server") /\ SameLimits("server") /\ SamePending("server")
    BY AnswerDisconnectStation
  <1>2. /\ f \in Frames /\ f.kind = "Ua"
        /\ wire' \in [Roles -> Seq(Frames)] /\ wire'["client"] = Append(wire["client"], f)
        /\ wire'["server"] = wire["server"]
        /\ UNCHANGED <<request, retries, losses, conn>>
        /\ CounterTypesNext /\ SameCounts("client")
        /\ sentBy'["server"] = 0 /\ ackedBy'["server"] = 0 /\ rcvd'["server"] = 0
    BY <1>0, LeaveFrameTypes DEF Peer
  <1>3. LinkTypes'
    BY <1>1, <1>2, OtherTypes, TypesNext
  <1>4. \A r \in Roles : StationCounts(r)'
    <2>1. Window("server")' \in 0..7
      BY <1>1 DEF StationCounts, SameLimits
    <2> QED
      BY <1>1, <1>2, <2>1, CountsStay, CountsClear
  <1>5. /\ State("server") \in {"Connected", "AwaitingDisconnect"}
        /\ State("client") = "AwaitingDisconnect" /\ ~Leaving("client")
        /\ ~Entering("server") /\ ~Entering("client")
    BY <1>1 DEF Answers
  <1>6. StationInv'
    <2>1. Phases'
      BY <1>1, <1>2, <1>5 DEF Phases, Stays
    <2>2. Answers'
      BY <1>1, <1>5 DEF Answers, Stays, SamePending
    <2>3. Requested'
      BY <1>1, <1>2, <1>5 DEF Requested, Stays, DiscFrame
    <2>4. Settled' /\ Synchronised'
      BY <1>1, <1>5 DEF Settled, Synchronised, InSync, Stays, SameLimits
    <2> QED
      BY <2>1, <2>2, <2>3, <2>4 DEF StationInv
  <1>7. WireInv("client")'
    <2>1. \A g \in Frames : Allowed("client", g) => g.kind # "Ua"
      BY <1>5 DEF Allowed, ToClient
    <2>2. Persists("client")
      BY <1>1, <1>5, <2>1 DEF Persists, Allowed, Follows, ToClient, ToClientOrder, Stays
    <2>3. Allowed("client", f)'
      BY <1>1, <1>2, <1>5 DEF Allowed, ToClient, Stays
    <2>4. \A g \in Frames : Allowed("client", g) => Follows("client", g, f)'
      BY <2>1 DEF Follows, ToClientOrder
    <2> QED
      BY <1>2, <2>2, <2>3, <2>4, WireGrows
  <1>8. WireInv("server")'
    <2>1. \A g \in Frames : Allowed("server", g) => g.kind = "Disc"
      BY <1>1 DEF Allowed, ToServer
    <2>2. Persists("server")
      BY <1>1, <1>5, <2>1 DEF Persists, Allowed, Follows, ToServer, ToServerOrder, Stays, SamePending
    <2> QED
      BY <1>2, <2>2, WireKept
  <1>9. DataInv("client")' /\ DataInv("server")'
    <2>1. Closed("client")' /\ Closed("server")'
      BY <1>1, <1>5 DEF Closed, Stays
    <2> QED
      BY <2>1, ClosedWireNext
  <1>10. InOrderExactlyOnce'
    BY <1>2, OrderKept DEF SameCounts
  <1> QED
    BY <1>3, <1>4, <1>6, <1>7, <1>8, <1>9, <1>10, InvNext

-----------------------------------------------------------------------------
(***************************************************************************)
(* Steps that leave both stations alone.                                   *)
(***************************************************************************)
Still ==
  /\ UNCHANGED <<sessions, request, conn>> /\ SameCounters

\* Such a step disturbs no part of the invariant.
LEMMA StillParts ==
  ASSUME LinkInv, Still
  PROVE  /\ SessionTypes' /\ CounterTypesNext
         /\ \A q \in Roles : Stays(q) /\ SameCounts(q)
         /\ \A q \in Roles : StationCounts(q)'
         /\ StationInv' /\ InOrderExactlyOnce'
         /\ \A p \in Roles : Persists(p) /\ Unseen(p)
  <1> USE InvParts
  <1>1. SessionTypes' /\ \A q \in Roles : Stays(q)
    BY Unmoved DEF Still
  <1>2. CounterTypesNext /\ \A q \in Roles : SameCounts(q)
    BY CountersKept DEF Still
  <1>3. UNCHANGED <<request, conn>>
    BY DEF Still
  <1>4. \A q \in Roles : StationCounts(q)'
    BY <1>1, <1>2, CountsStay
  <1>5. StationInv'
    <2>1. Phases' /\ Requested'
      BY <1>1, <1>3 DEF Phases, Requested, Stays, SnrmFrame, DiscFrame
    <2>2. Answers'
      BY <1>1, <1>3 DEF Answers, Stays, SamePending
    <2>3. Settled'
      BY <1>1 DEF Settled, Stays, SameLimits
    <2>4. Synchronised'
      BY <1>1, <1>2, <1>3 DEF Synchronised, InSync, Stays, SameCounts, Peer
    <2> QED
      BY <2>1, <2>2, <2>3, <2>4 DEF StationInv
  <1>6. InOrderExactlyOnce'
    BY <1>2, <1>3, OrderKept DEF SameCounts
  <1>7. Persists("client")
    BY <1>1, <1>3 DEF Persists, Allowed, Follows, ToClient, ToClientOrder, Stays
  <1>8. Persists("server")
    <2>1. \A g : OfThisRequest(g)' <=> OfThisRequest(g)
      BY <1>1, <1>3 DEF OfThisRequest, Stays, SnrmFrame
    <2> QED
      BY <1>1, <1>3, <2>1
         DEF Persists, Allowed, Follows, ToServer, ToServerOrder, Stays, SamePending
  <1>9. \A p \in Roles : Unseen(p)
    BY <1>1, <1>2, <1>3, CounterTypes DEF Unseen, Stays, SameNumbers, SameCounts, Peer
  <1> QED
    BY <1>1, <1>2, <1>4, <1>5, <1>6, <1>7, <1>8, <1>9

\* A stuttering step.
LEMMA LinkStutterPreserves ==
  ASSUME LinkInv, UNCHANGED linkVars
  PROVE  LinkInv'
  <1> USE InvParts
  <1>1. Still /\ UNCHANGED <<wire, retries, losses>>
    BY DEF linkVars, Still, SameCounters
  <1>2. LinkTypes'
    BY <1>1, StillParts, OtherTypes, TypesNext DEF Still
  <1>3. /\ WireInv("client")' /\ WireInv("server")'
    BY <1>1, StillParts, WireKept
  <1>4. DataInv("client")' /\ DataInv("server")'
    BY <1>1, StillParts, DataKept DEF Stays
  <1> QED
    BY <1>1, <1>2, <1>3, <1>4, StillParts, InvNext

\* Losing the first frame of a wire: what is behind it stays true without it.
LEMMA LosePreserves ==
  ASSUME LinkInv, NEW r \in Roles, Lose(r)
  PROVE  LinkInv'
  <1> USE InvParts
  <1>1. Still /\ UNCHANGED retries /\ losses' \in 0..MaxLosses
        /\ wire[r] # <<>> /\ wire' = [wire EXCEPT ![r] = Tail(@)]
    BY OtherTypes, LinkBoundsAssumption DEF Lose, Still
  <1>2. /\ wire' \in [Roles -> Seq(Frames)] /\ wire'[r] = Tail(wire[r])
        /\ \A q \in Roles : q # r => wire'[q] = wire[q]
    BY <1>1, Taken
  <1>3. LinkTypes'
    BY <1>1, <1>2, StillParts, OtherTypes, TypesNext DEF Still
  <1>4. ASSUME NEW p \in Roles
        PROVE  WireInv(p)' /\ DataInv(p)'
    <2>1. CASE p # r
      BY <1>1, <1>2, <2>1, StillParts, WireKept, DataKept DEF Stays
    <2>2. CASE p = r
      <3>1. Passes(p, wire[p][1])
        BY <1>1, StillParts DEF Persists, Passes
      <3> QED
        BY <1>1, <1>2, <2>2, <3>1, StillParts, WireShrinks, DataShrinks DEF Stays
    <2> QED
      BY <2>1, <2>2
  <1> QED
    BY <1>1, <1>3, <1>4, StillParts, InvNext

\* A retransmitted SNRM or DISC may stand wherever the first one may.
LEMMA RetransmitPreserves ==
  ASSUME LinkInv, NEW r \in Roles, Retransmit(r)
  PROVE  LinkInv'
  <1> USE InvParts
  <1>0. PICK f, p : f = request[r] /\ p = Peer(r)
    OBVIOUS
  <1>1. /\ Still /\ losses' = losses /\ State(r) \in {"AwaitingConnection", "AwaitingDisconnect"}
        /\ retries' = [retries EXCEPT ![r] = @ + 1] /\ retries[r] < MaxRetries
        /\ wire' = [wire EXCEPT ![p] = Append(@, f)]
    BY <1>0 DEF Retransmit, Still, Write, State
  <1>2. /\ r = "server" => State("server") = "AwaitingDisconnect"
        /\ p \in Roles /\ p # r /\ (p = "server" <=> r = "client")
    BY <1>0, <1>1 DEF Phases, Peer
  <1>3. \/ r = "client" /\ State("client") = "AwaitingConnection" /\ f = SnrmFrame(conn["client"])
        \/ State(r) = "AwaitingDisconnect" /\ f = DiscFrame(r)
    BY <1>0, <1>1, <1>2 DEF Requested
  <1>4. f \in Frames /\ f.kind \in {"Snrm", "Disc"}
        /\ (State(r) = "AwaitingConnection" <=> f.kind = "Snrm")
    BY <1>3, FrameTypes, CounterTypes
  <1>5. /\ wire' \in [Roles -> Seq(Frames)] /\ wire'[p] = Append(wire[p], f)
        /\ \A q \in Roles : q # p => wire'[q] = wire[q]
    BY <1>1, <1>2, <1>4, Written
  <1>6. retries' \in [Roles -> 0..MaxRetries]
    <2>1. retries \in [Roles -> 0..MaxRetries] /\ MaxRetries \in Nat
      BY OtherTypes, LinkBoundsAssumption
    <2>2. retries[r] + 1 \in 0..MaxRetries
      BY <1>1, <2>1
    <2> QED
      BY <1>1, <2>1, <2>2
  <1>7. LinkTypes'
    BY <1>1, <1>5, <1>6, StillParts, OtherTypes, TypesNext DEF Still
  <1>8. Persists(p) /\ Unseen(p) /\ Stays(p) /\ Persists(r) /\ Unseen(r) /\ Stays(r)
    BY <1>1, <1>2, StillParts
  <1>9. Allowed(p, f) /\ \A g \in Frames : Allowed(p, g) => Follows(p, g, f)
    <2>1. CASE r = "client" /\ State("client") = "AwaitingConnection"
      <3>1. OfThisRequest(f)
        BY <1>3, <2>1 DEF OfThisRequest
      <3> QED
        BY <1>2, <1>4, <2>1, <3>1 DEF Allowed, Follows, ToServer, ToServerOrder, Answers
    <2>2. CASE r = "client" /\ State("client") = "AwaitingDisconnect"
      <3>1. \A g : ~OfThisRequest(g)
        BY <2>2 DEF OfThisRequest
      <3> QED
        BY <1>2, <1>4, <2>2, <3>1 DEF Allowed, Follows, ToServer, ToServerOrder, Answers
    <2>3. CASE r = "server"
      BY <1>2, <1>4, <2>3 DEF Allowed, Follows, ToClient, ToClientOrder
    <2> QED
      BY <1>1, <2>1, <2>2, <2>3
  <1>10. WireInv(p)'
    <2>1. Allowed(p, f)' /\ \A g \in Frames : Allowed(p, g) => Follows(p, g, f)'
      BY <1>4, <1>8, <1>9 DEF Persists
    <2> QED
      BY <1>2, <1>4, <1>5, <1>8, <2>1, WireGrows
  <1>11. WireInv(r)' /\ DataInv(r)'
    BY <1>2, <1>5, <1>8, WireKept, DataKept DEF Stays
  <1>12. DataInv(p)'
    BY <1>2, <1>4, <1>5, <1>8, DataGrows DEF Stays, Numbered
  <1> QED
    BY <1>1, <1>2, <1>7, <1>10, <1>11, <1>12, StillParts, InvNext

-----------------------------------------------------------------------------
(***************************************************************************)
(* The numbered frames that a connected station r writes to p.             *)
(***************************************************************************)
LEMMA ConnectedInSync ==
  ASSUME LinkInv, NEW r \in Roles, State(r) = "Connected", NEW p \in Roles, p = Peer(r)
  PROVE  /\ InSync /\ conn[r] = conn[p] /\ r # p /\ r = Peer(p)
         /\ ackedBy[p] <= rcvd[r] /\ rcvd[r] <= sentBy[p] /\ sentBy[p] - ackedBy[p] <= 7
         /\ ackedBy[r] <= rcvd[p] /\ rcvd[p] <= sentBy[r] /\ sentBy[r] - ackedBy[r] <= 7
  <1> USE InvParts
  <1>1. InSync
    BY DEF Phases, InSync
  <1>2. r # p /\ r = Peer(p) /\ {r, p} = Roles
    BY DEF Peer
  <1>3. conn[r] = conn[p]
    BY <1>1, <1>2 DEF InSync
  <1>4. \A q \in Roles : ackedBy[q] <= rcvd[Peer(q)] /\ rcvd[Peer(q)] <= sentBy[q]
    BY <1>1 DEF Synchronised
  <1>5. \A q \in Roles : sentBy[q] - ackedBy[q] <= 7
    BY CounterTypes DEF StationCounts
  <1> QED
    BY <1>1, <1>2, <1>3, <1>4, <1>5

\* Nothing that is on its way to p forbids such a frame.
LEMMA NumberedAllowed ==
  ASSUME LinkInv, NEW r \in Roles, State(r) = "Connected", NEW p \in Roles, p = Peer(r),
         NEW f \in Frames, f.kind \in {"I", "S"}
  PROVE  Allowed(p, f) /\ \A g \in Frames : Allowed(p, g) => Follows(p, g, f)
  <1> USE InvParts
  <1>1. CASE r = "client"
    BY <1>1 DEF Peer, Phases, Answers, Allowed, Follows, ToServer, ToServerOrder
  <1>2. CASE r = "server"
    BY <1>2 DEF Peer, Allowed, Follows, ToClient, ToClientOrder
  <1> QED
    BY <1>1, <1>2

\* Its N(R) acknowledges everything that r has accepted.
LEMMA NewestAcknowledgement ==
  ASSUME LinkInv, NEW r \in Roles, State(r) = "Connected", NEW p \in Roles, p = Peer(r),
         NEW f \in Frames, f.nr = VR(r)
  PROVE  Ahead(p, f) = rcvd[r] - ackedBy[p]
  <1> USE InvParts
  <1>1. VA(p) = ackedBy[p] % 8 /\ VR(r) = rcvd[r] % 8
    BY DEF StationCounts
  <1>2. ackedBy[p] <= rcvd[r] /\ rcvd[r] - ackedBy[p] <= 7
    BY ConnectedInSync, CounterTypes
  <1>3. ackedBy[p] \in Nat /\ rcvd[r] \in Nat
    BY CounterTypes
  <1> QED
    BY <1>1, <1>2, <1>3, DifferenceOfResidues DEF Ahead

\* No frame that was written before it acknowledges more.
LEMMA NewestRises ==
  ASSUME LinkInv, NEW r \in Roles, State(r) = "Connected", NEW p \in Roles, p = Peer(r),
         NEW f \in Frames, f.nr = VR(r), NEW g \in Frames, Truthful(p, g), Numbered(g)
  PROVE  Ahead(p, g) <= Ahead(p, f)
  <1> USE InvParts
  <1>1. Ahead(p, f) = rcvd[r] - ackedBy[p]
    BY NewestAcknowledgement
  <1>2. ackedBy[p] + Ahead(p, g) <= rcvd[r]
    BY ConnectedInSync DEF Truthful
  <1>3. ackedBy[p] \in Nat /\ rcvd[r] \in Nat /\ Ahead(p, g) \in 0..7
    BY CounterTypes, AheadType
  <1> QED
    BY <1>1, <1>2, <1>3

\* An RR tells its reader the newest acknowledgement.
LEMMA SendReceiveReadyPreserves ==
  ASSUME LinkInv, NEW r \in Roles, SendReceiveReady(r)
  PROVE  LinkInv'
  <1> USE InvParts
  <1>0. PICK f, p : f = Frame("S", r, 0, VR(r), "empty", DefaultSnrmParams, NoPayload) /\ p = Peer(r)
    OBVIOUS
  <1>1. sessions[r].role = r
    BY DEF LinkTypes
  <1>2. /\ Still /\ losses' = losses /\ retries' = retries /\ State(r) = "Connected"
        /\ wire' = [wire EXCEPT ![p] = Append(@, f)]
    BY <1>0, <1>1 DEF SendReceiveReady, BuildReceiveReadyFrame, NoOutput, Result, Still, Write, State, VR
  <1>3. p \in Roles /\ p # r /\ r = Peer(p)
    BY <1>0 DEF Peer
  <1>4. f \in Frames /\ f.kind = "S" /\ f.nr = VR(r)
    <2>1. NoPayload \in Seq(Nat)
      BY DEF NoPayload
    <2>2. DefaultSnrmParams \in SnrmParams
      BY DEF DefaultSnrmParams, SnrmParams
    <2>3. VR(r) \in 0..7
      BY CounterTypes
    <2> QED
      BY <1>0, <2>1, <2>2, <2>3 DEF Frame, Frames
  <1>5. /\ wire' \in [Roles -> Seq(Frames)] /\ wire'[p] = Append(wire[p], f)
        /\ \A q \in Roles : q # p => wire'[q] = wire[q]
    BY <1>2, <1>3, <1>4, Written
  <1>6. LinkTypes'
    BY <1>2, <1>5, StillParts, OtherTypes, TypesNext DEF Still
  <1>7. Persists(p) /\ Unseen(p) /\ Stays(p) /\ Persists(r) /\ Unseen(r) /\ Stays(r)
    BY <1>2, <1>3, StillParts
  <1>8. WireInv(p)'
    <2>1. Allowed(p, f)' /\ \A g \in Frames : Allowed(p, g) => Follows(p, g, f)'
      BY <1>0, <1>2, <1>3, <1>4, <1>7, NumberedAllowed DEF Persists
    <2> QED
      BY <1>3, <1>4, <1>5, <1>7, <2>1, WireGrows
  <1>9. WireInv(r)' /\ DataInv(r)'
    BY <1>3, <1>5, <1>7, WireKept, DataKept DEF Stays
  <1>10. DataInv(p)'
    <2>1. Truthful(p, f)'
      <3>1. Truthful(p, f)
        <4>1. Ahead(p, f) = rcvd[r] - ackedBy[p]
          BY <1>0, <1>2, <1>3, <1>4, NewestAcknowledgement
        <4>2. ackedBy[p] \in Nat /\ rcvd[r] \in Nat
          BY <1>3, CounterTypes
        <4> QED
          BY <1>3, <1>4, <4>1, <4>2 DEF Truthful
      <3> QED
        BY <1>3, <1>4, <1>7, <3>1, StillTruthful
    <2>2. ASSUME NEW g \in Frames, Truthful(p, g)
          PROVE  Rises(p, g, f)'
      <3>1. Rises(p, g, f)
        BY <1>0, <1>2, <1>3, <1>4, <2>2, NewestRises DEF Rises
      <3> QED
        BY <1>3, <1>4, <1>7, <3>1, StillTruthful
    <2> QED
      BY <1>3, <1>4, <1>5, <1>7, <2>1, <2>2, DataGrows DEF Stays
  <1>11. WireInv("client")' /\ WireInv("server")' /\ DataInv("client")' /\ DataInv("server")'
    BY <1>3, <1>8, <1>9, <1>10
  <1> QED
    BY <1>2, <1>6, <1>11, StillParts, InvNext

\* A step that changes neither where the stations are nor their limits.
SameStates ==
  /\ \A q \in Roles : /\ State(q)' = State(q) /\ SameLimits(q) /\ SamePending(q)
                      /\ (Leaving(q)' <=> Leaving(q))
  /\ UNCHANGED <<request, conn>>

\* Such a step disturbs neither the phases nor the order of the frames.
LEMMA SameStatesParts ==
  ASSUME LinkInv, SameStates
  PROVE  /\ Phases' /\ Answers' /\ Requested' /\ Settled' /\ (InSync' <=> InSync)
         /\ Persists("client") /\ Persists("server")
  <1> USE InvParts
  <1>1. /\ State("client")' = State("client") /\ State("server")' = State("server")
        /\ SameLimits("client") /\ SameLimits("server")
        /\ SamePending("client") /\ SamePending("server")
        /\ (Leaving("client")' <=> Leaving("client")) /\ (Leaving("server")' <=> Leaving("server"))
        /\ conn' = conn /\ request' = request
    BY DEF SameStates
  <1>2. Phases' /\ Requested' /\ (InSync' <=> InSync)
    BY <1>1 DEF Phases, Requested, InSync, SnrmFrame, DiscFrame
  <1>3. Answers'
    BY <1>1 DEF Answers, SamePending
  <1>4. Settled'
    BY <1>1 DEF Settled, SameLimits
  <1>5. Persists("client")
    BY <1>1 DEF Persists, Allowed, Follows, ToClient, ToClientOrder
  <1>6. Persists("server")
    <2>1. \A g : OfThisRequest(g)' <=> OfThisRequest(g)
      BY <1>1 DEF OfThisRequest, SnrmFrame
    <2> QED
      BY <1>1, <2>1 DEF Persists, Allowed, Follows, ToServer, ToServerOrder, SamePending
  <1> QED
    BY <1>2, <1>3, <1>4, <1>5, <1>6

\* Sending an I-frame, in the history.
LEMMA SendCounters ==
  ASSUME LinkTypes, NEW r \in Roles, Send(r)
  PROVE  /\ CounterTypesNext /\ sentBy'[r] = sentBy[r] + 1
         /\ \A q \in Roles : q # r => SameCounts(q)
         /\ UNCHANGED <<request, retries, losses, conn, ackedBy, rcvd, got>>
  <1>1. /\ sentBy[r] < LinkMaxSent[r] /\ sentBy' = [sentBy EXCEPT ![r] = @ + 1]
        /\ UNCHANGED <<request, retries, losses, conn, ackedBy, rcvd, got>>
    BY DEF Send
  <1>2. /\ sentBy \in [Roles -> Nat] /\ ackedBy \in [Roles -> Nat] /\ rcvd \in [Roles -> Nat]
        /\ got \in [Roles -> Seq(Nat)] /\ \A q \in Roles : sentBy[q] <= LinkMaxSent[q]
    BY DEF LinkTypes
  <1>3. \A q \in Roles : LinkMaxSent[q] \in Nat
    BY LinkBoundsAssumption
  <1>4. /\ sentBy' \in [Roles -> Nat] /\ sentBy'[r] = sentBy[r] + 1
        /\ \A q \in Roles : q # r => sentBy'[q] = sentBy[q]
    BY <1>1, <1>2
  <1>5. \A q \in Roles : sentBy'[q] <= LinkMaxSent[q]
    BY <1>1, <1>2, <1>3, <1>4
  <1> QED
    BY <1>1, <1>2, <1>4, <1>5 DEF CounterTypesNext, SameCounts

\* An I-frame carries the next index, and the window keeps the unacknowledged
\* frames within seven.
LEMMA SendPreserves ==
  ASSUME LinkInv, NEW r \in Roles, Send(r)
  PROVE  LinkInv'
  <1> USE InvParts
  <1>0. PICK d, p : d = Payload(conn[r], sentBy[r] + 1) /\ p = Peer(r)
    OBVIOUS
  <1>00. PICK f : f = Frame("I", r, VS(r), VR(r), "empty", DefaultSnrmParams, d)
    OBVIOUS
  <1>1. /\ SessionTypes' /\ \A q \in Roles : q # r => Stays(q)
        /\ State(r) = "Connected" /\ State(r)' = "Connected"
        /\ (VS(r) - VA(r)) % 8 < Window(r)
        /\ VS(r)' = (VS(r) + 1) % 8 /\ VA(r)' = VA(r) /\ VR(r)' = VR(r)
        /\ SameLimits(r) /\ SamePending(r)
        /\ (Leaving(r)' <=> Leaving(r))
        /\ wire' = [wire EXCEPT ![p] = Append(@, f)]
    BY <1>0, <1>00, SendStation
  <1>2. /\ CounterTypesNext /\ sentBy'[r] = sentBy[r] + 1
        /\ \A q \in Roles : q # r => SameCounts(q)
        /\ UNCHANGED <<request, retries, losses, conn, ackedBy, rcvd, got>>
    BY SendCounters
  <1>3. p \in Roles /\ p # r /\ r = Peer(p) /\ Stays(p) /\ SameCounts(p)
    BY <1>0, <1>1, <1>2 DEF Peer
  <1>4. /\ conn[r] \in Nat /\ sentBy[r] \in Nat /\ ackedBy[r] \in Nat /\ rcvd[r] \in Nat
        /\ conn[p] \in Nat /\ sentBy[p] \in Nat /\ ackedBy[p] \in Nat /\ rcvd[p] \in Nat
        /\ VS(r) \in 0..7 /\ VR(r) \in 0..7
    BY <1>3, CounterTypes
  <1>5. d \in Seq(Nat) /\ d[2] = sentBy[r] + 1
    BY <1>0, <1>4 DEF Payload
  <1>6. f \in Frames /\ f.kind = "I" /\ f.ns = VS(r) /\ f.nr = VR(r) /\ f.data = d
    <2>1. DefaultSnrmParams \in SnrmParams
      BY DEF DefaultSnrmParams, SnrmParams
    <2> QED
      BY <1>00, <1>4, <1>5, <2>1 DEF Frame, Frames
  <1>7. /\ wire' \in [Roles -> Seq(Frames)] /\ wire'[p] = Append(wire[p], f)
        /\ \A q \in Roles : q # p => wire'[q] = wire[q]
    BY <1>1, <1>3, <1>6, Written
  <1>8. LinkTypes'
    BY <1>1, <1>2, <1>7, OtherTypes, TypesNext
  <1>9. SameStates
    BY <1>1, <1>2 DEF SameStates, Stays
  <1>10. /\ ackedBy[p] <= rcvd[r] /\ rcvd[r] <= sentBy[p] /\ sentBy[p] - ackedBy[p] <= 7
         /\ ackedBy[r] <= rcvd[p] /\ rcvd[p] <= sentBy[r] /\ sentBy[r] - ackedBy[r] <= 7
         /\ conn[r] = conn[p]
    BY <1>0, <1>1, <1>3, ConnectedInSync
  <1>11. StationCounts(p)'
    BY <1>3, CountsStay
  <1>12. StationCounts(r)'
    <2>1. /\ VS(r) = sentBy[r] % 8 /\ VA(r) = ackedBy[r] % 8 /\ VR(r) = rcvd[r] % 8
          /\ ackedBy[r] <= sentBy[r] /\ Window(r) \in 0..7
      BY DEF StationCounts
    <2>2. sentBy[r] - ackedBy[r] < Window(r)
      BY <1>1, <1>4, <1>10, <2>1, DifferenceOfResidues
    <2>3. VS(r)' = (sentBy[r] + 1) % 8
      BY <1>1, <1>4, <2>1, NextResidue
    <2>4. Window(r)' = Window(r)
      BY <1>1 DEF SameLimits
    <2>5. sentBy[r] + 1 - ackedBy[r] <= Window(r) /\ ackedBy[r] <= sentBy[r] + 1
      BY <1>4, <2>1, <2>2
    <2>6. VS(r)' = sentBy'[r] % 8 /\ VA(r)' = ackedBy'[r] % 8 /\ VR(r)' = rcvd'[r] % 8
      BY <1>1, <1>2, <2>1, <2>3
    <2>7. ackedBy'[r] <= sentBy'[r] /\ sentBy'[r] - ackedBy'[r] <= Window(r)'
          /\ Window(r)' \in 0..7
      <3>1. ackedBy'[r] = ackedBy[r] /\ sentBy'[r] = sentBy[r] + 1
        BY <1>2
      <3>2. ackedBy'[r] <= sentBy'[r]
        BY <2>5, <3>1
      <3>3. sentBy'[r] - ackedBy'[r] <= Window(r)
        BY <1>4, <2>1, <2>5, <3>1
      <3>4. Window(r) \in 0..7
        BY <2>1
      <3> HIDE <1>2
      <3> QED
        BY <2>4, <3>2, <3>3, <3>4
    <2>8. State(r)' \notin {"Disconnected", "AwaitingConnection"}
      BY <1>1
    <2> QED
      BY <2>6, <2>7, <2>8 DEF StationCounts
  <1>13. StationInv'
    <2>1. Synchronised'
      <3>1. ackedBy'[r] <= rcvd'[p] /\ rcvd'[p] <= sentBy'[r]
            /\ ackedBy'[p] <= rcvd'[r] /\ rcvd'[r] <= sentBy'[p]
        BY <1>2, <1>3, <1>4, <1>10 DEF SameCounts
      <3>2. {r, p} = Roles /\ p = Peer(r) /\ r = Peer(p)
        BY <1>0, <1>3
      <3>3. \A q \in Roles : ackedBy'[q] <= rcvd'[Peer(q)] /\ rcvd'[Peer(q)] <= sentBy'[q]
        BY <3>1, <3>2
      <3> QED
        BY <3>3 DEF Synchronised, Peer
    <2> QED
      BY <1>9, <2>1, SameStatesParts DEF StationInv
  <1>14. Unseen(p) /\ Unseen(r)
    <2>1. VA(p)' = VA(p) /\ VA(r)' = VA(r)
      BY <1>1, <1>3 DEF Stays, SameNumbers
    <2> QED
      BY <1>0, <1>2, <1>3, <1>4, <2>1 DEF Unseen, SameCounts
  <1>15. Persists(p) /\ Persists(r)
    BY <1>3, <1>9, SameStatesParts
  <1>16. WireInv(p)'
    <2>1. Allowed(p, f)' /\ \A g \in Frames : Allowed(p, g) => Follows(p, g, f)'
      BY <1>0, <1>1, <1>3, <1>6, <1>15, NumberedAllowed DEF Persists
    <2> QED
      BY <1>3, <1>6, <1>7, <1>15, <2>1, WireGrows
  <1>17. WireInv(r)' /\ DataInv(r)'
    BY <1>1, <1>3, <1>7, <1>14, <1>15, WireKept, DataKept
  <1>18. DataInv(p)'
    <2>1. Ahead(p, f)' = Ahead(p, f)
      BY <1>14 DEF Ahead, Unseen
    <2>2. Ahead(p, f) = rcvd[r] - ackedBy[p]
      BY <1>0, <1>1, <1>3, <1>6, NewestAcknowledgement
    <2>3. Index(f) = sentBy[r] + 1
      BY <1>5, <1>6 DEF Index
    <2>4. Truthful(p, f)'
      <3>1. ackedBy'[p] + Ahead(p, f)' <= rcvd'[r]
        BY <1>2, <1>3, <1>4, <2>1, <2>2
      <3>2. f.ns = (Index(f) - 1) % 8
        BY <1>4, <1>6, <2>3 DEF StationCounts
      <3>3. f.data = Payload(conn'[p], Index(f))
        BY <1>0, <1>2, <1>6, <1>10, <2>3
      <3>4. Index(f) \in Nat /\ rcvd'[p] < Index(f) /\ Index(f) <= sentBy'[r]
        BY <1>2, <1>4, <1>10, <2>3
      <3>5. Peer(p)' = r
        BY <1>3 DEF Peer
      <3> QED
        BY <1>3, <3>1, <3>2, <3>3, <3>4, <3>5 DEF Truthful, Payload, Index
    <2>5. ASSUME NEW g \in Frames, Truthful(p, g)
          PROVE  Rises(p, g, f)'
      <3>1. Rises(p, g, f)
        <4>1. g.kind = "I" => Index(g) \in Nat /\ Index(g) <= sentBy[r]
          BY <1>3, <2>5 DEF Truthful
        <4>2. g.kind = "I" => Index(g) < Index(f)
          BY <1>4, <2>3, <4>1
        <4> QED
          BY <1>0, <1>1, <1>3, <1>6, <2>5, <4>2, NewestRises DEF Rises
      <3> QED
        BY <1>3, <1>6, <1>14, <3>1, StillTruthful
    <2> QED
      BY <1>3, <1>6, <1>7, <1>14, <2>4, <2>5, DataGrows DEF Stays
  <1>19. InOrderExactlyOnce'
    BY <1>2, OrderKept
  <1>20. WireInv("client")' /\ WireInv("server")' /\ DataInv("client")' /\ DataInv("server")'
         /\ \A q \in Roles : StationCounts(q)'
    BY <1>3, <1>11, <1>12, <1>16, <1>17, <1>18
  <1> QED
    BY <1>8, <1>13, <1>19, <1>20, InvNext

-----------------------------------------------------------------------------
(***************************************************************************)
(* The first frame f on the wire to r is delivered.                        *)
(***************************************************************************)
Arrives(r, f) ==
  /\ f = wire[r][1] /\ f \in Frames /\ wire[r] # <<>> /\ wire' = [wire EXCEPT ![r] = Tail(@)]
  /\ UNCHANGED <<request, retries, losses>>
  /\ SessionTypes' /\ \A q \in Roles : q # r => Stays(q)

\* What every delivery has in common.
LEMMA ArrivesParts ==
  ASSUME LinkInv, NEW r \in Roles, NEW f, Arrives(r, f), NEW p \in Roles, p = Peer(r)
  PROVE  /\ f = wire[r][1] /\ f \in Frames /\ wire[r] # <<>>
         /\ wire' \in [Roles -> Seq(Frames)] /\ wire'[r] = Tail(wire[r]) /\ wire'[p] = wire[p]
         /\ p # r /\ r = Peer(p) /\ Stays(p) /\ Roles = {r, p}
         /\ request' = request /\ Allowed(r, f) /\ SessionTypes'
  <1> USE InvParts
  <1>1. p # r /\ r = Peer(p) /\ Roles = {r, p}
    BY DEF Peer
  <1>2. /\ f = wire[r][1] /\ f \in Frames /\ wire[r] # <<>>
        /\ wire' = [wire EXCEPT ![r] = Tail(@)] /\ request' = request /\ SessionTypes'
        /\ \A q \in Roles : q # r => Stays(q)
    BY DEF Arrives
  <1>3. /\ wire' \in [Roles -> Seq(Frames)] /\ wire'[r] = Tail(wire[r])
        /\ \A q \in Roles : q # r => wire'[q] = wire[q]
    BY <1>2, Taken
  <1>4. wire[r] \in Seq(Frames)
    BY WireTypes
  <1>5. Len(wire[r]) \in Nat /\ Len(wire[r]) >= 1
    BY <1>2, <1>4, EmptySeq, LenProperties
  <1>6. Allowed(r, f)
    BY <1>2, <1>5 DEF WireInv
  <1> QED
    BY <1>1, <1>2, <1>3, <1>6

\* The types after a delivery.
LEMMA ArrivesTypes ==
  ASSUME LinkInv, NEW r \in Roles, NEW f, Arrives(r, f), CounterTypesNext,
         conn' \in [Roles -> 0..MaxConn]
  PROVE  LinkTypes'
  <1> USE InvParts
  <1>1. /\ wire[r] # <<>>
        /\ wire' = [wire EXCEPT ![r] = Tail(@)]
        /\ UNCHANGED <<request, retries, losses>> /\ SessionTypes'
    BY DEF Arrives
  <1>2. wire' \in [Roles -> Seq(Frames)]
    BY <1>1, Taken
  <1> QED
    BY <1>1, <1>2, OtherTypes, TypesNext

\* A refused frame is as good as lost.
LEMMA IgnoresPreserves ==
  ASSUME LinkInv, NEW r \in Roles, NEW f, Arrives(r, f), Ignores(r)
  PROVE  LinkInv'
  <1> USE InvParts
  <1>0. PICK p \in Roles : p = Peer(r)
    BY DEF Peer
  <1>1. /\ f = wire[r][1] /\ f \in Frames /\ wire[r] # <<>>
        /\ wire' \in [Roles -> Seq(Frames)] /\ wire'[r] = Tail(wire[r]) /\ wire'[p] = wire[p]
        /\ p # r /\ r = Peer(p) /\ Stays(p) /\ Roles = {r, p} /\ request' = request
    BY <1>0, ArrivesParts
  <1>2. Stays(r) /\ conn' = conn /\ SameCounters
    BY DEF Ignores, SameCounters
  <1>3. CounterTypesNext /\ \A q \in Roles : SameCounts(q)
    BY <1>2, CountersKept
  <1>4. LinkTypes'
    BY <1>2, <1>3, OtherTypes, ArrivesTypes
  <1>5. StationCounts(r)' /\ StationCounts(p)'
    BY <1>1, <1>2, <1>3, CountsStay
  <1>6. SameStates
    BY <1>1, <1>2 DEF SameStates, Stays
  <1>7. StationInv'
    <2>1. Synchronised'
      BY <1>3, <1>6, SameStatesParts DEF Synchronised, SameCounts, Peer
    <2> QED
      BY <1>6, <2>1, SameStatesParts DEF StationInv
  <1>8. Persists(p) /\ Persists(r)
    BY <1>6, SameStatesParts
  <1>9. Unseen(p) /\ Unseen(r)
    <2>1. ASSUME NEW q \in Roles PROVE Unseen(q)
      <3>1. PICK o \in Roles : o = Peer(q)
        BY <1>0, <1>1
      <3>2. Stays(q)
        BY <1>1, <1>2
      <3>3. SameCounts(o) /\ SameCounts(q) /\ sentBy[o] \in Nat /\ rcvd[o] \in Nat
        BY <1>3, CounterTypes
      <3> QED
        BY <1>2, <3>1, <3>2, <3>3 DEF Unseen, Stays, SameNumbers, SameCounts
    <2> QED
      BY <2>1
  <1>10. WireInv(p)' /\ DataInv(p)'
    BY <1>1, <1>8, <1>9, WireKept, DataKept DEF Stays
  <1>11. WireInv(r)' /\ DataInv(r)'
    <2>1. Passes(r, wire[r][1])
      BY <1>8 DEF Persists, Passes
    <2> QED
      BY <1>1, <1>2, <1>9, <2>1, WireShrinks, DataShrinks DEF Stays
  <1>12. InOrderExactlyOnce'
    BY <1>2, <1>3, OrderKept DEF SameCounts
  <1> QED
    BY <1>1, <1>4, <1>5, <1>7, <1>10, <1>11, <1>12, InvNext

\* The SNRM that a Disconnected server takes is the one the client waits with, and
\* only its repetitions are behind it.
LEMMA TakesSnrmPreserves ==
  ASSUME LinkInv, NEW f, Arrives("server", f), TakesSnrm("server", f)
  PROVE  LinkInv'
  <1> USE InvParts
  <1>1. /\ f = wire["server"][1] /\ f \in Frames /\ wire["server"] # <<>>
        /\ wire' \in [Roles -> Seq(Frames)] /\ wire'["server"] = Tail(wire["server"])
        /\ wire'["client"] = wire["client"]
        /\ Stays("client") /\ request' = request /\ Allowed("server", f) /\ SessionTypes'
    BY ArrivesParts DEF Peer
  <1>2. /\ f.kind = "Snrm" /\ State("server") = "Disconnected"
        /\ State("server")' = "Disconnected"
        /\ ClearNumbers("server") /\ SameLimits("server") /\ Entering("server")'
        /\ (Leaving("server")' <=> Leaving("server"))
        /\ \A c : f = SnrmFrame(c) => AsProposed'
        /\ conn' = [conn EXCEPT !["server"] = f.data[1]] /\ FreshCounters("server")
    BY DEF TakesSnrm
  <1>3. OfThisRequest(f)
    BY <1>1, <1>2 DEF Allowed, ToServer
  <1>4. State("client") = "AwaitingConnection" /\ AsProposed' /\ f.data[1] = conn["client"]
    BY <1>2, <1>3, FrameTypes, CounterTypes DEF OfThisRequest
  <1>5. /\ conn' \in [Roles -> 0..MaxConn] /\ conn'["client"] = conn["client"]
        /\ conn'["server"] = conn["client"]
    BY <1>2, <1>4, OtherTypes
  <1>6. /\ CounterTypesNext /\ SameCounts("client")
        /\ sentBy'["server"] = 0 /\ ackedBy'["server"] = 0 /\ rcvd'["server"] = 0
    BY <1>2, CountersFresh
  <1>7. LinkTypes'
    BY <1>5, <1>6, ArrivesTypes
  <1>8. StationCounts("client")' /\ StationCounts("server")'
    <2>1. Window("server")' \in 0..7
      BY <1>2 DEF StationCounts, SameLimits
    <2> QED
      BY <1>1, <1>2, <1>6, <2>1, CountsStay, CountsClear
  <1>9. ~Leaving("client") /\ ~Leaving("server") /\ ~Entering("client")
    BY <1>2, <1>4 DEF Answers
  <1>10. StationInv'
    <2>1. Phases'
      <3>1. conn["client"] \in Nat
        BY CounterTypes
      <3> QED
        BY <1>1, <1>2, <1>4, <1>5, <3>1 DEF Phases, Stays
    <2>2. Answers'
      BY <1>1, <1>2, <1>4, <1>5, <1>9 DEF Answers, Stays, SamePending
    <2>3. Requested'
      BY <1>1, <1>2, <1>4, <1>5 DEF Requested, Stays, SnrmFrame, DiscFrame
    <2>4. Settled' /\ Synchronised'
      BY <1>1, <1>2, <1>4 DEF Settled, Synchronised, InSync, Stays
    <2> QED
      BY <2>1, <2>2, <2>3, <2>4 DEF StationInv
  <1>11. \A g \in Frames : Allowed("client", g) => g.kind # "Ua"
    BY <1>2, <1>4 DEF Allowed, ToClient
  <1>12. WireInv("client")'
    <2>1. Persists("client")
      BY <1>1, <1>2, <1>4, <1>11 DEF Persists, Allowed, Follows, ToClient, ToClientOrder, Stays
    <2> QED
      BY <1>1, <2>1, WireKept
  <1>13. WireInv("server")'
    <2>1. \A g : OfThisRequest(g)' <=> OfThisRequest(g)
      BY <1>1, <1>5 DEF OfThisRequest, Stays, SnrmFrame
    <2>2. Passes("server", f)
      BY <1>1, <1>2, <1>4, <1>9, <2>1 DEF Passes, Allowed, Follows, ToServer, ToServerOrder, Stays
    <2> QED
      BY <1>1, <2>2, WireShrinks
  <1>14. DataInv("client")' /\ DataInv("server")'
    <2>1. \A i \in 1..Len(wire["client"]) : wire["client"][i].kind # "Ua"
      BY <1>11, WireTypes DEF WireInv
    <2>2. Closed("client")' /\ Closed("server")'
      BY <1>1, <1>2, <1>4, <2>1 DEF Closed, Stays
    <2> QED
      BY <2>2, ClosedWireNext
  <1>15. InOrderExactlyOnce'
    BY <1>5, <1>6, OrderKept DEF SameCounts
  <1> QED
    BY <1>7, <1>8, <1>10, <1>12, <1>13, <1>14, <1>15, InvNext

\* The client adopts what the UA says, which is the outcome.
LEMMA ConnectUaLimits ==
  ASSUME LinkInv, NEW f, Allowed("client", f), TakesConnectUa("client", f)
  PROVE  /\ Window("client")' \in 0..7
         /\ Negotiates => /\ Agreed("client")' = [maxTransmit |-> Outcome.maxInfoTx,
                                                  maxReceive |-> Outcome.maxInfoRx,
                                                  windowTransmit |-> Outcome.windowTx % 256,
                                                  windowReceive |-> Outcome.windowRx % 256]
                          /\ Window("client")' = Outcome.windowTx % 256
  <1> USE InvParts
  <1>1. f.kind = "Ua" /\ State("client") = "AwaitingConnection"
    BY DEF TakesConnectUa
  <1>2. (f.info = IF Negotiates THEN "block" ELSE "empty") /\ (Negotiates => f.params = Outcome)
    BY <1>1 DEF Allowed, ToClient
  <1>3. Window("client") \in 0..7
    BY DEF StationCounts
  <1>4. CASE Negotiates
    <2>1. f.info = "block" /\ f.params = Outcome
      BY <1>2, <1>4
    <2>2. /\ Agreed("client")' = [maxTransmit |-> Outcome.maxInfoTx,
                                  maxReceive |-> Outcome.maxInfoRx,
                                  windowTransmit |-> Outcome.windowTx % 256,
                                  windowReceive |-> Outcome.windowRx % 256]
          /\ Window("client")' = Outcome.windowTx % 256
      BY <2>1 DEF TakesConnectUa
    <2>3. Outcome.windowTx \in 0..7
      BY OutcomeFields DEF SnrmParams
    <2>4. Window("client")' \in 0..7
      <3> HIDE DEF Outcome
      <3> QED
        BY <2>2, <2>3
    <2> QED
      BY <2>2, <2>4
  <1>5. CASE ~Negotiates
    <2>1. f.info # "block"
      BY <1>2, <1>5
    <2>2. SameLimits("client")
      BY <2>1 DEF TakesConnectUa
    <2> QED
      BY <1>3, <1>5, <2>2 DEF SameLimits
  <1> QED
    BY <1>4, <1>5

\* The UA that connects the client is the server's answer in this connection, and
\* everything behind it belongs to the connection.
LEMMA TakesConnectUaPreserves ==
  ASSUME LinkInv, NEW f, Arrives("client", f), TakesConnectUa("client", f)
  PROVE  LinkInv'
  <1> USE InvParts
  <1>1. /\ f = wire["client"][1] /\ f \in Frames /\ wire["client"] # <<>>
        /\ wire' \in [Roles -> Seq(Frames)] /\ wire'["client"] = Tail(wire["client"])
        /\ wire'["server"] = wire["server"]
        /\ Stays("server") /\ request' = request /\ Allowed("client", f) /\ SessionTypes'
    BY ArrivesParts DEF Peer
  <1>2. /\ f.kind = "Ua" /\ State("client") = "AwaitingConnection"
        /\ State("client")' = "Connected"
        /\ ClearNumbers("client") /\ SamePending("client")
        /\ (Leaving("client")' <=> Leaving("client"))
        /\ FreshCounters("client") /\ conn' = conn
    BY DEF TakesConnectUa
  <1>3. State("server") \in {"Connected", "AwaitingDisconnect"} /\ conn["server"] = conn["client"]
    BY <1>1, <1>2 DEF Allowed, ToClient
  <1>4. ~Leaving("client") /\ ~Leaving("server") /\ ~Entering("client") /\ ~Entering("server")
    BY <1>2, <1>3 DEF Answers
  <1>5. /\ Window("client")' \in 0..7
        /\ Negotiates => /\ Agreed("client")' = [maxTransmit |-> Outcome.maxInfoTx,
                                                 maxReceive |-> Outcome.maxInfoRx,
                                                 windowTransmit |-> Outcome.windowTx % 256,
                                                 windowReceive |-> Outcome.windowRx % 256]
                         /\ Window("client")' = Outcome.windowTx % 256
    BY <1>1, ConnectUaLimits
  <1>6. /\ CounterTypesNext /\ SameCounts("server")
        /\ sentBy'["client"] = 0 /\ ackedBy'["client"] = 0 /\ rcvd'["client"] = 0
    BY <1>2, CountersFresh
  <1>7. LinkTypes'
    BY <1>2, <1>6, OtherTypes, ArrivesTypes
  <1>8. StationCounts("client")' /\ StationCounts("server")'
    BY <1>1, <1>2, <1>5, <1>6, CountsStay, CountsClear
  <1>9. sentBy["client"] = 0 /\ ackedBy["client"] = 0 /\ rcvd["client"] = 0 /\ VA("client") = 0
    BY <1>2 DEF StationCounts
  <1>10. StationInv'
    <2>1. Phases'
      BY <1>1, <1>2, <1>3 DEF Phases, Stays
    <2>2. Answers'
      BY <1>1, <1>2, <1>4 DEF Answers, Stays, SamePending
    <2>3. Requested'
      BY <1>1, <1>2 DEF Requested, Stays, DiscFrame
    <2>4. Settled'
      BY <1>1, <1>2, <1>5 DEF Settled, Stays, SameLimits
    <2>5. Synchronised'
      <3>1. InSync
        BY <1>2, <1>3 DEF InSync
      <3>2. \A r \in Roles : ackedBy[r] <= rcvd[Peer(r)] /\ rcvd[Peer(r)] <= sentBy[r]
        BY <3>1 DEF Synchronised
      <3> QED
        BY <1>6, <1>9, <3>2 DEF Synchronised, SameCounts, Peer
    <2> QED
      BY <2>1, <2>2, <2>3, <2>4, <2>5 DEF StationInv
  <1>11. WireInv("client")'
    <2>1. Passes("client", f)
      BY <1>1, <1>2 DEF Passes, Allowed, Follows, ToClient, ToClientOrder, Stays
    <2> QED
      BY <1>1, <2>1, WireShrinks
  <1>12. WireInv("server")'
    <2>1. \A g \in Frames : Allowed("server", g) =>
            g.kind # "Ua" /\ (State("server") = "Connected" => g.kind = "Snrm")
      BY <1>2, <1>3 DEF Allowed, ToServer
    <2>2. Persists("server")
      BY <1>1, <1>2, <1>3, <1>4, <2>1
         DEF Persists, Allowed, Follows, ToServer, ToServerOrder, Stays, SamePending
    <2> QED
      BY <1>1, <2>2, WireKept
  <1>13. Unseen("client") /\ Unseen("server")
    BY <1>1, <1>2, <1>6, <1>9, CounterTypes
       DEF Unseen, Stays, SameNumbers, ClearNumbers, SameCounts, Peer
  <1>14. DataInv("server")'
    BY <1>1, <1>13, DataKept DEF Stays
  <1>15. DataInv("client")'
    <2>0. PICK w, v : w = wire["client"] /\ v = wire'["client"]
      OBVIOUS
    <2>1. /\ Len(w) \in Nat /\ Len(w) >= 1 /\ Len(v) = Len(w) - 1 /\ w[1].kind = "Ua"
      BY <1>1, <1>2, <2>0, WireTypes, Shortened
    <2>2. \A i \in 1..Len(v) : 1 \in 1..Len(w) /\ 1 < i + 1
      BY <2>1
    <2>3. \A i \in 1..Len(v) : Current("client", i + 1)
      BY <1>2, <2>0, <2>1, <2>2 DEF Current
    <2> QED
      BY <1>1, <1>13, <2>0, <2>3, DataTaken
  <1>16. InOrderExactlyOnce'
    BY <1>2, <1>6, OrderKept DEF SameCounts
  <1> QED
    BY <1>7, <1>8, <1>10, <1>11, <1>12, <1>14, <1>15, <1>16, InvNext

\* The UA that disconnects the client comes from a server that has left.
LEMMA TakesDisconnectUaClientPreserves ==
  ASSUME LinkInv, NEW f, Arrives("client", f), TakesDisconnectUa("client", f)
  PROVE  LinkInv'
  <1> USE InvParts
  <1>1. /\ f = wire["client"][1] /\ f \in Frames /\ wire["client"] # <<>>
        /\ wire' \in [Roles -> Seq(Frames)] /\ wire'["client"] = Tail(wire["client"])
        /\ wire'["server"] = wire["server"]
        /\ Stays("server") /\ request' = request /\ Allowed("client", f) /\ SessionTypes'
    BY ArrivesParts DEF Peer
  <1>2. /\ f.kind = "Ua" /\ State("client") = "AwaitingDisconnect"
        /\ State("client")' = "Disconnected"
        /\ ClearNumbers("client") /\ SameLimits("client") /\ SamePending("client")
        /\ (Leaving("client")' <=> Leaving("client"))
        /\ FreshCounters("client") /\ conn' = conn
    BY DEF TakesDisconnectUa
  <1>3. State("server") = "Disconnected"
    BY <1>1, <1>2 DEF Allowed, ToClient
  <1>4. ~Leaving("client") /\ ~Leaving("server") /\ ~Entering("client") /\ ~Entering("server")
    BY <1>2, <1>3 DEF Answers
  <1>5. /\ CounterTypesNext /\ SameCounts("server")
        /\ sentBy'["client"] = 0 /\ ackedBy'["client"] = 0 /\ rcvd'["client"] = 0
    BY <1>2, CountersFresh
  <1>6. LinkTypes'
    BY <1>2, <1>5, OtherTypes, ArrivesTypes
  <1>7. StationCounts("client")' /\ StationCounts("server")'
    <2>1. Window("client")' \in 0..7
      BY <1>2 DEF StationCounts, SameLimits
    <2> QED
      BY <1>1, <1>2, <1>5, <2>1, CountsStay, CountsClear
  <1>8. StationInv'
    <2>1. Phases' /\ Settled' /\ Synchronised'
      BY <1>1, <1>2, <1>3 DEF Phases, Settled, Synchronised, InSync, Stays
    <2>2. Answers'
      BY <1>1, <1>2, <1>4 DEF Answers, Stays, SamePending
    <2>3. Requested'
      BY <1>1, <1>2, <1>3 DEF Requested, Stays
    <2> QED
      BY <2>1, <2>2, <2>3 DEF StationInv
  <1>9. WireInv("client")'
    <2>1. Passes("client", f)
      BY <1>1, <1>2 DEF Passes, Allowed, Follows, ToClient, ToClientOrder, Stays
    <2> QED
      BY <1>1, <2>1, WireShrinks
  <1>10. WireInv("server")'
    <2>1. \A g \in Frames : Allowed("server", g) => g.kind \notin {"Ua", "Snrm"}
      BY <1>2, <1>3 DEF Allowed, ToServer, OfThisRequest
    <2>2. Persists("server")
      BY <1>1, <1>2, <1>3, <1>4, <2>1
         DEF Persists, Allowed, Follows, ToServer, ToServerOrder, Stays, SamePending
    <2> QED
      BY <1>1, <2>2, WireKept
  <1>11. DataInv("client")' /\ DataInv("server")'
    <2>1. Closed("client")' /\ Closed("server")'
      BY <1>1, <1>2, <1>3 DEF Closed, Stays
    <2> QED
      BY <2>1, ClosedWireNext
  <1>12. InOrderExactlyOnce'
    BY <1>2, <1>5, OrderKept DEF SameCounts
  <1> QED
    BY <1>6, <1>7, <1>8, <1>9, <1>10, <1>11, <1>12, InvNext

\* The UA that disconnects the server is followed only by the SNRMs of the next
\* connection.
LEMMA TakesDisconnectUaServerPreserves ==
  ASSUME LinkInv, NEW f, Arrives("server", f), TakesDisconnectUa("server", f)
  PROVE  LinkInv'
  <1> USE InvParts
  <1>1. /\ f = wire["server"][1] /\ f \in Frames /\ wire["server"] # <<>>
        /\ wire' \in [Roles -> Seq(Frames)] /\ wire'["server"] = Tail(wire["server"])
        /\ wire'["client"] = wire["client"]
        /\ Stays("client") /\ request' = request /\ Allowed("server", f) /\ SessionTypes'
    BY ArrivesParts DEF Peer
  <1>2. /\ f.kind = "Ua" /\ State("server") = "AwaitingDisconnect"
        /\ State("server")' = "Disconnected"
        /\ ClearNumbers("server") /\ SameLimits("server") /\ SamePending("server")
        /\ (Leaving("server")' <=> Leaving("server"))
        /\ FreshCounters("server") /\ conn' = conn
    BY DEF TakesDisconnectUa
  <1>3. /\ State("client") \in {"Disconnected", "AwaitingConnection"}
        /\ State("client") = "AwaitingConnection" => conn["server"] # conn["client"]
    BY <1>1, <1>2 DEF Allowed, ToServer
  <1>4. ~Leaving("client") /\ ~Leaving("server") /\ ~Entering("client") /\ ~Entering("server")
    BY <1>2, <1>3 DEF Answers
  <1>5. /\ CounterTypesNext /\ SameCounts("client")
        /\ sentBy'["server"] = 0 /\ ackedBy'["server"] = 0 /\ rcvd'["server"] = 0
    BY <1>2, CountersFresh
  <1>6. LinkTypes'
    BY <1>2, <1>5, OtherTypes, ArrivesTypes
  <1>7. StationCounts("client")' /\ StationCounts("server")'
    <2>1. Window("server")' \in 0..7
      BY <1>2 DEF StationCounts, SameLimits
    <2> QED
      BY <1>1, <1>2, <1>5, <2>1, CountsStay, CountsClear
  <1>8. StationInv'
    <2>1. Phases' /\ Settled' /\ Synchronised'
      BY <1>1, <1>2, <1>3 DEF Phases, Settled, Synchronised, InSync, Stays
    <2>2. Answers'
      BY <1>1, <1>2, <1>4 DEF Answers, Stays, SamePending
    <2>3. Requested'
      BY <1>1, <1>2, <1>3 DEF Requested, Stays, SnrmFrame, DiscFrame
    <2> QED
      BY <2>1, <2>2, <2>3 DEF StationInv
  <1>9. \A g \in Frames : Allowed("client", g) => g.kind # "Ua"
    BY <1>2, <1>3 DEF Allowed, ToClient
  <1>10. WireInv("client")'
    <2>1. Persists("client")
      BY <1>1, <1>2, <1>3, <1>9 DEF Persists, Allowed, Follows, ToClient, ToClientOrder, Stays
    <2> QED
      BY <1>1, <2>1, WireKept
  <1>11. WireInv("server")'
    <2>1. \A g : OfThisRequest(g)' <=> OfThisRequest(g)
      BY <1>1, <1>2 DEF OfThisRequest, Stays, SnrmFrame
    <2>2. \A g : OfThisRequest(g) => g.kind = "Snrm"
      BY FrameTypes, CounterTypes DEF OfThisRequest
    <2>3. \A g : Follows("server", f, g) => OfThisRequest(g)
      BY <1>2 DEF Follows, ToServerOrder
    <2>4. Passes("server", f)
      BY <1>1, <1>2, <1>3, <1>4, <2>1, <2>2, <2>3
         DEF Passes, Allowed, Follows, ToServer, ToServerOrder, Stays, SamePending
    <2> QED
      BY <1>1, <2>4, WireShrinks
  <1>12. DataInv("client")' /\ DataInv("server")'
    <2>1. \A i \in 1..Len(wire["client"]) : wire["client"][i].kind # "Ua"
      BY <1>9, WireTypes DEF WireInv
    <2>2. Closed("client")' /\ Closed("server")'
      BY <1>1, <1>2, <1>3, <2>1 DEF Closed, Stays
    <2> QED
      BY <2>2, ClosedWireNext
  <1>13. InOrderExactlyOnce'
    BY <1>2, <1>5, OrderKept DEF SameCounts
  <1> QED
    BY <1>6, <1>7, <1>8, <1>10, <1>11, <1>12, <1>13, InvNext

\* A DISC only asks for an answer.
LEMMA TakesDiscPreserves ==
  ASSUME LinkInv, NEW r \in Roles, NEW f, Arrives(r, f), TakesDisc(r, f)
  PROVE  LinkInv'
  <1> USE InvParts
  <1>0. PICK p \in Roles : p = Peer(r)
    BY DEF Peer
  <1>1. /\ f = wire[r][1] /\ f \in Frames /\ wire[r] # <<>>
        /\ wire' \in [Roles -> Seq(Frames)] /\ wire'[r] = Tail(wire[r]) /\ wire'[p] = wire[p]
        /\ p # r /\ r = Peer(p) /\ Stays(p) /\ Roles = {r, p}
        /\ request' = request /\ Allowed(r, f)
    BY <1>0, ArrivesParts
  <1>2. /\ f.kind = "Disc" /\ State(r) = "Connected" /\ State(r)' = "Connected"
        /\ SameNumbers(r) /\ SameLimits(r) /\ SamePending(r) /\ Leaving(r)'
        /\ conn' = conn /\ SameCounters
    BY DEF TakesDisc, SameCounters
  <1>3. /\ r = "client" => State("server") = "AwaitingDisconnect"
        /\ r = "server" => State("client") = "AwaitingDisconnect"
    <2>1. CASE r = "client"
      BY <1>1, <1>2, <2>1 DEF Allowed, ToClient
    <2>2. CASE r = "server"
      BY <1>1, <1>2, <2>2, StateTypes DEF Allowed, ToServer, Phases
    <2> QED
      BY <2>1, <2>2
  <1>4. ~Leaving(p) /\ ~Entering("client") /\ ~Entering("server")
    BY <1>0, <1>2, <1>3 DEF Answers, Peer
  <1>5. CounterTypesNext /\ \A q \in Roles : SameCounts(q)
    BY <1>2, CountersKept
  <1>6. LinkTypes'
    BY <1>2, <1>5, OtherTypes, ArrivesTypes
  <1>7. StationCounts(r)' /\ StationCounts(p)'
    BY <1>1, <1>2, <1>5, CountsStay, CountsMove
  <1>8. /\ State("client")' = State("client") /\ State("server")' = State("server")
        /\ SameLimits("client") /\ SameLimits("server")
        /\ SamePending("client") /\ SamePending("server")
    BY <1>1, <1>2 DEF Stays
  <1>9. \/ r = "client" /\ Leaving("client")' /\ ~Leaving("server")' /\ ~Leaving("server")
           /\ State("client") = "Connected" /\ State("server") = "AwaitingDisconnect"
        \/ r = "server" /\ Leaving("server")' /\ ~Leaving("client")' /\ ~Leaving("client")
           /\ State("server") = "Connected" /\ State("client") = "AwaitingDisconnect"
    BY <1>0, <1>1, <1>2, <1>3, <1>4 DEF Stays, Peer
  <1>10. StationInv'
    <2>1. Phases' /\ Requested'
      BY <1>1, <1>2, <1>8 DEF Phases, Requested, SnrmFrame, DiscFrame
    <2>2. Answers'
      BY <1>4, <1>8, <1>9 DEF Answers, SamePending
    <2>3. Settled'
      BY <1>8 DEF Settled, SameLimits
    <2>4. Synchronised'
      BY <1>2, <1>5, <1>8 DEF Synchronised, InSync, SameCounts, Peer
    <2> QED
      BY <2>1, <2>2, <2>3, <2>4 DEF StationInv
  <1>11. \A g : OfThisRequest(g)' <=> OfThisRequest(g)
    BY <1>2, <1>8 DEF OfThisRequest, SnrmFrame
  <1>12. Persists("client")
    BY <1>2, <1>8 DEF Persists, Allowed, Follows, ToClient, ToClientOrder
  <1>13. r = "client" => Persists("server")
    BY <1>2, <1>8, <1>9, <1>11 DEF Persists, Allowed, Follows, ToServer, ToServerOrder, SamePending
  <1>14. r = "server" => Passes("server", f)
    BY <1>2, <1>8, <1>9, <1>11 DEF Passes, Allowed, Follows, ToServer, ToServerOrder, SamePending
  <1>15. WireInv(p)'
    BY <1>1, <1>12, <1>13, WireKept
  <1>16. WireInv(r)'
    <2>1. Passes(r, f)
      BY <1>12, <1>14 DEF Persists, Passes
    <2> QED
      BY <1>1, <2>1, WireShrinks
  <1>17. Unseen(p) /\ Unseen(r)
    BY <1>0, <1>1, <1>2, <1>5, CounterTypes DEF Unseen, Stays, SameNumbers, SameCounts
  <1>18. DataInv(p)' /\ DataInv(r)'
    BY <1>1, <1>2, <1>17, DataKept, DataShrinks DEF Stays
  <1>19. InOrderExactlyOnce'
    BY <1>2, <1>5, OrderKept DEF SameCounts
  <1> QED
    BY <1>1, <1>6, <1>7, <1>10, <1>15, <1>16, <1>18, <1>19, InvNext

-----------------------------------------------------------------------------
(***************************************************************************)
(* A numbered frame f that r takes while it is connected to p.             *)
(***************************************************************************)
LEMMA FirstFrame ==
  ASSUME LinkInv, NEW r \in Roles, NEW f, Arrives(r, f), State(r) = "Connected"
  PROVE  /\ Truthful(r, f)
         /\ \A i \in 1..Len(wire'[r]) :
              /\ wire'[r][i] = wire[r][i + 1] /\ wire'[r][i] \in Frames
              /\ Truthful(r, wire'[r][i]) /\ Rises(r, f, wire'[r][i])
              /\ \A j \in 1..Len(wire'[r]) : i < j => Rises(r, wire'[r][i], wire'[r][j])
  <1> USE InvParts
  <1>1. PICK p \in Roles : p = Peer(r)
    BY DEF Peer
  <1>2. f = wire[r][1] /\ wire[r] # <<>> /\ wire'[r] = Tail(wire[r])
    BY <1>1, ArrivesParts
  <1>3. PICK w, v : w = wire[r] /\ v = wire'[r]
    OBVIOUS
  <1>4. /\ Len(w) \in Nat /\ Len(w) >= 1 /\ Len(v) = Len(w) - 1
        /\ \A i \in 1..Len(v) : v[i] = w[i + 1]
        /\ \A i \in 1..Len(w) : w[i] \in Frames
    BY <1>2, <1>3, WireTypes, Shortened
  <1>5. \A i \in 1..Len(w) : /\ Truthful(r, w[i])
                             /\ \A j \in 1..Len(w) : i < j => Rises(r, w[i], w[j])
    BY <1>3 DEF DataInv, Current
  <1>6. Truthful(r, f)
    BY <1>2, <1>3, <1>4, <1>5
  <1>7. ASSUME NEW i \in 1..Len(v)
        PROVE  /\ v[i] = w[i + 1] /\ v[i] \in Frames
               /\ Truthful(r, v[i]) /\ Rises(r, f, v[i])
               /\ \A j \in 1..Len(v) : i < j => Rises(r, v[i], v[j])
    <2>1. i + 1 \in 1..Len(w) /\ 1 \in 1..Len(w) /\ 1 < i + 1 /\ v[i] = w[i + 1]
      BY <1>4
    <2>2. \A j \in 1..Len(v) : i < j => j + 1 \in 1..Len(w) /\ i + 1 < j + 1 /\ v[j] = w[j + 1]
      BY <1>4
    <2> QED
      BY <1>2, <1>3, <1>4, <1>5, <2>1, <2>2
  <1> QED
    BY <1>3, <1>6, <1>7

\* What r has left to expect of p.
LEMMA Expected ==
  ASSUME LinkInv, NEW r \in Roles, State(r) = "Connected", NEW p \in Roles, p = Peer(r),
         NEW f \in Frames, Truthful(r, f), f.kind = "I", f.ns = VR(r)
  PROVE  Index(f) = rcvd[r] + 1 /\ rcvd[r] + 1 <= sentBy[p]
         /\ f.data = Payload(conn[r], rcvd[r] + 1)
  <1> USE InvParts
  <1>1. /\ f.data = Payload(conn[r], Index(f)) /\ Index(f) \in Nat
        /\ rcvd[r] < Index(f) /\ Index(f) <= sentBy[p] /\ f.ns = (Index(f) - 1) % 8
    BY DEF Truthful
  <1>2. ackedBy[p] <= rcvd[r] /\ sentBy[p] - ackedBy[p] <= 7
    BY ConnectedInSync
  <1>3. rcvd[r] \in Nat /\ sentBy[p] \in Nat /\ ackedBy[p] \in Nat
    BY CounterTypes
  <1>4. VR(r) = rcvd[r] % 8
    BY DEF StationCounts
  <1>5. PICK n \in Nat : n = Index(f) - 1
    BY <1>1, <1>3
  <1>6. PICK m \in Nat : m = rcvd[r]
    BY <1>3
  <1>7. m <= n /\ n - m <= 7 /\ n % 8 = m % 8
    <2>1. m <= n /\ n <= sentBy[p]
      BY <1>1, <1>3, <1>5, <1>6
    <2>2. sentBy[p] - m <= 7
      BY <1>2, <1>3, <1>6
    <2>3. n - m <= 7
      BY <1>3, <2>1, <2>2
    <2>4. n % 8 = m % 8
      BY <1>1, <1>4, <1>5, <1>6
    <2> QED
      BY <2>1, <2>3, <2>4
  <1>8. n = m
    <2>1. ((n % 8) - (m % 8)) % 8 = n - m
      BY <1>7, DifferenceOfResidues
    <2>2. PICK x \in 0..7, y \in 0..7 : x = n % 8 /\ y = m % 8
      OBVIOUS
    <2>3. x = y /\ (x - y) % 8 = 0
      BY <1>7, <2>2
    <2> QED
      BY <2>1, <2>2, <2>3
  <1> QED
    BY <1>1, <1>3, <1>5, <1>6, <1>8

\* How far ahead of a number x a later number y is, seen from v.
LEMMA LaterResidue ==
  ASSUME NEW v \in 0..7, NEW x \in 0..7, NEW y \in 0..7,
         NEW a, a = (x - v) % 8, NEW b, b = (y - v) % 8, a <= b
  PROVE  (y - x) % 8 = b - a
  OBVIOUS

\* The counters of r after f.
LEMMA TakesNumberedCounters ==
  ASSUME LinkInv, NEW r \in Roles, NEW p \in Roles, p = Peer(r),
         NEW f \in Frames, Truthful(r, f), TakesNumbered(r, f)
  PROVE  /\ CounterTypesNext /\ SameCounts(p) /\ sentBy' = sentBy /\ conn' = conn
         /\ ackedBy'[r] = ackedBy[r] + Ahead(r, f) /\ ackedBy'[r] <= sentBy[r]
         /\ ackedBy[r] <= ackedBy'[r] /\ ackedBy'[r] <= rcvd[p]
         /\ rcvd[r] <= rcvd'[r] /\ rcvd'[r] <= sentBy[p]
         /\ f.kind = "I" => rcvd'[r] = Index(f)
         /\ f.kind # "I" => rcvd'[r] = rcvd[r]
         /\ VA(r)' = ackedBy'[r] % 8 /\ VR(r)' = rcvd'[r] % 8
         /\ rcvd'[r] # rcvd[r] => got'[r] = Payload(conn[r], rcvd'[r])
         /\ rcvd'[r] = rcvd[r] => got'[r] = got[r]
  <1> USE InvParts
  <1>1. /\ Numbered(f) /\ State(r) = "Connected" /\ Ahead(r, f) <= (VS(r) - VA(r)) % 8
        /\ VA(r)' = f.nr /\ ackedBy' = [ackedBy EXCEPT ![r] = @ + Ahead(r, f)]
        /\ UNCHANGED <<conn, sentBy>>
        /\ \/ /\ f.kind = "I" /\ f.ns = VR(r) /\ VR(r)' = (VR(r) + 1) % 8
              /\ rcvd' = [rcvd EXCEPT ![r] = @ + 1] /\ got' = [got EXCEPT ![r] = f.data]
           \/ f.kind = "S" /\ VR(r)' = VR(r) /\ UNCHANGED <<rcvd, got>>
    BY DEF TakesNumbered
  <1>2. /\ sentBy \in [Roles -> Nat] /\ ackedBy \in [Roles -> Nat] /\ rcvd \in [Roles -> Nat]
        /\ got \in [Roles -> Seq(Nat)] /\ \A q \in Roles : sentBy[q] <= LinkMaxSent[q]
    BY DEF LinkTypes
  <1>3. Ahead(r, f) \in 0..7 /\ p # r /\ f.data \in Seq(Nat) /\ f.nr \in 0..7
    BY AheadType DEF Frames, Peer
  <1>4. /\ ackedBy'[r] = ackedBy[r] + Ahead(r, f) /\ ackedBy'[p] = ackedBy[p]
        /\ ackedBy' \in [Roles -> Nat]
    <2>1. PICK a \in 0..7 : a = Ahead(r, f)
      BY <1>3
    <2>2. ackedBy' = [ackedBy EXCEPT ![r] = @ + a]
      BY <1>1, <2>1
    <2> QED
      BY <1>2, <1>3, <2>1, <2>2
  <1>5. /\ VS(r) = sentBy[r] % 8 /\ VA(r) = ackedBy[r] % 8 /\ VR(r) = rcvd[r] % 8
        /\ ackedBy[r] <= sentBy[r]
    BY DEF StationCounts
  <1>6. /\ ackedBy[p] <= rcvd[r] /\ rcvd[r] <= sentBy[p]
        /\ ackedBy[r] <= rcvd[p] /\ rcvd[p] <= sentBy[r] /\ sentBy[r] - ackedBy[r] <= 7
    <2>1. State(r) = "Connected"
      BY <1>1
    <2> QED
      BY <2>1, ConnectedInSync
  <1>7. /\ ackedBy'[r] <= sentBy[r] /\ ackedBy[r] <= ackedBy'[r]
    <2>1. (VS(r) - VA(r)) % 8 = sentBy[r] - ackedBy[r]
      BY <1>2, <1>5, <1>6, DifferenceOfResidues
    <2> QED
      <3>1. PICK a \in 0..7 : a = Ahead(r, f)
        BY <1>3
      <3>2. a <= sentBy[r] - ackedBy[r] /\ ackedBy'[r] = ackedBy[r] + a
        BY <1>1, <1>4, <2>1, <3>1
      <3>3. sentBy[r] \in Nat /\ ackedBy[r] \in Nat
        BY <1>2
      <3> HIDE <1>1, <1>2, <1>4
      <3> QED
        BY <3>2, <3>3
  <1>8. ackedBy'[r] <= rcvd[p]
    BY <1>1, <1>4 DEF Truthful
  <1>9. VA(r)' = ackedBy'[r] % 8
    <2>1. PICK m \in Nat, n \in 0..7 : m = ackedBy[r] /\ n = f.nr
      BY <1>2, <1>3
    <2>2. (m + ((n - (m % 8)) % 8)) % 8 = n
      BY AdvanceToResidue
    <2>3. ackedBy'[r] = m + ((n - (m % 8)) % 8)
      BY <1>4, <1>5, <2>1 DEF Ahead
    <2> QED
      BY <1>1, <2>1, <2>2, <2>3
  <1>10. CASE f.kind = "I"
    <2>1. /\ f.ns = VR(r) /\ VR(r)' = (VR(r) + 1) % 8
          /\ rcvd' = [rcvd EXCEPT ![r] = @ + 1] /\ got' = [got EXCEPT ![r] = f.data]
      BY <1>1, <1>10
    <2>2. /\ Index(f) = rcvd[r] + 1 /\ rcvd[r] + 1 <= sentBy[p]
          /\ f.data = Payload(conn[r], rcvd[r] + 1)
      BY <1>1, <1>10, <2>1, Expected
    <2>3. /\ rcvd' \in [Roles -> Nat] /\ rcvd'[r] = rcvd[r] + 1 /\ rcvd'[p] = rcvd[p]
          /\ got' \in [Roles -> Seq(Nat)] /\ got'[r] = f.data /\ got'[p] = got[p]
      BY <1>2, <1>3, <2>1
    <2>4. VR(r)' = rcvd'[r] % 8
      BY <1>2, <1>5, <2>1, <2>3, NextResidue
    <2>5. rcvd[r] + 1 # rcvd[r] /\ rcvd[r] <= rcvd[r] + 1
      BY <1>2
    <2>6. CounterTypesNext /\ SameCounts(p)
      BY <1>1, <1>2, <1>4, <2>3 DEF CounterTypesNext, SameCounts
    <2> QED
      BY <1>1, <1>4, <1>7, <1>8, <1>9, <1>10, <2>2, <2>3, <2>4, <2>5, <2>6
  <1>11. CASE f.kind = "S"
    <2>1. VR(r)' = VR(r) /\ rcvd' = rcvd /\ got' = got
      BY <1>1, <1>11
    <2>2. CounterTypesNext /\ SameCounts(p)
      BY <1>1, <1>2, <1>4, <2>1 DEF CounterTypesNext, SameCounts
    <2>3. rcvd[r] <= rcvd[r]
      BY <1>2
    <2> QED
      BY <1>1, <1>4, <1>5, <1>6, <1>7, <1>8, <1>9, <1>11, <2>1, <2>2, <2>3
  <1> QED
    BY <1>1, <1>10, <1>11

\* What f tells of the frames behind it.
LEMMA FramesBehind ==
  ASSUME LinkInv, NEW r \in Roles, NEW p \in Roles, p = Peer(r),
         NEW f \in Frames, Truthful(r, f), TakesNumbered(r, f)
  PROVE  /\ \A g \in Frames : Truthful(r, g) /\ Rises(r, f, g) => Truthful(r, g)'
         /\ \A g, k \in Frames : Rises(r, f, g) /\ Rises(r, f, k) /\ Rises(r, g, k) => Rises(r, g, k)'
  <1> USE InvParts
  <1>1. /\ CounterTypesNext /\ SameCounts(p) /\ sentBy' = sentBy /\ conn' = conn
        /\ ackedBy'[r] = ackedBy[r] + Ahead(r, f)
        /\ f.kind = "I" => rcvd'[r] = Index(f)
        /\ f.kind # "I" => rcvd'[r] = rcvd[r]
    BY TakesNumberedCounters
  <1>2. Numbered(f) /\ VA(r)' = f.nr
    BY DEF TakesNumbered
  <1>3. VA(r) \in 0..7 /\ f.nr \in 0..7 /\ (\A g \in Frames : g.nr \in 0..7)
        /\ ackedBy[r] \in Nat /\ rcvd[p] \in Nat
    BY CounterTypes DEF Frames
  <1>4. \A g \in Frames : Ahead(r, g) \in 0..7
    BY AheadType
  <1>5. ASSUME NEW g \in Frames, Rises(r, f, g), Numbered(g)
        PROVE  Ahead(r, g)' = Ahead(r, g) - Ahead(r, f)
    <2>1. Ahead(r, f) <= Ahead(r, g)
      BY <1>2, <1>5 DEF Rises
    <2>2. PICK v \in 0..7, x \in 0..7, y \in 0..7 : v = VA(r) /\ x = f.nr /\ y = g.nr
      BY <1>3
    <2>3. PICK a, b : a = Ahead(r, f) /\ b = Ahead(r, g)
      OBVIOUS
    <2>4. a = (x - v) % 8 /\ b = (y - v) % 8 /\ a <= b
      BY <2>1, <2>2, <2>3 DEF Ahead
    <2>5. (y - x) % 8 = b - a
      BY <2>4, LaterResidue
    <2>6. Ahead(r, g)' = (y - x) % 8
      BY <1>2, <2>2 DEF Ahead
    <2> QED
      BY <2>3, <2>5, <2>6
  <1>6. ASSUME NEW g \in Frames, Truthful(r, g), Rises(r, f, g)
        PROVE  Truthful(r, g)'
    <2>1. Numbered(g) => ackedBy'[r] + Ahead(r, g)' <= rcvd'[p]
      <3>1. SUFFICES ASSUME Numbered(g) PROVE ackedBy'[r] + Ahead(r, g)' <= rcvd'[p]
        OBVIOUS
      <3>2. ackedBy[r] + Ahead(r, g) <= rcvd[p]
        BY <1>6, <3>1 DEF Truthful
      <3>3. Ahead(r, g)' = Ahead(r, g) - Ahead(r, f)
        BY <1>5, <1>6, <3>1
      <3>4. Ahead(r, g) \in 0..7 /\ Ahead(r, f) \in 0..7
        BY <1>4
      <3>5. rcvd'[p] = rcvd[p]
        BY <1>1 DEF SameCounts
      <3> QED
        BY <1>1, <1>3, <3>2, <3>3, <3>4, <3>5
    <2>2. g.kind = "I" =>
            /\ g.data = Payload(conn'[r], Index(g)) /\ Index(g) \in Nat
            /\ rcvd'[r] < Index(g) /\ Index(g) <= sentBy'[p] /\ g.ns = (Index(g) - 1) % 8
      <3>1. f.kind = "I" /\ g.kind = "I" => Index(f) < Index(g)
        BY <1>6 DEF Rises
      <3> QED
        BY <1>1, <1>6, <3>1 DEF Truthful
    <2>3. Peer(r)' = p
      BY DEF Peer
    <2> QED
      BY <2>1, <2>2, <2>3 DEF Truthful, Payload, Index, Numbered
  <1>7. ASSUME NEW g \in Frames, NEW k \in Frames,
               Rises(r, f, g), Rises(r, f, k), Rises(r, g, k)
        PROVE  Rises(r, g, k)'
    <2>1. Numbered(g) /\ Numbered(k) => Ahead(r, g)' <= Ahead(r, k)'
      <3>1. SUFFICES ASSUME Numbered(g), Numbered(k) PROVE Ahead(r, g)' <= Ahead(r, k)'
        OBVIOUS
      <3>2. Ahead(r, g) <= Ahead(r, k)
        BY <1>7, <3>1 DEF Rises
      <3>3. Ahead(r, g)' = Ahead(r, g) - Ahead(r, f) /\ Ahead(r, k)' = Ahead(r, k) - Ahead(r, f)
        BY <1>5, <1>7, <3>1
      <3>4. Ahead(r, g) \in 0..7 /\ Ahead(r, k) \in 0..7 /\ Ahead(r, f) \in 0..7
        BY <1>4
      <3> QED
        BY <3>2, <3>3, <3>4
    <2> QED
      BY <1>7, <2>1 DEF Rises, Numbered, Index
  <1> QED
    BY <1>6, <1>7

\* A numbered frame that is taken moves the counters to what it tells, and the
\* frames behind it tell no less.
LEMMA TakesNumberedPreserves ==
  ASSUME LinkInv, NEW r \in Roles, NEW f, Arrives(r, f), TakesNumbered(r, f)
  PROVE  LinkInv'
  <1> USE InvParts
  <1>0. PICK p \in Roles : p = Peer(r)
    BY DEF Peer
  <1>1. /\ f \in Frames /\ wire[r] # <<>> /\ f = wire[r][1]
        /\ wire'[r] = Tail(wire[r]) /\ wire'[p] = wire[p]
        /\ p # r /\ r = Peer(p) /\ Stays(p) /\ Roles = {r, p} /\ request' = request
    BY <1>0, ArrivesParts
  <1>2. /\ State(r) = "Connected" /\ State(r)' = "Connected" /\ VS(r)' = VS(r)
        /\ SameLimits(r) /\ SamePending(r) /\ (Leaving(r)' <=> Leaving(r))
    BY DEF TakesNumbered
  <1>3. Truthful(r, f)
    BY <1>2, FirstFrame
  <1>4. /\ CounterTypesNext /\ SameCounts(p) /\ sentBy' = sentBy /\ conn' = conn
        /\ ackedBy'[r] <= sentBy[r] /\ ackedBy[r] <= ackedBy'[r] /\ ackedBy'[r] <= rcvd[p]
        /\ rcvd[r] <= rcvd'[r] /\ rcvd'[r] <= sentBy[p]
        /\ VA(r)' = ackedBy'[r] % 8 /\ VR(r)' = rcvd'[r] % 8
        /\ rcvd'[r] # rcvd[r] => got'[r] = Payload(conn[r], rcvd'[r])
        /\ rcvd'[r] = rcvd[r] => got'[r] = got[r]
    BY <1>0, <1>1, <1>3, TakesNumberedCounters
  <1>5. /\ sentBy[r] \in Nat /\ ackedBy[r] \in Nat /\ rcvd[r] \in Nat
        /\ sentBy[p] \in Nat /\ ackedBy[p] \in Nat /\ rcvd[p] \in Nat
    BY CounterTypes
  <1>6. ackedBy'[r] \in Nat /\ rcvd'[r] \in Nat
    BY <1>4 DEF CounterTypesNext
  <1>7. /\ ackedBy[p] <= rcvd[r] /\ rcvd[p] <= sentBy[r]
    BY <1>0, <1>2, ConnectedInSync
  <1>8. LinkTypes'
    BY <1>4, OtherTypes, ArrivesTypes
  <1>9. SameStates
    BY <1>1, <1>2, <1>4 DEF SameStates, Stays
  <1>10. StationCounts(p)'
    BY <1>1, <1>4, CountsStay
  <1>11. StationCounts(r)'
    <2>1. /\ VS(r) = sentBy[r] % 8 /\ sentBy[r] - ackedBy[r] <= Window(r) /\ Window(r) \in 0..7
      BY DEF StationCounts
    <2>2. VS(r)' = sentBy'[r] % 8 /\ VA(r)' = ackedBy'[r] % 8 /\ VR(r)' = rcvd'[r] % 8
      BY <1>2, <1>4, <2>1
    <2>3. Window(r)' = Window(r)
      BY <1>2 DEF SameLimits
    <2>4. sentBy[r] - ackedBy'[r] <= Window(r)
      BY <1>4, <1>5, <1>6, <2>1
    <2>5. ackedBy'[r] <= sentBy'[r] /\ sentBy'[r] - ackedBy'[r] <= Window(r)'
          /\ Window(r)' \in 0..7
      BY <1>4, <2>1, <2>3, <2>4
    <2> QED
      BY <1>2, <2>2, <2>5 DEF StationCounts
  <1>12. StationInv'
    <2>1. Synchronised'
      <3>1. ackedBy'[r] <= rcvd'[p] /\ rcvd'[p] <= sentBy'[r]
            /\ ackedBy'[p] <= rcvd'[r] /\ rcvd'[r] <= sentBy'[p]
        BY <1>4, <1>5, <1>6, <1>7 DEF SameCounts
      <3>2. \A q \in Roles : ackedBy'[q] <= rcvd'[Peer(q)] /\ rcvd'[Peer(q)] <= sentBy'[q]
        BY <1>0, <1>1, <3>1
      <3> QED
        BY <3>2 DEF Synchronised, Peer
    <2> QED
      BY <1>9, <2>1, SameStatesParts DEF StationInv
  <1>13. Persists(p) /\ Persists(r)
    BY <1>1, <1>9, SameStatesParts
  <1>14. WireInv(p)'
    BY <1>1, <1>13, WireKept
  <1>15. WireInv(r)'
    <2>1. Passes(r, f)
      BY <1>13 DEF Persists, Passes
    <2> QED
      BY <1>1, <2>1, WireShrinks
  <1>16. DataInv(p)'
    <2>1. Unseen(p)
      BY <1>0, <1>1, <1>4, <1>5, <1>6 DEF Unseen, Stays, SameNumbers, SameCounts
    <2> QED
      BY <1>1, <2>1, DataKept DEF Stays
  <1>17. DataInv(r)'
    <2>0. PICK v : v = wire'[r]
      OBVIOUS
    <2>1. ASSUME NEW i \in 1..Len(v)
          PROVE  /\ v[i] \in Frames /\ Truthful(r, v[i]) /\ Rises(r, f, v[i])
                 /\ \A j \in 1..Len(v) : i < j => Rises(r, v[i], v[j])
      BY <1>2, <2>0, FirstFrame
    <2>2. ASSUME NEW i \in 1..Len(v)
          PROVE  Truthful(r, v[i])'
      BY <1>0, <1>1, <1>3, <2>1, FramesBehind
    <2>3. ASSUME NEW i \in 1..Len(v), NEW j \in 1..Len(v), i < j
          PROVE  Rises(r, v[i], v[j])'
      BY <1>0, <1>1, <1>3, <2>1, <2>3, FramesBehind
    <2> QED
      BY <2>0, <2>2, <2>3 DEF DataInv
  <1>18. InOrderExactlyOnce'
    <2>1. \A q \in Roles : rcvd'[q] > 0 => got'[q] = Payload(conn'[q], rcvd'[q])
      <3>1. rcvd[p] > 0 => got[p] = Payload(conn[p], rcvd[p])
        BY DEF InOrderExactlyOnce
      <3>2. rcvd[r] > 0 => got[r] = Payload(conn[r], rcvd[r])
        BY DEF InOrderExactlyOnce
      <3>3. rcvd'[p] > 0 => got'[p] = Payload(conn'[p], rcvd'[p])
        BY <1>4, <3>1 DEF SameCounts
      <3>4. rcvd'[r] > 0 => got'[r] = Payload(conn'[r], rcvd'[r])
        BY <1>4, <3>2
      <3> QED
        BY <1>1, <3>3, <3>4
    <2> QED
      BY <2>1 DEF InOrderExactlyOnce, Payload
  <1> QED
    BY <1>1, <1>8, <1>10, <1>11, <1>12, <1>14, <1>15, <1>16, <1>17, <1>18, InvNext

\* One of these is what a delivery does.
LEMMA DeliverPreserves ==
  ASSUME LinkInv, NEW r \in Roles, Deliver(r)
  PROVE  LinkInv'
  <1> USE InvParts
  <1>1. PICK f : f = wire[r][1]
    OBVIOUS
  <1>2. /\ Arrives(r, f)
        /\ \/ Ignores(r) \/ TakesNumbered(r, f) \/ TakesSnrm(r, f)
           \/ TakesConnectUa(r, f) \/ TakesDisconnectUa(r, f) \/ TakesDisc(r, f)
    BY <1>1, DeliverStation DEF Arrives
  <1>3. TakesSnrm(r, f) => r = "server"
    BY DEF TakesSnrm
  <1>4. TakesConnectUa(r, f) => r = "client"
    BY DEF TakesConnectUa, Phases
  <1> QED
    BY <1>2, <1>3, <1>4, IgnoresPreserves, TakesNumberedPreserves, TakesSnrmPreserves,
       TakesConnectUaPreserves, TakesDisconnectUaClientPreserves,
       TakesDisconnectUaServerPreserves, TakesDiscPreserves

\* Every step keeps the invariant.
LEMMA LinkStep ==
  ASSUME LinkInv, [LinkNext]_linkVars
  PROVE  LinkInv'
  <1>1. ASSUME NEW r \in Roles, Disconnect(r)
        PROVE  LinkInv'
    BY <1>1, DisconnectClientPreserves, DisconnectServerPreserves
  <1>2. ASSUME NEW r \in Roles, AnswerDisconnect(r)
        PROVE  LinkInv'
    BY <1>2, AnswerDisconnectClientPreserves, AnswerDisconnectServerPreserves
  <1> QED
    BY <1>1, <1>2, ConnectPreserves, AnswerConnectPreserves, RetransmitPreserves, SendPreserves,
       SendReceiveReadyPreserves, DeliverPreserves, LosePreserves, LinkStutterPreserves
       DEF LinkNext

\* A session starts Disconnected with cleared sequence variables.
LEMMA NewStation ==
  ASSUME NEW r \in Roles, NEW s, s = NewSession(r, LinkLimits[r], 0)
  PROVE  /\ s \in Session /\ s.role = r /\ s.local = Normalise(LinkLimits[r])
         /\ s.state = "Disconnected" /\ s.sendSequence = 0 /\ s.receiveSequence = 0
         /\ s.acknowledgeSequence = 0 /\ s.connectResponsePending = FALSE
         /\ s.disconnectResponsePending = FALSE /\ s.windowSizeTransmit \in 0..7
  <1>1. PICK l : l = Normalise(LinkLimits[r])
    OBVIOUS
  <1>2. l \in NegotiationLimits /\ l.windowTransmit <= 7
    <2>1. l = ClientLimits \/ l = ServerLimits
      BY <1>1 DEF ClientLimits, ServerLimits
    <2> QED
      BY <2>1, LimitTypes
  <1>3. l.windowTransmit \in 0..7
    BY <1>2 DEF NegotiationLimits
  <1>4. DefaultSnrmParams \in SnrmParams
    BY DEF DefaultSnrmParams, SnrmParams
  <1> QED
    BY <1>1, <1>2, <1>3, <1>4 DEF NewSession, Session, NegotiationLimits

\* The wires are empty and nobody is connected.
LEMMA LinkInitEstablishes ==
  ASSUME LinkInit
  PROVE  LinkInv
  <1>1. ASSUME NEW r \in Roles
        PROVE  /\ sessions[r] \in Session /\ sessions[r].role = r
               /\ sessions[r].local = Normalise(LinkLimits[r])
               /\ State(r) = "Disconnected" /\ VS(r) = 0 /\ VA(r) = 0 /\ VR(r) = 0
               /\ ~Entering(r) /\ ~Leaving(r) /\ Window(r) \in 0..7
    <2>1. sessions[r] = NewSession(r, LinkLimits[r], 0)
      BY DEF LinkInit
    <2> QED
      BY <2>1, NewStation DEF State, VS, VA, VR, Entering, Leaving, Window
  <1>2. /\ wire = [r \in Roles |-> <<>>] /\ request = [r \in Roles |-> NoFrame]
        /\ retries = [r \in Roles |-> 0] /\ losses = 0 /\ conn = [r \in Roles |-> 0]
        /\ sentBy = [r \in Roles |-> 0] /\ ackedBy = [r \in Roles |-> 0]
        /\ rcvd = [r \in Roles |-> 0] /\ got = [r \in Roles |-> Payload(0, 0)]
    BY DEF LinkInit
  <1>3. LinkTypes
    <2>1. sessions \in [Roles -> Session]
      <3>1. sessions = [r \in Roles |-> sessions[r]]
        BY DEF LinkInit
      <3> QED
        BY <1>1, <3>1
    <2>2. <<>> \in Seq(Frames) /\ Payload(0, 0) \in Seq(Nat)
      BY DEF Payload
    <2>3. wire \in [Roles -> Seq(Frames)] /\ got \in [Roles -> Seq(Nat)]
      BY <1>2, <2>2
    <2>4. /\ request \in [Roles -> Frames \cup {NoFrame}]
          /\ retries \in [Roles -> 0..MaxRetries] /\ losses \in 0..MaxLosses
          /\ conn \in [Roles -> 0..MaxConn]
      BY <1>2, LinkBoundsAssumption
    <2>5. /\ sentBy \in [Roles -> Nat] /\ ackedBy \in [Roles -> Nat] /\ rcvd \in [Roles -> Nat]
          /\ \A r \in Roles : sentBy[r] <= LinkMaxSent[r]
      BY <1>2, LinkBoundsAssumption
    <2> QED
      BY <1>1, <2>1, <2>3, <2>4, <2>5 DEF LinkTypes
  <1>4. \A r \in Roles : StationCounts(r)
    <2>1. \A r \in Roles : sentBy[r] = 0 /\ ackedBy[r] = 0 /\ rcvd[r] = 0
      BY <1>2
    <2> QED
      BY <1>1, <2>1 DEF StationCounts
  <1>5. Phases /\ Answers /\ Requested /\ Settled /\ Synchronised
    BY <1>1, <1>2 DEF Phases, Answers, Requested, Settled, Synchronised, InSync
  <1>6. \A p \in Roles : WireInv(p) /\ DataInv(p)
    <2>1. \A p \in Roles : \A i : i \notin 1..Len(wire[p])
      BY <1>2
    <2> QED
      BY <2>1 DEF WireInv, DataInv
  <1>7. InOrderExactlyOnce
    BY <1>2 DEF InOrderExactlyOnce
  <1> QED
    BY <1>3, <1>4, <1>5, <1>6, <1>7 DEF LinkInv

-----------------------------------------------------------------------------
(***************************************************************************)
(* The theorems.                                                           *)
(***************************************************************************)

\* The invariant holds in every reachable state, whatever the limits, the bounds,
\* the interleaving of the two stations and the frames that are lost.
THEOREM LinkInvariant == LinkSpec => []LinkInv
  <1>1. LinkInit => LinkInv
    BY LinkInitEstablishes
  <1>2. LinkInv /\ [LinkNext]_linkVars => LinkInv'
    BY LinkStep
  <1> QED
    BY <1>1, <1>2, PTL DEF LinkSpec

\* The sessions stay well-formed, keep their roles and respect the bounds.
THEOREM LinkTypeTheorem == LinkSpec => []LinkTypeOK
  <1>1. LinkInv => LinkTypeOK
    <2> SUFFICES ASSUME LinkInv PROVE LinkTypeOK
      OBVIOUS
    <2>1. LinkTypes
      BY InvParts
    <2> QED
      BY <2>1, LinkBoundsAssumption DEF LinkTypes, LinkTypeOK
  <1> QED
    BY <1>1, LinkInvariant, PTL

\* The n-th I-frame that ReceiveInformationFrame accepts in a connection is the
\* n-th one that the peer's BuildInformationFrame built in that connection: the
\* three-bit numbers never take an old, a lost or a foreign frame for the next.
THEOREM InOrderTheorem == LinkSpec => []InOrderExactlyOnce
  <1>1. LinkInv => InOrderExactlyOnce
    BY InvParts
  <1> QED
    BY <1>1, LinkInvariant, PTL

\* An N(R) that moves V(A) acknowledges only frames that the peer has accepted in
\* the same connection.
THEOREM AcknowledgedTheorem == LinkSpec => []AcknowledgedWasAccepted
  <1>1. LinkInv => AcknowledgedWasAccepted
    <2> SUFFICES ASSUME LinkInv, BothConnected
                 PROVE  \A r \in Roles : ackedBy[r] <= rcvd[Peer(r)]
      BY DEF AcknowledgedWasAccepted
    <2>1. InSync
      BY DEF BothConnected, InSync, State
    <2> QED
      BY <2>1, InvParts DEF Synchronised
  <1> QED
    BY <1>1, LinkInvariant, PTL

\* Two connected stations have adopted the two sides of the outcome.
LEMMA SettledLimits ==
  ASSUME LinkInv, Negotiates, BothConnected
  PROVE  /\ Agreed("client") = [maxTransmit |-> Outcome.maxInfoTx,
                                maxReceive |-> Outcome.maxInfoRx,
                                windowTransmit |-> Outcome.windowTx % 256,
                                windowReceive |-> Outcome.windowRx % 256]
         /\ Window("client") = Outcome.windowTx % 256
         /\ Agreed("server") = [maxTransmit |-> Outcome.maxInfoRx,
                                maxReceive |-> Outcome.maxInfoTx,
                                windowTransmit |-> Outcome.windowRx % 256,
                                windowReceive |-> Outcome.windowTx % 256]
         /\ Window("server") = Outcome.windowRx % 256
  <1>1. Settled
    BY InvParts
  <1>2. State("client") = "Connected" /\ State("server") = "Connected"
    BY DEF BothConnected, State
  <1> QED
    BY <1>1, <1>2 DEF Settled

\* After an SNRM with a negotiation block both stations work with the same limits
\* in both directions: ReceiveUa adopts what BuildConnectResponse adopted.
THEOREM NegotiationTheorem == LinkSpec => [](Negotiates => NegotiationAgreed)
  <1>1. LinkInv => (Negotiates => NegotiationAgreed)
    <2> SUFFICES ASSUME LinkInv, Negotiates, BothConnected
                 PROVE  \A r \in Roles :
                          /\ Agreed(r).maxTransmit = Agreed(Peer(r)).maxReceive
                          /\ Agreed(r).windowTransmit = Agreed(Peer(r)).windowReceive
      BY DEF NegotiationAgreed, Agreed
    <2> QED
      BY SettledLimits DEF Peer
  <1> QED
    BY <1>1, LinkInvariant, PTL

\* After an SNRM with a negotiation block neither station sends longer fields or
\* more frames than the options of its peer allow.
THEOREM PeerCanReceiveTheorem == LinkSpec => [](Negotiates => PeerCanReceive)
  <1>1. LinkInv => (Negotiates => PeerCanReceive)
    <2> SUFFICES ASSUME LinkInv, Negotiates, BothConnected
                 PROVE  PeerCanReceive
      BY DEF PeerCanReceive
    <2>1. /\ sessions["client"].local = ClientLimits /\ sessions["server"].local = ServerLimits
      BY InvParts DEF LinkTypes, ClientLimits, ServerLimits
    <2>2. /\ Agreed("client").maxTransmit <= ServerLimits.maxReceive
          /\ Agreed("server").maxTransmit <= ClientLimits.maxReceive
      BY SettledLimits, OutcomeFields
    <2>3. /\ Window("client") <= ServerLimits.windowReceive
          /\ Window("server") <= ClientLimits.windowReceive
      <3>1. Outcome.windowTx \in 0..7 /\ Outcome.windowRx \in 0..7
        BY OutcomeFields DEF SnrmParams
      <3>2. \A n \in 0..7 : n % 256 = n
        OBVIOUS
      <3>3. Window("client") = Outcome.windowTx /\ Window("server") = Outcome.windowRx
        BY SettledLimits, <3>1, <3>2
      <3> QED
        BY <3>3, OutcomeFields
    <2> QED
      BY <2>1, <2>2, <2>3 DEF PeerCanReceive, Agreed, Window, Peer
  <1> QED
    BY <1>1, LinkInvariant, PTL

=============================================================================
