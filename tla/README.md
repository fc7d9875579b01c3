# A verification project for the dlms libraries

The repository is a DLMS/COSEM stack in C++11: thirteen libraries under
`src/lib/` that a meter (server) or a head-end (client) links.  This directory
holds TLA+ models of its protocol core, the TLC configurations that check them
and TLAPS proofs.  `PROJECT.json` is the index: which definition stands for
which lines, which run checks which property, which mutant breaks it.

Tools: `tlc -workers 2 -config X.cfg M` for a run, `tlapm M.tla` for the proofs of
`HdlcSessionLemmas`, `HdlcStationProofs`, `HdlcLinkProofs`, `HdlcChannelProofs`,
`AssociationProofs`, `XdlmsServiceProofs`, `CosemProofs` and `NumberLemmas`.  The first
proof of `HdlcLinkProofs` takes some minutes.

## 1. Inventory

A request travels down one column and up the other:

    DlmsClient                                       ServerEndpoint
      AssociationClient, XdlmsClient                   AssociationServer, XdlmsServerApduProcessor
      CipheredApduProcessor                            CipheredApduProcessor
      HdlcProfileChannel | WrapperTcpProfileChannel    the same
      HdlcSession, reassembler, stream decoder         the same
      TCP, UDP or serial transport                     the same

Behind the server's processor stand `XdlmsServerAdapter`, the service dispatcher,
the logical device with its registry, and the COSEM objects.

Everything below `DlmsClient` and `ServerEndpoint` is single-threaded and
synchronous: a call blocks in a read until it returns.  Concurrency is between
the two ends, and most of the hard behaviour comes from there: what one end has
sent, lost, given up or half received while the other goes on.  The exception is
`TcpServerTransport`, whose `Close` may run in a second thread.  The COSEM objects
are sequential; what is hard about them is the number of paths to one attribute
and the attributes that depend on each other.

| Component | State it keeps | Operations | Hard behaviour | What makes it correct |
|---|---|---|---|---|
| HDLC session (`dlms-hdlc/hdlc_session.cpp`) | connection state, V(S), V(R), V(A), three pending-answer flags, proposed and negotiated limits | six `Build*` calls, `ReceiveFrame` | any frame in any state; modulo-8 numbers; negotiation seen from two ends; answers the owner must give | the window is respected, frames are accepted once and in order, both ends agree on the limits |
| Reassembler, stream decoder (`hdlc_segmentation.cpp`, `hdlc_stream_decoder.cpp`) | pending bytes | `PushFrame`, `Push`, `Reset` | limits; a bad byte in a read that also holds good frames | no APDU is cut or joined |
| HDLC profile channel (`dlms-profile/hdlc_profile_channel.cpp`) | a session, a reassembler, frames and APDUs read too early | connect, accept, disconnect, `SendApdu`, `ReceiveApdu`, `Open`, `Close` | a sender reads the peer's data while it waits for its window; retries; a connection that breaks | an APDU leaves as it entered, in order, and a call that says Ok has done what it says |
| Wrapper TCP channel and codec (`dlms-wrapper`, `wrapper_tcp_profile_channel.cpp`) | stream buffer, pending frames | `SendApdu`, `ReceiveApdu`, `Open`, `Close` | frames split over reads, several in one read, writes that fail half way | whole APDUs in order, however the stream is cut |
| Wrapper UDP channel (`wrapper_udp_profile_channel.cpp`) | none between calls | as above | a datagram that does not fit | one datagram, one APDU |
| LLC codec (`dlms-llc`) | none | encode, decode | none | round trip |
| xDLMS client (`dlms-xdlms/xdlms_client.cpp`) | invoke-id allocator, block loop of the running call | `Get`, `Set`, `Action` | a response of an earlier call arrives late; a transfer breaks off | a result belongs to its call and is whole |
| xDLMS server (`dlms-xdlms/xdlms_server.cpp`) | three block states | `ProcessRequest` | a client that abandons a transfer and starts another | the handler sees whole requests, each once |
| Server endpoint (`dlms-endpoint/server_endpoint.cpp`) | channel, association, HLS step, processor | `Open`, `RunOnce`, `Close` | a refused request has no response; block states and the association context outlive `Close` | no service before authentication |
| Association client and server (`dlms-association`) | Closed, Open, Associating, Associated; negotiated result | `Open`, `Establish`/`Accept`, `Release`, `Close` | one side associated, the other not | both sides agree after every Ok |
| Client facade (`dlms-client/client.cpp`) | Disconnected, Connected, Associated | `Connect`, `OpenAssociation`, services, `ReleaseAssociation`, `Close` | a step fails after an earlier one has changed the layer below | its state matches the layers below, and it can always be closed |
| Security (`dlms-security`) | local and remote invocation counters, keys | `Protect`, `Unprotect`, HLS | a protected APDU that is not sent, or read twice | a counter is never used twice, a replay never accepted |
| Endpoint runtimes (`listener_runtime.cpp`, `gateway_endpoint.cpp`, `push_listener_endpoint.cpp`, factories) | listener, accepted channel, upstream | `Open`, `RunOnce`, `Close` | partial opens, one request per accepted connection | everything opened is closed |
| Interface classes (`dlms-cosem/simple_objects.cpp`) | attribute values and access modes of 64 classes | constructors, `ReadAttribute`, `WriteAttribute`, setters, `InvokeMethod` | four functions per class, written apart, each with its own ids and version checks; attributes that constrain each other | what is published is served, no path leaves an invalid value |
| Registry, access rights, logical device (`dlms-cosem`), adapter and dispatcher (`dlms-server`) | objects by key, association context | GET, SET, ACTION | access depends on an association that comes and goes; a status that is no result code | no access without a right, and the client is told the truth |
| Security Setup object, key, counter and certificate stores (`simple_objects.cpp`, `in_memory_*_store.cpp`, `certificate_store.cpp`) | policy, keys, counters, certificates | activate, key transfer, import, export, remove; protect, unprotect | a key list that fails half way, a counter that starts over, an import that meets another certificate | no nonce twice under a key, no replay, one certificate per owner |
| APDU codecs (`dlms-apdu`) | none | encode, decode | nested lengths | round trip |
| Transports (`dlms-transport`) | socket or port handle, `open_` of the listener | open, read, write, accept, close | `Close` in a second thread while the first is inside `Accept` | only connections of the listener's own socket are accepted |
| C APIs, status strings, traces | handles | wrappers | none | - |

`PROJECT.json` lists the hazards found in this code, each at its line, with the
properties that would catch it; a hazard that no property covers says why.


## 2. Modules

| Module | Stands for | Used by |
|---|---|---|
| `HdlcSession` | class `HdlcSession` as operators on a session record: status, session after the call, frame written | all HDLC modules |
| `HdlcStation` | one session against an arbitrary peer and an arbitrary owner | `MCHdlcSessions`, `HdlcStationProofs` |
| `HdlcLink` | two sessions over a wire that loses frames, SNRM and DISC retransmitted | `MCHdlcSessions`, `MCDelivery`, `HdlcLinkProofs` |
| `HdlcChannel` | two `HdlcProfileChannel` objects in session mode over a byte stream | `MCHdlcChannel`, `MCDelivery`, `HdlcChannelProofs` |
| `ApduFifo` | abstract: what one direction of a channel promises | `WrapperChannel` |
| `WrapperChannel` | one direction of a `WrapperTcpProfileChannel` with the stream decoder | `MCDelivery` |
| `Listener` | listener runtime, TCP profile listener, `TcpServerTransport`, a second thread that closes | `MCDelivery` |
| `XdlmsServer` | `XdlmsServerApduProcessor` and its dispatcher as operators on the block states | `XdlmsClient` |
| `XdlmsClient` | `XdlmsClient` as operators on a running call | `XdlmsService` |
| `XdlmsService` | a client and a server endpoint exchanging APDUs | `MCXdlmsService`, `MCDelivery`, `XdlmsServiceProofs` |
| `InvocationCounters` | `InMemoryInvocationCounterStore` as operators on a store | `Association`, `SecuritySetup` |
| `Association` | `DlmsClient` with `AssociationClient`, and `ServerEndpoint` with `AssociationServer`, over one connection after another | `MCAssociation`, `AssociationProofs` |
| `CosemClass` | the vocabulary of class tables | the six table modules |
| `CosemRegisters`, `CosemControl`, `CosemStorage`, `CosemNetwork`, `CosemPlc`, `CosemManagement`; `CosemLibrary` lists them | the 64 interface classes of `simple_objects.cpp` as tables | `MCCosem`, `CosemProofs` |
| `CosemObject` | one attribute of one object of any class, from the xDLMS adapter to the object and back | `MCCosem`, `CosemProofs` |
| `Schedule`, `SpecialDays`, `ActivityCalendar`, `SingleActionSchedule`, `RegisterMonitor` | the objects in which one attribute constrains another | `MCCosem`, `CosemProofs` |
| `SecuritySetup`, `CertificateStore` | the Security Setup object with the key, counter and certificate stores | `MCCosem`, `CosemProofs` |
| `HdlcSessionLemmas` | what each operator of `HdlcSession` does, for every session and frame | the three HDLC proof modules |
| `HdlcStationProofs`, `HdlcLinkProofs`, `HdlcChannelProofs`, `AssociationProofs`, `XdlmsServiceProofs`, `CosemProofs`, `NumberLemmas` | the theorems | - |

`MCHdlcSessions`, `MCHdlcChannel`, `MCDelivery` and `MCCosem` put several
instances side by side, of which a variable (`question`, `active`) chooses one per
behaviour.  The ones that are not chosen stay in their initial states.

**HdlcSession.** The record has the members of the class (`sendSequence` is
`sendSequence_`, and so on); an encoded frame is the record of its decoded
fields.  A U-frame's Information field is one of three cases the parser can
tell apart: empty, a negotiation block with parameters, or malformed.  Lengths
and windows keep the two and one bytes the encoder writes.  The Poll/Final bit
and User_Information are never read and are left out.

**HdlcStation.** Each action is one call of the class, successful or refused.
`sent` and `acked` are history: how many I-frames have been built and
acknowledged since the last reset, as numbers that do not wrap.

**HdlcLink.** `sessions` are the two sessions, `wire[r]` the frames on their way to
`r`; `conn`, `sentBy`, `ackedBy`, `rcvd` and `got` are history.  An I-frame
carries its connection and index, which the sessions do not read, so that a
property can ask what was really accepted.

**HdlcChannel.** A call is a sequence of steps that end at each read of the
stream, which is where the other end can run.  A read returns one or more whole
frames, nothing for now, bytes that do not decode, or an error of a broken
connection.  An LPDU is a sequence of chunks of which the first carries the LLC
header.  `Reopen` is `Close` and `Open` on the client's channel; a listener
gives the server a new channel object, as `endpoint_factories.cpp` does.
`RefuseConnection` is a server that answers an SNRM with a DM, as
`04_hdlc_session_requirements.md:171-172` has it do.  The profile channel of this
repository never writes a DM (nothing calls `BuildDmResponse`), so the refusal is
external; what the client makes of it is the code's.  `returned[r]` is the
sequence of all APDUs that `r`'s owner has been given, so that an order can be asked of
all of them and not only of the last.

**WrapperChannel, ApduFifo.** A WPDU is a header and one cell per unit of data;
each cell knows its WPDU and its place, of which the decoder reads only what it
reads in the code, version and length.  A read returns any number of cells, a
write may stop anywhere inside a WPDU, after which the owner of the sender does not
use it again (what happens otherwise is the `channel_reuse` run of the HDLC
channel), and a connection may end anywhere.  The frames
that lie complete between the two ends (`UnderWay`: decoded ones, then those in
the decoder's buffer and the stream) are the queue of `ApduFifo`, which says:
whole, in order, at most once, possibly lost.  `WrapperIsFifo` is that refinement.

**Listener.** `Accept` is cut where the second thread can come in between: at
`select`, at the second look at `open_`, and at `accept`.  A descriptor belongs to
the listening socket, to nobody, or, after `Close` and if `Recycle`, to a socket of
another part of the program.

**XdlmsServer, XdlmsClient, XdlmsService.** A value is a sequence of cells, each
marked with the call it belongs to.  The limits count cells.  SET and ACTION
have the same block logic, line for line, in two copies; the model has one
operator for both with the points in which they differ.  `RunOnce` is the part
of `ServerEndpoint::RunOnce` that concerns services: a request that
`ProcessRequest` refuses gets no response.  The handler behind the dispatcher
is arbitrary: it may answer, fail, return an access error or bytes that do not
encode.  `Reassociate` is the end of one association and the start of another on
the same endpoint: what was on the way is lost, the client is the same or a new
one whose invoke ids start over, and the processor keeps its block states.

**InvocationCounters, Association.** A call of the client that waits for an APDU is
two actions, what it sends and what it does with what it reads; the endpoint is
driven by an application that opens, runs and closes it at any time, one endpoint
for all connections or a new one for each.  `mode` is the configuration: the
authentication, ciphering, whether both ends have the same secret, whether the
client has a data link to release (which may fail), and whether the application
uses `AssociationClient` and `XdlmsClient` without the facade.  Challenges are
numbered, a tag or password check is a comparison of the challenge and of the
secret.  A service is one request and one response; blocks are in `XdlmsService`.
A connection delivers in order and loses nothing; a read may time out with its
APDU still on the way.  Invoke ids come round as those of `InvokeIdAllocator` do
(`NextInvokeId`; `InvokeIdCount` is 15 in the code), so a response left behind by a
call that timed out may carry the id of a later one.  While a third pass is due every
protected APDU is unprotected by `HandleHlsReply` and, if it is not the pass, once more by
`ProcessRequest`, which finds its counter used (`SeenCounters`, `Unprotected`).
`accepted`, `verified`, `served`, `returned`, `lastLocal`,
`rolledBack` and `replayed` are history.

**CosemClass and the class tables.** A class of `simple_objects.cpp` is four
functions written by hand: the constructor (which attributes exist at which
version, with which access mode, and what an argument must satisfy),
`ReadAttribute`, `WriteAttribute` and `InvokeMethod`, and its setters.  A table
module has one definition for each of them (`ClockReads`, `ClockWrites`, ...),
indexed by attribute or method id.  A value is the class of payload it belongs to:
empty, malformed, decodable but invalid, valid, or the default a constructor
puts in the place of an argument it does not take.  Nothing more of a value
decides what these functions do.

**CosemObject.** `HandleGet`, `HandleSet` and `HandleAction` are the whole path: adapter (which asks
for version 0 and turns a status into a result code or into no response),
dispatcher (association), registry (key, access rights), object.  The other path
is the logical device with a full descriptor.  `SetByApplication` asks for
no right.  `last` is history: what the last request was answered.

**The five objects with dependent attributes.** Each is the table or pair of tables
with the checks that every setter makes against the others; the parts of an entry
the object does not look at are one value.  A call that is refused changes
nothing.

**SecuritySetup, CertificateStore.** A transferred key is wrapped by some key; the
unwrapping finds out whether it is the stored one.  `global_key_transfer` is one
step: it decodes and unwraps the whole list before it installs anything, and runs
to its end before the next APDU is protected.  `sealed` and `opened` are history.
`FreshKeys` says whether a head-end always transfers a new unicast encryption key.

## 3. What the runs check

Passing runs:

| Run | Properties | What it shows |
|---|---|---|
| `sessions` | `TypeOK`, `WindowSafety`, `ConnectAnswerOnlyWhenDown`, `ServerWithinCapability`, `InOrderExactlyOnce`, `AcknowledgedWasAccepted`, `NegotiationAgreed`, `PeerCanReceive` | one session, either role, against every frame at every moment; two sessions through losses, a wrap of the sequence numbers, disconnects from both sides and a second connection |
| `channel` | `ApduIntegrity`, `ApdusInOrder`, `OutcomesAreTrue` | segmented APDUs both ways at once, some over the reassembly limit, a read that fails; retried requests, a broken connection, a reopened channel; connects that the server refuses |
| `delivery` | `RequestsComplete`, `ChannelSendCompletes`, `ServiceCallReturns`, `WrapperIsFifo`, `WrapperDelivers`, `EveryClientIsServed` | what must eventually happen in the link, the channel, the service, the wrapper channel and the listener; the wrapper channel implements `ApduFifo` |
| `service` | `OwnResult`, `OkMeansCarriedOut`, `IndicationIsOneRequest`, `AtMostOnce`, `RefusalEndsTransfer` | GET, SET and ACTION with late, lost and refused APDUs, meeting each other's late responses, an invoke id that comes back, and a transfer broken off by the end of its association that meets the next one |
| `association` | `AuthenticatedService`, `AssociatedMeansAuthenticated`, `OkMeansServed`, `NoFalseReplay` | no request is carried out for a client that has not authenticated on that connection, and the facade is right about being associated, through timeouts, retried passes, closed and reopened endpoints; a call that returns Ok was carried out, though invoke ids come back; no APDU in order is refused as a replay, with one exception |
| `cosem` | `RightsAreServed`, `StaysValid`, `AnswersAreTrue`, `OnlyAsGranted`; `ScheduleIndexIsKey`, `ScheduleSwitchedAsAsked`, `SpecialDaysKeys`, `CalendarResolves`, `ExecutionTimeFitsType`, `EveryThresholdHasActions`; `NonceIsFresh`, `NoReplayAccepted`, `OneCertificatePerOwner`, `ClientImportsAreApart` | every attribute of every class at every version, through both paths and from the application; the objects with dependent attributes; the stores behind a Security Setup object |

`ServiceCallReturns` is about confirmed calls none of which is abandoned: the
server answers an unconfirmed request, or the first request after an abandoned
transfer, with nothing.

Runs whose property, taken from the repository's own documents, TLC refutes:

| Run | Statement | What the code does |
|---|---|---|
| `channel_reuse` | `00_profile_requirements.md:49`: APDU bytes are identical after crossing a channel | after a `SendApdu` that failed between two segments, the next APDU is appended to the abandoned segments in the peer's reassembler |
| `channel_reconnect` | `dlms-hdlc/docs/04_hdlc_session_requirements.md:295`: call `BuildConnectRequest` again on timeout; `:299`: a session can be reset | a session whose connect got no answer refuses every later `BuildConnectRequest`, and `EnsureSession` keeps it even on a new transport connection |
| `counters` | `dlms-security/docs/01_security_api.md:164`: the local invocation counter only grows during the lifetime of a key | an endpoint that is opened again builds its HLS-GMAC strategy anew, whose counters start at the configured value; the client refuses the second association as a replay |
| `channel_refused` | `dlms-profile/docs/architecture.md:115`: a client's `ConnectDataLink` ends with a connected session | a DM in answer to the SNRM is taken with Ok (`hdlc_session.cpp:747`), which `ReceiveSessionControlFrameWithRetry` and `ConnectDataLink` return without a look at the state: the connect reports Ok and the session is Disconnected |
| `rotation` | `dlms-security/docs/01_security_api.md:202-211`: no reset of the counter without a new key | `ResetAfterKeyRotation` ignores the role of the key (`in_memory_invocation_counter_store.cpp:83`): a transfer of another key starts the counter over under the old encryption key |
| `recycled` | comment at `tcp_server_transport.cpp:402-404`: an `Accept` that wakes sees `open_ == false` and does not use a recycled descriptor | `Close` may come between the second look at `open_` and `accept` at `:443` |

Divergences that have no run:

* `dlms-server/docs/00_server_requirements.md:27-28` has every logical device expose its
  current Association object for read access, while the adapter asks for version 0
  of every class (`xdlms_server_adapter.cpp:25`) and the registry's key includes the
  version: an Association LN object of a later version answers object-undefined.
* `00_profile_requirements.md:55` has a send complete only when the peer has
  acknowledged it, while `SendApdu` returns Ok after its last write and waits for
  an acknowledgement only when the window is full.
* `docs/ic_support_matrix.md` lists methods of Schedule, Special Days Table and
  other classes as implemented; the constructors grant no method access, so no
  client can call them.
* A method or SET that an object answers with InvalidArgument or
  UnsupportedFeature gets no response (`AnswersAreTrue` shows that it has changed
  nothing).
* The user list of Association LN is served from version 3 on, where
  `00_cosem_requirements.md:142-151` says version 2 and later.
* The object list of an association is a snapshot taken at its construction.
* `delete` of a schedule takes ranges above 9999, which `enable_disable` cuts.
* The listener runtime serves one request per connection, so neither a block
  transfer nor the second pass of an HLS authentication completes through it.

`OutcomesAreTrue` holds with the code's answer to a DM written into it: a connect that
returns Ok has connected the session unless the frame it took was a DM, and then the
session is Disconnected.  `ConnectMeansConnected` is the statement without
that exception, which `channel_refused` refutes.  `NoFalseReplay` likewise names its
exception: an application that drives the association and the xDLMS client by
itself (`direct`) and sends a protected request in the place of the third pass has it
refused, because the server unprotects it twice.  The facade sends no request before
the pass, and there the property has no exception.

`ApduIntegrity` and `NonceIsFresh` have two runs each: with
`SendAfterFailure = FALSE` (an owner that does not use a channel again after a
failed send without reopening it) and `FreshKeys = TRUE` (a head-end that
transfers a new encryption key whenever it transfers keys) they hold, without they
do not.  `AcceptsOnlyItsOwn` likewise depends on `Recycle`.

### Bounds

Every bound is a constant named `Max...`, or a set in the configuration.

* `sessions`: ten I-frames between resets, more than the eight numbers; windows
  up to 3, a peer that proposes 0, 1, 2, 7 and 9, and lengths too short for a UA.
  The link: two connections, one loss, one retransmission of a request, two data
  frames queued per direction.  A lost frame blocks its direction for good, so
  a second loss adds little; it was explored once and changes nothing.
* `channel`: at most two APDUs of the client and one of the server, of two and
  four chunks with a reassembly limit of two in one instance, three chunks with
  a limit of four in the other; a window of two, one failing read, one retry and
  one reopening.  In a third instance an SNRM may be written twice and refused each
  time, with up to three failing reads and refusals, so that a late DM meets
  a connected session or the next call.
* `delivery`: two connections of the link; APDUs of one to four chunks; three
  calls of one and four blocks; three WPDUs of sizes 0, 1 and 3, of which the
  receiver accepts at most 2 units, read in pieces of up to four cells (two
  headers), over two connections, one break; three clients of the listener,
  one of them silent, and a `Close` at any time.
* `service`: two invoke ids instead of 15, so that they come back within three
  calls; at most one call gives up, so that fewer stale responses are about than
  there are ids (`StaleAssumption`: with as many as ids, the client cannot tell
  them apart and the code makes no attempt to).  Blocks of one cell and a limit
  of four cells, so that values of one, three and five cells are a normal
  request, a block transfer, and a transfer over the limit; clients that take up
  to five cells and up to two.  Associations follow each other between any two
  calls.  Confirmed and
  unconfirmed requests; none has selective access, which the server refuses with
  the same answer as an unconfirmed one.
* `association`: three connections, four calls of `OpenAssociation`, four service
  calls with three invoke ids, so that the first id is due again, two timeouts or
  data-link failures (`StaleAssumption`: fewer than ids), which is enough for a
  retried pass and a late response, then a new connection of the same endpoint.  Counters end
  at 5, so that they run out in the second association.
* `cosem`: all classes, versions, attributes and methods, one object at a time,
  since the objects share no state.  Tables of up to two rows with three indices,
  of which the third is above the cap of `enable_disable` (`IndexCap`, 9999 in the
  code), so that a range may end or start above it.  Two keys, counters that end
  at 2, transfers of up to two keys, three certificates.

No symmetry is used: the roles differ, and APDUs and calls are ordered.

### Fairness

All of it is weak fairness of the run `delivery`.  The systems that are not chosen
are in their initial states, in which no action named here is enabled.

* Link: frames arrive (`Deliver`), and an owner answers an SNRM or DISC
  that is pending, which is what `AcceptDataLink` and `AcceptDisconnectDataLink`
  do in the same call that received it.  No fairness on sending, disconnecting
  or retransmitting.
* Channel: a call in progress runs on (it is a loop without a branch that
  waits for anything but the stream), a read returns when a frame is there, and
  the server calls `ReceiveApdu` again and again, as the loop around
  `ServerEndpoint::RunOnce` does.
* Service: `RunOnce` again and again, and `ReceiveApdu` returns an APDU
  that has arrived.
* Wrapper: the receiver calls `ReceiveApdu` again and again.  No fairness on
  sending or reopening.
* Listener: the application calls `RunOnce` again and again, timeouts of `select`
  and of reads pass, and a `Close` that has begun runs on.  Nobody has to close.

Deadlock is not checked except in the `cosem` run: elsewhere the system may stop,
because the bounds are used up or nobody calls anything.

## 4. What is proved

For every value of the constants, under the assumptions that the modules name.

| Module | Theorem | States |
|---|---|---|
| `HdlcStationProofs` | `StationInvariant` | `IndInv` always |
| | `StationTypeCorrect`, `StationWindowSafety`, `StationFreshStart`, `StationConnectAnswer`, `StationWithinCapability` | `TypeOK`, `WindowSafety`, `FreshWhenNotConnected`, `ConnectAnswerOnlyWhenDown`, `ServerWithinCapability` always |
| `HdlcLinkProofs` | `LinkInvariant`, `LinkTypeTheorem` | `LinkInv` and `LinkTypeOK` always |
| | `InOrderTheorem`, `AcknowledgedTheorem` | `InOrderExactlyOnce`, `AcknowledgedWasAccepted` always |
| | `NegotiationTheorem`, `PeerCanReceiveTheorem` | `NegotiationAgreed` and `PeerCanReceive` always, if the client sends a negotiation block (`Negotiates`) |
| `HdlcChannelProofs` | `CallInvariant`, `ChannelTypeTheorem` | `CallInv` and `TypeOK` always |
| | `OutcomesTheorem` | every step is as `OutcomesAreTrue` says |
| `AssociationProofs` | `AssociationInvariant`, `AssociationTypeTheorem` | `IndInv` and `TypeOK` always |
| | `AuthenticatedServiceTheorem`, `AssociatedTheorem`, `OkMeansServedTheorem`, `NoFalseReplayTheorem` | `AuthenticatedService`, `AssociatedMeansAuthenticated`, `OkMeansServed`, `NoFalseReplay` always |
| `XdlmsServiceProofs` | `XdlmsInvariant` | `Inv` always |
| | `OwnResultTheorem`, `OkMeansCarriedOutTheorem`, `IndicationTheorem`, `AtMostOnceTheorem`, `RefusalEndsTransferTheorem` | `OwnResult`, `OkMeansCarriedOut`, `IndicationIsOneRequest`, `AtMostOnce`, `RefusalEndsTransfer` always |
| `CosemProofs` | `ObjectTypeTheorem`, `AnswersTheorem`, `GrantTheorem` | `ObjectTypeOK` always; every step is as `AnswersAreTrue` and `OnlyAsGranted` say |
| `CosemProofs` | `RightsTheorem`, `ValidityTheorem`, `LibraryTheorem` | `RightsAreServed` always and every step as `StaysValid` says, for every set of classes whose tables agree; those of the library do |
| | `ScheduleKeyTheorem`, `ScheduleSwitchTheorem`, `SpecialDaysTheorem`, `CalendarTheorem`, `ExecutionTheorem`, `RegisterMonitorTheorem` | the invariants of the five objects, for tables of every length |
| | `SecurityTypeTheorem`, `PolicyTheorem`, `NonceTheorem`, `ReplayTheorem` | types; no policy weakens; `NonceIsFresh`, `NoReplayAccepted` |
| | `CertificateTheorem`, `ClientImportTheorem` | `OneCertificatePerOwner`, `ClientImportsAreApart` |

**HdlcStation.** For every role, every configuration, every set of
peer parameters and every bound.  `WindowSafety` is not inductive: it speaks of a
difference modulo 8, and an acknowledgement moves V(A) by such a difference.
`IndInv` adds what
the residues stand for: V(S) and V(A) are `sent` and `acked` modulo 8
(`CountersAgree`), and `sent - acked` itself is within the window, which is at
most 7 (`WindowRespected`).  Then a residue difference is the true difference
(`DifferenceOfResidues`) and an N(R) that `AcknowledgeInWindow` accepts lies
between `acked` and `sent`.  A window may change only when a connection is
established, which resets both counters; that no connected session can be made
to answer an SNRM is `ConnectAnswerOnlyWhenDown`, and that no server waits for a
UA is in `RoleFixed`.  Each action is one of two kinds: it resets the sequence
variables (`ResetEstablishes`), or it leaves them alone (`QuietStep`), except
for `SendInformation` and `ReceiveNumbered`, which have proofs of their own.
`WindowAssumption` is needed: a client adopts whatever transmit window a UA
announces, and with more than 7 the modulo-8 difference never reaches the window.

**HdlcLink.** For all limits of both sides with transmit windows of at most 7, any number
of connections, I-frames, retransmissions, losses and frames on the wires; either side
may disconnect.  A number of three bits tells nothing by itself: a UA that is late
would open a connection with the counters of another, an old I-frame would fit
after a wrap.  `LinkInv` says why neither can be on a wire.
The two stations are in few states together (`Phases`): a connected
client faces a server that is connected in the same connection, or leaves it; and a
station owes an answer only while its peer waits for one (`Answers`).
`WireInv` says which frames can be on the way in such a joint state, and which of
them in front of which: a UA is on its way to a client only while the
client waits for just that one, there is at most one, and behind a UA that answers an
SNRM there is nothing of an earlier connection.  A retransmitted SNRM may reach a
server that is connected, which ignores it; retransmitted DISCs are answered
or ignored.  `Synchronised` relates the counters across the wires, `ackedBy[r]` <=
`rcvd[Peer(r)]` <= `sentBy[r]`, and `DataInv` says of every numbered frame that will
find its receiver connected (`Current`) that its N(R) acknowledges only
what was accepted, that its N(S) is that of its index, and that later frames carry
higher indices and acknowledge no less.
Since at most 7 frames are unacknowledged (`StationCounts`, as in `HdlcStation`), the
indices on a wire lie within 7 of what the receiver has accepted, so the one frame that
`ReceiveInformationFrame` takes is the next one (`Expected`).  Each call of a session
is first reduced to what it does to the variables the argument reads (the lemmas
named `Station`, the operators `Takes...`), then shown to keep `LinkInv`.
`NegotiationAgreed` and `PeerCanReceive` need `Negotiates`, that the limits of
the client are not the defaults: `BuildConnectRequest` sends no block otherwise, the
server keeps the limits it is configured with, and the two may differ.  The run
`sessions` has a client that negotiates.

**HdlcChannel.** For all limits, retry counts, reassembly limits, sizes and numbers of
APDUs and faults.  What arrives are the frames that the two channels write, in any state of
the session that reads them, and the DM of a server that refuses; frames that neither
end writes (FRMR, a malformed negotiation block) are `HdlcStation`'s.  `OutcomesAreTrue` is not a
fact about one step: a call that reports Ok began many reads earlier, and
frames of another call, refused ones, time-outs and writes that fail lie between.
`CallInv` adds what the call relies on meanwhile (`Requesting`): `ConnectDataLink` is
running only while the session awaits the connection, `DisconnectDataLink` only while it
awaits the disconnection, and each holds the frame that it would write again.  The
only frames that the session takes in these states are the answer and a DM, which is
why the DM is the one exception of a connect and none of a disconnect.  What one
frame does to a channel is `Takes`: session, reassembler and APDU queue change together
or not at all, and the session changes as `Accepts` in `HdlcSessionLemmas` says of any
session that receives any frame.

**Association.** For every set of configurations and any number of connections,
attempts and calls, every number of invoke ids, and any number of faults below it
(`StaleAssumption`, which only `OkMeansServed` needs).  None of the properties is inductive: what the server does
depends on its context, what the client believes on the APDUs it reads.  `IndInv`
adds both: the context of an open endpoint was earned on the endpoint's own
connection (`ContextIsEarned`; a closed endpoint may keep an old one, which
`NegotiateAssociation` clears or replaces before any request is read), and an AARE
or an answer to the third pass that is on its way to a client is there because the
server has accepted or verified it on that connection (`Trust`).  What is accepted
and verified only grows, so a step of the server keeps what the client knows
(`ServerStep`), and a step of the client adds nothing to it but what it has read
(`ClientStep`, `ClientReads`).  That a low password or no authentication admits
nobody who lacks the secret is from `NegotiateAssociation` and `AllModes`.
`OkMeansServed` needs the responses as well (`ResponseInv`): a response is on a
connection because the server has served its call there.  That the client takes no
other response for its own is `BacklogInv`.  The APDUs on the way on its connection
are no more than the reads that have failed, and one for the present call; the
age of an id (`Age`, the ids taken since) and the number of those ahead of it are
together within that number (`InLine`).  As it is below the number of ids, no other APDU
on the way has the id of the present call.
`NoFalseReplay` is about the order of counters (`ReplayInv`): on every connection
the counters of the APDUs that have one rise (`Rising`), those to the server below
the next one of the client; and within the first association what either side has
noted lies behind all that is on its way to it, and all that is on its way to the
client below the next counter of the server (`ServerNext`), which is that of the
HLS passes while the third pass is due and of the APDUs after it.  The gap of two
between the stores (`FirstServiceCounter`) is what carries this over the change
from one store to the other.  A request that comes in the place of the third pass
is unprotected twice; `PassInv` says that none does unless the application skips the
facade: what is on its way to a server as a request was sent after the server verified
that connection, and a server that still waits for the pass has not verified
its own.

**XdlmsService.** For every number of invoke ids, all sizes of blocks and values,
and any number of calls, faults and timeouts that leaves the ids distinguishable
(`StaleAssumption`; a client that gives up on more calls than there are ids in
flight may take an old answer for a new one).  None of the properties is inductive:
they speak of what has happened, and a wrong end can only be excluded by what is
still on the way.  `Inv` therefore says of every APDU on the way what its
arrival will do.
The age of an invoke id is the number of ids allocated since; the age of the i-th
APDU on the way and the number of those ahead of it are together at most the number
of timeouts (`AgesAreBounded`), so an id that is allocated again is on no APDU.
A request holds cells of its own call, requests are in the order of their calls,
what a request would execute has not been executed, and a later block of a SET or
ACTION meets the processor exactly as the earlier blocks have left it
(`RequestsAreRight`, `InTransfer`).  The request of the present call, if there is
one, is the last on the way (`OwnRequest`), its response the last one when there is
no request (`OwnResponse`), and that response brings the next cells, acknowledges
the block that was sent, or says Ok of a call that was accepted (`IsAnswer`).
On the server's side one lemma per service shows that `ProcessRequest` is `Sound`:
from such a request it makes such a response, and gives the handler the request of
one call or nothing.  On the client's side each response either is of an earlier
call and refused, or takes the call on.
`RefusalEndsTransfer` is shown by the cases in which a request is out of step
(`OutOfStep`): each of them leaves no block transfer of its service behind.

**CosemObject.** For every set of classes whose tables are well formed
(`ClassesAssumption`, which TLC evaluates on the 64 classes of the library).  The
proofs go along the path of a request: a refusal of the dispatcher, the registry
or the object leaves the value, and only an outcome of the object that changed it
is mapped to success.
`RightsAreServed` and `StaysValid` compare the functions of one class, so they
depend on its tables: `RightsTheorem` and `ValidityTheorem` show that nothing else
matters, as no request changes the class or the access of an object, and
`RightsAgree` and `ChecksAgree` say what the tables must have in common.
`LibraryTheorem` proves both of `AllClasses`, one class at a time.

**Tables.** The invariants of the schedule, the special days and the monitor are
inductive with the types of their tables.  A calendar needs more (`CalendarLegal`):
`CalendarResolves` says that a season leads to one valid day for every weekday,
and replacing one table keeps this only if the other two are legal by themselves.
`ExecutionTheorem` has the hypothesis that no time of day is both legal and not,
without which the constructor's fallback would be no legal time.

**Security.** `NonceIsFresh` says only that the next nonce is new.
`CountersBehind` adds that every counter used under the present key lies behind
the one that the store has reached; it holds because a counter starts over only
with a key that has sealed nothing (`FreshKeys`, a hypothesis of `NonceTheorem` and
`ReplayTheorem`, and the run `rotation` shows that it is necessary).  The keys a
list installs are found as the last entry of a role and the certificate a removal
finds as the first one that matches; `NumberLemmas` proves that a non-empty set of
natural numbers has a least element, and a bounded one a greatest, from the
well-foundedness of the natural numbers, in the place of an induction.

Only model-checked:

* all liveness, which is outside the prover's reach;
* `WrapperIsFifo`: the decoder's loop is a recursive function whose result cannot
  be had without induction over the data;
* `ApduIntegrity` and `ApdusInOrder` of two HDLC channels, whose
  steps drive the same two sessions but end at each read; what the sessions
  themselves accept is `InOrderTheorem`.

The type invariants describe the state.  For `HdlcStation`, `HdlcLink`, `HdlcChannel`, `Association`,
`CosemObject` and `SecuritySetup` they are theorems, and `Inv` of `XdlmsService`
has the types that its proof needs.

## 5. What is not modelled

* Cryptographic primitives (AES-GCM, key wrap, GMAC values): outside the reach of
  either tool.
* System calls of the transports, UDP, serial and mode E: what they return is
  given by the operating system.  The UDP channel keeps no state between calls.
* Byte encodings: frames, addresses, control fields and FCS of HDLC, the WPDU
  header, the APDU codecs, the payloads of attributes.  What they refuse appears as
  a request or payload that does not decode.
* The byte scanning of the HDLC stream decoder, and data that looks like a WPDU
  header to a decoder that has lost its place.
* The connectionless mode of the HDLC channel; ACTION responses in blocks, which
  the server of this repository never sends.
* Gateway and push endpoints and the UDP listener; an endpoint that does not
  negotiate an association.
* Registration in a logical device and the views of it (object list, SAP list),
  which are built once.
* The bodies of methods (capture of a profile, execution of a script, clock
  shifts): their result is any valid value.
* C API wrappers, status strings and traces.

## 6. What could come next

* An abstract association (at most one authenticated peer, requests served only
  for it) that `Association` is shown to implement.
* A proof of `ApduIntegrity` for the channel, whose sessions take the steps of
  `HdlcLink`.
* Gateway: everything that is opened is closed on every error path.
