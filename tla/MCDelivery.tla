----------------------------- MODULE MCDelivery -----------------------------
(***************************************************************************)
(* What must arrive, on small instances.  Each behaviour is one of five    *)
(* systems:                                                                *)
(*   "link"     two HDLC sessions that connect, exchange I-frames, and     *)
(*              disconnect, twice (HdlcLink, constants in the cfg);        *)
(*   "channel"  two HDLC profile channels, requests of up to four chunks   *)
(*              with a window of two (HdlcChannel);                        *)
(*   "service"  GET, SET and ACTION calls of up to four blocks             *)
(*              (XdlmsService);                                            *)
(*   "wrapper"  one direction of a wrapper channel, whose connections break*)
(*              and are opened again (WrapperChannel, constants in the cfg)*)
(*   "listener" a listener runtime, its clients, and a thread that closes  *)
(*              it (Listener, constants in the cfg).                       *)
(* In the first three nothing is lost and nothing times out.               *)
(* The systems that are not chosen stay in their initial states, in which  *)
(* no action that fairness speaks of is enabled, so that the fairness of   *)
(* all of them can be conjoined.                                          *)
(***************************************************************************)
EXTENDS HdlcLink, WrapperChannel, Listener

NegotiatingLimits ==
  [r \in Roles |->
     IF r = "client"
     THEN [maxTransmit |-> 256, maxReceive |-> 128, windowTransmit |-> 3, windowReceive |-> 2]
     ELSE [maxTransmit |-> 512, maxReceive |-> 200, windowTransmit |-> 7, windowReceive |-> 2]]

\* A few I-frames in both directions of several connections.
FewSent == [r \in Roles |-> IF r = "client" THEN 2 ELSE 1]

OnlyClient == {"client"}

WindowOfTwo ==
  [r \in Roles |->
     [DefaultHdlcSessionNegotiationLimits EXCEPT !.windowTransmit = 2, !.windowReceive = 2]]

TwoRequests == [r \in Roles |-> IF r = "client" THEN 2 ELSE 0]

UpToFourBlocks ==
  [allowBlockTransfer |-> TRUE, maxBlockTransferBytes |-> 4,
   maxBlockPayloadBytes |-> [s \in {"get", "set", "action"} |-> 1]]

VARIABLES
  question,
  channel, chWire, chCall, outcome, apdus, returned, up, chFaults, opens,
  nextInvokeId, call, processor, requests, responses, calls, result,
  executed, accepted, indication, answered, timeouts, faults

channelVars == <<channel, chWire, chCall, outcome, apdus, returned, up, chFaults, opens>>

serviceVars ==
  <<nextInvokeId, call, processor, requests, responses, calls, result,
    executed, accepted, indication, answered, timeouts, faults>>

Channel == INSTANCE HdlcChannel WITH
  wire <- chWire, call <- chCall, faults <- chFaults,
  Limits <- WindowOfTwo, RetryCount <- 0, ReassemblyLimit <- 4, ChunkCounts <- 1..4,
  MaxApdus <- TwoRequests, MaxFaults <- 0, MaxOpens <- 0, SendAfterFailure <- FALSE

Service == INSTANCE XdlmsService WITH
  served <- answered,
  ClientOptions <- {[UpToFourBlocks EXCEPT !.maxBlockTransferBytes = 5]},
  ServerOptions <- UpToFourBlocks, InvokeIdCount <- 3, CopyBufferSize <- 3,
  Selective <- {FALSE}, Confirmed <- {TRUE}, HandlerFails <- FALSE,
  MaxTimeouts <- 0, MaxFaults <- 0, UsedServices <- {"get", "set", "action"},
  DataSizes <- {1, 4}, MaxCalls <- 3

McInit ==
  /\ question \in {"link", "channel", "service", "wrapper", "listener"}
  /\ LinkInit /\ Channel!Init /\ Service!Init /\ WrapperInit /\ ListenerInit

McNext ==
  \/ /\ question = "link" /\ LinkNext
     /\ UNCHANGED <<question, channelVars, serviceVars, wrapperVars, listenerVars>>
  \/ /\ question = "channel" /\ Channel!RequestNext
     /\ UNCHANGED <<question, linkVars, serviceVars, wrapperVars, listenerVars>>
  \/ /\ question = "service" /\ Service!Next
     /\ UNCHANGED <<question, linkVars, channelVars, wrapperVars, listenerVars>>
  \/ /\ question = "wrapper" /\ WrapperNext
     /\ UNCHANGED <<question, linkVars, channelVars, serviceVars, listenerVars>>
  \/ /\ question = "listener" /\ ListenerNext
     /\ UNCHANGED <<question, linkVars, channelVars, serviceVars, wrapperVars>>

McSpec ==
  /\ McInit
  /\ [][McNext]_<<question, linkVars, channelVars, serviceVars, wrapperVars, listenerVars>>
  /\ LinkFairness /\ Channel!Fairness /\ Service!Fairness /\ WrapperFairness
  /\ ListenerFairness

\* The listener alone.
ListenerSpec ==
  /\ McInit /\ question = "listener"
  /\ [][McNext]_<<question, linkVars, channelVars, serviceVars, wrapperVars, listenerVars>>

-----------------------------------------------------------------------------
\* Flow control never blocks a sender for good: a SendApdu call of the client
\* ends, and the server gets the APDU (see HdlcChannel).
ChannelSendCompletes == Channel!SendCompletes

\* Every confirmed call returns, through all its blocks (see XdlmsService).
ServiceCallReturns == Service!CallReturns

=============================================================================
