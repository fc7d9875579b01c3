---------------------------- MODULE MCHdlcChannel ----------------------------
(***************************************************************************)
(* Two profile channels on small instances.  Three questions are asked of  *)
(* them, one at a time:                                                    *)
(*   "duplex"  segmented APDUs both ways, some too large for the           *)
(*             reassembler, two I-frames under way to the server, and a    *)
(*             read that times out or does not decode, or a refusal;       *)
(*   "reopen"  a transport connection that breaks and is opened again,     *)
(*             with retransmitted SNRM and DISC and a window of two;       *)
(*   "refuse"  retransmitted SNRMs, each accepted or refused with a DM, so *)
(*             that a late DM or UA meets another call.                    *)
(* The constants of a configuration are those of "duplex".                 *)
(***************************************************************************)
EXTENDS HdlcChannel

DefaultLimits == [r \in Roles |-> DefaultHdlcSessionNegotiationLimits]

WindowOfTwo ==
  [r \in Roles |->
     [DefaultHdlcSessionNegotiationLimits EXCEPT !.windowTransmit = 2, !.windowReceive = 2]]

\* Two I-frames may be under way to the server and one to the client.
WindowOfTwoToServer ==
  [r \in Roles |->
     IF r = "client" THEN [DefaultHdlcSessionNegotiationLimits EXCEPT !.windowTransmit = 2]
     ELSE [DefaultHdlcSessionNegotiationLimits EXCEPT !.windowReceive = 2]]

OneAndTwo == {1, 2}
TwoAndFour == {2, 4}
JustOne == {1}

OneRequest == [r \in Roles |-> IF r = "client" THEN 1 ELSE 0]
TwoRequests == [r \in Roles |-> IF r = "client" THEN 2 ELSE 0]
TwoRequestsAndAResponse == [r \in Roles |-> IF r = "client" THEN 2 ELSE 1]

VARIABLE question

Broken == INSTANCE HdlcChannel WITH
  Limits <- WindowOfTwo, RetryCount <- 1, ReassemblyLimit <- 4, ChunkCounts <- {3},
  MaxApdus <- TwoRequests, MaxFaults <- 1, MaxOpens <- 1

Refused == INSTANCE HdlcChannel WITH
  Limits <- DefaultLimits, RetryCount <- 1, ReassemblyLimit <- 4, ChunkCounts <- {1},
  MaxApdus <- OneRequest, MaxFaults <- 3, MaxOpens <- 0

McInit ==
  \/ question = "duplex" /\ Init
  \/ question = "reopen" /\ Broken!Init
  \/ question = "refuse" /\ Refused!Init

McNext ==
  \/ question = "duplex" /\ Next /\ UNCHANGED question
  \/ question = "reopen" /\ Broken!Next /\ UNCHANGED question
  \/ question = "refuse" /\ Refused!Next /\ UNCHANGED question

McSpec == McInit /\ [][McNext]_<<question, vars>>

\* Only the first question, with the constants of the configuration.
DuplexSpec == question = "duplex" /\ Init /\ [][Next /\ UNCHANGED question]_<<question, vars>>

=============================================================================
