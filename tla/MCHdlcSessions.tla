---------------------------- MODULE MCHdlcSessions ----------------------------
(***************************************************************************)
(* HDLC sessions on small instances.  Two questions are asked of them, one *)
(* at a time:                                                              *)
(*   "station"  one session, client or server, with a window of three and  *)
(*              options above the defaults, against an arbitrary peer that *)
(*              proposes windows below, at and above that and information  *)
(*              fields that cannot carry a UA;                             *)
(*   "link"     two sessions on wires that lose frames, with enough frames *)
(*              for the three-bit numbers to wrap, two connections, and    *)
(*              options of which every one is limited by a different side. *)
(* The system that is not asked about stays in its initial state, in which *)
(* its invariants hold.                                                    *)
(***************************************************************************)
EXTENDS HdlcStation, HdlcLink

MCLimits ==
  [maxTransmit |-> 256, maxReceive |-> 0, windowTransmit |-> 3, windowReceive |-> 2]

MCPeerParams ==
  {DefaultSnrmParams,
   [maxInfoTx |-> 512, maxInfoRx |-> 20, windowTx |-> 2, windowRx |-> 9],
   [maxInfoTx |-> 0, maxInfoRx |-> 200, windowTx |-> 7, windowRx |-> 0]}

MCInfoSizes == {1, 150}

\* Both sides have options above the defaults, so that SNRM and UA carry
\* negotiation blocks.
NegotiatingLimits ==
  [r \in Roles |->
     IF r = "client"
     THEN [maxTransmit |-> 256, maxReceive |-> 128, windowTransmit |-> 3, windowReceive |-> 2]
     ELSE [maxTransmit |-> 512, maxReceive |-> 200, windowTransmit |-> 7, windowReceive |-> 2]]

\* Enough I-frames in one direction for the three-bit numbers to wrap.
WrapSent == [r \in Roles |-> IF r = "client" THEN 9 ELSE 1]

VARIABLE question

McInit ==
  /\ question \in {"station", "link"}
  /\ Init
  /\ question = "link" => session.role = "client"  \* idle, one copy of it
  /\ LinkInit

McNext ==
  \/ question = "station" /\ Next /\ UNCHANGED <<question, linkVars>>
  \/ question = "link" /\ LinkNext /\ UNCHANGED <<question, vars>>

McSpec == McInit /\ [][McNext]_<<question, vars, linkVars>>

=============================================================================
