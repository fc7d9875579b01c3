----------------------------- MODULE MCXdlmsService -----------------------------
(***************************************************************************)
(* Small instances of XdlmsService.  Values are at most five cells long,   *)
(* blocks hold one cell, so a transfer has up to four blocks; five cells   *)
(* exceed the limit of a transfer.                                         *)
(***************************************************************************)
EXTENDS XdlmsService

OneCellBlocks == [s \in Services |-> 1]

UpToFourBlocks ==
  [allowBlockTransfer |-> TRUE, maxBlockTransferBytes |-> 4,
   maxBlockPayloadBytes |-> OneCellBlocks]

\* A client that would send and collect more than the server does.
AnyClient == {[UpToFourBlocks EXCEPT !.maxBlockTransferBytes = 5]}

\* Calls with fewer cells than the server has to give, which break off a transfer
\* in its middle.
AnyOrStrictClients == AnyClient \cup {[UpToFourBlocks EXCEPT !.maxBlockTransferBytes = 2]}

=============================================================================
