----------------------------- MODULE XdlmsClient -----------------------------
(***************************************************************************)
(* XdlmsClient of lib/dlms-xdlms as operators on one service call.  A call *)
(* is a chain of request and response APDUs: an operator takes the call    *)
(* and the response it was waiting for, and returns either the next        *)
(* request or the status with which the call returns.                      *)
(***************************************************************************)
EXTENDS XdlmsServer

CONSTANTS
  InvokeIdCount,   \* number of invoke ids, 15 in the code
  CopyBufferSize   \* the buffer of CopyEncodedData, 2048 in the code

ASSUME ClientAssumption == InvokeIdCount \in Nat \ {0} /\ CopyBufferSize \in Nat

\* InvokeIdAllocator::Next: the ids run from 1 and skip 0 when they wrap.
NextInvokeId(n) ==
  LET next == (n + 1) % (InvokeIdCount + 1) IN IF next = 0 THEN 1 ELSE next

\* The locals of Get, Set and Action: the next block to send starts at offset;
\* collected and expected are the BlockTransferManager.
ServiceCall(service, descriptor, invokeId, options, confirmed, blocked, data) ==
  [service |-> service, descriptor |-> descriptor, invokeId |-> invokeId,
   options |-> options, confirmed |-> confirmed, blocked |-> blocked, data |-> data,
   offset |-> 0, blockNumber |-> kFirstBlock,
   collected |-> <<>>, expected |-> kFirstBlock]

NoOptions ==
  [allowBlockTransfer |-> FALSE, maxBlockTransferBytes |-> 0,
   maxBlockPayloadBytes |-> [s \in Services |-> 0]]

NoCall == ServiceCall("none", 0, 0, NoOptions, FALSE, FALSE, <<>>)

\* A step of a call: it goes on with a request, or it returns.
Goes(call, request) ==
  [status |-> "Pending", call |-> call, request |-> request, data |-> <<>>]

Returns(status, data) ==
  [status |-> status, call |-> NoCall, request |-> Request("none", "Normal", 0, FALSE, 0, 0, FALSE, <<>>),
   data |-> data]

-----------------------------------------------------------------------------
(***************************************************************************)
(* The first request of a call, and the blocks of a SET or ACTION request. *)
(***************************************************************************)
UsesBlocks(o, service, data) ==
  service # "get" /\ Len(data) > o.maxBlockPayloadBytes[service]

\* The checks before an invoke id is allocated.
StartStatus(o, service, data) ==
  IF ~UsesBlocks(o, service, data) THEN "Ok"
  ELSE IF o.maxBlockPayloadBytes[service] = 0 THEN "InvalidArgument"
  ELSE IF ~o.allowBlockTransfer THEN "BlockTransferRequired"
  ELSE "Ok"

BlockSize(call) ==
  LET remaining == Len(call.data) - call.offset
      payload == call.options.maxBlockPayloadBytes[call.service]
  IN IF remaining < payload THEN remaining ELSE payload

FinalBlock(call) == call.offset + BlockSize(call) = Len(call.data)

\* MakeSetRequestBlock, MakeActionRequestBlock.
RequestBlock(call) ==
  Request(call.service, IF call.blockNumber = kFirstBlock THEN "First" ELSE "Block",
          call.invokeId, call.confirmed, call.descriptor, call.blockNumber,
          FinalBlock(call),
          SubSeq(call.data, call.offset + 1, call.offset + BlockSize(call)))

FirstRequest(call, selective) ==
  IF call.blocked THEN RequestBlock(call)
  ELSE Request(call.service, IF selective THEN "Selective" ELSE "Normal", call.invokeId,
               call.confirmed, call.descriptor, 0, TRUE, call.data)

-----------------------------------------------------------------------------
(***************************************************************************)
(* Responses.                                                              *)
(***************************************************************************)
ResultStatus(accessResult) == IF accessResult = 0 THEN "Ok" ELSE "ServiceRejected"

\* A result whose data CopyEncodedData copies through its buffer.
CopyResult(r) ==
  IF Len(r.data) > CopyBufferSize THEN Returns("DecodeFailed", <<>>)
  ELSE Returns(ResultStatus(r.accessResult), r.data)

\* One pass of the loop of Get: AppendBlock, then the result or GET-REQUEST-NEXT.
GetBlock(call, r) ==
  IF r.choice # "Block" THEN Returns("DecodeFailed", <<>>)
  ELSE IF r.invokeId # call.invokeId THEN Returns("InvokeIdMismatch", <<>>)
  ELSE IF r.blockNumber # call.expected
          \/ Len(call.collected) + Len(r.data) > call.options.maxBlockTransferBytes
    THEN Returns("DecodeFailed", <<>>)
  ELSE IF r.lastBlock THEN Returns("Ok", call.collected \o r.data)
  ELSE Goes([call EXCEPT !.blocked = TRUE, !.collected = @ \o r.data, !.expected = @ + 1],
            Request("get", "Next", call.invokeId, call.confirmed, call.descriptor,
                    r.blockNumber, TRUE, <<>>))

\* Mutant: the invoke id of a Normal response is not compared.
ReceiveGet_AnyInvokeId(call, r) ==
  IF call.blocked \/ r.choice = "Block" THEN GetBlock(call, r) ELSE CopyResult(r)

ReceiveGet(call, r) ==
  IF call.blocked THEN GetBlock(call, r)
  ELSE IF r.choice = "Block"
    THEN IF call.options.allowBlockTransfer THEN GetBlock(call, r)
         ELSE Returns("BlockTransferRequired", <<>>)
  ELSE IF r.invokeId # call.invokeId THEN Returns("InvokeIdMismatch", <<>>)
  ELSE CopyResult(r)

NextRequestBlock(call) ==
  LET next == [call EXCEPT !.offset = @ + BlockSize(call), !.blockNumber = @ + 1]
  IN Goes(next, RequestBlock(next))

\* ValidateSetBlockResponse.
SetBlock(call, r) ==
  IF r.invokeId # call.invokeId THEN Returns("InvokeIdMismatch", <<>>)
  ELSE IF r.blockNumber # call.blockNumber
          \/ r.choice # (IF FinalBlock(call) THEN "Last" ELSE "Ack")
    THEN Returns("DecodeFailed", <<>>)
  ELSE IF FinalBlock(call) THEN Returns(ResultStatus(r.accessResult), <<>>)
  ELSE NextRequestBlock(call)

\* Mutant: the invoke id of a Normal response is not compared.
ReceiveSet_AnyInvokeId(call, r) ==
  IF call.blocked THEN SetBlock(call, r)
  ELSE IF r.choice # "Normal" THEN Returns("BlockTransferRequired", <<>>)
  ELSE Returns(ResultStatus(r.accessResult), <<>>)

\* Mutant: the request is sent again after a response to another call.
ReceiveSet_SendsAgain(call, r) ==
  IF call.blocked THEN SetBlock(call, r)
  ELSE IF r.invokeId # call.invokeId THEN Goes(call, FirstRequest(call, FALSE))
  ELSE Returns(ResultStatus(r.accessResult), <<>>)

ReceiveSet(call, r) ==
  IF call.blocked THEN SetBlock(call, r)
  ELSE IF r.choice # "Normal" THEN Returns("BlockTransferRequired", <<>>)
  ELSE IF r.invokeId # call.invokeId THEN Returns("InvokeIdMismatch", <<>>)
  ELSE Returns(ResultStatus(r.accessResult), <<>>)

\* CopyFinalActionResponse, for servers that answer an ACTION in one APDU.
FinalAction(call, r) ==
  IF r.choice # "Normal" THEN Returns("UnsupportedFeature", <<>>)
  ELSE IF r.invokeId # call.invokeId THEN Returns("InvokeIdMismatch", <<>>)
  ELSE CopyResult(r)

\* ValidateActionNextPblockResponse while blocks are left to send.
ReceiveAction(call, r) ==
  IF ~call.blocked \/ FinalBlock(call) THEN FinalAction(call, r)
  ELSE IF r.invokeId # call.invokeId THEN Returns("InvokeIdMismatch", <<>>)
  ELSE IF r.choice # "Ack" \/ r.blockNumber # call.blockNumber
    THEN Returns("DecodeFailed", <<>>)
  ELSE NextRequestBlock(call)

\* SendAndReceive has delivered response r to the call.
ReceiveResponse(call, r) ==
  IF r.service # call.service THEN Returns("DecodeFailed", <<>>)
  ELSE CASE call.service = "get" -> ReceiveGet(call, r)
         [] call.service = "set" -> ReceiveSet(call, r)
         [] OTHER                -> ReceiveAction(call, r)

=============================================================================
