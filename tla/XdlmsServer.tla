----------------------------- MODULE XdlmsServer -----------------------------
(***************************************************************************)
(* The xDLMS server of lib/dlms-xdlms (XdlmsServerApduProcessor with its   *)
(* dispatcher) as operators on its three block-transfer states.            *)
(*                                                                         *)
(* Data abstraction.  Attribute values and method parameters are sequences *)
(* of opaque cells, one per byte; limits count cells.  A descriptor is     *)
(* opaque; valid ones are those a client sends.  The handler behind the    *)
(* dispatcher is arbitrary: its reply is an input of a request.            *)
(***************************************************************************)
EXTENDS Integers, Sequences

Services == {"get", "set", "action"}

\* The block numbers of a transfer start here.
kFirstBlock == 1

\* ServiceOptions without the two bits that travel in each request.
ServiceOptions ==
  [allowBlockTransfer : BOOLEAN,
   maxBlockTransferBytes : Nat,
   maxBlockPayloadBytes : [Services -> Nat]]

(***************************************************************************)
(* APDUs.  Request choices are Normal, Selective (Normal with selective    *)
(* access), Next, First, Block and Other (the list forms); response        *)
(* choices Normal, Block, Ack (SET data block, ACTION next pblock), Last.  *)
(***************************************************************************)
Request(service, choice, invokeId, confirmed, descriptor, number, last, data) ==
  [service |-> service, choice |-> choice, invokeId |-> invokeId,
   confirmed |-> confirmed, descriptor |-> descriptor,
   blockNumber |-> number, lastBlock |-> last, data |-> data]

\* accessResult is 0 for success; for a GET another value is a data access error.
Response(service, choice, invokeId, number, last, accessResult, data) ==
  [service |-> service, choice |-> choice, invokeId |-> invokeId,
   blockNumber |-> number, lastBlock |-> last,
   accessResult |-> accessResult, data |-> data]

NoResponse == Response("none", "Normal", 0, 0, FALSE, 0, <<>>)

\* What the handler is asked to do.
Indication(service, descriptor, data) ==
  [service |-> service, descriptor |-> descriptor, data |-> data]

NoIndication == Indication("none", 0, <<>>)

\* GetResponseBlockState, SetRequestBlockState and ActionRequestBlockState.
BlockState(active, invokeId, descriptor, next, offset, data) ==
  [active |-> active, invokeId |-> invokeId, descriptor |-> descriptor,
   nextBlockNumber |-> next, offset |-> offset, data |-> data]

EmptyBlockState == BlockState(FALSE, 0, 0, kFirstBlock, 0, <<>>)

Processed(status, blocks, response, indication) ==
  [status |-> status, blocks |-> blocks, response |-> response, indication |-> indication]

\* A request that gets no response.
Refused(status, blocks) == Processed(status, blocks, NoResponse, NoIndication)

\* The handler's answer: dataDecodes says whether the bytes it returns are well
\* formed, parameterDecodes whether a parameter collected from blocks was.
Reply(status, parameterDecodes, dataDecodes, accessResult, data) ==
  [status |-> status, parameterDecodes |-> parameterDecodes,
   dataDecodes |-> dataDecodes, accessResult |-> accessResult, data |-> data]

-----------------------------------------------------------------------------
(***************************************************************************)
(* GET: the response is cut into blocks.                                   *)
(***************************************************************************)
SendNextGetResponseBlock(b, o, indication) ==
  LET payload == o.maxBlockPayloadBytes["get"]
      remaining == Len(b.data) - b.offset
      blockSize == IF remaining < payload THEN remaining ELSE payload
      lastBlock == b.offset + blockSize = Len(b.data)
      block == SubSeq(b.data, b.offset + 1, b.offset + blockSize)
  IN IF ~b.active \/ payload = 0 \/ b.offset >= Len(b.data)
     THEN Refused("InvalidArgument", EmptyBlockState)
     ELSE Processed("Ok",
            IF lastBlock THEN EmptyBlockState
            ELSE [b EXCEPT !.offset = @ + blockSize, !.nextBlockNumber = @ + 1],
            Response("get", "Block", b.invokeId, b.nextBlockNumber, lastBlock, 0, block),
            indication)

EncodeGetResponseOrStartBlocks(b, o, request, reply, indication) ==
  LET size == Len(reply.data)
      normal == Response("get", "Normal", request.invokeId, 0, TRUE,
                         reply.accessResult, IF reply.accessResult = 0 THEN reply.data ELSE <<>>)
      failed(status) == Processed(status, b, NoResponse, indication)
  IN IF reply.accessResult # 0 THEN Processed("Ok", b, normal, indication)
     ELSE IF size <= o.maxBlockPayloadBytes["get"]
     THEN IF reply.dataDecodes THEN Processed("Ok", b, normal, indication)
                               ELSE failed("EncodeFailed")
     ELSE IF size > o.maxBlockTransferBytes THEN failed("DecodeFailed")
     ELSE IF ~o.allowBlockTransfer THEN failed("BlockTransferRequired")
     ELSE IF o.maxBlockPayloadBytes["get"] = 0 THEN failed("InvalidArgument")
     ELSE SendNextGetResponseBlock(
            BlockState(TRUE, request.invokeId, request.descriptor, kFirstBlock, 0, reply.data),
            o, indication)

\* Mutant: the acknowledged block is compared with the next one.
ProcessGetNext_OffByOne(b, o, request) ==
  IF ~b.active \/ request.blockNumber # b.nextBlockNumber
  THEN Refused("DecodeFailed", EmptyBlockState)
  ELSE SendNextGetResponseBlock(b, o, NoIndication)

\* GET-REQUEST-NEXT.
ProcessGetNext(b, o, request) ==
  IF ~b.active THEN Refused("DecodeFailed", b)
  ELSE IF request.invokeId # b.invokeId THEN Refused("InvokeIdMismatch", EmptyBlockState)
  ELSE IF request.blockNumber # b.nextBlockNumber - 1 THEN Refused("DecodeFailed", EmptyBlockState)
  ELSE SendNextGetResponseBlock(b, o, NoIndication)

\* Mutant: a new GET is refused and the transfer is kept.
ProcessGetRequest_KeepsTransfer(b, o, request, reply) ==
  IF request.choice = "Next" THEN ProcessGetNext(b, o, request)
  ELSE IF b.active THEN Refused("DecodeFailed", b)
  ELSE IF reply.status # "Ok" \/ ~request.confirmed THEN Refused("UnsupportedFeature", b)
  ELSE EncodeGetResponseOrStartBlocks(b, o, request, reply,
         Indication("get", request.descriptor, <<>>))

\* A new GET while a transfer is active is refused, and ends that transfer.
ProcessGetRequest(b, o, request, reply) ==
  IF request.choice = "Next" THEN ProcessGetNext(b, o, request)
  ELSE IF request.choice \notin {"Normal", "Selective"} THEN Refused("UnsupportedFeature", b)
  ELSE IF b.active THEN Refused("DecodeFailed", EmptyBlockState)
  ELSE IF request.choice = "Selective" \/ ~request.confirmed THEN Refused("UnsupportedFeature", b)
  ELSE LET indication == Indication("get", request.descriptor, <<>>)
       IN IF reply.status # "Ok" THEN Processed(reply.status, b, NoResponse, indication)
          ELSE EncodeGetResponseOrStartBlocks(b, o, request, reply, indication)

-----------------------------------------------------------------------------
(***************************************************************************)
(* SET and ACTION: the request is collected from blocks.                   *)
(***************************************************************************)
\* DispatchSet or DispatchAction with what the handler answers, and the encoding
\* of the answer.  An ACTION parameter collected from blocks must first decode.
Dispatch(b, indication, collected, reply, response) ==
  IF collected /\ indication.service = "action" /\ ~reply.parameterDecodes
  THEN Refused("DecodeFailed", b)
  ELSE IF indication.service = "set" /\ indication.data = <<>>
  THEN Refused("InvalidArgument", b)
  ELSE IF reply.status # "Ok"
  THEN Processed(reply.status, b, NoResponse, indication)
  ELSE IF indication.service = "action" /\ reply.data # <<>> /\ ~reply.dataDecodes
  THEN Processed("EncodeFailed", b, NoResponse, indication)
  ELSE Processed("Ok", b, response, indication)

\* The final SET block has a response choice of its own; ACTION answers as usual.
FinalResponse(request, collected, reply) ==
  Response(request.service,
           IF collected /\ request.service = "set" THEN "Last" ELSE "Normal",
           request.invokeId, request.blockNumber, TRUE, reply.accessResult,
           IF request.service = "action" THEN reply.data ELSE <<>>)

BlockAck(request) ==
  Response(request.service, "Ack", request.invokeId, request.blockNumber, FALSE, 0, <<>>)

\* Mutant: a first block continues what was collected before.
ProcessFirstBlock_Continues(b, o, request, reply) ==
  Processed("Ok",
    BlockState(TRUE, request.invokeId, request.descriptor, 2, 0, b.data \o request.data),
    BlockAck(request), NoIndication)

\* WithFirstDataBlock, WithFirstPblock.
ProcessFirstBlock(b, o, request, reply) ==
  IF b.active THEN Refused("DecodeFailed", EmptyBlockState)
  ELSE IF request.blockNumber # kFirstBlock THEN Refused("DecodeFailed", b)
  ELSE IF ~request.confirmed THEN Refused("UnsupportedFeature", b)
  ELSE IF Len(request.data) > o.maxBlockTransferBytes THEN Refused("DecodeFailed", b)
  ELSE IF ~request.lastBlock
  THEN Processed("Ok",
         BlockState(TRUE, request.invokeId, request.descriptor, 2, 0, request.data),
         BlockAck(request), NoIndication)
  ELSE Dispatch(b, Indication(request.service, request.descriptor, request.data),
                TRUE, reply, FinalResponse(request, TRUE, reply))

\* WithDataBlock, WithPblock: the descriptor is that of the first block.
ProcessNextBlock(b, o, request, reply) ==
  LET data == b.data \o request.data
  IN IF ~b.active THEN Refused("DecodeFailed", b)
     ELSE IF request.invokeId # b.invokeId THEN Refused("InvokeIdMismatch", EmptyBlockState)
     ELSE IF request.blockNumber # b.nextBlockNumber \/ Len(data) > o.maxBlockTransferBytes
     THEN Refused("DecodeFailed", EmptyBlockState)
     ELSE IF ~request.lastBlock
     THEN Processed("Ok", [b EXCEPT !.data = data, !.nextBlockNumber = @ + 1],
                    BlockAck(request), NoIndication)
     ELSE Dispatch(EmptyBlockState, Indication(request.service, b.descriptor, data),
                   TRUE, reply, FinalResponse(request, TRUE, reply))

\* ProcessSetRequest and ProcessActionRequest.  A Normal request leaves a block
\* transfer alone.
ProcessBlockedRequest(b, o, request, reply) ==
  CASE request.choice = "First" -> ProcessFirstBlock(b, o, request, reply)
    [] request.choice = "Block" -> ProcessNextBlock(b, o, request, reply)
    [] request.choice = "Normal" /\ request.confirmed ->
         Dispatch(b, Indication(request.service, request.descriptor, request.data),
                  FALSE, reply, FinalResponse(request, FALSE, reply))
    [] OTHER -> Refused("UnsupportedFeature", b)

\* p is a function from services to block states.
ProcessRequest(p, o, request, reply) ==
  IF request.service = "get"
  THEN ProcessGetRequest(p["get"], o, request, reply)
  ELSE ProcessBlockedRequest(p[request.service], o, request, reply)

=============================================================================
