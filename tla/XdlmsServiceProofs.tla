-------------------------- MODULE XdlmsServiceProofs --------------------------
(***************************************************************************)
(* The properties of XdlmsService for every number of invoke ids, every    *)
(* block size and every number of calls, timeouts and faults: results and  *)
(* indications belong to one call, Ok means carried out, and nothing is    *)
(* carried out twice.                                                      *)
(***************************************************************************)
EXTENDS XdlmsService, SequenceTheorems, TLAPS

-----------------------------------------------------------------------------
(***************************************************************************)
(* Types.                                                                  *)
(***************************************************************************)
Bytes == Seq(Nat \X Nat \X Nat)

Requests ==
  [service : Services, choice : {"Normal", "Selective", "Next", "First", "Block"},
   invokeId : InvokeIds, confirmed : BOOLEAN, descriptor : 1..MaxCalls,
   blockNumber : Nat, lastBlock : BOOLEAN, data : Bytes]

Responses ==
  [service : Services, choice : {"Normal", "Block", "Ack", "Last"}, invokeId : InvokeIds,
   blockNumber : Nat, lastBlock : BOOLEAN, accessResult : Nat, data : Bytes]

Blocks ==
  [active : BOOLEAN, invokeId : InvokeIds \cup {0}, descriptor : 0..MaxCalls,
   nextBlockNumber : Nat, offset : Nat, data : Bytes]

Calls ==
  [service : Services, descriptor : 1..MaxCalls, invokeId : InvokeIds,
   options : ServiceOptions, confirmed : BOOLEAN, blocked : BOOLEAN, data : Bytes,
   offset : Nat, blockNumber : Nat, collected : Bytes, expected : Nat]

Types ==
  /\ nextInvokeId \in InvokeIds
  /\ call \in Calls \cup {NoCall}
  /\ processor \in [Services -> Blocks]
  /\ requests \in Seq(Requests)
  /\ responses \in Seq(Responses)
  /\ calls \in 0..MaxCalls
  /\ executed \in [1..MaxCalls -> Nat]
  /\ timeouts \in 0..MaxTimeouts

-----------------------------------------------------------------------------
(***************************************************************************)
(* The invariant.                                                          *)
(***************************************************************************)
\* The first m cells of the size cells of call n.
Prefix(n, size, m) == [i \in 1..m |-> <<n, i, size>>]

\* Those of its cells that follow the first m, up to number e.
Cut(n, size, m, e) == SubSeq(Cells(n, size), m + 1, e)

\* How many invoke ids were allocated after this one.
Age(id) == IF id < nextInvokeId THEN nextInvokeId - id - 1
           ELSE nextInvokeId + InvokeIdCount - id - 1

\* An APDU that is on the way when its call has returned was left there by a
\* timeout, and the APDUs ahead of it by other ones.
Slack == IF call = NoCall THEN timeouts ELSE timeouts + 1

AgesAreBounded ==
  /\ \A i \in 1..Len(responses) : Age(responses[i].invokeId) + i <= Slack
  /\ \A i \in 1..Len(requests) :
       Age(requests[i].invokeId) + Len(responses) + i <= Slack

\* A call has the invoke id allocated last, and its data are its own.
CallIsRight ==
  call # NoCall =>
    /\ Age(call.invokeId) = 0
    /\ call.descriptor = calls
    /\ call.service = "get" => (~call.blocked => call.collected = <<>>)
    /\ call.service # "get" =>
         /\ call.data = Cells(call.descriptor, Len(call.data))
         /\ call.blocked =>
              /\ call.offset < Len(call.data)
              /\ call.options.maxBlockPayloadBytes[call.service] \in 1..(Len(call.data) - 1)
              /\ call.blockNumber >= 1
              /\ call.blockNumber = 1 => call.offset = 0

\* The state of the processor between two blocks of a SET or ACTION.
Collecting(service, id, n, size, number, m) ==
  processor[service] = BlockState(TRUE, id, n, number, 0, Prefix(n, size, m))

\* r is the block of a SET or ACTION, cells m + 1 to e of size, that the block
\* state b waits for.
InTransfer(r, b, size, m, e) ==
  /\ m <= e /\ e <= size
  /\ r.data = Cut(r.descriptor, size, m, e)
  /\ r.lastBlock => e = size
  /\ b = BlockState(TRUE, r.invokeId, r.descriptor, r.blockNumber, 0,
                    Prefix(r.descriptor, size, m))

\* The state of the processor between two blocks of a GET.
Sending(id, n, size, number, m) ==
  processor["get"] = BlockState(TRUE, id, n, number, m, Cells(n, size))

\* Requests that the handler may be given.
Executes(r) == r.choice = "Normal" \/ (r.choice \in {"First", "Block"} /\ r.lastBlock)

\* Whatever becomes of its call, a request holds cells of that call; a later
\* block finds the processor where the earlier ones left it.
RequestIsRight(r) ==
  /\ r.descriptor <= calls
  /\ r.service = "get" => r.choice \in {"Normal", "Selective", "Next"}
  /\ r.service # "get" => r.choice \in {"Normal", "First", "Block"}
  /\ r.choice = "First" => ~r.lastBlock
  /\ r.choice = "Normal" /\ r.service # "get" =>
       r.data = Cells(r.descriptor, Len(r.data))
  /\ r.choice = "Block" =>
       \E size, m, e \in Nat : InTransfer(r, processor[r.service], size, m, e)
  /\ Executes(r) => executed[r.descriptor] = 0

RequestsAreRight ==
  \A i \in 1..Len(requests) :
    /\ RequestIsRight(requests[i])
    /\ requests[i].choice \in {"Block", "Next"} => i = 1
    /\ \A j \in 1..(i - 1) : requests[j].descriptor < requests[i].descriptor

\* r is the request whose response the call waits for.
IsPresent(r) ==
  /\ r.service = call.service
  /\ r.descriptor = call.descriptor /\ r.invokeId = call.invokeId
  /\ call.service = "get" =>
       IF r.choice = "Next"
       THEN \E size \in DataSizes :
              /\ call.collected = Prefix(call.descriptor, size, Len(call.collected))
              /\ Sending(call.invokeId, call.descriptor, size, r.blockNumber + 1,
                         Len(call.collected))
       ELSE call.collected = <<>>
  /\ call.service # "get" =>
       IF call.blocked
       THEN /\ r = RequestBlock(call)
            /\ r.choice = "Block" =>
                 Collecting(call.service, call.invokeId, call.descriptor,
                            Len(call.data), call.blockNumber, call.offset)
       ELSE r.choice = "Normal"

OwnRequest ==
  call # NoCall =>
    \A i \in 1..Len(requests) :
      requests[i].invokeId = call.invokeId \/ requests[i].descriptor = call.descriptor =>
        i = Len(requests) /\ IsPresent(requests[i])

\* r brings the next of the size cells of a GET, and the processor is where the
\* next request will look for the cells after them.
BringsCells(r, size) ==
  \E m \in Nat :
    /\ call.collected \o r.data = Prefix(call.descriptor, size, m)
    /\ r.lastBlock => m = size
    /\ ~r.lastBlock => Sending(call.invokeId, call.descriptor, size, r.blockNumber + 1, m)

\* r answers that request.
IsAnswer(r) ==
  /\ r.service = call.service
  /\ call.service = "get" =>
       /\ r.choice \in {"Normal", "Block"}
       /\ r.choice = "Normal" /\ r.accessResult = 0 =>
            \E size \in DataSizes : r.data = Cells(call.descriptor, size)
       /\ r.choice = "Block" =>
            \E size \in DataSizes : BringsCells(r, size)
  /\ call.service # "get" =>
       /\ r.choice \in {"Normal", "Ack", "Last"}
       /\ r.choice = "Ack" =>
            /\ call.blocked /\ ~FinalBlock(call)
            /\ Collecting(call.service, call.invokeId, call.descriptor, Len(call.data),
                          call.blockNumber + 1, call.offset + BlockSize(call))
       /\ r.choice # "Ack" /\ r.accessResult = 0 =>
            /\ call.descriptor \in accepted
            /\ call.service = "action" =>
                 \E size \in DataSizes : r.data = Cells(call.descriptor, size)

OwnResponse ==
  call # NoCall =>
    \A i \in 1..Len(responses) :
      responses[i].invokeId = call.invokeId =>
        i = Len(responses) /\ requests = <<>> /\ IsAnswer(responses[i])

\* What has not been sent completely, or not at all, has not been carried out.
NotYetCarriedOut ==
  /\ \A n \in 1..MaxCalls : n > calls => executed[n] = 0
  /\ call # NoCall /\ call.service # "get" /\ call.blocked /\ ~FinalBlock(call) =>
       executed[call.descriptor] = 0

Inv ==
  /\ Types /\ AgesAreBounded /\ CallIsRight /\ RequestsAreRight /\ OwnRequest /\ OwnResponse
  /\ NotYetCarriedOut
  /\ OwnResult /\ OkMeansCarriedOut /\ IndicationIsOneRequest /\ AtMostOnce

-----------------------------------------------------------------------------
(***************************************************************************)
(* Cells and invoke ids.                                                   *)
(***************************************************************************)
LEMMA PrefixType ==
  ASSUME NEW n \in Nat, NEW size \in Nat, NEW m \in Nat
  PROVE  Prefix(n, size, m) \in Bytes /\ Len(Prefix(n, size, m)) = m
  BY DEF Prefix, Bytes

LEMMA CellsIsPrefix == \A n, size : Cells(n, size) = Prefix(n, size, size)
  BY DEF Cells, Prefix

LEMMA CellsType ==
  ASSUME NEW n \in Nat, NEW size \in Nat
  PROVE  Cells(n, size) \in Bytes /\ Len(Cells(n, size)) = size
  BY CellsIsPrefix, PrefixType

LEMMA NoCells == \A n, size : Prefix(n, size, 0) = <<>>
  BY DEF Prefix

LEMMA SubSeqType ==
  ASSUME NEW d \in Bytes, NEW m \in Nat, NEW e \in Nat, m <= e, e <= Len(d)
  PROVE  SubSeq(d, m + 1, e) \in Bytes /\ Len(SubSeq(d, m + 1, e)) = e - m
  BY DEF Bytes

\* The cut that follows a prefix makes it a longer one.
Grows(n, size, m, e) == Prefix(n, size, m) \o Cut(n, size, m, e) = Prefix(n, size, e)

LEMMA PrefixGrows ==
  ASSUME NEW n \in Nat, NEW size \in Nat, NEW m \in Nat, NEW e \in Nat, m <= e, e <= size
  PROVE  Grows(n, size, m, e)
  <1> DEFINE a == Prefix(n, size, m)
             b == SubSeq(Cells(n, size), m + 1, e)
             c == Prefix(n, size, e)
  <1>1. a \in Bytes /\ Len(a) = m /\ c \in Bytes /\ Len(c) = e
    BY PrefixType
  <1>2. b \in Bytes /\ Len(b) = e - m
    BY CellsType, SubSeqType
  <1>3. \A i \in 1..(e - m) : b[i] = <<n, m + i, size>>
    BY CellsType DEF Cells, Bytes
  <1>4. \A i \in 1..m : a[i] = <<n, i, size>>
    BY DEF Prefix
  <1>5. \A i \in 1..e : c[i] = <<n, i, size>>
    BY DEF Prefix
  <1> HIDE DEF a, b, c
  <1>6. /\ a \o b \in Bytes /\ Len(a \o b) = e
        /\ \A i \in 1..e : (a \o b)[i] = IF i <= m THEN a[i] ELSE b[i - m]
    <2>1. /\ a \o b \in Bytes /\ Len(a \o b) = Len(a) + Len(b)
          /\ \A i \in 1..Len(a) + Len(b) :
               (a \o b)[i] = IF i <= Len(a) THEN a[i] ELSE b[i - Len(a)]
      BY <1>1, <1>2, ConcatProperties DEF Bytes
    <2>2. Len(a) = m /\ Len(a) + Len(b) = e
      BY <1>1, <1>2
    <2> QED
      BY <2>1, <2>2
  <1>7. \A i \in 1..e : (a \o b)[i] = c[i]
    <2> SUFFICES ASSUME NEW i \in 1..e PROVE (a \o b)[i] = c[i]
      OBVIOUS
    <2>1. c[i] = <<n, i, size>>
      BY <1>5
    <2>2. CASE i <= m
      <3>1. i \in 1..m
        BY <2>2
      <3>2. (a \o b)[i] = a[i]
        BY <1>6, <2>2
      <3> QED
        BY <1>4, <2>1, <3>1, <3>2
    <2>3. CASE ~(i <= m)
      <3>1. i - m \in 1..(e - m) /\ m + (i - m) = i
        BY <2>3
      <3>2. (a \o b)[i] = b[i - m]
        BY <1>6, <2>3
      <3>3. b[i - m] = <<n, m + (i - m), size>>
        BY <1>3, <3>1
      <3> QED
        BY <2>1, <3>1, <3>2, <3>3
    <2> QED
      BY <2>2, <2>3
  <1>8. a \o b = c
    BY <1>1, <1>6, <1>7, SeqEqual DEF Bytes
  <1> QED
    BY <1>8 DEF a, b, c, Cut, Grows

LEMMA NextIsNext ==
  ASSUME NEW n \in InvokeIds
  PROVE  NextInvokeId(n) = IF n = InvokeIdCount THEN 1 ELSE n + 1
  BY ClientAssumption DEF NextInvokeId, InvokeIds

\* A new invoke id makes the others one older, unless it is one of them.
LEMMA AgesGrow ==
  ASSUME NEW id \in InvokeIds, nextInvokeId \in InvokeIds,
         nextInvokeId' = NextInvokeId(nextInvokeId)
  PROVE  /\ Age(id) \in Nat
         /\ id = nextInvokeId => Age(id) = InvokeIdCount - 1 /\ Age(id)' = 0
         /\ id # nextInvokeId => Age(id)' = Age(id) + 1
         /\ nextInvokeId' \in InvokeIds
  BY NextIsNext, ClientAssumption DEF Age, InvokeIds

LEMMA AgeType == ASSUME NEW id \in InvokeIds, nextInvokeId \in InvokeIds PROVE Age(id) \in Nat
  BY ClientAssumption DEF Age, InvokeIds

-----------------------------------------------------------------------------
(***************************************************************************)
(* What the processor does with a request.                                 *)
(***************************************************************************)
LEMMA ReplyFacts ==
  ASSUME NEW r \in Requests, NEW reply \in Replies(r)
  PROVE  /\ reply.status \in {"Ok", "HandlerFailed"}
         /\ reply.accessResult \in Nat /\ reply.data \in Bytes
         /\ reply.status = "Ok" /\ reply.accessResult = 0 =>
              \E size \in DataSizes : reply.data = Cells(r.descriptor, size)
  <1>1. r.descriptor \in Nat /\ DataSizes \subseteq Nat /\ 1 \in DataSizes
    BY ServiceAssumption DEF Requests
  <1>2. \A size \in DataSizes : Cells(r.descriptor, size) \in Bytes
    BY <1>1, CellsType
  <1>3. <<>> \in Bytes
    BY DEF Bytes
  <1>4. CASE reply \in {Reply("Ok", TRUE, TRUE, 0, Cells(r.descriptor, size)) : size \in DataSizes}
    <2>1. PICK size \in DataSizes : reply = Reply("Ok", TRUE, TRUE, 0, Cells(r.descriptor, size))
      BY <1>4
    <2>2. /\ reply.status = "Ok" /\ reply.accessResult = 0
          /\ reply.data = Cells(r.descriptor, size)
      BY <2>1 DEF Reply
    <2> QED
      BY <1>2, <2>2
  <1>5. CASE reply = Reply("Ok", TRUE, TRUE, 1, <<>>)
    BY <1>3, <1>5 DEF Reply
  <1>6. CASE reply = Reply("HandlerFailed", TRUE, TRUE, 0, <<>>)
    BY <1>3, <1>6 DEF Reply
  <1>7. CASE \/ reply = Reply("Ok", FALSE, TRUE, 0, Cells(r.descriptor, 1))
             \/ reply = Reply("Ok", TRUE, FALSE, 0, Cells(r.descriptor, 1))
    <2>1. /\ reply.status = "Ok" /\ reply.accessResult = 0
          /\ reply.data = Cells(r.descriptor, 1)
      BY <1>7 DEF Reply
    <2> QED
      BY <1>1, <1>2, <2>1
  <1> QED
    BY <1>4, <1>5, <1>6, <1>7 DEF Replies

LEMMA EmptyBlocks == EmptyBlockState \in Blocks /\ ~EmptyBlockState.active
  BY ServiceAssumption DEF EmptyBlockState, BlockState, Blocks, Bytes, kFirstBlock

LEMMA BlocksExcept ==
  ASSUME NEW b \in Blocks, b.active, NEW offset \in Nat, NEW number \in Nat
  PROVE  [b EXCEPT !.offset = offset, !.nextBlockNumber = number]
           = BlockState(TRUE, b.invokeId, b.descriptor, number, offset, b.data)
  <1> DEFINE new == [b EXCEPT !.offset = offset, !.nextBlockNumber = number]
  <1>1. /\ new.invokeId = b.invokeId /\ new.descriptor = b.descriptor /\ new.data = b.data
        /\ new.offset = offset /\ new.nextBlockNumber = number /\ new.active = TRUE
    BY DEF Blocks
  <1>2. new = [active |-> new.active, invokeId |-> new.invokeId, descriptor |-> new.descriptor,
               nextBlockNumber |-> new.nextBlockNumber, offset |-> new.offset,
               data |-> new.data]
    <2>1. new \in Blocks
      BY DEF Blocks
    <2> HIDE DEF new
    <2> QED
      BY <2>1 DEF Blocks
  <1> HIDE DEF new
  <1>3. new = BlockState(TRUE, b.invokeId, b.descriptor, number, offset, b.data)
    BY <1>1, <1>2 DEF BlockState
  <1> QED
    BY <1>3 DEF new

LEMMA RefusedFacts ==
  ASSUME NEW status, NEW b
  PROVE  /\ Refused(status, b).status = status /\ Refused(status, b).blocks = b
         /\ Refused(status, b).indication = NoIndication
  BY DEF Refused, Processed

\* A block of a GET: the cells up to e, and the state after it.
BlockSent(p, b, e) ==
  LET last == e = Len(b.data)
  IN /\ b.offset <= e /\ e <= Len(b.data)
     /\ p.response = Response("get", "Block", b.invokeId, b.nextBlockNumber, last, 0,
                              SubSeq(b.data, b.offset + 1, e))
     /\ last => p.blocks = EmptyBlockState
     /\ ~last => p.blocks = BlockState(TRUE, b.invokeId, b.descriptor,
                                       b.nextBlockNumber + 1, e, b.data)

LEMMA GetBlockSent ==
  ASSUME NEW b \in Blocks, b.active, NEW indicated, NEW p,
         p = SendNextGetResponseBlock(b, ServerOptions, indicated), p.status = "Ok"
  PROVE  p.indication = indicated /\ \E e \in Nat : BlockSent(p, b, e)
  <1> DEFINE payload == ServerOptions.maxBlockPayloadBytes["get"]
             remaining == Len(b.data) - b.offset
             k == IF remaining < payload THEN remaining ELSE payload
  <1>1. payload \in Nat /\ b.offset \in Nat /\ Len(b.data) \in Nat
    BY ServiceAssumption DEF ServiceOptions, Services, Blocks, Bytes
  <1>2. ~(~b.active \/ payload = 0 \/ b.offset >= Len(b.data))
    BY RefusedFacts DEF SendNextGetResponseBlock
  <1>3. k \in Nat /\ b.offset + k <= Len(b.data)
    BY <1>1, <1>2
  <1>4. p = Processed("Ok",
              IF b.offset + k = Len(b.data) THEN EmptyBlockState
              ELSE [b EXCEPT !.offset = @ + k, !.nextBlockNumber = @ + 1],
              Response("get", "Block", b.invokeId, b.nextBlockNumber,
                       b.offset + k = Len(b.data), 0,
                       SubSeq(b.data, b.offset + 1, b.offset + k)), indicated)
    BY <1>2 DEF SendNextGetResponseBlock
  <1> HIDE DEF k
  <1>5. [b EXCEPT !.offset = @ + k, !.nextBlockNumber = @ + 1]
          = BlockState(TRUE, b.invokeId, b.descriptor, b.nextBlockNumber + 1, b.offset + k, b.data)
    <2>1. b.offset + k \in Nat /\ b.nextBlockNumber + 1 \in Nat
      BY <1>3 DEF Blocks
    <2> QED
      BY <2>1, BlocksExcept
  <1>6. /\ p.response = Response("get", "Block", b.invokeId, b.nextBlockNumber,
                                b.offset + k = Len(b.data), 0,
                                SubSeq(b.data, b.offset + 1, b.offset + k))
        /\ p.indication = indicated
        /\ p.blocks = IF b.offset + k = Len(b.data) THEN EmptyBlockState
                      ELSE [b EXCEPT !.offset = @ + k, !.nextBlockNumber = @ + 1]
    BY <1>4 DEF Processed
  <1>7. PICK e \in Nat : e = b.offset + k
    BY <1>1, <1>3
  <1>8. b.offset <= e /\ e <= Len(b.data)
    BY <1>1, <1>3, <1>7
  <1>9. BlockSent(p, b, e)
    BY <1>5, <1>6, <1>7, <1>8 DEF BlockSent
  <1> QED
    BY <1>6, <1>9

\* What holds of every request that is processed.
Sound(p, r) ==
  /\ p.blocks \in Blocks
  /\ p.status = "Ok" =>
       /\ p.response \in Responses
       /\ p.response.invokeId = r.invokeId /\ p.response.service = r.service
  /\ p.indication # NoIndication =>
       /\ Executes(r)
       /\ p.indication.descriptor = r.descriptor
       /\ p.indication.service \in {"set", "action"} =>
            p.indication.data = Cells(r.descriptor, Len(p.indication.data))

LEMMA RefusedOutcome ==
  ASSUME NEW r, NEW b \in Blocks, NEW status, status # "Ok"
  PROVE  Sound(Refused(status, b), r)
  BY RefusedFacts DEF Sound

LEMMA SendNextOutcome ==
  ASSUME NEW r \in Requests, r.service = "get", NEW b \in Blocks, b.active,
         b.invokeId = r.invokeId, NEW indicated,
         indicated # NoIndication =>
           Executes(r) /\ indicated = Indication("get", r.descriptor, <<>>)
  PROVE  Sound(SendNextGetResponseBlock(b, ServerOptions, indicated), r)
  <1> DEFINE p == SendNextGetResponseBlock(b, ServerOptions, indicated)
  <1>1. CASE p.status = "Ok"
    <2>0. p = SendNextGetResponseBlock(b, ServerOptions, indicated)
      OBVIOUS
    <2> HIDE DEF p
    <2>1. PICK e \in Nat : BlockSent(p, b, e) /\ p.indication = indicated
      BY <1>1, <2>0, GetBlockSent
    <2> DEFINE block == SubSeq(b.data, b.offset + 1, e)
               last == e = Len(b.data)
    <2>2. block \in Bytes
      BY <2>1, SubSeqType DEF Blocks, BlockSent
    <2>3. b.nextBlockNumber + 1 \in Nat
      BY DEF Blocks
    <2>4. p.blocks \in Blocks
      <3>1. BlockState(TRUE, b.invokeId, b.descriptor, b.nextBlockNumber + 1, e, b.data) \in Blocks
        BY <2>3 DEF BlockState, Blocks
      <3> QED
        BY <2>1, <3>1, EmptyBlocks DEF BlockSent
    <2>5. /\ p.response \in Responses
          /\ p.response.invokeId = r.invokeId /\ p.response.service = r.service
      <3>1. p.response = Response("get", "Block", b.invokeId, b.nextBlockNumber, last, 0, block)
            /\ last \in BOOLEAN
        BY <2>1 DEF BlockSent
      <3> HIDE DEF block, last
      <3> QED
        BY <2>2, <3>1 DEF Response, Responses, Blocks, Requests, Services
    <2>6. p.indication # NoIndication =>
            /\ Executes(r) /\ p.indication.descriptor = r.descriptor
            /\ p.indication.service = "get"
      BY <2>1 DEF Indication
    <2>7. Sound(p, r)
      BY <2>4, <2>5, <2>6 DEF Sound
    <2> QED
      BY <2>7 DEF p
  <1>2. CASE p.status # "Ok"
    <2>1. p = Refused("InvalidArgument", EmptyBlockState)
      BY <1>2 DEF SendNextGetResponseBlock, Processed
    <2> QED
      BY <2>1, RefusedOutcome, EmptyBlocks
  <1> QED
    BY <1>1, <1>2

\* A GET that starts: refused, not answered, answered at once, or by the first of
\* its blocks.
GetRefused(p, b) ==
  \E status : \E c \in {b, EmptyBlockState} : status # "Ok" /\ p = Refused(status, c)

GetFails(p, b, r) ==
  \E status : /\ status # "Ok"
              /\ p = Processed(status, b, NoResponse, Indication("get", r.descriptor, <<>>))

GetAnswered(p, b, r) ==
  \E accessResult \in Nat, data \in Bytes :
    /\ p = Processed("Ok", b,
                     Response("get", "Normal", r.invokeId, 0, TRUE, accessResult, data),
                     Indication("get", r.descriptor, <<>>))
    /\ accessResult = 0 => \E size \in DataSizes : data = Cells(r.descriptor, size)

GetInBlocks(p, r) ==
  \E size \in DataSizes :
    p = SendNextGetResponseBlock(
          BlockState(TRUE, r.invokeId, r.descriptor, kFirstBlock, 0, Cells(r.descriptor, size)),
          ServerOptions, Indication("get", r.descriptor, <<>>))

LEMMA GetStarts ==
  ASSUME NEW r \in Requests, r.service = "get", r.choice \in {"Normal", "Selective"},
         NEW reply \in Replies(r), NEW b \in Blocks, NEW p,
         p = ProcessGetRequest(b, ServerOptions, r, reply)
  PROVE  \/ GetRefused(p, b)
         \/ r.choice = "Normal" /\ (GetFails(p, b, r) \/ GetAnswered(p, b, r) \/ GetInBlocks(p, r))
  <1> DEFINE indicated == Indication("get", r.descriptor, <<>>)
  <1>1. /\ reply.status \in {"Ok", "HandlerFailed"}
        /\ reply.accessResult \in Nat /\ reply.data \in Bytes
        /\ reply.status = "Ok" /\ reply.accessResult = 0 =>
             \E size \in DataSizes : reply.data = Cells(r.descriptor, size)
    BY ReplyFacts
  <1>2. CASE b.active
    <2>1. p = Refused("DecodeFailed", EmptyBlockState)
      BY <1>2 DEF ProcessGetRequest
    <2> QED
      BY <2>1 DEF GetRefused
  <1>3. CASE ~b.active /\ (r.choice = "Selective" \/ ~r.confirmed)
    <2>1. p = Refused("UnsupportedFeature", b)
      BY <1>3 DEF ProcessGetRequest
    <2> QED
      BY <2>1 DEF GetRefused
  <1>4. CASE ~b.active /\ r.choice = "Normal" /\ r.confirmed /\ reply.status # "Ok"
    <2>1. p = Processed(reply.status, b, NoResponse, indicated)
      BY <1>4 DEF ProcessGetRequest
    <2> QED
      BY <1>4, <2>1 DEF GetFails
  <1>5. CASE ~b.active /\ r.choice = "Normal" /\ r.confirmed /\ reply.status = "Ok"
    <2>1. p = EncodeGetResponseOrStartBlocks(b, ServerOptions, r, reply, indicated)
      BY <1>5 DEF ProcessGetRequest
    <2>2. CASE reply.accessResult # 0
      <3>1. p = Processed("Ok", b, Response("get", "Normal", r.invokeId, 0, TRUE,
                                            reply.accessResult, <<>>), indicated)
        BY <2>1, <2>2 DEF EncodeGetResponseOrStartBlocks
      <3>2. <<>> \in Bytes
        BY DEF Bytes
      <3> QED
        BY <1>1, <1>5, <2>2, <3>1, <3>2 DEF GetAnswered
    <2>3. CASE reply.accessResult = 0
      <3>0. PICK size \in DataSizes : reply.data = Cells(r.descriptor, size)
        BY <1>1, <1>5, <2>3
      <3>1. \/ p = Processed("Ok", b, Response("get", "Normal", r.invokeId, 0, TRUE,
                                               reply.accessResult, reply.data), indicated)
            \/ \E status : status # "Ok" /\ p = Processed(status, b, NoResponse, indicated)
            \/ p = SendNextGetResponseBlock(
                     BlockState(TRUE, r.invokeId, r.descriptor, kFirstBlock, 0, reply.data),
                     ServerOptions, indicated)
        BY <2>1, <2>3 DEF EncodeGetResponseOrStartBlocks
      <3> QED
        BY <1>1, <1>5, <3>0, <3>1 DEF GetFails, GetAnswered, GetInBlocks
    <2> QED
      BY <2>2, <2>3
  <1> QED
    BY <1>2, <1>3, <1>4, <1>5

LEMMA FirstBlockState ==
  ASSUME NEW r \in Requests, NEW data \in Bytes, NEW number \in Nat, NEW b,
         b = BlockState(TRUE, r.invokeId, r.descriptor, number, 0, data)
  PROVE  /\ b \in Blocks /\ b.active /\ b.invokeId = r.invokeId
         /\ b.descriptor = r.descriptor /\ b.nextBlockNumber = number
         /\ b.offset = 0 /\ b.data = data
  BY ServiceAssumption DEF Requests, BlockState, Blocks

LEMMA GetOutcome ==
  ASSUME NEW r \in Requests, r.service = "get", r.choice \in {"Normal", "Selective", "Next"},
         NEW reply \in Replies(r), NEW b \in Blocks
  PROVE  Sound(ProcessGetRequest(b, ServerOptions, r, reply), r)
  <1> DEFINE p == ProcessGetRequest(b, ServerOptions, r, reply)
             indicated == Indication("get", r.descriptor, <<>>)
  <1>0. /\ indicated.service = "get" /\ indicated.descriptor = r.descriptor
        /\ r.choice = "Normal" => Executes(r)
    BY DEF Indication, Executes
  <1>1. CASE r.choice = "Next"
    <2>1. p = ProcessGetNext(b, ServerOptions, r)
      BY <1>1 DEF ProcessGetRequest
    <2>2. \/ p = Refused("DecodeFailed", b)
          \/ p = Refused("InvokeIdMismatch", EmptyBlockState)
          \/ p = Refused("DecodeFailed", EmptyBlockState)
          \/ /\ b.active /\ r.invokeId = b.invokeId
             /\ p = SendNextGetResponseBlock(b, ServerOptions, NoIndication)
      BY <2>1 DEF ProcessGetNext
    <2> HIDE DEF p
    <2>3. Sound(p, r)
      BY <2>2, SendNextOutcome, RefusedOutcome, EmptyBlocks
    <2> QED
      BY <2>3 DEF p
  <1>2. CASE r.choice \in {"Normal", "Selective"}
    <2> SUFFICES Sound(p, r)
      OBVIOUS
    <2>0. p = ProcessGetRequest(b, ServerOptions, r, reply)
      OBVIOUS
    <2> HIDE DEF p, indicated
    <2>1. CASE GetRefused(p, b)
      BY <2>1, RefusedOutcome, EmptyBlocks DEF GetRefused
    <2>2. CASE r.choice = "Normal" /\ GetFails(p, b, r)
      <3>1. PICK status : status # "Ok" /\ p = Processed(status, b, NoResponse, indicated)
        BY <2>2 DEF GetFails, indicated
      <3>2. p.status = status /\ p.blocks = b /\ p.indication = indicated
        BY <3>1 DEF Processed
      <3> QED
        BY <1>0, <2>2, <3>1, <3>2 DEF Sound
    <2>3. CASE r.choice = "Normal" /\ GetAnswered(p, b, r)
      <3>1. PICK accessResult \in Nat, data \in Bytes :
                 p = Processed("Ok", b, Response("get", "Normal", r.invokeId, 0, TRUE,
                                                 accessResult, data), indicated)
        BY <2>3 DEF GetAnswered, indicated
      <3> DEFINE response == Response("get", "Normal", r.invokeId, 0, TRUE, accessResult, data)
      <3>2. response \in Responses /\ response.invokeId = r.invokeId /\ response.service = "get"
        BY DEF Response, Responses, Requests, Services
      <3>3. /\ p.status = "Ok" /\ p.blocks = b /\ p.response = response
            /\ p.indication = indicated
        BY <3>1 DEF Processed
      <3> HIDE DEF response
      <3> QED
        BY <1>0, <2>3, <3>2, <3>3 DEF Sound
    <2>4. CASE r.choice = "Normal" /\ GetInBlocks(p, r)
      <3>1. PICK size \in DataSizes :
                 p = SendNextGetResponseBlock(
                       BlockState(TRUE, r.invokeId, r.descriptor, kFirstBlock, 0,
                                  Cells(r.descriptor, size)), ServerOptions, indicated)
        BY <2>4 DEF GetInBlocks, indicated
      <3>2. Cells(r.descriptor, size) \in Bytes /\ kFirstBlock \in Nat
        BY CellsType, ServiceAssumption DEF Requests, kFirstBlock
      <3> DEFINE start == BlockState(TRUE, r.invokeId, r.descriptor, kFirstBlock, 0,
                                     Cells(r.descriptor, size))
      <3>4. p = SendNextGetResponseBlock(start, ServerOptions, indicated)
        BY <3>1
      <3>3. start \in Blocks /\ start.active /\ start.invokeId = r.invokeId
        BY <3>2, ServiceAssumption DEF BlockState, Blocks, Requests
      <3> HIDE DEF start
      <3> QED
        BY <1>0, <2>4, <3>3, <3>4, SendNextOutcome DEF indicated
    <2> QED
      BY <1>2, <2>0, <2>1, <2>2, <2>3, <2>4, GetStarts
  <1> QED
    BY <1>1, <1>2

\* A SET or ACTION that the handler was given, and the response to it.
CarriedOut(p, r, reply) ==
  /\ p.response.choice \in {"Normal", "Last"}
  /\ p.response.accessResult = reply.accessResult /\ reply.status = "Ok"
  /\ r.service = "action" => p.response.data = reply.data
  /\ p.indication # NoIndication /\ p.indication.descriptor = r.descriptor

LEMMA DispatchOutcome ==
  ASSUME NEW r \in Requests, r.service \in {"set", "action"}, NEW reply \in Replies(r),
         NEW b \in Blocks, NEW data \in Bytes, data = Cells(r.descriptor, Len(data)),
         Executes(r), NEW collected \in BOOLEAN, NEW p,
         p = Dispatch(b, Indication(r.service, r.descriptor, data), collected, reply,
                      FinalResponse(r, collected, reply))
  PROVE  Sound(p, r) /\ p.blocks = b /\ (p.status = "Ok" => CarriedOut(p, r, reply))
  <1> DEFINE indicated == Indication(r.service, r.descriptor, data)
             response == FinalResponse(r, collected, reply)
  <1>1. reply.accessResult \in Nat /\ reply.data \in Bytes
    BY ReplyFacts
  <1>2. /\ indicated.service = r.service /\ indicated.descriptor = r.descriptor
        /\ indicated.data = data /\ indicated # NoIndication
    BY DEF Indication, NoIndication
  <1>3. /\ response \in Responses /\ response.invokeId = r.invokeId
        /\ response.service = r.service /\ response.accessResult = reply.accessResult
        /\ response.choice \in {"Normal", "Last"}
        /\ r.service = "action" => response.data = reply.data
    <2>1. PICK choice \in {"Normal", "Last"}, result1 \in Bytes :
            /\ response = Response(r.service, choice, r.invokeId, r.blockNumber, TRUE,
                                   reply.accessResult, result1)
            /\ r.service = "action" => result1 = reply.data
      <3>1. <<>> \in Bytes
        BY DEF Bytes
      <3> QED
        BY <1>1, <3>1 DEF FinalResponse
    <2> HIDE DEF response
    <2> QED
      BY <1>1, <2>1 DEF Response, Responses, Requests
  <1>4. \/ \E status : status # "Ok" /\ p = Refused(status, b)
        \/ \E status : status # "Ok" /\ p = Processed(status, b, NoResponse, indicated)
        \/ p = Processed("Ok", b, response, indicated) /\ reply.status = "Ok"
    BY DEF Dispatch
  <1> HIDE DEF indicated, response
  <1>5. CASE \E status : status # "Ok" /\ p = Refused(status, b)
    BY <1>5, RefusedOutcome, RefusedFacts
  <1>6. CASE \E status : status # "Ok" /\ p = Processed(status, b, NoResponse, indicated)
    <2>1. p.status # "Ok" /\ p.blocks = b /\ p.indication = indicated
      BY <1>6 DEF Processed
    <2> QED
      BY <1>2, <2>1 DEF Sound
  <1>7. CASE p = Processed("Ok", b, response, indicated) /\ reply.status = "Ok"
    <2>1. p.blocks = b /\ p.indication = indicated /\ p.response = response
      BY <1>7 DEF Processed
    <2>2. Sound(p, r)
      BY <1>2, <1>3, <2>1 DEF Sound
    <2>3. CarriedOut(p, r, reply)
      BY <1>2, <1>3, <1>7, <2>1 DEF CarriedOut
    <2> QED
      BY <2>1, <2>2, <2>3
  <1> QED
    BY <1>4, <1>5, <1>6, <1>7

\* A block that is acknowledged, and what has been collected with it.
Acknowledged(p, r, b) ==
  /\ r.choice \in {"First", "Block"} /\ ~r.lastBlock
  /\ p.response.choice = "Ack" /\ p.indication = NoIndication
  /\ p.blocks = BlockState(TRUE, r.invokeId, r.descriptor, r.blockNumber + 1, 0,
                           IF r.choice = "First" THEN r.data ELSE b.data \o r.data)

LEMMA AckFacts ==
  ASSUME NEW r \in Requests
  PROVE  /\ BlockAck(r) \in Responses /\ BlockAck(r).choice = "Ack"
         /\ BlockAck(r).invokeId = r.invokeId /\ BlockAck(r).service = r.service
  <1>1. <<>> \in Bytes
    BY DEF Bytes
  <1> QED
    BY <1>1 DEF BlockAck, Response, Responses, Requests

LEMMA FirstBlockOutcome ==
  ASSUME NEW r \in Requests, r.choice = "First", ~r.lastBlock, NEW reply, NEW b \in Blocks,
         NEW p, p = ProcessFirstBlock(b, ServerOptions, r, reply)
  PROVE  Sound(p, r) /\ (p.status = "Ok" => Acknowledged(p, r, b))
  <1>1. \/ \E status : \E c \in {b, EmptyBlockState} : status # "Ok" /\ p = Refused(status, c)
        \/ /\ p = Processed("Ok", BlockState(TRUE, r.invokeId, r.descriptor, 2, 0, r.data),
                            BlockAck(r), NoIndication)
           /\ r.blockNumber = 1
    BY DEF ProcessFirstBlock, kFirstBlock
  <1>2. CASE \E status : \E c \in {b, EmptyBlockState} : status # "Ok" /\ p = Refused(status, c)
    BY <1>2, RefusedOutcome, RefusedFacts, EmptyBlocks
  <1>3. CASE /\ p = Processed("Ok", BlockState(TRUE, r.invokeId, r.descriptor, 2, 0, r.data),
                              BlockAck(r), NoIndication)
             /\ r.blockNumber = 1
    <2>1. /\ p.blocks = BlockState(TRUE, r.invokeId, r.descriptor, 2, 0, r.data)
          /\ p.response = BlockAck(r) /\ p.indication = NoIndication
      BY <1>3 DEF Processed
    <2>2. BlockState(TRUE, r.invokeId, r.descriptor, 2, 0, r.data) \in Blocks
      BY ServiceAssumption DEF BlockState, Blocks, Requests
    <2>3. Sound(p, r)
      BY <2>1, <2>2, AckFacts DEF Sound
    <2>4. Acknowledged(p, r, b)
      <3>1. r.blockNumber + 1 = 2
        BY <1>3
      <3>2. p.blocks = BlockState(TRUE, r.invokeId, r.descriptor, r.blockNumber + 1, 0,
                                  IF r.choice = "First" THEN r.data ELSE b.data \o r.data)
        BY <2>1, <3>1 DEF BlockState
      <3> QED
        BY <2>1, <3>2, AckFacts DEF Acknowledged
    <2> QED
      BY <2>3, <2>4
  <1> QED
    BY <1>1, <1>2, <1>3

LEMMA TransferGrows ==
  ASSUME NEW r \in Requests, NEW b, NEW size \in Nat, NEW m \in Nat, NEW e \in Nat,
         InTransfer(r, b, size, m, e)
  PROVE  /\ b.data \o r.data = Prefix(r.descriptor, size, e)
         /\ b.data \o r.data \in Bytes /\ Len(b.data \o r.data) = e
         /\ r.lastBlock => b.data \o r.data = Cells(r.descriptor, e)
  <1> DEFINE n == r.descriptor
  <1>1. n \in Nat
    BY DEF Requests
  <1>2. r.data = Cut(n, size, m, e) /\ b.data = Prefix(n, size, m)
    BY DEF InTransfer, BlockState
  <1>3. m <= e /\ e <= size /\ (r.lastBlock => e = size)
    BY DEF InTransfer
  <1> HIDE DEF n
  <1>4. Grows(n, size, m, e)
    BY <1>1, <1>3, PrefixGrows
  <1>5. b.data \o r.data = Prefix(n, size, e)
    BY <1>2, <1>4 DEF Grows
  <1>6. Prefix(n, size, e) \in Bytes /\ Len(Prefix(n, size, e)) = e
    BY <1>1, PrefixType
  <1>7. r.lastBlock => Prefix(n, size, e) = Cells(n, e)
    BY <1>3, CellsIsPrefix
  <1> QED
    BY <1>5, <1>6, <1>7 DEF n

LEMMA TransferContinues ==
  ASSUME NEW r \in Requests, NEW b \in Blocks, NEW size \in Nat, NEW m \in Nat, NEW e \in Nat,
         InTransfer(r, b, size, m, e), NEW data \in Bytes, NEW c,
         c = [b EXCEPT !.data = data, !.nextBlockNumber = @ + 1]
  PROVE  /\ c \in Blocks
         /\ c = BlockState(TRUE, r.invokeId, r.descriptor, r.blockNumber + 1, 0, data)
  <1>1. /\ b.active /\ b.invokeId = r.invokeId /\ b.descriptor = r.descriptor
        /\ b.nextBlockNumber = r.blockNumber /\ b.offset = 0
    BY DEF InTransfer, BlockState
  <1>2. r.blockNumber + 1 \in Nat
    BY DEF Requests
  <1>3. /\ c \in Blocks
        /\ c.active = TRUE /\ c.invokeId = r.invokeId /\ c.descriptor = r.descriptor
        /\ c.nextBlockNumber = r.blockNumber + 1 /\ c.offset = 0 /\ c.data = data
    BY <1>1, <1>2 DEF Blocks
  <1>4. c = [active |-> c.active, invokeId |-> c.invokeId, descriptor |-> c.descriptor,
             nextBlockNumber |-> c.nextBlockNumber, offset |-> c.offset, data |-> c.data]
    BY <1>3 DEF Blocks
  <1> QED
    BY <1>3, <1>4 DEF BlockState

LEMMA NextBlockOutcome ==
  ASSUME NEW r \in Requests, r.service \in {"set", "action"}, r.choice = "Block",
         NEW reply \in Replies(r), NEW b \in Blocks,
         NEW size \in Nat, NEW m \in Nat, NEW e \in Nat, InTransfer(r, b, size, m, e),
         NEW p, p = ProcessNextBlock(b, ServerOptions, r, reply)
  PROVE  Sound(p, r) /\ (p.status = "Ok" => Acknowledged(p, r, b) \/ CarriedOut(p, r, reply))
  <1> DEFINE data == b.data \o r.data
             c == [b EXCEPT !.data = data, !.nextBlockNumber = @ + 1]
  <1>1. /\ data \in Bytes /\ Len(data) = e
        /\ r.lastBlock => data = Cells(r.descriptor, Len(data))
    BY TransferGrows
  <1>2. \/ \E status : status # "Ok" /\ p = Refused(status, EmptyBlockState)
        \/ ~r.lastBlock /\ p = Processed("Ok", c, BlockAck(r), NoIndication)
        \/ /\ r.lastBlock
           /\ p = Dispatch(EmptyBlockState, Indication(r.service, r.descriptor, data),
                           TRUE, reply, FinalResponse(r, TRUE, reply))
    <2>1. /\ b.active /\ b.invokeId = r.invokeId /\ b.descriptor = r.descriptor
          /\ b.nextBlockNumber = r.blockNumber
      BY DEF InTransfer, BlockState
    <2> QED
      BY <2>1 DEF ProcessNextBlock
  <1>3. /\ c \in Blocks
        /\ c = BlockState(TRUE, r.invokeId, r.descriptor, r.blockNumber + 1, 0, b.data \o r.data)
    <2>1. PICK d \in Bytes : d = data
      BY <1>1
    <2>2. PICK state : state = [b EXCEPT !.data = d, !.nextBlockNumber = @ + 1]
      OBVIOUS
    <2>3. /\ state \in Blocks
          /\ state = BlockState(TRUE, r.invokeId, r.descriptor, r.blockNumber + 1, 0, d)
      BY <2>2, TransferContinues
    <2> QED
      BY <2>1, <2>2, <2>3, Zenon
  <1> HIDE DEF data, c
  <1>5. CASE \E status : status # "Ok" /\ p = Refused(status, EmptyBlockState)
    BY <1>5, RefusedOutcome, RefusedFacts, EmptyBlocks
  <1>6. CASE ~r.lastBlock /\ p = Processed("Ok", c, BlockAck(r), NoIndication)
    <2>2. /\ p.status = "Ok" /\ p.blocks = c
          /\ p.response = BlockAck(r) /\ p.indication = NoIndication
      BY <1>6 DEF Processed
    <2>3. Sound(p, r)
      BY <1>3, <2>2, AckFacts DEF Sound
    <2>4. Acknowledged(p, r, b)
      BY <1>3, <1>6, <2>2, AckFacts DEF Acknowledged
    <2> QED
      BY <2>3, <2>4
  <1>7. CASE /\ r.lastBlock
             /\ p = Dispatch(EmptyBlockState, Indication(r.service, r.descriptor, data),
                             TRUE, reply, FinalResponse(r, TRUE, reply))
    <2> DEFINE collected == TRUE
    <2>1. data = Cells(r.descriptor, Len(data)) /\ Executes(r)
      BY <1>1, <1>7 DEF Executes
    <2>2. /\ collected \in BOOLEAN
          /\ p = Dispatch(EmptyBlockState, Indication(r.service, r.descriptor, data),
                          collected, reply, FinalResponse(r, collected, reply))
      BY <1>7
    <2> HIDE DEF collected
    <2> QED
      BY <1>1, <2>1, <2>2, DispatchOutcome, EmptyBlocks
  <1> QED
    BY <1>2, <1>5, <1>6, <1>7

LEMMA BlockedOutcome ==
  ASSUME processor \in [Services -> Blocks], NEW r \in Requests,
         r.service \in {"set", "action"}, RequestIsRight(r), NEW reply \in Replies(r),
         NEW p, p = ProcessBlockedRequest(processor[r.service], ServerOptions, r, reply)
  PROVE  /\ Sound(p, r)
         /\ p.status = "Ok" => \/ Acknowledged(p, r, processor[r.service])
                               \/ CarriedOut(p, r, reply)
  <1> DEFINE b == processor[r.service]
  <1>1. b \in Blocks /\ r.choice \in {"First", "Block", "Normal"}
    BY DEF Services, RequestIsRight
  <1>2. CASE r.choice = "First"
    <2>1. p = ProcessFirstBlock(b, ServerOptions, r, reply) /\ ~r.lastBlock
      BY <1>2 DEF ProcessBlockedRequest, RequestIsRight
    <2> QED
      BY <1>1, <1>2, <2>1, FirstBlockOutcome
  <1>3. CASE r.choice = "Block"
    <2>1. p = ProcessNextBlock(b, ServerOptions, r, reply)
      BY <1>3 DEF ProcessBlockedRequest
    <2>2. PICK size \in Nat, m \in Nat, e \in Nat : InTransfer(r, b, size, m, e)
      BY <1>3 DEF RequestIsRight
    <2> HIDE DEF b
    <2>6. Sound(p, r) /\ (p.status = "Ok" => Acknowledged(p, r, b) \/ CarriedOut(p, r, reply))
      BY <1>1, <1>3, <2>1, <2>2, NextBlockOutcome
    <2> QED
      BY <2>6 DEF b
  <1>4. CASE r.choice = "Normal" /\ r.confirmed
    <2> DEFINE collected == FALSE
    <2>1. p = Dispatch(b, Indication(r.service, r.descriptor, r.data),
                       collected, reply, FinalResponse(r, collected, reply))
      BY <1>4 DEF ProcessBlockedRequest
    <2>2. /\ r.data = Cells(r.descriptor, Len(r.data)) /\ Executes(r) /\ r.data \in Bytes
          /\ collected \in BOOLEAN
      BY <1>4 DEF RequestIsRight, Executes, Requests
    <2> HIDE DEF collected
    <2> QED
      BY <1>1, <2>1, <2>2, DispatchOutcome
  <1>5. CASE r.choice = "Normal" /\ ~r.confirmed
    <2>1. p = Refused("UnsupportedFeature", b)
      BY <1>5 DEF ProcessBlockedRequest
    <2> QED
      BY <1>1, <2>1, RefusedOutcome, RefusedFacts
  <1> QED
    BY <1>1, <1>2, <1>3, <1>4, <1>5

-----------------------------------------------------------------------------
(***************************************************************************)
(* The processor's response answers the request the call is waiting for.   *)
(***************************************************************************)
LEMMA BlockBringsCells ==
  ASSUME NEW size \in Nat, NEW b, b.descriptor \in Nat, b.offset \in Nat,
         b.nextBlockNumber \in Nat, b.data = Cells(b.descriptor, size),
         NEW p, NEW e \in Nat, BlockSent(p, b, e),
         call'.collected = Prefix(b.descriptor, size, b.offset),
         call'.descriptor = b.descriptor, call'.invokeId = b.invokeId,
         processor'["get"] = p.blocks
  PROVE  p.response.choice = "Block" /\ p.response.service = "get"
         /\ BringsCells(p.response, size)'
  <1>0. PICK id : b.invokeId = id /\ call'.invokeId = id
    OBVIOUS
  <1>1. PICK n \in Nat, m \in Nat, number \in Nat :
          /\ b.descriptor = n /\ b.offset = m /\ b.nextBlockNumber = number /\ b.invokeId = id
          /\ b.data = Cells(n, size) /\ call'.collected = Prefix(n, size, m)
          /\ call'.descriptor = n /\ call'.invokeId = id
    BY <1>0
  <1>2. Len(b.data) = size
    BY CellsType
  <1>3. m <= e /\ e <= size
    BY <1>1, <1>2 DEF BlockSent
  <1> DEFINE last == e = size
  <1>4. p.response = Response("get", "Block", id, number, last, 0, Cut(n, size, m, e))
    BY <1>1, <1>2 DEF BlockSent, Cut
  <1>5. /\ p.response.choice = "Block" /\ p.response.service = "get"
        /\ p.response.blockNumber = number /\ p.response.lastBlock = last
        /\ p.response.data = Cut(n, size, m, e)
    BY <1>4 DEF Response
  <1>6. Grows(n, size, m, e)
    BY <1>3, PrefixGrows
  <1>7. call'.collected \o p.response.data = Prefix(n, size, e)
    BY <1>1, <1>5, <1>6 DEF Grows
  <1>8. ~last => processor'["get"] = BlockState(TRUE, id, n, number + 1, e, Cells(n, size))
    BY <1>1, <1>2 DEF BlockSent
  <1> QED
    BY <1>1, <1>5, <1>7, <1>8 DEF BringsCells, Sending

LEMMA GetAnswers ==
  ASSUME NEW r \in Requests, r.service = "get", RequestIsRight(r), IsPresent(r),
         processor \in [Services -> Blocks], call \in Calls, call' = call,
         NEW reply \in Replies(r), NEW p,
         p = ProcessGetRequest(processor["get"], ServerOptions, r, reply),
         p.status = "Ok", processor'["get"] = p.blocks
  PROVE  IsAnswer(p.response)'
  <1> DEFINE b == processor["get"]
             n == call.descriptor
             id == call.invokeId
  <1>1. /\ b \in Blocks /\ n \in Nat /\ DataSizes \subseteq Nat
        /\ call.service = "get" /\ call.collected \in Bytes
        /\ r.descriptor = n /\ r.invokeId = id /\ r.blockNumber \in Nat
        /\ r.choice \in {"Normal", "Selective", "Next"}
    BY ServiceAssumption DEF Services, Calls, Requests, IsPresent, RequestIsRight
  <1>2. ASSUME NEW size \in DataSizes, BringsCells(p.response, size)',
               p.response.choice = "Block", p.response.service = "get"
        PROVE  IsAnswer(p.response)'
    BY <1>1, <1>2 DEF IsAnswer
  <1>3. CASE r.choice = "Next"
    <2>1. PICK size \in DataSizes :
            /\ call.collected = Prefix(n, size, Len(call.collected))
            /\ b = BlockState(TRUE, id, n, r.blockNumber + 1, Len(call.collected), Cells(n, size))
      BY <1>1, <1>3 DEF IsPresent, Sending
    <2>2. PICK m \in Nat : m = Len(call.collected)
      BY <1>1 DEF Bytes
    <2>3. /\ b.active /\ b.data = Cells(n, size) /\ b.offset = m /\ b.invokeId = id
          /\ b.descriptor = n /\ b.nextBlockNumber = r.blockNumber + 1
      BY <2>1, <2>2 DEF BlockState
    <2>4. p = SendNextGetResponseBlock(b, ServerOptions, NoIndication)
      BY <1>1, <1>3, <2>3 DEF ProcessGetRequest, ProcessGetNext
    <2>5. PICK number \in Nat : number = r.blockNumber + 1
      BY <1>1
    <2>6. call.collected = Prefix(n, size, m)
      BY <2>1, <2>2
    <2>7. /\ b.data = Cells(n, size) /\ b.offset = m /\ b.invokeId = id /\ b.descriptor = n
           /\ b.nextBlockNumber = number
      BY <2>3, <2>5
    <2> HIDE DEF b, n, id
    <2>8. PICK e \in Nat : BlockSent(p, b, e)
      BY <1>1, <2>3, <2>4, GetBlockSent
    <2>9. call'.collected = Prefix(n, size, m) /\ call'.descriptor = n /\ call'.invokeId = id
      BY <2>6 DEF n, id
    <2>10. size \in Nat
      BY <1>1
    <2>11. /\ p.response.choice = "Block" /\ p.response.service = "get"
           /\ BringsCells(p.response, size)'
      <3>1. processor'["get"] = p.blocks
        OBVIOUS
      <3>2. n \in Nat
        BY <1>1
      <3> QED
        BY <2>7, <2>8, <2>9, <2>10, <3>1, <3>2, BlockBringsCells
    <2> QED
      BY <1>2, <2>11
  <1>4. CASE r.choice \in {"Normal", "Selective"}
    <2>1. call.collected = <<>>
      BY <1>1, <1>4 DEF IsPresent
    <2>2. ~GetRefused(p, b) /\ ~GetFails(p, b, r)
      <3>1. ~GetRefused(p, b)
        BY RefusedFacts DEF GetRefused
      <3>2. ASSUME GetFails(p, b, r) PROVE FALSE
        <4>1. PICK status : status # "Ok" /\ p = Processed(status, b, NoResponse,
                                                          Indication("get", r.descriptor, <<>>))
          BY <3>2 DEF GetFails
        <4>2. p.status = status
          BY <4>1 DEF Processed
        <4> QED
          BY <4>1, <4>2
      <3> QED
        BY <3>1, <3>2
    <2>3. GetAnswered(p, b, r) \/ GetInBlocks(p, r)
      BY <1>1, <1>4, <2>2, GetStarts
    <2>4. CASE GetAnswered(p, b, r)
      <3>1. PICK accessResult \in Nat, data \in Bytes :
              /\ p = Processed("Ok", b, Response("get", "Normal", id, 0, TRUE, accessResult, data),
                               Indication("get", n, <<>>))
              /\ accessResult = 0 => \E size \in DataSizes : data = Cells(n, size)
        BY <1>1, <2>4 DEF GetAnswered
      <3>2. /\ p.response.service = "get" /\ p.response.choice = "Normal"
            /\ p.response.accessResult = accessResult /\ p.response.data = data
        BY <3>1 DEF Processed, Response
      <3> QED
        BY <1>1, <3>1, <3>2 DEF IsAnswer
    <2>5. CASE GetInBlocks(p, r)
      <3>1. PICK size \in DataSizes :
              p = SendNextGetResponseBlock(
                    BlockState(TRUE, r.invokeId, r.descriptor, kFirstBlock, 0, Cells(n, size)),
                    ServerOptions, Indication("get", n, <<>>))
        BY <1>1, <2>5 DEF GetInBlocks
      <3>2. Cells(n, size) \in Bytes /\ size \in Nat
        BY <1>1, CellsType
      <3> DEFINE c == BlockState(TRUE, r.invokeId, r.descriptor, kFirstBlock, 0, Cells(n, size))
      <3>3. /\ c \in Blocks /\ c.active /\ c.data = Cells(n, size) /\ c.offset = 0
            /\ c.invokeId = id /\ c.descriptor = n /\ c.nextBlockNumber = 1
        BY <1>1, <3>2, ServiceAssumption DEF BlockState, Blocks, Requests, kFirstBlock
      <3>4. p = SendNextGetResponseBlock(c, ServerOptions, Indication("get", n, <<>>))
        BY <3>1
      <3>5. call'.collected = Prefix(n, size, 0) /\ call'.descriptor = n /\ call'.invokeId = id
        BY <2>1, NoCells
      <3> HIDE DEF c, n, id, b
      <3>6. PICK e \in Nat : BlockSent(p, c, e)
        BY <3>3, <3>4, GetBlockSent
      <3>7. /\ p.response.choice = "Block" /\ p.response.service = "get"
            /\ BringsCells(p.response, size)'
        BY <1>1, <3>2, <3>3, <3>5, <3>6, BlockBringsCells
      <3> QED
        BY <1>2, <3>7
    <2> QED
      BY <2>3, <2>4, <2>5
  <1> QED
    BY <1>1, <1>3, <1>4

\* The block that a SET or ACTION sends ends after cell e.
EndsAt(c, size, e) ==
  /\ c.offset < e /\ e <= size /\ (FinalBlock(c) <=> e = size)
  /\ RequestBlock(c).service = c.service /\ RequestBlock(c).invokeId = c.invokeId
  /\ RequestBlock(c).descriptor = c.descriptor
  /\ RequestBlock(c).confirmed = c.confirmed
  /\ RequestBlock(c).blockNumber = c.blockNumber
  /\ RequestBlock(c).lastBlock <=> e = size
  /\ RequestBlock(c).choice = IF c.blockNumber = 1 THEN "First" ELSE "Block"
  /\ RequestBlock(c).data = Cut(c.descriptor, size, c.offset, e)
  /\ RequestBlock(c) \in Requests

LEMMA BlockFacts ==
  ASSUME NEW c \in Calls, NEW size \in Nat, c.data = Cells(c.descriptor, size),
         c.offset < size, c.service \in Services,
         c.options.maxBlockPayloadBytes[c.service] \in Nat \ {0}
  PROVE  \E e \in Nat : e = c.offset + BlockSize(c) /\ EndsAt(c, size, e)
  <1> DEFINE payload == c.options.maxBlockPayloadBytes[c.service]
             k == IF size - c.offset < payload THEN size - c.offset ELSE payload
  <1>1. /\ c.offset \in Nat /\ c.descriptor \in Nat /\ c.blockNumber \in Nat
        /\ c.data \in Bytes /\ Len(c.data) = size
    BY CellsType DEF Calls
  <1>2. BlockSize(c) = k
    BY <1>1 DEF BlockSize
  <1>3. k \in Nat \ {0} /\ c.offset + k <= size
    BY <1>1
  <1> HIDE DEF k, payload
  <1>4. PICK e \in Nat : e = c.offset + k
    BY <1>1, <1>3
  <1>5. c.offset < e /\ e <= size /\ e = c.offset + BlockSize(c)
    BY <1>1, <1>2, <1>3, <1>4
  <1> DEFINE last == FinalBlock(c)
             first == c.blockNumber = 1
  <1>6. (last <=> e = size) /\ last \in BOOLEAN
    BY <1>1, <1>5 DEF FinalBlock
  <1>7. Cut(c.descriptor, size, c.offset, e) = SubSeq(c.data, c.offset + 1, e)
        /\ Cut(c.descriptor, size, c.offset, e) \in Bytes
    <2>1. c.offset <= e /\ e <= Len(c.data)
      BY <1>1, <1>5
    <2> QED
      BY <1>1, <2>1, SubSeqType DEF Cut
  <1>8. RequestBlock(c) = Request(c.service, IF first THEN "First" ELSE "Block", c.invokeId,
                                  c.confirmed, c.descriptor, c.blockNumber, last,
                                  Cut(c.descriptor, size, c.offset, e))
    BY <1>5, <1>7 DEF RequestBlock, kFirstBlock
  <1> HIDE DEF last
  <1>9. EndsAt(c, size, e)
    <2> DEFINE q == RequestBlock(c)
               data == Cut(c.descriptor, size, c.offset, e)
    <2>1. /\ q.service = c.service /\ q.invokeId = c.invokeId /\ q.descriptor = c.descriptor
          /\ q.confirmed = c.confirmed /\ q.blockNumber = c.blockNumber /\ q.lastBlock = last
          /\ q.choice = IF first THEN "First" ELSE "Block"
          /\ q.data = data
      BY <1>8 DEF Request
    <2> HIDE DEF data
    <2>2. q \in Requests
      BY <1>6, <1>7, <1>8 DEF Request, Requests, Calls, data
    <2> QED
      BY <1>5, <1>6, <2>1, <2>2 DEF EndsAt, last, data
  <1> QED
    BY <1>5, <1>9

LEMMA CallBlock ==
  ASSUME call \in Calls, call # NoCall, CallIsRight, call.service # "get", call.blocked
  PROVE  \E size, e \in Nat : /\ size = Len(call.data) /\ e = call.offset + BlockSize(call)
                              /\ EndsAt(call, size, e)
  <1>1. PICK size \in Nat : size = Len(call.data)
    BY DEF Calls, Bytes
  <1>2. /\ call.data = Cells(call.descriptor, size) /\ call.offset < size
        /\ call.service \in Services
        /\ call.options.maxBlockPayloadBytes[call.service] \in Nat \ {0}
    BY <1>1 DEF CallIsRight, Calls
  <1>3. PICK e \in Nat : e = call.offset + BlockSize(call) /\ EndsAt(call, size, e)
    BY <1>2, BlockFacts
  <1> QED
    BY <1>1, <1>3

\* The block state when the cells of the call up to e have been collected.
Collected(c, size, e) ==
  BlockState(TRUE, c.invokeId, c.descriptor, c.blockNumber + 1, 0, Prefix(c.descriptor, size, e))

LEMMA AcknowledgedCells ==
  ASSUME NEW r, NEW p, Acknowledged(p, r, processor[call.service]),
         call \in Calls, call # NoCall, CallIsRight,
         call.service # "get", call.blocked, IsPresent(r),
         NEW size \in Nat, NEW e \in Nat, size = Len(call.data),
         EndsAt(call, size, e)
  PROVE  p.blocks = Collected(call, size, e)
  <1> DEFINE b == processor[call.service]
             n == call.descriptor
             m == call.offset
             data == IF r.choice = "First" THEN r.data ELSE b.data \o r.data
  <1>1. /\ r.choice = IF call.blockNumber = 1 THEN "First" ELSE "Block"
        /\ r.data = Cut(n, size, m, e) /\ r.invokeId = call.invokeId
        /\ r.descriptor = n /\ r.blockNumber = call.blockNumber
        /\ m <= e /\ e <= size /\ n \in Nat /\ m \in Nat
    BY DEF IsPresent, EndsAt, Calls
  <1>2. p.blocks = BlockState(TRUE, call.invokeId, n, call.blockNumber + 1, 0, data)
    BY <1>1 DEF Acknowledged
  <1>3. Grows(n, size, m, e)
    <2> HIDE DEF n, m
    <2> QED
      BY <1>1, PrefixGrows
  <1>4. data = Prefix(n, size, e)
    <2>1. CASE r.choice = "First"
      <3>1. m = 0 /\ Prefix(n, size, m) = <<>>
        BY <1>1, <2>1, NoCells DEF CallIsRight
      <3>2. Cut(n, size, m, e) \in Seq(Nat \X Nat \X Nat)
        <4>1. Cells(n, size) \in Bytes /\ Len(Cells(n, size)) = size
          BY <1>1, CellsType
        <4> QED
          BY <1>1, <4>1, SubSeqType DEF Cut, Bytes
      <3>3. <<>> \o Cut(n, size, m, e) = Cut(n, size, m, e)
        BY <3>2, ConcatEmptySeq
      <3> QED
        BY <1>1, <1>3, <2>1, <3>1, <3>3 DEF Grows
    <2>2. CASE r.choice # "First"
      <3>1. r.choice = "Block" /\ r.service = call.service
        BY <1>1, <2>2 DEF IsPresent
      <3>2. b = BlockState(TRUE, call.invokeId, n, call.blockNumber, 0, Prefix(n, size, m))
        BY <3>1 DEF IsPresent, Collecting
      <3>3. b.data = Prefix(n, size, m)
        BY <3>2 DEF BlockState
      <3> QED
        BY <1>1, <1>3, <2>2, <3>3 DEF Grows
    <2> QED
      BY <2>1, <2>2
  <1> QED
    BY <1>2, <1>4 DEF Collected

LEMMA BlockedAnswers ==
  ASSUME NEW r \in Requests, r.service \in {"set", "action"}, RequestIsRight(r), IsPresent(r),
         processor \in [Services -> Blocks], call \in Calls, call # NoCall, CallIsRight,
         call' = call, NEW reply \in Replies(r), NEW p,
         p = ProcessBlockedRequest(processor[r.service], ServerOptions, r, reply),
         p.status = "Ok", processor'[r.service] = p.blocks,
         p.indication # NoIndication /\ reply.status = "Ok" /\ reply.accessResult = 0 =>
           p.indication.descriptor \in accepted'
  PROVE  IsAnswer(p.response)'
  <1> DEFINE b == processor[r.service]
             n == call.descriptor
  <1>1. /\ r.service = call.service /\ r.descriptor = n /\ call.service # "get"
        /\ call.service \in {"set", "action"}
    BY DEF IsPresent
  <1>2. p.response.service = r.service
    BY BlockedOutcome DEF Sound
  <1>3. CASE Acknowledged(p, r, b)
    <2>1. /\ r.choice \in {"First", "Block"} /\ ~r.lastBlock /\ p.response.choice = "Ack"
      BY <1>3 DEF Acknowledged
    <2>2. call.blocked /\ r = RequestBlock(call)
      BY <1>1, <2>1 DEF IsPresent
    <2>3. PICK size \in Nat, e \in Nat :
            /\ size = Len(call.data) /\ e = call.offset + BlockSize(call)
            /\ EndsAt(call, size, e)
      BY <1>1, <2>2, CallBlock
    <2>4. ~FinalBlock(call)
      BY <2>1, <2>2, <2>3 DEF EndsAt
    <2>5. p.blocks = Collected(call, size, e)
      <3>1. Acknowledged(p, r, processor[call.service])
        BY <1>1, <1>3
      <3> HIDE DEF n, b
      <3> QED
        BY <1>1, <2>2, <2>3, <3>1, AcknowledgedCells
    <2>6. Collecting(call.service, call.invokeId, n, Len(call.data), call.blockNumber + 1,
                     call.offset + BlockSize(call))'
      BY <1>1, <2>3, <2>5 DEF Collecting, Collected
    <2> QED
      BY <1>1, <1>2, <2>1, <2>2, <2>4, <2>6 DEF IsAnswer
  <1>4. CASE CarriedOut(p, r, reply)
    <2>1. /\ p.response.choice \in {"Normal", "Last"} /\ reply.status = "Ok"
          /\ p.response.accessResult = reply.accessResult
          /\ r.service = "action" => p.response.data = reply.data
          /\ p.indication # NoIndication /\ p.indication.descriptor = r.descriptor
      BY <1>4 DEF CarriedOut
    <2>2. reply.accessResult = 0 => \E size \in DataSizes : reply.data = Cells(n, size)
      BY <1>1, <2>1, ReplyFacts
    <2> QED
      BY <1>1, <1>2, <2>1, <2>2 DEF IsAnswer
  <1> QED
    BY <1>3, <1>4, BlockedOutcome

LEMMA ProcessOutcome ==
  ASSUME NEW r \in Requests, RequestIsRight(r), processor \in [Services -> Blocks],
         NEW reply \in Replies(r), NEW p,
         p = ProcessRequest(processor, ServerOptions, r, reply)
  PROVE  Sound(p, r)
  <1>1. CASE r.service = "get"
    <2>1. p = ProcessGetRequest(processor["get"], ServerOptions, r, reply)
      BY <1>1 DEF ProcessRequest
    <2>2. processor["get"] \in Blocks /\ r.choice \in {"Normal", "Selective", "Next"}
      BY <1>1 DEF Services, RequestIsRight
    <2> QED
      BY <1>1, <2>1, <2>2, GetOutcome
  <1>2. CASE r.service # "get"
    <2>1. p = ProcessBlockedRequest(processor[r.service], ServerOptions, r, reply)
      BY <1>2 DEF ProcessRequest
    <2>2. r.service \in {"set", "action"}
      BY <1>2 DEF Requests, Services
    <2> QED
      BY <2>1, <2>2, BlockedOutcome
  <1> QED
    BY <1>1, <1>2

LEMMA ProcessAnswers ==
  ASSUME NEW r \in Requests, RequestIsRight(r), IsPresent(r),
         processor \in [Services -> Blocks], call \in Calls, call # NoCall, CallIsRight,
         call' = call, NEW reply \in Replies(r), NEW p,
         p = ProcessRequest(processor, ServerOptions, r, reply),
         p.status = "Ok", processor'[r.service] = p.blocks,
         p.indication # NoIndication /\ reply.status = "Ok" /\ reply.accessResult = 0 =>
           p.indication.descriptor \in accepted'
  PROVE  IsAnswer(p.response)'
  <1>1. CASE r.service = "get"
    <2>1. /\ p = ProcessGetRequest(processor["get"], ServerOptions, r, reply)
          /\ processor'["get"] = p.blocks
      BY <1>1 DEF ProcessRequest
    <2> QED
      BY <1>1, <2>1, GetAnswers
  <1>2. CASE r.service # "get"
    <2>1. p = ProcessBlockedRequest(processor[r.service], ServerOptions, r, reply)
      BY <1>2 DEF ProcessRequest
    <2>2. r.service \in {"set", "action"}
      BY <1>2 DEF Requests, Services
    <2> QED
      BY <2>1, <2>2, BlockedAnswers
  <1> QED
    BY <1>1, <1>2

-----------------------------------------------------------------------------
(***************************************************************************)
(* Steps of the server.                                                    *)
(***************************************************************************)
LEMMA TailFacts ==
  ASSUME NEW S, NEW s \in Seq(S), s # <<>>
  PROVE  /\ Len(s) \in Nat \ {0} /\ Head(s) = s[1] /\ s[1] \in S
         /\ Tail(s) \in Seq(S) /\ Len(Tail(s)) = Len(s) - 1
         /\ \A i \in 1..(Len(s) - 1) : Tail(s)[i] = s[i + 1]
  OBVIOUS

LEMMA AppendFacts ==
  ASSUME NEW S, NEW s \in Seq(S), NEW x \in S
  PROVE  /\ Append(s, x) \in Seq(S) /\ Len(Append(s, x)) = Len(s) + 1
         /\ \A i \in 1..Len(s) : Append(s, x)[i] = s[i]
         /\ Append(s, x)[Len(s) + 1] = x
  OBVIOUS

\* The first request, r, leaves the queue.
Leaves(r) ==
  /\ Len(requests) \in Nat \ {0} /\ requests[1] = r
  /\ \A i \in 1..Len(requests) : requests[i] \in Requests
  /\ Len(requests') = Len(requests) - 1
  /\ \A i \in 1..Len(requests') : /\ i + 1 \in 1..Len(requests) /\ i + 1 # 1
                                 /\ requests'[i] = requests[i + 1]

LEMMA HeadLeaves ==
  ASSUME requests \in Seq(Requests), requests # <<>>, requests' = Tail(requests),
         NEW r, r = Head(requests)
  PROVE  Leaves(r) /\ r \in Requests /\ requests' \in Seq(Requests)
  BY TailFacts DEF Leaves

\* The other requests do not depend on the block states and come from other calls.
LEMMA RequestLeaves ==
  ASSUME RequestsAreRight, OwnRequest, call' = call, calls' = calls, NEW r, Leaves(r),
         \A n \in 1..MaxCalls : n # r.descriptor => executed'[n] = executed[n]
  PROVE  RequestsAreRight' /\ OwnRequest'
  <1>1. /\ Len(requests) \in Nat \ {0} /\ requests[1] = r
        /\ Len(requests)' = Len(requests) - 1
        /\ \A i \in 1..Len(requests)' : /\ i + 1 \in 1..Len(requests) /\ i + 1 # 1
                                        /\ requests'[i] = requests[i + 1]
        /\ \A i \in 1..Len(requests) : requests[i] \in Requests
    BY DEF Leaves
  <1>2. ASSUME NEW i \in 1..Len(requests)'
        PROVE  /\ RequestIsRight(requests[i])'
               /\ requests'[i].choice \notin {"Block", "Next"}
               /\ \A j \in 1..(i - 1) : requests'[j].descriptor < requests'[i].descriptor
    <2>1. PICK k \in 1..Len(requests) : k # 1 /\ k = i + 1 /\ requests'[i] = requests[k]
      BY <1>1
    <2>2. PICK q \in Requests : q = requests[k]
      BY <1>1, <2>1
    <2>3. /\ RequestIsRight(q) /\ q.choice \notin {"Block", "Next"}
          /\ \A j \in 1..(k - 1) : requests[j].descriptor < q.descriptor
      BY <2>1, <2>2 DEF RequestsAreRight
    <2>4. q.descriptor # r.descriptor /\ q.descriptor \in 1..MaxCalls
      <3>1. 1 \in 1..(k - 1) /\ 1 \in 1..Len(requests)
        BY <1>1, <2>1
      <3>2. r.descriptor < q.descriptor /\ r \in Requests
        BY <1>1, <2>3, <3>1
      <3> QED
        BY <3>2, ServiceAssumption DEF Requests
    <2>5. executed'[q.descriptor] = executed[q.descriptor]
      BY <1>1, <2>4
    <2>6. RequestIsRight(q)'
      BY <2>3, <2>5 DEF RequestIsRight
    <2>7. \A j \in 1..(i - 1) : requests'[j].descriptor < q.descriptor
      <3> SUFFICES ASSUME NEW j \in 1..(i - 1) PROVE requests'[j].descriptor < q.descriptor
        OBVIOUS
      <3>1. j \in 1..Len(requests)' /\ j + 1 \in 1..(k - 1)
        BY <1>1, <2>1
      <3> QED
        BY <1>1, <2>3, <3>1
    <2> QED
      BY <2>1, <2>2, <2>3, <2>6, <2>7
  <1>3. RequestsAreRight'
    BY <1>2 DEF RequestsAreRight
  <1>4. OwnRequest'
    <2> SUFFICES ASSUME call # NoCall, NEW i \in 1..Len(requests)',
                        \/ requests'[i].invokeId = call.invokeId
                        \/ requests'[i].descriptor = call.descriptor
                 PROVE  i = Len(requests)' /\ IsPresent(requests[i])'
      BY DEF OwnRequest
    <2>1. PICK k \in 1..Len(requests) : k # 1 /\ k = i + 1 /\ requests'[i] = requests[k]
      BY <1>1
    <2>2. PICK q : q = requests[k]
      OBVIOUS
    <2>3. k = Len(requests) /\ IsPresent(q) /\ q.choice \notin {"Block", "Next"}
      <3>1. q.invokeId = call.invokeId \/ q.descriptor = call.descriptor
        BY <2>1, <2>2
      <3>2. k = Len(requests) /\ IsPresent(requests[k])
        BY <1>1, <2>1, <2>2, <3>1 DEF OwnRequest
      <3>3. requests'[i].choice \notin {"Block", "Next"}
        BY <1>2
      <3> QED
        BY <2>1, <2>2, <3>2, <3>3
    <2>4. IsPresent(q)'
      BY <2>3 DEF IsPresent
    <2>5. requests'[i] = q /\ i = Len(requests)'
      BY <1>1, <2>1, <2>2, <2>3
    <2> QED
      BY <2>4, <2>5
  <1> QED
    BY <1>3, <1>4

\* x is added to the responses.
Arrives(x) ==
  /\ Len(responses) \in Nat
  /\ Len(responses') = Len(responses) + 1
  /\ \A i \in 1..Len(responses) : responses'[i] = responses[i]
  /\ responses'[Len(responses) + 1] = x

LEMMA ResponseArrives ==
  ASSUME responses \in Seq(Responses), NEW x \in Responses, responses' = Append(responses, x)
  PROVE  Arrives(x) /\ responses' \in Seq(Responses)
  BY AppendFacts DEF Arrives

LEMMA ServedAges ==
  ASSUME AgesAreBounded, NEW r, Leaves(r), responses \in Seq(Responses),
         nextInvokeId \in InvokeIds, timeouts \in Nat,
         nextInvokeId' = nextInvokeId, call' = call, timeouts' = timeouts,
         responses' = responses \/ \E x : Arrives(x) /\ x.invokeId = r.invokeId
  PROVE  AgesAreBounded'
  <1>1. /\ Len(requests) \in Nat \ {0} /\ requests[1] = r
        /\ Len(requests') = Len(requests) - 1
        /\ \A i \in 1..Len(requests') : /\ i + 1 \in 1..Len(requests)
                                        /\ requests'[i] = requests[i + 1]
        /\ \A i \in 1..Len(requests) : requests[i] \in Requests
    BY DEF Leaves
  <1>3. Slack' = Slack /\ Slack \in Nat
    BY DEF Slack
  <1>4. Len(responses') \in Nat /\ Len(responses) \in Nat /\ Len(responses') <= Len(responses) + 1
    BY DEF Arrives
  <1>5. ASSUME NEW i \in 1..Len(responses')
        PROVE  Age(responses[i].invokeId)' + i <= Slack'
    <2>1. CASE i \in 1..Len(responses)
      <3>1. responses'[i] = responses[i]
        BY <2>1 DEF Arrives
      <3>2. Age(responses[i].invokeId) + i <= Slack
        BY <2>1 DEF AgesAreBounded
      <3>3. Age(responses[i].invokeId)' = Age(responses[i].invokeId)
        BY <3>1 DEF Age
      <3> QED
        BY <1>3, <3>2, <3>3
    <2>2. CASE i \notin 1..Len(responses)
      <3>1. i = Len(responses) + 1 /\ responses'[i].invokeId = r.invokeId
        BY <1>4, <2>2 DEF Arrives
      <3>2. 1 \in 1..Len(requests)
        BY <1>1
      <3>3. Age(r.invokeId) + Len(responses) + 1 <= Slack
        BY <1>1, <3>2 DEF AgesAreBounded
      <3>4. Age(responses[i].invokeId)' = Age(r.invokeId)
        BY <3>1 DEF Age
      <3>5. Age(r.invokeId) \in Nat
        <4>1. r \in Requests
          BY <1>1, <3>2
        <4>2. r.invokeId \in InvokeIds
          BY <4>1 DEF Requests
        <4> QED
          BY <4>2, AgeType
      <3> QED
        BY <1>3, <1>4, <3>1, <3>3, <3>4, <3>5
    <2> QED
      BY <2>1, <2>2
  <1>6. ASSUME NEW i \in 1..Len(requests')
        PROVE  Age(requests[i].invokeId)' + Len(responses') + i <= Slack'
    <2>1. PICK k \in 1..Len(requests) : k = i + 1 /\ requests'[i] = requests[k]
      BY <1>1
    <2>2. Age(requests[k].invokeId) + Len(responses) + k <= Slack
      BY <2>1 DEF AgesAreBounded
    <2>3. Age(requests[i].invokeId)' = Age(requests[k].invokeId)
      BY <2>1 DEF Age
    <2>4. Age(requests[k].invokeId) \in Nat
      <3>1. requests[k].invokeId \in InvokeIds
        BY <1>1 DEF Requests
      <3> QED
        BY <3>1, AgeType
    <2> QED
      BY <1>3, <1>4, <2>1, <2>2, <2>3, <2>4
  <1> QED
    BY <1>5, <1>6 DEF AgesAreBounded

\* What one request leaves behind: p is what ProcessRequest returned for it.
ServedBy(r, reply, p, sent) ==
  /\ p = ProcessRequest(processor, ServerOptions, r, reply)
  /\ processor' = [processor EXCEPT ![r.service] = p.blocks]
  /\ responses' = IF p.status = "Ok" /\ sent THEN Append(responses, p.response) ELSE responses
  /\ indication' = IF p.indication # NoIndication THEN p.indication ELSE indication
  /\ executed' = IF p.indication # NoIndication
                 THEN [executed EXCEPT ![p.indication.descriptor] = @ + 1] ELSE executed
  /\ accepted' = IF p.indication # NoIndication /\ reply.status = "Ok" /\ reply.accessResult = 0
                 THEN accepted \cup {p.indication.descriptor} ELSE accepted

LEMMA ServedTypes ==
  ASSUME Types, NEW r \in Requests, NEW reply, NEW p, Sound(p, r), NEW sent \in BOOLEAN,
         ServedBy(r, reply, p, sent)
  PROVE  /\ processor' \in [Services -> Blocks] /\ processor'[r.service] = p.blocks
         /\ executed' \in [1..MaxCalls -> Nat]
         /\ \A n \in 1..MaxCalls : n # r.descriptor => executed'[n] = executed[n]
         /\ p.indication = NoIndication => executed' = executed
         /\ responses' \in Seq(Responses)
         /\ \/ responses' = responses
            \/ /\ p.status = "Ok" /\ p.response.invokeId = r.invokeId
               /\ Arrives(p.response)
  <1>1. /\ processor \in [Services -> Blocks] /\ responses \in Seq(Responses)
        /\ executed \in [1..MaxCalls -> Nat] /\ r.service \in Services
        /\ r.descriptor \in 1..MaxCalls
    BY DEF Types, Requests
  <1>2. processor' \in [Services -> Blocks] /\ processor'[r.service] = p.blocks
    BY <1>1 DEF ServedBy, Sound
  <1>3. /\ executed' \in [1..MaxCalls -> Nat]
        /\ \A n \in 1..MaxCalls : n # r.descriptor => executed'[n] = executed[n]
        /\ p.indication = NoIndication => executed' = executed
    BY <1>1 DEF ServedBy, Sound
  <1>4. /\ responses' \in Seq(Responses)
        /\ \/ responses' = responses
           \/ /\ p.status = "Ok" /\ p.response.invokeId = r.invokeId
              /\ Arrives(p.response)
    <2>1. CASE p.status = "Ok" /\ sent
      <3>1. responses' = Append(responses, p.response) /\ p.response \in Responses
            /\ p.response.invokeId = r.invokeId
        BY <2>1 DEF ServedBy, Sound
      <3> QED
        BY <1>1, <2>1, <3>1, ResponseArrives
    <2>2. CASE ~(p.status = "Ok" /\ sent)
      BY <1>1, <2>2 DEF ServedBy
    <2> QED
      BY <2>1, <2>2
  <1> QED
    BY <1>2, <1>3, <1>4

LEMMA ServeStep ==
  ASSUME Inv, requests # <<>>, requests' = Tail(requests), NEW r, r = Head(requests),
         NEW reply \in Replies(r), NEW sent \in BOOLEAN, Serve(r, reply, sent),
         UNCHANGED <<clientVars, timeouts>>
  PROVE  Inv'
  <1> USE DEF clientVars
  <1>1. Leaves(r) /\ r \in Requests /\ requests' \in Seq(Requests)
    BY HeadLeaves DEF Inv, Types
  <1>2. RequestIsRight(r) /\ 1 \in 1..Len(requests)
    <2>1. 1 \in 1..Len(requests) /\ requests[1] = r
      BY <1>1 DEF Leaves
    <2> QED
      BY <2>1 DEF Inv, RequestsAreRight
  <1>3. PICK p : ServedBy(r, reply, p, sent)
    BY DEF Serve, ServedBy
  <1>4. Sound(p, r)
    BY <1>1, <1>2, <1>3, ProcessOutcome DEF Inv, Types, ServedBy
  <1>5. /\ processor' \in [Services -> Blocks] /\ processor'[r.service] = p.blocks
        /\ executed' \in [1..MaxCalls -> Nat]
        /\ \A n \in 1..MaxCalls : n # r.descriptor => executed'[n] = executed[n]
        /\ p.indication = NoIndication => executed' = executed
        /\ responses' \in Seq(Responses)
        /\ \/ responses' = responses
           \/ /\ p.status = "Ok" /\ p.response.invokeId = r.invokeId
              /\ Arrives(p.response)
    BY <1>1, <1>3, <1>4, ServedTypes DEF Inv
  <1>6. Types'
    BY <1>1, <1>5 DEF Inv, Types
  <1>7. AgesAreBounded'
    BY <1>1, <1>5, ServedAges, ServiceAssumption DEF Inv, Types
  <1>8. CallIsRight'
    BY DEF Inv, CallIsRight, Age
  <1>9. RequestsAreRight' /\ OwnRequest'
    BY <1>1, <1>5, RequestLeaves DEF Inv
  <1>10. OwnResponse'
    <2> SUFFICES ASSUME call # NoCall, NEW i \in 1..Len(responses'),
                        responses'[i].invokeId = call.invokeId
                 PROVE  i = Len(responses') /\ requests' = <<>> /\ IsAnswer(responses[i])'
      BY DEF OwnResponse
    <2>1. ~(i \in 1..Len(responses) /\ responses'[i] = responses[i])
      <3>1. requests # <<>>
        OBVIOUS
      <3> QED
        BY <3>1 DEF Inv, OwnResponse
    <2>2. /\ p.status = "Ok" /\ p.response.invokeId = r.invokeId /\ Arrives(p.response)
          /\ i = Len(responses') /\ responses'[i] = p.response
      BY <1>5, <2>1 DEF Arrives
    <2>3. 1 = Len(requests) /\ IsPresent(r)
      <3>1. requests[1] = r
        BY <1>1 DEF Leaves
      <3>2. r.invokeId = call.invokeId
        BY <2>2
      <3> QED
        BY <1>2, <3>1, <3>2 DEF Inv, OwnRequest
    <2>4. requests' = <<>>
      <3>1. Len(requests') = 0
        BY <1>1, <2>3 DEF Leaves
      <3> QED
        BY <1>1, <3>1, EmptySeq
    <2>5. p.indication # NoIndication /\ reply.status = "Ok" /\ reply.accessResult = 0 =>
            p.indication.descriptor \in accepted'
      BY <1>3 DEF ServedBy
    <2>6. IsAnswer(p.response)'
      <3>1. call \in Calls /\ processor \in [Services -> Blocks] /\ CallIsRight /\ call' = call
        BY DEF Inv, Types
      <3>2. p = ProcessRequest(processor, ServerOptions, r, reply)
        BY <1>3 DEF ServedBy
      <3> QED
        BY <1>1, <1>2, <1>5, <2>2, <2>3, <2>5, <3>1, <3>2, ProcessAnswers
    <2> QED
      BY <2>2, <2>4, <2>6
  <1>11. NotYetCarriedOut'
    <2>1. ASSUME NEW n \in 1..MaxCalls, n > calls PROVE executed'[n] = 0
      <3>1. n # r.descriptor
        BY <1>2, <2>1 DEF RequestIsRight, Inv, Types
      <3> QED
        BY <1>5, <2>1, <3>1 DEF Inv, NotYetCarriedOut
    <2>2. ASSUME call # NoCall, call.service # "get", call.blocked, ~FinalBlock(call)
          PROVE  executed'[call.descriptor] = 0
      <3>1. executed[call.descriptor] = 0 /\ call.descriptor \in 1..MaxCalls
        BY <2>2 DEF Inv, NotYetCarriedOut, Types, Calls
      <3>2. CASE r.descriptor = call.descriptor
        <4>1. requests[1] = r
          BY <1>1 DEF Leaves
        <4>2. IsPresent(r)
          BY <1>2, <2>2, <3>2, <4>1 DEF Inv, OwnRequest
        <4>3. r = RequestBlock(call)
          BY <2>2, <4>2 DEF IsPresent
        <4>4. r.choice # "Normal" /\ ~r.lastBlock
          BY <2>2, <4>3 DEF RequestBlock, Request
        <4>5. p.indication = NoIndication
          BY <1>4, <4>4 DEF Sound, Executes
        <4> QED
          BY <1>5, <3>1, <4>5
      <3>3. CASE r.descriptor # call.descriptor
        BY <1>5, <3>1, <3>3
      <3> QED
        BY <3>2, <3>3
    <2> QED
      BY <2>1, <2>2 DEF NotYetCarriedOut
  <1>12. OwnResult' /\ OkMeansCarriedOut'
    <2>1. accepted \subseteq accepted'
      BY <1>3 DEF ServedBy
    <2> QED
      BY <2>1 DEF Inv, OwnResult, OkMeansCarriedOut
  <1>13. IndicationIsOneRequest'
    BY <1>3, <1>4 DEF Inv, IndicationIsOneRequest, ServedBy, Sound
  <1>14. AtMostOnce'
    <2> SUFFICES ASSUME NEW n \in 1..MaxCalls PROVE executed'[n] <= 1
      BY DEF AtMostOnce
    <2>1. executed[n] <= 1 /\ executed \in [1..MaxCalls -> Nat]
      BY DEF Inv, AtMostOnce, Types
    <2>2. CASE n = r.descriptor /\ p.indication # NoIndication
      <3>1. executed[n] = 0 /\ p.indication.descriptor = n
        BY <1>2, <1>4, <2>2 DEF Sound, RequestIsRight
      <3>2. executed' = [executed EXCEPT ![n] = @ + 1]
        BY <1>3, <2>2, <3>1 DEF ServedBy
      <3> QED
        BY <2>1, <3>1, <3>2
    <2>3. CASE ~(n = r.descriptor /\ p.indication # NoIndication)
      BY <1>5, <2>1, <2>3
    <2> QED
      BY <2>2, <2>3
  <1> QED
    BY <1>6, <1>7, <1>8, <1>9, <1>10, <1>11, <1>12, <1>13, <1>14 DEF Inv

LEMMA LoseStep ==
  ASSUME Inv, LoseRequest
  PROVE  Inv'
  <1> USE DEF LoseRequest, clientVars, serverVars
  <1>1. PICK r : r = Head(requests)
    OBVIOUS
  <1>2. Leaves(r) /\ requests' \in Seq(Requests)
    BY <1>1, HeadLeaves DEF Inv, Types
  <1>3. Types'
    BY <1>2 DEF Inv, Types
  <1>4. AgesAreBounded'
    BY <1>2, ServedAges, ServiceAssumption DEF Inv, Types
  <1>5. CallIsRight'
    BY DEF Inv, CallIsRight, Age
  <1>6. RequestsAreRight' /\ OwnRequest'
    BY <1>2, RequestLeaves DEF Inv
  <1>7. OwnResponse'
    BY DEF Inv, OwnResponse
  <1>8. NotYetCarriedOut' /\ OwnResult' /\ OkMeansCarriedOut'
        /\ IndicationIsOneRequest' /\ AtMostOnce'
    BY DEF Inv, NotYetCarriedOut, OwnResult, OkMeansCarriedOut, IndicationIsOneRequest, AtMostOnce
  <1> QED
    BY <1>3, <1>4, <1>5, <1>6, <1>7, <1>8 DEF Inv

\* A step that touches none of the variables of the invariant.
LEMMA IdleStep ==
  ASSUME Inv, UNCHANGED <<clientVars, processor, requests, responses, executed, accepted,
                          indication, timeouts>>
  PROVE  Inv'
  <1> USE DEF clientVars
  <1>1. Types' /\ AgesAreBounded' /\ CallIsRight'
    BY DEF Inv, Types, AgesAreBounded, CallIsRight, Age, Slack
  <1>2. \A r : RequestIsRight(r) => RequestIsRight(r)'
    BY DEF RequestIsRight
  <1>3. RequestsAreRight'
    BY <1>2 DEF Inv, RequestsAreRight
  <1>4. ASSUME NEW r
        PROVE  (IsPresent(r) => IsPresent(r)') /\ (IsAnswer(r) => IsAnswer(r)')
    <2>1. call' = call /\ processor' = processor /\ accepted' = accepted
      OBVIOUS
    <2>2. /\ \A id, n, size, number, m : Sending(id, n, size, number, m)'
                                           = Sending(id, n, size, number, m)
          /\ \A s, id, n, size, number, m : Collecting(s, id, n, size, number, m)'
                                              = Collecting(s, id, n, size, number, m)
      BY <2>1 DEF Sending, Collecting
    <2>3. \A size : BringsCells(r, size)' = BringsCells(r, size)
      BY <2>1, <2>2 DEF BringsCells
    <2>4. IsPresent(r) => IsPresent(r)'
      BY <2>1, <2>2 DEF IsPresent
    <2>5. IsAnswer(r) => IsAnswer(r)'
      BY <2>1, <2>2, <2>3 DEF IsAnswer
    <2> QED
      BY <2>4, <2>5
  <1>5. OwnRequest' /\ OwnResponse'
    BY <1>4 DEF Inv, OwnRequest, OwnResponse
  <1>6. NotYetCarriedOut' /\ OwnResult' /\ OkMeansCarriedOut'
        /\ IndicationIsOneRequest' /\ AtMostOnce'
    BY DEF Inv, NotYetCarriedOut, OwnResult, OkMeansCarriedOut, IndicationIsOneRequest, AtMostOnce
  <1> QED
    BY <1>1, <1>3, <1>5, <1>6 DEF Inv

-----------------------------------------------------------------------------
(***************************************************************************)
(* Steps of the client.                                                    *)
(***************************************************************************)
LEMMA RequestsStay ==
  ASSUME RequestsAreRight, requests \in Seq(Requests), calls \in Nat, calls' \in Nat,
         calls <= calls', UNCHANGED <<requests, processor, executed>>
  PROVE  RequestsAreRight'
  <1>1. ASSUME NEW r \in Requests, RequestIsRight(r) PROVE RequestIsRight(r)'
    <2>1. r.descriptor <= calls'
      BY <1>1, ServiceAssumption DEF RequestIsRight, Requests
    <2> QED
      BY <1>1, <2>1 DEF RequestIsRight
  <1>2. \A i \in 1..Len(requests) : requests[i] \in Requests
    OBVIOUS
  <1> QED
    BY <1>1, <1>2 DEF RequestsAreRight

\* What remains of the invariant when no call is under way.
LEMMA NoCallStep ==
  ASSUME Inv, call' = NoCall, calls' \in 0..MaxCalls, calls <= calls', nextInvokeId' = nextInvokeId,
         UNCHANGED <<requests, processor, executed, accepted, indication>>,
         responses' \in Seq(Responses), timeouts' \in 0..MaxTimeouts,
         AgesAreBounded', OwnResult', OkMeansCarriedOut'
  PROVE  Inv'
  <1>1. Types'
    BY DEF Inv, Types
  <1>2. RequestsAreRight'
    BY RequestsStay, ServiceAssumption DEF Inv, Types
  <1>3. CallIsRight' /\ OwnRequest' /\ OwnResponse'
    BY DEF CallIsRight, OwnRequest, OwnResponse
  <1>4. NotYetCarriedOut'
    BY ServiceAssumption DEF Inv, NotYetCarriedOut, Types
  <1>5. IndicationIsOneRequest' /\ AtMostOnce'
    BY DEF Inv, IndicationIsOneRequest, AtMostOnce
  <1> QED
    BY <1>1, <1>2, <1>3, <1>4, <1>5 DEF Inv

LEMMA GiveUpStep ==
  ASSUME Inv, GiveUp
  PROVE  Inv'
  <1> USE DEF GiveUp, Return, serverVars
  <1>1. timeouts' \in 0..MaxTimeouts /\ Slack' = Slack
    BY ServiceAssumption DEF Inv, Types, Slack
  <1>2. AgesAreBounded'
    BY <1>1 DEF Inv, AgesAreBounded, Age
  <1>3. OwnResult' /\ OkMeansCarriedOut'
    BY DEF OwnResult, OkMeansCarriedOut, Outcome
  <1> QED
    BY <1>1, <1>2, <1>3, NoCallStep, ServiceAssumption DEF Inv, Types

LEMMA ReassociateStep ==
  ASSUME Inv, Reassociate
  PROVE  Inv'
  <1> USE DEF Reassociate, serverVars, budgets
  <1>1. /\ Len(requests') = 0 /\ Len(responses') = 0
        /\ requests' \in Seq(Requests) /\ responses' \in Seq(Responses)
    OBVIOUS
  <1>2. Types'
    BY <1>1, ClientAssumption DEF Inv, Types, InvokeIds
  <1>3. AgesAreBounded' /\ RequestsAreRight' /\ OwnRequest' /\ OwnResponse' /\ CallIsRight'
    BY <1>1 DEF AgesAreBounded, RequestsAreRight, OwnRequest, OwnResponse, CallIsRight
  <1>4. NotYetCarriedOut' /\ OwnResult' /\ OkMeansCarriedOut'
        /\ IndicationIsOneRequest' /\ AtMostOnce'
    BY DEF Inv, NotYetCarriedOut, OwnResult, OkMeansCarriedOut, IndicationIsOneRequest, AtMostOnce
  <1> QED
    BY <1>2, <1>3, <1>4 DEF Inv

\* The call with more cells collected, and the one that sends its next block.
WithCells(c, data) == [c EXCEPT !.blocked = TRUE, !.collected = data, !.expected = @ + 1]
WithOffset(c, e) == [c EXCEPT !.offset = e, !.blockNumber = @ + 1]

\* A GET goes on after response h, or a SET or ACTION does.
GetGoesOn(step, h) ==
  /\ call.service = "get" /\ h.choice = "Block" /\ ~h.lastBlock
  /\ step.call = WithCells(call, call.collected \o h.data)
  /\ step.request = Request("get", "Next", call.invokeId, call.confirmed, call.descriptor,
                            h.blockNumber, TRUE, <<>>)

SendGoesOn(step, h) ==
  /\ call.service # "get" /\ h.choice = "Ack"
  /\ step.call = WithOffset(call, call.offset + BlockSize(call))
  /\ step.request = RequestBlock(step.call)

\* A call ends with the data of the last block, or of a single response.
EndsWell(step, h) ==
  /\ call.service = "get" =>
       \/ h.choice = "Block" /\ h.lastBlock /\ step.data = call.collected \o h.data
       \/ h.choice # "Block" /\ h.accessResult = 0 /\ step.data = h.data
  /\ call.service # "get" => h.choice # "Ack" /\ h.accessResult = 0
  /\ call.service = "action" => step.data = h.data

LEMMA ReturnsFacts ==
  ASSUME NEW status, NEW data
  PROVE  Returns(status, data).status = status /\ Returns(status, data).data = data
  BY DEF Returns

LEMMA GoesFacts ==
  ASSUME NEW c, NEW r
  PROVE  Goes(c, r).status = "Pending" /\ Goes(c, r).call = c /\ Goes(c, r).request = r
  BY DEF Goes

LEMMA CopyFacts ==
  ASSUME NEW h
  PROVE  /\ CopyResult(h).status # "Pending"
         /\ CopyResult(h).status = "Ok" => h.accessResult = 0 /\ CopyResult(h).data = h.data
  BY ReturnsFacts DEF CopyResult, ResultStatus

LEMMA GetResponse ==
  ASSUME NEW h, call.service = "get", NEW step, step = ReceiveGet(call, h),
         step.status \in {"Pending", "Ok"}
  PROVE  /\ h.invokeId = call.invokeId
         /\ step.status = "Pending" => GetGoesOn(step, h)
         /\ step.status = "Ok" => EndsWell(step, h)
  <1>1. CASE step = GetBlock(call, h)
    <2> DEFINE joined == call.collected \o h.data
               next == [call EXCEPT !.blocked = TRUE, !.collected = @ \o h.data, !.expected = @ + 1]
               request == Request("get", "Next", call.invokeId, call.confirmed, call.descriptor,
                                  h.blockNumber, TRUE, <<>>)
    <2>1. \/ \E status : status \notin {"Pending", "Ok"} /\ step = Returns(status, <<>>)
          \/ /\ h.choice = "Block" /\ h.invokeId = call.invokeId
             /\ step = IF h.lastBlock THEN Returns("Ok", joined) ELSE Goes(next, request)
      BY <1>1 DEF GetBlock
    <2> HIDE DEF joined, next, request
    <2>2. /\ h.choice = "Block" /\ h.invokeId = call.invokeId
          /\ step = IF h.lastBlock THEN Returns("Ok", joined) ELSE Goes(next, request)
      BY <2>1, ReturnsFacts
    <2>3. CASE h.lastBlock
      <3>1. step.status = "Ok" /\ step.data = joined
        BY <2>2, <2>3, ReturnsFacts
      <3> QED
        BY <2>2, <2>3, <3>1 DEF EndsWell, joined
    <2>4. CASE ~h.lastBlock
      <3>1. step.status = "Pending" /\ step.call = next /\ step.request = request
        BY <2>2, <2>4, GoesFacts
      <3>2. GetGoesOn(step, h)
        BY <2>2, <2>4, <3>1 DEF GetGoesOn, WithCells, next, request
      <3> QED
        BY <2>2, <3>1, <3>2
    <2> QED
      BY <2>3, <2>4
  <1>2. CASE step # GetBlock(call, h)
    <2>1. h.choice # "Block" /\ h.invokeId = call.invokeId /\ step = CopyResult(h)
      BY <1>2, ReturnsFacts DEF ReceiveGet
    <2> QED
      BY <2>1, CopyFacts DEF EndsWell
  <1> QED
    BY <1>1, <1>2

LEMMA BlockedResponse ==
  ASSUME NEW h, call.service \in {"set", "action"}, NEW step,
         step = IF call.service = "set" THEN ReceiveSet(call, h) ELSE ReceiveAction(call, h),
         step.status \in {"Pending", "Ok"}
  PROVE  /\ h.invokeId = call.invokeId
         /\ step.status = "Pending" => SendGoesOn(step, h)
         /\ step.status = "Ok" => EndsWell(step, h)
  <1>1. CASE step = NextRequestBlock(call) /\ h.invokeId = call.invokeId /\ h.choice = "Ack"
    BY <1>1, GoesFacts DEF NextRequestBlock, SendGoesOn, WithOffset
  <1>2. CASE /\ call.service = "set" /\ step = Returns(ResultStatus(h.accessResult), <<>>)
             /\ h.invokeId = call.invokeId /\ h.choice # "Ack"
    <2>1. step.status = ResultStatus(h.accessResult)
      BY <1>2, ReturnsFacts
    <2>2. step.status = "Ok" /\ h.accessResult = 0
      BY <2>1 DEF ResultStatus
    <2> QED
      BY <1>2, <2>2 DEF EndsWell
  <1>3. CASE /\ call.service = "action" /\ step = CopyResult(h)
             /\ h.invokeId = call.invokeId /\ h.choice = "Normal"
    BY <1>3, CopyFacts DEF EndsWell
  <1>4. CASE call.service = "set"
    <2>1. CASE call.blocked
      BY <1>1, <1>2, <1>4, <2>1, ReturnsFacts DEF ReceiveSet, SetBlock
    <2>2. CASE ~call.blocked
      BY <1>2, <1>4, <2>2, ReturnsFacts DEF ReceiveSet
    <2> QED
      BY <2>1, <2>2
  <1>5. CASE call.service = "action"
    BY <1>1, <1>3, <1>5, ReturnsFacts DEF ReceiveAction, FinalAction
  <1> QED
    BY <1>4, <1>5

LEMMA ResponseOutcome ==
  ASSUME NEW h, call \in Calls, NEW step, step = ReceiveResponse(call, h),
         step.status \in {"Pending", "Ok"}
  PROVE  /\ h.invokeId = call.invokeId
         /\ step.status = "Pending" => GetGoesOn(step, h) \/ SendGoesOn(step, h)
         /\ step.status = "Ok" => EndsWell(step, h)
  <1>1. h.service = call.service /\ call.service \in {"get", "set", "action"}
    BY ReturnsFacts DEF ReceiveResponse, Calls, Services
  <1>2. CASE call.service = "get"
    <2>1. step = ReceiveGet(call, h)
      BY <1>1, <1>2 DEF ReceiveResponse
    <2> QED
      BY <1>2, <2>1, GetResponse
  <1>3. CASE call.service \in {"set", "action"}
    <2>1. step = IF call.service = "set" THEN ReceiveSet(call, h) ELSE ReceiveAction(call, h)
      BY <1>1, <1>3 DEF ReceiveResponse
    <2> QED
      BY <1>3, <2>1, BlockedResponse
  <1> QED
    BY <1>1, <1>2, <1>3

LEMMA OwnAnswer ==
  ASSUME Inv, call # NoCall, responses # <<>>, NEW h, h = Head(responses),
         h.invokeId = call.invokeId
  PROVE  IsAnswer(h) /\ Len(responses) = 1 /\ requests = <<>>
  <1>1. h = responses[1] /\ 1 \in 1..Len(responses)
    BY TailFacts DEF Inv, Types
  <1> QED
    BY <1>1 DEF Inv, OwnResponse

LEMMA ReceiveReturns ==
  ASSUME Inv, call # NoCall, responses # <<>>, responses' = Tail(responses),
         NEW step, step = ReceiveResponse(call, Head(responses)), step.status # "Pending",
         Return(step.status, step.data),
         UNCHANGED <<requests, nextInvokeId, calls, serverVars, budgets>>
  PROVE  Inv'
  <1> USE DEF Return, serverVars, budgets
  <1>1. /\ Len(responses) \in Nat \ {0} /\ responses' \in Seq(Responses)
        /\ Len(responses') = Len(responses) - 1
        /\ \A i \in 1..Len(responses') : /\ i + 1 \in 1..Len(responses)
                                         /\ responses'[i] = responses[i + 1]
        /\ \A i \in 1..Len(responses) : responses[i] \in Responses
    BY TailFacts DEF Inv, Types
  <1>2. timeouts \in Nat /\ Slack = timeouts + 1 /\ Slack' = timeouts /\ nextInvokeId \in InvokeIds
    BY DEF Inv, Types, Slack
  <1>3. ASSUME NEW i \in 1..Len(responses') PROVE Age(responses[i].invokeId)' + i <= Slack'
    <2>1. PICK k \in 1..Len(responses) : k = i + 1 /\ responses'[i] = responses[k]
      BY <1>1
    <2>2. Age(responses[k].invokeId) + k <= Slack
      BY DEF Inv, AgesAreBounded
    <2>3. Age(responses[i].invokeId)' = Age(responses[k].invokeId)
      BY <2>1 DEF Age
    <2>4. Age(responses[k].invokeId) \in Nat
      BY <1>1, <1>2, AgeType DEF Responses
    <2> QED
      BY <1>2, <2>1, <2>2, <2>3, <2>4
  <1>4. ASSUME NEW i \in 1..Len(requests)
        PROVE  Age(requests[i].invokeId)' + Len(responses') + i <= Slack'
    <2>1. Age(requests[i].invokeId) + Len(responses) + i <= Slack
      BY DEF Inv, AgesAreBounded
    <2>2. Age(requests[i].invokeId)' = Age(requests[i].invokeId)
      BY DEF Age
    <2>3. Age(requests[i].invokeId) \in Nat /\ i \in Nat
      <3>1. requests[i] \in Requests
        BY DEF Inv, Types
      <3>2. requests[i].invokeId \in InvokeIds
        BY <3>1 DEF Requests
      <3> QED
        BY <1>2, <3>2, AgeType
    <2> QED
      BY <1>1, <1>2, <2>1, <2>2, <2>3
  <1>5. AgesAreBounded'
    BY <1>3, <1>4 DEF AgesAreBounded
  <1>6. OwnResult' /\ OkMeansCarriedOut'
    <2>1. /\ result'.status = step.status /\ result'.data = step.data
          /\ result'.service = call.service /\ result'.id = call.descriptor
      BY DEF Outcome
    <2>2. CASE step.status = "Ok"
      <3>1. PICK h : h = Head(responses)
        OBVIOUS
      <3>2. call \in Calls /\ call.service \in {"get", "set", "action"}
        BY DEF Inv, Types, Calls, Services
      <3>3. h.invokeId = call.invokeId /\ EndsWell(step, h)
        BY <2>2, <3>1, <3>2, ResponseOutcome
      <3>4. IsAnswer(h)
        BY <3>1, <3>3, OwnAnswer
      <3>5. CASE call.service = "get"
        <4>1. CASE h.choice = "Block"
          <5>1. PICK size \in DataSizes : BringsCells(h, size)
            BY <3>4, <3>5, <4>1 DEF IsAnswer
          <5>2. h.lastBlock /\ step.data = call.collected \o h.data
            BY <3>3, <3>5, <4>1 DEF EndsWell
          <5>3. step.data = Prefix(call.descriptor, size, size)
            BY <5>1, <5>2 DEF BringsCells
          <5>4. step.data = Cells(call.descriptor, size)
            BY <5>3, CellsIsPrefix
          <5> QED
            BY <2>1, <3>5, <5>4 DEF OwnResult, OkMeansCarriedOut
        <4>2. CASE h.choice # "Block"
          <5>1. h.choice = "Normal" /\ h.accessResult = 0 /\ step.data = h.data
            BY <3>3, <3>4, <3>5, <4>2 DEF EndsWell, IsAnswer
          <5>2. PICK size \in DataSizes : h.data = Cells(call.descriptor, size)
            BY <3>4, <3>5, <5>1 DEF IsAnswer
          <5> QED
            BY <2>1, <3>5, <5>1, <5>2 DEF OwnResult, OkMeansCarriedOut
        <4> QED
          BY <4>1, <4>2
      <3>6. CASE call.service # "get"
        <4>1. h.choice # "Ack" /\ h.accessResult = 0 /\ (call.service = "action" => step.data = h.data)
          BY <3>3, <3>6 DEF EndsWell
        <4>2. /\ call.descriptor \in accepted
              /\ call.service = "action" =>
                   \E size \in DataSizes : h.data = Cells(call.descriptor, size)
          BY <3>4, <3>6, <4>1 DEF IsAnswer
        <4> QED
          BY <2>1, <3>2, <3>6, <4>1, <4>2 DEF OwnResult, OkMeansCarriedOut
      <3> QED
        BY <3>5, <3>6
    <2>3. CASE step.status # "Ok"
      BY <2>1, <2>3 DEF OwnResult, OkMeansCarriedOut
    <2> QED
      BY <2>2, <2>3
  <1> QED
    BY <1>1, <1>5, <1>6, NoCallStep, ServiceAssumption DEF Inv, Types

LEMMA NoCallIsNoCall == NoCall \notin Calls
  BY DEF NoCall, ServiceCall, Calls, Services

\* The call goes on with one request, and nothing else is on the way.
LEMMA OnlyRequest ==
  ASSUME Inv, NEW r \in Requests, requests' = <<r>>, responses' = <<>>, call' \in Calls,
         UNCHANGED <<result, nextInvokeId, calls, serverVars, budgets>>,
         call'.invokeId = call.invokeId, r.invokeId = call.invokeId, Age(call.invokeId) = 0,
         RequestIsRight(r)', IsPresent(r)', CallIsRight', NotYetCarriedOut'
  PROVE  Inv'
  <1> USE DEF serverVars, budgets
  <1>0. /\ requests' \in Seq(Requests) /\ Len(requests') = 1 /\ requests'[1] = r
        /\ responses' \in Seq(Responses) /\ Len(responses') = 0
    OBVIOUS
  <1>1. Types'
    BY <1>0 DEF Inv, Types
  <1>2. AgesAreBounded'
    <2>1. Slack' = timeouts + 1 /\ timeouts \in Nat
      BY NoCallIsNoCall DEF Slack, Inv, Types
    <2>2. Age(requests[1].invokeId)' = 0
      BY <1>0 DEF Age
    <2> QED
      BY <1>0, <2>1, <2>2 DEF AgesAreBounded
  <1>3. RequestsAreRight'
    BY <1>0 DEF RequestsAreRight
  <1>4. OwnRequest' /\ OwnResponse'
    BY <1>0 DEF OwnRequest, OwnResponse
  <1>5. OwnResult' /\ OkMeansCarriedOut' /\ IndicationIsOneRequest' /\ AtMostOnce'
    BY DEF Inv, OwnResult, OkMeansCarriedOut, IndicationIsOneRequest, AtMostOnce
  <1> QED
    BY <1>1, <1>2, <1>3, <1>4, <1>5 DEF Inv

\* The fields that a step of a call leaves alone.
Same(c, d) ==
  /\ d \in Calls
  /\ d.service = c.service /\ d.descriptor = c.descriptor /\ d.invokeId = c.invokeId
  /\ d.data = c.data /\ d.options = c.options /\ d.confirmed = c.confirmed

LEMMA WithCellsFacts ==
  ASSUME NEW c \in Calls, NEW data \in Bytes
  PROVE  /\ Same(c, WithCells(c, data))
         /\ WithCells(c, data).blocked /\ WithCells(c, data).collected = data
  <1> DEFINE d == WithCells(c, data)
  <1>1. d \in Calls
    <2>1. PICK x \in Nat : x = c.expected + 1
      BY DEF Calls
    <2>2. [c EXCEPT !.blocked = TRUE, !.collected = data, !.expected = x] \in Calls
      BY Zenon DEF Calls
    <2>3. d = [c EXCEPT !.blocked = TRUE, !.collected = data, !.expected = x]
      BY <2>1 DEF WithCells
    <2> QED
      BY <2>2, <2>3
  <1>2. d.service = c.service /\ d.descriptor = c.descriptor /\ d.invokeId = c.invokeId
    BY DEF WithCells, Calls
  <1>3. d.data = c.data /\ d.options = c.options /\ d.confirmed = c.confirmed
    BY DEF WithCells, Calls
  <1>4. d.blocked = TRUE /\ d.collected = data
    BY DEF WithCells, Calls
  <1> QED
    BY <1>1, <1>2, <1>3, <1>4 DEF Same

LEMMA WithOffsetFacts ==
  ASSUME NEW c \in Calls, NEW e \in Nat
  PROVE  /\ Same(c, WithOffset(c, e)) /\ WithOffset(c, e).offset = e
         /\ WithOffset(c, e).blockNumber = c.blockNumber + 1
         /\ WithOffset(c, e).blocked = c.blocked
  <1> DEFINE d == WithOffset(c, e)
  <1>1. d \in Calls
    <2>1. PICK x \in Nat : x = c.blockNumber + 1
      BY DEF Calls
    <2>2. [c EXCEPT !.offset = e, !.blockNumber = x] \in Calls
      BY Zenon DEF Calls
    <2>3. d = [c EXCEPT !.offset = e, !.blockNumber = x]
      BY <2>1 DEF WithOffset
    <2> QED
      BY <2>2, <2>3
  <1>2. d.service = c.service /\ d.descriptor = c.descriptor /\ d.invokeId = c.invokeId
    BY DEF WithOffset, Calls
  <1>3. d.data = c.data /\ d.options = c.options /\ d.confirmed = c.confirmed
    BY DEF WithOffset, Calls
  <1>4. d.offset = e /\ d.blockNumber = c.blockNumber + 1 /\ d.blocked = c.blocked
    BY DEF WithOffset, Calls
  <1> QED
    BY <1>1, <1>2, <1>3, <1>4 DEF Same

LEMMA GetGoesOnStep ==
  ASSUME Inv, call \in Calls, call # NoCall, NEW h \in Responses, IsAnswer(h), NEW step,
         GetGoesOn(step, h), call' = step.call,
         requests' = <<step.request>>, responses' = <<>>,
         UNCHANGED <<result, nextInvokeId, calls, serverVars, budgets>>
  PROVE  Inv'
  <1> USE DEF serverVars, budgets
  <1> DEFINE n == call.descriptor
             joined == call.collected \o h.data
  <1>1. /\ call.service = "get" /\ h.choice = "Block" /\ ~h.lastBlock
        /\ h.data \in Bytes /\ call.collected \in Bytes /\ n \in Nat
    BY DEF GetGoesOn, Responses, Calls
  <1>2. PICK size \in DataSizes : BringsCells(h, size)
    BY <1>1 DEF IsAnswer
  <1>3. PICK m \in Nat : /\ joined = Prefix(n, size, m)
                         /\ Sending(call.invokeId, n, size, h.blockNumber + 1, m)
    BY <1>1, <1>2 DEF BringsCells
  <1>4. size \in Nat
    BY ServiceAssumption
  <1>5. joined \in Bytes /\ Len(joined) = m
    BY <1>1, <1>3, <1>4, PrefixType
  <1>6. call' = WithCells(call, joined)
    BY DEF GetGoesOn
  <1> HIDE DEF joined
  <1>7. Same(call, call') /\ call'.blocked /\ call'.collected = joined
    BY <1>5, <1>6, WithCellsFacts
  <1>8. PICK r : r = step.request
    OBVIOUS
  <1>9. /\ r.service = "get" /\ r.choice = "Next" /\ r.invokeId = call.invokeId
        /\ r.descriptor = n /\ r.blockNumber = h.blockNumber
    BY <1>8 DEF GetGoesOn, Request
  <1>10. r \in Requests
    <2>1. <<>> \in Bytes /\ h.blockNumber \in Nat
      BY DEF Bytes, Responses
    <2> QED
      BY <1>1, <1>8, <2>1 DEF GetGoesOn, Request, Requests, Calls, Services
  <1>11. IsPresent(r)'
    <2>1. Sending(call.invokeId, call.descriptor, size, r.blockNumber + 1, Len(call.collected))'
      BY <1>3, <1>5, <1>7, <1>9 DEF Sending, Same
    <2>2. call'.collected = Prefix(call'.descriptor, size, Len(call'.collected))
      BY <1>3, <1>5, <1>7 DEF Same
    <2> QED
      BY <1>1, <1>7, <1>9, <2>1, <2>2 DEF IsPresent, Same
  <1>12. RequestIsRight(r)'
    <2>1. n <= calls /\ calls' = calls
      BY DEF Inv, CallIsRight, Types
    <2> QED
      BY <1>9, <2>1 DEF RequestIsRight, Executes
  <1>13. CallIsRight' /\ Age(call.invokeId) = 0
    BY <1>1, <1>7 DEF Inv, CallIsRight, Same, Age
  <1>14. NotYetCarriedOut'
    BY <1>1, <1>7 DEF Inv, NotYetCarriedOut, Same
  <1> QED
    BY <1>7, <1>8, <1>9, <1>10, <1>11, <1>12, <1>13, <1>14, OnlyRequest DEF Same

LEMMA SendGoesOnStep ==
  ASSUME Inv, call \in Calls, call # NoCall, NEW h \in Responses, IsAnswer(h), NEW step,
         SendGoesOn(step, h), call' = step.call,
         requests' = <<step.request>>, responses' = <<>>,
         UNCHANGED <<result, nextInvokeId, calls, serverVars, budgets>>
  PROVE  Inv'
  <1> USE DEF serverVars, budgets
  <1> DEFINE n == call.descriptor
  <1>1. /\ call.service # "get" /\ h.choice = "Ack" /\ n \in Nat /\ call.blockNumber \in Nat
        /\ call.offset \in Nat
    BY DEF SendGoesOn, Calls
  <1>2. /\ call.blocked /\ ~FinalBlock(call)
        /\ Collecting(call.service, call.invokeId, n, Len(call.data),
                      call.blockNumber + 1, call.offset + BlockSize(call))
    BY <1>1 DEF IsAnswer
  <1>3. PICK size \in Nat, e \in Nat :
          /\ size = Len(call.data) /\ e = call.offset + BlockSize(call)
          /\ EndsAt(call, size, e)
    BY <1>1, <1>2, CallBlock DEF Inv
  <1>4. e < size
    BY <1>2, <1>3 DEF EndsAt
  <1>5. call' = WithOffset(call, e)
    BY <1>3 DEF SendGoesOn
  <1>6. /\ Same(call, call') /\ call'.offset = e /\ call'.blockNumber = call.blockNumber + 1
        /\ call'.blocked = call.blocked
    BY <1>5, WithOffsetFacts
  <1>7. /\ call.data = Cells(n, size) /\ call.blockNumber >= 1 /\ n <= calls
        /\ call.options.maxBlockPayloadBytes[call.service] \in 1..(size - 1)
        /\ Age(call.invokeId) = 0 /\ n = calls
    BY <1>1, <1>2, <1>3 DEF Inv, CallIsRight, Types
  <1>8. PICK c \in Calls : c = call'
    BY <1>6 DEF Same
  <1>9. /\ c.data = Cells(c.descriptor, size) /\ c.offset < size /\ c.service \in Services
        /\ c.options.maxBlockPayloadBytes[c.service] \in Nat \ {0}
    <2>1. c.service = call.service /\ c.options = call.options /\ c.data = call.data
          /\ c.descriptor = n /\ c.offset = e
      BY <1>6, <1>8 DEF Same
    <2>2. c.service \in Services
      BY DEF Calls
    <2>3. call.options.maxBlockPayloadBytes[call.service] \in Nat \ {0}
      BY <1>7
    <2> QED
      BY <1>4, <1>7, <2>1, <2>2, <2>3
  <1>10. PICK f \in Nat : EndsAt(c, size, f)
    BY <1>9, BlockFacts
  <1>11. PICK r : r = RequestBlock(c)
    OBVIOUS
  <1>12. /\ r = step.request /\ r \in Requests /\ r.service = call.service
         /\ r.invokeId = call.invokeId /\ r.descriptor = n
         /\ r.blockNumber = call.blockNumber + 1 /\ r.choice = "Block"
         /\ r.data = Cut(n, size, e, f) /\ (r.lastBlock => f = size)
         /\ e <= f /\ f <= size
    BY <1>1, <1>6, <1>7, <1>8, <1>10, <1>11 DEF EndsAt, Same, SendGoesOn
  <1>13. processor[call.service] = BlockState(TRUE, call.invokeId, n, call.blockNumber + 1, 0,
                                              Prefix(n, size, e))
    BY <1>2, <1>3 DEF Collecting
  <1>14. IsPresent(r)'
    <2>1. Collecting(call.service, call.invokeId, call.descriptor, Len(call.data),
                     call.blockNumber, call.offset)'
      BY <1>3, <1>6, <1>13 DEF Collecting, Same
    <2> QED
      BY <1>1, <1>2, <1>6, <1>8, <1>11, <1>12, <2>1 DEF IsPresent, Same
  <1>15. executed[n] = 0
    BY <1>1, <1>2 DEF Inv, NotYetCarriedOut
  <1>16. RequestIsRight(r)'
    <2>1. InTransfer(r, processor'[r.service], size, e, f)
      BY <1>12, <1>13 DEF InTransfer
    <2> QED
      BY <1>1, <1>7, <1>12, <1>15, <2>1 DEF RequestIsRight
  <1>17. CallIsRight'
    <2>1. size = Len(call'.data) /\ call'.data = Cells(n, size) /\ call'.blockNumber # 1
          /\ call'.blockNumber >= 1
      BY <1>1, <1>3, <1>6, <1>7 DEF Same
    <2>2. Age(call.invokeId)' = 0 /\ call'.descriptor = n /\ calls' = n
      BY <1>6, <1>7 DEF Same, Age
    <2> QED
      BY <1>1, <1>4, <1>6, <1>7, <2>1, <2>2 DEF CallIsRight, Same
  <1>18. NotYetCarriedOut'
    BY <1>6, <1>15 DEF Inv, NotYetCarriedOut, Same
  <1> QED
    BY <1>6, <1>7, <1>12, <1>14, <1>16, <1>17, <1>18, OnlyRequest DEF Same

LEMMA ReceiveStep ==
  ASSUME Inv, ReceiveApdu
  PROVE  Inv'
  <1>1. /\ call # NoCall /\ call \in Calls /\ responses # <<>> /\ responses' = Tail(responses)
        /\ UNCHANGED <<nextInvokeId, calls, serverVars, budgets>>
    BY DEF ReceiveApdu, Inv, Types
  <1>2. PICK h : h = Head(responses)
    OBVIOUS
  <1>3. PICK step : step = ReceiveResponse(call, h)
    OBVIOUS
  <1>4. CASE step.status = "Pending"
    <2>1. /\ call' = step.call /\ requests' = Append(requests, step.request)
          /\ UNCHANGED result
      BY <1>2, <1>3, <1>4 DEF ReceiveApdu
    <2>2. h.invokeId = call.invokeId /\ (GetGoesOn(step, h) \/ SendGoesOn(step, h))
      BY <1>1, <1>3, <1>4, ResponseOutcome
    <2>3. IsAnswer(h) /\ Len(responses) = 1 /\ requests = <<>>
      BY <1>1, <1>2, <2>2, OwnAnswer
    <2>4. h \in Responses /\ Len(responses') = 0 /\ responses' \in Seq(Responses)
      BY <1>1, <1>2, <2>3, TailFacts DEF Inv, Types
    <2>5. responses' = <<>>
      BY <2>4, EmptySeq
    <2>6. requests' = <<step.request>>
      BY <2>1, <2>3
    <2> QED
      BY <1>1, <2>1, <2>2, <2>3, <2>4, <2>5, <2>6, GetGoesOnStep, SendGoesOnStep
  <1>5. CASE step.status # "Pending"
    <2>1. Return(step.status, step.data) /\ UNCHANGED requests
      BY <1>2, <1>3, <1>5 DEF ReceiveApdu
    <2> QED
      BY <1>1, <1>2, <1>3, <1>5, <2>1, ReceiveReturns
  <1> QED
    BY <1>4, <1>5

\* What was on the way before a new call has older invoke ids than its own.
LEMMA StartAges ==
  ASSUME Types, AgesAreBounded, call = NoCall, nextInvokeId' = NextInvokeId(nextInvokeId),
         call' # NoCall, responses' = responses, timeouts' = timeouts,
         NEW r \in Requests, r.invokeId = nextInvokeId, requests' = Append(requests, r)
  PROVE  /\ AgesAreBounded' /\ Age(nextInvokeId) \in Nat /\ nextInvokeId' \in InvokeIds
         /\ \A id \in InvokeIds : id = nextInvokeId => Age(id)' = 0
         /\ \A i \in 1..Len(requests) : requests[i].invokeId # nextInvokeId
         /\ \A i \in 1..Len(responses) : responses[i].invokeId # nextInvokeId
  <1>1. /\ nextInvokeId \in InvokeIds /\ timeouts \in Nat /\ timeouts < InvokeIdCount
        /\ Slack = timeouts /\ Slack' = timeouts + 1 /\ InvokeIdCount \in Nat
        /\ Len(requests) \in Nat /\ Len(responses) \in Nat
    BY ServiceAssumption, StaleAssumption, ClientAssumption DEF Types, Slack
  <1>2. \A id \in InvokeIds :
          /\ Age(id) \in Nat
          /\ id = nextInvokeId => Age(id) = InvokeIdCount - 1 /\ Age(id)' = 0
          /\ id # nextInvokeId => Age(id)' = Age(id) + 1
    BY <1>1, AgesGrow
  <1>3. nextInvokeId' \in InvokeIds
    BY <1>1, AgesGrow
  <1>4. \A i \in 1..Len(responses) :
          /\ responses[i].invokeId \in InvokeIds
          /\ Age(responses[i].invokeId) + i <= timeouts
    <2>1. \A i \in 1..Len(responses) : responses[i].invokeId \in InvokeIds
      <3>1. \A i \in 1..Len(responses) : responses[i] \in Responses
        BY DEF Types
      <3> QED
        BY <3>1 DEF Responses
    <2>2. \A i \in 1..Len(responses) : Age(responses[i].invokeId) + i <= Slack
      BY DEF AgesAreBounded
    <2> QED
      BY <1>1, <2>1, <2>2
  <1>5. \A i \in 1..Len(requests) :
          /\ requests[i].invokeId \in InvokeIds
          /\ Age(requests[i].invokeId) + Len(responses) + i <= timeouts
    <2>1. \A i \in 1..Len(requests) : requests[i].invokeId \in InvokeIds
      <3>1. \A i \in 1..Len(requests) : requests[i] \in Requests
        BY DEF Types
      <3> QED
        BY <3>1 DEF Requests
    <2>2. \A i \in 1..Len(requests) : Age(requests[i].invokeId) + Len(responses) + i <= Slack
      BY DEF AgesAreBounded
    <2> QED
      BY <1>1, <2>1, <2>2
  <1>6. \A i \in 1..Len(responses) : responses[i].invokeId # nextInvokeId
    <2> SUFFICES ASSUME NEW i \in 1..Len(responses) PROVE responses[i].invokeId # nextInvokeId
      OBVIOUS
    <2>1. PICK id \in InvokeIds : id = responses[i].invokeId /\ Age(id) + i <= timeouts
      BY <1>4
    <2>2. Age(id) < InvokeIdCount - 1
      BY <1>1, <1>2, <2>1
    <2> QED
      BY <1>1, <1>2, <2>1, <2>2
  <1>7. \A i \in 1..Len(requests) : requests[i].invokeId # nextInvokeId
    <2> SUFFICES ASSUME NEW i \in 1..Len(requests) PROVE requests[i].invokeId # nextInvokeId
      OBVIOUS
    <2>1. PICK id \in InvokeIds :
            id = requests[i].invokeId /\ Age(id) + Len(responses) + i <= timeouts
      BY <1>5
    <2>2. Age(id) < InvokeIdCount - 1
      BY <1>1, <1>2, <2>1
    <2> QED
      BY <1>1, <1>2, <2>1, <2>2
  <1>8. /\ Len(requests') = Len(requests) + 1 /\ requests'[Len(requests) + 1] = r
        /\ \A i \in 1..Len(requests) : requests'[i] = requests[i]
    BY AppendFacts DEF Types
  <1>9. Len(requests) + Len(responses) <= timeouts
    <2>1. CASE Len(requests) > 0
      <3>1. PICK id \in InvokeIds : Age(id) + Len(responses) + Len(requests) <= timeouts
        BY <1>1, <1>5, <2>1
      <3> QED
        BY <1>1, <1>2, <3>1
    <2>2. CASE Len(requests) = 0 /\ Len(responses) > 0
      <3>1. PICK id \in InvokeIds : Age(id) + Len(responses) <= timeouts
        BY <1>1, <1>4, <2>2
      <3> QED
        BY <1>1, <1>2, <2>2, <3>1
    <2>3. CASE Len(requests) = 0 /\ Len(responses) = 0
      BY <1>1, <2>3
    <2> QED
      BY <1>1, <2>1, <2>2, <2>3
  <1>10. ASSUME NEW i \in 1..Len(responses') PROVE Age(responses[i].invokeId)' + i <= Slack'
    <2>1. PICK id \in InvokeIds : /\ id = responses[i].invokeId /\ Age(id) + i <= timeouts
                                  /\ id # nextInvokeId
      BY <1>4, <1>6
    <2>2. Age(responses[i].invokeId)' = Age(id) + 1
      BY <1>2, <2>1 DEF Age
    <2> QED
      BY <1>1, <1>2, <2>1, <2>2
  <1>11. ASSUME NEW i \in 1..Len(requests')
         PROVE  Age(requests[i].invokeId)' + Len(responses') + i <= Slack'
    <2>1. CASE i \in 1..Len(requests)
      <3>1. PICK id \in InvokeIds :
              /\ id = requests'[i].invokeId /\ Age(id) + Len(responses) + i <= timeouts
              /\ id # nextInvokeId
        BY <1>5, <1>7, <1>8, <2>1
      <3>2. Age(requests[i].invokeId)' = Age(id) + 1
        BY <1>2, <3>1 DEF Age
      <3> QED
        BY <1>1, <1>2, <3>1, <3>2
    <2>2. CASE i \notin 1..Len(requests)
      <3>1. i = Len(requests) + 1 /\ requests'[i].invokeId = nextInvokeId
        BY <1>1, <1>8, <2>2
      <3>2. Age(requests[i].invokeId)' = 0
        BY <1>1, <1>2, <3>1 DEF Age
      <3> QED
        BY <1>1, <1>9, <3>1, <3>2
    <2> QED
      BY <2>1, <2>2
  <1>12. AgesAreBounded'
    BY <1>10, <1>11 DEF AgesAreBounded
  <1> QED
    BY <1>1, <1>2, <1>3, <1>6, <1>7, <1>12

\* The request a call begins with.
LEMMA NewRequest ==
  ASSUME NEW c \in Calls, NEW size \in Nat, NEW selective \in BOOLEAN,
         c.offset = 0, c.blockNumber = 1, c.collected = <<>>,
         c.service # "get" => ~selective /\ c.data = Cells(c.descriptor, size),
         c.service = "get" => ~c.blocked,
         c.blocked => c.options.maxBlockPayloadBytes[c.service] \in 1..(size - 1),
         NEW r, r = FirstRequest(c, selective)
  PROVE  /\ r \in Requests /\ r.service = c.service /\ r.invokeId = c.invokeId
         /\ r.descriptor = c.descriptor
         /\ c.service = "get" => r.choice \in {"Normal", "Selective"}
         /\ c.service # "get" =>
              IF c.blocked THEN r = RequestBlock(c) /\ r.choice = "First" /\ ~r.lastBlock
              ELSE r.choice = "Normal" /\ r.data = Cells(r.descriptor, size)
  <1>1. CASE c.blocked
    <2>1. /\ c.service # "get" /\ c.service \in Services /\ c.offset < size
          /\ c.data = Cells(c.descriptor, size)
          /\ c.options.maxBlockPayloadBytes[c.service] \in Nat \ {0}
      BY <1>1 DEF Calls
    <2>2. PICK e \in Nat : e = c.offset + BlockSize(c) /\ EndsAt(c, size, e)
      BY <2>1, BlockFacts
    <2>3. e # size
      <3>1. Len(c.data) = size
        BY <2>1, CellsType DEF Calls
      <3>2. BlockSize(c) = c.options.maxBlockPayloadBytes[c.service]
        BY <1>1, <3>1 DEF BlockSize
      <3> QED
        BY <1>1, <2>2, <3>2
    <2>4. r = RequestBlock(c)
      BY <1>1 DEF FirstRequest
    <2> QED
      BY <1>1, <2>1, <2>2, <2>3, <2>4 DEF EndsAt
  <1>2. CASE ~c.blocked
    <2>1. PICK choice : /\ choice \in {"Normal", "Selective"} /\ (c.service # "get" => choice = "Normal")
                        /\ r = Request(c.service, choice, c.invokeId, c.confirmed, c.descriptor,
                                       0, TRUE, c.data)
      BY <1>2 DEF FirstRequest
    <2>2. /\ r.service = c.service /\ r.choice = choice /\ r.invokeId = c.invokeId
          /\ r.descriptor = c.descriptor /\ r.data = c.data
      BY <2>1 DEF Request
    <2>3. r \in Requests
      BY <2>1 DEF Request, Requests, Calls
    <2> QED
      BY <1>2, <2>1, <2>2, <2>3
  <1> QED
    BY <1>1, <1>2

\* The call that Get, Set or Action makes.
LEMMA NewCall ==
  ASSUME Types, NEW service \in Services, NEW size \in Nat, NEW options \in ServiceOptions,
         NEW confirmed \in BOOLEAN, calls < MaxCalls, NEW data,
         data = IF service = "get" THEN <<>> ELSE Cells(calls + 1, size),
         StartStatus(options, service, data) = "Ok", NEW c,
         c = ServiceCall(service, calls + 1, nextInvokeId, options, confirmed,
                         UsesBlocks(options, service, data), data)
  PROVE  /\ c \in Calls /\ c.service = service /\ c.descriptor = calls + 1
         /\ c.invokeId = nextInvokeId /\ c.offset = 0 /\ c.blockNumber = 1 /\ c.collected = <<>>
         /\ service = "get" => ~c.blocked
         /\ service # "get" => c.data = Cells(c.descriptor, size) /\ Len(c.data) = size
         /\ c.blocked => c.options.maxBlockPayloadBytes[service] \in 1..(size - 1)
  <1> DEFINE blocked == UsesBlocks(options, service, data)
  <1>1. /\ calls + 1 \in 1..MaxCalls /\ calls + 1 \in Nat /\ nextInvokeId \in InvokeIds
    BY ServiceAssumption DEF Types
  <1>2. data \in Bytes /\ (service # "get" => Len(data) = size)
    <2>1. <<>> \in Bytes
      BY DEF Bytes
    <2>2. Cells(calls + 1, size) \in Bytes /\ Len(Cells(calls + 1, size)) = size
      BY <1>1, CellsType
    <2> QED
      BY <2>1, <2>2
  <1>3. blocked \in BOOLEAN /\ (service = "get" => ~blocked)
    BY DEF UsesBlocks
  <1>4. blocked => options.maxBlockPayloadBytes[service] \in 1..(size - 1)
    <2>1. options.maxBlockPayloadBytes[service] \in Nat
      BY DEF ServiceOptions
    <2>2. blocked => service # "get" /\ Len(data) > options.maxBlockPayloadBytes[service]
                     /\ options.maxBlockPayloadBytes[service] # 0
      BY DEF UsesBlocks, StartStatus
    <2> QED
      BY <1>2, <2>1, <2>2
  <1>5. c = ServiceCall(service, calls + 1, nextInvokeId, options, confirmed, blocked, data)
    OBVIOUS
  <1> HIDE DEF blocked
  <1>6. /\ c.service = service /\ c.descriptor = calls + 1 /\ c.blocked = blocked
        /\ c.invokeId = nextInvokeId /\ c.offset = 0 /\ c.blockNumber = 1 /\ c.collected = <<>>
        /\ c.data = data /\ c.options = options
    BY <1>5 DEF ServiceCall, kFirstBlock
  <1>7. c \in Calls
    <2>1. <<>> \in Bytes
      BY DEF Bytes
    <2> QED
      BY <1>1, <1>2, <1>3, <1>5, <2>1 DEF ServiceCall, Calls, kFirstBlock
  <1> QED
    BY <1>2, <1>3, <1>4, <1>6, <1>7

\* A new call c has been made with request r.
LEMMA CallStarts ==
  ASSUME Inv, call = NoCall, calls < MaxCalls, calls' = calls + 1, NEW c \in Calls, call' = c,
         NEW size \in Nat, NEW selective \in BOOLEAN, c.descriptor = calls + 1,
         c.invokeId = nextInvokeId, c.offset = 0, c.blockNumber = 1, c.collected = <<>>,
         c.service = "get" => ~c.blocked,
         c.service # "get" => ~selective /\ c.data = Cells(c.descriptor, size) /\ Len(c.data) = size,
         c.blocked => c.options.maxBlockPayloadBytes[c.service] \in 1..(size - 1),
         nextInvokeId' = NextInvokeId(nextInvokeId), NEW r, r = FirstRequest(c, selective),
         requests' = Append(requests, r), UNCHANGED <<result, responses, serverVars, budgets>>
  PROVE  Inv'
  <1> USE DEF serverVars, budgets
  <1>1. /\ r \in Requests /\ r.service = c.service /\ r.invokeId = nextInvokeId
        /\ r.descriptor = calls + 1
        /\ c.service = "get" => r.choice \in {"Normal", "Selective"}
        /\ c.service # "get" =>
             IF c.blocked THEN r = RequestBlock(c) /\ r.choice = "First" /\ ~r.lastBlock
             ELSE r.choice = "Normal" /\ r.data = Cells(r.descriptor, size)
    BY NewRequest
  <1>2. call' # NoCall /\ calls \in Nat /\ calls' \in 0..MaxCalls /\ calls' \in 1..MaxCalls
    BY NoCallIsNoCall, ServiceAssumption DEF Inv, Types
  <1>3. /\ AgesAreBounded' /\ nextInvokeId' \in InvokeIds
        /\ \A id \in InvokeIds : id = nextInvokeId => Age(id)' = 0
        /\ \A i \in 1..Len(requests) : requests[i].invokeId # nextInvokeId
        /\ \A i \in 1..Len(responses) : responses[i].invokeId # nextInvokeId
    BY <1>1, <1>2, StartAges DEF Inv
  <1>4. /\ requests' \in Seq(Requests) /\ Len(requests) \in Nat
        /\ Len(requests') = Len(requests) + 1 /\ requests'[Len(requests) + 1] = r
        /\ \A i \in 1..Len(requests) : requests'[i] = requests[i] /\ requests[i] \in Requests
    BY <1>1, AppendFacts DEF Inv, Types
  <1>5. Types'
    BY <1>2, <1>3, <1>4 DEF Inv, Types
  <1>6. CallIsRight'
    <2>1. Age(call.invokeId)' = 0
      BY <1>3 DEF Age, Calls
    <2>2. c.service # "get" => c.data = Cells(c.descriptor, Len(c.data))
      OBVIOUS
    <2>3. c.blocked => /\ c.service # "get" /\ c.offset < Len(c.data)
                       /\ c.options.maxBlockPayloadBytes[c.service] \in 1..(Len(c.data) - 1)
      OBVIOUS
    <2> QED
      BY <2>1, <2>2, <2>3 DEF CallIsRight
  <1>7. executed[calls + 1] = 0 /\ executed' = executed
    BY <1>2 DEF Inv, NotYetCarriedOut
  <1>8. ASSUME NEW i \in 1..Len(requests)
        PROVE  /\ RequestIsRight(requests[i])' /\ requests'[i].descriptor <= calls
               /\ requests'[i].choice \in {"Block", "Next"} => i = 1
               /\ \A j \in 1..(i - 1) : requests'[j].descriptor < requests'[i].descriptor
    <2>1. PICK q \in Requests : q = requests[i] /\ q = requests'[i]
      BY <1>4
    <2>2. /\ RequestIsRight(q) /\ (q.choice \in {"Block", "Next"} => i = 1)
          /\ \A j \in 1..(i - 1) : requests[j].descriptor < q.descriptor
      BY <2>1 DEF Inv, RequestsAreRight
    <2>3. q.descriptor <= calls /\ q.descriptor <= calls'
      BY <1>2, <2>2, ServiceAssumption DEF RequestIsRight, Requests
    <2>4. RequestIsRight(q)'
      BY <2>2, <2>3 DEF RequestIsRight
    <2>5. \A j \in 1..(i - 1) : requests'[j] = requests[j]
      BY <1>4
    <2> QED
      BY <2>1, <2>2, <2>3, <2>4, <2>5
  <1>9. RequestIsRight(r)'
    <2>1. r.service # "get" /\ r.choice = "Normal" => r.data = Cells(r.descriptor, Len(r.data))
      <3>1. Len(Cells(r.descriptor, size)) = size
        BY <1>1, CellsType DEF Requests
      <3> QED
        BY <1>1, <3>1
    <2>2. r.descriptor <= calls' /\ executed'[r.descriptor] = 0
      BY <1>1, <1>2, <1>7
    <2>3. /\ r.service = "get" => r.choice \in {"Normal", "Selective"}
          /\ r.service # "get" => r.choice \in {"Normal", "First"}
          /\ r.choice = "First" => ~r.lastBlock
      BY <1>1
    <2> QED
      BY <2>1, <2>2, <2>3 DEF RequestIsRight
  <1>10. RequestsAreRight'
    <2> SUFFICES ASSUME NEW i \in 1..Len(requests')
                 PROVE  /\ RequestIsRight(requests[i])'
                        /\ requests'[i].choice \in {"Block", "Next"} => i = 1
                        /\ \A j \in 1..(i - 1) : requests'[j].descriptor < requests'[i].descriptor
      BY DEF RequestsAreRight
    <2>1. CASE i \in 1..Len(requests)
      BY <1>8, <2>1
    <2>2. CASE i = Len(requests) + 1
      <3>1. requests'[i] = r /\ r.choice \notin {"Block", "Next"}
        BY <1>1, <1>4, <2>2
      <3>2. \A j \in 1..(i - 1) : requests'[j].descriptor < r.descriptor
        <4> SUFFICES ASSUME NEW j \in 1..(i - 1) PROVE requests'[j].descriptor < r.descriptor
          OBVIOUS
        <4>1. j \in 1..Len(requests)
          BY <1>4, <2>2
        <4>2. PICK q \in Requests : q = requests'[j]
          BY <1>4, <4>1
        <4>3. q.descriptor <= calls /\ q.descriptor \in Int
          BY <1>8, <4>1, <4>2 DEF Requests
        <4> QED
          BY <1>1, <1>2, <4>2, <4>3
      <3> QED
        BY <1>9, <3>1, <3>2
    <2> QED
      BY <1>4, <2>1, <2>2
  <1>11. IsPresent(r)'
    BY <1>1 DEF IsPresent
  <1>12. OwnRequest'
    <2> SUFFICES ASSUME NEW i \in 1..Len(requests'),
                        \/ requests'[i].invokeId = nextInvokeId
                        \/ requests'[i].descriptor = calls + 1
                 PROVE  i = Len(requests') /\ IsPresent(requests[i])'
      BY DEF OwnRequest
    <2>1. i \notin 1..Len(requests)
      <3> SUFFICES ASSUME i \in 1..Len(requests) PROVE FALSE
        OBVIOUS
      <3>1. PICK q \in Requests : q = requests'[i]
        BY <1>4
      <3>2. q.descriptor <= calls /\ q.descriptor \in Int
        BY <1>8, <3>1 DEF Requests
      <3>3. requests'[i].invokeId # nextInvokeId
        BY <1>3, <1>4
      <3> QED
        BY <1>2, <3>1, <3>2, <3>3
    <2>2. i = Len(requests') /\ requests'[i] = r
      BY <1>4, <2>1
    <2> QED
      BY <1>11, <2>2
  <1>13. OwnResponse'
    BY <1>3 DEF OwnResponse
  <1>14. NotYetCarriedOut'
    BY <1>2, <1>7 DEF Inv, NotYetCarriedOut
  <1>15. OwnResult' /\ OkMeansCarriedOut' /\ IndicationIsOneRequest' /\ AtMostOnce'
    BY DEF Inv, OwnResult, OkMeansCarriedOut, IndicationIsOneRequest, AtMostOnce
  <1> QED
    BY <1>3, <1>5, <1>6, <1>10, <1>12, <1>13, <1>14, <1>15 DEF Inv

LEMMA StartStep ==
  ASSUME Inv, NEW service \in Services, NEW size \in Nat, NEW options \in ServiceOptions,
         NEW confirmed \in BOOLEAN, NEW selective \in BOOLEAN, service # "get" => ~selective,
         Start(service, size, options, confirmed, selective)
  PROVE  Inv'
  <1>1. PICK data : data = IF service = "get" THEN <<>> ELSE Cells(calls + 1, size)
    OBVIOUS
  <1>2. PICK status : status = StartStatus(options, service, data)
    OBVIOUS
  <1>3. PICK c : c = ServiceCall(service, calls + 1, nextInvokeId, options, confirmed,
                                 UsesBlocks(options, service, data), data)
    OBVIOUS
  <1>4. /\ call = NoCall /\ calls < MaxCalls /\ calls' = calls + 1
        /\ UNCHANGED <<responses, serverVars, budgets>>
        /\ IF status = "Ok"
           THEN /\ call' = c /\ nextInvokeId' = NextInvokeId(nextInvokeId)
                /\ requests' = Append(requests, FirstRequest(c, selective)) /\ UNCHANGED result
           ELSE /\ result' = Outcome(calls + 1, service, status, <<>>)
                /\ UNCHANGED <<call, nextInvokeId, requests>>
    BY <1>1, <1>2, <1>3 DEF Start
  <1>5. CASE status = "Ok"
    <2>1. /\ c \in Calls /\ c.service = service /\ c.descriptor = calls + 1
          /\ c.invokeId = nextInvokeId /\ c.offset = 0 /\ c.blockNumber = 1 /\ c.collected = <<>>
          /\ service = "get" => ~c.blocked
          /\ service # "get" => c.data = Cells(c.descriptor, size) /\ Len(c.data) = size
          /\ c.blocked => c.options.maxBlockPayloadBytes[service] \in 1..(size - 1)
      BY <1>1, <1>2, <1>3, <1>4, <1>5, NewCall DEF Inv
    <2>2. PICK r : r = FirstRequest(c, selective)
      OBVIOUS
    <2> QED
      BY <1>4, <1>5, <2>1, <2>2, CallStarts
  <1>6. CASE status # "Ok"
    <2> USE DEF serverVars, budgets
    <2>1. calls' \in 0..MaxCalls /\ calls <= calls'
      BY <1>4, ServiceAssumption DEF Inv, Types
    <2>2. AgesAreBounded'
      BY <1>4, <1>6 DEF Inv, AgesAreBounded, Age, Slack
    <2>3. OwnResult' /\ OkMeansCarriedOut'
      BY <1>4, <1>6 DEF OwnResult, OkMeansCarriedOut, Outcome
    <2> QED
      BY <1>4, <1>6, <2>1, <2>2, <2>3, NoCallStep DEF Inv, Types
  <1> QED
    BY <1>5, <1>6

-----------------------------------------------------------------------------
(***************************************************************************)
(* Theorems.                                                               *)
(***************************************************************************)
LEMMA InitInv == Init => Inv
  <1> SUFFICES ASSUME Init PROVE Inv
    OBVIOUS
  <1> USE DEF Init
  <1>1. Len(requests) = 0 /\ Len(responses) = 0
    OBVIOUS
  <1>2. Types
    <2>1. processor \in [Services -> Blocks] /\ executed \in [1..MaxCalls -> Nat]
      BY EmptyBlocks
    <2> QED
      BY <2>1, ServiceAssumption, ClientAssumption DEF Types, InvokeIds
  <1>3. AgesAreBounded /\ CallIsRight /\ RequestsAreRight /\ OwnRequest /\ OwnResponse
    BY <1>1 DEF AgesAreBounded, CallIsRight, RequestsAreRight, OwnRequest, OwnResponse
  <1>4. NotYetCarriedOut /\ OwnResult /\ OkMeansCarriedOut /\ IndicationIsOneRequest /\ AtMostOnce
    BY DEF NotYetCarriedOut, OwnResult, OkMeansCarriedOut, IndicationIsOneRequest, AtMostOnce,
           Outcome, Indication, NoIndication
  <1> QED
    BY <1>2, <1>3, <1>4 DEF Inv

LEMMA NextInv == Inv /\ [Next]_vars => Inv'
  <1> SUFFICES ASSUME Inv, [Next]_vars PROVE Inv'
    OBVIOUS
  <1>1. CASE Get
    <2>1. PICK o \in ClientOptions, confirmed \in Confirmed, selective \in Selective :
            Start("get", 0, o, confirmed, selective)
      BY <1>1 DEF Get
    <2>2. "get" \in Services /\ o \in ServiceOptions /\ confirmed \in BOOLEAN /\ selective \in BOOLEAN
      BY ServiceAssumption DEF Services
    <2> QED
      BY <2>1, <2>2, StartStep
  <1>2. CASE Set
    <2>1. PICK size \in DataSizes, o \in ClientOptions, confirmed \in Confirmed :
            Start("set", size, o, confirmed, FALSE)
      BY <1>2 DEF Set
    <2>2. "set" \in Services /\ size \in Nat /\ o \in ServiceOptions /\ confirmed \in BOOLEAN
      BY ServiceAssumption DEF Services
    <2> DEFINE selective == FALSE
    <2>3. selective \in BOOLEAN /\ ~selective /\ Start("set", size, o, confirmed, selective)
      BY <2>1
    <2> HIDE DEF selective
    <2> QED
      BY <2>2, <2>3, StartStep
  <1>3. CASE Action
    <2>1. PICK size \in DataSizes \cup {0}, o \in ClientOptions, confirmed \in Confirmed :
            Start("action", size, o, confirmed, FALSE)
      BY <1>3 DEF Action
    <2>2. "action" \in Services /\ size \in Nat /\ o \in ServiceOptions /\ confirmed \in BOOLEAN
      BY ServiceAssumption DEF Services
    <2> DEFINE selective == FALSE
    <2>3. selective \in BOOLEAN /\ ~selective /\ Start("action", size, o, confirmed, selective)
      BY <2>1
    <2> HIDE DEF selective
    <2> QED
      BY <2>2, <2>3, StartStep
  <1>4. CASE ReceiveApdu
    BY <1>4, ReceiveStep
  <1>5. CASE GiveUp
    BY <1>5, GiveUpStep
  <1>6. CASE Reassociate
    BY <1>6, ReassociateStep
  <1>7. CASE RunOnce \/ RunOnceSendFails
    <2>1. PICK r : r = Head(requests)
      OBVIOUS
    <2>2. PICK reply \in Replies(r), sent \in BOOLEAN : Serve(r, reply, sent)
      BY <1>7, <2>1 DEF RunOnce, RunOnceSendFails
    <2>3. /\ requests # <<>> /\ requests' = Tail(requests)
          /\ UNCHANGED <<clientVars, timeouts>>
      BY <1>7 DEF RunOnce, RunOnceSendFails, budgets
    <2> QED
      BY <2>1, <2>2, <2>3, ServeStep
  <1>8. CASE RunOnceMalformed
    BY <1>8, IdleStep DEF RunOnceMalformed
  <1>9. CASE LoseRequest
    BY <1>9, LoseStep
  <1>10. CASE UNCHANGED vars
    BY <1>10, IdleStep DEF vars, clientVars
  <1> QED
    BY <1>1, <1>2, <1>3, <1>4, <1>5, <1>6, <1>7, <1>8, <1>9, <1>10 DEF Next

\* The invariant of client, processor and channels.
THEOREM XdlmsInvariant == Spec => []Inv
  BY InitInv, NextInv, PTL DEF Spec

\* OwnResult: XdlmsClient::Get and Action never return data of an earlier call
\* whose response came late, of two transfers or of half a one, for any number of
\* invoke ids greater than the calls that timed out, and any block sizes.
THEOREM OwnResultTheorem == Spec => []OwnResult
  <1>1. Inv => OwnResult
    BY DEF Inv
  <1> QED
    BY <1>1, XdlmsInvariant, PTL

\* OkMeansCarriedOut: a SET or ACTION for which XdlmsClient returns Ok has been
\* carried out by the handler behind XdlmsServerApduProcessor.
THEOREM OkMeansCarriedOutTheorem == Spec => []OkMeansCarriedOut
  <1>1. Inv => OkMeansCarriedOut
    BY DEF Inv
  <1> QED
    BY <1>1, XdlmsInvariant, PTL

\* IndicationIsOneRequest: what XdlmsServerApduProcessor collects from blocks and
\* gives to the handler is one whole request, whatever transfers were abandoned.
THEOREM IndicationTheorem == Spec => []IndicationIsOneRequest
  <1>1. Inv => IndicationIsOneRequest
    BY DEF Inv
  <1> QED
    BY <1>1, XdlmsInvariant, PTL

\* AtMostOnce: however the blocks and responses of calls are lost or abandoned,
\* the handler is given no call twice.
THEOREM AtMostOnceTheorem == Spec => []AtMostOnce
  <1>1. Inv => AtMostOnce
    BY DEF Inv
  <1> QED
    BY <1>1, XdlmsInvariant, PTL

\* The statuses of a request that is out of step with the transfer.
OutOfStep(p) == p.status \in {"DecodeFailed", "InvokeIdMismatch"}

LEMMA DispatchOutOfStep ==
  ASSUME NEW b, NEW i, NEW collected \in BOOLEAN, NEW reply, NEW response,
         reply.status \in {"Ok", "HandlerFailed"}, NEW p,
         p = Dispatch(b, i, collected, reply, response), OutOfStep(p)
  PROVE  collected /\ p.blocks = b
  BY DEF Dispatch, OutOfStep, Refused, Processed

LEMMA SendOutOfStep ==
  ASSUME NEW b, NEW i, NEW p, p = SendNextGetResponseBlock(b, ServerOptions, i)
  PROVE  ~OutOfStep(p)
  <1>1. \/ p = Refused("InvalidArgument", EmptyBlockState)
        \/ \E c, response : p = Processed("Ok", c, response, i)
    BY DEF SendNextGetResponseBlock
  <1>2. p.status \in {"InvalidArgument", "Ok"}
    BY <1>1 DEF Refused, Processed
  <1> QED
    BY <1>2 DEF OutOfStep

LEMMA GetOutOfStep ==
  ASSUME NEW b, NEW r, NEW reply, reply.status \in {"Ok", "HandlerFailed"}, NEW p,
         p = ProcessGetRequest(b, ServerOptions, r, reply), OutOfStep(p)
  PROVE  ~p.blocks.active
  <1>1. ASSUME NEW status, NEW c, p = Refused(status, c) PROVE p.status = status /\ p.blocks = c
    BY <1>1, RefusedFacts
  <1>2. CASE r.choice = "Next"
    <2>1. p = ProcessGetNext(b, ServerOptions, r)
      BY <1>2 DEF ProcessGetRequest
    <2>2. \/ p = Refused("DecodeFailed", b) /\ ~b.active
          \/ p = Refused("InvokeIdMismatch", EmptyBlockState)
          \/ p = Refused("DecodeFailed", EmptyBlockState)
          \/ p = SendNextGetResponseBlock(b, ServerOptions, NoIndication)
      BY <2>1 DEF ProcessGetNext
    <2> QED
      BY <1>1, <2>2, SendOutOfStep, EmptyBlocks
  <1>3. CASE r.choice # "Next" /\ b.active
    <2>1. p = Refused("UnsupportedFeature", b) \/ p = Refused("DecodeFailed", EmptyBlockState)
      BY <1>3 DEF ProcessGetRequest
    <2>2. p = Refused("DecodeFailed", EmptyBlockState)
      BY <1>1, <2>1 DEF OutOfStep
    <2> QED
      BY <1>1, <2>2, EmptyBlocks
  <1>4. CASE r.choice # "Next" /\ ~b.active
    <2> DEFINE indicated == Indication("get", r.descriptor, <<>>)
    <2>1. \/ p = Refused("UnsupportedFeature", b)
          \/ p = Processed(reply.status, b, NoResponse, indicated)
          \/ p = EncodeGetResponseOrStartBlocks(b, ServerOptions, r, reply, indicated)
      BY <1>4 DEF ProcessGetRequest
    <2> HIDE DEF indicated
    <2>2. CASE p = EncodeGetResponseOrStartBlocks(b, ServerOptions, r, reply, indicated)
      <3>1. \/ \E status, response : p = Processed(status, b, response, indicated)
            \/ \E c : p = SendNextGetResponseBlock(c, ServerOptions, indicated)
        BY <2>2 DEF EncodeGetResponseOrStartBlocks
      <3>2. \E status, response : p = Processed(status, b, response, indicated)
        BY <3>1, SendOutOfStep
      <3>3. p.blocks = b
        BY <3>2 DEF Processed
      <3> QED
        BY <1>4, <3>3
    <2>3. CASE p # EncodeGetResponseOrStartBlocks(b, ServerOptions, r, reply, indicated)
      <3>1. p.blocks = b
        BY <2>1, <2>3 DEF Refused, Processed
      <3> QED
        BY <1>4, <3>1
    <2> QED
      BY <2>2, <2>3
  <1> QED
    BY <1>2, <1>3, <1>4

LEMMA BlockedOutOfStep ==
  ASSUME NEW b, NEW r, NEW reply, reply.status \in {"Ok", "HandlerFailed"}, NEW p,
         p = ProcessBlockedRequest(b, ServerOptions, r, reply), OutOfStep(p)
  PROVE  ~p.blocks.active
  <1> DEFINE yes == TRUE
             no == FALSE
  <1>0. yes \in BOOLEAN /\ no \in BOOLEAN /\ ~no
    OBVIOUS
  <1>1. ASSUME NEW status, NEW c, p = Refused(status, c) PROVE p.status = status /\ p.blocks = c
    BY <1>1, RefusedFacts
  <1>2. CASE r.choice = "First"
    <2>1. p = ProcessFirstBlock(b, ServerOptions, r, reply)
      BY <1>2 DEF ProcessBlockedRequest
    <2>2. CASE b.active
      <3>1. p = Refused("DecodeFailed", EmptyBlockState)
        BY <2>1, <2>2 DEF ProcessFirstBlock
      <3> QED
        BY <1>1, <3>1, EmptyBlocks
    <2>3. CASE ~b.active
      <3>1. \/ \E status : p = Refused(status, b)
            \/ \E c, response : p = Processed("Ok", c, response, NoIndication)
            \/ \E i, response : p = Dispatch(b, i, yes, reply, response)
        BY <2>1, <2>3 DEF ProcessFirstBlock
      <3> HIDE DEF yes, no
      <3>2. CASE \E c, response : p = Processed("Ok", c, response, NoIndication)
        <4>1. p.status = "Ok"
          BY <3>2 DEF Processed
        <4> QED
          BY <4>1 DEF OutOfStep
      <3>3. CASE \E i, response : p = Dispatch(b, i, yes, reply, response)
        <4>1. p.blocks = b
          BY <1>0, <3>3, DispatchOutOfStep
        <4> QED
          BY <2>3, <4>1
      <3>4. CASE \E status : p = Refused(status, b)
        BY <1>1, <2>3, <3>4
      <3> QED
        BY <3>1, <3>2, <3>3, <3>4
    <2> QED
      BY <2>2, <2>3
  <1>3. CASE r.choice = "Block"
    <2>1. p = ProcessNextBlock(b, ServerOptions, r, reply)
      BY <1>3 DEF ProcessBlockedRequest
    <2>2. \/ p = Refused("DecodeFailed", b) /\ ~b.active
          \/ \E status : p = Refused(status, EmptyBlockState)
          \/ \E c, response : p = Processed("Ok", c, response, NoIndication)
          \/ \E i, response : p = Dispatch(EmptyBlockState, i, yes, reply, response)
      BY <2>1 DEF ProcessNextBlock
    <2> HIDE DEF yes, no
    <2>3. CASE \E c, response : p = Processed("Ok", c, response, NoIndication)
      <3>1. p.status = "Ok"
        BY <2>3 DEF Processed
      <3> QED
        BY <3>1 DEF OutOfStep
    <2>4. CASE \E i, response : p = Dispatch(EmptyBlockState, i, yes, reply, response)
      <3>1. p.blocks = EmptyBlockState
        BY <1>0, <2>4, DispatchOutOfStep
      <3> QED
        BY <3>1, EmptyBlocks
    <2>5. CASE \E status : p = Refused(status, EmptyBlockState)
      BY <1>1, <2>5, EmptyBlocks
    <2>6. CASE p = Refused("DecodeFailed", b) /\ ~b.active
      BY <1>1, <2>6
    <2> QED
      BY <2>2, <2>3, <2>4, <2>5, <2>6
  <1>4. CASE r.choice \notin {"First", "Block"}
    <2>1. \/ p = Refused("UnsupportedFeature", b)
          \/ \E i, response : p = Dispatch(b, i, no, reply, response)
      BY <1>4 DEF ProcessBlockedRequest
    <2> HIDE DEF yes, no
    <2>2. p # Refused("UnsupportedFeature", b)
      BY <1>1 DEF OutOfStep
    <2> QED
      BY <1>0, <2>1, <2>2, DispatchOutOfStep
  <1> QED
    BY <1>2, <1>3, <1>4

\* RefusalEndsTransfer: when XdlmsServerApduProcessor refuses a request because it
\* does not fit the transfer in progress, that transfer is over.
THEOREM RefusalEndsTransferTheorem == Spec => []RefusalEndsTransfer
  <1>1. Init => RefusalEndsTransfer
    BY DEF Init, RefusalEndsTransfer
  <1>2. Inv /\ RefusalEndsTransfer /\ [Next]_vars => RefusalEndsTransfer'
    <2> SUFFICES ASSUME Inv, RefusalEndsTransfer, [Next]_vars PROVE RefusalEndsTransfer'
      OBVIOUS
    <2>1. CASE RunOnce \/ RunOnceSendFails
      <3>1. PICK r : r = Head(requests)
        OBVIOUS
      <3>2. PICK reply \in Replies(r), sent \in BOOLEAN : Serve(r, reply, sent)
        BY <2>1, <3>1 DEF RunOnce, RunOnceSendFails
      <3>3. PICK p : /\ p = ProcessRequest(processor, ServerOptions, r, reply)
                     /\ processor' = [processor EXCEPT ![r.service] = p.blocks]
                     /\ served' = <<r.service, p.status>>
        BY <3>2 DEF Serve
      <3>4. r \in Requests /\ r.service \in Services
        <4>1. requests # <<>> /\ requests \in Seq(Requests)
          BY <2>1 DEF RunOnce, RunOnceSendFails, Inv, Types
        <4>2. r \in Requests
          BY <3>1, <4>1, TailFacts
        <4> QED
          BY <4>2 DEF Requests
      <3>5. processor'[r.service] = p.blocks
        BY <3>3, <3>4 DEF Inv, Types
      <3>6. reply.status \in {"Ok", "HandlerFailed"}
        BY <3>4, ReplyFacts
      <3>7. OutOfStep(p) => ~p.blocks.active
        BY <3>3, <3>6, GetOutOfStep, BlockedOutOfStep DEF ProcessRequest
      <3> QED
        BY <3>3, <3>5, <3>7 DEF RefusalEndsTransfer, OutOfStep
    <2>2. CASE RunOnceMalformed
      BY <2>2 DEF RunOnceMalformed, RefusalEndsTransfer, Services
    <2>3. CASE UNCHANGED <<processor, served>>
      BY <2>3 DEF RefusalEndsTransfer
    <2>4. Get \/ Set \/ Action => UNCHANGED <<processor, served>>
      BY DEF Get, Set, Action, Start, serverVars
    <2>5. ReceiveApdu \/ GiveUp \/ Reassociate \/ LoseRequest => UNCHANGED <<processor, served>>
      BY DEF ReceiveApdu, GiveUp, Reassociate, LoseRequest, serverVars
    <2> QED
      BY <2>1, <2>2, <2>3, <2>4, <2>5 DEF Next, vars
  <1> QED
    BY <1>1, <1>2, XdlmsInvariant, PTL DEF Spec

=============================================================================
