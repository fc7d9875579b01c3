----------------------------- MODULE XdlmsService -----------------------------
(***************************************************************************)
(* An XdlmsClient and an XdlmsServerApduProcessor, each with its APDU      *)
(* channel.  The client makes one GET, SET or ACTION call after another;   *)
(* a call whose ReceiveApdu fails returns while its request or response is *)
(* still on the way, so that a later call may read a response that is not  *)
(* its own.  A request the processor refuses gets no response, as          *)
(* ServerEndpoint::RunOnce then returns without sending.  One association  *)
(* may follow another on the same endpoint.                                *)
(*                                                                         *)
(* Calls are numbered; the number is the descriptor of a call's requests   *)
(* and part of every cell of its data, so that data can be traced.         *)
(***************************************************************************)
EXTENDS XdlmsClient

CONSTANTS
  ClientOptions,  \* the ServiceOptions a call may be made with
  ServerOptions,  \* those of the processor
  UsedServices,  \* services the client calls
  DataSizes,     \* sizes of values and parameters
  Selective,     \* whether a GET may have selective access, a set of BOOLEANs
  Confirmed,     \* service classes the client uses
  HandlerFails,  \* TRUE if the handler may refuse or fail
  MaxCalls,      \* bound: calls of the client
  MaxTimeouts,   \* bound: calls that give up waiting
  MaxFaults      \* bound: APDUs lost, and requests that do not decode

ASSUME ServiceAssumption ==
  /\ ClientOptions \subseteq ServiceOptions /\ ServerOptions \in ServiceOptions
  /\ UsedServices \subseteq Services
  /\ 1 \in DataSizes /\ DataSizes \subseteq Nat \ {0}
  /\ Selective \subseteq BOOLEAN /\ Confirmed \subseteq BOOLEAN /\ HandlerFails \in BOOLEAN
  /\ MaxCalls \in Nat /\ MaxTimeouts \in Nat /\ MaxFaults \in Nat

\* Responses of timed-out calls stay distinguishable while there are fewer of
\* them than invoke ids.
ASSUME StaleAssumption == MaxTimeouts < InvokeIdCount

VARIABLES
  nextInvokeId,  \* InvokeIdAllocator::next_
  call,          \* the client's call, NoCall between calls
  processor,     \* [Services -> BlockState]
  requests,      \* APDUs on their way to the server
  responses,     \* APDUs on their way to the client
  calls,         \* number of calls so far
  result,        \* the last call that returned
  executed,      \* executed[n]: how often the handler was given call n
  accepted,      \* the calls whose SET or ACTION the handler carried out
  indication,    \* the last indication the handler was given
  served,        \* service and status of the last request
  timeouts, faults

vars == <<nextInvokeId, call, processor, requests, responses, calls, result,
          executed, accepted, indication, served, timeouts, faults>>

clientVars == <<nextInvokeId, call, calls, result>>
serverVars == <<processor, executed, accepted, indication, served>>
budgets == <<timeouts, faults>>

Cells(n, size) == [i \in 1..size |-> <<n, i, size>>]

Outcome(n, service, status, data) ==
  [id |-> n, service |-> service, status |-> status, data |-> data]

Init ==
  /\ nextInvokeId = 1
  /\ call = NoCall
  /\ processor = [s \in Services |-> EmptyBlockState]
  /\ requests = <<>>
  /\ responses = <<>>
  /\ calls = 0
  /\ result = Outcome(0, "none", "none", <<>>)
  /\ executed = [n \in 1..MaxCalls |-> 0]
  /\ accepted = {}
  /\ indication = NoIndication
  /\ served = <<"none", "Ok">>
  /\ timeouts = 0
  /\ faults = 0

-----------------------------------------------------------------------------
(***************************************************************************)
(* The client.                                                             *)
(***************************************************************************)
Return(status, data) ==
  /\ call' = NoCall
  /\ result' = Outcome(call.descriptor, call.service, status, data)

Start(service, size, options, confirmed, selective) ==
  LET data == IF service = "get" THEN <<>> ELSE Cells(calls + 1, size)
      status == StartStatus(options, service, data)
      new == ServiceCall(service, calls + 1, nextInvokeId, options, confirmed,
                         UsesBlocks(options, service, data), data)
  IN /\ call = NoCall
     /\ calls < MaxCalls
     /\ calls' = calls + 1
     /\ IF status = "Ok"
        THEN /\ call' = new
             /\ nextInvokeId' = NextInvokeId(nextInvokeId)
             /\ requests' = Append(requests, FirstRequest(new, selective))
             /\ UNCHANGED result
        ELSE /\ result' = Outcome(calls + 1, service, status, <<>>)
             /\ UNCHANGED <<call, nextInvokeId, requests>>
     /\ UNCHANGED <<responses, serverVars, budgets>>

Get ==
  \E o \in ClientOptions, confirmed \in Confirmed, selective \in Selective :
    "get" \in UsedServices /\ Start("get", 0, o, confirmed, selective)

Set ==
  \E size \in DataSizes, o \in ClientOptions, confirmed \in Confirmed :
    "set" \in UsedServices /\ Start("set", size, o, confirmed, FALSE)

\* Size 0 is a method without parameter.
Action ==
  \E size \in DataSizes \cup {0}, o \in ClientOptions, confirmed \in Confirmed :
    "action" \in UsedServices /\ Start("action", size, o, confirmed, FALSE)

ReceiveApdu ==
  /\ call # NoCall
  /\ responses # <<>>
  /\ responses' = Tail(responses)
  /\ LET step == ReceiveResponse(call, Head(responses))
     IN IF step.status = "Pending"
        THEN /\ call' = step.call
             /\ requests' = Append(requests, step.request)
             /\ UNCHANGED result
        ELSE Return(step.status, step.data) /\ UNCHANGED requests
  /\ UNCHANGED <<nextInvokeId, calls, serverVars, budgets>>

\* SendApdu or ReceiveApdu failed.
GiveUp ==
  /\ call # NoCall
  /\ timeouts < MaxTimeouts
  /\ timeouts' = timeouts + 1
  /\ Return("ReceiveFailed", <<>>)
  /\ UNCHANGED <<nextInvokeId, calls, requests, responses, serverVars, faults>>

\* The connection is closed and the endpoint opened again for the same client or
\* for another one, whose invoke ids start over: what was on the way is lost,
\* but the processor is built in the constructor of ServerEndpoint and keeps its
\* block states.
Reassociate ==
  /\ call = NoCall
  /\ requests' = <<>>
  /\ responses' = <<>>
  /\ nextInvokeId' \in {1, nextInvokeId}
  /\ UNCHANGED <<call, calls, result, serverVars, budgets>>

-----------------------------------------------------------------------------
(***************************************************************************)
(* The server and the channels.                                            *)
(***************************************************************************)
Replies(request) ==
  {Reply("Ok", TRUE, TRUE, 0, Cells(request.descriptor, size)) : size \in DataSizes}
    \cup IF HandlerFails
         THEN {Reply("Ok", TRUE, TRUE, 1, <<>>), Reply("HandlerFailed", TRUE, TRUE, 0, <<>>),
               Reply("Ok", FALSE, TRUE, 0, Cells(request.descriptor, 1)),
               Reply("Ok", TRUE, FALSE, 0, Cells(request.descriptor, 1))}
         ELSE {}

\* RunOnce with the request and the reply the handler would give to it; the
\* response is sent unless Protect or SendApdu fails.
Serve(request, reply, sent) ==
  LET p == ProcessRequest(processor, ServerOptions, request, reply)
      given == p.indication # NoIndication
  IN /\ processor' = [processor EXCEPT ![request.service] = p.blocks]
     /\ responses' = IF p.status = "Ok" /\ sent THEN Append(responses, p.response) ELSE responses
     /\ served' = <<request.service, p.status>>
     /\ indication' = IF given THEN p.indication ELSE indication
     /\ executed' = IF given
                    THEN [executed EXCEPT ![p.indication.descriptor] = @ + 1]
                    ELSE executed
     /\ accepted' = IF given /\ reply.status = "Ok" /\ reply.accessResult = 0
                    THEN accepted \cup {p.indication.descriptor}
                    ELSE accepted

RunOnce ==
  /\ requests # <<>>
  /\ requests' = Tail(requests)
  /\ \E reply \in Replies(Head(requests)) : Serve(Head(requests), reply, TRUE)
  /\ UNCHANGED <<clientVars, budgets>>

\* The same for a response that is lost on its way.
RunOnceSendFails ==
  /\ faults < MaxFaults
  /\ requests # <<>>
  /\ requests' = Tail(requests)
  /\ \E reply \in Replies(Head(requests)) : Serve(Head(requests), reply, FALSE)
  /\ faults' = faults + 1
  /\ UNCHANGED <<clientVars, timeouts>>

\* ProcessRequest stops before it looks at a block state when Unprotect or
\* DecodeXdlmsApdu fails.
RunOnceMalformed ==
  /\ faults < MaxFaults
  /\ faults' = faults + 1
  /\ served' = <<"malformed", "DecodeFailed">>
  /\ UNCHANGED <<clientVars, processor, requests, responses, executed, accepted,
                 indication, timeouts>>

LoseRequest ==
  /\ faults < MaxFaults
  /\ requests # <<>>
  /\ requests' = Tail(requests)
  /\ faults' = faults + 1
  /\ UNCHANGED <<clientVars, serverVars, responses, timeouts>>

Next ==
  \/ Get
  \/ Set
  \/ Action
  \/ ReceiveApdu
  \/ GiveUp
  \/ Reassociate
  \/ RunOnce
  \/ RunOnceSendFails
  \/ RunOnceMalformed
  \/ LoseRequest

Spec == Init /\ [][Next]_vars

\* The server loop calls RunOnce again and again; a blocked ReceiveApdu gets
\* the APDU that has arrived.
Fairness == WF_vars(RunOnce) /\ WF_vars(ReceiveApdu)

FairSpec == Spec /\ Fairness

-----------------------------------------------------------------------------
(***************************************************************************)
(* Properties.                                                             *)
(***************************************************************************)
InvokeIds == 1..InvokeIdCount

TypeOK ==
  /\ nextInvokeId \in InvokeIds
  /\ call.invokeId \in InvokeIds \cup {0}
  /\ calls \in 0..MaxCalls
  /\ \A s \in Services :
       /\ processor[s].active \in BOOLEAN
       /\ processor[s].invokeId \in InvokeIds \cup {0}
       /\ Len(processor[s].data) <= ServerOptions.maxBlockTransferBytes
  /\ Len(call.collected) <= call.options.maxBlockTransferBytes
  /\ timeouts \in 0..MaxTimeouts /\ faults \in 0..MaxFaults

\* A GET or ACTION that returns Ok returns the data the handler produced for
\* this very call, complete and in order: never that of an earlier call whose
\* response came late, never blocks of two transfers, never one cut short.
OwnResult ==
  result.status = "Ok" /\ result.service # "set" =>
    result.data \in {Cells(result.id, n) : n \in DataSizes}

\* A SET or ACTION that returns Ok has been carried out by the handler.
OkMeansCarriedOut ==
  result.status = "Ok" /\ result.service # "get" => result.id \in accepted

\* What the handler is given is one whole request of the client: a SET or
\* ACTION collected from blocks never has the descriptor of one transfer and
\* data of another, a gap or a repetition.
IndicationIsOneRequest ==
  indication.service \in {"set", "action"} =>
    indication.data = Cells(indication.descriptor, Len(indication.data))

\* No call is carried out twice, whatever is late, lost or abandoned.
AtMostOnce == \A n \in 1..MaxCalls : executed[n] <= 1

\* A request that is refused for its block number, its invoke id or because a
\* transfer is active ends that transfer, so that a transfer the client has
\* abandoned costs at most one later request its response.
RefusalEndsTransfer ==
  served[1] \in Services /\ served[2] \in {"DecodeFailed", "InvokeIdMismatch"} =>
    ~processor[served[1]].active

\* Every confirmed call returns when nothing is lost, the handler answers and no
\* earlier call abandoned a transfer: the block loops of both sides end.
CallReturns == call # NoCall ~> call = NoCall

=============================================================================
