------------------------------- MODULE Listener -------------------------------
(***************************************************************************)
(* A listener runtime (ServerListenerRuntime, PushListenerRuntime) on an   *)
(* EndpointTcpProfileListener and its TcpServerTransport.  One thread calls*)
(* RunOnce again and again, another one may close the transport meanwhile, *)
(* which TcpServerTransport::Close is written for.  Accept is cut where    *)
(* the other thread can come in between: at select, at the second look at  *)
(* open_, and at accept.                                                   *)
(*                                                                         *)
(* The kernel is modelled as the transport uses it: a file descriptor      *)
(* belongs to the listening socket, to nobody, or, once it has been closed *)
(* and if Recycle, to a socket of another part of the program.  Clients    *)
(* connect, and send a request or stay silent.                             *)
(***************************************************************************)
EXTENDS Naturals, Sequences

CONSTANTS
  Clients,      \* clients that connect once
  Silent,       \* of these, the ones that never send a request
  MayClose,     \* TRUE if another thread closes the transport
  Recycle       \* TRUE if other threads open sockets

ASSUME ListenerAssumption ==
  /\ Silent \subseteq Clients
  /\ MayClose \in BOOLEAN /\ Recycle \in BOOLEAN

VARIABLES
  listening,   \* TcpServerTransport::open_
  fd,          \* whose its descriptor is: "none", "listener", "free", "other"
  backlog,     \* clients connected and not accepted
  idle,        \* clients that have not connected
  runtime,     \* where the thread of RunOnce is
  serving,     \* the client whose connection is accepted, as a set
  served,      \* clients that got a response
  hungUp,      \* clients whose connection the server closed
  closer       \* where the thread of Close is

listenerVars ==
  <<listening, fd, backlog, idle, runtime, serving, served, hungUp, closer>>

ListenerInit ==
  /\ listening = FALSE
  /\ fd = "none"
  /\ backlog = <<>>
  /\ idle = Clients
  /\ runtime = "idle"
  /\ serving = {}
  /\ served = {}
  /\ hungUp = {}
  /\ closer = "idle"

\* Open of the runtime, the listener and the transport.
OpenListener ==
  /\ fd = "none"
  /\ listening' = TRUE
  /\ fd' = "listener"
  /\ UNCHANGED <<backlog, idle, runtime, serving, served, hungUp, closer>>

ClientConnects ==
  /\ fd = "listener"
  /\ \E c \in idle :
       /\ backlog' = Append(backlog, c)
       /\ idle' = idle \ {c}
  /\ UNCHANGED <<listening, fd, runtime, serving, served, hungUp, closer>>

-----------------------------------------------------------------------------
\* RunOnce of the runtime and of the listener, into Accept of the transport: a
\* transport that is not open is not asked.
BeginAccept ==
  /\ runtime = "idle"
  /\ listening
  /\ runtime' = "select"
  /\ UNCHANGED <<listening, fd, backlog, idle, serving, served, hungUp, closer>>

\* WaitForSocket: a client is waiting, or the socket was shut down.
SelectReturns ==
  /\ runtime = "select"
  /\ backlog # <<>> \/ fd # "listener" \/ closer = "shutDown"
  /\ runtime' = "check"
  /\ UNCHANGED <<listening, fd, backlog, idle, serving, served, hungUp, closer>>

\* acceptTimeout has passed; RunOnce returns Timeout.
SelectTimesOut ==
  /\ runtime = "select"
  /\ backlog = <<>>
  /\ runtime' = "idle"
  /\ UNCHANGED <<listening, fd, backlog, idle, serving, served, hungUp, closer>>

CheckOpen ==
  /\ runtime = "check"
  /\ runtime' = IF listening THEN "accept" ELSE "idle"
  /\ UNCHANGED <<listening, fd, backlog, idle, serving, served, hungUp, closer>>

\* accept on the captured descriptor: the next client, somebody else's client
\* when the descriptor has been recycled, or an error.
Accept ==
  /\ runtime = "accept"
  /\ \/ /\ fd = "listener" /\ backlog # <<>>
        /\ serving' = {Head(backlog)}
        /\ backlog' = Tail(backlog)
        /\ runtime' = "serve"
     \/ /\ fd = "other"
        /\ runtime' = "foreign"
        /\ UNCHANGED <<serving, backlog>>
     \/ /\ fd = "free" \/ backlog = <<>>
        /\ runtime' = "idle"
        /\ UNCHANGED <<serving, backlog>>
  /\ UNCHANGED <<listening, fd, idle, served, hungUp, closer>>

\* Mutant: a connection without a request is kept and read again.
AfterRunOnce_WaitsOn(answered) ==
  IF answered THEN [runtime |-> "idle", closed |-> serving]
  ELSE [runtime |-> "serve", closed |-> {}]

\* The endpoint is closed whatever its RunOnce returned.
AfterRunOnce(answered) == [runtime |-> "idle", closed |-> serving]

\* The endpoint on the accepted channel: Open, one RunOnce, Close.  The read of
\* a silent client times out and RunOnce returns without a response.
Serve ==
  /\ runtime = "serve"
  /\ LET answered == serving \cap Silent = {}
         after == AfterRunOnce(answered)
     IN /\ served' = IF answered THEN served \cup serving ELSE served
        /\ hungUp' = hungUp \cup after.closed
        /\ runtime' = after.runtime
        /\ serving' = IF after.runtime = "idle" THEN {} ELSE serving
  /\ UNCHANGED <<listening, fd, backlog, idle, closer>>

-----------------------------------------------------------------------------
\* TcpServerTransport::Close in the other thread, step by step.
MarkClosed ==
  /\ MayClose
  /\ listening
  /\ listening' = FALSE
  /\ closer' = "marked"
  /\ UNCHANGED <<fd, backlog, idle, runtime, serving, served, hungUp>>

ShutDown ==
  /\ closer = "marked"
  /\ closer' = "shutDown"
  /\ UNCHANGED <<listening, fd, backlog, idle, runtime, serving, served, hungUp>>

\* Clients that were not accepted are cut off.
CloseSocket ==
  /\ closer = "shutDown"
  /\ closer' = "done"
  /\ fd' = "free"
  /\ backlog' = <<>>
  /\ hungUp' = hungUp \cup {backlog[i] : i \in 1..Len(backlog)}
  /\ UNCHANGED <<listening, idle, runtime, serving, served>>

OtherSocketOpens ==
  /\ Recycle
  /\ fd = "free"
  /\ fd' = "other"
  /\ UNCHANGED <<listening, backlog, idle, runtime, serving, served, hungUp, closer>>

RuntimeStep ==
  BeginAccept \/ SelectReturns \/ SelectTimesOut \/ CheckOpen \/ Accept \/ Serve

ListenerNext ==
  \/ OpenListener
  \/ ClientConnects
  \/ RuntimeStep
  \/ MarkClosed
  \/ ShutDown
  \/ CloseSocket
  \/ OtherSocketOpens

\* The application calls RunOnce again and again, timeouts pass, and a Close
\* that was begun runs on.
ListenerFairness ==
  /\ WF_listenerVars(RuntimeStep)
  /\ WF_listenerVars(ShutDown) /\ WF_listenerVars(CloseSocket)

-----------------------------------------------------------------------------
(***************************************************************************)
(* Properties.                                                             *)
(***************************************************************************)

\* A client that connects and sends a request gets its response, unless the
\* transport is closed: a silent one costs the others one read timeout, and
\* neither it nor a Close leaves anybody waiting on an open connection.
EveryClientIsServed ==
  \A c \in Clients :
    c \notin idle ~>
      \/ c \in served
      \/ c \in hungUp /\ (c \in Silent \/ ~listening)

\* TcpServerTransport::Close says of itself that a concurrent Accept bails out
\* instead of calling accept on a stale or recycled descriptor.
AcceptsOnlyItsOwn == runtime # "foreign"

=============================================================================
