---------------------------- MODULE WrapperChannel ----------------------------
(***************************************************************************)
(* One direction of a WrapperTcpProfileChannel: the SendApdu of one side,  *)
(* a TCP connection, and the stream decoder and ReceiveApdu of the other.  *)
(*                                                                         *)
(* Data abstraction.  A WPDU is a header of HeaderSize cells and one cell  *)
(* per unit of data; a cell <<n, i, size>> says which cell of which WPDU   *)
(* it is, the header having the numbers 1 - HeaderSize to 0, and the       *)
(* decoder reads from it only the version (is this the first cell of a     *)
(* header) and the length.  Data that happens to look like a header of     *)
(* version 1 is left out.  A read returns any number of cells up to the    *)
(* scratch buffer.  WriteAll writes a WPDU, or a part of it and fails;     *)
(* reading between its send calls is reading a part of what was written.   *)
(* A read that times out changes nothing and is left out.                  *)
(***************************************************************************)
EXTENDS Integers, Sequences

CONSTANTS
  WrapperSizes,   \* sizes of the APDUs passed to SendApdu
  SenderMax,      \* maximumApduSize of the sender, 0 for none
  ReceiverMax,    \* maximumApduSize of the receiver, 0 for none
  ScratchSize,    \* scratchBufferSize: cells a read returns at most
  OutputSize,     \* size of the caller's buffer in the second ReceiveApdu
  MaxWpdus,       \* bound: APDUs written
  MaxConnections, \* bound: connections after the first
  MaxBreaks       \* bound: connections that break

ASSUME WrapperAssumption ==
  /\ WrapperSizes \subseteq Nat
  /\ SenderMax \in Nat /\ ReceiverMax \in Nat
  /\ ScratchSize \in Nat \ {0} /\ OutputSize \in Nat
  /\ MaxWpdus \in Nat /\ MaxConnections \in Nat /\ MaxBreaks \in Nat

VARIABLES
  tcp,        \* "open", "ended" by the peer, or "closed" by the receiver
  stream,     \* cells written and not yet read
  torn,       \* TRUE after a WriteAll that failed
  decoder,    \* WrapperStreamDecoder::buffer_
  pendingFrames,
  wpdus,      \* APDUs written so far
  delivered,  \* the APDU ReceiveApdu returned last
  wrapperStatus,  \* the status of the last call
  connections, breaks

wrapperVars ==
  <<tcp, stream, torn, decoder, pendingFrames, wpdus, delivered, wrapperStatus,
    connections, breaks>>

-----------------------------------------------------------------------------
HeaderSize == 2

Cell(n, i, size) == <<n, i, size>>

\* The WPDU that EncodeWpdu makes of the n-th APDU.
EncodeWpdu(n, size) == [k \in 1..(HeaderSize + size) |-> Cell(n, k - HeaderSize, size)]

\* MakeWrapperLimits and the checks of EncodeWpdu and ValidateWrapperHeader:
\* a maximumApduSize of zero leaves the 16-bit length as the only limit.
MakeWrapperLimits(max, size) == max = 0 \/ size <= max

DecodeWrapperHeader(cell) == IF cell[2] = 1 - HeaderSize THEN "Ok" ELSE "InvalidVersion"

\* Mutant: a WPDU is taken for complete when the next one has begun.
Push_OneMore(buffer, data) ==
  LET b == buffer \o data
      size == IF Len(b) < HeaderSize THEN 0 ELSE b[HeaderSize][3]
      end == HeaderSize + size
  IN IF Len(b) <= end
     THEN [status |-> "NeedMoreData", frames |-> <<>>, buffer |-> b]
     ELSE IF DecodeWrapperHeader(b[1]) # "Ok" \/ ~MakeWrapperLimits(ReceiverMax, size)
     THEN [status |-> "InvalidVersion", frames |-> <<>>, buffer |-> <<>>]
     ELSE [status |-> "Ok", buffer |-> SubSeq(b, end + 1, Len(b)),
           frames |-> <<SubSeq(b, HeaderSize + 1, end)>>]

\* WrapperStreamDecoder::Push: parse[k] is what the loop makes of the buffer
\* from its k-th cell on.  An error empties the buffer, and the caller drops
\* the frames that were decoded before it.
Push(buffer, data) ==
  LET b == buffer \o data
      parse[k \in 0..Len(b)] ==
        LET left == Len(b) - k
            size == b[k + HeaderSize][3]
            rest == parse[k + HeaderSize + size]
            frame == SubSeq(b, k + HeaderSize + 1, k + HeaderSize + size)
            more == [status |-> "NeedMoreData", frames |-> <<>>,
                     buffer |-> SubSeq(b, k + 1, Len(b))]
            fail(status) == [status |-> status, frames |-> <<>>, buffer |-> <<>>]
        IN IF left < HeaderSize THEN more
           ELSE IF DecodeWrapperHeader(b[k + 1]) # "Ok" THEN fail("InvalidVersion")
           ELSE IF ~MakeWrapperLimits(ReceiverMax, size) THEN fail("DataTooLarge")
           ELSE IF left < HeaderSize + size THEN more
           ELSE IF rest.status \in {"Ok", "NeedMoreData"}
           THEN [status |-> "Ok", frames |-> <<frame>> \o rest.frames, buffer |-> rest.buffer]
           ELSE rest
  IN parse[0]

-----------------------------------------------------------------------------
WrapperInit ==
  /\ tcp = "open"
  /\ stream = <<>>
  /\ torn = FALSE
  /\ decoder = <<>>
  /\ pendingFrames = <<>>
  /\ wpdus = 0
  /\ delivered = <<>>
  /\ wrapperStatus = "Ok"
  /\ connections = 0
  /\ breaks = 0

receiverVars == <<decoder, pendingFrames, delivered>>
budgetVars == <<connections, breaks>>

\* The owner of the sender does not use it again after a failed write.
SendApdu ==
  /\ tcp = "open" /\ ~torn
  /\ wpdus < MaxWpdus
  /\ \E size \in WrapperSizes :
       IF ~MakeWrapperLimits(SenderMax, size)
       THEN /\ wrapperStatus' = "PayloadTooLarge"
            /\ UNCHANGED <<stream, wpdus>>
       ELSE /\ wrapperStatus' = "Ok"
            /\ stream' = stream \o EncodeWpdu(wpdus + 1, size)
            /\ wpdus' = wpdus + 1
  /\ UNCHANGED <<tcp, torn, receiverVars, budgetVars>>

\* WriteAll times out or fails after a part of the WPDU.
SendApduFails ==
  /\ tcp = "open" /\ ~torn
  /\ wpdus < MaxWpdus
  /\ breaks < MaxBreaks
  /\ \E size \in WrapperSizes : \E k \in 0..(HeaderSize + size - 1) :
       /\ MakeWrapperLimits(SenderMax, size)
       /\ stream' = stream \o SubSeq(EncodeWpdu(wpdus + 1, size), 1, k)
  /\ torn' = TRUE
  /\ wrapperStatus' = "Timeout"
  /\ breaks' = breaks + 1
  /\ UNCHANGED <<tcp, wpdus, receiverVars, connections>>

\* The first frame goes to a caller whose buffer holds size cells; one that
\* does not fit stays first.
CopyFirstPendingFrame(frames, size) ==
  IF size < Len(Head(frames))
  THEN /\ pendingFrames' = frames
       /\ wrapperStatus' = "OutputBufferTooSmall"
       /\ UNCHANGED delivered
  ELSE /\ pendingFrames' = Tail(frames)
       /\ delivered' = Head(frames)
       /\ wrapperStatus' = "Ok"

\* ReceiveApdu of a caller that can take size cells: a frame of an earlier
\* read, or the loop of ReceiveNextFrame, one read a step.
ReceiveApduInto(size) ==
  /\ tcp # "closed"
  /\ \/ /\ pendingFrames # <<>>
        /\ CopyFirstPendingFrame(pendingFrames, size)
        /\ UNCHANGED <<stream, decoder>>
     \/ /\ pendingFrames = <<>>
        /\ \E k \in 1..Len(stream) :
             LET pushed == Push(decoder, SubSeq(stream, 1, k))
             IN /\ k <= ScratchSize
                /\ stream' = SubSeq(stream, k + 1, Len(stream))
                /\ decoder' = pushed.buffer
                /\ IF pushed.status = "Ok"
                   THEN CopyFirstPendingFrame(pushed.frames, size)
                   ELSE /\ wrapperStatus' = pushed.status
                        /\ UNCHANGED <<pendingFrames, delivered>>
  /\ UNCHANGED <<tcp, torn, wpdus, budgetVars>>

\* The overload with a vector takes any size, the other one the caller's.
ReceiveApdu == \E max \in {OutputSize, 65535} : ReceiveApduInto(max)

\* The peer closes its end and what it has written can still be read, or the
\* connection breaks and it cannot.
PeerCloses ==
  /\ tcp = "open"
  /\ tcp' = "ended"
  /\ UNCHANGED <<stream, torn, wpdus, receiverVars, wrapperStatus, budgetVars>>

Breaks ==
  /\ tcp = "open"
  /\ breaks < MaxBreaks
  /\ tcp' = "ended"
  /\ stream' = <<>>
  /\ breaks' = breaks + 1
  /\ UNCHANGED <<torn, wpdus, receiverVars, wrapperStatus, connections>>

\* Mutant: the decoder keeps the beginning of a WPDU of the old connection.
ClosedDecoder_Kept(buffer) == buffer

ClosedDecoder(buffer) == <<>>

Close ==
  /\ tcp # "closed"
  /\ tcp' = "closed"
  /\ stream' = <<>>
  /\ decoder' = ClosedDecoder(decoder)
  /\ pendingFrames' = <<>>
  /\ wrapperStatus' = "Ok"
  /\ UNCHANGED <<torn, wpdus, delivered, budgetVars>>

\* The owners of channels close one before they open it again.
Open ==
  /\ tcp = "closed"
  /\ connections < MaxConnections
  /\ tcp' = "open"
  /\ torn' = FALSE
  /\ wrapperStatus' = "Ok"
  /\ connections' = connections + 1
  /\ UNCHANGED <<stream, wpdus, receiverVars, breaks>>

WrapperNext ==
  \/ SendApdu
  \/ SendApduFails
  \/ ReceiveApdu
  \/ PeerCloses
  \/ Breaks
  \/ Close
  \/ Open

\* A server loop and a waiting client call ReceiveApdu until it returns.
WrapperFairness == WF_wrapperVars(ReceiveApduInto(65535))

WrapperSpec == WrapperInit /\ [][WrapperNext]_wrapperVars

-----------------------------------------------------------------------------
(***************************************************************************)
(* Properties.                                                             *)
(***************************************************************************)

\* The frames decoded and the WPDUs that lie complete in the decoder's buffer
\* and the stream, in order.
UnderWay ==
  LET cells == decoder \o stream
      starts == SelectSeq([i \in 1..Len(cells) |-> i],
                  LAMBDA i : /\ cells[i][2] = 1 - HeaderSize
                             /\ i + HeaderSize + cells[i][3] - 1 <= Len(cells))
  IN pendingFrames \o
     [j \in 1..Len(starts) |->
        SubSeq(cells, starts[j] + HeaderSize, starts[j] + HeaderSize + cells[starts[j]][3] - 1)]

Fifo == INSTANCE ApduFifo WITH
  Sizes <- WrapperSizes, queue <- UnderWay, last <- delivered, puts <- wpdus

\* The channel implements ApduFifo: whatever the boundaries of its reads, after
\* WPDUs it refuses, writes that fail half way, and connections that end in the
\* middle of a WPDU, ReceiveApdu returns whole APDUs, in order, at most once.
WrapperIsFifo == Fifo!Spec

\* An APDU that has been written is read while its connection lasts: the
\* receiver never waits with a complete WPDU in its buffers.
WrapperDelivers == UnderWay # <<>> ~> UnderWay = <<>>

=============================================================================
