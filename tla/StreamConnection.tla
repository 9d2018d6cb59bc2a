-------------------------- MODULE StreamConnection --------------------------
(***************************************************************************)
(* imp/network/tcp-connection-manager.cpp: two TcpConnections, the sender  *)
(* of frames with its writeCache and the receiver with its readCache, each *)
(* on its own scheduler, and the stream socket between them (external),    *)
(* which takes and hands over any number of bytes at a time.               *)
(***************************************************************************)
EXTENDS StreamBuffer

CONSTANTS FrameLens,   \* lengths of the frames given to sendFrame
          MaxFrames,   \* bound on frames accepted
          SliceSize,   \* getSliceSize(): bytes asked for by one recv
          NetSize,     \* room of the socket buffers
          MayBreak,    \* whether the connection may break
          MayAge       \* whether a frame may be old when it is decoded

\* A frame has a header.
ASSUME LensAssumption == \A n \in FrameLens : n \in Nat /\ n >= MinFrame

ASSUME StreamAssumption == /\ MaxFrames \in Nat
                           /\ SliceSize \in 1 .. MaxFrame
                           /\ NetSize \in Nat \ {0}
                           /\ MayBreak \in BOOLEAN /\ MayAge \in BOOLEAN

\* What packetFrame ensures and sendFrame does not ask for: no frame is longer
\* than getMaxFrameSize().
PacketFrames == \A n \in FrameLens : n <= MaxFrame

VARIABLES
  tx, rx,         \* writeCache of the sender, readCache of the receiver
  txRegistered, writing,   \* the sender's channel is in the scheduler; EVENT_OUT
  rxRegistered,
  rxStage,        \* the loop of on_recv: "recv", "parse" or "pop"
  net,            \* bytes in the socket
  broken,         \* a send fails, a recv gets what is left and then 0
  accepted, delivered,     \* frames sendFrame took, frames given to notifyFrame
  rejected        \* history: why the receiver closed on what it read: "full",
                  \* "illegal" or "old"; else "no"

vars == <<tx, rx, txRegistered, writing, rxRegistered, rxStage, net, broken, accepted, delivered, rejected>>
sender == <<tx, txRegistered, writing, accepted>>
receiver == <<rx, rxRegistered, rxStage, delivered, rejected>>

Init ==
  /\ tx = Empty /\ rx = Empty
  /\ txRegistered = TRUE /\ writing = FALSE /\ rxRegistered = TRUE /\ rxStage = "recv"
  /\ net = <<>> /\ broken = FALSE
  /\ accepted = <<>> /\ delivered = <<>> /\ rejected = "no"

-----------------------------------------------------------------------------
(* The sender *)

Frame(f, len) == [i \in 1 .. len |-> [f |-> f, i |-> i, n |-> len]]

\* Mutant of EnableWriting: writing is enabled when something was queued before.
EnableIfMore(b) == Len(b.frames) > 1

\* sendFrame enables writing for the first frame only.
EnableWriting(b) == Len(b.frames) = 1

SendFrame(len) ==
  LET bytes == Frame(Len(accepted) + 1, len)
      b == IF Fits(tx, len) THEN AppendFrame(tx, bytes) ELSE tx
  IN /\ Len(accepted) < MaxFrames
     /\ tx' = b
     /\ accepted' = IF Fits(tx, len) THEN Append(accepted, bytes) ELSE accepted
     /\ IF EnableWriting(b) THEN txRegistered' = TRUE /\ writing' = TRUE
        ELSE UNCHANGED <<txRegistered, writing>>
     /\ UNCHANGED <<receiver, net, broken>>

\* One send of on_write, which goes on until the socket takes no more.
OnWrite(n) ==
  /\ txRegistered /\ writing /\ ~broken /\ tx.frames # <<>>
  /\ n \in 1 .. Lesser(tx.frames[1].len, NetSize - Len(net))
  /\ net' = net \o SubSeq(tx.data, ReadOffset(tx) + 1, ReadOffset(tx) + n)
  /\ tx' = Consume(tx, n)
  /\ writing' = (tx'.frames # <<>>)
  /\ UNCHANGED <<receiver, txRegistered, broken, accepted>>

\* A failed send, or HUP or ERR: on_close, on_error.
SenderClose ==
  /\ txRegistered /\ broken
  /\ txRegistered' = FALSE
  /\ UNCHANGED <<receiver, tx, writing, accepted, net, broken>>

-----------------------------------------------------------------------------
(* The receiver: on_recv, which calls readFromFd and then pops the frames,    *)
(* and again until there is nothing to read.                                 *)

ReceiverClose(why) ==
  /\ rxRegistered' = FALSE /\ broken' = TRUE
  /\ rejected' = why
  /\ UNCHANGED <<rxStage, delivered, sender>>

\* readFromFd takes n bytes and readFromBuf appends them.
OnRecv(n) ==
  /\ rxRegistered /\ rxStage = "recv" /\ n \in 1 .. Lesser(SliceSize, Len(net))
  /\ net' = SubSeq(net, n + 1, Len(net))
  /\ IF Fits(rx, n)
     THEN /\ rx' = AppendCache(rx, SubSeq(net, 1, n))
          /\ rxStage' = "parse"
          /\ UNCHANGED <<rxRegistered, delivered, rejected, broken, sender>>
     ELSE rx' = rx /\ ReceiverClose("full")

\* One iteration of the loop of readFromBuf: parseCache and its result. Frames
\* found before one that is refused are not popped any more.
Parse(old) ==
  LET len == DecodeFrame(rx, rx.decode, old)
  IN /\ rxRegistered /\ rxStage = "parse" /\ net' = net
     /\ IF len > MaxFrame
        THEN rx' = [rx EXCEPT !.decode = @ + (len - MaxFrame)]
             /\ ReceiverClose(IF old THEN "old" ELSE "illegal")
        ELSE /\ rx' = IF len = 0 THEN rx ELSE AddFrame(rx, rx.decode, len)
             /\ rxStage' = IF len = 0 THEN "pop" ELSE "parse"
             /\ UNCHANGED <<rxRegistered, delivered, rejected, broken, sender>>

\* popFrame and notifyFrame, until no frame is left.
Pop ==
  /\ rxRegistered /\ rxStage = "pop"
  /\ IF rx.frames = <<>> THEN rxStage' = "recv" /\ UNCHANGED <<rx, delivered>>
     ELSE /\ delivered' = Append(delivered, FrameBytes(rx, rx.frames[1]))
          /\ rx' = PopFrame(rx) /\ rxStage' = rxStage
  /\ UNCHANGED <<rxRegistered, rejected, net, broken, sender>>

\* recv returns 0, or HUP.
OnEof ==
  /\ rxRegistered /\ rxStage = "recv" /\ broken /\ net = <<>>
  /\ rx' = rx /\ net' = net
  /\ ReceiverClose("no")

-----------------------------------------------------------------------------
(* The socket *)

\* The connection breaks; what is on its way arrives or is lost.
Break ==
  /\ MayBreak /\ ~broken
  /\ broken' = TRUE
  /\ net' \in {net, <<>>}
  /\ UNCHANGED <<sender, receiver>>

Next == \/ \E len \in FrameLens : SendFrame(len)
        \/ \E n \in 1 .. NetSize : OnWrite(n) \/ OnRecv(n)
        \/ \E old \in {FALSE, MayAge} : Parse(old)
        \/ Pop
        \/ SenderClose \/ OnEof \/ Break

\* Both schedulers serve their channels; nobody has to send.
Spec == /\ Init /\ [][Next]_vars
        /\ WF_vars(\E n \in 1 .. NetSize : OnWrite(n))
        /\ WF_vars(\E n \in 1 .. NetSize : OnRecv(n))
        /\ WF_vars(\E old \in {FALSE, MayAge} : Parse(old)) /\ WF_vars(Pop) /\ WF_vars(OnEof)

-----------------------------------------------------------------------------
(* Properties *)

Frames == INSTANCE FrameStream WITH open <- rxRegistered

\* No offset of a cache in use points outside of it: appendCache, resize and the
\* partial sends keep the frames contiguous within cache_size.
CachesInBounds == InBounds(tx) /\ (rxRegistered => InBounds(rx))

\* The receiver never takes frames of legal length for garbage, wherever send and
\* recv cut them: it keeps its place in the stream. And its cache overflows only
\* on a frame so long that, all but its last byte received, max_cache_size has no
\* room for one more recv. (It does on the longest frames where max_cache_size is
\* the greatest length of a frame, the default. An old frame is always refused.)
NoFalseReject ==
  /\ rejected # "illegal"
  /\ rejected = "full" =>
       \E k \in 1 .. Len(accepted) : Len(accepted[k]) - 1 + SliceSize > MaxCache

\* sendFrame to notifyFrame is a stream of whole frames.
ImplementsFrameStream == Frames!Spec

\* A frame that sendFrame took arrives, or the receiver disconnects.
AcceptedArrives ==
  \A k \in 1 .. MaxFrames : Len(accepted) >= k ~> (Len(delivered) >= k \/ ~rxRegistered)
=============================================================================
