---------------------------- MODULE StreamBuffer ----------------------------
(***************************************************************************)
(* imp/network: IcacheBufferBase and IcacheBufferStream, the cache between *)
(* a stream socket and the frames of a protocol. A cache is a record:      *)
(*   data    the bytes up to write_offset, from the start of cache_buf     *)
(*   size    cache_size                                                    *)
(*   decode  decode_offset: where the bytes without a frame begin          *)
(*   frames  frame_cache_map, records [off, len]                           *)
(* A byte is a record [f, i, n]: byte i of frame f, whose header says that *)
(* the frame has n bytes.                                                  *)
(***************************************************************************)
EXTENDS Naturals, Sequences

CONSTANTS MaxCache,      \* max_cache_size
          MaxFrame,      \* getMaxFrameSize()
          MinFrame,      \* minProtocalSize(): bytes needed to read a header
          ShrinkFactor   \* 10 in the code: when resize may shrink the cache

ASSUME BufferAssumption == /\ MaxFrame \in Nat \ {0} /\ MinFrame \in 1 .. MaxFrame
                           /\ MaxCache \in Nat /\ MaxFrame <= MaxCache
                           /\ ShrinkFactor \in Nat

Empty == [data |-> <<>>, size |-> 0, decode |-> 0, frames |-> <<>>]

\* The first byte that is still needed.
ReadOffset(b) == IF b.frames # <<>> THEN b.frames[1].off ELSE b.decode
DataSize(b) == Len(b.data) - ReadOffset(b)

\* Mutant of Shift: decode_offset is not moved.
ShiftKeepsDecode(b) ==
  LET r == ReadOffset(b)
  IN [b EXCEPT !.data = SubSeq(b.data, r + 1, Len(b.data)),
               !.frames = [i \in 1 .. Len(b.frames) |-> [b.frames[i] EXCEPT !.off = @ - r]]]

\* resize: what is needed moves to the start of the new cache_buf.
Shift(b) ==
  LET r == ReadOffset(b)
  IN [b EXCEPT !.data = SubSeq(b.data, r + 1, Len(b.data)),
               !.decode = b.decode - r,
               !.frames = [i \in 1 .. Len(b.frames) |-> [b.frames[i] EXCEPT !.off = @ - r]]]

Lesser(m, n) == IF m < n THEN m ELSE n

\* Mutant of NewSize: shrinking leaves room for the data only.
NewSizeTight(b, len) ==
  Lesser(MaxCache, IF b.size - DataSize(b) > ShrinkFactor * len THEN DataSize(b)
                   ELSE b.size + MaxFrame)

NewSize(b, len) ==
  Lesser(MaxCache, IF b.size - DataSize(b) > ShrinkFactor * len THEN DataSize(b) + MaxFrame
                   ELSE b.size + MaxFrame)

\* appendCache: whether it succeeds, and what it leaves.
Fits(b, len) == len > 0 /\ (len + Len(b.data) <= b.size \/ DataSize(b) + len <= MaxCache)
AppendCache(b, bytes) ==
  LET c == IF Len(bytes) + Len(b.data) <= b.size THEN b
           ELSE [Shift(b) EXCEPT !.size = NewSize(b, Len(bytes))]
  IN [c EXCEPT !.data = @ \o bytes]

\* updateFrameCache
AddFrame(b, off, len) == [b EXCEPT !.frames = Append(@, [off |-> off, len |-> len]),
                                   !.decode = off + len]
AppendFrame(b, bytes) == LET c == AppendCache(b, bytes)
                         IN AddFrame(c, Len(c.data) - Len(bytes), Len(bytes))

FrameBytes(b, fr) == SubSeq(b.data, fr.off + 1, fr.off + fr.len)

\* ProtocalStream::decodeFrame at offset off: 0 for an incomplete frame, more
\* than MaxFrame for bytes that are no header, a frame that is too long, and a
\* frame whose timestamp is old, more than five minutes before now.
DecodeFrame(b, off, old) ==
  LET left == Len(b.data) - off
      head == b.data[off + 1]
  IN IF left < MinFrame THEN 0
     ELSE IF head.i # 1 \/ head.n > MaxFrame \/ old THEN MaxFrame + left
     ELSE IF head.n > left THEN 0 ELSE head.n

\* popFrame
PopFrame(b) == [b EXCEPT !.frames = Tail(@)]

\* Mutant of Consume: a frame that was sent in part is sent again from its
\* start, as IcacheBufferBase::sendCacheByFd does.
ConsumeWhole(b, n) == IF n = b.frames[1].len THEN PopFrame(b) ELSE b

\* sendCacheByFd: n bytes of the first frame have been sent. A frame that was
\* sent in part keeps its rest.
Consume(b, n) == IF n = b.frames[1].len THEN PopFrame(b)
                 ELSE [b EXCEPT !.frames[1] = [off |-> @.off + n, len |-> @.len - n]]

\* Frames lie one behind the other and end where decoding goes on, and all of
\* it lies in the cache: no offset is read or written out of bounds.
InBounds(b) ==
  /\ b.size \in 0 .. MaxCache /\ Len(b.data) <= b.size
  /\ b.decode \in 0 .. Len(b.data)
  /\ \A i \in 1 .. Len(b.frames) :
       /\ b.frames[i].len > 0
       /\ b.frames[i].off + b.frames[i].len =
            IF i = Len(b.frames) THEN b.decode ELSE b.frames[i + 1].off
=============================================================================
