----------------------- MODULE StreamConnectionProofs -----------------------
(***************************************************************************)
(* Proofs about StreamConnection, for every size of caches, frames, slices *)
(* and socket buffers: the caches stay in bounds, frames arrive whole, in  *)
(* order and once each, and the receiver does not disconnect without need. *)
(***************************************************************************)
EXTENDS StreamConnection, SequenceTheorems, NaturalsInduction, WellFoundedInduction, TLAPS

USE BufferAssumption, StreamAssumption

Entry == [off : Nat, len : Nat]
Byte == [f : Nat, i : Nat, n : Nat]
Cache == [data : Seq(Byte), size : Nat, decode : Nat, frames : Seq(Entry)]

TypeOK ==
  /\ tx \in Cache /\ rx \in Cache /\ net \in Seq(Byte)
  /\ txRegistered \in BOOLEAN /\ writing \in BOOLEAN /\ rxRegistered \in BOOLEAN
  /\ rxStage \in {"recv", "parse", "pop"}
  /\ broken \in BOOLEAN /\ rejected \in {"no", "full", "illegal", "old"}
  /\ accepted \in Seq(Seq(Byte)) /\ delivered \in Seq(Seq(Byte))

\* The frames of a cache lie in the order of their offsets.
Ordered(b) ==
  /\ \A i, j \in 1 .. Len(b.frames) : i <= j => b.frames[i].off <= b.frames[j].off
  /\ \A i \in 1 .. Len(b.frames) : b.frames[i].off + b.frames[i].len <= b.decode

\* The caches: the sender's bytes all belong to frames, the receiver's frames
\* are all popped before the next recv.
CacheInv ==
  /\ InBounds(tx) /\ Ordered(tx) /\ tx.decode = Len(tx.data)
  /\ rxRegistered => InBounds(rx) /\ Ordered(rx)
  /\ rxStage = "recv" => rx.frames = <<>>

-----------------------------------------------------------------------------
(* The stream of bytes. A place is a frame's number and a byte's number in   *)
(* the frame; a run is a piece of the stream, from a place up to another.    *)

Places == Nat \X Nat
Place(x) == <<x.f, x.i>>
After(x) == IF x.i = x.n THEN <<x.f + 1, 1>> ELSE <<x.f, x.i + 1>>

Run(s, from, to) ==
  /\ s = <<>> => from = to
  /\ s # <<>> => Place(s[1]) = from /\ After(s[Len(s)]) = to
  /\ \A k \in 1 .. Len(s) - 1 : Place(s[k + 1]) = After(s[k])

\* A byte of a frame of acc, and sequences of such bytes.
Genuine(x, acc) ==
  /\ x.f \in 1 .. Len(acc) /\ x.n \in FrameLens /\ x.i \in 1 .. x.n
  /\ acc[x.f] = Frame(x.f, x.n)

AllGenuine(s, acc) == \A k \in 1 .. Len(s) : Genuine(s[k], acc)

Unsent == SubSeq(tx.data, ReadOffset(tx) + 1, Len(tx.data))
Undecoded == SubSeq(rx.data, rx.decode + 1, Len(rx.data))

\* Frames that the receiver found and has not popped are the next ones.
FoundInv ==
  \A k \in 1 .. Len(rx.frames) :
    /\ Len(delivered) + k <= Len(accepted)
    /\ FrameBytes(rx, rx.frames[k]) = accepted[Len(delivered) + k]

\* From the receiver's cache through the socket to the sender's cache: one
\* run, from the first frame that was not found to the end of the last accepted.
\* Behind a break nothing follows.
StreamInv ==
  \E c, d \in Places :
    /\ Run(Undecoded, <<Len(delivered) + Len(rx.frames) + 1, 1>>, c)
    /\ Run(net, c, d)
    /\ ~broken => Run(Unsent, d, <<Len(accepted) + 1, 1>>)

GenuineInv == /\ AllGenuine(Undecoded, accepted) /\ AllGenuine(net, accepted)
              /\ AllGenuine(Unsent, accepted)

\* What was delivered is what was accepted first.
PrefixInv == /\ Len(delivered) <= Len(accepted)
             /\ \A k \in 1 .. Len(delivered) : delivered[k] = accepted[k]

\* Once it has parsed, the receiver keeps less than the frame that comes next.
ShortInv == rxStage # "parse" /\ Undecoded # <<>> => Len(Undecoded) < Undecoded[1].n

ReadInv == rxRegistered => FoundInv /\ StreamInv /\ ShortInv

IInv == TypeOK /\ CacheInv /\ GenuineInv /\ PrefixInv /\ ReadInv /\ NoFalseReject

-----------------------------------------------------------------------------
(* Sequences *)

\* What is left of a sequence behind its first k elements.
Rest(s, k) == SubSeq(s, k + 1, Len(s))

\* The elements of a rest.
LEMMA RestIs ==
  ASSUME NEW S, NEW s \in Seq(S), NEW k \in 0 .. Len(s)
  PROVE /\ Rest(s, k) \in Seq(S) /\ Len(Rest(s, k)) = Len(s) - k
        /\ \A j \in 1 .. Len(s) - k : Rest(s, k)[j] = s[k + j]
<1>1. k + 1 \in 1 .. Len(s) + 1 /\ Len(s) \in k .. Len(s)
  OBVIOUS
<1>2. /\ Rest(s, k) \in Seq(S)
      /\ Len(Rest(s, k)) = IF k + 1 <= Len(s) THEN Len(s) - (k + 1) + 1 ELSE 0
      /\ \A j \in 1 .. Len(s) - (k + 1) + 1 : Rest(s, k)[j] = s[(k + 1) + j - 1]
  BY <1>1, SubSeqProperties DEF Rest
<1> QED
  BY <1>2

\* A piece of a sequence.
LEMMA PieceIs ==
  ASSUME NEW S, NEW s \in Seq(S), NEW k \in Nat, NEW n \in Nat, k + n <= Len(s)
  PROVE /\ SubSeq(s, k + 1, k + n) \in Seq(S) /\ Len(SubSeq(s, k + 1, k + n)) = n
        /\ \A j \in 1 .. n : SubSeq(s, k + 1, k + n)[j] = s[k + j]
<1>1. k + 1 \in 1 .. Len(s) + 1 /\ k + n \in k .. Len(s)
  OBVIOUS
<1>2. /\ SubSeq(s, k + 1, k + n) \in Seq(S)
      /\ Len(SubSeq(s, k + 1, k + n)) = IF k + 1 <= k + n THEN k + n - (k + 1) + 1 ELSE 0
      /\ \A j \in 1 .. k + n - (k + 1) + 1 : SubSeq(s, k + 1, k + n)[j] = s[(k + 1) + j - 1]
  BY <1>1, SubSeqProperties
<1> QED
  BY <1>2

\* The rest of a concatenation.
LEMMA RestOfConcat ==
  ASSUME NEW S, NEW s \in Seq(S), NEW t \in Seq(S), NEW k \in 0 .. Len(s)
  PROVE Rest(s \o t, k) = Rest(s, k) \o t
<1> DEFINE u == Rest(s \o t, k)
           v == Rest(s, k) \o t
<1>1. s \o t \in Seq(S) /\ Len(s \o t) = Len(s) + Len(t)
      /\ \A i \in 1 .. Len(s) + Len(t) : (s \o t)[i] = IF i <= Len(s) THEN s[i] ELSE t[i - Len(s)]
  BY ConcatProperties
<1>a. k \in 0 .. Len(s \o t)
  BY <1>1
<1>2. u \in Seq(S) /\ Len(u) = Len(s \o t) - k
      /\ \A j \in 1 .. Len(s \o t) - k : u[j] = (s \o t)[k + j]
  BY <1>1, <1>a, RestIs, ZenonT(60)
<1>3. Rest(s, k) \in Seq(S) /\ Len(Rest(s, k)) = Len(s) - k
      /\ \A j \in 1 .. Len(s) - k : Rest(s, k)[j] = s[k + j]
  BY RestIs
<1>4. v \in Seq(S) /\ Len(v) = Len(Rest(s, k)) + Len(t)
      /\ \A j \in 1 .. Len(Rest(s, k)) + Len(t) :
           v[j] = IF j <= Len(Rest(s, k)) THEN Rest(s, k)[j] ELSE t[j - Len(Rest(s, k))]
  BY <1>3, ConcatProperties
<1>5. ASSUME NEW j \in 1 .. Len(u) PROVE u[j] = v[j]
  <2> HIDE DEF u, v
  <2>1. k + j \in 1 .. Len(s) + Len(t) /\ j \in 1 .. Len(s) + Len(t) - k
    BY <1>1, <1>2
  <2>2. CASE j <= Len(s) - k
    BY <2>1, <2>2, <1>1, <1>2, <1>3, <1>4
  <2>3. CASE j > Len(s) - k
    <3>1. u[j] = (s \o t)[k + j] /\ (s \o t)[k + j] = t[k + j - Len(s)]
      <4>1. j \in 1 .. Len(s \o t) - k /\ ~(k + j <= Len(s))
        BY <2>1, <2>3, <1>1
      <4>2. u[j] = (s \o t)[k + j]
        BY <4>1, <1>2, Zenon
      <4>3. k + j \in 1 .. Len(s) + Len(t)
        BY <2>1, Zenon
      <4>4. ASSUME NEW i \in 1 .. Len(s) + Len(t), ~(i <= Len(s))
            PROVE (s \o t)[i] = t[i - Len(s)]
        <5>1. (s \o t)[i] = IF i <= Len(s) THEN s[i] ELSE t[i - Len(s)]
          BY <1>1, Zenon
        <5> QED
          BY <5>1, <4>4, Zenon
      <4> QED
        BY <4>1, <4>2, <4>3, <4>4, SMTT(30)
    <3>2. v[j] = t[j - (Len(s) - k)]
      BY <2>1, <2>3, <1>3, <1>4
    <3> QED
      BY <3>1, <3>2
  <2> QED
    BY <2>1, <2>2, <2>3
<1>6. Len(u) = Len(v)
  BY <1>1, <1>2, <1>3, <1>4
<1> HIDE DEF u, v
<1>7. u = v
  BY <1>2, <1>4, <1>5, <1>6, SeqEqual
<1> QED
  BY <1>7 DEF u, v

\* The rest of a rest.
LEMMA RestOfRest ==
  ASSUME NEW S, NEW s \in Seq(S), NEW k \in Nat, NEW m \in Nat, k + m <= Len(s)
  PROVE Rest(Rest(s, k), m) = Rest(s, k + m)
<1>0. k \in 0 .. Len(s) /\ k + m \in 0 .. Len(s)
  OBVIOUS
<1>1. Rest(s, k) \in Seq(S) /\ Len(Rest(s, k)) = Len(s) - k
      /\ \A j \in 1 .. Len(s) - k : Rest(s, k)[j] = s[k + j]
  BY <1>0, RestIs
<1>2. Rest(s, k + m) \in Seq(S) /\ Len(Rest(s, k + m)) = Len(s) - (k + m)
      /\ \A j \in 1 .. Len(s) - (k + m) : Rest(s, k + m)[j] = s[k + m + j]
  BY <1>0, RestIs
<1>a. m \in 0 .. Len(Rest(s, k))
  BY <1>1
<1>3. /\ Rest(Rest(s, k), m) \in Seq(S) /\ Len(Rest(Rest(s, k), m)) = Len(Rest(s, k)) - m
      /\ \A j \in 1 .. Len(Rest(s, k)) - m : Rest(Rest(s, k), m)[j] = Rest(s, k)[m + j]
  BY <1>1, <1>a, RestIs
<1>4. ASSUME NEW j \in 1 .. Len(Rest(Rest(s, k), m))
      PROVE Rest(Rest(s, k), m)[j] = Rest(s, k + m)[j]
  <2>1. j \in 1 .. Len(s) - k - m /\ m + j \in 1 .. Len(s) - k /\ j \in 1 .. Len(s) - (k + m)
    BY <1>1, <1>3
  <2>2. Rest(Rest(s, k), m)[j] = s[k + (m + j)] /\ Rest(s, k + m)[j] = s[k + m + j]
    BY <2>1, <1>1, <1>2, <1>3
  <2> QED
    BY <2>2
<1>5. Len(Rest(Rest(s, k), m)) = Len(Rest(s, k + m))
  <2>1. /\ Len(Rest(s, k)) = Len(s) - k
        /\ Len(Rest(s, k + m)) = Len(s) - (k + m)
        /\ Len(Rest(Rest(s, k), m)) = Len(Rest(s, k)) - m
    BY <1>1, <1>2, <1>3, Zenon
  <2>2. Len(s) \in Nat
    OBVIOUS
  <2> QED
    BY <2>1, <2>2
<1> QED
  BY <1>2, <1>3, <1>4, <1>5, SeqEqual

\* The first n elements of a rest.
LEMMA HeadOfRest ==
  ASSUME NEW S, NEW s \in Seq(S), NEW k \in Nat, NEW n \in Nat, k + n <= Len(s)
  PROVE SubSeq(Rest(s, k), 1, n) = SubSeq(s, k + 1, k + n)
<1>0. k \in 0 .. Len(s) /\ k + n \in 0 .. Len(s)
  OBVIOUS
<1>1. Rest(s, k) \in Seq(S) /\ Len(Rest(s, k)) = Len(s) - k
      /\ \A j \in 1 .. Len(s) - k : Rest(s, k)[j] = s[k + j]
  BY <1>0, RestIs
<1>2. /\ SubSeq(s, k + 1, k + n) \in Seq(S) /\ Len(SubSeq(s, k + 1, k + n)) = n
      /\ \A j \in 1 .. n : SubSeq(s, k + 1, k + n)[j] = s[k + j]
  BY PieceIs, SMTT(30)
<1>3. /\ SubSeq(Rest(s, k), 0 + 1, 0 + n) \in Seq(S)
      /\ Len(SubSeq(Rest(s, k), 0 + 1, 0 + n)) = n
      /\ \A j \in 1 .. n : SubSeq(Rest(s, k), 0 + 1, 0 + n)[j] = Rest(s, k)[0 + j]
  BY <1>1, PieceIs, 0 \in Nat, 0 + n <= Len(Rest(s, k))
<1>4. 0 + 1 = 1 /\ 0 + n = n
  OBVIOUS
<1>5. ASSUME NEW j \in 1 .. n PROVE SubSeq(Rest(s, k), 1, n)[j] = SubSeq(s, k + 1, k + n)[j]
  <2>1. 0 + j = j /\ j \in 1 .. Len(s) - k
    OBVIOUS
  <2>2. SubSeq(Rest(s, k), 1, n)[j] = Rest(s, k)[j]
    BY <2>1, <1>3, <1>4, Zenon
  <2> QED
    BY <2>1, <2>2, <1>1, <1>2, Zenon
<1> DEFINE u == SubSeq(Rest(s, k), 1, n)
           v == SubSeq(s, k + 1, k + n)
<1>6. /\ u \in Seq(S) /\ v \in Seq(S) /\ Len(u) = n /\ Len(v) = n
      /\ \A j \in 1 .. n : u[j] = v[j]
  BY <1>2, <1>3, <1>4, <1>5, Zenon
<1> HIDE DEF u, v
<1>7. u = v
  BY <1>6, SeqEqual
<1> QED
  BY <1>7 DEF u, v

-----------------------------------------------------------------------------
(* What the operations of a cache keep *)

Sound(b) == b \in Cache /\ InBounds(b) /\ Ordered(b)

\* The fields of a cache.
LEMMA Fields ==
  ASSUME NEW b \in Cache
  PROVE /\ b.data \in Seq(Byte) /\ Len(b.data) \in Nat
        /\ b.size \in Nat /\ b.decode \in Nat
        /\ b.frames \in Seq(Entry) /\ Len(b.frames) \in Nat
        /\ \A i \in 1 .. Len(b.frames) : b.frames[i] \in Entry
                                         /\ b.frames[i].off \in Nat /\ b.frames[i].len \in Nat
<1>1. /\ b.data \in Seq(Byte) /\ b.size \in Nat /\ b.decode \in Nat
      /\ b.frames \in Seq(Entry)
  BY DEF Cache
<1>2. Len(b.data) \in Nat /\ Len(b.frames) \in Nat
  BY <1>1
<1>3. \A i \in 1 .. Len(b.frames) : b.frames[i] \in Entry
  BY <1>1, LenProperties
<1>4. \A x \in Entry : x.off \in Nat /\ x.len \in Nat
  BY DEF Entry
<1> QED
  BY <1>1, <1>2, <1>3, <1>4, Zenon

\* Bounds of summands.
LEMMA SummandBound == \A x, y, d \in Nat : x + y <= d => x <= d
  OBVIOUS

\* A frame that ends in the data begins in it.
LEMMA SummandBelow == \A x, y, d, l \in Nat : x + y <= d /\ d <= l => x <= d /\ x <= l
  OBVIOUS

\* A frame that ends in the data ends in more data.
LEMMA SumGrows == \A x, y, d, l \in Nat : x + y <= d => x + y <= d + l
  OBVIOUS

\* The first byte that is needed lies in the cache.
LEMMA ReadOffsetInData ==
  ASSUME NEW b, Sound(b)
  PROVE /\ ReadOffset(b) \in 0 .. b.decode /\ ReadOffset(b) \in 0 .. Len(b.data)
        /\ DataSize(b) = Len(b.data) - ReadOffset(b)
<1> b \in Cache
  BY DEF Sound
<1>1. b.decode \in 0 .. Len(b.data) /\ Len(b.data) \in Nat
  BY Fields DEF Sound, InBounds
<1>2. CASE b.frames = <<>>
  BY <1>1, <1>2 DEF ReadOffset, DataSize
<1>3. CASE b.frames # <<>>
  <2>1. 1 \in 1 .. Len(b.frames)
    BY <1>3, Fields
  <2>2. /\ b.frames[1].off \in Nat /\ b.frames[1].len \in Nat
        /\ b.frames[1].off + b.frames[1].len <= b.decode
    BY <2>1, Fields DEF Sound, Ordered
  <2>3. ReadOffset(b) = b.frames[1].off
    BY <1>3 DEF ReadOffset
  <2>4. b.frames[1].off <= b.decode /\ b.frames[1].off <= Len(b.data)
    <3>2. b.decode \in Nat /\ b.decode <= Len(b.data)
      BY <1>1
    <3> QED
      BY <1>1, <2>2, <3>2, SummandBelow, Zenon
  <2> QED
    BY <2>2, <2>3, <2>4 DEF DataSize
<1> QED
  BY <1>2, <1>3

\* resize: what is needed is at the start, and nothing else is there.
LEMMA Shifted ==
  ASSUME NEW b, Sound(b)
  PROVE LET r == ReadOffset(b)
            c == Shift(b)
        IN /\ c \in Cache /\ c.size = b.size
           /\ c.data = Rest(b.data, r) /\ Len(c.data) = Len(b.data) - r
           /\ c.decode = b.decode - r
           /\ Len(c.frames) = Len(b.frames) /\ (c.frames = <<>> <=> b.frames = <<>>)
           /\ \A i \in 1 .. Len(b.frames) : /\ c.frames[i].off = b.frames[i].off - r
                                            /\ c.frames[i].len = b.frames[i].len
           /\ ReadOffset(c) = 0
<1> DEFINE r == ReadOffset(b)
           fs == [i \in 1 .. Len(b.frames) |-> [b.frames[i] EXCEPT !.off = @ - r]]
           c == [data |-> Rest(b.data, r), size |-> b.size, decode |-> b.decode - r, frames |-> fs]
<1> b \in Cache
  BY DEF Sound
<1>1. Shift(b) = c
  <2>1. b = [data |-> b.data, size |-> b.size, decode |-> b.decode, frames |-> b.frames]
    BY DEF Cache
  <2>2. Shift(b) = [b EXCEPT !.data = Rest(b.data, r), !.decode = b.decode - r, !.frames = fs]
    BY DEF Shift, Rest
  <2> HIDE DEF fs, r
  <2> QED
    BY <2>1, <2>2
<1>2. r \in 0 .. b.decode /\ r \in 0 .. Len(b.data)
  BY ReadOffsetInData
<1>3. Rest(b.data, r) \in Seq(Byte) /\ Len(Rest(b.data, r)) = Len(b.data) - r
  BY <1>2, Fields, RestIs DEF Sound
<1>4. ASSUME NEW i \in 1 .. Len(b.frames)
      PROVE r <= b.frames[i].off
  <2>1. b.frames # <<>> /\ 1 \in 1 .. Len(b.frames) /\ 1 <= i
    BY Fields DEF Sound
  <2> QED
    BY <2>1 DEF Sound, Ordered, ReadOffset
<1>5. \A i \in 1 .. Len(b.frames) : /\ fs[i] \in Entry
                                    /\ fs[i].off = b.frames[i].off - r
                                    /\ fs[i].len = b.frames[i].len
  <2> SUFFICES ASSUME NEW i \in 1 .. Len(b.frames)
               PROVE /\ fs[i] \in Entry
                     /\ fs[i].off = b.frames[i].off - r
                     /\ fs[i].len = b.frames[i].len
    OBVIOUS
  <2> HIDE DEF r
  <2>1. fs[i] = [b.frames[i] EXCEPT !.off = @ - r]
    OBVIOUS
  <2>2. b.frames[i] \in Entry /\ b.frames[i].off \in Nat /\ r \in Nat
    BY <1>2, Fields DEF Sound
  <2>3. b.frames[i].off - r \in Nat
    BY <2>2, <1>4
  <2> QED
    BY <2>1, <2>2, <2>3 DEF Entry
<1>6. Len(b.frames) \in Nat
  BY Fields DEF Sound
<1>7. fs \in Seq(Entry) /\ Len(fs) = Len(b.frames)
  <2>1. fs = [i \in 1 .. Len(b.frames) |-> fs[i]]
    OBVIOUS
  <2> HIDE DEF fs
  <2>2. \A i \in 1 .. Len(b.frames) : fs[i] \in Entry
    BY <1>5
  <2>3. fs \in [1 .. Len(b.frames) -> Entry]
    BY <2>1, <2>2
  <2> QED
    BY <2>3, <1>6
<1> HIDE DEF fs
<1>8. c \in Cache
  BY <1>2, <1>3, <1>7, Fields DEF Cache, Sound
<1>9. fs = <<>> <=> b.frames = <<>>
  <2>1. fs = <<>> <=> Len(fs) = 0
    BY <1>7
  <2>2. b.frames = <<>> <=> Len(b.frames) = 0
    BY Fields
  <2> QED
    BY <1>7, <2>1, <2>2
<1>10. ReadOffset(c) = 0
  <2>1. CASE b.frames = <<>>
    BY <2>1, <1>9, Fields DEF ReadOffset, Sound
  <2>2. CASE b.frames # <<>>
    <3>1. 1 \in 1 .. Len(b.frames) /\ r = b.frames[1].off /\ b.frames[1].off \in Nat
      BY <2>2, Fields DEF Sound, ReadOffset
    <3>2. ReadOffset(c) = fs[1].off
      <4>1. c.frames = fs
        OBVIOUS
      <4> HIDE DEF c
      <4> QED
        BY <2>2, <1>9, <4>1 DEF ReadOffset
    <3> HIDE DEF r, c
    <3> QED
      BY <3>1, <3>2, <1>5
  <2> QED
    BY <2>1, <2>2
<1> HIDE DEF r
<1> QED
  BY <1>1, <1>3, <1>5, <1>7, <1>8, <1>9, <1>10 DEF r

\* resize leaves a sound cache, whatever size it is given that holds the data.
LEMMA Resized ==
  ASSUME NEW b, Sound(b), NEW size \in Nat,
         Len(b.data) - ReadOffset(b) <= size, size <= MaxCache
  PROVE LET r == ReadOffset(b)
            c == [Shift(b) EXCEPT !.size = size]
        IN /\ Sound(c) /\ c.size = size
           /\ c.data = Rest(b.data, r) /\ Len(c.data) = Len(b.data) - r
           /\ c.decode = b.decode - r
           /\ Len(c.frames) = Len(b.frames)
           /\ ReadOffset(c) = 0
<1> DEFINE r == ReadOffset(b)
           d == Shift(b)
           c == [d EXCEPT !.size = size]
<1>1. /\ d \in Cache /\ d.size = b.size
      /\ d.data = Rest(b.data, r) /\ Len(d.data) = Len(b.data) - r
      /\ d.decode = b.decode - r
      /\ Len(d.frames) = Len(b.frames) /\ (d.frames = <<>> <=> b.frames = <<>>)
      /\ \A i \in 1 .. Len(b.frames) : /\ d.frames[i].off = b.frames[i].off - r
                                       /\ d.frames[i].len = b.frames[i].len
      /\ ReadOffset(d) = 0
  BY Shifted
<1>2. r \in 0 .. b.decode /\ r \in 0 .. Len(b.data) /\ b \in Cache
  BY ReadOffsetInData DEF Sound
<1> HIDE DEF d, r
<1>3. /\ c \in Cache /\ c.data = d.data /\ c.decode = d.decode /\ c.frames = d.frames
      /\ c.size = size
  BY <1>1 DEF Cache
<1> HIDE DEF c
<1>4. ReadOffset(c) = 0
  BY <1>1, <1>3 DEF ReadOffset
<1>5. InBounds(c)
  <2>1. size \in 0 .. MaxCache /\ Len(c.data) <= size
    BY <1>1, <1>3 DEF r
  <2>2. c.decode \in 0 .. Len(c.data)
    BY <1>1, <1>2, <1>3, Fields DEF Sound, InBounds
  <2>3. ASSUME NEW i \in 1 .. Len(c.frames)
        PROVE /\ c.frames[i].len > 0
              /\ c.frames[i].off + c.frames[i].len =
                   IF i = Len(c.frames) THEN c.decode ELSE c.frames[i + 1].off
    <3>1. /\ i \in 1 .. Len(b.frames) /\ Len(c.frames) = Len(b.frames)
          /\ Len(b.frames) \in Nat /\ r \in Nat /\ b.decode \in Nat
      BY <1>1, <1>2, <1>3, Fields
    <3>2. /\ b.frames[i].len > 0
          /\ b.frames[i].off + b.frames[i].len =
               IF i = Len(b.frames) THEN b.decode ELSE b.frames[i + 1].off
          /\ b.frames[i].off \in Nat /\ b.frames[i].len \in Nat
      BY <3>1, <1>2, Fields DEF Sound, InBounds
    <3>3. c.frames[i].off = b.frames[i].off - r /\ c.frames[i].len = b.frames[i].len
      BY <1>1, <1>3, <3>1
    <3>4. CASE i = Len(b.frames)
      <4>1. c.decode = b.decode - r
        BY <1>1, <1>3
      <4>2. b.frames[i].off + b.frames[i].len = b.decode
        BY <3>2, <3>4
      <4>3. (b.frames[i].off - r) + b.frames[i].len = b.decode - r
        BY <3>1, <3>2, <4>2
      <4> QED
        BY <3>1, <3>2, <3>3, <3>4, <4>1, <4>3, Zenon
    <3>5. CASE i # Len(b.frames)
      <4>1. i + 1 \in 1 .. Len(b.frames)
        BY <3>1, <3>5
      <4>2. c.frames[i + 1].off = b.frames[i + 1].off - r /\ b.frames[i + 1].off \in Nat
        BY <4>1, <1>1, <1>2, <1>3, Fields
      <4>3. b.frames[i].off + b.frames[i].len = b.frames[i + 1].off
        BY <3>2, <3>5
      <4>4. (b.frames[i].off - r) + b.frames[i].len = b.frames[i + 1].off - r
        <5> DEFINE x == b.frames[i].off
                   y == b.frames[i].len
                   z == b.frames[i + 1].off
        <5>1. x \in Nat /\ y \in Nat /\ z \in Nat /\ r \in Nat /\ x + y = z
          BY <3>1, <3>2, <4>2, <4>3, Zenon
        <5> HIDE DEF x, y, z
        <5>2. (x - r) + y = z - r
          BY <5>1
        <5> QED
          BY <5>2 DEF x, y, z
      <4> QED
        BY <3>1, <3>2, <3>3, <3>5, <4>2, <4>4, Zenon
    <3> QED
      BY <3>4, <3>5
  <2> QED
    BY <2>1, <2>2, <2>3, <1>3 DEF InBounds
<1>6. Ordered(c)
  <2>0. Len(c.frames) = Len(b.frames) /\ r \in Nat /\ b.decode \in Nat /\ c.decode = b.decode - r
    BY <1>1, <1>2, <1>3, Fields
  <2>1. ASSUME NEW i \in 1 .. Len(c.frames), NEW j \in 1 .. Len(c.frames), i <= j
        PROVE c.frames[i].off <= c.frames[j].off
    <3>1. b.frames[i].off <= b.frames[j].off /\ b.frames[i].off \in Nat /\ b.frames[j].off \in Nat
      <4>1. i \in 1 .. Len(b.frames) /\ j \in 1 .. Len(b.frames)
        BY <2>0
      <4>2. b.frames[i].off <= b.frames[j].off
        BY <4>1, <2>1 DEF Sound, Ordered
      <4> QED
        BY <4>1, <4>2, <1>2, Fields
    <3>2. c.frames[i].off = b.frames[i].off - r /\ c.frames[j].off = b.frames[j].off - r
      BY <1>1, <1>3, <2>0
    <3> QED
      BY <3>1, <3>2, <2>0, SMTT(30)
  <2>2. ASSUME NEW i \in 1 .. Len(c.frames)
        PROVE c.frames[i].off + c.frames[i].len <= c.decode
    <3>1. /\ b.frames[i].off + b.frames[i].len <= b.decode
          /\ b.frames[i].off \in Nat /\ b.frames[i].len \in Nat
      BY <1>2, <2>0, Fields DEF Sound, Ordered
    <3>2. c.frames[i].off = b.frames[i].off - r /\ c.frames[i].len = b.frames[i].len
      BY <1>1, <1>3, <2>0
    <3> QED
      BY <3>1, <3>2, <2>0, SMTT(30)
  <2> QED
    BY <2>1, <2>2 DEF Ordered
<1> QED
  BY <1>1, <1>3, <1>4, <1>5, <1>6 DEF Sound, c, d, r

\* Bytes that fit are appended.
LEMMA Extended ==
  ASSUME NEW b, Sound(b), NEW s \in Seq(Byte), Len(b.data) + Len(s) <= b.size
  PROVE LET c == [b EXCEPT !.data = @ \o s]
        IN /\ Sound(c) /\ c.frames = b.frames /\ c.decode = b.decode
           /\ c.data = b.data \o s /\ Len(c.data) = Len(b.data) + Len(s)
           /\ ReadOffset(c) = ReadOffset(b)
<1> DEFINE c == [b EXCEPT !.data = @ \o s]
<1>1. b \in Cache
  BY DEF Sound
<1>2. b.data \o s \in Seq(Byte) /\ Len(b.data \o s) = Len(b.data) + Len(s)
      /\ Len(s) \in Nat /\ Len(b.data) \in Nat
  BY <1>1, Fields, ConcatProperties, LenProperties
<1>3. /\ c \in Cache /\ c.data = b.data \o s /\ c.frames = b.frames /\ c.decode = b.decode
      /\ c.size = b.size
  BY <1>1, <1>2 DEF Cache
<1> HIDE DEF c
<1>4. InBounds(c)
  BY <1>2, <1>3 DEF Sound, InBounds
<1>5. Ordered(c) /\ ReadOffset(c) = ReadOffset(b)
  BY <1>3 DEF Sound, Ordered, ReadOffset
<1> QED
  BY <1>2, <1>3, <1>4, <1>5 DEF Sound, c

\* appendCache makes room for the bytes: the new size holds them.
LEMMA RoomMade ==
  ASSUME NEW b, Sound(b), NEW len \in 1 .. MaxFrame, DataSize(b) + len <= MaxCache
  PROVE /\ NewSize(b, len) \in Nat /\ NewSize(b, len) <= MaxCache
        /\ DataSize(b) + len <= NewSize(b, len)
<1> DEFINE q == ShrinkFactor * len
<1>1. b.size \in Nat /\ DataSize(b) \in Nat /\ DataSize(b) <= b.size
  BY ReadOffsetInData, Fields DEF Sound, InBounds
<1>2. NewSize(b, len) = Lesser(MaxCache, IF b.size - DataSize(b) > q THEN DataSize(b) + MaxFrame
                                         ELSE b.size + MaxFrame)
  BY DEF NewSize
<1> HIDE DEF q
<1>3. PICK x \in Nat : NewSize(b, len) = Lesser(MaxCache, x) /\ DataSize(b) + len <= x
  <2>1. CASE b.size - DataSize(b) > q
    BY <1>1, <1>2, <2>1
  <2>2. CASE ~(b.size - DataSize(b) > q)
    BY <1>1, <1>2, <2>2
  <2> QED
    BY <2>1, <2>2
<1> QED
  BY <1>1, <1>3 DEF Lesser

\* appendCache keeps a cache sound and appends to what was there.
LEMMA Appended ==
  ASSUME NEW b, Sound(b), NEW s \in Seq(Byte), Len(s) \in 1 .. MaxFrame, Fits(b, Len(s))
  PROVE LET c == AppendCache(b, s)
        IN /\ Sound(c) /\ Len(c.frames) = Len(b.frames)
           /\ Len(c.data) - c.decode = Len(b.data) - b.decode + Len(s)
           /\ Rest(c.data, ReadOffset(c)) = Rest(b.data, ReadOffset(b)) \o s
           /\ Rest(c.data, c.decode) = Rest(b.data, b.decode) \o s
<1> DEFINE r == ReadOffset(b)
           c == AppendCache(b, s)
<1>0. /\ b \in Cache /\ r \in 0 .. b.decode /\ r \in 0 .. Len(b.data)
      /\ b.decode \in 0 .. Len(b.data) /\ DataSize(b) = Len(b.data) - r
      /\ b.data \in Seq(Byte) /\ Len(b.data) \in Nat
  BY ReadOffsetInData, Fields DEF Sound, InBounds
<1>1. CASE Len(s) + Len(b.data) <= b.size
  <2>1. c = [b EXCEPT !.data = @ \o s]
    BY <1>1 DEF AppendCache
  <2>2. Len(b.data) + Len(s) <= b.size
    BY <1>1, <1>0
  <2> HIDE DEF c
  <2>3. /\ Sound(c) /\ c.frames = b.frames /\ c.decode = b.decode
        /\ c.data = b.data \o s /\ Len(c.data) = Len(b.data) + Len(s)
        /\ ReadOffset(c) = r
    BY <2>1, <2>2, Extended
  <2>4. /\ Rest(b.data \o s, r) = Rest(b.data, r) \o s
        /\ Rest(b.data \o s, b.decode) = Rest(b.data, b.decode) \o s
    BY <1>0, RestOfConcat
  <2> HIDE DEF r
  <2>5. Len(c.data) - c.decode = Len(b.data) - b.decode + Len(s)
    BY <2>3, <1>0
  <2> QED
    BY <2>3, <2>4, <2>5 DEF c, r
<1>2. CASE ~(Len(s) + Len(b.data) <= b.size)
  <2> DEFINE size == NewSize(b, Len(s))
             e == [Shift(b) EXCEPT !.size = size]
  <2>1. c = [e EXCEPT !.data = @ \o s]
    BY <1>2 DEF AppendCache
  <2>2. /\ size \in Nat /\ size <= MaxCache /\ DataSize(b) + Len(s) <= size
    BY <1>2, RoomMade DEF Fits
  <2> HIDE DEF size, c
  <2>3. /\ Sound(e) /\ e.size = size
        /\ e.data = Rest(b.data, r) /\ Len(e.data) = Len(b.data) - r
        /\ e.decode = b.decode - r /\ Len(e.frames) = Len(b.frames)
        /\ ReadOffset(e) = 0
    <3>1. Len(b.data) - ReadOffset(b) <= size
      BY <2>2, <1>0
    <3> QED
      BY <2>2, <3>1, Resized
  <2> HIDE DEF e
  <2>4. Len(e.data) + Len(s) <= e.size
    BY <2>2, <2>3, <1>0
  <2>5. /\ Sound(c) /\ c.frames = e.frames /\ c.decode = e.decode
        /\ c.data = e.data \o s /\ Len(c.data) = Len(e.data) + Len(s)
        /\ ReadOffset(c) = 0
    BY <2>1, <2>3, <2>4, Extended
  <2> HIDE DEF r
  <2>6. Rest(b.data, r) \in Seq(Byte) /\ Len(Rest(b.data, r)) = Len(b.data) - r
    BY <1>0, RestIs
  <2>7. Rest(c.data, 0) = Rest(b.data, r) \o s
    <3>1. c.data \in Seq(Byte)
      BY <2>5, Fields DEF Sound
    <3>2. SubSeq(c.data, 0 + 1, Len(c.data)) = c.data
      BY <3>1, SubSeqFull
    <3>3. Rest(c.data, 0) = c.data
      BY <3>2 DEF Rest
    <3> QED
      BY <3>3, <2>3, <2>5
  <2>8. Rest(c.data, b.decode - r) = Rest(b.data, b.decode) \o s
    <3>1. b.decode - r \in Nat /\ r \in Nat /\ r + (b.decode - r) <= Len(b.data)
          /\ r + (b.decode - r) = b.decode /\ b.decode - r \in 0 .. Len(Rest(b.data, r))
      BY <1>0, <2>6
    <3>2. Rest(Rest(b.data, r) \o s, b.decode - r) = Rest(Rest(b.data, r), b.decode - r) \o s
      BY <3>1, <2>6, RestOfConcat
    <3>3. Rest(Rest(b.data, r), b.decode - r) = Rest(b.data, r + (b.decode - r))
      BY <3>1, <1>0, RestOfRest
    <3> QED
      BY <3>1, <3>2, <3>3, <2>3, <2>5, Zenon
  <2>9. Len(c.data) - c.decode = Len(b.data) - b.decode + Len(s)
    BY <2>3, <2>5, <1>0
  <2> QED
    BY <2>3, <2>5, <2>7, <2>8, <2>9 DEF c, r
<1> QED
  BY <1>1, <1>2

\* updateFrameCache for bytes that begin where decoding goes on.
LEMMA FrameAdded ==
  ASSUME NEW b, Sound(b), NEW len \in Nat \ {0}, b.decode + len <= Len(b.data)
  PROVE LET c == AddFrame(b, b.decode, len)
        IN /\ Sound(c) /\ c.data = b.data /\ c.decode = b.decode + len
           /\ Len(c.frames) = Len(b.frames) + 1
           /\ \A i \in 1 .. Len(b.frames) : c.frames[i] = b.frames[i]
           /\ c.frames[Len(b.frames) + 1] = [off |-> b.decode, len |-> len]
           /\ ReadOffset(c) = ReadOffset(b)
<1> DEFINE x == [off |-> b.decode, len |-> len]
           fs == Append(b.frames, x)
           m == Len(b.frames)
           c == AddFrame(b, b.decode, len)
<1>1. /\ b \in Cache /\ b.decode \in Nat /\ b.frames \in Seq(Entry) /\ m \in Nat
      /\ Len(b.data) \in Nat
      /\ \A i \in 1 .. m : b.frames[i].off \in Nat /\ b.frames[i].len \in Nat
  BY Fields DEF Sound
<1>2. x \in Entry /\ x.off = b.decode /\ x.len = len
  BY <1>1 DEF Entry
<1> HIDE DEF x
<1>3. /\ fs \in Seq(Entry) /\ Len(fs) = m + 1
      /\ \A i \in 1 .. m : fs[i] = b.frames[i]
      /\ fs[m + 1] = x
  BY <1>1, <1>2, AppendProperties
<1>4. c = [b EXCEPT !.frames = fs, !.decode = b.decode + len]
  BY DEF AddFrame, x
<1> HIDE DEF fs, c
<1>5. /\ c \in Cache /\ c.data = b.data /\ c.size = b.size
      /\ c.decode = b.decode + len /\ c.frames = fs
  <2>1. b = [data |-> b.data, size |-> b.size, decode |-> b.decode, frames |-> b.frames]
    BY <1>1 DEF Cache
  <2>2. c = [data |-> b.data, size |-> b.size, decode |-> b.decode + len, frames |-> fs]
    BY <2>1, <1>4
  <2>3. b.decode + len \in Nat /\ b.data \in Seq(Byte) /\ b.size \in Nat
    BY <1>1, Fields
  <2> QED
    BY <2>2, <2>3, <1>3 DEF Cache
<1>6. InBounds(c)
  <2>1. c.size \in 0 .. MaxCache /\ Len(c.data) <= c.size /\ c.decode \in 0 .. Len(c.data)
    BY <1>1, <1>5 DEF Sound, InBounds
  <2>2. ASSUME NEW i \in 1 .. Len(fs)
        PROVE /\ fs[i].len > 0
              /\ fs[i].off + fs[i].len = IF i = Len(fs) THEN b.decode + len ELSE fs[i + 1].off
    <3>1. CASE i = m + 1
      BY <3>1, <1>1, <1>2, <1>3
    <3>2. CASE i \in 1 .. m
      <4>1. /\ b.frames[i].len > 0
            /\ b.frames[i].off + b.frames[i].len = IF i = m THEN b.decode ELSE b.frames[i + 1].off
        BY <3>2 DEF Sound, InBounds
      <4>2. fs[i] = b.frames[i] /\ i # Len(fs)
        BY <3>2, <1>1, <1>3
      <4>3. CASE i = m
        BY <4>1, <4>2, <4>3, <1>2, <1>3
      <4>4. CASE i # m
        <5>1. i + 1 \in 1 .. m
          BY <3>2, <4>4, <1>1
        <5> QED
          BY <5>1, <4>1, <4>2, <4>4, <1>3
      <4> QED
        BY <4>3, <4>4
    <3> QED
      BY <3>1, <3>2, <1>1, <1>3
  <2> QED
    BY <2>1, <2>2, <1>5 DEF InBounds
<1>7. Ordered(c)
  <2>0. \A i \in 1 .. m : b.frames[i].off + b.frames[i].len <= b.decode
    BY DEF Sound, Ordered
  <2>1. ASSUME NEW i \in 1 .. Len(fs), NEW j \in 1 .. Len(fs), i <= j
        PROVE fs[i].off <= fs[j].off
    <3>1. CASE j \in 1 .. m
      <4>1. i \in 1 .. m
        BY <2>1, <3>1, <1>1
      <4> QED
        BY <2>1, <3>1, <4>1, <1>3 DEF Sound, Ordered
    <3>2. CASE j = m + 1 /\ i = m + 1
      BY <3>2, <1>1, <1>2, <1>3
    <3>3. CASE j = m + 1 /\ i \in 1 .. m
      <4>1. fs[i].off = b.frames[i].off /\ fs[j].off = b.decode
        BY <3>3, <1>2, <1>3
      <4> QED
        BY <3>3, <4>1, <2>0, <1>1, SummandBound, Zenon
    <3> QED
      BY <3>1, <3>2, <3>3, <1>1, <1>3
  <2>2. ASSUME NEW i \in 1 .. Len(fs)
        PROVE fs[i].off + fs[i].len <= b.decode + len
    <3>1. CASE i \in 1 .. m
      <4>1. fs[i].off = b.frames[i].off /\ fs[i].len = b.frames[i].len /\ len \in Nat
        BY <3>1, <1>3
      <4> QED
        BY <3>1, <4>1, <2>0, <1>1, SumGrows, Zenon
    <3>2. CASE i = m + 1
      BY <3>2, <1>1, <1>2, <1>3
    <3> QED
      BY <3>1, <3>2, <1>1, <1>3
  <2> QED
    BY <2>1, <2>2, <1>5 DEF Ordered
<1>8. ReadOffset(c) = ReadOffset(b)
  <2>1. c.frames # <<>> /\ (b.frames = <<>> <=> m = 0)
    BY <1>1, <1>3, <1>5
  <2>2. ReadOffset(c) = fs[1].off
    BY <2>1, <1>5 DEF ReadOffset
  <2>3. CASE b.frames = <<>>
    <3>1. fs[1] = x
      BY <2>1, <2>3, <1>3
    <3> QED
      BY <2>2, <2>3, <3>1, <1>2 DEF ReadOffset
  <2>4. CASE b.frames # <<>>
    <3>1. 1 \in 1 .. m
      BY <2>1, <2>4, <1>1
    <3> QED
      BY <3>1, <2>2, <2>4, <1>3 DEF ReadOffset
  <2> QED
    BY <2>3, <2>4
<1> QED
  BY <1>3, <1>5, <1>6, <1>7, <1>8 DEF Sound, c, x

\* popFrame: what follows the first frame is needed next.
LEMMA Popped ==
  ASSUME NEW b, Sound(b), b.frames # <<>>
  PROVE LET c == PopFrame(b)
        IN /\ Sound(c) /\ c.data = b.data /\ c.decode = b.decode
           /\ Len(c.frames) = Len(b.frames) - 1
           /\ \A i \in 1 .. Len(b.frames) - 1 : c.frames[i] = b.frames[i + 1]
           /\ ReadOffset(c) = b.frames[1].off + b.frames[1].len
<1> DEFINE fs == Tail(b.frames)
           m == Len(b.frames)
           c == PopFrame(b)
<1>1. /\ b \in Cache /\ b.decode \in Nat /\ b.frames \in Seq(Entry) /\ m \in Nat /\ 1 <= m
      /\ \A i \in 1 .. m : b.frames[i].off \in Nat /\ b.frames[i].len \in Nat
  BY Fields DEF Sound
<1>2. /\ fs \in Seq(Entry) /\ Len(fs) = m - 1
      /\ \A i \in 1 .. m - 1 : fs[i] = b.frames[i + 1]
  BY <1>1, HeadTailProperties
<1>3. c = [b EXCEPT !.frames = fs]
  BY DEF PopFrame
<1> HIDE DEF fs, c
<1>4. /\ c \in Cache /\ c.data = b.data /\ c.size = b.size /\ c.decode = b.decode /\ c.frames = fs
  BY <1>1, <1>2, <1>3 DEF Cache
<1>5. ASSUME NEW i \in 1 .. m
      PROVE /\ b.frames[i].len > 0
            /\ b.frames[i].off + b.frames[i].len = IF i = m THEN b.decode ELSE b.frames[i + 1].off
  BY DEF Sound, InBounds
<1>6. InBounds(c)
  <2>1. c.size \in 0 .. MaxCache /\ Len(c.data) <= c.size /\ c.decode \in 0 .. Len(c.data)
    BY <1>4 DEF Sound, InBounds
  <2>2. ASSUME NEW i \in 1 .. Len(fs)
        PROVE /\ fs[i].len > 0
              /\ fs[i].off + fs[i].len = IF i = Len(fs) THEN b.decode ELSE fs[i + 1].off
    <3>1. i \in 1 .. m - 1 /\ i + 1 \in 1 .. m /\ fs[i] = b.frames[i + 1]
      BY <1>1, <1>2
    <3>2. CASE i = Len(fs)
      BY <3>1, <3>2, <1>1, <1>2, <1>5
    <3>3. CASE i # Len(fs)
      <4>1. i + 1 \in 1 .. m - 1 /\ i + 1 # m /\ fs[i + 1] = b.frames[(i + 1) + 1]
        BY <3>1, <3>3, <1>1, <1>2, SMTT(30)
      <4> QED
        BY <4>1, <3>1, <3>3, <1>5
    <3> QED
      BY <3>2, <3>3
  <2> QED
    BY <2>1, <2>2, <1>4 DEF InBounds
<1>7. Ordered(c)
  <2>1. ASSUME NEW i \in 1 .. Len(fs), NEW j \in 1 .. Len(fs), i <= j
        PROVE fs[i].off <= fs[j].off
    <3>1. i + 1 \in 1 .. m /\ j + 1 \in 1 .. m /\ i + 1 <= j + 1
      BY <2>1, <1>1, <1>2
    <3> QED
      BY <3>1, <1>2 DEF Sound, Ordered
  <2>2. ASSUME NEW i \in 1 .. Len(fs)
        PROVE fs[i].off + fs[i].len <= b.decode
    <3>1. i + 1 \in 1 .. m /\ fs[i] = b.frames[i + 1]
      BY <1>1, <1>2
    <3> QED
      BY <3>1 DEF Sound, Ordered
  <2> QED
    BY <2>1, <2>2, <1>4 DEF Ordered
<1>8. ReadOffset(c) = b.frames[1].off + b.frames[1].len
  <2>0. m \in Nat /\ 1 <= m /\ Len(fs) = m - 1
    BY <1>1, <1>2
  <2>1. 1 \in 1 .. m /\ (fs = <<>> <=> m = 1)
    <3>1. fs = <<>> <=> Len(fs) = 0
      <4>1. fs \in Seq(Entry)
        BY <1>2
      <4> QED
        BY <4>1
    <3>2. 1 \in 1 .. m /\ (m - 1 = 0 <=> m = 1)
      <4> HIDE DEF m
      <4> QED
        BY <2>0
    <3> QED
      BY <3>1, <3>2, <2>0, Zenon
  <2>2. CASE m = 1
    BY <2>1, <2>2, <1>4, <1>5 DEF ReadOffset
  <2>3. CASE m # 1
    <3>1. fs[1] = b.frames[1 + 1]
      <4>1. 1 \in 1 .. m - 1
        <5> HIDE DEF m
        <5> QED
          BY <2>0, <2>3
      <4> QED
        BY <4>1, <1>2
    <3> QED
      BY <2>1, <2>3, <3>1, <1>4, <1>5 DEF ReadOffset
  <2> QED
    BY <2>2, <2>3
<1> QED
  BY <1>2, <1>4, <1>6, <1>7, <1>8 DEF Sound, c

\* sendCacheByFd: the bytes that were sent are not needed any more.
LEMMA Consumed ==
  ASSUME NEW b, Sound(b), b.frames # <<>>, NEW n \in 1 .. b.frames[1].len
  PROVE LET c == Consume(b, n)
        IN /\ Sound(c) /\ c.data = b.data /\ c.decode = b.decode
           /\ ReadOffset(c) = ReadOffset(b) + n
           /\ ReadOffset(b) + n <= Len(b.data)
<1> DEFINE m == Len(b.frames)
           c == Consume(b, n)
           x == b.frames[1]
           y == [off |-> x.off + n, len |-> x.len - n]
           fs == [b.frames EXCEPT ![1] = y]
<1>1. /\ b \in Cache /\ b.decode \in Nat /\ b.frames \in Seq(Entry) /\ m \in Nat /\ 1 \in 1 .. m
      /\ \A i \in 1 .. m : b.frames[i].off \in Nat /\ b.frames[i].len \in Nat
  BY Fields DEF Sound
<1>2. /\ ReadOffset(b) = x.off /\ x.off \in Nat /\ x.len \in Nat
      /\ b.decode \in 0 .. Len(b.data) /\ Len(b.data) \in Nat /\ x.off + x.len <= b.decode
  BY <1>1, Fields DEF Sound, ReadOffset, InBounds, Ordered
<1> HIDE DEF x, m
<1>3. x.off + n <= Len(b.data)
  <2>1. \A o, l, d, e \in Nat : n <= l /\ o + l <= d /\ d <= e => o + n <= e
    OBVIOUS
  <2>2. n <= x.len /\ b.decode <= Len(b.data) /\ b.decode \in Nat
    BY <1>2 DEF x
  <2> QED
    BY <1>2, <2>1, <2>2, Zenon
<1>4. CASE n = b.frames[1].len
  <2>1. c = PopFrame(b)
    BY <1>4 DEF Consume
  <2> HIDE DEF c
  <2>2. /\ Sound(c) /\ c.data = b.data /\ c.decode = b.decode
        /\ ReadOffset(c) = b.frames[1].off + b.frames[1].len
    BY <2>1, Popped
  <2> QED
    BY <2>2, <1>2, <1>3, <1>4 DEF c, x
<1>5. CASE n # b.frames[1].len
  <2>1. c = [b EXCEPT !.frames = fs]
    BY <1>5 DEF Consume, x
  <2>2. y \in Entry /\ y.off = x.off + n /\ y.len = x.len - n /\ y.len \in Nat \ {0}
    <3>1. x.off + n \in Nat /\ x.len - n \in Nat \ {0}
      <4>1. n <= x.len /\ n # x.len
        BY <1>2, <1>5 DEF x
      <4> QED
        BY <4>1, <1>2
    <3> QED
      BY <3>1 DEF Entry
  <2> HIDE DEF y, c
  <2>3. /\ fs \in Seq(Entry) /\ Len(fs) = m /\ fs[1] = y
        /\ \A i \in 2 .. m : fs[i] = b.frames[i]
    <3>1. /\ fs \in Seq(Entry) /\ Len(fs) = Len(b.frames)
          /\ \A i \in 1 .. Len(b.frames) : fs[i] = IF i = 1 THEN y ELSE b.frames[i]
      BY <1>1, <2>2, ExceptSeq DEF m
    <3> HIDE DEF fs
    <3> QED
      BY <3>1, <1>1 DEF m
  <2> HIDE DEF fs
  <2>4. /\ c \in Cache /\ c.data = b.data /\ c.size = b.size /\ c.decode = b.decode /\ c.frames = fs
    BY <1>1, <2>1, <2>3 DEF Cache
  <2>5. y.off + y.len = x.off + x.len /\ x.off <= y.off
    BY <1>2, <2>2
  <2>6. ASSUME NEW i \in 1 .. m
        PROVE /\ b.frames[i].len > 0
              /\ b.frames[i].off + b.frames[i].len = IF i = m THEN b.decode ELSE b.frames[i + 1].off
    BY DEF Sound, InBounds, m
  <2>7. ASSUME NEW i \in 1 .. m
        PROVE /\ fs[i].len > 0
              /\ fs[i].off + fs[i].len = b.frames[i].off + b.frames[i].len
              /\ i # m => fs[i + 1].off = b.frames[i + 1].off
    <3>1. i = 1 \/ i \in 2 .. m
      BY <1>1
    <3>2. i # m => i + 1 \in 2 .. m
      BY <1>1
    <3>3. CASE i = 1
      BY <3>2, <3>3, <2>2, <2>3, <2>5 DEF x
    <3>4. CASE i \in 2 .. m
      BY <3>2, <3>4, <2>3, <2>6
    <3> QED
      BY <3>1, <3>3, <3>4
  <2>8. InBounds(c)
    <3>1. c.size \in 0 .. MaxCache /\ Len(c.data) <= c.size /\ c.decode \in 0 .. Len(c.data)
      BY <2>4 DEF Sound, InBounds
    <3>2. ASSUME NEW i \in 1 .. m
          PROVE /\ fs[i].len > 0
                /\ fs[i].off + fs[i].len = IF i = m THEN b.decode ELSE fs[i + 1].off
      BY <2>6, <2>7
    <3> QED
      BY <3>1, <3>2, <2>3, <2>4 DEF InBounds
  <2>9. Ordered(c)
    <3>1. ASSUME NEW i \in 1 .. m, NEW j \in 1 .. m, i <= j
          PROVE fs[i].off <= fs[j].off
      <4>1. CASE i = 1 /\ j = 1
        BY <4>1, <1>2, <2>2, <2>3
      <4>2. CASE i = 1 /\ j \in 2 .. m
        <5>1. 2 \in 2 .. m /\ 1 # m /\ 2 \in 1 .. m /\ 2 <= j
          BY <4>2, <1>1
        <5>2. x.off + x.len = b.frames[2].off
          BY <1>1, <2>6, <5>1, 1 + 1 = 2 DEF x
        <5>3. b.frames[2].off <= b.frames[j].off
          BY <5>1 DEF Sound, Ordered, m
        <5>4. y.off <= b.frames[2].off
          BY <5>2, <2>2, <2>5, <1>2
        <5>5. fs[i].off = y.off /\ fs[j].off = b.frames[j].off
          BY <4>2, <2>3
        <5>6. y.off \in Nat /\ b.frames[2].off \in Nat /\ b.frames[j].off \in Nat
          BY <1>1, <1>2, <2>2, <5>1
        <5>7. \A u, v, w \in Nat : u <= v /\ v <= w => u <= w
          OBVIOUS
        <5> QED
          BY <5>3, <5>4, <5>5, <5>6, <5>7, Zenon
      <4>3. CASE i \in 2 .. m /\ j \in 2 .. m
        BY <3>1, <4>3, <2>3 DEF Sound, Ordered, m
      <4> QED
        BY <3>1, <4>1, <4>2, <4>3, <1>1
    <3>2. ASSUME NEW i \in 1 .. m PROVE fs[i].off + fs[i].len <= b.decode
      BY <2>7 DEF Sound, Ordered, m
    <3> QED
      BY <3>1, <3>2, <2>3, <2>4 DEF Ordered
  <2>10. ReadOffset(c) = y.off
    <3>1. fs # <<>>
      BY <2>3, <1>1
    <3> QED
      BY <3>1, <2>3, <2>4 DEF ReadOffset
  <2> QED
    BY <2>2, <2>4, <2>8, <2>9, <2>10, <1>2, <1>3 DEF Sound, c
<1> QED
  BY <1>4, <1>5

-----------------------------------------------------------------------------
(* Runs *)

\* Elements of a sequence of bytes, and what comes after one.
LEMMA BytesOf ==
  ASSUME NEW s \in Seq(Byte)
  PROVE /\ Len(s) \in Nat /\ (s = <<>> <=> Len(s) = 0)
        /\ \A k \in 1 .. Len(s) : s[k] \in Byte
        /\ \A x \in Byte : Place(x) \in Places /\ After(x) \in Places
<1>1. \A k \in 1 .. Len(s) : s[k] \in Byte
  BY LenProperties
<1>2. \A x \in Byte : Place(x) \in Places /\ After(x) \in Places
  BY DEF Byte, Place, After, Places
<1> QED
  BY <1>1, <1>2

\* Two runs, one behind the other, are a run.
LEMMA RunConcat ==
  ASSUME NEW s \in Seq(Byte), NEW t \in Seq(Byte), NEW a, NEW c, NEW d,
         Run(s, a, c), Run(t, c, d)
  PROVE Run(s \o t, a, d)
<1>0. Len(s) \in Nat /\ Len(t) \in Nat /\ (s = <<>> <=> Len(s) = 0) /\ (t = <<>> <=> Len(t) = 0)
  BY BytesOf
<1>1. /\ s \o t \in Seq(Byte) /\ Len(s \o t) = Len(s) + Len(t)
      /\ \A i \in 1 .. Len(s) + Len(t) : (s \o t)[i] = IF i <= Len(s) THEN s[i] ELSE t[i - Len(s)]
  BY ConcatProperties
<1>2. CASE s = <<>>
  BY <1>2 DEF Run
<1>3. CASE t = <<>>
  BY <1>3 DEF Run
<1>4. CASE s # <<>> /\ t # <<>>
  <2> DEFINE u == s \o t
  <2>1. Len(s) >= 1 /\ Len(t) >= 1
    BY <1>0, <1>4
  <2>2. u[1] = s[1] /\ u[Len(s) + Len(t)] = t[Len(t)] /\ u[Len(s)] = s[Len(s)] /\ u[Len(s) + 1] = t[1]
    BY <1>0, <1>1, <2>1
  <2> HIDE DEF u
  <2>3. Place(u[1]) = a /\ After(u[Len(s) + Len(t)]) = d
    BY <1>4, <2>2 DEF Run
  <2>4. ASSUME NEW k \in 1 .. Len(s) + Len(t) - 1
        PROVE Place(u[k + 1]) = After(u[k])
    <3>1. CASE k < Len(s)
      <4>1. k \in 1 .. Len(s) - 1 /\ k + 1 <= Len(s) /\ k <= Len(s)
            /\ k \in 1 .. Len(s) + Len(t) /\ k + 1 \in 1 .. Len(s) + Len(t)
        BY <1>0, <3>1
      <4>2. u[k] = s[k] /\ u[k + 1] = s[k + 1]
        BY <4>1, <1>1 DEF u
      <4> QED
        BY <4>1, <4>2 DEF Run
    <3>2. CASE k = Len(s)
      BY <3>2, <2>2, <1>4 DEF Run
    <3>3. CASE k > Len(s)
      <4>1. /\ k - Len(s) \in 1 .. Len(t) - 1 /\ ~(k <= Len(s)) /\ ~(k + 1 <= Len(s))
            /\ k \in 1 .. Len(s) + Len(t) /\ k + 1 \in 1 .. Len(s) + Len(t)
            /\ (k + 1) - Len(s) = (k - Len(s)) + 1
        BY <1>0, <3>3
      <4>2. u[k] = t[k - Len(s)] /\ u[k + 1] = t[(k - Len(s)) + 1]
        BY <4>1, <1>1 DEF u
      <4> QED
        BY <4>1, <4>2 DEF Run
    <3> QED
      BY <3>1, <3>2, <3>3, <1>0
  <2>5. u # <<>> /\ Len(u) = Len(s) + Len(t)
    BY <1>0, <1>1, <2>1 DEF u
  <2> QED
    BY <2>3, <2>4, <2>5 DEF Run, u
<1> QED
  BY <1>2, <1>3, <1>4

\* A run may be cut anywhere.
LEMMA RunSplit ==
  ASSUME NEW s \in Seq(Byte), NEW k \in 0 .. Len(s), NEW a \in Places, NEW d \in Places,
         Run(s, a, d)
  PROVE \E c \in Places : Run(SubSeq(s, 1, k), a, c) /\ Run(Rest(s, k), c, d)
<1>0. /\ Len(s) \in Nat /\ (s = <<>> <=> Len(s) = 0)
      /\ \A j \in 1 .. Len(s) : s[j] \in Byte
      /\ \A x \in Byte : Place(x) \in Places /\ After(x) \in Places
  BY BytesOf
<1>1. /\ SubSeq(s, 1, k) \in Seq(Byte) /\ Len(SubSeq(s, 1, k)) = k
      /\ \A j \in 1 .. k : SubSeq(s, 1, k)[j] = s[j]
  <2>1. 0 \in Nat /\ k \in Nat /\ 0 + k <= Len(s) /\ 0 + k = k /\ 0 + 1 = 1 /\ \A j \in 1 .. k : 0 + j = j
    OBVIOUS
  <2>2. /\ SubSeq(s, 0 + 1, 0 + k) \in Seq(Byte) /\ Len(SubSeq(s, 0 + 1, 0 + k)) = k
        /\ \A j \in 1 .. k : SubSeq(s, 0 + 1, 0 + k)[j] = s[0 + j]
    BY <2>1, PieceIs
  <2> QED
    BY <2>1, <2>2
<1>2. /\ Rest(s, k) \in Seq(Byte) /\ Len(Rest(s, k)) = Len(s) - k
      /\ \A j \in 1 .. Len(s) - k : Rest(s, k)[j] = s[k + j]
  BY RestIs
<1> DEFINE p == SubSeq(s, 1, k)
           q == Rest(s, k)
<1>3. (p = <<>> <=> k = 0) /\ (q = <<>> <=> k = Len(s))
  <2>1. (p = <<>> <=> Len(p) = 0) /\ (q = <<>> <=> Len(q) = 0)
    BY <1>1, <1>2, BytesOf
  <2>2. Len(p) = k /\ Len(q) = Len(s) - k
    BY <1>1, <1>2
  <2>3. Len(s) - k = 0 <=> k = Len(s)
    BY <1>0
  <2> QED
    BY <2>1, <2>2, <2>3, Zenon
<1> HIDE DEF p, q
<1>4. CASE k = 0
  <2>1. Run(p, a, a)
    BY <1>1, <1>3, <1>4 DEF Run, p
  <2>2. q = s
    <3>1. SubSeq(s, 0 + 1, Len(s)) = s
      BY SubSeqFull
    <3> QED
      BY <3>1, <1>4 DEF Rest, q
  <2> QED
    BY <2>1, <2>2 DEF p, q
<1>5. CASE k = Len(s)
  <2>1. Run(q, d, d)
    BY <1>2, <1>3, <1>5 DEF Run, q
  <2>2. p = s
    BY <1>5, SubSeqFull DEF p
  <2> QED
    BY <2>1, <2>2 DEF p, q
<1>6. CASE k \in 1 .. Len(s) - 1
  <2>0. s # <<>> /\ p # <<>> /\ q # <<>> /\ k \in 1 .. Len(s) /\ k \in 1 .. k
        /\ 1 \in 1 .. k /\ 1 \in 1 .. Len(s) - k /\ Len(s) - k \in 1 .. Len(s) - k
        /\ k + (Len(s) - k) = Len(s)
    BY <1>0, <1>3, <1>6
  <2>1. p[1] = s[1] /\ p[k] = s[k] /\ q[1] = s[k + 1] /\ q[Len(s) - k] = s[Len(s)]
    BY <1>1, <1>2, <2>0 DEF p, q
  <2>2. Run(p, a, After(s[k]))
    <3>1. ASSUME NEW j \in 1 .. k - 1 PROVE Place(p[j + 1]) = After(p[j])
      <4>1. j \in 1 .. k /\ j + 1 \in 1 .. k /\ j \in 1 .. Len(s) - 1
        BY <1>6, <1>0
      <4> QED
        BY <4>1, <1>1 DEF Run, p
    <3> QED
      BY <2>0, <2>1, <3>1, <1>1 DEF Run, p
  <2>3. Run(q, After(s[k]), d)
    <3>1. ASSUME NEW j \in 1 .. (Len(s) - k) - 1 PROVE Place(q[j + 1]) = After(q[j])
      <4>1. j \in 1 .. Len(s) - k /\ j + 1 \in 1 .. Len(s) - k /\ k + j \in 1 .. Len(s) - 1
            /\ k + (j + 1) = (k + j) + 1
        BY <1>6, <1>0
      <4>2. q[j] = s[k + j] /\ q[j + 1] = s[(k + j) + 1]
        BY <4>1, <1>2 DEF q
      <4> QED
        BY <4>1, <4>2 DEF Run
    <3>2. Place(s[k + 1]) = After(s[k])
      BY <1>6 DEF Run
    <3>3. After(q[Len(s) - k]) = d
      BY <2>0, <2>1 DEF Run
    <3> QED
      BY <2>0, <2>1, <3>1, <3>2, <3>3, <1>2 DEF Run, q
  <2>4. After(s[k]) \in Places
    BY <2>0, <1>0
  <2> QED
    BY <2>2, <2>3, <2>4 DEF p, q
<1> QED
  BY <1>4, <1>5, <1>6, <1>0

\* A nonempty set of numbers has a least element.
LEMMA LeastExists ==
  ASSUME NEW S, S \subseteq Nat, S # {}
  PROVE \E i \in S : \A j \in S : i <= j
<1> DEFINE R == {p \in Nat \X Nat : p[1] < p[2]}
<1>1. IsWellFoundedOn(R, Nat)
  BY NatLessThanWellFounded DEF OpToRel
<1>2. PICK i \in S : \A j \in S : ~(<<j, i>> \in R)
  BY <1>1, WFMin
<1>3. ASSUME NEW j \in S PROVE i <= j
  <2>1. i \in Nat /\ j \in Nat /\ ~(j < i)
    BY <1>2
  <2> QED
    BY <2>1
<1> QED
  BY <1>3

\* Lengths that sendFrame is given.
LEMMA LensAre == \A x \in FrameLens : x \in Nat \ {0} /\ MinFrame <= x
  BY LensAssumption

\* The bytes of a frame are a run from its first byte to the next frame.
LEMMA FrameIs ==
  ASSUME NEW f \in Nat, NEW len \in Nat \ {0}
  PROVE /\ Frame(f, len) \in Seq(Byte) /\ Len(Frame(f, len)) = len
        /\ \A j \in 1 .. len : Frame(f, len)[j] = [f |-> f, i |-> j, n |-> len]
        /\ Run(Frame(f, len), <<f, 1>>, <<f + 1, 1>>)
<1> DEFINE s == Frame(f, len)
<1>1. s = [j \in 1 .. len |-> [f |-> f, i |-> j, n |-> len]]
  BY DEF Frame
<1>2. \A j \in 1 .. len : [f |-> f, i |-> j, n |-> len] \in Byte
  BY DEF Byte
<1>3. s \in [1 .. len -> Byte] /\ \A j \in 1 .. len : s[j] = [f |-> f, i |-> j, n |-> len]
  BY <1>1, <1>2
<1> HIDE DEF s
<1>4. s \in Seq(Byte) /\ Len(s) = len
  BY <1>3
<1>5. s # <<>>
  BY <1>4
<1>6. \A j \in 1 .. len : Place(s[j]) = <<f, j>>
  BY <1>3 DEF Place
<1>7. \A j \in 1 .. len : After(s[j]) = IF j = len THEN <<f + 1, 1>> ELSE <<f, j + 1>>
  <2> SUFFICES ASSUME NEW j \in 1 .. len
               PROVE After(s[j]) = IF j = len THEN <<f + 1, 1>> ELSE <<f, j + 1>>
    OBVIOUS
  <2> DEFINE x == s[j]
  <2>1. x = [f |-> f, i |-> j, n |-> len]
    BY <1>3
  <2> HIDE DEF x
  <2>2. x.f = f /\ x.i = j /\ x.n = len
    BY <2>1
  <2>3. After(x) = IF j = len THEN <<f + 1, 1>> ELSE <<f, j + 1>>
    BY <2>2, Zenon DEF After
  <2> QED
    BY <2>3 DEF x
<1>8. Run(s, <<f, 1>>, <<f + 1, 1>>)
  <2>0. 1 \in 1 .. len /\ len \in 1 .. len
    OBVIOUS
  <2>1. Place(s[1]) = <<f, 1>> /\ After(s[len]) = <<f + 1, 1>>
    BY <2>0, <1>6, <1>7, Zenon
  <2>2. ASSUME NEW k \in 1 .. len - 1 PROVE Place(s[k + 1]) = After(s[k])
    <3>1. k \in 1 .. len /\ k + 1 \in 1 .. len /\ k # len
      OBVIOUS
    <3> QED
      BY <3>1, <1>6, <1>7
  <2> QED
    BY <2>1, <2>2, <1>4, <1>5 DEF Run
<1> QED
  BY <1>3, <1>4, <1>8 DEF s

\* A run that begins with a frame and is long enough holds that frame, and then
\* the next one begins: decodeFrame finds what sendFrame was given.
LEMMA RunHead ==
  ASSUME NEW s \in Seq(Byte), NEW f \in Nat, NEW d \in Places, NEW acc \in Seq(Seq(Byte)),
         Run(s, <<f, 1>>, d), AllGenuine(s, acc), s # <<>>, s[1].n <= Len(s)
  PROVE /\ f \in 1 .. Len(acc)
        /\ SubSeq(s, 1, s[1].n) = acc[f]
        /\ Run(Rest(s, s[1].n), <<f + 1, 1>>, d)
<1> DEFINE n == s[1].n
<1>0. /\ Len(s) \in Nat /\ 1 \in 1 .. Len(s)
      /\ \A j \in 1 .. Len(s) : s[j] \in Byte
  BY BytesOf
<1>1. /\ s[1].f = f /\ s[1].i = 1 /\ n \in FrameLens /\ 1 <= n /\ n \in Nat
      /\ f \in 1 .. Len(acc) /\ acc[f] = Frame(f, n)
  <2>1. Genuine(s[1], acc) /\ Place(s[1]) = <<f, 1>>
    BY <1>0 DEF AllGenuine, Run
  <2>2. s[1].f = f /\ s[1].i = 1
    BY <2>1 DEF Place
  <2>3. n \in Nat
    BY <1>0 DEF Byte
  <2> QED
    BY <2>1, <2>2, <2>3 DEF Genuine
<1> HIDE DEF n
<1>2. n <= Len(s)
  BY DEF n
<1>3. \A j \in 1 .. n : s[j].f = f /\ s[j].i = j /\ s[j].n = n
  <2> DEFINE Bad == {j \in 1 .. n : ~(s[j].f = f /\ s[j].i = j /\ s[j].n = n)}
  <2> SUFFICES ASSUME Bad # {} PROVE FALSE
    BY Zenon
  <2>1. PICK j \in Bad : \A k \in Bad : j <= k
    <3>1. Bad \subseteq Nat
      BY <1>1
    <3> HIDE DEF Bad
    <3> QED
      BY <3>1, LeastExists
  <2>2. j \in 1 .. n /\ ~(s[j].f = f /\ s[j].i = j /\ s[j].n = n)
    BY <2>1
  <2>3. CASE j = 1
    BY <2>2, <2>3, <1>1 DEF n
  <2>4. CASE j # 1
    <3>1. j - 1 \in 1 .. n /\ ~(j <= j - 1) /\ j \in 1 .. Len(s) /\ j - 1 \in 1 .. Len(s) - 1
          /\ (j - 1) + 1 = j /\ j - 1 # n
      BY <2>2, <2>4, <1>0, <1>1, <1>2
    <3>2. j - 1 \notin Bad
      BY <2>1, <3>1
    <3>3. s[j - 1].f = f /\ s[j - 1].i = j - 1 /\ s[j - 1].n = n
      BY <3>1, <3>2
    <3>4. Place(s[j]) = After(s[j - 1])
      <4>1. Place(s[(j - 1) + 1]) = After(s[j - 1])
        BY <3>1 DEF Run
      <4> QED
        BY <3>1, <4>1
    <3>5. After(s[j - 1]) = <<f, j>>
      BY <3>1, <3>3 DEF After
    <3>6. s[j].f = f /\ s[j].i = j
      BY <3>4, <3>5 DEF Place
    <3>7. acc[s[j].f] = Frame(s[j].f, s[j].n) /\ s[j].n \in Nat \ {0}
      <4>1. Genuine(s[j], acc)
        BY <3>1 DEF AllGenuine
      <4> QED
        BY <4>1, LensAre, Zenon DEF Genuine
    <3>8. Len(Frame(f, n)) = n /\ Len(Frame(f, s[j].n)) = s[j].n
      <4>1. n \in Nat \ {0}
        BY <1>1
      <4> QED
        BY <4>1, <3>7, FrameIs, Zenon
    <3> QED
      BY <2>2, <3>6, <3>7, <3>8, <1>1, Zenon
  <2> QED
    BY <2>3, <2>4
<1>4. PICK c \in Places : Run(SubSeq(s, 1, n), <<f, 1>>, c) /\ Run(Rest(s, n), c, d)
  <2>1. n \in 0 .. Len(s) /\ <<f, 1>> \in Places
    BY <1>1, <1>2, <1>0 DEF Places
  <2> QED
    BY <2>1, RunSplit
<1>5. /\ SubSeq(s, 1, n) \in Seq(Byte) /\ Len(SubSeq(s, 1, n)) = n
      /\ \A j \in 1 .. n : SubSeq(s, 1, n)[j] = s[j]
  <2>1. 0 \in Nat /\ 0 + n <= Len(s) /\ 0 + n = n /\ 0 + 1 = 1 /\ \A j \in 1 .. n : 0 + j = j
    BY <1>1, <1>2
  <2>2. /\ SubSeq(s, 0 + 1, 0 + n) \in Seq(Byte) /\ Len(SubSeq(s, 0 + 1, 0 + n)) = n
        /\ \A j \in 1 .. n : SubSeq(s, 0 + 1, 0 + n)[j] = s[0 + j]
    BY <2>1, <1>1, PieceIs
  <2> QED
    BY <2>1, <2>2
<1>6. /\ Frame(f, n) \in Seq(Byte) /\ Len(Frame(f, n)) = n
      /\ \A j \in 1 .. n : Frame(f, n)[j] = [f |-> f, i |-> j, n |-> n]
  <2>1. n \in Nat \ {0}
    BY <1>1
  <2> QED
    BY <2>1, FrameIs
<1>7. ASSUME NEW j \in 1 .. n PROVE SubSeq(s, 1, n)[j] = Frame(f, n)[j]
  <2>1. s[j] \in Byte
    BY <1>0, <1>1, <1>2
  <2>2. s[j] = [f |-> s[j].f, i |-> s[j].i, n |-> s[j].n]
    BY <2>1 DEF Byte
  <2> QED
    BY <2>2, <1>3, <1>5, <1>6
<1>8. SubSeq(s, 1, n) = Frame(f, n)
  BY <1>5, <1>6, <1>7, SeqEqual
<1>9. c = <<f + 1, 1>>
  <2>1. n \in 1 .. n /\ s[n].f = f /\ s[n].i = n /\ s[n].n = n
    BY <1>1, <1>3
  <2>2. After(s[n]) = <<f + 1, 1>>
    BY <2>1 DEF After
  <2>3. SubSeq(s, 1, n) # <<>> /\ SubSeq(s, 1, n)[n] = s[n]
    <3>0. Len(SubSeq(s, 1, n)) = n /\ n # 0
      BY <1>1, <1>5
    <3>1. SubSeq(s, 1, n)[n] = s[n] /\ Len(SubSeq(s, 1, n)) # 0
      BY <3>0, <1>5, <2>1, Zenon
    <3>2. Len(<<>>) = 0
      OBVIOUS
    <3> QED
      BY <3>1, <3>2, Zenon
  <2> QED
    BY <1>4, <1>5, <2>2, <2>3 DEF Run
<1> QED
  BY <1>1, <1>4, <1>8, <1>9 DEF n

\* Pieces of genuine sequences are genuine, and so are concatenations.
LEMMA GenuinePieces ==
  ASSUME NEW acc, NEW s \in Seq(Byte), NEW k \in 0 .. Len(s), AllGenuine(s, acc)
  PROVE AllGenuine(SubSeq(s, 1, k), acc) /\ AllGenuine(Rest(s, k), acc)
<1>1. /\ Len(SubSeq(s, 1, k)) = k /\ \A j \in 1 .. k : SubSeq(s, 1, k)[j] = s[j]
  <2>1. 0 \in Nat /\ k \in Nat /\ 0 + k <= Len(s) /\ 0 + k = k /\ 0 + 1 = 1 /\ \A j \in 1 .. k : 0 + j = j
    OBVIOUS
  <2>2. /\ Len(SubSeq(s, 0 + 1, 0 + k)) = k
        /\ \A j \in 1 .. k : SubSeq(s, 0 + 1, 0 + k)[j] = s[0 + j]
    BY <2>1, PieceIs
  <2> QED
    BY <2>1, <2>2
<1>2. Len(Rest(s, k)) = Len(s) - k /\ \A j \in 1 .. Len(s) - k : Rest(s, k)[j] = s[k + j]
  BY RestIs
<1>3. Len(s) \in Nat
  BY BytesOf
<1>4. AllGenuine(SubSeq(s, 1, k), acc)
  <2>1. \A j \in 1 .. k : j \in 1 .. Len(s)
    BY <1>3
  <2> QED
    BY <2>1, <1>1, Zenon DEF AllGenuine
<1>5. AllGenuine(Rest(s, k), acc)
  <2>1. \A j \in 1 .. Len(s) - k : k + j \in 1 .. Len(s)
    BY <1>3
  <2> QED
    BY <2>1, <1>2, Zenon DEF AllGenuine
<1> QED
  BY <1>4, <1>5

\* Two pieces of genuine bytes make one.
LEMMA GenuineConcat ==
  ASSUME NEW acc, NEW s \in Seq(Byte), NEW t \in Seq(Byte), AllGenuine(s, acc), AllGenuine(t, acc)
  PROVE AllGenuine(s \o t, acc)
<1>1. /\ Len(s \o t) = Len(s) + Len(t)
      /\ \A i \in 1 .. Len(s) + Len(t) : (s \o t)[i] = IF i <= Len(s) THEN s[i] ELSE t[i - Len(s)]
  BY ConcatProperties
<1>2. Len(s) \in Nat /\ Len(t) \in Nat
  BY BytesOf
<1>3. ASSUME NEW i \in 1 .. Len(s) + Len(t) PROVE Genuine((s \o t)[i], acc)
  <2>1. CASE i <= Len(s)
    <3>1. i \in 1 .. Len(s) /\ (s \o t)[i] = s[i]
      BY <2>1, <1>1, <1>2
    <3> QED
      BY <3>1, Zenon DEF AllGenuine
  <2>2. CASE ~(i <= Len(s))
    <3>1. i - Len(s) \in 1 .. Len(t) /\ (s \o t)[i] = t[i - Len(s)]
      BY <2>2, <1>1, <1>2
    <3> QED
      BY <3>1, Zenon DEF AllGenuine
  <2> QED
    BY <2>1, <2>2
<1> QED
  BY <1>1, <1>3, Zenon DEF AllGenuine

\* A byte stays genuine when frames are accepted.
LEMMA GenuineStays ==
  ASSUME NEW acc \in Seq(Seq(Byte)), NEW more \in Seq(Seq(Byte)), Len(acc) <= Len(more),
         \A k \in 1 .. Len(acc) : more[k] = acc[k],
         NEW s, AllGenuine(s, acc)
  PROVE AllGenuine(s, more)
<1>1. Len(acc) \in Nat /\ Len(more) \in Nat
  OBVIOUS
<1>2. ASSUME NEW x, Genuine(x, acc) PROVE Genuine(x, more)
  <2>1. x.f \in 1 .. Len(acc) /\ x.n \in FrameLens /\ x.i \in 1 .. x.n
        /\ acc[x.f] = Frame(x.f, x.n)
    BY <1>2 DEF Genuine
  <2>2. x.f \in 1 .. Len(more)
    BY <2>1, <1>1
  <2>3. more[x.f] = acc[x.f]
    BY <2>1
  <2> QED
    BY <2>1, <2>2, <2>3 DEF Genuine
<1> QED
  BY <1>2, Zenon DEF AllGenuine

\* appendFrame, for a cache whose bytes all belong to frames.
LEMMA FrameAppended ==
  ASSUME NEW b, Sound(b), b.decode = Len(b.data), NEW s \in Seq(Byte),
         Len(s) \in 1 .. MaxFrame, Fits(b, Len(s))
  PROVE LET c == AppendFrame(b, s)
        IN /\ Sound(c) /\ c.decode = Len(c.data)
           /\ Rest(c.data, ReadOffset(c)) = Rest(b.data, ReadOffset(b)) \o s
<1> DEFINE e == AppendCache(b, s)
           c == AppendFrame(b, s)
<1>1. /\ Sound(e)
      /\ Len(e.data) - e.decode = Len(b.data) - b.decode + Len(s)
      /\ Rest(e.data, ReadOffset(e)) = Rest(b.data, ReadOffset(b)) \o s
  BY Appended
<1>2. c = AddFrame(e, Len(e.data) - Len(s), Len(s))
  BY DEF AppendFrame
<1> HIDE DEF e, c
<1>3. e \in Cache /\ Len(e.data) \in Nat /\ e.decode \in Nat /\ Len(b.data) \in Nat
  BY <1>1, Fields DEF Sound
<1>4. e.decode + Len(s) = Len(e.data) /\ e.decode = Len(e.data) - Len(s)
  <2>2. Len(b.data) - b.decode + Len(s) = Len(s) /\ Len(s) \in Nat
    BY <1>3
  <2>3. Len(e.data) - e.decode = Len(s)
    BY <1>1, <2>2, Zenon
  <2>4. Len(e.data) \in Nat /\ e.decode \in Nat
    BY <1>3
  <2> QED
    BY <2>2, <2>3, <2>4
<1>5. Len(s) \in Nat \ {0} /\ e.decode + Len(s) <= Len(e.data)
  BY <1>3, <1>4
<1>6. c = AddFrame(e, e.decode, Len(s))
  BY <1>2, <1>4
<1>7. Sound(c) /\ c.data = e.data /\ c.decode = e.decode + Len(s) /\ ReadOffset(c) = ReadOffset(e)
  BY <1>1, <1>5, <1>6, FrameAdded
<1> QED
  BY <1>1, <1>4, <1>7 DEF c

-----------------------------------------------------------------------------
(* The invariant. One lemma per action. *)

\* The empty caches satisfy the invariant.
LEMMA StreamInit == Init => IInv
<1> SUFFICES ASSUME Init PROVE IInv
  OBVIOUS
<1> USE DEF Init
<1>1. Empty \in Cache
  BY DEF Empty, Cache
<1>2. TypeOK
  <2>1. <<>> \in Seq(Byte) /\ <<>> \in Seq(Seq(Byte))
    OBVIOUS
  <2> QED
    BY <1>1, <2>1, Zenon DEF TypeOK
<1>3. CacheInv
  BY DEF CacheInv, InBounds, Ordered, Empty
<1>4. /\ Unsent = <<>> /\ Undecoded = <<>> /\ net = <<>>
  BY SubSeqEmpty DEF Unsent, Undecoded, Empty, ReadOffset
<1>5. GenuineInv
  BY <1>4 DEF GenuineInv, AllGenuine
<1>6. PrefixInv
  BY DEF PrefixInv
<1>7. FoundInv /\ ShortInv
  BY <1>4 DEF FoundInv, ShortInv, Empty
<1>8. StreamInv
  <2>1. <<1, 1>> \in Places
    BY DEF Places
  <2>2. Run(<<>>, <<1, 1>>, <<1, 1>>)
    BY DEF Run
  <2>3. Len(delivered) + Len(rx.frames) + 1 = 1 /\ Len(accepted) + 1 = 1
    BY DEF Empty
  <2> QED
    BY <2>1, <2>2, <2>3, <1>4 DEF StreamInv
<1> QED
  BY <1>2, <1>3, <1>5, <1>6, <1>7, <1>8 DEF IInv, ReadInv, NoFalseReject

\* What the invariant says of the sender's cache, the socket and the frames.
LEMMA InvFacts ==
  ASSUME IInv
  PROVE /\ Sound(tx) /\ tx.decode = Len(tx.data)
        /\ rxStage = "recv" => rx.frames = <<>>
        /\ Unsent = Rest(tx.data, ReadOffset(tx)) /\ Unsent \in Seq(Byte)
        /\ net \in Seq(Byte) /\ Len(net) \in Nat
        /\ accepted \in Seq(Seq(Byte)) /\ delivered \in Seq(Seq(Byte))
        /\ Len(accepted) \in Nat /\ Len(delivered) \in Nat /\ Len(rx.frames) \in Nat
<1>1. Sound(tx) /\ tx.decode = Len(tx.data) /\ (rxStage = "recv" => rx.frames = <<>>)
  BY DEF IInv, TypeOK, CacheInv, Sound
<1>2. tx.data \in Seq(Byte) /\ ReadOffset(tx) \in 0 .. Len(tx.data)
  BY <1>1, Fields, ReadOffsetInData DEF Sound
<1>3. Len(rx.frames) \in Nat
  BY Fields DEF IInv, TypeOK
<1>4. Unsent = Rest(tx.data, ReadOffset(tx))
  BY DEF Unsent, Rest
<1>5. Unsent \in Seq(Byte)
  BY <1>2, <1>4, RestIs
<1>6. net \in Seq(Byte) /\ accepted \in Seq(Seq(Byte)) /\ delivered \in Seq(Seq(Byte))
  BY DEF IInv, TypeOK
<1>7. Len(net) \in Nat /\ Len(accepted) \in Nat /\ Len(delivered) \in Nat
  BY <1>6
<1> QED
  BY <1>1, <1>3, <1>4, <1>5, <1>6, <1>7, Zenon

\* What it says of the receiver's cache until the receiver disconnects.
LEMMA ReadFacts ==
  ASSUME IInv, rxRegistered
  PROVE /\ Sound(rx)
        /\ Undecoded = Rest(rx.data, rx.decode) /\ Undecoded \in Seq(Byte)
        /\ Len(Undecoded) = Len(rx.data) - rx.decode
        /\ rx.decode \in Nat /\ Len(rx.data) \in Nat /\ rx.decode <= Len(rx.data)
<1>1. Sound(rx)
  BY DEF IInv, TypeOK, CacheInv, Sound
<1>3. rx.data \in Seq(Byte) /\ rx.decode \in 0 .. Len(rx.data) /\ Len(rx.data) \in Nat
  BY <1>1, Fields DEF Sound, InBounds
<1>4. Undecoded = Rest(rx.data, rx.decode)
  BY DEF Undecoded, Rest
<1>5. Undecoded \in Seq(Byte) /\ Len(Undecoded) = Len(rx.data) - rx.decode
  BY <1>3, <1>4, RestIs
<1> QED
  BY <1>1, <1>3, <1>4, <1>5

\* Steps that leave the caches and both lists of frames alone.
LEMMA StreamQuiet ==
  ASSUME IInv, UNCHANGED <<tx, rx, accepted, delivered>>, rejected' \in {"no", rejected},
         txRegistered' \in BOOLEAN, writing' \in BOOLEAN, rxRegistered' \in BOOLEAN,
         rxStage' \in {"recv", "parse", "pop"}, broken' \in BOOLEAN,
         rxStage' = "recv" => rx.frames = <<>>,
         rxStage' # "parse" => rxStage # "parse",
         rxRegistered' => rxRegistered, broken => broken',
         net' = net \/ (net' = <<>> /\ broken')
  PROVE IInv'
<1>1. TypeOK'
  <2>1. net' \in Seq(Byte)
    <3>1. <<>> \in Seq(Byte)
      OBVIOUS
    <3> QED
      BY <3>1, Zenon DEF IInv, TypeOK
  <2> QED
    BY <2>1 DEF IInv, TypeOK
<1>2. CacheInv'
  BY DEF IInv, CacheInv
<1>3. /\ Unsent' = Unsent /\ Undecoded' = Undecoded
  BY DEF Unsent, Undecoded
<1>5. GenuineInv'
  <2>1. AllGenuine(<<>>, accepted)
    BY DEF AllGenuine
  <2> QED
    BY <1>3, <2>1, Zenon DEF IInv, GenuineInv
<1>6. PrefixInv' /\ NoFalseReject'
  BY DEF IInv, PrefixInv, NoFalseReject
<1>7. ReadInv'
  <2> SUFFICES ASSUME rxRegistered' PROVE (FoundInv /\ StreamInv /\ ShortInv)'
    BY DEF ReadInv
  <2>0. FoundInv /\ StreamInv /\ ShortInv
    BY DEF IInv, ReadInv
  <2>1. FoundInv'
    BY <2>0 DEF FoundInv
  <2>2. ShortInv'
    BY <2>0, <1>3 DEF ShortInv
  <2>3. PICK c \in Places, d \in Places :
          /\ Run(Undecoded, <<Len(delivered) + Len(rx.frames) + 1, 1>>, c)
          /\ Run(net, c, d)
          /\ ~broken => Run(Unsent, d, <<Len(accepted) + 1, 1>>)
    BY <2>0 DEF StreamInv
  <2>4. \E e \in Places : /\ Run(net', c, e)
                          /\ ~broken' => Run(Unsent, e, <<Len(accepted) + 1, 1>>)
    <3>1. CASE net' = net
      BY <3>1, <2>3
    <3>2. CASE net' = <<>> /\ broken'
      <4>1. Run(net', c, c)
        BY <3>2 DEF Run
      <4> QED
        BY <3>2, <4>1
    <3> QED
      BY <3>1, <3>2
  <2>5. StreamInv'
    BY <2>3, <2>4, <1>3 DEF StreamInv
  <2> QED
    BY <2>1, <2>2, <2>5
<1> QED
  BY <1>1, <1>2, <1>5, <1>6, <1>7 DEF IInv

\* sendFrame: an accepted frame is appended to the stream.
LEMMA SendFrameKeeps ==
  ASSUME PacketFrames, IInv, NEW len \in FrameLens, SendFrame(len)
  PROVE IInv'
<1> DEFINE a == Len(accepted)
           s == Frame(a + 1, len)
<1>0. /\ Sound(tx) /\ tx.decode = Len(tx.data) /\ Unsent = Rest(tx.data, ReadOffset(tx))
      /\ Unsent \in Seq(Byte) /\ accepted \in Seq(Seq(Byte)) /\ a \in Nat
  BY InvFacts
<1>1. len \in Nat \ {0} /\ len \in 1 .. MaxFrame
  BY LensAre DEF PacketFrames
<1>2. /\ s \in Seq(Byte) /\ Len(s) = len
      /\ \A j \in 1 .. len : s[j] = [f |-> a + 1, i |-> j, n |-> len]
      /\ Run(s, <<a + 1, 1>>, <<(a + 1) + 1, 1>>)
  BY <1>0, <1>1, FrameIs
<1>3. txRegistered' \in BOOLEAN /\ writing' \in BOOLEAN
  <2>1. txRegistered \in BOOLEAN /\ writing \in BOOLEAN
    BY DEF IInv, TypeOK
  <2>2. \/ txRegistered' = TRUE /\ writing' = TRUE
        \/ txRegistered' = txRegistered /\ writing' = writing
    BY Zenon DEF SendFrame
  <2> QED
    BY <2>1, <2>2, Zenon
<1>4. /\ rx' = rx /\ rxRegistered' = rxRegistered /\ rxStage' = rxStage /\ delivered' = delivered
      /\ rejected' = rejected /\ net' = net /\ broken' = broken
  BY DEF SendFrame, receiver
<1>5. CASE ~Fits(tx, len)
  <2>1. tx' = tx /\ accepted' = accepted
    BY <1>5 DEF SendFrame
  <2>2. /\ rxRegistered \in BOOLEAN /\ broken \in BOOLEAN /\ rxStage \in {"recv", "parse", "pop"}
        /\ rxStage = "recv" => rx.frames = <<>>
    BY DEF IInv, TypeOK, CacheInv
  <2> QED
    BY <2>1, <2>2, <1>3, <1>4, StreamQuiet
<1>6. CASE Fits(tx, len)
  <2>1. tx' = AppendFrame(tx, s) /\ accepted' = Append(accepted, s)
    BY <1>6 DEF SendFrame
  <2> HIDE DEF s
  <2>2. /\ Sound(tx') /\ tx'.decode = Len(tx'.data)
        /\ Rest(tx'.data, ReadOffset(tx')) = Unsent \o s
    BY <2>1, <1>0, <1>1, <1>2, <1>6, FrameAppended
  <2>3. Unsent' = Unsent \o s /\ Undecoded' = Undecoded
    BY <2>2, <1>4 DEF Unsent, Undecoded, Rest, ReadOffset
  <2>4. /\ accepted' \in Seq(Seq(Byte)) /\ Len(accepted') = a + 1
        /\ \A k \in 1 .. a : accepted'[k] = accepted[k]
        /\ accepted'[a + 1] = s
    BY <2>1, <1>0, <1>2, AppendProperties
  <2>5. TypeOK'
    BY <2>2, <2>4, <1>3, <1>4 DEF IInv, TypeOK, Sound
  <2>6. CacheInv'
    BY <2>2, <1>4 DEF IInv, CacheInv, Sound
  <2>7. GenuineInv'
    <3>0. a <= Len(accepted')
      BY <1>0, <2>4
    <3>1. ASSUME NEW t, AllGenuine(t, accepted) PROVE AllGenuine(t, accepted')
      BY <1>0, <2>4, <3>0, <3>1, GenuineStays
    <3>2. AllGenuine(s, accepted')
      <4>1. ASSUME NEW j \in 1 .. len PROVE Genuine(s[j], accepted')
        <5>1. s[j].f = a + 1 /\ s[j].i = j /\ s[j].n = len
          BY <1>2
        <5>2. a + 1 \in 1 .. Len(accepted')
          BY <1>0, <2>4
        <5>3. accepted'[a + 1] = Frame(a + 1, len)
          BY <2>4 DEF s
        <5> QED
          BY <5>1, <5>2, <5>3 DEF Genuine
      <4> QED
        BY <4>1, <1>2, Zenon DEF AllGenuine
    <3>3. AllGenuine(Unsent \o s, accepted')
      BY <3>1, <3>2, <1>0, <1>2, GenuineConcat DEF IInv, GenuineInv
    <3> QED
      BY <3>1, <3>3, <2>3, <1>4 DEF IInv, GenuineInv
  <2>8. PrefixInv'
    <3>1. Len(delivered) <= a /\ Len(delivered) \in Nat
          /\ \A k \in 1 .. Len(delivered) : delivered[k] = accepted[k]
      BY InvFacts DEF IInv, PrefixInv
    <3>2. \A k \in 1 .. Len(delivered) : k \in 1 .. a
      BY <3>1, <1>0
    <3> QED
      BY <3>1, <3>2, <2>4, <1>0, <1>4 DEF PrefixInv
  <2>9. NoFalseReject'
    <3>1. \A k \in 1 .. a : k \in 1 .. a + 1
      BY <1>0
    <3> QED
      BY <3>1, <2>4, <1>4 DEF IInv, NoFalseReject
  <2>10. ReadInv'
    <3> SUFFICES ASSUME rxRegistered PROVE (FoundInv /\ StreamInv /\ ShortInv)'
      BY <1>4 DEF ReadInv
    <3>0. FoundInv /\ StreamInv /\ ShortInv
      BY DEF IInv, ReadInv
    <3>1. FoundInv'
      <4>1. ASSUME NEW k \in 1 .. Len(rx.frames)
            PROVE /\ Len(delivered) + k <= Len(accepted')
                  /\ FrameBytes(rx, rx.frames[k]) = accepted'[Len(delivered) + k]
        <5>1. Len(delivered) + k <= a /\ FrameBytes(rx, rx.frames[k]) = accepted[Len(delivered) + k]
          BY <3>0 DEF FoundInv
        <5>2. Len(delivered) + k \in 1 .. a
          BY <5>1, <1>0, InvFacts
        <5> QED
          BY <5>1, <5>2, <2>4, <1>0
      <4> QED
        BY <4>1, <1>4 DEF FoundInv, FrameBytes
    <3>2. ShortInv'
      BY <3>0, <2>3, <1>4 DEF ShortInv
    <3>3. PICK c \in Places, d \in Places :
            /\ Run(Undecoded, <<Len(delivered) + Len(rx.frames) + 1, 1>>, c)
            /\ Run(net, c, d)
            /\ ~broken => Run(Unsent, d, <<a + 1, 1>>)
      BY <3>0 DEF StreamInv
    <3>4. ~broken => Run(Unsent \o s, d, <<(a + 1) + 1, 1>>)
      BY <3>3, <1>0, <1>2, RunConcat
    <3>5. StreamInv'
      BY <3>3, <3>4, <2>3, <2>4, <1>4 DEF StreamInv
    <3> QED
      BY <3>1, <3>2, <3>5
  <2> QED
    BY <2>5, <2>6, <2>7, <2>8, <2>9, <2>10 DEF IInv
<1> QED
  BY <1>5, <1>6

\* on_write: bytes of the first frame go from the cache to the socket.
LEMMA OnWriteKeeps ==
  ASSUME IInv, NEW n \in 1 .. NetSize, OnWrite(n)
  PROVE IInv'
<1> DEFINE r == ReadOffset(tx)
           p == SubSeq(tx.data, r + 1, r + n)
<1>0. /\ Sound(tx) /\ tx.decode = Len(tx.data) /\ Unsent = Rest(tx.data, r) /\ Unsent \in Seq(Byte)
      /\ net \in Seq(Byte) /\ tx.data \in Seq(Byte) /\ Len(tx.data) \in Nat /\ Len(net) \in Nat
  BY InvFacts, Fields DEF Sound
<1>1. /\ ~broken /\ tx.frames # <<>> /\ n \in 1 .. tx.frames[1].len
      /\ net' = net \o p /\ tx' = Consume(tx, n) /\ writing' = (tx'.frames # <<>>)
      /\ txRegistered' = txRegistered /\ broken' = broken /\ accepted' = accepted
      /\ rx' = rx /\ rxRegistered' = rxRegistered /\ rxStage' = rxStage /\ delivered' = delivered
      /\ rejected' = rejected
  <2>1. n \in 1 .. tx.frames[1].len
    <3>1. tx.frames # <<>> /\ n \in 1 .. Lesser(tx.frames[1].len, NetSize - Len(net))
      BY DEF OnWrite
    <3>2. tx.frames[1].len \in Nat
      <4>1. 1 \in 1 .. Len(tx.frames) /\ tx \in Cache
        BY <3>1, <1>0, Fields DEF Sound
      <4> QED
        BY <4>1, Fields
    <3>3. NetSize - Len(net) \in Int
      BY <1>0
    <3> QED
      BY <3>1, <3>2, <3>3 DEF Lesser
  <2> QED
    BY <2>1, Zenon DEF OnWrite, receiver
<1>2. /\ Sound(tx') /\ tx'.data = tx.data /\ tx'.decode = tx.decode
      /\ ReadOffset(tx') = r + n /\ r + n <= Len(tx.data) /\ r \in Nat /\ n \in Nat
  <2>1. r \in Nat
    BY <1>0, ReadOffsetInData
  <2>2. tx.frames # <<>> /\ n \in 1 .. tx.frames[1].len /\ tx' = Consume(tx, n)
    BY <1>1, Zenon
  <2>3. /\ Sound(tx') /\ tx'.data = tx.data /\ tx'.decode = tx.decode
        /\ ReadOffset(tx') = r + n /\ r + n <= Len(tx.data)
    BY <1>0, <2>2, Consumed
  <2> QED
    BY <2>1, <2>3
<1> HIDE DEF r
<1>3. /\ Len(Unsent) = Len(tx.data) - r /\ n \in 0 .. Len(Unsent)
  <2>1. r \in 0 .. Len(tx.data)
    BY <1>0, <1>2
  <2>2. Len(Rest(tx.data, r)) = Len(tx.data) - r
    BY <2>1, <1>0, RestIs
  <2>3. n \in 0 .. Len(tx.data) - r
    <3>1. Len(tx.data) \in Nat /\ r \in Nat /\ n \in Nat /\ r + n <= Len(tx.data)
      BY <1>0, <1>2
    <3> QED
      BY <3>1
  <2> QED
    BY <2>2, <2>3, <1>0, Zenon
<1>4. p = SubSeq(Unsent, 1, n) /\ p \in Seq(Byte)
  <2>1. p \in Seq(Byte)
    BY <1>0, <1>2, PieceIs
  <2> QED
    BY <2>1, <1>0, <1>2, HeadOfRest
<1>5. Unsent' = Rest(Unsent, n) /\ Undecoded' = Undecoded
  <2>1. Rest(Unsent, n) = Rest(tx.data, r + n)
    BY <1>0, <1>2, RestOfRest
  <2>2. Unsent' = SubSeq(tx'.data, ReadOffset(tx') + 1, Len(tx'.data))
    BY DEF Unsent, ReadOffset
  <2> QED
    BY <2>1, <2>2, <1>1, <1>2 DEF Rest, Undecoded
<1> HIDE DEF p
<1>6. TypeOK'
  <2>1. net' \in Seq(Byte)
    BY <1>0, <1>1, <1>4, ConcatProperties
  <2>2. writing' \in BOOLEAN
    BY <1>1, Zenon
  <2> QED
    BY <2>1, <2>2, <1>1, <1>2 DEF IInv, TypeOK, Sound
<1>7. CacheInv'
  BY <1>0, <1>1, <1>2 DEF IInv, CacheInv, Sound
<1>8. GenuineInv'
  <2>1. AllGenuine(Unsent, accepted) /\ AllGenuine(net, accepted) /\ AllGenuine(Undecoded, accepted)
    BY DEF IInv, GenuineInv
  <2>2. AllGenuine(p, accepted) /\ AllGenuine(Unsent', accepted)
    BY <2>1, <1>0, <1>3, <1>4, <1>5, GenuinePieces
  <2>3. AllGenuine(net', accepted)
    BY <2>1, <2>2, <1>0, <1>1, <1>4, GenuineConcat
  <2> QED
    BY <2>1, <2>2, <2>3, <1>1, <1>5 DEF GenuineInv
<1>9. PrefixInv' /\ NoFalseReject'
  BY <1>1 DEF IInv, PrefixInv, NoFalseReject
<1>10. ReadInv'
  <2> SUFFICES ASSUME rxRegistered PROVE (FoundInv /\ StreamInv /\ ShortInv)'
    BY <1>1 DEF ReadInv
  <2>0. FoundInv /\ StreamInv /\ ShortInv
    BY DEF IInv, ReadInv
  <2>1. FoundInv'
    BY <2>0, <1>1 DEF FoundInv, FrameBytes
  <2>2. ShortInv'
    BY <2>0, <1>1 DEF ShortInv, Undecoded
  <2>3. PICK c \in Places, d \in Places :
          /\ Run(Undecoded, <<Len(delivered) + Len(rx.frames) + 1, 1>>, c)
          /\ Run(net, c, d)
          /\ Run(Unsent, d, <<Len(accepted) + 1, 1>>)
    BY <2>0, <1>1 DEF StreamInv
  <2>4. PICK e \in Places : Run(p, d, e) /\ Run(Unsent', e, <<Len(accepted) + 1, 1>>)
    <3>1. <<Len(accepted) + 1, 1>> \in Places
      <4>1. Len(accepted) \in Nat
        BY InvFacts
      <4> QED
        BY <4>1 DEF Places
    <3>2. \E e \in Places : /\ Run(SubSeq(Unsent, 1, n), d, e)
                            /\ Run(Rest(Unsent, n), e, <<Len(accepted) + 1, 1>>)
      <4>1. Unsent \in Seq(Byte) /\ n \in 0 .. Len(Unsent)
        BY <1>0, <1>3
      <4>2. \A s \in Seq(Byte) : \A k \in 0 .. Len(s) : \A u, v \in Places :
              Run(s, u, v) => \E e \in Places : Run(SubSeq(s, 1, k), u, e) /\ Run(Rest(s, k), e, v)
        BY RunSplit
      <4> QED
        BY <4>1, <4>2, <3>1, <2>3, Zenon
    <3> QED
      BY <3>2, <1>4, <1>5, Zenon
  <2>5. Run(net', c, e)
    BY <2>3, <2>4, <1>0, <1>1, <1>4, RunConcat
  <2>6. StreamInv'
    BY <2>3, <2>4, <2>5, <1>1, <1>5 DEF StreamInv
  <2> QED
    BY <2>1, <2>2, <2>6
<1> QED
  BY <1>6, <1>7, <1>8, <1>9, <1>10 DEF IInv

\* The receiver disconnects: what is in its cache is not looked at again.
LEMMA ClosedKeeps ==
  ASSUME IInv, UNCHANGED <<tx, accepted, delivered, txRegistered, writing, rxStage>>,
         rx' \in Cache, rxStage = "recv" => rx'.frames = <<>>, AllGenuine(Undecoded', accepted),
         NEW k \in 0 .. Len(net), net' = Rest(net, k),
         ~rxRegistered', rxRegistered' \in BOOLEAN, broken' \in BOOLEAN,
         rejected' \in {"no", "full", "illegal", "old"}, NoFalseReject'
  PROVE IInv'
<1>0. net \in Seq(Byte)
  BY InvFacts
<1>1. TypeOK'
  <2>1. net' \in Seq(Byte)
    BY <1>0, RestIs
  <2> QED
    BY <2>1 DEF IInv, TypeOK, Sound
<1>2. CacheInv'
  BY DEF IInv, CacheInv
<1>3. GenuineInv'
  <2>1. AllGenuine(net', accepted)
    BY <1>0, GenuinePieces DEF IInv, GenuineInv
  <2>2. Unsent' = Unsent
    BY DEF Unsent
  <2> QED
    BY <2>1, <2>2 DEF IInv, GenuineInv
<1>4. PrefixInv'
  BY DEF IInv, PrefixInv
<1>5. ReadInv'
  BY DEF ReadInv
<1> QED
  BY <1>1, <1>2, <1>3, <1>4, <1>5 DEF IInv

\* on_recv: bytes go from the socket to the cache. They do not fit only behind a
\* frame that leaves no room for a slice.
LEMMA OnRecvKeeps ==
  ASSUME IInv, NEW n \in 1 .. NetSize, OnRecv(n)
  PROVE IInv'
<1> DEFINE p == SubSeq(net, 1, n)
<1>0. /\ Sound(rx) /\ rx.frames = <<>> /\ Undecoded = Rest(rx.data, rx.decode)
      /\ Undecoded \in Seq(Byte) /\ Len(Undecoded) = Len(rx.data) - rx.decode
      /\ rx.decode \in Nat /\ Len(rx.data) \in Nat /\ net \in Seq(Byte) /\ Len(net) \in Nat
  <2>1. rxStage = "recv" /\ rxRegistered
    BY DEF OnRecv
  <2> QED
    BY <2>1, InvFacts, ReadFacts
<1>1. n \in 1 .. Len(net) /\ n \in 1 .. SliceSize /\ n \in 1 .. MaxFrame /\ n \in 0 .. Len(net)
  <2>1. n \in 1 .. Lesser(SliceSize, Len(net))
    BY DEF OnRecv
  <2> QED
    BY <2>1, <1>0 DEF Lesser
<1>2. net' = Rest(net, n) /\ rxRegistered /\ rxStage = "recv"
  BY DEF OnRecv, Rest
<1>3. p \in Seq(Byte) /\ Len(p) = n
  <2>1. 0 \in Nat /\ n \in Nat /\ 0 + n <= Len(net) /\ 0 + n = n /\ 0 + 1 = 1
    BY <1>1
  <2>2. SubSeq(net, 0 + 1, 0 + n) \in Seq(Byte) /\ Len(SubSeq(net, 0 + 1, 0 + n)) = n
    BY <2>1, <1>0, PieceIs
  <2> QED
    BY <2>1, <2>2
<1>4. AllGenuine(p, accepted) /\ AllGenuine(net', accepted)
  BY <1>0, <1>1, <1>2, GenuinePieces DEF IInv, GenuineInv
<1>5. FoundInv /\ StreamInv /\ ShortInv
  BY <1>2 DEF IInv, ReadInv
<1>6. CASE ~Fits(rx, n)
  <2>1. /\ rx' = rx /\ rxRegistered' = FALSE /\ broken' = TRUE /\ rejected' = "full"
        /\ UNCHANGED <<tx, accepted, delivered, txRegistered, writing, rxStage>>
    BY <1>6, Zenon DEF OnRecv, ReceiverClose, sender
  <2>2. Len(Undecoded) + n > MaxCache
    <3>1. ReadOffset(rx) = rx.decode
      BY <1>0 DEF ReadOffset
    <3>2. DataSize(rx) = Len(rx.data) - rx.decode
      BY <3>1 DEF DataSize
    <3> QED
      BY <3>2, <1>0, <1>1, <1>6 DEF Fits
  <2>3. NoFalseReject'
    <3> DEFINE h == Undecoded[1]
    <3>1. Undecoded # <<>>
      BY <2>2, <1>0, <1>1
    <3>2. Len(Undecoded) < h.n
      BY <3>1, <1>2, <1>5 DEF ShortInv
    <3>3. Genuine(h, accepted)
      <4>1. 1 \in 1 .. Len(Undecoded)
        BY <3>1, <1>0
      <4> QED
        BY <4>1 DEF IInv, GenuineInv, AllGenuine
    <3> HIDE DEF h
    <3>4. h.f \in 1 .. Len(accepted) /\ Len(accepted[h.f]) = h.n /\ h.n \in Nat
      <4>0. h.f \in 1 .. Len(accepted) /\ h.n \in FrameLens /\ accepted[h.f] = Frame(h.f, h.n)
        BY <3>3 DEF Genuine
      <4>1. h.f \in Nat /\ h.n \in Nat \ {0}
        BY <4>0, LensAre, InvFacts
      <4>2. Len(Frame(h.f, h.n)) = h.n
        BY <4>1, FrameIs
      <4> QED
        BY <4>0, <4>1, <4>2
    <3>5. Len(accepted[h.f]) - 1 + SliceSize > MaxCache
      <4>1. \A u, h0 \in Nat : u < h0 /\ u + n > MaxCache => h0 - 1 + SliceSize > MaxCache
        BY <1>1
      <4>2. Len(Undecoded) \in Nat
        BY <1>0
      <4> QED
        BY <4>1, <4>2, <3>2, <3>4, <2>2, Zenon
    <3> QED
      BY <3>4, <3>5, <2>1 DEF NoFalseReject
  <2>4. Undecoded' = Undecoded /\ AllGenuine(Undecoded, accepted)
    BY <2>1 DEF Undecoded, IInv, GenuineInv
  <2>5. /\ rxRegistered' \in BOOLEAN /\ broken' \in BOOLEAN /\ ~rxRegistered'
        /\ rejected' \in {"no", "full", "illegal", "old"}
    BY <2>1
  <2>6. rx' \in Cache /\ (rxStage = "recv" => rx'.frames = <<>>)
    BY <2>1, <1>0 DEF Sound
  <2> QED
    BY <2>1, <2>3, <2>4, <2>5, <2>6, <1>0, <1>1, <1>2, ClosedKeeps
<1>7. CASE Fits(rx, n)
  <2>1. /\ rx' = AppendCache(rx, p) /\ rxStage' = "parse"
        /\ rxRegistered' = rxRegistered /\ delivered' = delivered /\ rejected' = rejected
        /\ broken' = broken /\ tx' = tx /\ txRegistered' = txRegistered /\ writing' = writing
        /\ accepted' = accepted
    BY <1>7, Zenon DEF OnRecv, sender
  <2> HIDE DEF p
  <2>2. /\ Sound(rx') /\ Len(rx'.frames) = Len(rx.frames)
        /\ Rest(rx'.data, rx'.decode) = Undecoded \o p
    BY <2>1, <1>0, <1>1, <1>3, <1>7, Appended
  <2>3. Undecoded' = Undecoded \o p /\ Unsent' = Unsent
    BY <2>1, <2>2 DEF Undecoded, Unsent, Rest
  <2>4. Len(rx'.frames) = 0
    BY <1>0, <2>2
  <2>5. TypeOK'
    <3>1. net' \in Seq(Byte)
      BY <1>0, <1>1, <1>2, RestIs
    <3> QED
      BY <3>1, <2>1, <2>2 DEF IInv, TypeOK, Sound
  <2>6. CacheInv'
    BY <2>1, <2>2 DEF IInv, CacheInv, Sound
  <2>7. GenuineInv'
    <3>1. AllGenuine(Undecoded \o p, accepted)
      BY <1>0, <1>3, <1>4, GenuineConcat DEF IInv, GenuineInv
    <3> QED
      BY <3>1, <1>4, <2>1, <2>3 DEF IInv, GenuineInv
  <2>8. PrefixInv' /\ NoFalseReject'
    BY <2>1 DEF IInv, PrefixInv, NoFalseReject
  <2>9. FoundInv' /\ ShortInv'
    BY <2>1, <2>4 DEF FoundInv, ShortInv
  <2>10. PICK c \in Places, d \in Places :
           /\ Run(Undecoded, <<Len(delivered) + Len(rx.frames) + 1, 1>>, c)
           /\ Run(net, c, d)
           /\ ~broken => Run(Unsent, d, <<Len(accepted) + 1, 1>>)
    BY <1>5 DEF StreamInv
  <2>11. PICK e \in Places : Run(p, c, e) /\ Run(net', e, d)
    <3>1. \E e \in Places : Run(SubSeq(net, 1, n), c, e) /\ Run(Rest(net, n), e, d)
      BY <2>10, <1>0, <1>1, RunSplit
    <3> QED
      BY <3>1, <1>2, Zenon DEF p
  <2>12. Run(Undecoded \o p, <<Len(delivered) + Len(rx.frames) + 1, 1>>, e)
    BY <2>10, <2>11, <1>0, <1>3, RunConcat
  <2>13. StreamInv'
    BY <2>1, <2>2, <2>3, <2>10, <2>11, <2>12 DEF StreamInv
  <2> QED
    BY <2>5, <2>6, <2>7, <2>8, <2>9, <2>13 DEF IInv, ReadInv
<1> QED
  BY <1>6, <1>7

\* decodeFrame finds nothing in less than a frame, or the frame that is there:
\* what it is given begins with a header.
LEMMA Decoded ==
  ASSUME PacketFrames, IInv, rxRegistered, NEW old \in BOOLEAN
  PROVE LET len == DecodeFrame(rx, rx.decode, old)
        IN \/ len = 0 /\ (Undecoded # <<>> => Len(Undecoded) < Undecoded[1].n)
           \/ old /\ len = MaxFrame + (Len(rx.data) - rx.decode) /\ len > MaxFrame
           \/ /\ len \in 1 .. MaxFrame /\ rx.decode + len <= Len(rx.data)
              /\ Undecoded # <<>> /\ len = Undecoded[1].n /\ len <= Len(Undecoded)
<1> DEFINE left == Len(rx.data) - rx.decode
           head == rx.data[rx.decode + 1]
<1>0. /\ Undecoded = Rest(rx.data, rx.decode) /\ Undecoded \in Seq(Byte) /\ Len(Undecoded) = left
      /\ rx.decode \in Nat /\ Len(rx.data) \in Nat /\ rx.decode <= Len(rx.data)
      /\ rx.data \in Seq(Byte)
  BY ReadFacts, Fields DEF Sound
<1>3. ASSUME Undecoded # <<>>
      PROVE Undecoded[1].n \in Nat \ {0} /\ MinFrame <= Undecoded[1].n /\ Undecoded[1].n <= MaxFrame
  <2>1. 1 \in 1 .. Len(Undecoded)
    BY <1>0, <1>3
  <2>2. Genuine(Undecoded[1], accepted)
    BY <2>1 DEF IInv, GenuineInv, AllGenuine
  <2> QED
    BY <2>2, LensAre DEF Genuine, PacketFrames
<1>1. CASE left < MinFrame
  <2>1. DecodeFrame(rx, rx.decode, old) = 0
    BY <1>1 DEF DecodeFrame
  <2>2. Undecoded # <<>> => Len(Undecoded) < Undecoded[1].n
    BY <1>0, <1>1, <1>3
  <2> QED
    BY <2>1, <2>2
<1>2. CASE ~(left < MinFrame)
  <2>1. 1 \in 1 .. left
    BY <1>0, <1>2
  <2>2. Undecoded # <<>> /\ Undecoded[1] = head
    <3>1. rx.decode \in 0 .. Len(rx.data)
      BY <1>0
    <3>2. Rest(rx.data, rx.decode)[1] = rx.data[rx.decode + 1]
      BY <3>1, <2>1, <1>0, RestIs
    <3>3. Len(Undecoded) # 0
      BY <2>1, <1>0
    <3> QED
      BY <3>2, <3>3, <1>0
  <2>3. head.i = 1
    <3>1. StreamInv
      BY DEF IInv, ReadInv
    <3>2. PICK f : Place(Undecoded[1]) = <<f, 1>>
      BY <3>1, <2>2 DEF StreamInv, Run
    <3> QED
      BY <3>2, <2>2 DEF Place
  <2>4. head.n \in Nat \ {0} /\ head.n <= MaxFrame
    BY <2>2, <1>3
  <2>9. CASE old
    <3>1. DecodeFrame(rx, rx.decode, old) = MaxFrame + left
      BY <1>2, <2>9 DEF DecodeFrame
    <3>2. MaxFrame + left > MaxFrame
      BY <2>1, <1>0
    <3> QED
      BY <3>1, <3>2, <2>9
  <2>10. SUFFICES ASSUME ~old
                  PROVE LET len == DecodeFrame(rx, rx.decode, old)
                        IN \/ len = 0 /\ (Undecoded # <<>> => Len(Undecoded) < Undecoded[1].n)
                           \/ /\ len \in 1 .. MaxFrame /\ rx.decode + len <= Len(rx.data)
                              /\ Undecoded # <<>> /\ len = Undecoded[1].n /\ len <= Len(Undecoded)
    BY <2>9
  <2>5. DecodeFrame(rx, rx.decode, old) = IF head.n > left THEN 0 ELSE head.n
    BY <1>2, <2>3, <2>4, <2>10 DEF DecodeFrame
  <2> HIDE DEF head, left
  <2>6. left \in Nat
    BY <1>0 DEF left
  <2>7. CASE head.n > left
    <3>1. Len(Undecoded) < Undecoded[1].n
      BY <2>2, <2>4, <2>6, <2>7, <1>0
    <3> QED
      BY <3>1, <2>5, <2>7
  <2>8. CASE ~(head.n > left)
    <3>1. head.n \in 1 .. MaxFrame /\ rx.decode + head.n <= Len(rx.data) /\ head.n <= Len(Undecoded)
      BY <2>4, <2>6, <2>8, <1>0 DEF left
    <3> QED
      BY <3>1, <2>2, <2>5, <2>8
  <2> QED
    BY <2>7, <2>8
<1> QED
  BY <1>1, <1>2

\* parseCache: the frame that is found is the next one that was accepted.
LEMMA ParseKeeps ==
  ASSUME PacketFrames, IInv, NEW old \in {FALSE, MayAge}, Parse(old)
  PROVE IInv'
<1> DEFINE len == DecodeFrame(rx, rx.decode, old)
           m == Len(rx.frames)
           f == Len(delivered) + m + 1
<1>0. /\ Sound(rx) /\ Undecoded = Rest(rx.data, rx.decode) /\ Undecoded \in Seq(Byte)
      /\ rx.decode \in Nat /\ Len(rx.data) \in Nat /\ rx.data \in Seq(Byte)
      /\ accepted \in Seq(Seq(Byte)) /\ Len(delivered) \in Nat /\ m \in Nat
      /\ rx.decode <= Len(rx.data)
  <2>1. rxRegistered
    BY DEF Parse
  <2> QED
    BY <2>1, InvFacts, ReadFacts, Fields DEF Sound
<1>1. rxRegistered /\ rxStage = "parse" /\ net' = net
  BY DEF Parse
<1>2. FoundInv /\ StreamInv
  BY <1>1 DEF IInv, ReadInv
<1>3. CASE len = 0 /\ (Undecoded # <<>> => Len(Undecoded) < Undecoded[1].n)
  <2>1. ~(len > MaxFrame)
    BY <1>3
  <2>2. /\ rx' = rx /\ rxStage' = "pop"
        /\ UNCHANGED <<rxRegistered, delivered, rejected, broken, tx, txRegistered, writing, accepted>>
    BY <2>1, <1>3 DEF Parse, sender
  <2>3. TypeOK' /\ CacheInv' /\ PrefixInv' /\ NoFalseReject'
    BY <2>2, <1>1 DEF IInv, TypeOK, CacheInv, PrefixInv, NoFalseReject
  <2>4. Undecoded' = Undecoded /\ Unsent' = Unsent
    BY <2>2 DEF Undecoded, Unsent
  <2>5. GenuineInv'
    BY <2>2, <2>4, <1>1 DEF IInv, GenuineInv
  <2>6. FoundInv'
    BY <2>2, <1>2 DEF FoundInv
  <2>7. StreamInv'
    BY <2>2, <2>4, <1>1, <1>2 DEF StreamInv
  <2>8. ShortInv'
    BY <2>4, <1>3 DEF ShortInv
  <2> QED
    BY <2>3, <2>5, <2>6, <2>7, <2>8 DEF IInv, ReadInv
<1>4. CASE /\ len \in 1 .. MaxFrame /\ rx.decode + len <= Len(rx.data)
           /\ Undecoded # <<>> /\ len = Undecoded[1].n /\ len <= Len(Undecoded)
  <2>0. ~(len > MaxFrame) /\ len # 0 /\ len \in Nat \ {0}
    BY <1>4
  <2>1. /\ rx' = AddFrame(rx, rx.decode, len) /\ rxStage' = "parse"
        /\ UNCHANGED <<rxRegistered, delivered, rejected, broken, tx, txRegistered, writing, accepted>>
    BY <2>0 DEF Parse, sender
  <2> HIDE DEF len
  <2>2. /\ Sound(rx') /\ rx'.data = rx.data /\ rx'.decode = rx.decode + len
        /\ Len(rx'.frames) = m + 1
        /\ \A i \in 1 .. m : rx'.frames[i] = rx.frames[i]
        /\ rx'.frames[m + 1] = [off |-> rx.decode, len |-> len]
    <3> DEFINE c == AddFrame(rx, rx.decode, len)
    <3>1. /\ Sound(c) /\ c.data = rx.data /\ c.decode = rx.decode + len
          /\ Len(c.frames) = m + 1
          /\ \A i \in 1 .. m : c.frames[i] = rx.frames[i]
          /\ c.frames[m + 1] = [off |-> rx.decode, len |-> len]
      <4>1. Sound(rx) /\ len \in Nat \ {0} /\ rx.decode + len <= Len(rx.data)
        BY <2>0, <1>0, <1>4, Zenon
      <4> QED
        BY <4>1, FrameAdded, Zenon
    <3>2. rx' = c
      BY <2>1
    <3> HIDE DEF c
    <3> QED
      BY <3>1, <3>2, Zenon
  <2> HIDE DEF m
  <2>3. Undecoded' = Rest(Undecoded, len) /\ Unsent' = Unsent
    <3>1. Rest(Undecoded, len) = Rest(rx.data, rx.decode + len)
      BY <1>0, <1>4, <2>0, RestOfRest, SMTT(30)
    <3> QED
      BY <3>1, <2>1, <2>2 DEF Undecoded, Unsent, Rest
  <2>4. PICK c \in Places, d \in Places :
          /\ Run(Undecoded, <<f, 1>>, c)
          /\ Run(net, c, d)
          /\ ~broken => Run(Unsent, d, <<Len(accepted) + 1, 1>>)
    BY <1>2 DEF StreamInv, m
  <2>5. f \in Nat
    BY <1>0
  <2> HIDE DEF f
  <2>6. /\ f \in 1 .. Len(accepted) /\ SubSeq(Undecoded, 1, len) = accepted[f]
        /\ Run(Rest(Undecoded, len), <<f + 1, 1>>, c)
    <3>1. AllGenuine(Undecoded, accepted)
      BY DEF IInv, GenuineInv
    <3>2. Undecoded # <<>> /\ len = Undecoded[1].n /\ Undecoded[1].n <= Len(Undecoded)
      BY <1>4
    <3>3. /\ f \in 1 .. Len(accepted) /\ SubSeq(Undecoded, 1, Undecoded[1].n) = accepted[f]
          /\ Run(Rest(Undecoded, Undecoded[1].n), <<f + 1, 1>>, c)
      BY <3>1, <3>2, <2>4, <2>5, <1>0, RunHead
    <3> QED
      BY <3>2, <3>3
  <2>7. TypeOK'
    BY <2>1, <2>2, <1>1 DEF IInv, TypeOK, Sound
  <2>8. CacheInv'
    BY <2>1, <2>2 DEF IInv, CacheInv, Sound
  <2>9. GenuineInv'
    <3>1. len \in 0 .. Len(Undecoded)
      BY <1>4, <2>0, BytesOf, <1>0
    <3>2. AllGenuine(Rest(Undecoded, len), accepted)
      BY <3>1, <1>0, GenuinePieces DEF IInv, GenuineInv
    <3> QED
      BY <3>2, <2>1, <2>3, <1>1 DEF IInv, GenuineInv
  <2>10. PrefixInv' /\ NoFalseReject' /\ ShortInv'
    BY <2>1 DEF IInv, PrefixInv, NoFalseReject, ShortInv
  <2>11. FoundInv'
    <3>1. ASSUME NEW k \in 1 .. m + 1
          PROVE /\ Len(delivered) + k <= Len(accepted)
                /\ FrameBytes(rx', rx'.frames[k]) = accepted[Len(delivered) + k]
      <4>1. CASE k \in 1 .. m
        <5>1. rx'.frames[k] = rx.frames[k]
          BY <4>1, <2>2
        <5>2. /\ Len(delivered) + k <= Len(accepted)
              /\ FrameBytes(rx, rx.frames[k]) = accepted[Len(delivered) + k]
          BY <4>1, <1>2 DEF FoundInv, m
        <5> QED
          BY <5>1, <5>2, <2>2 DEF FrameBytes
      <4>2. CASE k = m + 1
        <5>1. Len(delivered) + k = f
          BY <4>2, <1>0 DEF f
        <5>2. FrameBytes(rx', rx'.frames[k]) = SubSeq(rx.data, rx.decode + 1, rx.decode + len)
          <6> DEFINE e == [off |-> rx.decode, len |-> len]
          <6>1. rx'.frames[k] = e /\ e.off = rx.decode /\ e.len = len
            BY <4>2, <2>2
          <6> HIDE DEF e
          <6> QED
            BY <6>1, <2>2, Zenon DEF FrameBytes
        <5>3. SubSeq(Undecoded, 1, len) = SubSeq(rx.data, rx.decode + 1, rx.decode + len)
          <6>1. len \in Nat /\ rx.decode \in Nat /\ rx.decode + len <= Len(rx.data) /\ rx.data \in Seq(Byte)
            BY <1>0, <1>4, <2>0
          <6>2. SubSeq(Rest(rx.data, rx.decode), 1, len)
                  = SubSeq(rx.data, rx.decode + 1, rx.decode + len)
            BY <6>1, HeadOfRest, Zenon
          <6> QED
            BY <6>2, <1>0, Zenon
        <5>4. accepted[f] = accepted[Len(delivered) + k] /\ Len(delivered) + k <= Len(accepted)
          <6>1. Len(accepted) \in Nat /\ f <= Len(accepted)
            BY <1>0, <2>5, <2>6
          <6> QED
            BY <6>1, <5>1
        <5>5. SubSeq(Undecoded, 1, len) = accepted[f]
          BY <2>6, Zenon
        <5> QED
          BY <5>2, <5>3, <5>4, <5>5, Zenon
      <4>3. k \in 1 .. m \/ k = m + 1
        <5>1. m \in Nat
          BY <1>0
        <5> QED
          BY <5>1
      <4> QED
        BY <4>1, <4>2, <4>3, Zenon
    <3> QED
      BY <3>1, <2>1, <2>2 DEF FoundInv, FrameBytes
  <2>12. StreamInv'
    <3>1. Len(delivered) + (m + 1) + 1 = f + 1
      BY <1>0 DEF f
    <3>2. Run(Undecoded', <<Len(delivered') + Len(rx'.frames) + 1, 1>>, c)
      BY <3>1, <2>1, <2>2, <2>3, <2>6
    <3> QED
      BY <3>2, <2>1, <2>3, <2>4, <1>1 DEF StreamInv
  <2> QED
    BY <2>7, <2>8, <2>9, <2>10, <2>11, <2>12 DEF IInv, ReadInv
<1>5. CASE old /\ len = MaxFrame + (Len(rx.data) - rx.decode) /\ len > MaxFrame
  <2>1. /\ rx' = [rx EXCEPT !.decode = @ + (len - MaxFrame)]
        /\ rxRegistered' = FALSE /\ broken' = TRUE /\ rejected' = "old"
        /\ UNCHANGED <<tx, accepted, delivered, txRegistered, writing, rxStage>>
    BY <1>5 DEF Parse, ReceiverClose, sender
  <2>2. rx.decode + (len - MaxFrame) = Len(rx.data)
    <3>1. \A d, l \in Nat : d + ((MaxFrame + (l - d)) - MaxFrame) = l
      OBVIOUS
    <3>2. len = MaxFrame + (Len(rx.data) - rx.decode)
      BY <1>5
    <3> HIDE DEF len
    <3> QED
      BY <3>1, <3>2, <1>0
  <2> HIDE DEF len
  <2>3. rx' \in Cache /\ rx'.data = rx.data /\ rx'.decode = Len(rx.data)
    BY <2>1, <2>2, <1>0 DEF Sound, Cache
  <2>4. Undecoded' = <<>>
    BY <2>3, <1>0, SubSeqEmpty DEF Undecoded
  <2>5. AllGenuine(Undecoded', accepted)
    BY <2>4 DEF AllGenuine
  <2>6. NoFalseReject'
    BY <2>1 DEF NoFalseReject
  <2>7. net' = Rest(net, 0) /\ 0 \in 0 .. Len(net)
    <3>1. net \in Seq(Byte) /\ Len(net) \in Nat
      BY InvFacts
    <3>2. SubSeq(net, 1, Len(net)) = net
      BY <3>1
    <3> QED
      BY <3>1, <3>2, <1>1 DEF Rest
  <2>8. rejected' \in {"no", "full", "illegal", "old"} /\ rxRegistered' \in BOOLEAN /\ ~rxRegistered'
        /\ broken' \in BOOLEAN
    BY <2>1
  <2> QED
    BY <2>1, <2>3, <2>5, <2>6, <2>7, <2>8, <1>1, ClosedKeeps
<1> QED
  <2>1. old \in BOOLEAN
    OBVIOUS
  <2> QED
    BY <2>1, <1>1, <1>3, <1>4, <1>5, Decoded

\* popFrame: the frame that is delivered is the next one that was accepted.
LEMMA PopKeeps ==
  ASSUME IInv, Pop
  PROVE IInv'
<1> DEFINE m == Len(rx.frames)
           n == Len(delivered)
<1>0. /\ Sound(rx) /\ rx.frames \in Seq(Entry) /\ m \in Nat /\ n \in Nat
      /\ accepted \in Seq(Seq(Byte)) /\ delivered \in Seq(Seq(Byte)) /\ Len(accepted) \in Nat
  <2>1. rxRegistered
    BY DEF Pop
  <2> QED
    BY <2>1, InvFacts, ReadFacts, Fields DEF Sound
<1>1. /\ rxRegistered /\ rxStage = "pop"
      /\ UNCHANGED <<rxRegistered, rejected, net, broken, tx, txRegistered, writing, accepted>>
  BY DEF Pop, sender
<1>2. FoundInv /\ StreamInv /\ ShortInv
  BY <1>1 DEF IInv, ReadInv
<1>3. CASE rx.frames = <<>>
  <2>1. rx' = rx /\ delivered' = delivered /\ rxStage' = "recv"
    BY <1>3 DEF Pop
  <2>2. /\ txRegistered \in BOOLEAN /\ writing \in BOOLEAN /\ rxRegistered \in BOOLEAN
        /\ broken \in BOOLEAN
    BY DEF IInv, TypeOK
  <2> QED
    BY <2>1, <2>2, <1>1, <1>3, StreamQuiet
<1>4. CASE rx.frames # <<>>
  <2>1. /\ rx' = PopFrame(rx) /\ delivered' = Append(delivered, FrameBytes(rx, rx.frames[1]))
        /\ rxStage' = "pop"
    BY <1>1, <1>4 DEF Pop
  <2>2. /\ Sound(rx') /\ rx'.data = rx.data /\ rx'.decode = rx.decode
        /\ Len(rx'.frames) = m - 1
        /\ \A i \in 1 .. m - 1 : rx'.frames[i] = rx.frames[i + 1]
    BY <2>1, <1>0, <1>4, Popped
  <2>3. 1 \in 1 .. m
    BY <1>0, <1>4
  <2>4. n + 1 <= Len(accepted) /\ FrameBytes(rx, rx.frames[1]) = accepted[n + 1]
    BY <2>3, <1>2 DEF FoundInv
  <2>5. accepted[n + 1] \in Seq(Byte)
    BY <2>4, <1>0
  <2>6. /\ delivered' \in Seq(Seq(Byte)) /\ Len(delivered') = n + 1
        /\ \A k \in 1 .. n : delivered'[k] = delivered[k]
        /\ delivered'[n + 1] = accepted[n + 1]
    BY <2>1, <2>4, <2>5, <1>0, AppendProperties
  <2>7. Undecoded' = Undecoded /\ Unsent' = Unsent
    BY <2>2, <1>1 DEF Undecoded, Unsent
  <2>8. TypeOK'
    BY <2>1, <2>2, <2>6, <1>1 DEF IInv, TypeOK, Sound
  <2>9. CacheInv'
    BY <2>1, <2>2, <1>1 DEF IInv, CacheInv, Sound
  <2>10. GenuineInv' /\ NoFalseReject'
    BY <2>7, <1>1 DEF IInv, GenuineInv, NoFalseReject
  <2>11. PrefixInv'
    <3>1. n <= Len(accepted) /\ \A k \in 1 .. n : delivered[k] = accepted[k]
      BY DEF IInv, PrefixInv
    <3>2. ASSUME NEW k \in 1 .. n + 1 PROVE delivered'[k] = accepted[k]
      <4>1. k \in 1 .. n \/ k = n + 1
        BY <1>0
      <4> QED
        BY <4>1, <3>1, <2>6
    <3> QED
      BY <3>2, <2>4, <2>6, <1>1 DEF PrefixInv
  <2>12. FoundInv'
    <3>1. ASSUME NEW k \in 1 .. m - 1
          PROVE /\ (n + 1) + k <= Len(accepted)
                /\ FrameBytes(rx', rx'.frames[k]) = accepted[(n + 1) + k]
      <4>1. k + 1 \in 1 .. m /\ (n + 1) + k = n + (k + 1)
        BY <1>0
      <4>2. n + (k + 1) <= Len(accepted) /\ FrameBytes(rx, rx.frames[k + 1]) = accepted[n + (k + 1)]
        BY <4>1, <1>2 DEF FoundInv
      <4>3. rx'.frames[k] = rx.frames[k + 1]
        BY <2>2
      <4> QED
        BY <4>1, <4>2, <4>3, <2>2 DEF FrameBytes
    <3> QED
      BY <3>1, <2>2, <2>6, <1>1 DEF FoundInv, FrameBytes
  <2>13. StreamInv'
    <3>1. \A a, b \in Nat : (a + 1) + (b - 1) + 1 = a + b + 1
      OBVIOUS
    <3>2. Len(delivered') + Len(rx'.frames) + 1 = Len(delivered) + Len(rx.frames) + 1
      <4>1. /\ Len(delivered') = Len(delivered) + 1 /\ Len(rx'.frames) = Len(rx.frames) - 1
            /\ Len(delivered) \in Nat /\ Len(rx.frames) \in Nat
        BY <2>2, <2>6, <1>0, Zenon
      <4>2. (Len(delivered) + 1) + (Len(rx.frames) - 1) + 1 = Len(delivered) + Len(rx.frames) + 1
        BY <4>1, <3>1, Zenon
      <4> QED
        BY <4>1, <4>2, Zenon
    <3> QED
      BY <3>2, <2>7, <1>1, <1>2 DEF StreamInv
  <2>14. ShortInv'
    BY <2>1, <2>7, <1>1, <1>2 DEF ShortInv
  <2> QED
    BY <2>8, <2>9, <2>10, <2>11, <2>12, <2>13, <2>14 DEF IInv, ReadInv
<1> QED
  BY <1>3, <1>4

\* SenderClose, OnEof and Break leave both caches as they are.
LEMMA EndsKeep ==
  ASSUME IInv, SenderClose \/ OnEof \/ Break
  PROVE IInv'
<1>1. /\ txRegistered \in BOOLEAN /\ writing \in BOOLEAN /\ rxRegistered \in BOOLEAN
      /\ broken \in BOOLEAN /\ rxStage \in {"recv", "parse", "pop"}
      /\ (rxStage = "recv" => rx.frames = <<>>)
  BY DEF IInv, TypeOK, CacheInv
<1>2. CASE SenderClose
  <2>1. /\ UNCHANGED <<tx, rx, accepted, delivered, rejected, writing, rxRegistered, rxStage, broken, net>>
        /\ txRegistered' = FALSE
    BY <1>2 DEF SenderClose, receiver
  <2>2. txRegistered' \in BOOLEAN
    BY <2>1, Zenon
  <2> QED
    BY <2>1, <2>2, <1>1, StreamQuiet, Zenon
<1>3. CASE OnEof
  <2>1. /\ UNCHANGED <<tx, rx, accepted, delivered, writing, txRegistered, rxStage, net>>
        /\ rxRegistered' = FALSE /\ broken' = TRUE /\ rejected' = "no"
    BY <1>3 DEF OnEof, ReceiverClose, sender
  <2>3. rxRegistered' \in BOOLEAN /\ broken' \in BOOLEAN /\ ~rxRegistered' /\ broken'
    BY <2>1, Zenon
  <2> QED
    BY <2>1, <2>3, <1>1, StreamQuiet, Zenon
<1>4. CASE Break
  <2>1. /\ UNCHANGED <<tx, rx, accepted, delivered, rejected, writing, txRegistered, rxRegistered, rxStage>>
        /\ broken' = TRUE /\ (net' = net \/ net' = <<>>)
    BY <1>4 DEF Break, sender, receiver
  <2>2. broken' \in BOOLEAN /\ broken'
    BY <2>1, Zenon
  <2> QED
    BY <2>1, <2>2, <1>1, StreamQuiet, Zenon
<1> QED
  BY <1>2, <1>3, <1>4

\* Every step of the connection keeps the invariant.
LEMMA StreamStep == PacketFrames /\ IInv /\ [Next]_vars => IInv'
<1> SUFFICES ASSUME PacketFrames, IInv, [Next]_vars PROVE IInv'
  OBVIOUS
<1>1. CASE \E len \in FrameLens : SendFrame(len)
  BY <1>1, SendFrameKeeps
<1>2. CASE \E n \in 1 .. NetSize : OnWrite(n)
  BY <1>2, OnWriteKeeps
<1>3. CASE \E n \in 1 .. NetSize : OnRecv(n)
  BY <1>3, OnRecvKeeps
<1>4. CASE \E old \in {FALSE, MayAge} : Parse(old)
  BY <1>4, ParseKeeps
<1>5. CASE Pop
  BY <1>5, PopKeeps
<1>6. CASE SenderClose \/ OnEof \/ Break
  BY <1>6, EndsKeep
<1>7. CASE UNCHANGED vars
  <2>1. UNCHANGED <<tx, rx, accepted, delivered, rejected, writing, txRegistered, rxRegistered,
                    rxStage, broken, net>>
    BY <1>7 DEF vars
  <2>2. /\ txRegistered \in BOOLEAN /\ writing \in BOOLEAN /\ rxRegistered \in BOOLEAN
        /\ broken \in BOOLEAN /\ rxStage \in {"recv", "parse", "pop"}
        /\ (rxStage = "recv" => rx.frames = <<>>)
    BY DEF IInv, TypeOK, CacheInv
  <2> QED
    BY <2>1, <2>2, StreamQuiet, Zenon
<1> QED
  BY <1>1, <1>2, <1>3, <1>4, <1>5, <1>6, <1>7, Zenon DEF Next

-----------------------------------------------------------------------------
(* The theorems *)

\* For every size of frames, caches, slices and socket buffers: appendCache,
\* resize, partial sends and popFrame keep every offset of both caches within
\* write_offset and cache_size, and the frames contiguous.
THEOREM BuffersInBounds == PacketFrames => (Spec => []CachesInBounds)
<1> SUFFICES ASSUME PacketFrames PROVE Spec => []CachesInBounds
  OBVIOUS
<1>1. IInv => CachesInBounds
  BY DEF IInv, CacheInv, CachesInBounds
<1> QED
  BY <1>1, StreamInit, StreamStep, PTL DEF Spec

\* For every size: the receiver never takes what packetFrame made for garbage, as
\* decodeFrame is always applied to the start of a frame, and its cache overflows
\* only when a frame was accepted that, but for its last byte, leaves no room for
\* one slice. With the repository's 10 MiB and 1200 bytes those are the frames of
\* the last 1199 lengths.
THEOREM NeverRejects == PacketFrames => (Spec => []NoFalseReject)
<1> SUFFICES ASSUME PacketFrames PROVE Spec => []NoFalseReject
  OBVIOUS
<1>1. IInv => NoFalseReject
  BY DEF IInv
<1> QED
  BY <1>1, StreamInit, StreamStep, PTL DEF Spec

\* A sequence is the prefix of another that agrees with it.
LEMMA PrefixEqual ==
  ASSUME NEW S, NEW s \in Seq(S), NEW t \in Seq(S), Len(s) <= Len(t),
         \A k \in 1 .. Len(s) : t[k] = s[k]
  PROVE SubSeq(t, 1, Len(s)) = s
<1> DEFINE p == SubSeq(t, 1, Len(s))
<1>1. Len(s) \in Nat /\ Len(t) \in Nat
  OBVIOUS
<1>2. p \in Seq(S) /\ Len(p) = Len(s) /\ \A k \in 1 .. Len(s) : p[k] = t[k]
  BY <1>1
<1> HIDE DEF p
<1>3. p = s
  BY <1>2, SeqEqual
<1> QED
  BY <1>3 DEF p

\* A frame that sendFrame takes is appended to the accepted ones.
LEMMA SendAccepts ==
  ASSUME IInv, NEW len \in FrameLens, SendFrame(len)
  PROVE Frames!Accept \/ UNCHANGED <<accepted, delivered, rxRegistered>>
<1> DEFINE s == Frame(Len(accepted) + 1, len)
<1>1. delivered' = delivered /\ rxRegistered' = rxRegistered
  BY DEF SendFrame, receiver
<1>2. CASE Fits(tx, len)
  <2>1. accepted' = Append(accepted, s)
    BY <1>2 DEF SendFrame
  <2>2. accepted \in Seq(Seq(Byte)) /\ Len(accepted) \in Nat
    BY InvFacts
  <2>3. s \in Seq(Byte)
    <3>1. len \in Nat \ {0} /\ Len(accepted) + 1 \in Nat
      BY <2>2, LensAre
    <3> QED
      BY <3>1, FrameIs, Zenon
  <2> HIDE DEF s
  <2>4. /\ accepted' \in Seq(Seq(Byte)) /\ Len(accepted') = Len(accepted) + 1
        /\ \A k \in 1 .. Len(accepted) : accepted'[k] = accepted[k]
    BY <2>1, <2>2, <2>3, AppendProperties
  <2>5. SubSeq(accepted', 1, Len(accepted)) = accepted
    BY <2>2, <2>4, PrefixEqual
  <2> QED
    BY <2>4, <2>5, <1>1 DEF Frames!Accept
<1>3. CASE ~Fits(tx, len)
  BY <1>1, <1>3 DEF SendFrame
<1> QED
  BY <1>2, <1>3

\* notifyFrame gets the first of the accepted frames that has not arrived.
LEMMA PopDelivers ==
  ASSUME IInv, IInv', Pop
  PROVE Frames!Deliver \/ UNCHANGED <<accepted, delivered, rxRegistered>>
<1>1. rxRegistered /\ accepted' = accepted /\ rxRegistered' = rxRegistered
  BY DEF Pop, sender
<1>2. CASE rx.frames = <<>>
  BY <1>1, <1>2 DEF Pop
<1>3. CASE rx.frames # <<>>
  <2> DEFINE n == Len(delivered)
  <2>1. delivered' = Append(delivered, FrameBytes(rx, rx.frames[1]))
    BY <1>3 DEF Pop
  <2>2. /\ accepted \in Seq(Seq(Byte)) /\ Len(accepted) \in Nat /\ n \in Nat
        /\ delivered' \in Seq(Seq(Byte)) /\ delivered \in Seq(Seq(Byte))
    BY InvFacts DEF IInv, TypeOK
  <2>3. Len(delivered') = n + 1
    BY <2>1, <2>2
  <2>4. n + 1 <= Len(accepted) /\ \A k \in 1 .. n + 1 : delivered'[k] = accepted[k]
    BY <2>3, <1>1 DEF IInv, PrefixInv
  <2>5. SubSeq(accepted, 1, n + 1) = delivered'
    BY <2>2, <2>3, <2>4, PrefixEqual
  <2>6. n + 1 \in n + 1 .. Len(accepted)
    BY <2>2, <2>4
  <2> QED
    BY <2>5, <2>6, <1>1 DEF Frames!Deliver
<1> QED
  BY <1>2, <1>3

\* For every size of frames, caches, slices and socket buffers, and whenever the
\* connection breaks: what notifyFrame is given is a prefix of what sendFrame
\* accepted, frame by frame and byte by byte, however send and recv cut it.
THEOREM FramesArriveWhole == PacketFrames => (Spec => ImplementsFrameStream)
<1> SUFFICES ASSUME PacketFrames PROVE Spec => ImplementsFrameStream
  OBVIOUS
<1>1. Init => Frames!Init
  BY DEF Init, Frames!Init
<1>2. IInv /\ IInv' /\ [Next]_vars => [Frames!Next]_<<accepted, delivered, rxRegistered>>
  <2> SUFFICES ASSUME IInv, IInv', [Next]_vars
               PROVE Frames!Next \/ UNCHANGED <<accepted, delivered, rxRegistered>>
    OBVIOUS
  <2>1. CASE \E len \in FrameLens : SendFrame(len)
    BY <2>1, SendAccepts DEF Frames!Next
  <2>2. CASE Pop
    BY <2>2, PopDelivers DEF Frames!Next
  <2>3. CASE \E n \in 1 .. NetSize : OnRecv(n)
    BY <2>3 DEF OnRecv, ReceiverClose, sender, Frames!Next, Frames!Close
  <2>4. CASE (\E old \in {FALSE, MayAge} : Parse(old)) \/ OnEof
    BY <2>4 DEF Parse, OnEof, ReceiverClose, sender, Frames!Next, Frames!Close
  <2>5. CASE (\E n \in 1 .. NetSize : OnWrite(n)) \/ SenderClose \/ Break \/ UNCHANGED vars
    BY <2>5 DEF OnWrite, SenderClose, Break, vars, sender, receiver
  <2> QED
    BY <2>1, <2>2, <2>3, <2>4, <2>5, Zenon DEF Next
<1> QED
  BY <1>1, <1>2, StreamInit, StreamStep, PTL DEF Spec, ImplementsFrameStream, Frames!Spec
=============================================================================
