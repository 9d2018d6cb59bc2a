---------------------------- MODULE UpdaterProofs ----------------------------
(***************************************************************************)
(* Proofs about Updater: an update that succeeds has written the image,    *)
(* and a device that answers well is not told to roll back.                *)
(*                                                                         *)
(* The transfer is a walk along stages: ENTER, SOFTWARE, SEGMENT, the      *)
(* slices of the vector table and those of the code. The host, the device  *)
(* and all that is under way between them are never more than one stage    *)
(* apart, and the link holds the later stage behind the earlier one: that  *)
(* is what lets a reply be known by its number alone.                      *)
(***************************************************************************)
EXTENDS Updater, SequenceTheorems, TLAPS

Slices == [off : Nat, len : Nat, sent : Nat]

\* vector_map and code_map of an image
MapOf(i, t) == IF t = "VECTOR" THEN Cut(i[1], PageSize)
               ELSE Cut(i[2], PageSize - (i[1] % PageSize))

\* What the proofs take from fillUpdateSliceContext: that its loops make lists.
SlicesListed == \A i \in Images : \A t \in Types : MapOf(i, t) \in Seq(Slices)

\* 16 bits number the packets: one packet and the next differ, and no two of the
\* code have the same number.
NumbersFit == SeqWidth > 1 /\ \A i \in Images : Len(MapOf(i, "CODE")) <= SeqWidth

\* Nothing that was sent before a channel is closed arrives after it is opened.
FreshLink == "stale" \notin LinkFaults

\* The code has a second slice, or nothing comes before its only one.
LongCode == \A i \in Images : \/ Len(MapOf(i, "CODE")) > 1
                              \/ Len(MapOf(i, "CODE")) = 1 /\ Len(MapOf(i, "VECTOR")) = 0

-----------------------------------------------------------------------------
(* The stages of the transfer of an image i *)

Size(i, t) == Len(MapOf(i, t))
LastStage(i) == Size(i, "VECTOR") + Size(i, "CODE") + 2

Cmd(i, k) == IF k = 0 THEN "ENTER" ELSE IF k = 1 THEN "SOFTWARE" ELSE IF k = 2 THEN "SEGMENT"
             ELSE IF k - 2 <= Size(i, "VECTOR") THEN "VECTOR" ELSE "CODE"

\* How many slices of a segment come up to stage k.
Done(i, t, k) == IF t = "VECTOR"
                 THEN IF k < 3 THEN 0 ELSE IF k - 2 <= Size(i, t) THEN k - 2 ELSE Size(i, t)
                 ELSE IF k - 2 <= Size(i, "VECTOR") THEN 0 ELSE k - 2 - Size(i, "VECTOR")

\* The packet number of stage k, and as it is sent
SeqAt(i, k) == Size(i, Cmd(i, k)) - Done(i, Cmd(i, k), k)
NoAt(i, k) == SeqAt(i, k) % SeqWidth

\* The frame that asks for stage k, and the replies to it
FrameAt(i, k) ==
  IF k < 3 THEN [cmd |-> Cmd(i, k)]
  ELSE [cmd |-> Cmd(i, k), no |-> NoAt(i, k), slice |-> MapOf(i, Cmd(i, k))[Done(i, Cmd(i, k), k)]]
FramesAt(i, k) == IF k < 0 THEN {} ELSE {FrameAt(i, k)}

Statuses == {"ok", "busy", "short", "mismatch", "same", "flash", "failed", "missing"}
RepliesAt(i, k) == IF k < 0 THEN {}
                   ELSE IF k < 3 THEN [cmd : {Cmd(i, k)}, status : Statuses]
                   ELSE [cmd : {Cmd(i, k)}, no : {NoAt(i, k)}, status : Statuses]

\* What is sent once and belongs to no stage, and the replies to it
QuitStatuses == {"NOTHING", "SUCCESS", "ROLLBACK"}
SideFrames == [cmd : {"QUERY"}] \cup [cmd : {"QUIT"}, status : QuitStatuses]
SideReplies == [cmd : {"corrupt"}] \cup [cmd : {"QUERY", "QUIT"}, status : Statuses]

-----------------------------------------------------------------------------
(* The inductive invariant, over an image i, a host u, the link g to the   *)
(* device and h to the host, a device d and the history c                  *)

\* s is a list over A followed by a list over B.
Mixed(s, A, B) ==
  \E p \in 0 .. Len(s) : \A n \in 1 .. Len(s) : IF n <= p THEN s[n] \in A ELSE s[n] \in B

\* The device has done everything up to stage k; nothing is known of it before
\* it has confirmed ENTER.
DeviceAt(i, d, k) ==
  k >= 0 => \A t \in Types :
              /\ d.flash[t] = SubSeq(MapOf(i, t), 1, Done(i, t, k))
              /\ d.last[t] = IF Done(i, t, k) = 0 THEN -1 ELSE (Size(i, t) - Done(i, t, k)) % SeqWidth

\* The update frame that the host repeats asks for stage k.
HostAt(i, u, k) ==
  /\ u.last = FrameAt(i, k)
  /\ u.seq = IF k < 3 THEN -2 ELSE SeqAt(i, k)
  /\ u.type = IF k < 3 THEN "VECTOR" ELSE Cmd(i, k)

\* Frames of the stage before may still have to be answered.
Behind(i, g, h, d, k) ==
  /\ h \in Seq(SideReplies \cup RepliesAt(i, k - 1))
  /\ g \in Seq(SideFrames \cup FramesAt(i, k - 1) \cup FramesAt(i, k))
  /\ Mixed(g, SideFrames \cup FramesAt(i, k - 1), SideFrames \cup FramesAt(i, k))
  /\ DeviceAt(i, d, k - 1)

\* No reply to stage k is a success.
NoneOk(i, h, k) == \A n \in 1 .. Len(h) : h[n] \in RepliesAt(i, k) => h[n].status # "ok"

\* All of them have been answered.
Abreast(i, g, h, d, c, k) ==
  /\ h \in Seq(SideReplies \cup RepliesAt(i, k - 1) \cup RepliesAt(i, k))
  /\ Mixed(h, SideReplies \cup RepliesAt(i, k - 1), SideReplies \cup RepliesAt(i, k))
  /\ g \in Seq(SideFrames \cup FramesAt(i, k))
  /\ \/ DeviceAt(i, d, k) /\ (k > 2 /\ k = LastStage(i) => "complete" \in c)
     \/ DeviceAt(i, d, k - 1) /\ NoneOk(i, h, k)

InStage(i, u, g, h, d, c, k) ==
  HostAt(i, u, k) /\ (Behind(i, g, h, d, k) \/ Abreast(i, g, h, d, c, k))

\* The updater has run out of slices.
StuckFrames == [cmd : {"SEGMENT"}] \cup [cmd : Types, no : {0}, slice : Slices]
StuckReplies == [cmd : {"SEGMENT"}, status : Statuses] \cup [cmd : Types, no : {0}, status : Statuses]
Stuck(u, g, h) ==
  /\ ~LongCode
  /\ u.seq = -1 /\ u.type = "CODE" /\ u.last \in StuckFrames
  /\ g \in Seq(SideFrames \cup StuckFrames) /\ h \in Seq(SideReplies \cup StuckReplies)

\* No update frame has been sent.
Idle(u, g, h) == u.last = NoFrame /\ g \in Seq(SideFrames) /\ h \in Seq(SideReplies)

DeviceShape(d) ==
  /\ DOMAIN d = {"upgrade", "flash", "last"}
  /\ DOMAIN d.flash = Types /\ DOMAIN d.last = Types

\* While the channel is open
Live(i, u, g, h, d, c) ==
  /\ DeviceShape(d)
  /\ IF u.started THEN Stuck(u, g, h) \/ \E k \in 0 .. LastStage(i) : InStage(i, u, g, h, d, c, k)
     ELSE Idle(u, g, h)

HostShape(u) ==
  /\ DOMAIN u = {"started", "channel", "writing", "timer", "list", "last", "garbage",
                 "seq", "type", "quitStatus", "progress", "notified"}
  /\ u.list \in Seq(SideFrames)
  /\ u.quitStatus \in QuitStatuses

Blamed(c) == c \cap {"bad", "flash"} # {}

\* Every answer that is not a success is a fault of the device.
Honest(h, c) == \A n \in 1 .. Len(h) : h[n].cmd = "corrupt" \/ h[n].status = "ok" \/ Blamed(c)

UpdaterInv ==
  /\ image \in Images /\ HostShape(host)
  /\ host.channel => Live(image, host, toDevice, toHost, device, happened)
  /\ SuccessMeansWritten
  /\ LongCode => NoSpuriousRollback /\ (host.channel => Honest(toHost, happened))

-----------------------------------------------------------------------------
(* Packet numbers *)

\* A remainder
LEMMA ModRange ==
  ASSUME NEW x \in Int, NEW w \in Nat, w > 1
  PROVE  x % w \in 0 .. w - 1
OBVIOUS

\* Division with remainder
LEMMA ModDef ==
  ASSUME NEW x \in Int, NEW w \in Nat, w > 1
  PROVE  x = w * (x \div w) + (x % w) /\ x \div w \in Int
OBVIOUS

\* and there is only one
LEMMA Unique ==
  ASSUME NEW w \in Nat, w > 1, NEW a \in Int, NEW b \in Int, NEW r \in 0 .. w-1, NEW s \in 0 .. w-1,
   w * a + r = w * b + s
  PROVE  a = b /\ r = s
<1>1. CASE a = b
  BY <1>1
<1>2. CASE a > b
  <2>1. w * (a - b) >= w
    BY <1>2
  <2> QED BY <2>1
<1>3. CASE a < b
  <2>1. w * (b - a) >= w
    BY <1>3
  <2> QED BY <2>1
<1> QED BY <1>1, <1>2, <1>3

\* A number written with a remainder
LEMMA ModUnique ==
  ASSUME NEW w \in Nat, w > 1, NEW x \in Int, NEW a \in Int, NEW r \in 0 .. w-1, x = w * a + r
  PROVE  x % w = r
BY ModDef, ModRange, Unique

\* Small numbers
LEMMA ModSmall ==
  ASSUME NEW w \in Nat, w > 1, NEW x \in 0 .. w-1
  PROVE  x % w = x
BY ModUnique

\* -1
LEMMA ModMinus ==
  ASSUME NEW w \in Nat, w > 1
  PROVE  (-1) % w = w - 1
<1>1. -1 = w * (-1) + (w - 1)
  OBVIOUS
<1> QED BY <1>1, ModUnique

\* What counting down does to a remainder
LEMMA ModNext ==
  ASSUME NEW w \in Nat, w > 1, NEW x \in Nat
  PROVE  (x - 1) % w = IF x % w = 0 THEN w - 1 ELSE (x % w) - 1
<1> DEFINE q == x \div w
           r == x % w
<1>1. x = w * q + r /\ q \in Int /\ r \in 0 .. w-1
  BY ModDef, ModRange
<1> HIDE DEF q, r
<1>2. CASE r = 0
  <2>1. x - 1 = w * (q - 1) + (w - 1)
    BY <1>1, <1>2
  <2>2. (x - 1) % w = w - 1
    BY <1>1, <2>1, ModUnique
  <2> QED BY <1>2, <2>2 DEF r
<1>3. CASE r # 0
  <2>1. x - 1 = w * q + (r - 1)
    BY <1>1
  <2>2. x - 1 \in Int /\ r - 1 \in 0 .. w - 1
    BY <1>1, <1>3
  <2>3. (x - 1) % w = r - 1
    BY <1>1, <2>1, <2>2, ModUnique, Zenon
  <2> QED BY <1>3, <2>3 DEF r
<1> QED BY <1>2, <1>3

\* The device counts down from the number it confirmed last; one number and the
\* next differ.
LEMMA ModStep ==
  ASSUME NEW w \in Nat, w > 1, NEW x \in Nat
  PROVE  ((x % w) - 1) % w = (x - 1) % w /\ x % w # (x - 1) % w
<1> DEFINE r == x % w
<1>1. r \in 0 .. w - 1 /\ r \in Nat
  BY ModRange
<1>2. (x - 1) % w = IF r = 0 THEN w - 1 ELSE r - 1
  BY ModNext
<1> HIDE DEF r
<1>3. r % w = r
  BY <1>1, ModSmall
<1>4. (r - 1) % w = IF r % w = 0 THEN w - 1 ELSE (r % w) - 1
  BY <1>1, ModNext
<1>5. (r - 1) % w = (x - 1) % w /\ r # (x - 1) % w
  <2> DEFINE y == (x - 1) % w
             z == (r - 1) % w
  <2>1. y = IF r = 0 THEN w - 1 ELSE r - 1
    BY <1>2
  <2>2. z = IF r = 0 THEN w - 1 ELSE r - 1
    BY <1>3, <1>4
  <2> HIDE DEF y, z
  <2>3. z = y /\ r # y
    BY <1>1, <2>1, <2>2
  <2> QED BY <2>3 DEF y, z
<1> QED BY <1>5 DEF r

-----------------------------------------------------------------------------
(* Lists in a link *)

\* One kind only
LEMMA MixedOfAll ==
  ASSUME NEW X, NEW A, NEW B, NEW s \in Seq(X), s \in Seq(A) \/ s \in Seq(B)
  PROVE  Mixed(s, A, B)
<1>1. CASE s \in Seq(A)
  <2>1. Len(s) \in 0 .. Len(s) /\ \A n \in 1 .. Len(s) : n <= Len(s) /\ s[n] \in A
    BY <1>1
  <2> QED BY <2>1 DEF Mixed
<1>2. CASE s \in Seq(B)
  <2>1. 0 \in 0 .. Len(s) /\ \A n \in 1 .. Len(s) : ~(n <= 0) /\ s[n] \in B
    BY <1>2
  <2> QED BY <2>1 DEF Mixed
<1> QED BY <1>1, <1>2

\* Something arrives from the front: the elements before m + 1 are taken out.
LEMMA MixedRest ==
  ASSUME NEW X, NEW A, NEW B, NEW s \in Seq(X), Mixed(s, A, B), NEW m \in 0 .. Len(s)
  PROVE  /\ SubSeq(s, m + 1, Len(s)) \in Seq(X)
         /\ Mixed(SubSeq(s, m + 1, Len(s)), A, B)
<1> DEFINE r == SubSeq(s, m + 1, Len(s))
<1>1. r \in Seq(X) /\ Len(r) = Len(s) - m /\ \A n \in 1 .. Len(r) : r[n] = s[n + m]
  OBVIOUS
<1>2. PICK p \in 0 .. Len(s) : \A n \in 1 .. Len(s) : IF n <= p THEN s[n] \in A ELSE s[n] \in B
  BY DEF Mixed
<1> HIDE DEF r
<1> DEFINE q == IF p <= m THEN 0 ELSE p - m
<1>3. q \in 0 .. Len(r)
  BY <1>1
<1>4. ASSUME NEW n \in 1 .. Len(r)
      PROVE  IF n <= q THEN r[n] \in A ELSE r[n] \in B
  <2>1. n + m \in 1 .. Len(s) /\ r[n] = s[n + m] /\ (n <= q <=> n + m <= p)
    BY <1>1
  <2> QED BY <1>2, <2>1
<1>5. Mixed(r, A, B)
  BY <1>3, <1>4 DEF Mixed
<1> QED BY <1>1, <1>5 DEF r

\* Something is sent behind the rest.
LEMMA MixedMore ==
  ASSUME NEW X, NEW A, NEW B, NEW s \in Seq(X), Mixed(s, A, B), NEW r \in Seq(B)
  PROVE  Mixed(s \o r, A, B)
<1>1. PICK p \in 0 .. Len(s) : \A n \in 1 .. Len(s) : IF n <= p THEN s[n] \in A ELSE s[n] \in B
  BY DEF Mixed
<1>2. /\ Len(s) \in Nat /\ Len(r) \in Nat /\ Len(s \o r) = Len(s) + Len(r)
      /\ \A n \in 1 .. Len(s \o r) : (s \o r)[n] = IF n <= Len(s) THEN s[n] ELSE r[n - Len(s)]
  OBVIOUS
<1> DEFINE q == s \o r
<1> HIDE DEF q
<1>3. ASSUME NEW n \in 1 .. Len(q)
      PROVE  IF n <= p THEN q[n] \in A ELSE q[n] \in B
  <2>1. CASE n <= Len(s)
    BY <1>1, <1>2, <2>1 DEF q
  <2>2. CASE ~(n <= Len(s))
    <3>1. n - Len(s) \in 1 .. Len(r) /\ ~(n <= p) /\ q[n] = r[n - Len(s)]
      BY <1>2, <2>2 DEF q
    <3> QED BY <3>1
  <2> QED BY <2>1, <2>2
<1>4. p \in 0 .. Len(q)
  BY <1>2 DEF q
<1> QED BY <1>3, <1>4 DEF Mixed, q

\* When the first is not over A, all are over B.
LEMMA MixedTurned ==
  ASSUME NEW X, NEW A, NEW B, NEW s \in Seq(X), Mixed(s, A, B), s # <<>>, s[1] \notin A
  PROVE  s \in Seq(B)
<1>1. PICK p \in 0 .. Len(s) : \A n \in 1 .. Len(s) : IF n <= p THEN s[n] \in A ELSE s[n] \in B
  BY DEF Mixed
<1>2. p = 0
  BY <1>1
<1>3. \A n \in 1 .. Len(s) : s[n] \in B
  BY <1>1, <1>2
<1> QED BY <1>3, IsASeq

\* The first is replaced by something that belongs to either part.
LEMMA MixedHead ==
  ASSUME NEW X, NEW A, NEW B, NEW s \in Seq(X), Mixed(s, A, B), s # <<>>, NEW e \in A \cap B
  PROVE  Mixed(<<e>> \o Tail(s), A, B)
<1>1. PICK p \in 0 .. Len(s) : \A n \in 1 .. Len(s) : IF n <= p THEN s[n] \in A ELSE s[n] \in B
  BY DEF Mixed
<1> DEFINE r == <<e>> \o Tail(s)
<1>2. Len(r) = Len(s) /\ r[1] = e /\ \A n \in 2 .. Len(s) : r[n] = s[n]
  OBVIOUS
<1> HIDE DEF r
<1>3. \A n \in 1 .. Len(r) : IF n <= p THEN r[n] \in A ELSE r[n] \in B
  BY <1>1, <1>2
<1> QED BY <1>2, <1>3 DEF Mixed, r

-----------------------------------------------------------------------------
(* Stages *)

\* The maps are lists, and SliceMap gives the ones of the image.
LEMMA MapFacts ==
  ASSUME SlicesListed, NEW i \in Images, NEW t \in Types
  PROVE  MapOf(i, t) \in Seq(Slices) /\ Size(i, t) \in Nat
<1>1. MapOf(i, t) \in Seq(Slices)
  BY DEF SlicesListed
<1> HIDE DEF MapOf
<1> QED BY <1>1 DEF Size

LEMMA SliceMapIs == \A t \in Types : SliceMap(t) = MapOf(image, t)
BY DEF SliceMap, MapOf

\* The stages of the slices
LEMMA SliceStage ==
  ASSUME SlicesListed, NumbersFit, NEW i \in Images, NEW k \in 3 .. LastStage(i)
  PROVE  /\ Cmd(i, k) \in Types
         /\ Done(i, Cmd(i, k), k) \in 1 .. Size(i, Cmd(i, k))
         /\ SeqAt(i, k) \in 0 .. Size(i, Cmd(i, k)) - 1
         /\ NoAt(i, k) \in 0 .. SeqWidth - 1
         /\ MapOf(i, Cmd(i, k))[Done(i, Cmd(i, k), k)] \in Slices
<1>1. Size(i, "VECTOR") \in Nat /\ Size(i, "CODE") \in Nat
  BY MapFacts DEF Types
<1>2. /\ Cmd(i, k) \in Types
      /\ Done(i, Cmd(i, k), k) \in 1 .. Size(i, Cmd(i, k))
      /\ SeqAt(i, k) \in 0 .. Size(i, Cmd(i, k)) - 1
  BY <1>1 DEF Cmd, Done, SeqAt, LastStage, Types
<1>3. NoAt(i, k) \in 0 .. SeqWidth - 1
  <2>1. SeqAt(i, k) \in Int /\ SeqWidth \in Nat /\ SeqWidth > 1
    BY <1>1, <1>2, UpdaterAssumption DEF NumbersFit, Types
  <2> QED BY <2>1, ModRange, Zenon DEF NoAt
<1>4. MapOf(i, Cmd(i, k))[Done(i, Cmd(i, k), k)] \in Slices
  <2> DEFINE m == MapOf(i, Cmd(i, k))
             n == Done(i, Cmd(i, k), k)
  <2>1. m \in Seq(Slices) /\ n \in 1 .. Len(m)
    BY <1>2, MapFacts DEF Size
  <2> HIDE DEF m, n
  <2>2. m[n] \in Slices
    BY <2>1
  <2> QED BY <2>2 DEF m, n
<1> QED BY <1>2, <1>3, <1>4

\* From one slice to the next: within a segment, or from the vector to the code
LEMMA NextSlice ==
  ASSUME SlicesListed, NumbersFit, NEW i \in Images, NEW k \in 3 .. LastStage(i) - 1
  PROVE  \/ Cmd(i, k + 1) = Cmd(i, k) /\ SeqAt(i, k + 1) = SeqAt(i, k) - 1
         \/ /\ Cmd(i, k) = "VECTOR" /\ Cmd(i, k + 1) = "CODE"
            /\ SeqAt(i, k) = 0 /\ SeqAt(i, k + 1) = Size(i, "CODE") - 1
            /\ Size(i, "VECTOR") > 0 /\ Size(i, "CODE") > 0
<1>1. Size(i, "VECTOR") \in Nat /\ Size(i, "CODE") \in Nat
  BY MapFacts DEF Types
<1> QED BY <1>1 DEF Cmd, Done, SeqAt, LastStage

\* The first slice
LEMMA FirstSlice ==
  ASSUME SlicesListed, NumbersFit, NEW i \in Images, LastStage(i) >= 3
  PROVE  /\ Cmd(i, 3) = IF Size(i, "VECTOR") > 0 THEN "VECTOR" ELSE "CODE"
         /\ SeqAt(i, 3) = Size(i, Cmd(i, 3)) - 1
<1>1. Size(i, "VECTOR") \in Nat /\ Size(i, "CODE") \in Nat
  BY MapFacts DEF Types
<1> QED BY <1>1 DEF Cmd, Done, SeqAt, LastStage

\* The last slice has number 0; it is of the code when there is any.
LEMMA FinalSlice ==
  ASSUME SlicesListed, NumbersFit, NEW i \in Images, NEW k \in 3 .. LastStage(i)
  PROVE  /\ k = LastStage(i) => SeqAt(i, k) = 0 /\ (Cmd(i, k) = "VECTOR" <=> Size(i, "CODE") = 0)
         /\ SeqAt(i, k) = 0 /\ Cmd(i, k) = "CODE" => k = LastStage(i)
<1>1. Size(i, "VECTOR") \in Nat /\ Size(i, "CODE") \in Nat
  BY MapFacts DEF Types
<1> QED BY <1>1 DEF Cmd, Done, SeqAt, LastStage

\* A packet number of the code says which packet it is.
LEMMA CodeNumber ==
  ASSUME SlicesListed, NumbersFit, NEW i \in Images, Size(i, "CODE") > 0
  PROVE  (Size(i, "CODE") - 1) % SeqWidth = Size(i, "CODE") - 1
<1>1. Size(i, "CODE") - 1 \in 0 .. SeqWidth - 1 /\ SeqWidth \in Nat /\ SeqWidth > 1
  <2>1. Size(i, "CODE") \in Nat
    BY MapFacts DEF Types
  <2> QED BY <2>1, UpdaterAssumption DEF NumbersFit, Size
<1> QED BY <1>1, ModSmall

\* The replies of a stage are told from those of the stage before.
LEMMA StagesApart ==
  ASSUME SlicesListed, NumbersFit, NEW i \in Images, NEW k \in 0 .. LastStage(i)
  PROVE  /\ RepliesAt(i, k) \cap (SideReplies \cup RepliesAt(i, k - 1)) = {}
         /\ FrameAt(i, k) \notin SideFrames \cup FramesAt(i, k - 1)
<1>1. Size(i, "VECTOR") \in Nat /\ Size(i, "CODE") \in Nat
  BY MapFacts DEF Types
<1>2. Cmd(i, k) \in {"ENTER", "SOFTWARE", "SEGMENT", "VECTOR", "CODE"}
  BY DEF Cmd
<1>3. ASSUME k > 0 PROVE Cmd(i, k) # Cmd(i, k - 1) \/ (k > 3 /\ NoAt(i, k) # NoAt(i, k - 1))
  <2>1. CASE k <= 3
    BY <1>1, <1>3, <2>1 DEF Cmd
  <2>2. CASE k > 3 /\ Cmd(i, k) = Cmd(i, k - 1)
    <3>1. k - 1 \in 3 .. LastStage(i) - 1 /\ k - 1 \in 3 .. LastStage(i) /\ (k - 1) + 1 = k
      BY <1>1, <2>2 DEF LastStage
    <3>2. SeqAt(i, k) = SeqAt(i, k - 1) - 1
      <4> DEFINE j == k - 1
      <4>1. j \in 3 .. LastStage(i) - 1 /\ j + 1 = k
        BY <3>1
      <4> HIDE DEF j
      <4>2. Cmd(i, j + 1) = Cmd(i, j) => SeqAt(i, j + 1) = SeqAt(i, j) - 1
        BY <4>1, NextSlice
      <4>3. Cmd(i, k) = Cmd(i, j) => SeqAt(i, k) = SeqAt(i, j) - 1
        BY <4>1, <4>2
      <4> QED BY <2>2, <4>3 DEF j
    <3>3. SeqAt(i, k - 1) \in Nat /\ SeqWidth \in Nat /\ SeqWidth > 1
      BY <3>1, SliceStage, UpdaterAssumption DEF NumbersFit
    <3>4. SeqAt(i, k - 1) % SeqWidth # (SeqAt(i, k - 1) - 1) % SeqWidth
      BY <3>3, ModStep
    <3> QED BY <2>2, <3>2, <3>4 DEF NoAt
  <2> QED BY <2>1, <2>2
<1>4. ASSUME NEW m \in RepliesAt(i, k) PROVE m \notin SideReplies \cup RepliesAt(i, k - 1)
  <2>1. m.cmd = Cmd(i, k) /\ (k >= 3 => m.no = NoAt(i, k))
    BY <1>4 DEF RepliesAt
  <2>2. m \notin SideReplies
    BY <1>2, <2>1 DEF SideReplies
  <2>3. ASSUME m \in RepliesAt(i, k - 1) PROVE FALSE
    <3>1. k > 0 /\ m.cmd = Cmd(i, k - 1) /\ (k - 1 >= 3 => m.no = NoAt(i, k - 1))
      BY <2>3 DEF RepliesAt
    <3> QED BY <1>3, <2>1, <3>1
  <2> QED BY <2>2, <2>3
<1>5. FrameAt(i, k) \notin SideFrames \cup FramesAt(i, k - 1)
  <2> DEFINE f == FrameAt(i, k)
  <2>1. f.cmd = Cmd(i, k) /\ (k >= 3 => f.no = NoAt(i, k))
    BY DEF FrameAt
  <2>2. f \notin SideFrames
    BY <1>2, <2>1 DEF SideFrames
  <2>3. ASSUME f \in FramesAt(i, k - 1) PROVE FALSE
    <3>1. k > 0 /\ f.cmd = Cmd(i, k - 1) /\ (k - 1 >= 3 => f.no = NoAt(i, k - 1))
      BY <2>3 DEF FramesAt, FrameAt
    <3> QED BY <1>3, <2>1, <3>1
  <2> QED BY <2>2, <2>3
<1> QED BY <1>4, <1>5

-----------------------------------------------------------------------------
(* What the device does with a frame *)

\* The device when ENTER has been accepted
LEMMA FreshDevice ==
  ASSUME SlicesListed, NEW i \in Images, NEW d, NEW k \in {0, 1, 2},
         \A t \in Types : d.flash[t] = <<>> /\ d.last[t] = -1
  PROVE  DeviceAt(i, d, k)
<1>1. Size(i, "VECTOR") \in Nat /\ Size(i, "CODE") \in Nat
  BY MapFacts DEF Types
<1>2. ASSUME NEW t \in Types
      PROVE  /\ d.flash[t] = SubSeq(MapOf(i, t), 1, Done(i, t, k))
             /\ d.last[t] = IF Done(i, t, k) = 0 THEN -1 ELSE (Size(i, t) - Done(i, t, k)) % SeqWidth
  <2>1. Done(i, t, k) = 0
    BY <1>1 DEF Done, Types
  <2>2. SubSeq(MapOf(i, t), 1, 0) = <<>>
    BY MapFacts, SubSeqEmpty
  <2> QED BY <2>1, <2>2
<1> QED BY <1>2 DEF DeviceAt

\* Up to SEGMENT nothing is written.
LEMMA SameDevice ==
  ASSUME SlicesListed, NEW i \in Images, NEW d, NEW j \in {0, 1, 2}, NEW k \in {0, 1, 2}, DeviceAt(i, d, j)
  PROVE  DeviceAt(i, d, k)
<1>1. Size(i, "VECTOR") \in Nat /\ Size(i, "CODE") \in Nat
  BY MapFacts DEF Types
<1>2. ASSUME NEW t \in Types PROVE d.flash[t] = <<>> /\ d.last[t] = -1
  <2>1. Done(i, t, j) = 0
    BY <1>1 DEF Done, Types
  <2>2. SubSeq(MapOf(i, t), 1, 0) = <<>>
    BY MapFacts, SubSeqEmpty
  <2> QED BY <2>1, <2>2 DEF DeviceAt
<1> QED BY <1>2, FreshDevice

\* The number that the device confirmed last
LEMMA ConfirmedNumber ==
  ASSUME SlicesListed, NumbersFit, NEW i \in Images, NEW d, NEW k \in 3 .. LastStage(i), DeviceAt(i, d, k)
  PROVE  d.last[Cmd(i, k)] = NoAt(i, k)
<1>1. Cmd(i, k) \in Types /\ Done(i, Cmd(i, k), k) # 0
  BY SliceStage
<1> QED BY <1>1 DEF DeviceAt, NoAt, SeqAt

\* A packet that the device has not seen is new to it ...
LEMMA NewPacket ==
  ASSUME SlicesListed, NumbersFit, NEW i \in Images, NEW d, NEW k \in 3 .. LastStage(i), DeviceAt(i, d, k - 1)
  PROVE  d.last[Cmd(i, k)] = -1 \/ NoAt(i, k) = (d.last[Cmd(i, k)] - 1) % SeqWidth
<1>1. Size(i, "VECTOR") \in Nat /\ Size(i, "CODE") \in Nat
  BY MapFacts DEF Types
<1>2. CASE k = 3
  <2>1. DeviceAt(i, d, 2)
    BY <1>2
  <2>2. Cmd(i, k) \in Types
    BY SliceStage
  <2>3. Done(i, Cmd(i, k), 2) = 0
    BY <1>1, <2>2 DEF Done, Types
  <2> QED BY <2>1, <2>2, <2>3 DEF DeviceAt
<1>3. CASE k > 3
  <2> DEFINE j == k - 1
  <2>1. j \in 3 .. LastStage(i) - 1 /\ j \in 3 .. LastStage(i) /\ j + 1 = k
    BY <1>1, <1>3 DEF LastStage
  <2>2. DeviceAt(i, d, j)
    OBVIOUS
  <2> HIDE DEF j
  <2>3. CASE Cmd(i, j + 1) = Cmd(i, j) /\ SeqAt(i, j + 1) = SeqAt(i, j) - 1
    <3>1. d.last[Cmd(i, j)] = NoAt(i, j)
      BY <2>1, <2>2, ConfirmedNumber
    <3>2. SeqAt(i, j) \in Nat /\ SeqWidth \in Nat /\ SeqWidth > 1
      BY <2>1, SliceStage, UpdaterAssumption DEF NumbersFit
    <3>3. ((SeqAt(i, j) % SeqWidth) - 1) % SeqWidth = (SeqAt(i, j) - 1) % SeqWidth
      BY <3>2, ModStep
    <3> QED BY <2>1, <2>3, <3>1, <3>3 DEF NoAt
  <2>4. CASE Cmd(i, j) = "VECTOR" /\ Cmd(i, j + 1) = "CODE"
    <3>1. Done(i, "CODE", j) = 0
      BY <1>1, <2>1, <2>4 DEF Done, Cmd
    <3>2. d.last["CODE"] = -1
      BY <2>1, <2>2, <3>1 DEF DeviceAt, Types
    <3> QED BY <2>1, <2>4, <3>2
  <2> QED BY <2>1, <2>3, <2>4, NextSlice
<1> QED BY <1>2, <1>3

\* ... and one that it has confirmed is not.
LEMMA OldPacket ==
  ASSUME SlicesListed, NumbersFit, NEW i \in Images, NEW d, NEW k \in 3 .. LastStage(i), DeviceAt(i, d, k)
  PROVE  /\ d.last[Cmd(i, k)] = NoAt(i, k)
         /\ d.last[Cmd(i, k)] # -1 /\ NoAt(i, k) # (d.last[Cmd(i, k)] - 1) % SeqWidth
<1>1. d.last[Cmd(i, k)] = NoAt(i, k) /\ NoAt(i, k) \in 0 .. SeqWidth - 1
  BY ConfirmedNumber, SliceStage
<1>2. SeqWidth \in Nat /\ SeqWidth > 1 /\ NoAt(i, k) \in Nat
  BY <1>1, UpdaterAssumption DEF NumbersFit
<1>3. NoAt(i, k) % SeqWidth = NoAt(i, k)
  BY <1>1, <1>2, ModSmall
<1>4. NoAt(i, k) % SeqWidth # (NoAt(i, k) - 1) % SeqWidth
  BY <1>2, ModStep
<1> QED BY <1>1, <1>2, <1>3, <1>4

\* A new packet is written: the device is one stage further.
LEMMA WrittenPacket ==
  ASSUME SlicesListed, NumbersFit, NEW i \in Images, NEW d, DeviceShape(d), NEW k \in 3 .. LastStage(i),
         DeviceAt(i, d, k - 1), NEW e, DeviceShape(e),
         \A t \in Types : t # Cmd(i, k) => e.flash[t] = d.flash[t] /\ e.last[t] = d.last[t],
         e.flash[Cmd(i, k)] = Append(d.flash[Cmd(i, k)], MapOf(i, Cmd(i, k))[Done(i, Cmd(i, k), k)]),
         e.last[Cmd(i, k)] = NoAt(i, k)
  PROVE  DeviceAt(i, e, k)
<1>1. Size(i, "VECTOR") \in Nat /\ Size(i, "CODE") \in Nat
  BY MapFacts DEF Types
<1>2. Cmd(i, k) \in Types /\ Done(i, Cmd(i, k), k) \in 1 .. Size(i, Cmd(i, k))
  BY SliceStage
<1>3. Done(i, Cmd(i, k), k - 1) = Done(i, Cmd(i, k), k) - 1
  BY <1>1, <1>2 DEF Done, Cmd, LastStage
<1>4. ASSUME NEW t \in Types, t # Cmd(i, k) PROVE Done(i, t, k - 1) = Done(i, t, k)
  BY <1>1, <1>4, SMTT(30) DEF Done, Cmd, LastStage, Types
<1>5. ASSUME NEW t \in Types
      PROVE  /\ e.flash[t] = SubSeq(MapOf(i, t), 1, Done(i, t, k))
             /\ e.last[t] = IF Done(i, t, k) = 0 THEN -1 ELSE (Size(i, t) - Done(i, t, k)) % SeqWidth
  <2>1. CASE t # Cmd(i, k)
    BY <1>4, <2>1 DEF DeviceAt
  <2>2. CASE t = Cmd(i, k)
    <3> DEFINE n == Done(i, t, k)
               m == MapOf(i, t)
    <3>1. n \in 1 .. Len(m) /\ m \in Seq(Slices)
      BY <1>2, <2>2, MapFacts DEF Size
    <3>2. d.flash[t] = SubSeq(m, 1, n - 1)
      BY <1>2, <1>3, <2>2 DEF DeviceAt
    <3>3. e.flash[t] = Append(d.flash[t], m[n])
      BY <2>2
    <3>4. e.last[t] = (Size(i, t) - n) % SeqWidth
      BY <2>2 DEF NoAt, SeqAt
    <3> HIDE DEF n, m
    <3>5. SubSeq(m, 1, n) = Append(SubSeq(m, 1, n - 1), m[n])
      BY <3>1, SubSeqRecursiveSecond
    <3>6. n # 0
      BY <3>1
    <3> QED BY <3>2, <3>3, <3>4, <3>5, <3>6 DEF n, m
  <2> QED BY <2>1, <2>2
<1> QED BY <1>5 DEF DeviceAt

\* At the last stage the device has the whole image.
LEMMA WholeImage ==
  ASSUME SlicesListed, NEW i \in Images, NEW d, DeviceAt(i, d, LastStage(i)), LastStage(i) >= 3
  PROVE  \A t \in Types : d.flash[t] = MapOf(i, t)
<1>1. Size(i, "VECTOR") \in Nat /\ Size(i, "CODE") \in Nat
  BY MapFacts DEF Types
<1>2. ASSUME NEW t \in Types PROVE d.flash[t] = MapOf(i, t)
  <2>1. Done(i, t, LastStage(i)) = Len(MapOf(i, t))
    BY <1>1 DEF Done, LastStage, Types, Size
  <2>2. SubSeq(MapOf(i, t), 1, Len(MapOf(i, t))) = MapOf(i, t)
    BY MapFacts, SubSeqFull
  <2>3. LastStage(i) >= 0
    BY <1>1 DEF LastStage
  <2> QED BY <2>1, <2>2, <2>3 DEF DeviceAt
<1> QED BY <1>2

\* The replies by stage
LEMMA RepliesToQuery ==
  ASSUME NEW i, NEW k \in {0, 1, 2}
  PROVE  RepliesAt(i, k) = [cmd : {Cmd(i, k)}, status : Statuses]
<1>1. ~(k < 0) /\ k < 3
  OBVIOUS
<1> QED BY <1>1, Zenon DEF RepliesAt

LEMMA RepliesToSlice ==
  ASSUME NEW i, NEW k \in Int, k >= 3
  PROVE  RepliesAt(i, k) = [cmd : {Cmd(i, k)}, no : {NoAt(i, k)}, status : Statuses]
<1>1. ~(k < 0) /\ ~(k < 3)
  OBVIOUS
<1> QED BY <1>1, Zenon DEF RepliesAt

LEMMA StageIsInt ==
  ASSUME SlicesListed, NEW i \in Images
  PROVE  LastStage(i) \in Nat
<1>1. Size(i, "VECTOR") \in Nat /\ Size(i, "CODE") \in Nat
  BY MapFacts DEF Types
<1> QED BY <1>1 DEF LastStage

\* What a frame f makes of a device d and of the history c, and the reply m
Served(i, f, d, e, c, b, m) ==
  /\ DeviceShape(e) /\ c \subseteq b
  /\ f \in SideFrames => /\ m \in SideReplies /\ (m.status = "ok" \/ Blamed(b))
                         /\ e.flash = d.flash /\ e.last = d.last
  /\ f \in StuckFrames => m \in StuckReplies
  /\ \A k \in 0 .. LastStage(i) : f = FrameAt(i, k) =>
       /\ m \in RepliesAt(i, k)
       /\ DeviceAt(i, d, k) \/ DeviceAt(i, d, k - 1) => m.status = "ok" \/ Blamed(b)
       /\ DeviceAt(i, d, k) => DeviceAt(i, e, k)
       /\ DeviceAt(i, d, k - 1) => \/ DeviceAt(i, e, k) /\ (k > 2 /\ k = LastStage(i) => "complete" \in b)
                                   \/ DeviceAt(i, e, k - 1) /\ m.status # "ok"

\* The stage of a frame by its command
LEMMA StageOfFrame ==
  ASSUME SlicesListed, NumbersFit, NEW i \in Images, NEW k \in 0 .. LastStage(i)
  PROVE  LET f == FrameAt(i, k)
         IN /\ f.cmd = Cmd(i, k)
            /\ k = 0 <=> f.cmd = "ENTER"
            /\ k = 1 <=> f.cmd = "SOFTWARE"
            /\ k = 2 <=> f.cmd = "SEGMENT"
            /\ k > 2 <=> f.cmd \in Types
            /\ k > 2 => /\ f.no = NoAt(i, k)
                        /\ f.slice = MapOf(i, Cmd(i, k))[Done(i, Cmd(i, k), k)]
<1>1. Size(i, "VECTOR") \in Nat /\ Size(i, "CODE") \in Nat
  BY MapFacts DEF Types
<1> QED BY <1>1 DEF FrameAt, Cmd, Types

LEMMA ServesEnter ==
  ASSUME SlicesListed, NumbersFit, image \in Images, DeviceShape(device), NEW f, DeviceEnter(f)
  PROVE  \E m : toHost' = Append(toHost, m)
                /\ Served(image, f, device, device', happened, happened', m)
<1>1. PICK s \in Answers({"busy", "short"}) :
        /\ toHost' = Append(toHost, [cmd |-> "ENTER", status |-> s]) /\ Blame(s)
        /\ device' = IF s = "busy" THEN device
                     ELSE [upgrade |-> TRUE, flash |-> [t \in Types |-> <<>>], last |-> [t \in Types |-> -1]]
  BY DEF DeviceEnter, Reply
<1> DEFINE m == [cmd |-> "ENTER", status |-> s]
<1>2. s \in {"ok", "busy", "short"} /\ f.cmd = "ENTER"
  BY DEF Answers, DeviceEnter
<1>3. happened \subseteq happened' /\ (s = "ok" \/ Blamed(happened'))
  BY <1>1, <1>2 DEF Blame, Blamed
<1>4. DeviceShape(device')
  BY <1>1 DEF DeviceShape
<1>5. f \notin SideFrames /\ f \notin StuckFrames
  BY <1>2 DEF SideFrames, StuckFrames, Types
<1>6. ASSUME NEW k \in 0 .. LastStage(image), f = FrameAt(image, k)
      PROVE  /\ m \in RepliesAt(image, k)
             /\ DeviceAt(image, device, k) => DeviceAt(image, device', k)
             /\ \/ DeviceAt(image, device', k) /\ ~(k > 2)
                \/ DeviceAt(image, device', k - 1) /\ m.status # "ok"
  <2>1. k = 0
    BY <1>2, <1>6, StageOfFrame
  <2>2. m \in RepliesAt(image, 0)
    BY <1>2 DEF RepliesAt, Cmd, Statuses
  <2>3. CASE s = "busy"
    <3>1. device' = device /\ DeviceAt(image, device', -1)
      BY <1>1, <2>3 DEF DeviceAt
    <3> QED BY <2>1, <2>2, <2>3, <3>1
  <2>4. CASE s # "busy"
    <3>1. \A t \in Types : device'.flash[t] = <<>> /\ device'.last[t] = -1
      BY <1>1, <2>4
    <3>2. DeviceAt(image, device', 0)
      BY <3>1, FreshDevice
    <3> QED BY <2>1, <2>2, <3>2
  <2> QED BY <2>3, <2>4
<1>7. Served(image, f, device, device', happened, happened', m)
  BY <1>3, <1>4, <1>5, <1>6 DEF Served
<1> QED BY <1>1, <1>7

LEMMA ServesQuery ==
  ASSUME SlicesListed, NumbersFit, image \in Images, DeviceShape(device), NEW f, DeviceQuery(f)
  PROVE  \E m : toHost' = Append(toHost, m)
                /\ Served(image, f, device, device', happened, happened', m)
<1>1. PICK s \in Answers({"short", "mismatch", "same"}) :
        toHost' = Append(toHost, [cmd |-> f.cmd, status |-> s]) /\ Blame(s)
  BY DEF DeviceQuery, Reply
<1> DEFINE m == [cmd |-> f.cmd, status |-> s]
<1>2. s \in {"ok", "short", "mismatch", "same"} /\ f.cmd \in {"SOFTWARE", "SEGMENT", "QUERY"} /\ device' = device
  BY DEF Answers, DeviceQuery
<1>3. happened \subseteq happened' /\ (s = "ok" \/ Blamed(happened'))
  BY <1>1, <1>2 DEF Blame, Blamed
<1>4. f \in SideFrames => m \in SideReplies
  BY <1>2 DEF SideFrames, SideReplies, Statuses
<1>5. f \in StuckFrames => m \in StuckReplies
  BY <1>2 DEF StuckFrames, StuckReplies, Statuses, Types
<1>6. ASSUME NEW k \in 0 .. LastStage(image), f = FrameAt(image, k)
      PROVE  /\ m \in RepliesAt(image, k) /\ ~(k > 2)
             /\ DeviceAt(image, device, k - 1) => DeviceAt(image, device, k)
  <2>1. k \in {1, 2} /\ f.cmd = Cmd(image, k)
    BY <1>2, <1>6, StageOfFrame DEF Types
  <2>2. m \in RepliesAt(image, k)
    <3>1. RepliesAt(image, k) = [cmd : {Cmd(image, k)}, status : Statuses]
      BY <2>1, RepliesToQuery
    <3>2. s \in Statuses
      BY <1>2 DEF Statuses
    <3> QED BY <2>1, <3>1, <3>2
  <2>3. k - 1 \in {0, 1, 2} /\ k \in {0, 1, 2} /\ ~(k > 2)
    BY <2>1
  <2> QED BY <2>2, <2>3, SameDevice
<1>7. Served(image, f, device, device', happened, happened', m)
  BY <1>2, <1>3, <1>4, <1>5, <1>6 DEF Served
<1> QED BY <1>1, <1>7

LEMMA ServesQuit ==
  ASSUME SlicesListed, NumbersFit, image \in Images, DeviceShape(device), NEW f, DeviceQuit(f)
  PROVE  \E m : toHost' = Append(toHost, m)
                /\ Served(image, f, device, device', happened, happened', m)
<1>1. PICK s \in Answers({"failed"}) :
        toHost' = Append(toHost, [cmd |-> "QUIT", status |-> s]) /\ Blame(s)
  BY DEF DeviceQuit, Reply
<1> DEFINE m == [cmd |-> "QUIT", status |-> s]
<1>2. s \in {"ok", "failed"} /\ f.cmd = "QUIT" /\ device' = [device EXCEPT !.upgrade = FALSE]
  BY DEF Answers, DeviceQuit
<1>3. happened \subseteq happened' /\ (s = "ok" \/ Blamed(happened'))
  BY <1>1, <1>2 DEF Blame, Blamed
<1>4. DeviceShape(device') /\ device'.flash = device.flash /\ device'.last = device.last
  BY <1>2 DEF DeviceShape
<1>5. f \in SideFrames => m \in SideReplies
  BY <1>2 DEF SideFrames, SideReplies, Statuses
<1>6. f \notin StuckFrames
  BY <1>2 DEF StuckFrames, Types
<1>7. ASSUME NEW k \in 0 .. LastStage(image), f = FrameAt(image, k) PROVE FALSE
  BY <1>2, <1>7, StageOfFrame DEF Cmd
<1>8. Served(image, f, device, device', happened, happened', m)
  BY <1>3, <1>4, <1>5, <1>6, <1>7 DEF Served
<1> QED BY <1>1, <1>8

\* A slice: written when it is new, confirmed again when it is not.
LEMMA ServesSlice ==
  ASSUME SlicesListed, NumbersFit, image \in Images, DeviceShape(device), NEW f, DeviceSlice(f)
  PROVE  \E m : toHost' = Append(toHost, m)
                /\ Served(image, f, device, device', happened, happened', m)
<1> DEFINE last == device.last[f.cmd]
           new == last = -1 \/ f.no = (last - 1) % SeqWidth
           done == [device EXCEPT !.flash[f.cmd] = Append(@, f.slice), !.last[f.cmd] = f.no]
           M(s) == [cmd |-> f.cmd, no |-> f.no, status |-> s]
           full == \A t \in Types : done.flash[t] = SliceMap(t)
<1>1. f.cmd \in Types
  BY DEF DeviceSlice
<1>2. \/ /\ new /\ device' = done /\ toHost' = Append(toHost, M("ok"))
         /\ happened' = IF full THEN happened \cup {"complete"} ELSE happened
      \/ /\ new /\ device' = device
         /\ \E s \in BadAnswers \cap {"flash", "short"} : toHost' = Append(toHost, M(s)) /\ Blame(s)
      \/ /\ ~new /\ device' = device /\ happened' = happened
         /\ toHost' = Append(toHost, M(IF f.no = last THEN "ok" ELSE "missing"))
  BY DEF DeviceSlice, Reply
<1>3. /\ DeviceShape(done)
      /\ \A t \in Types : t # f.cmd => done.flash[t] = device.flash[t] /\ done.last[t] = device.last[t]
      /\ done.flash[f.cmd] = Append(device.flash[f.cmd], f.slice) /\ done.last[f.cmd] = f.no
  BY <1>1 DEF DeviceShape
<1>4. f \notin SideFrames
  BY <1>1 DEF SideFrames, Types
<1>5. \A s \in Statuses : f \in StuckFrames => M(s) \in StuckReplies
  BY <1>1 DEF StuckFrames, StuckReplies, Types
<1>6. ASSUME NEW k \in 0 .. LastStage(image), f = FrameAt(image, k)
      PROVE  /\ k \in 3 .. LastStage(image) /\ f.cmd = Cmd(image, k) /\ f.no = NoAt(image, k)
             /\ \A s \in Statuses : M(s) \in RepliesAt(image, k)
             /\ DeviceAt(image, device, k) => ~new /\ f.no = last
             /\ DeviceAt(image, device, k - 1) => new /\ DeviceAt(image, done, k)
             /\ DeviceAt(image, device, k - 1) /\ k = LastStage(image) => full
  <2>1. /\ k \in 3 .. LastStage(image) /\ f.cmd = Cmd(image, k) /\ f.no = NoAt(image, k)
        /\ f.slice = MapOf(image, Cmd(image, k))[Done(image, Cmd(image, k), k)]
    <3>1. /\ f.cmd = Cmd(image, k) /\ (k > 2 <=> f.cmd \in Types)
          /\ k > 2 => /\ f.no = NoAt(image, k)
                      /\ f.slice = MapOf(image, Cmd(image, k))[Done(image, Cmd(image, k), k)]
      BY <1>6, StageOfFrame, Zenon
    <3> QED BY <1>1, <3>1
  <2>2. \A s \in Statuses : M(s) \in RepliesAt(image, k)
    <3>1. k \in Int /\ k >= 3
      BY <2>1, StageIsInt
    <3>2. RepliesAt(image, k) = [cmd : {Cmd(image, k)}, no : {NoAt(image, k)}, status : Statuses]
      BY <3>1, RepliesToSlice
    <3> QED BY <2>1, <3>2
  <2>3. ASSUME DeviceAt(image, device, k) PROVE ~new /\ f.no = last
    BY <2>1, <2>3, OldPacket
  <2>4. ASSUME DeviceAt(image, device, k - 1) PROVE new /\ DeviceAt(image, done, k)
    <3>1. new
      BY <2>1, <2>4, NewPacket
    <3> HIDE DEF done
    <3>2. DeviceAt(image, done, k)
      BY <1>3, <2>1, <2>4, WrittenPacket, SMTT(30)
    <3> QED BY <3>1, <3>2
  <2>5. ASSUME DeviceAt(image, device, k - 1), k = LastStage(image) PROVE full
    <3> HIDE DEF done
    <3>1. DeviceAt(image, done, LastStage(image)) /\ LastStage(image) >= 3
      BY <2>1, <2>4, <2>5
    <3> QED BY <3>1, WholeImage, SliceMapIs
  <2> QED BY <2>1, <2>2, <2>3, <2>4, <2>5
<1> HIDE DEF done, full, new, last
<1>7. CASE new /\ device' = done /\ toHost' = Append(toHost, M("ok"))
           /\ happened' = IF full THEN happened \cup {"complete"} ELSE happened
  <2>1. DeviceShape(device') /\ happened \subseteq happened' /\ (full => "complete" \in happened')
    BY <1>3, <1>7
  <2>2. f \in StuckFrames => M("ok") \in StuckReplies
    BY <1>5 DEF Statuses
  <2>3. ASSUME NEW k \in 0 .. LastStage(image), f = FrameAt(image, k)
        PROVE  /\ M("ok") \in RepliesAt(image, k) /\ ~DeviceAt(image, device, k)
               /\ DeviceAt(image, device, k - 1) => /\ DeviceAt(image, device', k)
                                                    /\ k = LastStage(image) => "complete" \in happened'
    <3>1. "ok" \in Statuses
      BY DEF Statuses
    <3> QED BY <1>6, <1>7, <2>1, <2>3, <3>1
  <2>4. Served(image, f, device, device', happened, happened', M("ok"))
    BY <1>4, <2>1, <2>2, <2>3 DEF Served
  <2> QED BY <1>7, <2>4
<1>8. CASE new /\ device' = device
           /\ \E s \in BadAnswers \cap {"flash", "short"} : toHost' = Append(toHost, M(s)) /\ Blame(s)
  <2>1. PICK s \in {"flash", "short"} : toHost' = Append(toHost, M(s)) /\ Blame(s)
    BY <1>8
  <2>2. s \in Statuses /\ s # "ok" /\ happened \subseteq happened' /\ Blamed(happened')
    BY <2>1 DEF Blame, Blamed, Statuses
  <2>3. f \in StuckFrames => M(s) \in StuckReplies
    BY <1>5, <2>2
  <2>4. ASSUME NEW k \in 0 .. LastStage(image), f = FrameAt(image, k)
        PROVE  M(s) \in RepliesAt(image, k)
    BY <1>6, <2>2, <2>4
  <2>5. Served(image, f, device, device', happened, happened', M(s))
    BY <1>4, <1>8, <2>2, <2>3, <2>4 DEF Served
  <2> QED BY <2>1, <2>5
<1>9. CASE ~new /\ device' = device /\ happened' = happened
           /\ toHost' = Append(toHost, M(IF f.no = last THEN "ok" ELSE "missing"))
  <2> DEFINE s == IF f.no = last THEN "ok" ELSE "missing"
  <2>1. s \in Statuses /\ (f.no = last => s = "ok")
    BY DEF Statuses
  <2> HIDE DEF s
  <2>2. f \in StuckFrames => M(s) \in StuckReplies
    BY <1>5, <2>1
  <2>3. ASSUME NEW k \in 0 .. LastStage(image), f = FrameAt(image, k)
        PROVE  /\ M(s) \in RepliesAt(image, k) /\ ~DeviceAt(image, device, k - 1)
               /\ DeviceAt(image, device, k) => s = "ok"
    BY <1>6, <1>9, <2>1, <2>3
  <2>4. Served(image, f, device, device', happened, happened', M(s))
    BY <1>4, <1>9, <2>2, <2>3 DEF Served
  <2> QED BY <1>9, <2>4 DEF s
<1> QED BY <1>2, <1>7, <1>8, <1>9 DEF done, full, new, last

\* All that the device does
LEMMA DeviceServes ==
  ASSUME SlicesListed, NumbersFit, image \in Images, DeviceShape(device), DeviceStep
  PROVE  /\ toDevice # <<>> /\ toDevice' = Tail(toDevice)
         /\ \/ toHost' = toHost /\ device' = device /\ happened' = happened
            \/ \E m : /\ toHost' = Append(toHost, m)
                      /\ Served(image, Head(toDevice), device, device', happened, happened', m)
<1> DEFINE f == Head(toDevice)
<1>1. toDevice # <<>> /\ toDevice' = Tail(toDevice)
  BY DEF DeviceStep
<1>2. DeviceEnter(f) \/ DeviceQuery(f) \/ DeviceSlice(f) \/ DeviceQuit(f) \/ DeviceIgnore(f)
  BY DEF DeviceStep
<1> HIDE DEF f
<1>3. CASE DeviceIgnore(f)
  BY <1>1, <1>3 DEF DeviceIgnore
<1> QED BY <1>1, <1>2, <1>3, ServesEnter, ServesQuery, ServesSlice, ServesQuit DEF f

-----------------------------------------------------------------------------
(* What the steps make of the link *)

LEMMA TailIsRest ==
  ASSUME NEW X, NEW s \in Seq(X), s # <<>>
  PROVE  Tail(s) = SubSeq(s, 1 + 1, Len(s)) /\ Tail(s) \in Seq(X) /\ 1 \in 0 .. Len(s) /\ Head(s) = s[1]
OBVIOUS

\* A frame is lost, or taken and not answered.
LEMMA FrameGone ==
  ASSUME NEW i, NEW u, NEW g, NEW h, NEW d, NEW c, NEW k, InStage(i, u, g, h, d, c, k), g # <<>>
  PROVE  InStage(i, u, Tail(g), h, d, c, k)
<1>1. CASE Behind(i, g, h, d, k)
  <2> DEFINE A == SideFrames \cup FramesAt(i, k - 1)
             B == SideFrames \cup FramesAt(i, k)
             X == SideFrames \cup FramesAt(i, k - 1) \cup FramesAt(i, k)
  <2>1. g \in Seq(X) /\ Mixed(g, A, B)
    BY <1>1 DEF Behind
  <2> HIDE DEF A, B, X
  <2>2. Tail(g) = SubSeq(g, 1 + 1, Len(g)) /\ Tail(g) \in Seq(X) /\ 1 \in 0 .. Len(g)
    BY <2>1, TailIsRest
  <2>3. Mixed(Tail(g), A, B)
    BY <2>1, <2>2, MixedRest
  <2>4. Behind(i, Tail(g), h, d, k)
    BY <1>1, <2>2, <2>3 DEF Behind, A, B, X
  <2> QED BY <2>4 DEF InStage
<1>2. CASE Abreast(i, g, h, d, c, k)
  <2> DEFINE B == SideFrames \cup FramesAt(i, k)
  <2>1. g \in Seq(B)
    BY <1>2 DEF Abreast
  <2> HIDE DEF B
  <2>2. Tail(g) \in Seq(B)
    BY <2>1
  <2>3. Abreast(i, Tail(g), h, d, c, k)
    BY <1>2, <2>2 DEF Abreast, B
  <2> QED BY <2>3 DEF InStage
<1> QED BY <1>1, <1>2 DEF InStage

\* Frames are sent that belong to the stage, or to none.
LEMMA FramesSent ==
  ASSUME NEW i, NEW u, NEW g, NEW h, NEW d, NEW c, NEW k, InStage(i, u, g, h, d, c, k),
         NEW r \in Seq(SideFrames \cup FramesAt(i, k))
  PROVE  InStage(i, u, g \o r, h, d, c, k)
<1>1. CASE Behind(i, g, h, d, k)
  <2> DEFINE A == SideFrames \cup FramesAt(i, k - 1)
             B == SideFrames \cup FramesAt(i, k)
             X == SideFrames \cup FramesAt(i, k - 1) \cup FramesAt(i, k)
  <2>1. g \in Seq(X) /\ Mixed(g, A, B) /\ r \in Seq(B) /\ B \subseteq X
    BY <1>1 DEF Behind
  <2> HIDE DEF A, B, X
  <2>2. g \o r \in Seq(X)
    <3>1. r \in Seq(X)
      BY <2>1, SeqMonotonic
    <3> QED BY <2>1, <3>1
  <2>3. Mixed(g \o r, A, B)
    BY <2>1, MixedMore
  <2>4. Behind(i, g \o r, h, d, k)
    BY <1>1, <2>2, <2>3 DEF Behind, A, B, X
  <2> QED BY <2>4 DEF InStage
<1>2. CASE Abreast(i, g, h, d, c, k)
  <2> DEFINE B == SideFrames \cup FramesAt(i, k)
  <2>1. g \in Seq(B) /\ r \in Seq(B)
    BY <1>2 DEF Abreast
  <2> HIDE DEF B
  <2>2. g \o r \in Seq(B)
    BY <2>1
  <2>3. Abreast(i, g \o r, h, d, c, k)
    BY <1>2, <2>2 DEF Abreast, B
  <2> QED BY <2>3 DEF InStage
<1> QED BY <1>1, <1>2 DEF InStage

\* The first m replies leave the link, read or lost.
LEMMA RepliesGone ==
  ASSUME NEW i, NEW u, NEW g, NEW h, NEW d, NEW c, NEW k, InStage(i, u, g, h, d, c, k),
         NEW m \in 0 .. Len(h)
  PROVE  InStage(i, u, g, SubSeq(h, m + 1, Len(h)), d, c, k)
<1> DEFINE r == SubSeq(h, m + 1, Len(h))
<1>1. CASE Behind(i, g, h, d, k)
  <2> DEFINE A == SideReplies \cup RepliesAt(i, k - 1)
  <2>1. h \in Seq(A)
    BY <1>1 DEF Behind
  <2> HIDE DEF A
  <2>2. r \in Seq(A)
    BY <2>1
  <2>3. Behind(i, g, r, d, k)
    BY <1>1, <2>2 DEF Behind, A
  <2> QED BY <2>3 DEF InStage
<1>2. CASE Abreast(i, g, h, d, c, k)
  <2> DEFINE A == SideReplies \cup RepliesAt(i, k - 1)
             B == SideReplies \cup RepliesAt(i, k)
             X == SideReplies \cup RepliesAt(i, k - 1) \cup RepliesAt(i, k)
  <2>1. h \in Seq(X) /\ Mixed(h, A, B)
    BY <1>2 DEF Abreast
  <2> HIDE DEF A, B, X
  <2>2. r \in Seq(X) /\ Mixed(r, A, B)
    BY <2>1, MixedRest
  <2>3. ASSUME NoneOk(i, h, k) PROVE NoneOk(i, r, k)
    <3>1. ASSUME NEW n \in 1 .. Len(r) PROVE n + m \in 1 .. Len(h) /\ r[n] = h[n + m]
      BY <2>1, <3>1, SMTT(30)
    <3> QED BY <2>3, <3>1 DEF NoneOk
  <2> HIDE DEF r
  <2>4. Abreast(i, g, r, d, c, k)
    BY <1>2, <2>2, <2>3 DEF Abreast, A, B, X
  <2> QED BY <2>4 DEF InStage, r
<1> QED BY <1>1, <1>2 DEF InStage

\* The first reply is damaged.
LEMMA ReplyDamaged ==
  ASSUME NEW i, NEW u, NEW g, NEW h, NEW d, NEW c, NEW k, InStage(i, u, g, h, d, c, k), h # <<>>,
         SlicesListed, NumbersFit, i \in Images, k \in 0 .. LastStage(i)
  PROVE  InStage(i, u, g, <<[cmd |-> "corrupt"]>> \o Tail(h), d, c, k)
<1> DEFINE e == [cmd |-> "corrupt"]
           r == <<e>> \o Tail(h)
<1>1. e \in SideReplies
  BY DEF SideReplies
<1> HIDE DEF e
<1>2. CASE Behind(i, g, h, d, k)
  <2> DEFINE A == SideReplies \cup RepliesAt(i, k - 1)
  <2>1. h \in Seq(A) /\ e \in A
    BY <1>1, <1>2 DEF Behind
  <2> HIDE DEF A
  <2>2. r \in Seq(A)
    BY <2>1
  <2>3. Behind(i, g, r, d, k)
    BY <1>2, <2>2 DEF Behind, A
  <2> QED BY <2>3 DEF InStage, e
<1>3. CASE Abreast(i, g, h, d, c, k)
  <2> DEFINE A == SideReplies \cup RepliesAt(i, k - 1)
             B == SideReplies \cup RepliesAt(i, k)
             X == SideReplies \cup RepliesAt(i, k - 1) \cup RepliesAt(i, k)
  <2>1. h \in Seq(X) /\ Mixed(h, A, B) /\ e \in A \cap B /\ e \in X
    BY <1>1, <1>3 DEF Abreast
  <2> HIDE DEF A, B, X
  <2>2. r \in Seq(X) /\ Len(r) = Len(h) /\ r[1] = e /\ \A n \in 2 .. Len(h) : r[n] = h[n]
    BY <2>1
  <2>3. Mixed(r, A, B)
    BY <2>1, MixedHead
  <2>4. e \notin RepliesAt(i, k)
    BY <1>1, StagesApart
  <2> HIDE DEF r
  <2>5. ASSUME NoneOk(i, h, k) PROVE NoneOk(i, r, k)
    <3>1. ASSUME NEW n \in 1 .. Len(r), r[n] \in RepliesAt(i, k) PROVE r[n].status # "ok"
      <4>1. n \in 2 .. Len(h)
        BY <2>2, <2>4, <3>1
      <4> QED BY <2>2, <2>5, <3>1, <4>1 DEF NoneOk
    <3> QED BY <3>1 DEF NoneOk
  <2>6. Abreast(i, g, r, d, c, k)
    BY <1>3, <2>2, <2>3, <2>5 DEF Abreast, A, B, X
  <2> QED BY <2>6 DEF InStage, r, e
<1> QED BY <1>2, <1>3 DEF InStage

\* More has happened.
LEMMA StageLater ==
  ASSUME NEW i, NEW u, NEW g, NEW h, NEW d, NEW c, NEW k, InStage(i, u, g, h, d, c, k),
         NEW b, c \subseteq b
  PROVE  InStage(i, u, g, h, d, b, k)
BY DEF InStage, Abreast

\* The device has taken a frame of the stage before.
LEMMA AnsweredBehind ==
  ASSUME SlicesListed, NumbersFit, NEW i \in Images, NEW k \in 0 .. LastStage(i),
         NEW g, NEW h, NEW d, NEW e, NEW m, Behind(i, g, h, d, k), g # <<>>,
         DeviceAt(i, e, k - 1), m \in SideReplies \cup RepliesAt(i, k - 1)
  PROVE  Behind(i, Tail(g), Append(h, m), e, k)
<1> DEFINE A == SideFrames \cup FramesAt(i, k - 1)
           B == SideFrames \cup FramesAt(i, k)
           X == SideFrames \cup FramesAt(i, k - 1) \cup FramesAt(i, k)
           Y == SideReplies \cup RepliesAt(i, k - 1)
<1>1. g \in Seq(X) /\ Mixed(g, A, B) /\ h \in Seq(Y) /\ m \in Y
  BY DEF Behind
<1> HIDE DEF A, B, X, Y
<1>2. Tail(g) = SubSeq(g, 1 + 1, Len(g)) /\ Tail(g) \in Seq(X) /\ 1 \in 0 .. Len(g)
  BY <1>1, TailIsRest
<1>3. Mixed(Tail(g), A, B)
  BY <1>1, <1>2, MixedRest
<1>4. Append(h, m) \in Seq(Y)
  BY <1>1
<1> QED BY <1>2, <1>3, <1>4 DEF Behind, A, B, X, Y

\* The device has taken the first frame of the stage.
LEMMA AnsweredFirst ==
  ASSUME SlicesListed, NumbersFit, NEW i \in Images, NEW k \in 0 .. LastStage(i),
         NEW g, NEW h, NEW d, NEW e, NEW b, NEW m, Behind(i, g, h, d, k), g # <<>>,
         g[1] = FrameAt(i, k), m \in RepliesAt(i, k),
         \/ DeviceAt(i, e, k) /\ (k > 2 /\ k = LastStage(i) => "complete" \in b)
         \/ DeviceAt(i, e, k - 1) /\ m.status # "ok"
  PROVE  Abreast(i, Tail(g), Append(h, m), e, b, k)
<1> DEFINE A == SideFrames \cup FramesAt(i, k - 1)
           B == SideFrames \cup FramesAt(i, k)
           X == SideFrames \cup FramesAt(i, k - 1) \cup FramesAt(i, k)
           Y == SideReplies \cup RepliesAt(i, k - 1)
           Z == SideReplies \cup RepliesAt(i, k)
           W == SideReplies \cup RepliesAt(i, k - 1) \cup RepliesAt(i, k)
<1>1. g \in Seq(X) /\ Mixed(g, A, B) /\ h \in Seq(Y) /\ m \in Z /\ Y \subseteq W /\ Z \subseteq W
  BY DEF Behind
<1>2. g[1] \notin A /\ RepliesAt(i, k) \cap Y = {}
  BY StagesApart
<1> HIDE DEF A, B, X, Y, Z, W
<1>3. g \in Seq(B)
  BY <1>1, <1>2, MixedTurned
<1>4. Tail(g) \in Seq(B)
  BY <1>3
<1>5. <<m>> \in Seq(Z) /\ h \o <<m>> = Append(h, m)
  BY <1>1
<1>6. Mixed(h, Y, Z)
  BY <1>1, MixedOfAll
<1>7. Mixed(h \o <<m>>, Y, Z)
  BY <1>1, <1>5, <1>6, MixedMore
<1>8. Append(h, m) \in Seq(W)
  <2>1. h \in Seq(W) /\ m \in W
    BY <1>1, SeqMonotonic
  <2> QED BY <2>1
<1>9. ASSUME m.status # "ok" PROVE NoneOk(i, Append(h, m), k)
  <2>1. ASSUME NEW n \in 1 .. Len(Append(h, m)), Append(h, m)[n] \in RepliesAt(i, k)
        PROVE  Append(h, m)[n] = m
    <3>1. CASE n <= Len(h)
      <4>1. Append(h, m)[n] = h[n] /\ h[n] \in Y
        BY <1>1, <3>1
      <4> QED BY <1>2, <2>1, <4>1
    <3>2. CASE ~(n <= Len(h))
      BY <1>1, <3>2
    <3> QED BY <3>1, <3>2
  <2> QED BY <1>9, <2>1 DEF NoneOk
<1> QED BY <1>4, <1>5, <1>7, <1>8, <1>9 DEF Abreast, B, Y, Z, W

\* The device has taken another frame of the stage, or of none.
LEMMA AnsweredAbreast ==
  ASSUME SlicesListed, NumbersFit, NEW i \in Images, NEW k \in 0 .. LastStage(i),
         NEW g, NEW h, NEW d, NEW e, NEW c, NEW b, NEW m, Abreast(i, g, h, d, c, k), g # <<>>, c \subseteq b,
         m \in SideReplies \cup RepliesAt(i, k),
         DeviceAt(i, d, k) => DeviceAt(i, e, k),
         DeviceAt(i, d, k - 1) =>
           \/ DeviceAt(i, e, k) /\ (k > 2 /\ k = LastStage(i) => "complete" \in b)
           \/ DeviceAt(i, e, k - 1) /\ (m \in SideReplies \/ m.status # "ok")
  PROVE  Abreast(i, Tail(g), Append(h, m), e, b, k)
<1> DEFINE B == SideFrames \cup FramesAt(i, k)
           Y == SideReplies \cup RepliesAt(i, k - 1)
           Z == SideReplies \cup RepliesAt(i, k)
           W == SideReplies \cup RepliesAt(i, k - 1) \cup RepliesAt(i, k)
<1>1. g \in Seq(B) /\ h \in Seq(W) /\ Mixed(h, Y, Z) /\ m \in Z /\ Z \subseteq W
  BY DEF Abreast
<1>2. RepliesAt(i, k) \cap SideReplies = {}
  BY StagesApart
<1> HIDE DEF B, Y, Z, W
<1>3. Tail(g) \in Seq(B)
  BY <1>1
<1>4. <<m>> \in Seq(Z) /\ h \o <<m>> = Append(h, m)
  BY <1>1
<1>5. Mixed(h \o <<m>>, Y, Z)
  BY <1>1, <1>4, MixedMore
<1>6. Append(h, m) \in Seq(W)
  <2>1. m \in W
    BY <1>1
  <2> QED BY <1>1, <2>1
<1>7. ASSUME NoneOk(i, h, k), m \in SideReplies \/ m.status # "ok" PROVE NoneOk(i, Append(h, m), k)
  <2>1. ASSUME NEW n \in 1 .. Len(Append(h, m)), Append(h, m)[n] \in RepliesAt(i, k)
        PROVE  Append(h, m)[n].status # "ok"
    <3>1. CASE n <= Len(h)
      <4>1. Append(h, m)[n] = h[n] /\ n \in 1 .. Len(h)
        BY <1>1, <3>1
      <4> QED BY <1>7, <2>1, <4>1 DEF NoneOk
    <3>2. CASE ~(n <= Len(h))
      <4>1. Append(h, m)[n] = m
        BY <1>1, <3>2
      <4> QED BY <1>2, <1>7, <2>1, <4>1
    <3> QED BY <3>1, <3>2
  <2> QED BY <2>1 DEF NoneOk
<1>8. \/ DeviceAt(i, e, k) /\ (k > 2 /\ k = LastStage(i) => "complete" \in b)
      \/ DeviceAt(i, e, k - 1) /\ NoneOk(i, Append(h, m), k)
  <2>1. CASE DeviceAt(i, d, k) /\ (k > 2 /\ k = LastStage(i) => "complete" \in c)
    BY <2>1
  <2>2. CASE DeviceAt(i, d, k - 1) /\ NoneOk(i, h, k)
    BY <1>7, <2>2
  <2> QED BY <2>1, <2>2 DEF Abreast
<1> QED BY <1>3, <1>4, <1>5, <1>6, <1>8 DEF Abreast, B, Y, Z, W

\* The device serves a frame.
LEMMA ServedInStage ==
  ASSUME SlicesListed, NumbersFit, NEW i \in Images, NEW k \in 0 .. LastStage(i),
         NEW u, NEW g, NEW h, NEW d, NEW e, NEW c, NEW b, NEW m, InStage(i, u, g, h, d, c, k), g # <<>>,
         Served(i, g[1], d, e, c, b, m)
  PROVE  /\ InStage(i, u, Tail(g), Append(h, m), e, b, k)
         /\ m.cmd # "corrupt" => m.status = "ok" \/ Blamed(b)
<1>1. CASE g[1] \in SideFrames
  <2>1. m \in SideReplies /\ e.flash = d.flash /\ e.last = d.last /\ (m.status = "ok" \/ Blamed(b)) /\ c \subseteq b
    BY <1>1 DEF Served
  <2>2. \A j : DeviceAt(i, d, j) => DeviceAt(i, e, j)
    BY <2>1 DEF DeviceAt
  <2>3. CASE Behind(i, g, h, d, k)
    <3>1. DeviceAt(i, e, k - 1)
      BY <2>2, <2>3 DEF Behind
    <3>2. Behind(i, Tail(g), Append(h, m), e, k)
      BY <2>1, <2>3, <3>1, AnsweredBehind
    <3> QED BY <2>1, <3>2 DEF InStage
  <2>4. CASE Abreast(i, g, h, d, c, k)
    <3>1. Abreast(i, Tail(g), Append(h, m), e, b, k)
      BY <2>1, <2>2, <2>4, AnsweredAbreast
    <3> QED BY <2>1, <3>1 DEF InStage
  <2> QED BY <2>3, <2>4 DEF InStage
<1>2. CASE g[1] \in FramesAt(i, k - 1) /\ Behind(i, g, h, d, k)
  <2> DEFINE j == k - 1
  <2>1. j \in 0 .. LastStage(i) /\ g[1] = FrameAt(i, j)
    BY <1>2, StageIsInt DEF FramesAt
  <2>2. DeviceAt(i, d, j)
    BY <1>2 DEF Behind
  <2> HIDE DEF j
  <2>3. m \in RepliesAt(i, j) /\ DeviceAt(i, e, j) /\ (m.status = "ok" \/ Blamed(b))
    BY <2>1, <2>2 DEF Served
  <2>4. Behind(i, Tail(g), Append(h, m), e, k)
    BY <1>2, <2>3, AnsweredBehind DEF j
  <2> QED BY <2>3, <2>4 DEF InStage
<1>3. CASE g[1] = FrameAt(i, k)
  <2>1. /\ m \in RepliesAt(i, k) /\ c \subseteq b
        /\ DeviceAt(i, d, k) \/ DeviceAt(i, d, k - 1) => m.status = "ok" \/ Blamed(b)
        /\ DeviceAt(i, d, k) => DeviceAt(i, e, k)
        /\ DeviceAt(i, d, k - 1) => \/ DeviceAt(i, e, k) /\ (k > 2 /\ k = LastStage(i) => "complete" \in b)
                                    \/ DeviceAt(i, e, k - 1) /\ m.status # "ok"
    BY <1>3, Zenon DEF Served
  <2>2. CASE Behind(i, g, h, d, k)
    <3>1. DeviceAt(i, d, k - 1)
      BY <2>2 DEF Behind
    <3>2. Abreast(i, Tail(g), Append(h, m), e, b, k)
      BY <1>3, <2>1, <2>2, <3>1, AnsweredFirst
    <3> QED BY <2>1, <3>1, <3>2 DEF InStage
  <2>3. CASE Abreast(i, g, h, d, c, k)
    <3>1. DeviceAt(i, d, k) \/ DeviceAt(i, d, k - 1)
      BY <2>3 DEF Abreast
    <3>2. Abreast(i, Tail(g), Append(h, m), e, b, k)
      BY <2>1, <2>3, AnsweredAbreast
    <3> QED BY <2>1, <3>1, <3>2 DEF InStage
  <2> QED BY <2>2, <2>3 DEF InStage
<1>4. \/ g[1] \in SideFrames \/ g[1] = FrameAt(i, k)
      \/ g[1] \in FramesAt(i, k - 1) /\ Behind(i, g, h, d, k)
  <2>1. FramesAt(i, k) = {FrameAt(i, k)}
    BY StageIsInt DEF FramesAt
  <2>2. CASE Behind(i, g, h, d, k)
    <3>1. g[1] \in SideFrames \cup FramesAt(i, k - 1) \cup FramesAt(i, k)
      BY <2>2 DEF Behind
    <3> QED BY <2>1, <2>2, <3>1
  <2>3. CASE Abreast(i, g, h, d, c, k)
    <3>1. g[1] \in SideFrames \cup FramesAt(i, k)
      BY <2>3 DEF Abreast
    <3> QED BY <2>1, <3>1
  <2> QED BY <2>2, <2>3 DEF InStage
<1> QED BY <1>1, <1>2, <1>3, <1>4

-----------------------------------------------------------------------------
(* What the host does with a reply *)

\* The host asks for the stage that it asked for before.
Kept(u, v) == /\ HostShape(v) /\ v.started = u.started /\ v.channel = u.channel
              /\ v.last = u.last /\ v.seq = u.seq /\ v.type = u.type

LEMMA QuitKept ==
  ASSUME NEW u, HostShape(u)
  PROVE  /\ Kept(u, RequestQuit(u)) /\ RequestQuit(u).quitStatus = u.quitStatus
         /\ Kept(u, RollBack(u)) /\ RollBack(u).quitStatus = "ROLLBACK"
<1>1. ASSUME NEW w, HostShape(w) PROVE Kept(w, RequestQuit(w)) /\ RequestQuit(w).quitStatus = w.quitStatus
  <2> DEFINE f == [cmd |-> "QUIT", status |-> w.quitStatus]
  <2>1. f \in SideFrames /\ w.list \in Seq(SideFrames)
    BY <1>1 DEF SideFrames, HostShape
  <2> HIDE DEF f
  <2>2. Append(w.list, f) \in Seq(SideFrames)
    BY <2>1
  <2>3. RequestQuit(w) = [w EXCEPT !.list = Append(@, f), !.writing = TRUE]
    BY DEF RequestQuit, SendNormal, f
  <2> QED BY <1>1, <2>2, <2>3 DEF Kept, HostShape
<1> DEFINE r == [u EXCEPT !.quitStatus = "ROLLBACK"]
<1>2. HostShape(r) /\ Kept(u, r) /\ r.quitStatus = "ROLLBACK" /\ RollBack(u) = RequestQuit(r)
  BY DEF HostShape, QuitStatuses, RollBack, Kept
<1> HIDE DEF r
<1>3. Kept(r, RequestQuit(r)) /\ RequestQuit(r).quitStatus = r.quitStatus
  BY <1>1, <1>2
<1> QED BY <1>1, <1>2, <1>3 DEF Kept

LEMMA TimeoutKept ==
  ASSUME NEW u, HostShape(u)
  PROVE  Kept(u, SendTimeout(u)) /\ SendTimeout(u).quitStatus = u.quitStatus
BY DEF SendTimeout, Kept, HostShape

LEMMA HandleQuitKept ==
  ASSUME NEW u, HostShape(u), NEW m
  PROVE  /\ Kept(u, HandleQuit(u, m))
         /\ \/ HandleQuit(u, m).quitStatus = u.quitStatus
            \/ HandleQuit(u, m).quitStatus = "ROLLBACK" /\ m.status # "ok"
<1> DEFINE q == IF m.status # "ok" /\ u.quitStatus = "SUCCESS" THEN "ROLLBACK" ELSE u.quitStatus
           w == [u EXCEPT !.timer = FALSE, !.quitStatus = q]
<1>1. q \in QuitStatuses /\ (q = u.quitStatus \/ (q = "ROLLBACK" /\ m.status # "ok"))
  <2>1. CASE m.status # "ok" /\ u.quitStatus = "SUCCESS"
    BY <2>1 DEF QuitStatuses
  <2>2. CASE ~(m.status # "ok" /\ u.quitStatus = "SUCCESS")
    <3>1. q = u.quitStatus
      BY <2>2
    <3>2. u.quitStatus \in QuitStatuses
      BY DEF HostShape
    <3> HIDE DEF q
    <3> QED BY <3>1, <3>2
  <2> QED BY <2>1, <2>2
<1>2. HandleQuit(u, m) = Notify(w)
  BY DEF HandleQuit
<1> HIDE DEF q
<1>3. Kept(u, w) /\ w.quitStatus = q
  BY <1>1 DEF Kept, HostShape
<1> HIDE DEF w
<1>4. Kept(w, Notify(w)) /\ Notify(w).quitStatus = w.quitStatus
  BY <1>3 DEF Kept, HostShape, Notify
<1> QED BY <1>1, <1>2, <1>3, <1>4 DEF Kept

\* A new update frame
LEMMA UpdateSent ==
  ASSUME NEW u, HostShape(u), NEW f
  PROVE  LET v == SendUpdate(u, f)
         IN /\ HostShape(v) /\ v.started = u.started /\ v.channel = u.channel
            /\ v.quitStatus = u.quitStatus /\ v.last = f /\ v.seq = u.seq /\ v.type = u.type
BY DEF SendUpdate, HostShape

\* What UploadSlice leaves alone
Advanced(u, v) == /\ HostShape(v) /\ v.started = u.started /\ v.channel = u.channel
                  /\ v.quitStatus = u.quitStatus

\* The slice at the position w is there.
LEMMA UploadPlaced ==
  ASSUME SlicesListed, NumbersFit, image \in Images, NEW k \in 3 .. LastStage(image),
         NEW u, HostShape(Fill(u)), Fill(u).seq = SeqAt(image, k), Fill(u).type = Cmd(image, k)
  PROVE  Advanced(Fill(u), UploadSlice(u)) /\ HostAt(image, UploadSlice(u), k)
<1> DEFINE w == Fill(u)
           t == Cmd(image, k)
           f == [cmd |-> w.type, no |-> w.seq % SeqWidth, slice |-> Slice(w)]
<1>1. /\ t \in Types /\ SeqAt(image, k) \in 0 .. Size(image, t) - 1
      /\ Done(image, t, k) \in 1 .. Size(image, t)
  BY SliceStage
<1>2. SliceMap(t) = MapOf(image, t) /\ Size(image, t) = Len(MapOf(image, t)) /\ Size(image, t) \in Nat
  BY <1>1, SliceMapIs, MapFacts DEF Size
<1>3. w.seq = SeqAt(image, k) /\ w.type = t /\ HostShape(w)
  OBVIOUS
<1> HIDE DEF w
<1>4. UploadSlice(u) = IF HasSlice(w) THEN RequestUpload(w) ELSE RollBack(w)
  BY DEF UploadSlice, w
<1>5. HasSlice(w)
  BY <1>1, <1>2, <1>3 DEF HasSlice
<1>6. Slice(w) = MapOf(image, t)[Done(image, t, k)]
  <2>1. Len(SliceMap(w.type)) - w.seq = Done(image, t, k)
    BY <1>1, <1>2, <1>3 DEF SeqAt
  <2> QED BY <1>2, <1>3, <2>1 DEF Slice
<1>7. ~(k < 3)
  BY StageIsInt
<1>8. f = FrameAt(image, k)
  BY <1>3, <1>6, <1>7 DEF FrameAt, NoAt
<1>9. RequestUpload(w) = SendUpdate(w, f)
  BY DEF RequestUpload
<1> HIDE DEF f
<1> QED BY <1>3, <1>4, <1>5, <1>7, <1>8, <1>9, UpdateSent DEF Advanced, HostAt, w

\* There is none.
LEMMA UploadNone ==
  ASSUME NEW u, HostShape(Fill(u)), Fill(u).seq = -1, Fill(u).type = "CODE"
  PROVE  Kept(Fill(u), UploadSlice(u)) /\ UploadSlice(u).quitStatus = "ROLLBACK"
<1> DEFINE w == Fill(u)
<1>1. ~HasSlice(w)
  BY DEF HasSlice
<1>2. UploadSlice(u) = RollBack(w)
  BY <1>1 DEF UploadSlice
<1> HIDE DEF w
<1> QED BY <1>2, QuitKept DEF w

\* The same slice again
LEMMA UploadAgain ==
  ASSUME SlicesListed, NumbersFit, image \in Images, NEW k \in 3 .. LastStage(image),
         NEW u, HostShape(u), HostAt(image, u, k)
  PROVE  Advanced(u, UploadSlice(u)) /\ HostAt(image, UploadSlice(u), k)
<1>1. k \in Int /\ ~(k < 3) /\ SeqAt(image, k) \in Nat
  BY StageIsInt, SliceStage
<1>2. u.seq = SeqAt(image, k) /\ u.type = Cmd(image, k)
  BY <1>1 DEF HostAt
<1>3. Fill(u) = u
  BY <1>1, <1>2 DEF Fill
<1> QED BY <1>2, <1>3, UploadPlaced

\* A fresh context: the first slice of the vector table, or of the code.
LEMMA UploadFirst ==
  ASSUME SlicesListed, NumbersFit, image \in Images, NEW u, HostShape(u), u.seq = -2
  PROVE  LET v == UploadSlice(u)
         IN \/ /\ LastStage(image) >= 3 /\ Advanced(u, v) /\ HostAt(image, v, 3)
            \/ /\ LastStage(image) = 2 /\ HostShape(v) /\ v.started = u.started /\ v.channel = u.channel
               /\ v.quitStatus = "ROLLBACK" /\ v.last = u.last /\ v.seq = -1 /\ v.type = "CODE"
<1>1. /\ SliceMap("VECTOR") = MapOf(image, "VECTOR") /\ SliceMap("CODE") = MapOf(image, "CODE")
      /\ MapOf(image, "VECTOR") \in Seq(Slices)
      /\ Size(image, "VECTOR") \in Nat /\ Size(image, "CODE") \in Nat
  BY SliceMapIs, MapFacts DEF Types
<1> DEFINE t == IF Size(image, "VECTOR") > 0 THEN "VECTOR" ELSE "CODE"
           w == [u EXCEPT !.seq = Size(image, t) - 1, !.type = t]
<1>2. SliceMap("VECTOR") # <<>> <=> Size(image, "VECTOR") > 0
  BY <1>1 DEF Size
<1>3. HostShape(w) /\ w.seq = Size(image, t) - 1 /\ w.type = t /\ Advanced(u, w) /\ w.last = u.last
  BY DEF HostShape, Advanced
<1>4. Fill(u) = w
  <2>1. u.seq < -1
    OBVIOUS
  <2>2. ~(w.seq = -1 /\ w.type = "VECTOR")
    BY <1>1, <1>3
  <2>3. Len(SliceMap(t)) = Size(image, t)
    BY <1>1 DEF Size
  <2> DEFINE start == IF SliceMap("VECTOR") # <<>> THEN "VECTOR" ELSE "CODE"
             s == IF u.seq < -1 THEN [u EXCEPT !.seq = Len(SliceMap(start)) - 1, !.type = start] ELSE u
  <2>4. start = t
    BY <1>2
  <2>5. s = w
    <3> HIDE DEF t, start
    <3> QED BY <2>1, <2>3, <2>4
  <2>6. Fill(u) = IF s.seq = -1 /\ s.type = "VECTOR"
                  THEN [s EXCEPT !.seq = Len(SliceMap("CODE")) - 1, !.type = "CODE"] ELSE s
    BY Zenon DEF Fill
  <2> HIDE DEF w, s
  <2> QED BY <2>2, <2>5, <2>6, Zenon
<1>5. CASE LastStage(image) >= 3
  <2>1. t = Cmd(image, 3) /\ Size(image, t) - 1 = SeqAt(image, 3) /\ 3 \in 3 .. LastStage(image)
    BY <1>5, FirstSlice, StageIsInt
  <2> HIDE DEF w, t
  <2>2. Advanced(w, UploadSlice(u)) /\ HostAt(image, UploadSlice(u), 3)
    BY <1>3, <1>4, <2>1, UploadPlaced
  <2> QED BY <1>3, <1>5, <2>2 DEF Advanced
<1>6. CASE ~(LastStage(image) >= 3)
  <2>1. Size(image, "VECTOR") = 0 /\ Size(image, "CODE") = 0 /\ LastStage(image) = 2
    BY <1>1, <1>6 DEF LastStage
  <2>2. w.seq = -1 /\ w.type = "CODE"
    BY <1>3, <2>1
  <2> HIDE DEF w, t
  <2>3. Kept(w, UploadSlice(u)) /\ UploadSlice(u).quitStatus = "ROLLBACK"
    BY <1>3, <1>4, <2>2, UploadNone
  <2> QED BY <1>3, <2>1, <2>2, <2>3 DEF Kept, Advanced
<1> QED BY <1>5, <1>6

\* The slice after the one of stage k, or the end of a vector without code
LEMMA UploadNext ==
  ASSUME SlicesListed, NumbersFit, image \in Images, NEW k \in 3 .. LastStage(image), NEW u, HostShape(u),
         u.seq = SeqAt(image, k) - 1, u.type = Cmd(image, k), k < LastStage(image) \/ u.type = "VECTOR"
  PROVE  LET v == UploadSlice(u)
         IN \/ /\ k < LastStage(image) /\ Advanced(u, v) /\ HostAt(image, v, k + 1)
            \/ /\ k = LastStage(image) /\ Size(image, "CODE") = 0
               /\ HostShape(v) /\ v.started = u.started /\ v.channel = u.channel
               /\ v.quitStatus = "ROLLBACK" /\ v.last = u.last /\ v.seq = -1 /\ v.type = "CODE"
<1>1. /\ SliceMap("CODE") = MapOf(image, "CODE")
      /\ Size(image, "VECTOR") \in Nat /\ Size(image, "CODE") \in Nat
  BY SliceMapIs, MapFacts DEF Types
<1>2. SeqAt(image, k) \in Nat /\ k \in Int /\ LastStage(image) \in Int
  BY SliceStage, StageIsInt
<1>3. ~(u.seq < -1)
  BY <1>2
<1> DEFINE w == [u EXCEPT !.seq = Size(image, "CODE") - 1, !.type = "CODE"]
<1>4. HostShape(w) /\ w.seq = Size(image, "CODE") - 1 /\ w.type = "CODE" /\ Advanced(u, w) /\ w.last = u.last
  BY DEF HostShape, Advanced
<1>5. Fill(u) = IF u.seq = -1 /\ u.type = "VECTOR" THEN w ELSE u
  BY <1>1, <1>3 DEF Fill, Size
<1>6. CASE k < LastStage(image)
  <2>1. k \in 3 .. LastStage(image) - 1 /\ k + 1 \in 3 .. LastStage(image)
    BY <1>2, <1>6
  <2>2. CASE Cmd(image, k + 1) = Cmd(image, k) /\ SeqAt(image, k + 1) = SeqAt(image, k) - 1
    <3>1. SeqAt(image, k + 1) \in Nat
      BY <2>1, SliceStage
    <3>2. Fill(u) = u
      BY <1>5, <2>2, <3>1
    <3>3. Advanced(u, UploadSlice(u)) /\ HostAt(image, UploadSlice(u), k + 1)
      BY <2>1, <2>2, <3>2, UploadPlaced
    <3> QED BY <1>6, <3>3
  <2>3. CASE /\ Cmd(image, k) = "VECTOR" /\ Cmd(image, k + 1) = "CODE"
             /\ SeqAt(image, k) = 0 /\ SeqAt(image, k + 1) = Size(image, "CODE") - 1
    <3>1. Fill(u) = w
      BY <1>5, <2>3
    <3> HIDE DEF w
    <3>2. Advanced(w, UploadSlice(u)) /\ HostAt(image, UploadSlice(u), k + 1)
      BY <1>4, <2>1, <2>3, <3>1, UploadPlaced
    <3> QED BY <1>4, <1>6, <3>2 DEF Advanced
  <2> QED BY <2>1, <2>2, <2>3, NextSlice
<1>7. CASE k = LastStage(image)
  <2>1. Size(image, "CODE") = 0 /\ SeqAt(image, k) = 0 /\ u.type = "VECTOR"
    BY <1>2, <1>7, FinalSlice
  <2>2. Fill(u) = w /\ w.seq = -1
    BY <1>4, <1>5, <2>1
  <2> HIDE DEF w
  <2>3. Kept(w, UploadSlice(u)) /\ UploadSlice(u).quitStatus = "ROLLBACK"
    BY <1>4, <2>2, UploadNone
  <2> QED BY <1>4, <1>7, <2>1, <2>2, <2>3 DEF Kept, Advanced
<1> QED BY <1>2, <1>6, <1>7

\* Nothing is left, and a slice is asked for.
LEMMA UploadPast ==
  ASSUME NEW u, HostShape(u), u.seq = -1, u.type = "CODE"
  PROVE  Kept(u, UploadSlice(u)) /\ UploadSlice(u).quitStatus = "ROLLBACK"
<1>1. Fill(u) = u
  BY DEF Fill
<1> QED BY <1>1, UploadNone

\* The host that results from a reply, when it is in stage k afterwards and when
\* it has run out of slices
Placed(u, v, k) == /\ HostShape(v) /\ v.started = u.started /\ v.channel = u.channel
                   /\ HostAt(image, v, k)
RunOut(u, v) == /\ HostShape(v) /\ v.started = u.started /\ v.channel = u.channel
                /\ v.quitStatus = "ROLLBACK" /\ v.last = u.last /\ v.seq = -1 /\ v.type = "CODE"

\* A rollback is the answer to a failure.
Provoked(u, v, m) == v.quitStatus = u.quitStatus \/ (v.quitStatus = "ROLLBACK" /\ m.status # "ok")

LEMMA KeptPlaced ==
  ASSUME NEW u, NEW v, NEW k, Kept(u, v), HostAt(image, u, k)
  PROVE  Placed(u, v, k)
BY DEF Kept, Placed, HostAt

\* The handler by the command of the reply
LEMMA HandlerOf ==
  ASSUME NEW u, NEW m
  PROVE  /\ m.cmd = "ENTER" => HandleFrame(u, m) = HandleEnter(u, m)
         /\ m.cmd = "SOFTWARE" => HandleFrame(u, m) = HandleSoftware(u, m)
         /\ m.cmd = "SEGMENT" => HandleFrame(u, m) = HandleSegment(u, m)
         /\ m.cmd \in Types => HandleFrame(u, m) = HandleUpload(u, m)
         /\ m.cmd = "QUIT" => HandleFrame(u, m) = HandleQuit(u, m)
         /\ m.cmd = "QUERY" => HandleFrame(u, m) = u
BY DEF HandleFrame, Types

LEMMA ReadSide ==
  ASSUME NEW u, HostShape(u), NEW m \in SideReplies, m.cmd # "corrupt"
  PROVE  Kept(u, HandleFrame(u, m)) /\ Provoked(u, HandleFrame(u, m), m)
<1>1. m.cmd \in {"QUERY", "QUIT"}
  BY DEF SideReplies
<1>2. CASE m.cmd = "QUERY"
  BY <1>2, HandlerOf DEF Kept, Provoked
<1>3. CASE m.cmd = "QUIT"
  BY <1>3, HandlerOf, HandleQuitKept DEF Provoked
<1> QED BY <1>1, <1>2, <1>3

\* Replies to ENTER and SOFTWARE: the next request, or QUIT
LEMMA ReadRequest ==
  ASSUME SlicesListed, NumbersFit, image \in Images, NEW u, HostShape(u), NEW j \in {0, 1}, NEW k \in {j, j + 1},
         HostAt(image, u, k), NEW m \in RepliesAt(image, j)
  PROVE  LET v == HandleFrame(u, m)
         IN \/ Placed(u, v, k) /\ Provoked(u, v, m)
            \/ m.status = "ok" /\ Placed(u, v, j + 1) /\ v.quitStatus = u.quitStatus
<1>1. m.cmd = Cmd(image, j) /\ u.seq = -2 /\ u.type = "VECTOR"
  <2>1. RepliesAt(image, j) = [cmd : {Cmd(image, j)}, status : Statuses]
    BY RepliesToQuery
  <2>2. u.seq = -2 /\ u.type = "VECTOR"
    BY DEF HostAt
  <2> QED BY <2>1, <2>2
<1>2. FrameAt(image, 1) = [cmd |-> "SOFTWARE"] /\ FrameAt(image, 2) = [cmd |-> "SEGMENT"]
  BY DEF FrameAt, Cmd
<1>3. /\ Placed(u, RequestQuit(u), k) /\ Provoked(u, RequestQuit(u), m)
      /\ Placed(u, RollBack(u), k) /\ RollBack(u).quitStatus = "ROLLBACK"
  BY QuitKept, KeptPlaced DEF Provoked
<1>4. ASSUME NEW n \in {1, 2}
      PROVE  LET v == SendUpdate(u, FrameAt(image, n)) IN Placed(u, v, n) /\ v.quitStatus = u.quitStatus
  BY <1>1, UpdateSent DEF Placed, HostAt
<1>5. CASE j = 0
  <2>1. HandleFrame(u, m) = HandleEnter(u, m)
    BY <1>1, <1>5, HandlerOf DEF Cmd
  <2>2. CASE m.status = "ok"
    <3>1. HandleFrame(u, m) = SendUpdate(u, FrameAt(image, 1))
      BY <1>2, <2>1, <2>2 DEF HandleEnter
    <3> QED BY <1>4, <1>5, <2>2, <3>1
  <2>3. CASE m.status # "ok"
    BY <1>3, <2>1, <2>3 DEF HandleEnter
  <2> QED BY <2>2, <2>3
<1>6. CASE j = 1
  <2>1. HandleFrame(u, m) = HandleSoftware(u, m)
    BY <1>1, <1>6, HandlerOf DEF Cmd
  <2>2. CASE m.status = "ok"
    <3>1. HandleFrame(u, m) = SendUpdate(u, FrameAt(image, 2))
      BY <1>2, <2>1, <2>2 DEF HandleSoftware
    <3> QED BY <1>4, <1>6, <2>2, <3>1
  <2>3. CASE m.status = "mismatch"
    <3>1. HandleFrame(u, m) = RollBack(u)
      BY <2>1, <2>3 DEF HandleSoftware
    <3> QED BY <1>3, <2>3, <3>1 DEF Provoked
  <2>4. CASE m.status # "ok" /\ m.status # "mismatch"
    <3>1. HandleFrame(u, m) = RequestQuit(u)
      BY <2>1, <2>4 DEF HandleSoftware
    <3> QED BY <1>3, <3>1
  <2> QED BY <2>2, <2>3, <2>4
<1> QED BY <1>5, <1>6

\* Replies to SEGMENT: what UploadSlice does, or QUIT
LEMMA ReadSegment ==
  ASSUME NEW u, HostShape(u), HostShape(UploadSlice(u)), NEW m, m.cmd = "SEGMENT"
  PROVE  LET v == HandleFrame(u, m)
             w == UploadSlice(u)
         IN \/ /\ m.status = "ok" /\ HostShape(v) /\ v.started = w.started /\ v.channel = w.channel
               /\ v.quitStatus = w.quitStatus /\ v.last = w.last /\ v.seq = w.seq /\ v.type = w.type
            \/ m.status # "ok" /\ Kept(u, v) /\ Provoked(u, v, m)
<1>1. HandleFrame(u, m) = HandleSegment(u, m)
  BY HandlerOf
<1>2. CASE m.status = "ok"
  <2> DEFINE w == UploadSlice(u)
             b == HasSlice(Fill(u))
  <2>1. HandleSegment(u, m) = [w EXCEPT !.progress = IF b THEN 0 ELSE @]
    BY <1>2 DEF HandleSegment
  <2> HIDE DEF w, b
  <2> QED BY <1>1, <1>2, <2>1 DEF HostShape, w
<1>3. CASE m.status = "mismatch"
  <2>1. HandleFrame(u, m) = RollBack(u)
    BY <1>1, <1>3 DEF HandleSegment
  <2> QED BY <1>3, <2>1, QuitKept DEF Provoked
<1>4. CASE m.status # "ok" /\ m.status # "mismatch"
  <2>1. HandleFrame(u, m) = RequestQuit(u)
    BY <1>1, <1>4 DEF HandleSegment
  <2> QED BY <1>4, <2>1, QuitKept DEF Provoked
<1> QED BY <1>2, <1>3, <1>4

\* Replies to a slice: the number decides.
LEMMA ReadUpload ==
  ASSUME NEW u, HostShape(u), NEW m, m.cmd \in Types
  PROVE  LET v == HandleFrame(u, m)
         IN \/ Kept(u, v) /\ Provoked(u, v, m)
            \/ m.status = "ok" /\ m.no = u.seq % SeqWidth /\ v = Confirm(u, m.cmd)
<1>1. HandleFrame(u, m) = HandleUpload(u, m)
  BY HandlerOf
<1>2. CASE m.status = "short"
  <2>1. HandleFrame(u, m) = RollBack(u)
    BY <1>1, <1>2 DEF HandleUpload
  <2> QED BY <1>2, <2>1, QuitKept DEF Provoked
<1>3. CASE m.status = "ok" /\ ~Repeated(u, m)
  <2>1. HandleFrame(u, m) = Confirm(u, m.cmd)
    BY <1>1, <1>3 DEF HandleUpload
  <2> QED BY <1>3, <2>1 DEF Repeated
<1>4. CASE m.status = "missing" /\ ~Repeated(u, m)
  <2>1. HandleFrame(u, m) = SendTimeout(u)
    BY <1>1, <1>4 DEF HandleUpload
  <2> QED BY <2>1, TimeoutKept DEF Provoked
<1>5. CASE m.status # "short" /\ (Repeated(u, m) \/ m.status \notin {"ok", "missing"})
  <2>1. HandleFrame(u, m) = u
    BY <1>1, <1>5 DEF HandleUpload
  <2> QED BY <2>1 DEF Kept, Provoked
<1> QED BY <1>2, <1>3, <1>4, <1>5

\* Progress is counted.
LEMMA ProgressKept ==
  ASSUME NEW u, HostShape(u)
  PROVE  LET w == [UpdateProgress(u) EXCEPT !.seq = @ - 1]
             s == [UpdateProgress(u) EXCEPT !.quitStatus = "SUCCESS"]
         IN /\ HostShape(w) /\ w.started = u.started /\ w.channel = u.channel
            /\ w.quitStatus = u.quitStatus /\ w.last = u.last /\ w.seq = u.seq - 1 /\ w.type = u.type
            /\ Kept(u, s) /\ s.quitStatus = "SUCCESS"
<1> DEFINE p == UpdateProgress(u)
<1>1. Kept(u, p) /\ p.quitStatus = u.quitStatus
  BY DEF UpdateProgress, Kept, HostShape
<1> HIDE DEF p
<1>2. LET w == [p EXCEPT !.seq = @ - 1]
          s == [p EXCEPT !.quitStatus = "SUCCESS"]
      IN /\ HostShape(w) /\ w.started = u.started /\ w.channel = u.channel
         /\ w.quitStatus = u.quitStatus /\ w.last = u.last /\ w.seq = u.seq - 1 /\ w.type = u.type
         /\ Kept(u, s) /\ s.quitStatus = "SUCCESS"
  BY <1>1 DEF Kept, HostShape, QuitStatuses
<1> QED BY <1>2 DEF p

\* The slice that was asked for is confirmed.
LEMMA ConfirmCurrent ==
  ASSUME SlicesListed, NumbersFit, image \in Images, NEW k \in 3 .. LastStage(image),
         NEW u, HostShape(u), HostAt(image, u, k)
  PROVE  LET v == Confirm(u, Cmd(image, k))
         IN \/ k < LastStage(image) /\ Placed(u, v, k + 1) /\ v.quitStatus = u.quitStatus
            \/ k = LastStage(image) /\ Placed(u, v, k) /\ v.quitStatus = "SUCCESS"
            \/ k = LastStage(image) /\ Size(image, "CODE") = 0 /\ RunOut(u, v)
<1>1. u.seq = SeqAt(image, k) /\ u.type = Cmd(image, k) /\ u.seq \in Nat /\ Cmd(image, k) \in Types
      /\ k \in Int /\ LastStage(image) \in Int /\ k <= LastStage(image)
  BY SliceStage, StageIsInt DEF HostAt
<1> DEFINE w == [UpdateProgress(u) EXCEPT !.seq = @ - 1]
           s == [UpdateProgress(u) EXCEPT !.quitStatus = "SUCCESS"]
<1>2. /\ HostShape(w) /\ w.started = u.started /\ w.channel = u.channel
      /\ w.quitStatus = u.quitStatus /\ w.last = u.last /\ w.seq = u.seq - 1 /\ w.type = u.type
      /\ Kept(u, s) /\ s.quitStatus = "SUCCESS"
  BY ProgressKept
<1> HIDE DEF w, s
<1>3. CASE Cmd(image, k) = "VECTOR" \/ u.seq > 0
  <2>1. Confirm(u, Cmd(image, k)) = UploadSlice(w)
    BY <1>3 DEF Confirm, w
  <2>2. k < LastStage(image) \/ w.type = "VECTOR"
    BY <1>1, <1>2, <1>3, FinalSlice
  <2>3. LET v == UploadSlice(w)
        IN \/ /\ k < LastStage(image) /\ Advanced(w, v) /\ HostAt(image, v, k + 1)
           \/ /\ k = LastStage(image) /\ Size(image, "CODE") = 0 /\ RunOut(w, v)
    BY <1>1, <1>2, <2>2, UploadNext DEF RunOut
  <2>4. CASE k < LastStage(image) /\ Advanced(w, UploadSlice(w)) /\ HostAt(image, UploadSlice(w), k + 1)
    BY <1>2, <2>1, <2>4 DEF Advanced, Placed
  <2>5. CASE k = LastStage(image) /\ Size(image, "CODE") = 0 /\ RunOut(w, UploadSlice(w))
    BY <1>2, <2>1, <2>5 DEF RunOut
  <2> QED BY <2>3, <2>4, <2>5
<1>4. CASE ~(Cmd(image, k) = "VECTOR" \/ u.seq > 0)
  <2>1. Confirm(u, Cmd(image, k)) = RequestQuit(s)
    BY <1>4 DEF Confirm, s
  <2>2. k = LastStage(image)
    BY <1>1, <1>4, FinalSlice DEF Types
  <2>3. Kept(s, RequestQuit(s)) /\ RequestQuit(s).quitStatus = "SUCCESS"
    BY <1>2, QuitKept DEF Kept
  <2>4. Kept(u, RequestQuit(s))
    BY <1>2, <2>3 DEF Kept
  <2>5. Placed(u, RequestQuit(s), k)
    BY <2>4, KeptPlaced
  <2> QED BY <2>1, <2>2, <2>3, <2>5
<1> QED BY <1>3, <1>4

\* A late reply to the last slice of the vector is taken for one to the only
\* slice of the code.
LEMMA ConfirmCrossed ==
  ASSUME NEW u, HostShape(u), u.seq = 0, u.type = "CODE"
  PROVE  RunOut(u, Confirm(u, "VECTOR"))
<1> DEFINE w == [UpdateProgress(u) EXCEPT !.seq = @ - 1]
<1>1. /\ HostShape(w) /\ w.started = u.started /\ w.channel = u.channel
      /\ w.last = u.last /\ w.seq = u.seq - 1 /\ w.type = u.type
  BY ProgressKept
<1>2. Confirm(u, "VECTOR") = UploadSlice(w)
  BY DEF Confirm
<1> HIDE DEF w
<1>3. Kept(w, UploadSlice(w)) /\ UploadSlice(w).quitStatus = "ROLLBACK" /\ w.seq = -1
  BY <1>1, UploadPast
<1> QED BY <1>1, <1>2, <1>3 DEF Kept, RunOut

\* A reply to the stage before leaves the host where it is.
LEMMA ReadEarlier ==
  ASSUME SlicesListed, NumbersFit, image \in Images, NEW k \in 0 .. LastStage(image),
         NEW u, HostShape(u), HostAt(image, u, k), NEW m \in RepliesAt(image, k - 1)
  PROVE  LET v == HandleFrame(u, m)
         IN \/ Placed(u, v, k) /\ Provoked(u, v, m)
            \/ /\ k > 3 /\ Cmd(image, k - 1) = "VECTOR" /\ Cmd(image, k) = "CODE"
               /\ Size(image, "VECTOR") > 0 /\ Size(image, "CODE") = 1
               /\ SeqAt(image, k - 1) = 0 /\ SeqAt(image, k) = 0 /\ RunOut(u, v)
<1> DEFINE j == k - 1
           v == HandleFrame(u, m)
<1>1. k \in Int /\ j \in Int /\ j >= 0 /\ j + 1 = k /\ LastStage(image) \in Int /\ k <= LastStage(image)
  BY StageIsInt DEF RepliesAt
<1>2. m \in RepliesAt(image, j)
  OBVIOUS
<1>3. CASE j \in {0, 1}
  <2> HIDE DEF j, v
  <2>1. k \in {j, j + 1}
    BY <1>1
  <2>2. \/ Placed(u, HandleFrame(u, m), k) /\ Provoked(u, HandleFrame(u, m), m)
        \/ m.status = "ok" /\ Placed(u, HandleFrame(u, m), j + 1) /\ HandleFrame(u, m).quitStatus = u.quitStatus
    BY <1>2, <1>3, <2>1, ReadRequest
  <2> QED BY <1>1, <2>2 DEF Provoked
<1>4. CASE j = 2
  <2>1. m.cmd = "SEGMENT"
    <3>1. m \in RepliesAt(image, 2) /\ Cmd(image, 2) = "SEGMENT"
      BY <1>2, <1>4 DEF Cmd
    <3>2. RepliesAt(image, 2) = [cmd : {Cmd(image, 2)}, status : Statuses]
      BY RepliesToQuery
    <3>3. m \in [cmd : {"SEGMENT"}, status : Statuses]
      BY <3>1, <3>2, Zenon
    <3> QED BY <3>3
  <2>2. k = 3 /\ k \in 3 .. LastStage(image)
    BY <1>1, <1>4
  <2>3. Advanced(u, UploadSlice(u)) /\ HostAt(image, UploadSlice(u), k)
    BY <2>2, UploadAgain
  <2>4. HostShape(UploadSlice(u))
    BY <2>3 DEF Advanced
  <2> DEFINE w == UploadSlice(u)
  <2>5. \/ /\ m.status = "ok" /\ HostShape(v) /\ v.started = w.started /\ v.channel = w.channel
           /\ v.quitStatus = w.quitStatus /\ v.last = w.last /\ v.seq = w.seq /\ v.type = w.type
        \/ m.status # "ok" /\ Kept(u, v) /\ Provoked(u, v, m)
    BY <2>1, <2>4, ReadSegment
  <2> HIDE DEF v, w
  <2>6. CASE m.status # "ok" /\ Kept(u, v) /\ Provoked(u, v, m)
    BY <2>6, KeptPlaced DEF v
  <2>7. CASE /\ m.status = "ok" /\ HostShape(v) /\ v.started = w.started /\ v.channel = w.channel
             /\ v.quitStatus = w.quitStatus /\ v.last = w.last /\ v.seq = w.seq /\ v.type = w.type
    <3>1. Placed(u, v, k) /\ v.quitStatus = u.quitStatus
      BY <2>3, <2>7 DEF Placed, Advanced, HostAt, w
    <3> QED BY <3>1 DEF Provoked, v
  <2> QED BY <2>5, <2>6, <2>7
<1>5. CASE j >= 3
  <2>1. j \in 3 .. LastStage(image) - 1 /\ j \in 3 .. LastStage(image) /\ k \in 3 .. LastStage(image) /\ k > 3
    BY <1>1, <1>5
  <2>2. m.cmd = Cmd(image, j) /\ m.no = NoAt(image, j) /\ m.cmd \in Types
    <3> HIDE DEF j
    <3>1. RepliesAt(image, j) = [cmd : {Cmd(image, j)}, no : {NoAt(image, j)}, status : Statuses]
      BY <1>1, <1>5, RepliesToSlice
    <3>2. Cmd(image, j) \in Types
      BY <2>1, SliceStage
    <3> QED BY <1>2, <3>1, <3>2
  <2>3. u.seq = SeqAt(image, k) /\ u.type = Cmd(image, k)
    BY <2>1 DEF HostAt
  <2> HIDE DEF j, v
  <2>4. \/ Kept(u, v) /\ Provoked(u, v, m)
        \/ m.status = "ok" /\ m.no = u.seq % SeqWidth /\ v = Confirm(u, m.cmd)
    BY <2>2, ReadUpload DEF v
  <2>5. CASE Kept(u, v) /\ Provoked(u, v, m)
    BY <2>5, KeptPlaced DEF v
  <2>6. CASE m.no = u.seq % SeqWidth /\ v = Confirm(u, m.cmd)
    <3>1. NoAt(image, j) = NoAt(image, k)
      BY <2>2, <2>3, <2>6 DEF NoAt
    <3>2. CASE Cmd(image, k) = Cmd(image, j) /\ SeqAt(image, k) = SeqAt(image, j) - 1
      <4>1. SeqAt(image, j) \in Nat /\ SeqWidth \in Nat /\ SeqWidth > 1
        BY <2>1, SliceStage, UpdaterAssumption DEF NumbersFit
      <4>2. SeqAt(image, j) % SeqWidth # (SeqAt(image, j) - 1) % SeqWidth
        BY <4>1, ModStep
      <4> QED BY <3>1, <3>2, <4>2 DEF NoAt
    <3>3. CASE /\ Cmd(image, j) = "VECTOR" /\ Cmd(image, k) = "CODE"
               /\ SeqAt(image, j) = 0 /\ SeqAt(image, k) = Size(image, "CODE") - 1
               /\ Size(image, "VECTOR") > 0 /\ Size(image, "CODE") > 0
      <4>1. (Size(image, "CODE") - 1) % SeqWidth = Size(image, "CODE") - 1 /\ Size(image, "CODE") \in Nat
        BY <3>3, CodeNumber, MapFacts DEF Types
      <4>2. 0 % SeqWidth = 0
        <5>1. SeqWidth \in Nat /\ SeqWidth > 1 /\ 0 \in 0 .. SeqWidth - 1
          BY UpdaterAssumption DEF NumbersFit
        <5> QED BY <5>1, ModSmall
      <4>3. Size(image, "CODE") = 1 /\ SeqAt(image, k) = 0
        BY <3>1, <3>3, <4>1, <4>2 DEF NoAt
      <4>4. RunOut(u, v)
        BY <2>2, <2>3, <2>6, <3>3, <4>3, ConfirmCrossed
      <4> QED BY <2>1, <3>3, <4>3, <4>4 DEF j, v
    <3> QED BY <1>1, <2>1, <3>2, <3>3, NextSlice
  <2> QED BY <2>4, <2>5, <2>6
<1> QED BY <1>1, <1>3, <1>4, <1>5

\* A success of the stage takes the host to the next one, or to the end.
LEMMA ReadCurrent ==
  ASSUME SlicesListed, NumbersFit, image \in Images, NEW k \in 0 .. LastStage(image),
         NEW u, HostShape(u), HostAt(image, u, k), NEW m \in RepliesAt(image, k)
  PROVE  LET v == HandleFrame(u, m)
         IN \/ Placed(u, v, k) /\ Provoked(u, v, m)
            \/ m.status = "ok" /\ k < LastStage(image) /\ Placed(u, v, k + 1) /\ v.quitStatus = u.quitStatus
            \/ m.status = "ok" /\ k > 2 /\ k = LastStage(image) /\ Placed(u, v, k) /\ v.quitStatus = "SUCCESS"
            \/ /\ m.status = "ok" /\ k >= 2 /\ k = LastStage(image) /\ Size(image, "CODE") = 0
               /\ RunOut(u, v)
<1> DEFINE v == HandleFrame(u, m)
<1>1. k \in Int /\ k >= 0 /\ k <= LastStage(image) /\ LastStage(image) \in Int /\ LastStage(image) >= 2
  <2>1. Size(image, "VECTOR") \in Nat /\ Size(image, "CODE") \in Nat
    BY MapFacts DEF Types
  <2> QED BY <2>1 DEF LastStage
<1>2. CASE k \in {0, 1}
  <2> HIDE DEF v
  <2>1. k \in {k, k + 1}
    OBVIOUS
  <2>2. \/ Placed(u, HandleFrame(u, m), k) /\ Provoked(u, HandleFrame(u, m), m)
        \/ m.status = "ok" /\ Placed(u, HandleFrame(u, m), k + 1) /\ HandleFrame(u, m).quitStatus = u.quitStatus
    BY <1>2, <2>1, ReadRequest
  <2> QED BY <1>1, <1>2, <2>2
<1>3. CASE k = 2
  <2>1. m.cmd = "SEGMENT"
    <3>1. m \in RepliesAt(image, 2) /\ Cmd(image, 2) = "SEGMENT"
      BY <1>3 DEF Cmd
    <3>2. RepliesAt(image, 2) = [cmd : {Cmd(image, 2)}, status : Statuses]
      BY RepliesToQuery
    <3>3. m \in [cmd : {"SEGMENT"}, status : Statuses]
      BY <3>1, <3>2, Zenon
    <3> QED BY <3>3
  <2> DEFINE w == UploadSlice(u)
  <2>2. u.seq = -2
    BY <1>3 DEF HostAt
  <2>3. \/ LastStage(image) >= 3 /\ Advanced(u, w) /\ HostAt(image, w, 3)
        \/ LastStage(image) = 2 /\ RunOut(u, w)
    BY <2>2, UploadFirst DEF RunOut
  <2>4. HostShape(w)
    BY <2>3 DEF Advanced, RunOut
  <2>5. \/ /\ m.status = "ok" /\ HostShape(v) /\ v.started = w.started /\ v.channel = w.channel
           /\ v.quitStatus = w.quitStatus /\ v.last = w.last /\ v.seq = w.seq /\ v.type = w.type
        \/ m.status # "ok" /\ Kept(u, v) /\ Provoked(u, v, m)
    BY <2>1, <2>4, ReadSegment
  <2> HIDE DEF v, w
  <2>6. CASE m.status # "ok" /\ Kept(u, v) /\ Provoked(u, v, m)
    BY <2>6, KeptPlaced DEF v
  <2>7. CASE /\ m.status = "ok" /\ HostShape(v) /\ v.started = w.started /\ v.channel = w.channel
             /\ v.quitStatus = w.quitStatus /\ v.last = w.last /\ v.seq = w.seq /\ v.type = w.type
    <3>1. CASE LastStage(image) >= 3 /\ Advanced(u, w) /\ HostAt(image, w, 3)
      <4>1. Placed(u, v, 3) /\ v.quitStatus = u.quitStatus
        BY <2>7, <3>1 DEF Placed, Advanced, HostAt
      <4> QED BY <1>1, <1>3, <2>7, <3>1, <4>1 DEF v
    <3>2. CASE LastStage(image) = 2 /\ RunOut(u, w)
      <4>1. RunOut(u, v)
        BY <2>7, <3>2 DEF RunOut
      <4>2. Size(image, "CODE") = 0
        <5>1. Size(image, "VECTOR") \in Nat /\ Size(image, "CODE") \in Nat
          BY MapFacts DEF Types
        <5> QED BY <3>2, <5>1 DEF LastStage
      <4> QED BY <1>1, <1>3, <2>7, <3>2, <4>1, <4>2 DEF v
    <3> QED BY <2>3, <3>1, <3>2
  <2> QED BY <2>5, <2>6, <2>7
<1>4. CASE k >= 3
  <2>1. k \in 3 .. LastStage(image)
    BY <1>1, <1>4
  <2>2. m.cmd = Cmd(image, k) /\ m.cmd \in Types
    <3>1. RepliesAt(image, k) = [cmd : {Cmd(image, k)}, no : {NoAt(image, k)}, status : Statuses]
      BY <1>1, <1>4, RepliesToSlice
    <3>2. Cmd(image, k) \in Types
      BY <2>1, SliceStage
    <3> QED BY <3>1, <3>2
  <2> HIDE DEF v
  <2>3. \/ Kept(u, v) /\ Provoked(u, v, m)
        \/ m.status = "ok" /\ m.no = u.seq % SeqWidth /\ v = Confirm(u, m.cmd)
    BY <2>2, ReadUpload DEF v
  <2>4. CASE Kept(u, v) /\ Provoked(u, v, m)
    BY <2>4, KeptPlaced DEF v
  <2>5. CASE m.status = "ok" /\ v = Confirm(u, m.cmd)
    <3>1. \/ k < LastStage(image) /\ Placed(u, v, k + 1) /\ v.quitStatus = u.quitStatus
          \/ k = LastStage(image) /\ Placed(u, v, k) /\ v.quitStatus = "SUCCESS"
          \/ k = LastStage(image) /\ Size(image, "CODE") = 0 /\ RunOut(u, v)
      BY <2>1, <2>2, <2>5, ConfirmCurrent
    <3> QED BY <1>1, <1>4, <2>5, <3>1 DEF v
  <2> QED BY <2>3, <2>4, <2>5
<1> QED BY <1>1, <1>2, <1>3, <1>4

\* When the first reply is to the stage, the stage before is over.
LEMMA StageTurned ==
  ASSUME SlicesListed, NumbersFit, NEW i \in Images, NEW k \in 0 .. LastStage(i),
         NEW u, NEW g, NEW h, NEW d, NEW c, InStage(i, u, g, h, d, c, k), h # <<>>, h[1] \in RepliesAt(i, k)
  PROVE  /\ h \in Seq(SideReplies \cup RepliesAt(i, k)) /\ g \in Seq(SideFrames \cup FramesAt(i, k))
         /\ h[1].status = "ok" => DeviceAt(i, d, k) /\ (k > 2 /\ k = LastStage(i) => "complete" \in c)
<1> DEFINE A == SideReplies \cup RepliesAt(i, k - 1)
           B == SideReplies \cup RepliesAt(i, k)
           X == SideReplies \cup RepliesAt(i, k - 1) \cup RepliesAt(i, k)
<1>1. h[1] \notin A
  BY StagesApart
<1>2. ASSUME Behind(i, g, h, d, k) PROVE FALSE
  <2>1. h \in Seq(A)
    BY <1>2 DEF Behind
  <2> HIDE DEF A
  <2> QED BY <1>1, <2>1
<1>3. Abreast(i, g, h, d, c, k)
  BY <1>2 DEF InStage
<1>4. h \in Seq(X) /\ Mixed(h, A, B)
  BY <1>3 DEF Abreast
<1>5. h \in Seq(B)
  <2> HIDE DEF A, B, X
  <2> QED BY <1>1, <1>4, MixedTurned
<1>6. 1 \in 1 .. Len(h)
  <2> HIDE DEF X
  <2> QED BY <1>4
<1>7. h[1].status = "ok" => ~NoneOk(i, h, k)
  BY <1>6 DEF NoneOk
<1> QED BY <1>3, <1>5, <1>7 DEF Abreast

LEMMA StageAdvance ==
  ASSUME SlicesListed, NumbersFit, NEW i \in Images, NEW k \in 0 .. LastStage(i), k < LastStage(i),
         NEW u, NEW v, NEW g, NEW h, NEW d, NEW c, InStage(i, u, g, h, d, c, k), h # <<>>, h[1] \in RepliesAt(i, k),
         h[1].status = "ok", HostAt(i, v, k + 1)
  PROVE  InStage(i, v, g, h, d, c, k + 1)
<1> DEFINE A == SideFrames \cup FramesAt(i, k)
           B == SideFrames \cup FramesAt(i, k + 1)
           X == SideFrames \cup FramesAt(i, k) \cup FramesAt(i, k + 1)
<1>1. /\ h \in Seq(SideReplies \cup RepliesAt(i, k)) /\ g \in Seq(A) /\ A \subseteq X
      /\ DeviceAt(i, d, k) /\ (k + 1) - 1 = k
  <2>1. k \in Int
    BY StageIsInt
  <2>2. h \in Seq(SideReplies \cup RepliesAt(i, k)) /\ g \in Seq(A) /\ DeviceAt(i, d, k)
    BY StageTurned
  <2> QED BY <2>1, <2>2
<1>2. g \in Seq(X) /\ Mixed(g, A, B)
  <2> HIDE DEF A, B, X
  <2> QED BY <1>1, SeqMonotonic, MixedOfAll
<1>3. Behind(i, g, h, d, k + 1)
  BY <1>1, <1>2 DEF Behind
<1> QED BY <1>3 DEF InStage

\* What is under way when the slices have run out
LEMMA StuckStage ==
  ASSUME SlicesListed, NumbersFit, NEW i \in Images, NEW k \in 2 .. LastStage(i), k = 2 \/ SeqAt(i, k) = 0
  PROVE  FrameAt(i, k) \in StuckFrames /\ FramesAt(i, k) \subseteq StuckFrames /\ RepliesAt(i, k) \subseteq StuckReplies
<1>1. k \in Int /\ k >= 2 /\ LastStage(i) \in Int /\ k <= LastStage(i)
  BY StageIsInt
<1>2. FramesAt(i, k) = {FrameAt(i, k)}
  BY <1>1 DEF FramesAt
<1>3. CASE k = 2
  <2>1. Cmd(i, 2) = "SEGMENT" /\ FrameAt(i, 2) = [cmd |-> "SEGMENT"]
    BY DEF Cmd, FrameAt
  <2>2. RepliesAt(i, 2) = [cmd : {"SEGMENT"}, status : Statuses]
    BY <2>1, RepliesToQuery
  <2>3. FrameAt(i, 2) \in StuckFrames
    BY <2>1 DEF StuckFrames
  <2>4. RepliesAt(i, 2) \subseteq StuckReplies
    BY <2>2, Zenon DEF StuckReplies
  <2> QED BY <1>2, <1>3, <2>3, <2>4
<1>4. CASE k > 2 /\ SeqAt(i, k) = 0
  <2>1. k \in 3 .. LastStage(i)
    BY <1>1, <1>4
  <2> DEFINE s == MapOf(i, Cmd(i, k))[Done(i, Cmd(i, k), k)]
  <2>2. Cmd(i, k) \in Types /\ s \in Slices
    BY <2>1, SliceStage
  <2>3. NoAt(i, k) = 0
    <3>1. SeqWidth \in Nat /\ SeqWidth > 1 /\ 0 \in 0 .. SeqWidth - 1
      BY UpdaterAssumption DEF NumbersFit
    <3>2. 0 % SeqWidth = 0
      BY <3>1, ModSmall
    <3> QED BY <1>4, <3>2 DEF NoAt
  <2>4. FrameAt(i, k) = [cmd |-> Cmd(i, k), no |-> 0, slice |-> s]
    BY <1>1, <1>4, <2>3 DEF FrameAt
  <2> HIDE DEF s
  <2>5. FrameAt(i, k) \in StuckFrames
    BY <2>2, <2>4 DEF StuckFrames
  <2>6. RepliesAt(i, k) = [cmd : {Cmd(i, k)}, no : {0}, status : Statuses]
    <3>1. k >= 3
      BY <1>1, <1>4
    <3>2. RepliesAt(i, k) = [cmd : {Cmd(i, k)}, no : {NoAt(i, k)}, status : Statuses]
      BY <1>1, <3>1, RepliesToSlice
    <3> QED BY <2>3, <3>2
  <2>7. RepliesAt(i, k) \subseteq StuckReplies
    BY <2>2, <2>6 DEF StuckReplies
  <2> QED BY <1>2, <2>5, <2>7
<1> QED BY <1>1, <1>3, <1>4

-----------------------------------------------------------------------------
(* The steps *)

\* A step that leaves quitStatus alone has the rest to show.
LEMMA Carried ==
  ASSUME UpdaterInv, image' = image, happened \subseteq happened', HostShape(host'),
         host'.quitStatus = host.quitStatus,
         host'.channel => Live(image, host', toDevice', toHost', device', happened'),
         LongCode /\ host'.channel => Honest(toHost', happened')
  PROVE  UpdaterInv'
<1>1. SuccessMeansWritten'
  BY DEF UpdaterInv, SuccessMeansWritten
<1>2. LongCode => NoSpuriousRollback'
  BY DEF UpdaterInv, NoSpuriousRollback
<1> QED BY <1>1, <1>2 DEF UpdaterInv

\* The host goes on in its stage.
LEMMA KeptLive ==
  ASSUME NEW i, NEW u, NEW v, NEW g, NEW h, NEW d, NEW c, Live(i, u, g, h, d, c), Kept(u, v)
  PROVE  Live(i, v, g, h, d, c)
<1>1. \A k : HostAt(i, u, k) => HostAt(i, v, k)
  BY DEF Kept, HostAt
<1>2. \A k : InStage(i, u, g, h, d, c, k) => InStage(i, v, g, h, d, c, k)
  BY <1>1 DEF InStage
<1>3. Stuck(u, g, h) => Stuck(v, g, h)
  BY DEF Kept, Stuck
<1>4. Idle(u, g, h) => Idle(v, g, h)
  BY DEF Kept, Idle
<1> QED BY <1>2, <1>3, <1>4 DEF Live, Kept

LEMMA NormalKept ==
  ASSUME NEW u, HostShape(u), NEW f \in SideFrames
  PROVE  Kept(u, SendNormal(u, f)) /\ SendNormal(u, f).quitStatus = u.quitStatus
<1>1. Append(u.list, f) \in Seq(SideFrames)
  BY DEF HostShape
<1> QED BY <1>1 DEF SendNormal, Kept, HostShape

\* The steps of the host that touch neither the link nor the stage
LEMMA KeptStep ==
  ASSUME UpdaterInv, Kept(host, host'), host'.quitStatus = host.quitStatus,
         UNCHANGED <<image, toDevice, toHost, device, happened>>
  PROVE  UpdaterInv'
<1>1. HostShape(host') /\ host'.channel = host.channel
  BY DEF Kept
<1>2. host'.channel => Live(image, host', toDevice, toHost, device, happened)
  BY <1>1, KeptLive DEF UpdaterInv
<1>3. LongCode /\ host'.channel => Honest(toHost, happened)
  BY <1>1 DEF UpdaterInv
<1> QED BY <1>1, <1>2, <1>3, Carried

LEMMA StopUpdateStep == ASSUME UpdaterInv, StopUpdate PROVE UpdaterInv'
<1>1. Kept(host, host') /\ host'.quitStatus = host.quitStatus
  BY QuitKept DEF StopUpdate, UpdaterInv
<1> QED BY <1>1, KeptStep DEF StopUpdate

LEMMA QueryDeviceStep == ASSUME UpdaterInv, QueryDevice PROVE UpdaterInv'
<1>1. [cmd |-> "QUERY"] \in SideFrames
  BY DEF SideFrames
<1>2. Kept(host, host') /\ host'.quitStatus = host.quitStatus
  BY <1>1, NormalKept DEF QueryDevice, UpdaterInv
<1> QED BY <1>2, KeptStep DEF QueryDevice

LEMMA OnSendTimeoutStep == ASSUME UpdaterInv, OnSendTimeout PROVE UpdaterInv'
<1>1. Kept(host, host') /\ host'.quitStatus = host.quitStatus
  BY TimeoutKept DEF OnSendTimeout, UpdaterInv
<1> QED BY <1>1, KeptStep DEF OnSendTimeout, env

\* ENTER is asked for, with nothing of a stage under way.
LEMMA EnterStage ==
  ASSUME SlicesListed, NumbersFit, NEW i \in Images, NEW u, NEW g \in Seq(SideFrames), NEW h \in Seq(SideReplies),
         NEW d, DeviceShape(d), NEW c, u.last = [cmd |-> "ENTER"], u.seq = -2, u.type = "VECTOR", u.started
  PROVE  Live(i, u, g, h, d, c)
<1>1. FrameAt(i, 0) = [cmd |-> "ENTER"]
  BY DEF FrameAt, Cmd
<1>2. HostAt(i, u, 0)
  BY <1>1 DEF HostAt
<1>3. FramesAt(i, -1) = {} /\ RepliesAt(i, -1) = {}
  BY DEF FramesAt, RepliesAt
<1> DEFINE A == SideFrames \cup FramesAt(i, -1)
           B == SideFrames \cup FramesAt(i, 0)
           X == SideFrames \cup FramesAt(i, -1) \cup FramesAt(i, 0)
<1>4. A = SideFrames /\ X = B /\ SideFrames \subseteq B
  BY <1>3
<1> HIDE DEF A, B, X
<1>5. g \in Seq(X)
  <2>1. g \in Seq(B)
    BY <1>4, SeqMonotonic
  <2> QED BY <1>4, <2>1
<1>6. Mixed(g, A, B)
  BY <1>4, MixedOfAll
<1>7. h \in Seq(SideReplies \cup RepliesAt(i, -1))
  <2>1. SideReplies \cup RepliesAt(i, -1) = SideReplies
    BY <1>3
  <2> QED BY <2>1
<1>8. DeviceAt(i, d, -1)
  BY DEF DeviceAt
<1>9. 0 - 1 = -1
  OBVIOUS
<1>10. Behind(i, g, h, d, 0)
  BY <1>5, <1>6, <1>7, <1>8, <1>9 DEF Behind, A, B, X
<1>11. 0 \in 0 .. LastStage(i)
  BY StageIsInt
<1> QED BY <1>2, <1>10, <1>11 DEF Live, InStage

LEMMA StartUpdateStep ==
  ASSUME SlicesListed, NumbersFit, UpdaterInv, StartUpdate PROVE UpdaterInv'
<1>1. /\ ~host.started /\ host.channel /\ host' = RequestEnter(host)
      /\ UNCHANGED <<image, toDevice, toHost, device, happened>>
  BY DEF StartUpdate, env
<1>2. /\ HostShape(host') /\ host'.started /\ host'.channel = host.channel
      /\ host'.quitStatus = host.quitStatus /\ host'.last = [cmd |-> "ENTER"]
      /\ host'.seq = -2 /\ host'.type = "VECTOR"
  BY <1>1 DEF UpdaterInv, HostShape, RequestEnter, SendUpdate
<1>3. image \in Images /\ DeviceShape(device) /\ toDevice \in Seq(SideFrames) /\ toHost \in Seq(SideReplies)
  BY <1>1 DEF UpdaterInv, Live, Idle
<1>4. Live(image, host', toDevice, toHost, device, happened)
  BY <1>2, <1>3, EnterStage
<1>5. LongCode => Honest(toHost, happened)
  BY <1>1 DEF UpdaterInv
<1> QED BY <1>1, <1>2, <1>4, <1>5, Carried

\* The link in every state of the transfer
LEMMA LiveLists ==
  ASSUME NEW i, NEW u, NEW g, NEW h, NEW d, NEW c, Live(i, u, g, h, d, c)
  PROVE  \E X, Y : g \in Seq(X) /\ h \in Seq(Y)
<1>1. \A k : Behind(i, g, h, d, k) => \E X, Y : g \in Seq(X) /\ h \in Seq(Y)
  BY DEF Behind
<1>2. \A k : Abreast(i, g, h, d, c, k) => \E X, Y : g \in Seq(X) /\ h \in Seq(Y)
  BY DEF Abreast
<1>3. Stuck(u, g, h) \/ Idle(u, g, h) => \E X, Y : g \in Seq(X) /\ h \in Seq(Y)
  BY DEF Stuck, Idle
<1> QED BY <1>1, <1>2, <1>3 DEF Live, InStage

LEMMA LiveFrameGone ==
  ASSUME NEW i, NEW u, NEW g, NEW h, NEW d, NEW c, Live(i, u, g, h, d, c), g # <<>>
  PROVE  Live(i, u, Tail(g), h, d, c)
<1>1. Stuck(u, g, h) => Stuck(u, Tail(g), h)
  <2> DEFINE X == SideFrames \cup StuckFrames
  <2>1. g \in Seq(X) => Tail(g) \in Seq(X)
    BY TailIsRest
  <2> QED BY <2>1 DEF Stuck
<1>2. Idle(u, g, h) => Idle(u, Tail(g), h)
  BY TailIsRest DEF Idle
<1>3. \A k : InStage(i, u, g, h, d, c, k) => InStage(i, u, Tail(g), h, d, c, k)
  BY FrameGone
<1> QED BY <1>1, <1>2, <1>3 DEF Live

LEMMA LiveRepliesGone ==
  ASSUME NEW i, NEW u, NEW g, NEW h, NEW d, NEW c, Live(i, u, g, h, d, c), NEW m \in 0 .. Len(h)
  PROVE  Live(i, u, g, SubSeq(h, m + 1, Len(h)), d, c)
<1> DEFINE r == SubSeq(h, m + 1, Len(h))
<1>1. \A X : h \in Seq(X) => r \in Seq(X)
  OBVIOUS
<1>2. \A k : InStage(i, u, g, h, d, c, k) => InStage(i, u, g, r, d, c, k)
  BY RepliesGone
<1> HIDE DEF r
<1>3. Stuck(u, g, h) => Stuck(u, g, r)
  BY <1>1 DEF Stuck
<1>4. Idle(u, g, h) => Idle(u, g, r)
  BY <1>1 DEF Idle
<1>5. Live(i, u, g, r, d, c)
  BY <1>2, <1>3, <1>4 DEF Live
<1> QED BY <1>5 DEF r

LEMMA LiveLater ==
  ASSUME NEW i, NEW u, NEW g, NEW h, NEW d, NEW c, Live(i, u, g, h, d, c), NEW b, c \subseteq b
  PROVE  Live(i, u, g, h, d, b)
<1>1. \A k : InStage(i, u, g, h, d, c, k) => InStage(i, u, g, h, d, b, k)
  BY StageLater
<1> QED BY <1>1 DEF Live

LEMMA LiveDamaged ==
  ASSUME SlicesListed, NumbersFit, NEW i \in Images, NEW u, NEW g, NEW h, NEW d, NEW c,
         Live(i, u, g, h, d, c), h # <<>>
  PROVE  Live(i, u, g, <<[cmd |-> "corrupt"]>> \o Tail(h), d, c)
<1> DEFINE e == [cmd |-> "corrupt"]
           r == <<e>> \o Tail(h)
<1>1. e \in SideReplies
  BY DEF SideReplies
<1>2. ASSUME NEW X, h \in Seq(SideReplies \cup X) PROVE r \in Seq(SideReplies \cup X)
  <2> HIDE DEF e
  <2> DEFINE Y == SideReplies \cup X
  <2>1. e \in Y
    BY <1>1
  <2> HIDE DEF Y
  <2>2. Tail(h) \in Seq(Y)
    BY <1>2, TailIsRest DEF Y
  <2>3. <<e>> \in Seq(Y)
    BY <2>1
  <2>4. r \in Seq(Y)
    BY <2>2, <2>3
  <2> QED BY <2>4 DEF Y
<1>3. \A k \in 0 .. LastStage(i) : InStage(i, u, g, h, d, c, k) => InStage(i, u, g, r, d, c, k)
  BY ReplyDamaged
<1> HIDE DEF r
<1>4. Stuck(u, g, h) => Stuck(u, g, r)
  BY <1>2 DEF Stuck
<1>5. Idle(u, g, h) => Idle(u, g, r)
  <2>1. SideReplies = SideReplies \cup {}
    OBVIOUS
  <2>2. h \in Seq(SideReplies) => r \in Seq(SideReplies)
    BY <1>2, <2>1
  <2> QED BY <2>2 DEF Idle
<1>6. Live(i, u, g, r, d, c)
  BY <1>3, <1>4, <1>5 DEF Live
<1> QED BY <1>6 DEF r

\* Replies leave, and more happens.
LEMMA HonestRest ==
  ASSUME NEW X, NEW h \in Seq(X), NEW c, NEW b, Honest(h, c), c \subseteq b, NEW m \in 0 .. Len(h)
  PROVE  Honest(SubSeq(h, m + 1, Len(h)), b)
<1> DEFINE r == SubSeq(h, m + 1, Len(h))
<1>1. Len(r) = Len(h) - m /\ \A n \in 1 .. Len(r) : n + m \in 1 .. Len(h) /\ r[n] = h[n + m]
  OBVIOUS
<1>2. Blamed(c) => Blamed(b)
  BY DEF Blamed
<1> HIDE DEF r
<1>3. Honest(r, b)
  BY <1>1, <1>2 DEF Honest
<1> QED BY <1>3 DEF r

LEMMA HonestMore ==
  ASSUME NEW X, NEW h \in Seq(X), NEW c, NEW b, Honest(h, c), c \subseteq b, NEW m,
         m.cmd = "corrupt" \/ m.status = "ok" \/ Blamed(b)
  PROVE  Honest(Append(h, m), b)
<1> DEFINE r == Append(h, m)
<1>1. /\ Len(h) \in Nat /\ Len(r) = Len(h) + 1 /\ r[Len(h) + 1] = m
      /\ \A n \in 1 .. Len(h) : r[n] = h[n]
  <2>1. h \in Seq(X \cup {m})
    BY SeqMonotonic
  <2> QED BY <2>1
<1>2. Blamed(c) => Blamed(b)
  BY DEF Blamed
<1> HIDE DEF r
<1>3. Honest(r, b)
  <2>1. ASSUME NEW n \in 1 .. Len(r) PROVE r[n].cmd = "corrupt" \/ r[n].status = "ok" \/ Blamed(b)
    <3>1. CASE n \in 1 .. Len(h)
      BY <1>1, <1>2, <3>1 DEF Honest
    <3>2. CASE n \notin 1 .. Len(h)
      <4>1. r[n] = m
        BY <1>1, <3>2
      <4> QED BY <4>1
    <3> QED BY <3>1, <3>2
  <2> QED BY <2>1 DEF Honest
<1> QED BY <1>3 DEF r

LEMMA HonestDamaged ==
  ASSUME NEW X, NEW h \in Seq(X), NEW c, Honest(h, c), h # <<>>
  PROVE  Honest(<<[cmd |-> "corrupt"]>> \o Tail(h), c)
<1> DEFINE e == [cmd |-> "corrupt"]
           r == <<e>> \o Tail(h)
<1>1. e.cmd = "corrupt"
  OBVIOUS
<1> HIDE DEF e
<1>2. /\ Len(h) \in Nat /\ Len(r) = Len(h) /\ r[1] = e
      /\ \A n \in 1 .. Len(h) : n # 1 => r[n] = h[n]
  <2>1. Tail(h) \in Seq(X) /\ Len(Tail(h)) = Len(h) - 1 /\ \A n \in 1 .. Len(h) - 1 : Tail(h)[n] = h[n + 1]
    OBVIOUS
  <2>2. <<e>> \in Seq({e}) /\ Len(<<e>>) = 1 /\ <<e>>[1] = e
    OBVIOUS
  <2>3. Len(r) = 1 + (Len(h) - 1) /\ \A n \in 1 .. Len(r) : r[n] = IF n <= 1 THEN e ELSE Tail(h)[n - 1]
    BY <2>1, <2>2
  <2> HIDE DEF r
  <2> QED BY <2>1, <2>3
<1> HIDE DEF r
<1>3. Honest(r, c)
  BY <1>1, <1>2 DEF Honest
<1> QED BY <1>3 DEF r, e

\* One reply less, or one frame less
LEMMA LoseFrameStep == ASSUME UpdaterInv, LoseFrame PROVE UpdaterInv'
<1>1. /\ toDevice # <<>> /\ toDevice' = Tail(toDevice)
      /\ UNCHANGED <<host, toHost, device, happened, image>>
  BY DEF LoseFrame
<1>2. HostShape(host)
  BY DEF UpdaterInv
<1>3. host.channel => Live(image, host, toDevice', toHost, device, happened)
  BY <1>1, LiveFrameGone DEF UpdaterInv
<1>4. LongCode /\ host.channel => Honest(toHost, happened)
  BY DEF UpdaterInv
<1> QED BY <1>1, <1>2, <1>3, <1>4, Carried

LEMMA LoseReplyStep == ASSUME UpdaterInv, LoseReply PROVE UpdaterInv'
<1>1. /\ toHost # <<>> /\ toHost' = Tail(toHost) /\ happened \subseteq happened'
      /\ UNCHANGED <<host, toDevice, device, image>>
  BY DEF LoseReply
<1>2. HostShape(host)
  BY DEF UpdaterInv
<1>3. ASSUME host.channel
      PROVE  /\ Live(image, host, toDevice, toHost', device, happened')
             /\ LongCode => Honest(toHost', happened')
  <2>1. Live(image, host, toDevice, toHost, device, happened)
    BY <1>3 DEF UpdaterInv
  <2>2. PICK Y : toHost \in Seq(Y)
    BY <2>1, LiveLists
  <2>3. toHost' = SubSeq(toHost, 1 + 1, Len(toHost)) /\ 1 \in 0 .. Len(toHost)
    BY <1>1, <2>2, TailIsRest
  <2>4. Live(image, host, toDevice, SubSeq(toHost, 1 + 1, Len(toHost)), device, happened)
    BY <2>1, <2>3, LiveRepliesGone
  <2>5. Live(image, host, toDevice, toHost', device, happened')
    BY <1>1, <2>3, <2>4, LiveLater, Zenon
  <2>6. LongCode => Honest(SubSeq(toHost, 1 + 1, Len(toHost)), happened')
    BY <1>1, <1>3, <2>2, <2>3, HonestRest DEF UpdaterInv
  <2> QED BY <2>3, <2>5, <2>6, Zenon
<1> QED BY <1>1, <1>2, <1>3, Carried

LEMMA CorruptReplyStep ==
  ASSUME SlicesListed, NumbersFit, UpdaterInv, CorruptReply PROVE UpdaterInv'
<1>1. /\ toHost # <<>> /\ toHost' = <<[cmd |-> "corrupt"]>> \o Tail(toHost)
      /\ UNCHANGED <<host, toDevice, device, happened, image>>
  BY DEF CorruptReply
<1>2. HostShape(host) /\ image \in Images
  BY DEF UpdaterInv
<1>3. ASSUME host.channel
      PROVE  /\ Live(image, host, toDevice, toHost', device, happened)
             /\ LongCode => Honest(toHost', happened)
  <2>1. Live(image, host, toDevice, toHost, device, happened)
    BY <1>3 DEF UpdaterInv
  <2>2. PICK Y : toHost \in Seq(Y)
    BY <2>1, LiveLists
  <2>3. Live(image, host, toDevice, <<[cmd |-> "corrupt"]>> \o Tail(toHost), device, happened)
    BY <1>1, <1>2, <2>1, LiveDamaged
  <2>4. LongCode => Honest(<<[cmd |-> "corrupt"]>> \o Tail(toHost), happened)
    BY <1>1, <1>3, <2>2, HonestDamaged DEF UpdaterInv
  <2> QED BY <1>1, <2>3, <2>4, Zenon
<1> QED BY <1>1, <1>2, <1>3, Carried

\* Nothing that happened is forgotten.
LEMMA DeviceRemembers ==
  ASSUME DeviceStep PROVE happened \subseteq happened' /\ UNCHANGED <<host, image>>
<1> DEFINE f == Head(toDevice)
<1>1. DeviceEnter(f) \/ DeviceQuery(f) \/ DeviceSlice(f) \/ DeviceQuit(f) \/ DeviceIgnore(f)
  BY DEF DeviceStep
<1> HIDE DEF f
<1>2. \A s : Blame(s) => happened \subseteq happened'
  BY DEF Blame
<1>3. DeviceEnter(f) => happened \subseteq happened'
  BY <1>2 DEF DeviceEnter
<1>4. DeviceQuery(f) => happened \subseteq happened'
  BY <1>2 DEF DeviceQuery
<1>5. DeviceSlice(f) => happened \subseteq happened'
  BY <1>2 DEF DeviceSlice
<1>6. DeviceQuit(f) => happened \subseteq happened'
  BY <1>2 DEF DeviceQuit
<1>7. DeviceIgnore(f) => happened \subseteq happened'
  BY DEF DeviceIgnore
<1>8. UNCHANGED <<host, image>>
  BY DEF DeviceStep
<1> QED BY <1>1, <1>3, <1>4, <1>5, <1>6, <1>7, <1>8

\* The device serves the first frame.
LEMMA ServedLive ==
  ASSUME SlicesListed, NumbersFit, NEW i \in Images, NEW u, NEW g, NEW h, NEW d, NEW e, NEW c, NEW b, NEW m,
         Live(i, u, g, h, d, c), g # <<>>, Served(i, Head(g), d, e, c, b, m)
  PROVE  /\ Live(i, u, Tail(g), Append(h, m), e, b)
         /\ LongCode => m.cmd = "corrupt" \/ m.status = "ok" \/ Blamed(b)
<1>1. DeviceShape(e)
  BY DEF Served
<1>2. PICK X, Y : g \in Seq(X) /\ h \in Seq(Y)
  BY LiveLists
<1>3. Head(g) = g[1]
  BY <1>2, TailIsRest
<1>4. CASE u.started /\ Stuck(u, g, h)
  <2> DEFINE F == SideFrames \cup StuckFrames
             R == SideReplies \cup StuckReplies
  <2>1. g \in Seq(F) /\ h \in Seq(R) /\ ~LongCode
    BY <1>4 DEF Stuck
  <2>2. g[1] \in F /\ Tail(g) \in Seq(F)
    <3> HIDE DEF F
    <3> QED BY <2>1, TailIsRest
  <2>3. m \in R
    BY <1>3, <2>2 DEF Served
  <2>4. Append(h, m) \in Seq(R)
    <3> HIDE DEF R
    <3> QED BY <2>1, <2>3
  <2>5. Stuck(u, Tail(g), Append(h, m))
    BY <1>4, <2>2, <2>4 DEF Stuck
  <2> QED BY <1>1, <1>4, <2>1, <2>5 DEF Live
<1>5. CASE ~u.started
  <2>1. Idle(u, g, h)
    BY <1>5 DEF Live
  <2>2. g \in Seq(SideFrames) /\ h \in Seq(SideReplies)
    BY <2>1 DEF Idle
  <2>3. g[1] \in SideFrames /\ Tail(g) \in Seq(SideFrames)
    BY <2>2, TailIsRest
  <2>4. m \in SideReplies /\ (m.status = "ok" \/ Blamed(b))
    BY <1>3, <2>3 DEF Served
  <2>5. Append(h, m) \in Seq(SideReplies)
    BY <2>2, <2>4
  <2>6. Idle(u, Tail(g), Append(h, m))
    BY <2>1, <2>3, <2>5 DEF Idle
  <2> QED BY <1>1, <1>5, <2>4, <2>6 DEF Live
<1>6. CASE u.started /\ \E k \in 0 .. LastStage(i) : InStage(i, u, g, h, d, c, k)
  <2>1. PICK k \in 0 .. LastStage(i) : InStage(i, u, g, h, d, c, k)
    BY <1>6
  <2>2. Served(i, g[1], d, e, c, b, m)
    BY <1>3
  <2>3. /\ InStage(i, u, Tail(g), Append(h, m), e, b, k)
        /\ m.cmd # "corrupt" => m.status = "ok" \/ Blamed(b)
    BY <2>1, <2>2, ServedInStage
  <2> QED BY <1>1, <1>6, <2>3 DEF Live
<1> QED BY <1>4, <1>5, <1>6 DEF Live

LEMMA DeviceStepStep ==
  ASSUME SlicesListed, NumbersFit, UpdaterInv, DeviceStep PROVE UpdaterInv'
<1>1. happened \subseteq happened' /\ host' = host /\ image' = image
  BY DeviceRemembers
<1>2. HostShape(host) /\ image \in Images
  BY DEF UpdaterInv
<1>3. ASSUME host.channel
      PROVE  /\ Live(image, host, toDevice', toHost', device', happened')
             /\ LongCode => Honest(toHost', happened')
  <2>1. Live(image, host, toDevice, toHost, device, happened) /\ (LongCode => Honest(toHost, happened))
    BY <1>3 DEF UpdaterInv
  <2>2. DeviceShape(device)
    BY <2>1 DEF Live
  <2>3. PICK Y : toHost \in Seq(Y)
    BY <2>1, LiveLists
  <2>4. /\ toDevice # <<>> /\ toDevice' = Tail(toDevice)
        /\ \/ toHost' = toHost /\ device' = device /\ happened' = happened
           \/ \E m : /\ toHost' = Append(toHost, m)
                     /\ Served(image, Head(toDevice), device, device', happened, happened', m)
    BY <1>2, <2>2, DeviceServes
  <2>5. CASE toHost' = toHost /\ device' = device /\ happened' = happened
    BY <2>1, <2>4, <2>5, LiveFrameGone
  <2>6. CASE \E m : /\ toHost' = Append(toHost, m)
                    /\ Served(image, Head(toDevice), device, device', happened, happened', m)
    <3>1. PICK m : /\ toHost' = Append(toHost, m)
                   /\ Served(image, Head(toDevice), device, device', happened, happened', m)
      BY <2>6
    <3>2. /\ Live(image, host, Tail(toDevice), Append(toHost, m), device', happened')
          /\ LongCode => m.cmd = "corrupt" \/ m.status = "ok" \/ Blamed(happened')
      BY <1>2, <2>1, <2>4, <3>1, ServedLive
    <3>3. LongCode => Honest(Append(toHost, m), happened')
      BY <1>1, <2>1, <2>3, <3>2, HonestMore
    <3> QED BY <2>4, <3>1, <3>2, <3>3, Zenon
  <2> QED BY <2>4, <2>5, <2>6
<1> QED BY <1>1, <1>2, <1>3, Carried

\* Frames are sent: the update frame, or some that belong to no stage.
LEMMA LiveSent ==
  ASSUME SlicesListed, NEW i \in Images, NEW u, NEW g, NEW h, NEW d, NEW c, Live(i, u, g, h, d, c), NEW r,
         r \in Seq(SideFrames) \/ (u.last # NoFrame /\ r = <<u.last>>)
  PROVE  Live(i, u, g \o r, h, d, c)
<1>1. CASE u.started /\ Stuck(u, g, h)
  <2> DEFINE F == SideFrames \cup StuckFrames
  <2>1. g \in Seq(F) /\ u.last \in F /\ SideFrames \subseteq F
    BY <1>1 DEF Stuck
  <2>2. r \in Seq(F)
    <3> HIDE DEF F
    <3>1. CASE r \in Seq(SideFrames)
      BY <2>1, <3>1, SeqMonotonic
    <3>2. CASE r = <<u.last>>
      BY <2>1, <3>2
    <3> QED BY <3>1, <3>2
  <2>3. g \o r \in Seq(F)
    <3> HIDE DEF F
    <3> QED BY <2>1, <2>2
  <2>4. Stuck(u, g \o r, h)
    BY <1>1, <2>3 DEF Stuck
  <2> QED BY <1>1, <2>4 DEF Live
<1>2. CASE ~u.started
  <2>1. Idle(u, g, h)
    BY <1>2 DEF Live
  <2>2. g \in Seq(SideFrames) /\ r \in Seq(SideFrames)
    BY <2>1 DEF Idle
  <2>3. g \o r \in Seq(SideFrames)
    BY <2>2
  <2>4. Idle(u, g \o r, h)
    BY <2>1, <2>3 DEF Idle
  <2> QED BY <1>2, <2>4 DEF Live
<1>3. CASE u.started /\ \E k \in 0 .. LastStage(i) : InStage(i, u, g, h, d, c, k)
  <2>1. PICK k \in 0 .. LastStage(i) : InStage(i, u, g, h, d, c, k)
    BY <1>3
  <2> DEFINE F == SideFrames \cup FramesAt(i, k)
  <2>2. u.last \in F /\ SideFrames \subseteq F
    <3>1. u.last = FrameAt(i, k)
      BY <2>1 DEF InStage, HostAt
    <3>2. ~(k < 0)
      BY StageIsInt
    <3>3. FramesAt(i, k) = {FrameAt(i, k)}
      BY <3>2 DEF FramesAt
    <3> QED BY <3>1, <3>3
  <2>3. r \in Seq(F)
    <3> HIDE DEF F
    <3>1. CASE r \in Seq(SideFrames)
      BY <2>2, <3>1, SeqMonotonic
    <3>2. CASE r = <<u.last>>
      BY <2>2, <3>2
    <3> QED BY <3>1, <3>2
  <2>4. InStage(i, u, g \o r, h, d, c, k)
    BY <2>1, <2>3, FramesSent
  <2> QED BY <1>3, <2>4 DEF Live
<1> QED BY <1>1, <1>2, <1>3 DEF Live

LEMMA OnWriteStep ==
  ASSUME SlicesListed, UpdaterInv, OnWrite PROVE UpdaterInv'
<1> DEFINE r == IF host.list # <<>> THEN host.list
                ELSE IF host.last # NoFrame /\ ~host.timer THEN <<host.last>> ELSE <<>>
           w == Written(host)
<1>1. /\ host.channel /\ toDevice' = toDevice \o r
      /\ host' = [w EXCEPT !.writing = ~(w.timer \/ w.last = NoFrame)]
      /\ UNCHANGED <<image, toHost, device, happened>>
  BY DEF OnWrite, env
<1>2. /\ image \in Images /\ HostShape(host) /\ Live(image, host, toDevice, toHost, device, happened)
      /\ LongCode => Honest(toHost, happened)
  BY <1>1 DEF UpdaterInv
<1>3. Kept(host, host') /\ host'.quitStatus = host.quitStatus
  <2>1. <<>> \in Seq(SideFrames)
    OBVIOUS
  <2>2. Kept(host, w) /\ w.quitStatus = host.quitStatus
    BY <1>2, <2>1 DEF Written, Kept, HostShape
  <2> HIDE DEF w
  <2> DEFINE x == ~(w.timer \/ w.last = NoFrame)
  <2>3. host' = [w EXCEPT !.writing = x]
    BY <1>1
  <2> HIDE DEF x
  <2> QED BY <2>2, <2>3 DEF Kept, HostShape
<1>4. r \in Seq(SideFrames) \/ (host.last # NoFrame /\ r = <<host.last>>)
  <2>1. host.list \in Seq(SideFrames) /\ <<>> \in Seq(SideFrames)
    BY <1>2 DEF HostShape
  <2> QED BY <2>1
<1> HIDE DEF r, w
<1>5. Live(image, host, toDevice', toHost, device, happened)
  BY <1>1, <1>2, <1>4, LiveSent
<1>6. Live(image, host', toDevice', toHost, device, happened)
  BY <1>3, <1>5, KeptLive
<1>7. HostShape(host')
  BY <1>3 DEF Kept
<1> QED BY <1>1, <1>2, <1>3, <1>6, <1>7, Carried

\* The channel is closed.
LEMMA ReleasedHost ==
  ASSUME NEW u, HostShape(u), u.channel
  PROVE  /\ HostShape(Release(u)) /\ ~Release(u).channel /\ Release(u).quitStatus = u.quitStatus
         /\ HostShape(Notify(Release(u))) /\ ~Notify(Release(u)).channel
         /\ Notify(Release(u)).quitStatus = u.quitStatus
<1>1. <<>> \in Seq(SideFrames)
  OBVIOUS
<1>2. HostShape(Release(u)) /\ ~Release(u).channel /\ Release(u).quitStatus = u.quitStatus
  BY <1>1 DEF HostShape, Release
<1> DEFINE v == Release(u)
           x == IF v.notified = 2 THEN 2 ELSE v.notified + 1
<1> HIDE DEF v, x
<1>3. Notify(v) = [v EXCEPT !.notified = x]
  BY DEF Notify, x
<1>4. HostShape(Notify(v)) /\ ~Notify(v).channel /\ Notify(v).quitStatus = u.quitStatus
  BY <1>2, <1>3 DEF HostShape, v
<1> QED BY <1>2, <1>4 DEF v

LEMMA PeerResetStep == ASSUME UpdaterInv, PeerReset PROVE UpdaterInv'
<1>1. host.channel /\ host' = Notify(Release(host)) /\ UNCHANGED <<image, happened>>
  BY DEF PeerReset
<1>2. HostShape(host') /\ ~host'.channel /\ host'.quitStatus = host.quitStatus
  BY <1>1, ReleasedHost DEF UpdaterInv
<1> QED BY <1>1, <1>2, Carried

\* A channel that is opened again starts from ENTER with an empty link.
LEMMA ReloadStep ==
  ASSUME SlicesListed, NumbersFit, FreshLink, UpdaterInv, Reload PROVE UpdaterInv'
<1>1. /\ host.channel /\ toDevice' = <<>> /\ toHost' = <<>> /\ UNCHANGED <<image, device, happened>>
      /\ \/ host.started /\ host' = RequestEnter([Release(host) EXCEPT !.channel = TRUE])
         \/ host' = Notify(Release(host))
         \/ host' = Release(host)
  BY DEF Reload, FreshLink
<1>2. image \in Images /\ HostShape(host) /\ DeviceShape(device)
  BY <1>1 DEF UpdaterInv, Live
<1>3. CASE host' = Notify(Release(host)) \/ host' = Release(host)
  <2>1. HostShape(host') /\ ~host'.channel /\ host'.quitStatus = host.quitStatus
    BY <1>1, <1>2, <1>3, ReleasedHost
  <2> QED BY <1>1, <2>1, Carried
<1>4. CASE host.started /\ host' = RequestEnter([Release(host) EXCEPT !.channel = TRUE])
  <2>1. /\ HostShape(host') /\ host'.started /\ host'.quitStatus = host.quitStatus
        /\ host'.last = [cmd |-> "ENTER"] /\ host'.seq = -2 /\ host'.type = "VECTOR"
    <3> DEFINE v == Release(host)
    <3>1. HostShape(v) /\ v.quitStatus = host.quitStatus
      BY <1>1, <1>2, ReleasedHost
    <3> HIDE DEF v
    <3>2. host' = RequestEnter([v EXCEPT !.channel = TRUE])
      BY <1>4 DEF v
    <3> QED BY <3>1, <3>2 DEF HostShape, RequestEnter, SendUpdate
  <2>2. toDevice' \in Seq(SideFrames) /\ toHost' \in Seq(SideReplies)
    BY <1>1
  <2>3. Live(image, host', toDevice', toHost', device, happened)
    BY <1>2, <2>1, <2>2, EnterStage
  <2>4. Honest(toHost', happened)
    <3>1. Len(toHost') = 0
      BY <1>1
    <3> QED BY <3>1 DEF Honest
  <2> QED BY <1>1, <2>1, <2>3, <2>4, Carried
<1> QED BY <1>1, <1>3, <1>4

-----------------------------------------------------------------------------
(* Reading *)

\* What has run out stays so.
LEMMA ReadStuck ==
  ASSUME NumbersFit, NEW u, HostShape(u), u.seq = -1, u.type = "CODE", NEW m \in StuckReplies
  PROVE  LET v == HandleFrame(u, m)
         IN Kept(u, v) /\ (v.quitStatus = u.quitStatus \/ v.quitStatus = "ROLLBACK")
<1> DEFINE v == HandleFrame(u, m)
           w == UploadSlice(u)
<1>1. \/ m.cmd = "SEGMENT"
      \/ m.cmd \in Types /\ m.no = 0
  BY DEF StuckReplies
<1>2. CASE m.cmd = "SEGMENT"
  <2>1. Kept(u, w) /\ w.quitStatus = "ROLLBACK"
    BY UploadPast
  <2>2. HostShape(w)
    BY <2>1 DEF Kept
  <2>3. \/ /\ m.status = "ok" /\ HostShape(v) /\ v.started = w.started /\ v.channel = w.channel
           /\ v.quitStatus = w.quitStatus /\ v.last = w.last /\ v.seq = w.seq /\ v.type = w.type
        \/ m.status # "ok" /\ Kept(u, v) /\ Provoked(u, v, m)
    BY <1>2, <2>2, ReadSegment
  <2> HIDE DEF v, w
  <2>4. Kept(u, v) /\ (v.quitStatus = u.quitStatus \/ v.quitStatus = "ROLLBACK")
    BY <2>1, <2>3 DEF Kept, Provoked
  <2> QED BY <2>4 DEF v
<1>3. CASE m.cmd \in Types /\ m.no = 0
  <2>1. (-1) % SeqWidth # 0
    <3>1. SeqWidth \in Nat /\ SeqWidth > 1
      BY UpdaterAssumption DEF NumbersFit
    <3> QED BY <3>1, ModMinus
  <2>2. m.no # u.seq % SeqWidth
    BY <1>3, <2>1
  <2>3. Kept(u, v) /\ Provoked(u, v, m)
    BY <1>3, <2>2, ReadUpload
  <2> HIDE DEF v
  <2>4. v.quitStatus = u.quitStatus \/ v.quitStatus = "ROLLBACK"
    BY <2>3 DEF Provoked
  <2> QED BY <2>3, <2>4 DEF v
<1> QED BY <1>1, <1>2, <1>3

\* All that is under way in a stage
LEMMA StageLists ==
  ASSUME NEW i, NEW u, NEW g, NEW h, NEW d, NEW c, NEW k, InStage(i, u, g, h, d, c, k)
  PROVE  /\ g \in Seq(SideFrames \cup FramesAt(i, k - 1) \cup FramesAt(i, k))
         /\ h \in Seq(SideReplies \cup RepliesAt(i, k - 1) \cup RepliesAt(i, k))
<1> DEFINE F == SideFrames \cup FramesAt(i, k - 1) \cup FramesAt(i, k)
           R == SideReplies \cup RepliesAt(i, k - 1) \cup RepliesAt(i, k)
           G == SideFrames \cup FramesAt(i, k)
           Q == SideReplies \cup RepliesAt(i, k - 1)
<1>1. (g \in Seq(F) /\ h \in Seq(Q)) \/ (g \in Seq(G) /\ h \in Seq(R))
  BY DEF InStage, Behind, Abreast
<1>2. Q \subseteq R /\ G \subseteq F
  OBVIOUS
<1>3. g \in Seq(F) /\ h \in Seq(R)
  <2> HIDE DEF F, G, Q, R
  <2> QED BY <1>1, <1>2, SeqMonotonic
<1> QED BY <1>3

\* What the first reply makes of the host
Taken(u, v, g, h, d, c) ==
  /\ HostShape(v) /\ v.channel = u.channel /\ Live(image, v, g, h, d, c)
  /\ \/ v.quitStatus = u.quitStatus
     \/ v.quitStatus = "SUCCESS" /\ "complete" \in c
     \/ v.quitStatus = "ROLLBACK" /\ (LongCode => h[1].status # "ok")

LEMMA TakenKept ==
  ASSUME NEW u, NEW v, NEW g, NEW h, NEW d, NEW c, Live(image, u, g, h, d, c), Kept(u, v), Provoked(u, v, h[1])
  PROVE  Taken(u, v, g, h, d, c)
<1>1. Live(image, v, g, h, d, c)
  BY KeptLive
<1> QED BY <1>1 DEF Taken, Kept, Provoked

\* The reply belongs to the stage before.
LEMMA TakenEarlier ==
  ASSUME SlicesListed, NumbersFit, image \in Images, NEW k \in 0 .. LastStage(image),
         NEW u, HostShape(u), u.started, NEW g, NEW h, NEW d, DeviceShape(d), NEW c,
         InStage(image, u, g, h, d, c, k), h[1] \in RepliesAt(image, k - 1)
  PROVE  Taken(u, HandleFrame(u, h[1]), g, h, d, c)
<1> DEFINE v == HandleFrame(u, h[1])
<1>1. HostAt(image, u, k)
  BY DEF InStage
<1>2. \/ Placed(u, v, k) /\ Provoked(u, v, h[1])
      \/ /\ k > 3 /\ Cmd(image, k - 1) = "VECTOR" /\ Cmd(image, k) = "CODE"
         /\ Size(image, "VECTOR") > 0 /\ Size(image, "CODE") = 1
         /\ SeqAt(image, k - 1) = 0 /\ SeqAt(image, k) = 0 /\ RunOut(u, v)
  BY <1>1, ReadEarlier
<1> HIDE DEF v
<1>3. CASE Placed(u, v, k) /\ Provoked(u, v, h[1])
  <2>1. InStage(image, v, g, h, d, c, k)
    BY <1>3 DEF InStage, Placed
  <2>2. v.started /\ HostShape(v) /\ v.channel = u.channel
    BY <1>3 DEF Placed
  <2>3. Live(image, v, g, h, d, c)
    BY <2>1, <2>2 DEF Live
  <2>4. v.quitStatus = u.quitStatus \/ (v.quitStatus = "ROLLBACK" /\ h[1].status # "ok")
    BY <1>3 DEF Provoked
  <2> QED BY <2>2, <2>3, <2>4 DEF Taken, v
<1>4. CASE /\ k > 3 /\ Size(image, "VECTOR") > 0 /\ Size(image, "CODE") = 1
           /\ SeqAt(image, k - 1) = 0 /\ SeqAt(image, k) = 0 /\ RunOut(u, v)
  <2>1. k \in 2 .. LastStage(image) /\ k - 1 \in 2 .. LastStage(image)
    BY <1>4, StageIsInt
  <2>2. /\ FrameAt(image, k) \in StuckFrames /\ FramesAt(image, k) \subseteq StuckFrames
        /\ RepliesAt(image, k) \subseteq StuckReplies
    BY <1>4, <2>1, StuckStage
  <2>3. FramesAt(image, k - 1) \subseteq StuckFrames /\ RepliesAt(image, k - 1) \subseteq StuckReplies
    BY <1>4, <2>1, StuckStage
  <2> DEFINE F == SideFrames \cup FramesAt(image, k - 1) \cup FramesAt(image, k)
             R == SideReplies \cup RepliesAt(image, k - 1) \cup RepliesAt(image, k)
             SF == SideFrames \cup StuckFrames
             SR == SideReplies \cup StuckReplies
  <2>4. g \in Seq(F) /\ h \in Seq(R)
    BY StageLists
  <2>5. F \subseteq SF /\ R \subseteq SR
    BY <2>2, <2>3
  <2>6. g \in Seq(SF) /\ h \in Seq(SR)
    <3> HIDE DEF F, R, SF, SR
    <3> QED BY <2>4, <2>5, SeqMonotonic
  <2>7. ~LongCode
    <3>1. ~(Size(image, "CODE") > 1) /\ Size(image, "VECTOR") # 0
      BY <1>4
    <3> QED BY <3>1 DEF LongCode, Size
  <2>8. v.seq = -1 /\ v.type = "CODE" /\ v.last \in StuckFrames
    BY <1>1, <1>4, <2>2 DEF RunOut, HostAt
  <2>9. Stuck(v, g, h)
    BY <2>6, <2>7, <2>8 DEF Stuck
  <2>10. v.started /\ HostShape(v) /\ v.channel = u.channel /\ v.quitStatus = "ROLLBACK"
    BY <1>4 DEF RunOut
  <2> QED BY <2>7, <2>9, <2>10 DEF Taken, Live, v
<1> QED BY <1>2, <1>3, <1>4

\* The reply belongs to the stage.
LEMMA TakenCurrent ==
  ASSUME SlicesListed, NumbersFit, image \in Images, NEW k \in 0 .. LastStage(image),
         NEW u, HostShape(u), u.started, NEW g, NEW h, h # <<>>, NEW d, DeviceShape(d), NEW c,
         InStage(image, u, g, h, d, c, k), h[1] \in RepliesAt(image, k)
  PROVE  Taken(u, HandleFrame(u, h[1]), g, h, d, c)
<1> DEFINE v == HandleFrame(u, h[1])
<1>1. HostAt(image, u, k)
  BY DEF InStage
<1>2. \/ Placed(u, v, k) /\ Provoked(u, v, h[1])
      \/ h[1].status = "ok" /\ k < LastStage(image) /\ Placed(u, v, k + 1) /\ v.quitStatus = u.quitStatus
      \/ h[1].status = "ok" /\ k > 2 /\ k = LastStage(image) /\ Placed(u, v, k) /\ v.quitStatus = "SUCCESS"
      \/ /\ h[1].status = "ok" /\ k >= 2 /\ k = LastStage(image) /\ Size(image, "CODE") = 0
         /\ RunOut(u, v)
  BY <1>1, ReadCurrent
<1>3. /\ h \in Seq(SideReplies \cup RepliesAt(image, k)) /\ g \in Seq(SideFrames \cup FramesAt(image, k))
      /\ h[1].status = "ok" => (k > 2 /\ k = LastStage(image) => "complete" \in c)
  BY StageTurned
<1> HIDE DEF v
<1>4. CASE Placed(u, v, k) /\ (Provoked(u, v, h[1]) \/ (v.quitStatus = "SUCCESS" /\ "complete" \in c))
  <2>1. InStage(image, v, g, h, d, c, k)
    BY <1>4 DEF InStage, Placed
  <2>2. v.started /\ HostShape(v) /\ v.channel = u.channel
    BY <1>4 DEF Placed
  <2>3. Live(image, v, g, h, d, c)
    BY <2>1, <2>2 DEF Live
  <2> QED BY <1>4, <2>2, <2>3 DEF Taken, Provoked, v
<1>5. CASE h[1].status = "ok" /\ k < LastStage(image) /\ Placed(u, v, k + 1) /\ v.quitStatus = u.quitStatus
  <2>1. HostAt(image, v, k + 1) /\ v.started /\ HostShape(v) /\ v.channel = u.channel
    BY <1>5 DEF Placed
  <2>2. InStage(image, v, g, h, d, c, k + 1)
    BY <1>5, <2>1, StageAdvance
  <2>3. k + 1 \in 0 .. LastStage(image)
    BY <1>5, StageIsInt
  <2>4. Live(image, v, g, h, d, c)
    BY <2>1, <2>2, <2>3 DEF Live
  <2> QED BY <1>5, <2>1, <2>4 DEF Taken, v
<1>6. CASE k >= 2 /\ k = LastStage(image) /\ Size(image, "CODE") = 0 /\ RunOut(u, v)
  <2>1. k \in 2 .. LastStage(image) /\ (k = 2 \/ k \in 3 .. LastStage(image))
    BY <1>6, StageIsInt
  <2>2. k = 2 \/ SeqAt(image, k) = 0
    BY <1>6, <2>1, FinalSlice
  <2>3. /\ FrameAt(image, k) \in StuckFrames /\ FramesAt(image, k) \subseteq StuckFrames
        /\ RepliesAt(image, k) \subseteq StuckReplies
    BY <2>1, <2>2, StuckStage
  <2> DEFINE F == SideFrames \cup FramesAt(image, k)
             R == SideReplies \cup RepliesAt(image, k)
             SF == SideFrames \cup StuckFrames
             SR == SideReplies \cup StuckReplies
  <2>4. F \subseteq SF /\ R \subseteq SR
    BY <2>3
  <2>5. g \in Seq(SF) /\ h \in Seq(SR)
    <3>1. g \in Seq(F) /\ h \in Seq(R)
      BY <1>3
    <3> HIDE DEF F, R, SF, SR
    <3> QED BY <2>4, <3>1, SeqMonotonic
  <2>6. ~LongCode
    <3>1. ~(Size(image, "CODE") > 1) /\ Size(image, "CODE") # 1
      BY <1>6
    <3> QED BY <3>1 DEF LongCode, Size
  <2>7. v.seq = -1 /\ v.type = "CODE" /\ v.last \in StuckFrames
    BY <1>1, <1>6, <2>3 DEF RunOut, HostAt
  <2>8. Stuck(v, g, h)
    BY <2>5, <2>6, <2>7 DEF Stuck
  <2>9. v.started /\ HostShape(v) /\ v.channel = u.channel /\ v.quitStatus = "ROLLBACK"
    BY <1>6 DEF RunOut
  <2> QED BY <2>6, <2>8, <2>9 DEF Taken, Live, v
<1> QED BY <1>2, <1>3, <1>4, <1>5, <1>6

LEMMA TakenLive ==
  ASSUME SlicesListed, NumbersFit, image \in Images, NEW u, HostShape(u), NEW g, NEW h, NEW d, NEW c,
         Live(image, u, g, h, d, c), h # <<>>, h[1].cmd # "corrupt"
  PROVE  Taken(u, HandleFrame(u, h[1]), g, h, d, c)
<1> DEFINE v == HandleFrame(u, h[1])
<1>1. DeviceShape(d)
  BY DEF Live
<1>2. CASE h[1] \in SideReplies
  <2>1. Kept(u, v) /\ Provoked(u, v, h[1])
    BY <1>2, ReadSide
  <2> HIDE DEF v
  <2> QED BY <2>1, TakenKept DEF v
<1>3. CASE ~u.started
  <2>1. h \in Seq(SideReplies)
    BY <1>3 DEF Live, Idle
  <2>2. h[1] \in SideReplies
    BY <2>1
  <2> QED BY <1>2, <2>2
<1>4. CASE u.started /\ Stuck(u, g, h) /\ h[1] \notin SideReplies
  <2> DEFINE R == SideReplies \cup StuckReplies
  <2>1. h \in Seq(R) /\ u.seq = -1 /\ u.type = "CODE" /\ ~LongCode
    BY <1>4 DEF Stuck
  <2>2. h[1] \in R
    <3> HIDE DEF R
    <3> QED BY <2>1
  <2>3. Kept(u, v) /\ (v.quitStatus = u.quitStatus \/ v.quitStatus = "ROLLBACK")
    BY <1>4, <2>1, <2>2, ReadStuck
  <2> HIDE DEF v
  <2>4. Live(image, v, g, h, d, c)
    BY <2>3, KeptLive
  <2> QED BY <2>1, <2>3, <2>4 DEF Taken, Kept, v
<1>5. CASE /\ u.started /\ h[1] \notin SideReplies
           /\ \E k \in 0 .. LastStage(image) : InStage(image, u, g, h, d, c, k)
  <2>1. PICK k \in 0 .. LastStage(image) : InStage(image, u, g, h, d, c, k)
    BY <1>5
  <2> DEFINE R == SideReplies \cup RepliesAt(image, k - 1) \cup RepliesAt(image, k)
  <2>2. h \in Seq(R)
    BY <2>1, StageLists
  <2>3. h[1] \in R
    <3> HIDE DEF R
    <3> QED BY <2>2
  <2>4. CASE h[1] \in RepliesAt(image, k - 1)
    BY <1>1, <1>5, <2>1, <2>4, TakenEarlier
  <2>5. CASE h[1] \in RepliesAt(image, k)
    BY <1>1, <1>5, <2>1, <2>5, TakenCurrent
  <2> QED BY <1>5, <2>3, <2>4, <2>5
<1> QED BY <1>2, <1>3, <1>4, <1>5 DEF Live

\* The first reply is handled and the first n leave.
LEMMA OnReadStep ==
  ASSUME SlicesListed, NumbersFit, UpdaterInv, NEW n \in Nat, OnRead(n) PROVE UpdaterInv'
<1> DEFINE r == SubSeq(toHost, n + 1, Len(toHost))
<1>1. /\ host.channel /\ n \in 1 .. Len(toHost) /\ toHost' = r /\ happened \subseteq happened'
      /\ UNCHANGED <<image, toDevice, device>>
  BY DEF OnRead, env
<1>2. /\ image \in Images /\ HostShape(host) /\ Live(image, host, toDevice, toHost, device, happened)
      /\ LongCode => Honest(toHost, happened)
  BY <1>1 DEF UpdaterInv
<1>3. PICK Y : toHost \in Seq(Y)
  BY <1>2, LiveLists
<1>4. Len(toHost) \in Nat /\ n \in 0 .. Len(toHost) /\ 1 \in 1 .. Len(toHost) /\ toHost # <<>>
  BY <1>1, <1>3
<1>5. LongCode => Honest(toHost', happened')
  BY <1>1, <1>2, <1>3, <1>4, HonestRest
<1>6. ASSUME NEW v, Live(image, v, toDevice, toHost, device, happened)
      PROVE  Live(image, v, toDevice, toHost', device, happened')
  <2>1. Live(image, v, toDevice, r, device, happened)
    BY <1>4, <1>6, LiveRepliesGone
  <2> HIDE DEF r
  <2> QED BY <1>1, <2>1, LiveLater
<1> HIDE DEF r
<1>7. CASE host' = [host EXCEPT !.garbage = TRUE]
  <2>1. Kept(host, host') /\ host'.quitStatus = host.quitStatus
    BY <1>2, <1>7 DEF Kept, HostShape
  <2>2. HostShape(host') /\ host'.channel
    BY <1>1, <2>1 DEF Kept
  <2>3. Live(image, host', toDevice, toHost, device, happened)
    BY <1>2, <2>1, KeptLive
  <2>4. Live(image, host', toDevice, toHost', device, happened')
    BY <1>6, <2>3
  <2> QED BY <1>1, <1>5, <2>1, <2>2, <2>4, Carried
<1>8. CASE host' = HandleFrame(host, toHost[1]) /\ toHost[1].cmd # "corrupt"
  <2>1. Taken(host, host', toDevice, toHost, device, happened)
    BY <1>2, <1>4, <1>8, TakenLive
  <2>2. /\ HostShape(host') /\ host'.channel
        /\ Live(image, host', toDevice, toHost, device, happened)
        /\ \/ host'.quitStatus = host.quitStatus
           \/ host'.quitStatus = "SUCCESS" /\ "complete" \in happened
           \/ host'.quitStatus = "ROLLBACK" /\ (LongCode => toHost[1].status # "ok")
    BY <1>1, <2>1 DEF Taken
  <2>3. Live(image, host', toDevice, toHost', device, happened')
    BY <1>6, <2>2
  <2>4. SuccessMeansWritten'
    BY <1>1, <2>2 DEF SuccessMeansWritten, UpdaterInv
  <2>5. LongCode => NoSpuriousRollback'
    <3>1. LongCode /\ toHost[1].status # "ok" => Blamed(happened)
      BY <1>2, <1>4, <1>8 DEF Honest
    <3>2. Blamed(happened) => happened' \cap {"bad", "flash"} # {}
      BY <1>1 DEF Blamed
    <3>3. LongCode /\ host.quitStatus = "ROLLBACK" => Blamed(happened)
      BY DEF UpdaterInv, NoSpuriousRollback, Blamed
    <3> QED BY <2>2, <3>1, <3>2, <3>3 DEF NoSpuriousRollback
  <2> QED BY <1>1, <1>2, <1>5, <2>2, <2>3, <2>4, <2>5 DEF UpdaterInv
<1> QED BY <1>7, <1>8 DEF OnRead

-----------------------------------------------------------------------------
(* The theorems *)

LEMMA UpdaterInit == ASSUME Init PROVE UpdaterInv
<1>1. /\ image \in Images /\ toDevice = <<>> /\ toHost = <<>> /\ happened = {}
      /\ host = [started |-> FALSE, channel |-> TRUE, writing |-> FALSE, timer |-> FALSE,
                 list |-> <<>>, last |-> NoFrame, garbage |-> FALSE, seq |-> -2,
                 type |-> "VECTOR", quitStatus |-> "NOTHING", progress |-> 0, notified |-> 0]
      /\ device = [upgrade |-> FALSE, flash |-> [t \in Types |-> <<>>], last |-> [t \in Types |-> -1]]
  BY DEF Init
<1>2. HostShape(host) /\ ~host.started /\ host.quitStatus = "NOTHING" /\ host.last = NoFrame
  <2>1. <<>> \in Seq(SideFrames)
    OBVIOUS
  <2> QED BY <1>1, <2>1 DEF HostShape, QuitStatuses
<1>3. DeviceShape(device)
  BY <1>1 DEF DeviceShape
<1>4. Idle(host, toDevice, toHost)
  <2>1. <<>> \in Seq(SideFrames) /\ <<>> \in Seq(SideReplies)
    OBVIOUS
  <2> QED BY <1>1, <1>2, <2>1 DEF Idle
<1>5. Live(image, host, toDevice, toHost, device, happened)
  BY <1>2, <1>3, <1>4 DEF Live
<1>6. SuccessMeansWritten /\ NoSpuriousRollback
  BY <1>2 DEF SuccessMeansWritten, NoSpuriousRollback
<1>7. Honest(toHost, happened)
  <2>1. Len(toHost) = 0
    BY <1>1
  <2> QED BY <2>1 DEF Honest
<1> QED BY <1>1, <1>2, <1>5, <1>6, <1>7 DEF UpdaterInv

LEMMA UpdaterStep ==
  ASSUME SlicesListed, NumbersFit, FreshLink, UpdaterInv, [Next]_vars PROVE UpdaterInv'
<1>1. CASE StartUpdate
  BY <1>1, StartUpdateStep
<1>2. CASE StopUpdate
  BY <1>2, StopUpdateStep
<1>3. CASE QueryDevice
  BY <1>3, QueryDeviceStep
<1>4. CASE OnRead(1)
  BY <1>4, OnReadStep
<1>5. CASE \E n \in 2 .. MaxLink : OnRead(n)
  BY <1>5, OnReadStep, UpdaterAssumption
<1>6. CASE OnWrite
  BY <1>6, OnWriteStep
<1>7. CASE OnSendTimeout
  BY <1>7, OnSendTimeoutStep
<1>8. CASE Reload
  BY <1>8, ReloadStep
<1>9. CASE PeerReset
  BY <1>9, PeerResetStep
<1>10. CASE DeviceStep
  BY <1>10, DeviceStepStep
<1>11. CASE LoseFrame
  BY <1>11, LoseFrameStep
<1>12. CASE LoseReply
  BY <1>12, LoseReplyStep
<1>13. CASE CorruptReply
  BY <1>13, CorruptReplyStep
<1>14. CASE UNCHANGED vars
  BY <1>14 DEF vars, UpdaterInv, SuccessMeansWritten, NoSpuriousRollback
<1> QED BY <1>1, <1>2, <1>3, <1>4, <1>5, <1>6, <1>7, <1>8, <1>9, <1>10, <1>11, <1>12, <1>13, <1>14 DEF Next

\* The quit status is UPGRADE_SUCCESS only when the device has written every slice
\* of the image, in order and each once, whatever is lost, repeated, merged or
\* damaged and however often the channel is opened again (device_updater.cpp,
\* handleReplyUploadCodeSegment): for every image, and any bound on faults, calls
\* and the frames in the link, as long as the numbers of the code's packets do
\* not wrap and nothing outlives the channel it was sent on.
THEOREM SuccessIsWritten ==
  ASSUME SlicesListed, NumbersFit, FreshLink
  PROVE  Spec => []SuccessMeansWritten
<1>1. Init => UpdaterInv
  BY UpdaterInit
<1>2. UpdaterInv /\ [Next]_vars => UpdaterInv'
  BY UpdaterStep
<1>3. UpdaterInv => SuccessMeansWritten
  BY DEF UpdaterInv
<1> QED BY <1>1, <1>2, <1>3, PTL DEF Spec

\* A device that answers every request well is never told to roll back, when the
\* code has more than one slice, or one and no vector table before it: no repeated
\* or late reply makes the updater run out of slices (fillUpdateSliceContext).
THEOREM NoRollbackUnprovoked ==
  ASSUME SlicesListed, NumbersFit, FreshLink, LongCode
  PROVE  Spec => []NoSpuriousRollback
<1>1. Init => UpdaterInv
  BY UpdaterInit
<1>2. UpdaterInv /\ [Next]_vars => UpdaterInv'
  BY UpdaterStep
<1>3. UpdaterInv => NoSpuriousRollback
  BY DEF UpdaterInv
<1> QED BY <1>1, <1>2, <1>3, PTL DEF Spec
=============================================================================
