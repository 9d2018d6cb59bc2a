------------------------------- MODULE Updater -------------------------------
(***************************************************************************)
(* imp/device-update: AimyUpdater sends a firmware image to a device over  *)
(* a serial line or a HID report pipe. One command at a time waits for its *)
(* reply (lastUpdateFrame, resent by resendTimer); QUIT and queries go     *)
(* through sendDataList and are sent once. Packet numbers count down to 0, *)
(* for the vector table first and for the code segment after it.           *)
(*                                                                         *)
(* All handlers run on one scheduler: each is one step. The device and the *)
(* link are external: the link keeps the order and may lose a frame.       *)
(***************************************************************************)
EXTENDS Integers, Sequences

CONSTANTS
  Images,       \* pairs of segment lengths <<vector, code>> a device may have
  MaxSlice,     \* max_slice_size, in bytes, a multiple of four
  PageSize,     \* page_size, a number of kilobytes
  SeqWidth,     \* packet numbers are sent modulo SeqWidth (2^16)
  BadAnswers,   \* answers other than success that the device may give
  LinkFaults,   \* what the link may do: "lose", "loseQuit", "corrupt", "merge" (two
                \* replies in one read), "stale" (frames outlive a reload), "reload"
  MaxFaults,    \* bound on frames lost or damaged, bad answers and channel failures
  MaxCalls,     \* bound on calls of stopUpdate and of the queries
  MaxLink       \* bound on update frames and on replies in the link

ASSUME UpdaterAssumption ==
  /\ Images \subseteq Nat \X Nat
  /\ \A i \in Images : i[1] + i[2] > 0
  /\ MaxSlice \in Nat \ {0} /\ MaxSlice % 4 = 0
  /\ PageSize \in Nat \ {0} /\ PageSize % 4 = 0
  /\ SeqWidth \in Nat \ {0}
  /\ MaxFaults \in Nat /\ MaxCalls \in Nat /\ MaxLink \in Nat \ {0}

Types == {"VECTOR", "CODE"}
NoFrame == [cmd |-> "none"]

VARIABLES
  image,      \* the segment lengths
  host,       \* the members of AimyUpdater, a record
  toDevice, toHost,   \* the link
  device,     \* [upgrade, flash, last]: upgrade mode, the slices it wrote per
              \* segment, the last packet number it confirmed per segment
  happened,   \* history: "complete" when the device had the whole image, "bad"
              \* and "flash" when it answered so, "quitLost" with a QUIT reply
  faults, calls

env == <<image, faults, calls>>
vars == <<image, host, toDevice, toHost, device, happened, faults, calls>>

-----------------------------------------------------------------------------
(* fillUpdateSliceContext *)

Least(S) == CHOOSE n \in S : \A m \in S : n <= m

\* data_len: the device takes whole words, a slice is padded to them.
DataLen(n) == IF n % 4 = 0 THEN n ELSE n - (n % 4) + 4

\* A slice of n bytes of the image, and the bytes that are sent for it
Piece(off, n) == <<[off |-> off, len |-> n, sent |-> DataLen(n)]>>

\* Mutant of Cut: the page is forgotten.
CutAnyPage(len, left) ==
  LET C[off \in Nat] == IF off >= len THEN <<>>
                        ELSE LET n == Least({len - off, MaxSlice})
                             IN Piece(off, n) \o C[off + n]
  IN C[0]

\* A segment of len bytes as slices that do not cross a page, when left bytes
\* of the current page are free.
Cut(len, left) ==
  LET C[off \in Nat, free \in Nat] ==
        IF off >= len THEN <<>>
        ELSE LET n == Least({len - off, MaxSlice, free})
             IN Piece(off, n) \o
                C[off + n, IF free = n THEN PageSize ELSE free - n]
  IN C[0, left]

\* vector_map and code_map: the code goes on in the page the vector ended in.
SliceMap(t) == IF t = "VECTOR" THEN Cut(image[1], PageSize)
               ELSE Cut(image[2], PageSize - (image[1] % PageSize))

\* Mutant of Fill: the code starts one packet number too high.
FillHigh(u) ==
  IF u.seq = -1 /\ u.type = "VECTOR"
  THEN [u EXCEPT !.seq = Len(SliceMap("CODE")), !.type = "CODE"]
  ELSE IF u.seq < -1
  THEN [u EXCEPT !.seq = Len(SliceMap("VECTOR")) - 1,
                 !.type = IF SliceMap("VECTOR") # <<>> THEN "VECTOR" ELSE "CODE"]
  ELSE u

\* The position of the slice: a new context starts with the vector table, the
\* code follows the vector's last slice.
Fill(u) ==
  LET start == IF SliceMap("VECTOR") # <<>> THEN "VECTOR" ELSE "CODE"
      s == IF u.seq < -1
           THEN [u EXCEPT !.seq = Len(SliceMap(start)) - 1, !.type = start] ELSE u
  IN IF s.seq = -1 /\ s.type = "VECTOR"
     THEN [s EXCEPT !.seq = Len(SliceMap("CODE")) - 1, !.type = "CODE"] ELSE s

HasSlice(u) == u.seq \in 0 .. Len(SliceMap(u.type)) - 1
Slice(u) == SliceMap(u.type)[Len(SliceMap(u.type)) - u.seq]

-----------------------------------------------------------------------------
(* Requests: operators that give the next value of host. *)

SendNormal(u, f) == [u EXCEPT !.list = Append(@, f), !.writing = TRUE]
SendUpdate(u, f) == [u EXCEPT !.timer = FALSE, !.last = f, !.writing = TRUE]

RequestEnter(u) == SendUpdate([u EXCEPT !.started = TRUE, !.seq = -2, !.type = "VECTOR"],
                              [cmd |-> "ENTER"])
RequestQuit(u) == SendNormal(u, [cmd |-> "QUIT", status |-> u.quitStatus])
RollBack(u) == RequestQuit([u EXCEPT !.quitStatus = "ROLLBACK"])
RequestUpload(u) ==
  SendUpdate(u, [cmd |-> u.type, no |-> u.seq % SeqWidth, slice |-> Slice(u)])

\* The slice at u's position is read and sent, or the update given up.
UploadSlice(u) == LET f == Fill(u) IN IF HasSlice(f) THEN RequestUpload(f) ELSE RollBack(f)

Notify(u) == [u EXCEPT !.notified = IF @ = 2 THEN 2 ELSE @ + 1]
SendTimeout(u) == [u EXCEPT !.timer = FALSE, !.writing = u.channel]
Release(u) == IF u.channel THEN [u EXCEPT !.channel = FALSE, !.writing = FALSE,
                                          !.list = <<>>, !.last = NoFrame]
              ELSE u

-----------------------------------------------------------------------------
(* Replies *)

HandleEnter(u, m) == IF m.status = "ok" THEN SendUpdate(u, [cmd |-> "SOFTWARE"])
                     ELSE RequestQuit(u)

HandleSoftware(u, m) == CASE m.status = "ok" -> SendUpdate(u, [cmd |-> "SEGMENT"])
                          [] m.status = "mismatch" -> RollBack(u)
                          [] OTHER -> RequestQuit(u)

\* loadProgramData, the first slice, and the counters.
HandleSegment(u, m) ==
  CASE m.status = "ok" -> [UploadSlice(u) EXCEPT
                             !.progress = IF HasSlice(Fill(u)) THEN 0 ELSE @]
    [] m.status = "mismatch" -> RollBack(u)
    [] OTHER -> RequestQuit(u)

Total == Len(SliceMap("VECTOR")) + Len(SliceMap("CODE"))

UpdateProgress(u) == [u EXCEPT !.progress = IF @ < Total THEN @ + 1 ELSE @]

\* A reply to another packet than the one that was sent last.
Repeated(u, m) == m.no # u.seq % SeqWidth

\* Mutant of Confirm: success is declared with the last slice still to come.
ConfirmEarly(u, t) ==
  IF t = "VECTOR" \/ u.seq > 1
  THEN UploadSlice([UpdateProgress(u) EXCEPT !.seq = @ - 1])
  ELSE RequestQuit([UpdateProgress(u) EXCEPT !.quitStatus = "SUCCESS"])

\* The next slice, or, after the last one of the code, the end.
Confirm(u, t) ==
  IF t = "VECTOR" \/ u.seq > 0
  THEN UploadSlice([UpdateProgress(u) EXCEPT !.seq = @ - 1])
  ELSE RequestQuit([UpdateProgress(u) EXCEPT !.quitStatus = "SUCCESS"])

\* handleReplyUploadVectorTable and handleReplyUploadCodeSegment. The reply is
\* matched by its number only; a failure of the flash is logged.
HandleUpload(u, m) ==
  CASE m.status = "short" -> RollBack(u)
    [] m.status # "short" /\ Repeated(u, m) -> u
    [] m.status = "ok" /\ ~Repeated(u, m) -> Confirm(u, m.cmd)
    [] m.status = "missing" /\ ~Repeated(u, m) -> SendTimeout(u)
    [] OTHER -> u

HandleQuit(u, m) ==
  Notify([u EXCEPT !.timer = FALSE,
                   !.quitStatus = IF m.status # "ok" /\ @ = "SUCCESS" THEN "ROLLBACK" ELSE @])

HandleFrame(u, m) == CASE m.cmd = "ENTER" -> HandleEnter(u, m)
                       [] m.cmd = "SOFTWARE" -> HandleSoftware(u, m)
                       [] m.cmd = "SEGMENT" -> HandleSegment(u, m)
                       [] m.cmd \in Types -> HandleUpload(u, m)
                       [] m.cmd = "QUIT" -> HandleQuit(u, m)
                       [] OTHER -> u

-----------------------------------------------------------------------------
(* The updater's scheduler *)

Init ==
  /\ image \in Images
  /\ host = [started |-> FALSE, channel |-> TRUE, writing |-> FALSE, timer |-> FALSE,
             list |-> <<>>, last |-> NoFrame, garbage |-> FALSE, seq |-> -2,
             type |-> "VECTOR", quitStatus |-> "NOTHING", progress |-> 0, notified |-> 0]
  /\ toDevice = <<>> /\ toHost = <<>>
  /\ device = [upgrade |-> FALSE, flash |-> [t \in Types |-> <<>>], last |-> [t \in Types |-> -1]]
  /\ happened = {} /\ faults = 0 /\ calls = 0

StartUpdate ==
  /\ ~host.started /\ host.channel
  /\ host' = RequestEnter(host)
  /\ UNCHANGED <<toDevice, toHost, device, happened, env>>

StopUpdate ==
  /\ host.started /\ host.channel /\ calls < MaxCalls
  /\ calls' = calls + 1
  /\ host' = RequestQuit(host)
  /\ UNCHANGED <<image, toDevice, toHost, device, happened, faults>>

\* queryDevice, queryUPID, queryWorkMode
QueryDevice ==
  /\ host.channel /\ calls < MaxCalls
  /\ calls' = calls + 1
  /\ host' = SendNormal(host, [cmd |-> "QUERY"])
  /\ UNCHANGED <<image, toDevice, toHost, device, happened, faults>>

\* handleDataCache handles the first frame of what was read and drops the rest.
\* Bytes that are no frame stay at the front of the cache: DeMux answers "not
\* enough data" to them too.
OnRead(n) ==
  /\ host.channel /\ n \in 1 .. Len(toHost)
  /\ n > 1 => "merge" \in LinkFaults
  /\ host' = IF host.garbage \/ toHost[1].cmd = "corrupt" THEN [host EXCEPT !.garbage = TRUE]
             ELSE HandleFrame(host, toHost[1])
  /\ toHost' = SubSeq(toHost, n + 1, Len(toHost))
  /\ happened' = IF \E i \in 2 .. n : toHost[i].cmd = "QUIT" THEN happened \cup {"quitLost"}
                 ELSE happened
  /\ UNCHANGED <<toDevice, device, env>>

Written(u) == IF u.list # <<>> THEN [u EXCEPT !.list = <<>>]
              ELSE IF u.last # NoFrame THEN [u EXCEPT !.timer = TRUE] ELSE u

\* Mutant of OnWrite: the timer is not started.
OnWriteNoTimer ==
  /\ host.channel /\ host.writing
  /\ host.list # <<>> \/ Len(toDevice) < MaxLink
  /\ toDevice' = toDevice \o (IF host.list # <<>> THEN host.list ELSE <<host.last>>)
  /\ host' = [host EXCEPT !.list = <<>>, !.writing = host.list # <<>>]
  /\ UNCHANGED <<toHost, device, happened, env>>

\* The normal frames, or else the update frame; writing ends when nothing is left.
OnWrite ==
  /\ host.channel /\ host.writing
  /\ host.list # <<>> \/ Len(toDevice) < MaxLink
  /\ toDevice' = toDevice \o (IF host.list # <<>> THEN host.list
                              ELSE IF host.last # NoFrame /\ ~host.timer THEN <<host.last>>
                              ELSE <<>>)
  /\ LET w == Written(host)
     IN host' = [w EXCEPT !.writing = ~(w.timer \/ w.last = NoFrame)]
  /\ UNCHANGED <<toHost, device, happened, env>>

OnSendTimeout ==
  /\ host.timer
  /\ host' = SendTimeout(host)
  /\ UNCHANGED <<toDevice, toHost, device, happened, env>>

Fault == faults < MaxFaults /\ faults' = faults + 1

\* on_close, on_error, a failed read or write: reload_upgrade_task opens the
\* channel again and starts from ENTER, or gives up.
Reload ==
  /\ host.channel /\ "reload" \in LinkFaults /\ Fault
  /\ \/ host.started /\ host' = RequestEnter([Release(host) EXCEPT !.channel = TRUE])
     \/ host.started /\ host' = Notify(Release(host))
     \/ ~host.started /\ host' = Release(host)
  /\ toDevice' = IF "stale" \in LinkFaults THEN toDevice ELSE <<>>
  /\ toHost' = IF "stale" \in LinkFaults THEN toHost ELSE <<>>
  /\ UNCHANGED <<image, device, happened, calls>>

\* write returns 0: the updater stops.
PeerReset ==
  /\ host.channel /\ host.writing /\ "reload" \in LinkFaults /\ Fault
  /\ host.list # <<>> \/ (host.last # NoFrame /\ ~host.timer)
  /\ host' = Notify(Release(host))
  /\ UNCHANGED <<image, toDevice, toHost, device, happened, calls>>

-----------------------------------------------------------------------------
(* The link and the device *)

Reply(m) == toHost' = Append(toHost, m)
\* A bad answer is a fault as well.
Blame(s) == IF s = "ok" THEN UNCHANGED <<happened, faults>>
            ELSE Fault /\ happened' = happened \cup {IF s = "flash" THEN s ELSE "bad"}
Answers(S) == {"ok"} \cup (BadAnswers \cap S)

DeviceEnter(f) ==
  /\ f.cmd = "ENTER"
  /\ \E s \in Answers({"busy", "short"}) :
       /\ Reply([cmd |-> "ENTER", status |-> s]) /\ Blame(s)
       /\ device' = IF s = "busy" THEN device
                    ELSE [upgrade |-> TRUE, flash |-> [t \in Types |-> <<>>],
                          last |-> [t \in Types |-> -1]]

DeviceQuery(f) ==
  /\ f.cmd \in {"SOFTWARE", "SEGMENT", "QUERY"}
  /\ \E s \in Answers({"short", "mismatch", "same"}) : Reply([cmd |-> f.cmd, status |-> s]) /\ Blame(s)
  /\ UNCHANGED device

\* A packet is written when it is the first of its segment or follows the last
\* one, confirmed again when it is the last one, and otherwise one is missing.
DeviceSlice(f) ==
  LET last == device.last[f.cmd]
      new == last = -1 \/ f.no = (last - 1) % SeqWidth
      done == [device EXCEPT !.flash[f.cmd] = Append(@, f.slice), !.last[f.cmd] = f.no]
      Answer(s) == Reply([cmd |-> f.cmd, no |-> f.no, status |-> s])
  IN /\ f.cmd \in Types /\ device.upgrade
     /\ \/ /\ new /\ device' = done /\ Answer("ok")
           /\ happened' = IF \A t \in Types : done.flash[t] = SliceMap(t)
                          THEN happened \cup {"complete"} ELSE happened
           /\ UNCHANGED faults
        \/ /\ new /\ \E s \in BadAnswers \cap {"flash", "short"} : Answer(s) /\ Blame(s)
           /\ UNCHANGED device
        \/ /\ ~new /\ Answer(IF f.no = last THEN "ok" ELSE "missing")
           /\ UNCHANGED <<device, happened, faults>>

\* The device leaves the upgrade mode: it takes no slices any more.
DeviceQuit(f) ==
  /\ f.cmd = "QUIT"
  /\ device' = [device EXCEPT !.upgrade = FALSE]
  /\ \E s \in Answers({"failed"}) : Reply([cmd |-> "QUIT", status |-> s]) /\ Blame(s)

DeviceIgnore(f) ==
  /\ f.cmd \in Types /\ ~device.upgrade
  /\ UNCHANGED <<toHost, device, happened, faults>>

DeviceStep ==
  /\ toDevice # <<>> /\ Len(toHost) < MaxLink
  /\ toDevice' = Tail(toDevice)
  /\ LET f == Head(toDevice)
     IN DeviceEnter(f) \/ DeviceQuery(f) \/ DeviceSlice(f) \/ DeviceQuit(f) \/ DeviceIgnore(f)
  /\ UNCHANGED <<host, image, calls>>

LoseFrame ==
  /\ "lose" \in LinkFaults /\ toDevice # <<>> /\ Fault
  /\ toDevice' = Tail(toDevice)
  /\ UNCHANGED <<host, toHost, device, happened, image, calls>>

LoseReply ==
  /\ toHost # <<>> /\ Fault
  /\ IF Head(toHost).cmd = "QUIT" THEN "loseQuit" \in LinkFaults ELSE "lose" \in LinkFaults
  /\ toHost' = Tail(toHost)
  /\ happened' = IF Head(toHost).cmd = "QUIT" THEN happened \cup {"quitLost"} ELSE happened
  /\ UNCHANGED <<host, toDevice, device, image, calls>>

CorruptReply ==
  /\ "corrupt" \in LinkFaults /\ toHost # <<>> /\ Fault
  /\ Head(toHost).cmd \notin {"corrupt", "QUIT"}
  /\ toHost' = <<[cmd |-> "corrupt"]>> \o Tail(toHost)
  /\ UNCHANGED <<host, toDevice, device, happened, image, calls>>

-----------------------------------------------------------------------------
Next == \/ StartUpdate \/ StopUpdate \/ QueryDevice
        \/ OnRead(1) \/ (\E n \in 2 .. MaxLink : OnRead(n))
        \/ OnWrite \/ OnSendTimeout \/ Reload \/ PeerReset
        \/ DeviceStep \/ LoseFrame \/ LoseReply \/ CorruptReply

\* The scheduler serves its channel and its timers, the device answers; faults
\* are bounded, so that a frame that is sent again gets through at last.
Spec == /\ Init /\ [][Next]_vars
        /\ WF_vars(OnWrite) /\ WF_vars(OnSendTimeout)
        /\ WF_vars(OnRead(1)) /\ WF_vars(DeviceStep)

-----------------------------------------------------------------------------
(* Properties *)

\* quitStatus becomes UPGRADE_SUCCESS only after the device has written every
\* slice of the image, in order and each once, whatever was lost or repeated.
SuccessMeansWritten == host.quitStatus = "SUCCESS" => "complete" \in happened

\* A device that answers every request well is never told to roll back: no
\* repeated or late reply makes the updater run out of slices.
NoSpuriousRollback == host.quitStatus = "ROLLBACK" => happened \cap {"bad", "flash"} # {}

\* The device gets no addresses and writes what is sent for the slices one after
\* the other. So what is sent for all but the last slice of a segment is what is
\* in it, and nothing that is sent is longer than a frame or, padding included,
\* crosses a page ("cannot write across a page", update-file.cpp).
SlicesFit ==
  \A t \in Types :
    LET m == SliceMap(t)
        base == IF t = "VECTOR" THEN 0 ELSE image[1]
        size == IF t = "VECTOR" THEN image[1] ELSE image[2]
    IN /\ \A i \in 1 .. Len(m) :
            /\ m[i].sent \in 1 .. MaxSlice
            /\ m[i].off = IF i = 1 THEN 0 ELSE m[i - 1].off + m[i - 1].sent
            /\ (base + m[i].off) \div PageSize = (base + m[i].off + m[i].sent - 1) \div PageSize
       /\ (m # <<>>) => m[Len(m)].off + m[Len(m)].len = size

\* An update that was started ends with notifyQuitMessage: every frame, reply or
\* bad answer that is lost is made up for, a passing failure of the flash too.
\* What is never made up for is a damaged reply that got into readCache, and the
\* loss of the reply to QUIT, which is sent once.
UpdateEnds == host.started ~> \/ host.notified > 0
                              \/ host.garbage \/ "quitLost" \in happened

\* The device says that it cannot erase or write its flash: the update has to be
\* quit and the hardware reported as damaged (the comments on FLASH_ERASE and
\* FLASH_WRITE in device_updater.cpp), so it does not end in success.
FlashFailureQuits == "flash" \in happened => host.quitStatus # "SUCCESS"
=============================================================================
