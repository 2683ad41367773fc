------------------------ MODULE UsbDownload_proofs -------------------------
(* Proofs about UsbDownload for every set of images and uploads, every      *)
(* packet size and any number of frames, bus resets and aborted transfers.  *)
EXTENDS UsbDownload, TLAPS

-----------------------------------------------------------------------------
(* The inductive invariant.                                                 *)

\* A sending host is inside its frame.
InvHost == host.state = "sending" =>
    host.frame \in Frames /\ host.pos < FrameLen(host.frame)

\* A host reads only after an upload request; an unfinished frame of one packet
\* has not begun, and only such a frame leaves no image frame open.
InvShort ==
    /\ host.state = "reading" => host.frame \in Uploads
    /\ host.state = "sending" /\ FrameLen(host.frame) = 10 => host.pos = 0
    /\ host.state = "sending" /\ ~open => FrameLen(host.frame) = 10

\* The host talks only to a device whose packet sizes are set, and an
\* enumeration is served only while no host talks.
InvPkt ==
    /\ host.state # "detached" =>
           pktsize # 0 /\ enumerated /\ "ENUMDONE" \notin irq \union pass
    /\ (enumerated /\ dsts # "other" /\ "ENUMDONE" \notin irq \union pass) => pktsize # 0

\* receive_done ends the loop: no enumeration is served after it.
InvDone ==
    /\ pc = "run" => s3c_receive_done = 1
    /\ s3c_receive_done = 1 => pass \subseteq {"INEP"}
    /\ s3c_receive_done = 1 /\ ~dirty => open

\* Bytes of an image frame that the driver has taken from the FIFO.
Taken == IF dn_filesize = 0 THEN 0 ELSE dn_ptr - DlAddr + 8

\* A whole ten-byte frame waits, in front of whatever comes next.
ShortWaits ==
    /\ rx.from = 0 /\ rx.cnt = 10 /\ rx.frame \in Frames
    /\ FrameLen(rx.frame) = 10 /\ dn_filesize = 0
    /\ open => host.pos = 0

\* The next packet of the only image frame since the enumeration waits.
NextWaits ==
    /\ open /\ rx.frame = host.frame
    /\ rx.from = Taken /\ rx.from + rx.cnt = host.pos
    /\ rx.from = 0 => rx.cnt > 10

InvRx == (~dirty /\ rx.cnt > 0) => ShortWaits \/ NextWaits

\* The download state is what the bytes taken so far make it.
InvImage ==
    /\ ~dirty /\ ~open => dn_filesize = 0
    /\ ~dirty /\ open =>
        /\ host.frame \in Files /\ Size[host.frame] > 0
        /\ host.pos <= Size[host.frame] + 10
        /\ dn_filesize # 0 =>
            /\ dn_filesize = Size[host.frame] + 10
            /\ dn_addr = DlAddr /\ s3c_usbd_dn_addr = DlAddr
            /\ dn_ptr > DlAddr + 2 /\ dn_ptr - DlAddr + 8 <= host.pos
            /\ Holds(host.frame, dn_ptr - DlAddr)
        /\ host.state = "sending" /\ rx.cnt = 0 => host.pos = Taken
        /\ s3c_receive_done = 1 => Taken = Size[host.frame] + 10

\* A waiting packet belongs to a frame.
InvFrame == rx.cnt > 0 => rx.frame \in Frames

TypeInv == TypeOK /\ InvHost /\ InvFrame

IInv == TypeInv /\ InvShort /\ InvPkt /\ InvDone /\ InvRx /\ InvImage

-----------------------------------------------------------------------------
(* Facts about the operators.                                               *)

\* u32 addition and subtraction stay in range.
LEMMA WordRange ==
    ASSUME NEW a \in Mem, NEW b \in Mem
    PROVE  Add(a, b) \in Mem /\ Sub(a, b) \in Mem
BY WordAssumption DEF Add, Sub, Mem

\* A frame has at least the ten bytes of its header and checksum, and fits a u32.
LEMMA FrameRange ==
    ASSUME NEW f \in Frames
    PROVE  /\ FrameLen(f) \in Nat /\ FrameLen(f) >= 10 /\ FrameLen(f) < W
           /\ HdrAddr(f) \in Mem /\ HdrSize(f) \in Mem
BY FramesAssumption, WordAssumption DEF Frames, FrameLen, HdrAddr, HdrSize, Mem

\* s3c_usb_read_out_fifo leaves memory a function of tags.
LEMMA ReadOutType ==
    ASSUME TypeOK, NEW skip \in Nat, NEW n \in Int, NEW ptr \in Mem
    PROVE  ReadOutFifo(rx, skip, n, ptr) \in [Mem -> (Frames \union {NoFrame}) \X Nat]
<1>1. SUFFICES ASSUME NEW a \in Mem
               PROVE  ReadOutFifo(rx, skip, n, ptr)[a] \in (Frames \union {NoFrame}) \X Nat
  BY DEF ReadOutFifo
<1>2. Sub(a, ptr) \in Nat
  BY WordRange DEF Mem
<1>3. rx.from + skip + Sub(a, ptr) \in Nat /\ rx.frame \in Frames \union {NoFrame}
  BY <1>2 DEF TypeOK, Packet
<1>4. mem[a] \in (Frames \union {NoFrame}) \X Nat
  BY DEF TypeOK
<1>5. QED
  BY <1>3, <1>4 DEF ReadOutFifo

\* It writes n bytes in order, nothing in front of them and at most three bytes
\* behind them, as long as the write does not run past the end of memory.
LEMMA ReadOutWrites ==
    ASSUME TypeOK, NEW skip \in Nat, NEW n \in Nat, n > 0, NEW ptr \in Mem, ptr + n + 3 < W
    PROVE  /\ \A k \in 0 .. n - 1 :
                 ReadOutFifo(rx, skip, n, ptr)[ptr + k] = <<rx.frame, rx.from + skip + k>>
           /\ \A a \in Mem : a < ptr \/ a >= ptr + n + 3 =>
                 ReadOutFifo(rx, skip, n, ptr)[a] = mem[a]
<1>w. W \in Nat /\ ptr \in Nat
  BY WordAssumption DEF Mem
<1>1. ASSUME NEW k \in 0 .. n - 1
      PROVE  ReadOutFifo(rx, skip, n, ptr)[ptr + k] = <<rx.frame, rx.from + skip + k>>
  <2>1. ptr + k \in Mem /\ Sub(ptr + k, ptr) = k
    BY <1>w DEF Mem, Sub
  <2>2. QED
    BY <2>1 DEF ReadOutFifo
<1>2. ASSUME NEW a \in Mem, a < ptr \/ a >= ptr + n + 3
      PROVE  ReadOutFifo(rx, skip, n, ptr)[a] = mem[a]
  <2>1. Sub(a, ptr) \in Int /\ Sub(a, ptr) >= n + 3
    BY <1>w, <1>2 DEF Mem, Sub
  <2>2. (n + 3) \div 4 \in Nat /\ 4 * ((n + 3) \div 4) <= n + 3
    OBVIOUS
  <2>3. ~(Sub(a, ptr) < n) /\ ~(Sub(a, ptr) < 4 * ((n + 3) \div 4))
    BY <2>1, <2>2
  <2>4. QED
    BY <2>3 DEF ReadOutFifo
<1>3. QED
  BY <1>1, <1>2

-----------------------------------------------------------------------------
(* Type correctness.  InvHost is needed: the length of a packet is a         *)
(* natural number only while the host is inside its frame.                   *)

\* The header a packet is read as consists of two u32 words.
LEMMA HeaderRange ==
    ASSUME TypeOK, rx.from = 0 => rx.frame \in Frames, NEW h \in HeaderOf(rx)
    PROVE  h[1] \in Mem /\ h[2] \in Mem
BY FrameRange, WordAssumption DEF HeaderOf

LEMMA TypeInit == Init => TypeInv
<1> SUFFICES ASSUME Init PROVE TypeInv
  OBVIOUS
<1>1. /\ armed \in BOOLEAN /\ enumerated \in BOOLEAN
      /\ open \in BOOLEAN /\ dirty \in BOOLEAN /\ uploaded \in BOOLEAN
  BY Zenon DEF Init
<1>2. /\ pc \in {"init", "poll", "run", "noUsb"} /\ pass \subseteq Causes
      /\ pktsize \in {0, HighPkt, FullPkt}
      /\ s3c_receive_done \in {0, 1} /\ checksum \in {"none", "ok", "failed"}
      /\ irq \subseteq Causes /\ dsts \in Speeds
      /\ rx = NoPacket /\ tx = NoChunk
      /\ host = [state |-> "detached", frame |-> NoFrame, pos |-> 0, junk |-> 0]
  BY Zenon DEF Init
<1>3. /\ dn_addr = 0 /\ dn_filesize = 0 /\ dn_ptr = 0
      /\ up_addr = 0 /\ up_size = 0 /\ up_ptr = 0
      /\ s3c_usbd_dn_addr = 0 /\ s3c_usbd_dn_cnt = 0
      /\ mem = [a \in Mem |-> <<NoFrame, 0>>]
      /\ frames = 0 /\ resets = 0 /\ aborts = 0
  BY Zenon DEF Init
<1>4. 0 \in Mem
  BY WordAssumption DEF Mem
<1>5. rx \in Packet /\ tx \in Chunk /\ host \in HostState
  BY <1>2, <1>4 DEF NoPacket, Packet, NoChunk, Chunk, HostState
<1>6. mem \in [Mem -> (Frames \union {NoFrame}) \X Nat]
  BY <1>3
<1>7. TypeOK
  BY <1>1, <1>2, <1>3, <1>4, <1>5, <1>6 DEF TypeOK
<1>8. QED
  BY <1>2, <1>7 DEF InvHost, InvFrame, NoPacket, TypeInv

LEMMA TypePacket == TypeInv /\ OnPacket => TypeInv'
<1> SUFFICES ASSUME TypeInv, OnPacket PROVE TypeInv'
  OBVIOUS
<1>t. TypeOK /\ rx.frame \in Frames
  BY DEF TypeInv, InvFrame, OnPacket
<1>c. rx.cnt \in Mem /\ rx.cnt \in Nat /\ 8 \in Mem
  BY <1>t, WordAssumption DEF TypeOK, Packet, Mem
<1>1. rx' \in Packet /\ rx'.cnt = 0
  BY FramesAssumption, WordAssumption DEF OnPacket, NoPacket, Packet, Mem
<1>2. /\ pass' \subseteq Causes
      /\ UNCHANGED <<pc, pktsize, irq, tx, busVars, hostVars, open, dirty>>
  BY <1>t DEF OnPacket, TypeOK
<1>3. ASSUME NEW h \in HeaderOf(rx), UploadStart(h)
      PROVE  /\ dn_addr' \in Mem /\ dn_filesize' \in Mem /\ dn_ptr' \in Mem
             /\ up_addr' \in Mem /\ up_size' \in Mem /\ up_ptr' \in Mem
             /\ s3c_usbd_dn_addr' \in Mem /\ s3c_usbd_dn_cnt' \in Mem
             /\ s3c_receive_done' \in {0, 1} /\ checksum' \in {"none", "ok", "failed"}
             /\ mem' \in [Mem -> (Frames \union {NoFrame}) \X Nat]
             /\ armed' \in BOOLEAN /\ uploaded' \in BOOLEAN
  <2>1. h[1] \in Mem /\ h[2] \in Mem /\ 0 \in Mem
    BY <1>t, HeaderRange, WordAssumption DEF Mem
  <2>2. QED
    BY <1>3, <1>t, <2>1 DEF UploadStart, TypeOK, upVars, doneVars
<1>4. ASSUME NEW h \in HeaderOf(rx), DownloadStart(h)
      PROVE  /\ dn_addr' \in Mem /\ dn_filesize' \in Mem /\ dn_ptr' \in Mem
             /\ up_addr' \in Mem /\ up_size' \in Mem /\ up_ptr' \in Mem
             /\ s3c_usbd_dn_addr' \in Mem /\ s3c_usbd_dn_cnt' \in Mem
             /\ s3c_receive_done' \in {0, 1} /\ checksum' \in {"none", "ok", "failed"}
             /\ mem' \in [Mem -> (Frames \union {NoFrame}) \X Nat]
             /\ armed' \in BOOLEAN /\ uploaded' \in BOOLEAN
  <2>1. h[1] \in Mem /\ h[2] \in Mem /\ 1 \in Mem
    BY <1>t, HeaderRange, WordAssumption DEF Mem
  <2>2. EvenAddr(h[1]) \in Mem
    BY <2>1, WordRange DEF EvenAddr
  <2>3. FirstPtr(EvenAddr(h[1])) \in Mem
    BY <2>2, <1>c, WordRange DEF FirstPtr
  <2>4. ReadOutFifo(rx, 8, rx.cnt - 8, EvenAddr(h[1]))
            \in [Mem -> (Frames \union {NoFrame}) \X Nat]
    BY <1>t, <1>c, <2>2, ReadOutType
  <2>5. QED
    BY <1>4, <1>t, <2>1, <2>2, <2>3, <2>4
    DEF DownloadStart, RecordHeader, Rearm, TypeOK, upVars, doneVars
<1>5. ASSUME DownloadContinue
      PROVE  /\ dn_addr' \in Mem /\ dn_filesize' \in Mem /\ dn_ptr' \in Mem
             /\ up_addr' \in Mem /\ up_size' \in Mem /\ up_ptr' \in Mem
             /\ s3c_usbd_dn_addr' \in Mem /\ s3c_usbd_dn_cnt' \in Mem
             /\ s3c_receive_done' \in {0, 1} /\ checksum' \in {"none", "ok", "failed"}
             /\ mem' \in [Mem -> (Frames \union {NoFrame}) \X Nat]
             /\ armed' \in BOOLEAN /\ uploaded' \in BOOLEAN
  <2>1. Add(dn_ptr, rx.cnt) \in Mem
    BY <1>t, <1>c, WordRange DEF TypeOK
  <2>2. ReadOutFifo(rx, 0, rx.cnt, dn_ptr) \in [Mem -> (Frames \union {NoFrame}) \X Nat]
    BY <1>t, <1>c, ReadOutType DEF TypeOK
  <2>3. s3c_receive_done' \in {0, 1} /\ checksum' \in {"none", "ok", "failed"}
    BY <1>5, <1>t DEF DownloadContinue, VerifyChecksum, doneVars, TypeOK
  <2>4. QED
    BY <1>5, <1>t, <2>1, <2>2, <2>3 DEF DownloadContinue, Rearm, TypeOK, upVars
<1>6. TypeOK'
  BY <1>t, <1>1, <1>2, <1>3, <1>4, <1>5 DEF OnPacket, TypeOK, busVars, hostVars
<1>7. QED
  BY <1>1, <1>2, <1>6 DEF TypeInv, InvHost, InvFrame, hostVars

LEMMA TypeSend == TypeInv /\ HostSend => TypeInv'
<1> SUFFICES ASSUME TypeInv, HostSend PROVE TypeInv'
  OBVIOUS
<1> DEFINE len == FrameLen(host.frame)
           c == Least(pktsize, len - host.pos)
<1>1. TypeOK /\ host \in HostState /\ host.frame \in Frames /\ host.pos < len
  BY DEF TypeInv, InvHost, HostSend, TypeOK
<1>2. /\ len \in Nat /\ len < W /\ host.pos \in Nat /\ host.junk \in Nat
      /\ pktsize \in Nat
  BY <1>1, FrameRange, PktAssumption DEF TypeOK, HostState
<1>3. c \in Mem /\ host.pos + c <= len
  BY <1>1, <1>2, WordAssumption DEF Least, Mem
<1> HIDE DEF c, len
<1>4. rx' = [frame |-> host.frame, from |-> host.pos, cnt |-> c, junk |-> host.junk]
  BY DEF HostSend, c, len
<1>5. rx' \in Packet /\ rx'.frame \in Frames
  BY <1>1, <1>2, <1>3, <1>4 DEF Packet
<1>6. \/ host' = [host EXCEPT !.pos = @ + c] /\ host.pos + c # len
      \/ host' = [host EXCEPT !.pos = @ + c, !.state = "ready"]
      \/ host' = [host EXCEPT !.pos = 0, !.state = "reading"]
  BY DEF HostSend, c, len
<1>7. host' \in HostState /\ (host'.state = "sending" =>
                                host'.frame = host.frame /\ host'.pos < len)
  <2>1. c \in Nat /\ host.pos + c \in Nat
    BY <1>2, <1>3 DEF Mem
  <2>2. CASE host' = [host EXCEPT !.pos = @ + c] /\ host.pos + c # len
    <3>1. host' \in HostState
      BY <1>1, <2>1, <2>2 DEF HostState
    <3>2. host'.frame = host.frame /\ host'.pos = host.pos + c
      BY <1>1, <2>2 DEF HostState
    <3>3. host.pos + c < len
      BY <1>2, <1>3, <2>1, <2>2
    <3>4. QED
      BY <3>1, <3>2, <3>3
  <2>3. CASE host' = [host EXCEPT !.pos = @ + c, !.state = "ready"]
    BY <1>1, <2>1, <2>3 DEF HostState
  <2>4. CASE host' = [host EXCEPT !.pos = 0, !.state = "reading"]
    BY <1>1, <2>4 DEF HostState
  <2>5. QED
    BY <1>6, <2>2, <2>3, <2>4
<1>8. UNCHANGED <<pc, devVars, irq, tx, busVars, frames, resets, aborts, open, dirty, uploaded>>
      /\ armed' \in BOOLEAN
  BY DEF HostSend
<1>9. TypeOK'
  BY <1>1, <1>5, <1>7, <1>8 DEF TypeOK, devVars, dnVars, upVars, doneVars, busVars
<1>10. QED
  BY <1>1, <1>5, <1>7, <1>9 DEF TypeInv, InvHost, InvFrame, len

LEMMA TypeBulkIn == TypeInv /\ OnBulkIn => TypeInv'
<1> SUFFICES ASSUME TypeInv, OnBulkIn PROVE TypeInv'
  OBVIOUS
<1> DEFINE remain_cnt == Sub(up_size, Sub(up_ptr, up_addr))
           n == ChunkLen(remain_cnt)
<1>1. TypeOK
  BY DEF TypeInv
<1>2. remain_cnt \in Mem
  BY <1>1, WordRange DEF TypeOK
<1>3. n \in Nat /\ n \in Mem
  <2>1. pktsize \in Nat /\ remain_cnt \in Nat /\ remain_cnt < W
    BY <1>1, <1>2, PktAssumption, WordAssumption DEF TypeOK, Mem
  <2> HIDE DEF remain_cnt
  <2>2. QED
    BY <2>1, WordAssumption DEF ChunkLen, Least, Mem
<1> HIDE DEF n, remain_cnt
<1>4. /\ tx' = IF n > 0 THEN [from |-> up_ptr, cnt |-> n] ELSE tx
      /\ up_ptr' = Add(up_ptr, n) /\ pass' = {}
  BY DEF OnBulkIn, n, remain_cnt
<1>5. tx' \in Chunk /\ up_ptr' \in Mem /\ pass' \subseteq Causes
  BY <1>1, <1>3, <1>4, WordRange DEF Chunk, TypeOK
<1>6. UNCHANGED <<pc, dnVars, up_addr, up_size, pktsize, doneVars, mem, irq, rx, armed,
                  busVars, hostVars, open, dirty, uploaded>>
  BY DEF OnBulkIn
<1>7. TypeOK'
  BY <1>1, <1>5, <1>6 DEF TypeOK, dnVars, doneVars, busVars, hostVars
<1>8. QED
  BY <1>6, <1>7 DEF TypeInv, InvHost, InvFrame, hostVars

LEMMA TypeDevice == TypeInv /\ Device => TypeInv'
<1> SUFFICES ASSUME TypeInv, Device PROVE TypeInv'
  OBVIOUS
<1>t. TypeOK /\ 0 \in Mem
  BY WordAssumption DEF TypeInv, Mem
<1>1. CASE Poll
  <2>1. pass' \subseteq Causes /\ irq' \subseteq Causes
    BY <1>t, <1>1 DEF Poll, TypeOK, Causes
  <2>2. UNCHANGED <<pc, dnVars, upVars, pktsize, doneVars, mem, rx, tx, armed, busVars,
                    hostVars, open, dirty, uploaded>>
    BY <1>1 DEF Poll
  <2>3. QED
    BY <2>1, <2>2
    DEF TypeInv, TypeOK, InvHost, InvFrame, dnVars, upVars, doneVars, busVars, hostVars
<1>2. CASE OnReset \/ OnEmptyFifo \/ Boot
  <2>1. /\ pass' \subseteq Causes /\ pc' \in {"init", "poll", "run", "noUsb"}
        /\ UNCHANGED <<dnVars, upVars, pktsize, doneVars, mem, irq, rx, tx, armed, busVars,
                       hostVars, open, dirty, uploaded>>
    BY <1>t, <1>2 DEF OnReset, OnEmptyFifo, Boot, TypeOK
  <2>2. QED
    BY <2>1
    DEF TypeInv, TypeOK, InvHost, InvFrame, dnVars, upVars, doneVars, busVars, hostVars
<1>3. CASE OnEnumDone
  <2>1. UNCHANGED <<pc, upVars, doneVars, mem, rx, tx, busVars, hostVars>>
    BY <1>3 DEF OnEnumDone
  <2>2. CASE dsts = "other"
    <3>1. /\ pass' \subseteq Causes /\ irq' \subseteq Causes
          /\ UNCHANGED <<dnVars, pktsize, armed, open, dirty, uploaded>>
      BY <1>3, <1>t, <2>2 DEF OnEnumDone, TypeOK
    <3>2. QED
      BY <2>1, <3>1
      DEF TypeInv, TypeOK, InvHost, InvFrame, dnVars, upVars, doneVars, busVars, hostVars
  <2>3. CASE dsts # "other"
    <3>1. SetInit /\ UNCHANGED irq
      BY <1>3, <2>3 DEF OnEnumDone
    <3>2. open' \in BOOLEAN /\ dirty' \in BOOLEAN /\ uploaded' \in BOOLEAN
      BY <1>3, <2>3, Zenon DEF OnEnumDone
    <3>3. /\ pass' \subseteq Causes /\ pktsize' \in {0, HighPkt, FullPkt}
          /\ dn_addr' = 0 /\ dn_filesize' = 0 /\ dn_ptr' = 0 /\ armed' \in BOOLEAN
          /\ UNCHANGED <<s3c_usbd_dn_addr, s3c_usbd_dn_cnt>>
      BY <1>t, <3>1 DEF SetInit, MaxPktsize, TypeOK
    <3>4. QED
      BY <1>t, <2>1, <3>1, <3>2, <3>3
      DEF TypeInv, TypeOK, InvHost, InvFrame, upVars, doneVars, busVars, hostVars
  <2>4. QED
    BY <2>2, <2>3
<1>4. CASE OnPacket
  BY <1>4, TypePacket
<1>5. CASE OnBulkIn
  BY <1>5, TypeBulkIn
<1>6. QED
  BY <1>1, <1>2, <1>3, <1>4, <1>5 DEF Device

LEMMA TypeBus == TypeInv /\ (BusReset \/ \E s \in Speeds : EnumDone(s)) => TypeInv'
<1> SUFFICES ASSUME TypeInv, BusReset \/ \E s \in Speeds : EnumDone(s) PROVE TypeInv'
  OBVIOUS
<1>t. TypeOK /\ NoPacket \in Packet /\ NoPacket.cnt = 0 /\ NoChunk \in Chunk
  BY WordAssumption DEF TypeInv, NoPacket, Packet, NoChunk, Chunk, Mem
<1>1. CASE BusReset
  <2>1. host' \in HostState /\ host'.state # "sending"
    BY <1>t, <1>1 DEF BusReset, HostState, TypeOK
  <2>2. /\ rx' \in Packet /\ tx' \in Chunk /\ irq' \subseteq Causes
        /\ enumerated' = FALSE /\ resets' \in Nat /\ rx' \in {rx, NoPacket}
    BY <1>t, <1>1 DEF BusReset, TypeOK, Causes
  <2>3. UNCHANGED <<pc, devVars, dsts, armed, frames, aborts, open, dirty, uploaded>>
    BY <1>1 DEF BusReset
  <2>4. TypeOK'
    BY <1>t, <2>1, <2>2, <2>3 DEF TypeOK, devVars, dnVars, upVars, doneVars
  <2>5. QED
    BY <1>t, <2>1, <2>2, <2>4 DEF TypeInv, InvHost, InvFrame
<1>2. CASE \E s \in Speeds : EnumDone(s)
  <2>1. /\ enumerated' \in BOOLEAN /\ dsts' \in Speeds /\ irq' \subseteq Causes
        /\ UNCHANGED <<pc, devVars, rx, tx, armed, hostVars, open, dirty, uploaded>>
    BY <1>t, <1>2 DEF EnumDone, TypeOK, Causes
  <2>2. QED
    BY <2>1
    DEF TypeInv, TypeOK, InvHost, InvFrame, devVars, dnVars, upVars, doneVars, hostVars
<1>3. QED
  BY <1>1, <1>2

\* Any frame may be started.
StartSome ==
    \/ \E f \in Files, j \in Junk : HostStart(f, j)
    \/ \E u \in Uploads : HostStart(u, 0)

LEMMA TypeHost ==
    TypeInv /\ (HostReady \/ StartSome \/ HostInToken \/ HostRead \/ HostAbort) => TypeInv'
<1> SUFFICES ASSUME TypeInv,
                    HostReady \/ StartSome \/ HostInToken \/ HostRead \/ HostAbort
             PROVE  TypeInv'
  OBVIOUS
<1>t. TypeOK
  BY DEF TypeInv
<1>1. CASE HostReady
  <2>1. host' \in HostState /\ host'.state = "ready"
    BY <1>t, <1>1 DEF HostReady, HostState, TypeOK
  <2>2. UNCHANGED <<pc, devVars, irq, rx, tx, armed, busVars, frames, resets, aborts, open,
                    dirty, uploaded>>
    BY <1>1 DEF HostReady
  <2>3. QED
    BY <2>1, <2>2
    DEF TypeInv, TypeOK, InvHost, InvFrame, devVars, dnVars, upVars, doneVars, busVars
<1>2. CASE StartSome
  <2>1. PICK f \in Frames, j \in Nat : HostStart(f, j)
    BY <1>2, WordAssumption DEF StartSome, Frames
  <2>2. /\ host' = [state |-> "sending", frame |-> f, pos |-> 0, junk |-> j]
        /\ frames' = frames + 1
        /\ UNCHANGED <<pc, devVars, irq, rx, tx, armed, busVars, resets, aborts, uploaded>>
    BY <2>1 DEF HostStart
  <2>3. open' \in BOOLEAN /\ dirty' \in BOOLEAN
    BY <2>1, Zenon DEF HostStart
  <2>4. host' \in HostState /\ frames' \in Nat
    BY <1>t, <2>2 DEF HostState, TypeOK
  <2>5. InvHost'
    BY <2>2, FrameRange DEF InvHost
  <2>6. QED
    BY <2>2, <2>3, <2>4, <2>5
    DEF TypeInv, TypeOK, InvFrame, devVars, dnVars, upVars, doneVars, busVars
<1>3. CASE HostInToken
  <2>1. /\ irq' \subseteq Causes
        /\ UNCHANGED <<pc, devVars, rx, tx, armed, busVars, hostVars, open, dirty, uploaded>>
    BY <1>t, <1>3 DEF HostInToken, TypeOK, Causes
  <2>2. QED
    BY <2>1
    DEF TypeInv, TypeOK, InvHost, InvFrame, devVars, dnVars, upVars, doneVars, busVars,
        hostVars
<1>4. CASE HostRead
  <2>1. host' \in HostState /\ host'.state # "sending"
    <3>1. PICK st \in {"ready", "reading"} :
              host' = [host EXCEPT !.pos = @ + tx.cnt, !.state = st]
      BY <1>4 DEF HostRead
    <3>2. host \in HostState /\ host.pos \in Nat /\ tx.cnt \in Nat
      BY <1>t DEF TypeOK, HostState, Chunk
    <3>3. host.pos + tx.cnt \in Nat
      BY <3>2
    <3>4. QED
      BY <3>1, <3>2, <3>3 DEF HostState
  <2>2. /\ tx' \in Chunk
        /\ UNCHANGED <<pc, devVars, irq, rx, armed, busVars, frames, resets, aborts, open,
                       dirty, uploaded>>
    BY <1>4, WordAssumption DEF HostRead, NoChunk, Chunk, Mem
  <2>3. QED
    BY <2>1, <2>2
    DEF TypeInv, TypeOK, InvHost, InvFrame, devVars, dnVars, upVars, doneVars, busVars
<1>5. CASE HostAbort
  <2>1. host' \in HostState /\ host'.state = "ready" /\ aborts' \in Nat
    BY <1>t, <1>5 DEF HostAbort, HostState, TypeOK
  <2>2. dirty' = (dirty \/ host.state = "reading")
    BY <1>5 DEF HostAbort
  <2>3. UNCHANGED <<pc, devVars, irq, rx, tx, armed, busVars, frames, resets, open, uploaded>>
    BY <1>5 DEF HostAbort
  <2>4. dirty' \in BOOLEAN
    BY <2>2, Zenon
  <2>5. QED
    BY <2>1, <2>3, <2>4
    DEF TypeInv, TypeOK, InvHost, InvFrame, devVars, dnVars, upVars, doneVars, busVars
<1>6. QED
  BY <1>1, <1>2, <1>3, <1>4, <1>5

LEMMA TypeUsbInit == TypeInv /\ (\E ok \in BOOLEAN : UsbInit(ok)) => TypeInv'
<1> SUFFICES ASSUME TypeInv, NEW ok \in BOOLEAN, UsbInit(ok) PROVE TypeInv'
  OBVIOUS
<1>1. /\ pc' \in {"init", "poll", "run", "noUsb"}
      /\ s3c_receive_done' \in {0, 1} /\ s3c_usbd_dn_cnt' \in Mem
  BY WordAssumption DEF UsbInit, Mem
<1>2. UNCHANGED <<pass, dn_addr, dn_filesize, dn_ptr, s3c_usbd_dn_addr, upVars, pktsize,
                  checksum, mem, irq, rx, tx, armed, busVars, hostVars, open, dirty, uploaded>>
  BY DEF UsbInit
<1>3. QED
  BY <1>1, <1>2 DEF TypeInv, TypeOK, InvHost, InvFrame, upVars, busVars, hostVars

LEMMA TypeStep == TypeInv /\ [Next]_vars => TypeInv'
<1> SUFFICES ASSUME TypeInv, [Next]_vars PROVE TypeInv'
  OBVIOUS
<1>1. CASE UNCHANGED vars
  BY <1>1
  DEF TypeInv, TypeOK, InvHost, InvFrame, vars, dnVars, upVars, doneVars, busVars, hostVars
<1>2. CASE Next
  BY <1>2, TypeUsbInit, TypeDevice, TypeBus, TypeHost, TypeSend DEF Next, StartSome
<1>3. QED
  BY <1>1, <1>2

\* Every value the driver, the core and the host keep stays in its type: the
\* u32 arithmetic of otg.dn_* and otg.up_* never leaves its 2^32 values, for
\* images and packets of any size.
THEOREM TypeCorrect == Spec => []TypeOK
<1>1. TypeInv => TypeOK
  BY DEF TypeInv
<1>2. QED
  BY TypeInit, TypeStep, <1>1, PTL DEF Spec

-----------------------------------------------------------------------------
(* The induction for BootsIntact.                                           *)

LEMMA IInit == Init => IInv
<1> SUFFICES ASSUME Init PROVE IInv
  OBVIOUS
<1>1. /\ rx.cnt = 0 /\ host.state = "detached" /\ ~enumerated /\ pc # "run"
      /\ s3c_receive_done = 0 /\ dn_filesize = 0 /\ ~open
  BY DEF Init, NoPacket
<1>2. QED
  BY <1>1, TypeInit DEF IInv, InvShort, InvPkt, InvDone, InvRx, InvImage

\* What InvShort, InvPkt and InvDone need is kept by every step.
LEMMA ShortStep == IInv /\ Next => InvShort'
<1> SUFFICES ASSUME IInv, Next PROVE InvShort'
  OBVIOUS
<1>i. TypeOK /\ InvHost /\ InvShort /\ InvPkt /\ host \in HostState
  BY DEF IInv, TypeInv, TypeOK
<1>1. CASE UNCHANGED <<host, open>>
  BY <1>1, <1>i DEF InvShort
<1>2. CASE BusReset \/ HostReady \/ HostAbort
  <2>1. host'.state \in {"detached", "ready"}
    BY <1>2, <1>i DEF BusReset, HostReady, HostAbort, HostState
  <2>2. QED
    BY <2>1 DEF InvShort
<1>3. CASE OnEnumDone
  <2>1. host' = host /\ host.state = "detached"
    BY <1>3, <1>i DEF OnEnumDone, Serves, InvPkt, hostVars
  <2>2. QED
    BY <2>1 DEF InvShort
<1>4. CASE StartSome
  <2>1. PICK f \in Frames, j \in Nat : HostStart(f, j)
    BY <1>4, WordAssumption DEF StartSome, Frames
  <2>2. /\ host' = [state |-> "sending", frame |-> f, pos |-> 0, junk |-> j]
        /\ open' = (open \/ FrameLen(f) # 10)
    BY <2>1 DEF HostStart
  <2>3. QED
    BY <2>2 DEF InvShort
<1>5. CASE HostSend
  <2> DEFINE len == FrameLen(host.frame)
             c == Least(pktsize, len - host.pos)
  <2>1. host.state = "sending" /\ host.frame \in Frames /\ host.pos \in Nat /\ open' = open
    BY <1>5, <1>i DEF HostSend, InvHost, HostState
  <2>2. pktsize \in Nat /\ pktsize > 10 /\ len \in Nat
    BY <1>i, <2>1, PktAssumption, FrameRange DEF InvPkt, TypeOK
  <2> HIDE DEF len
  <2>3. \/ host' = [host EXCEPT !.pos = @ + c] /\ host.pos + c # len
        \/ host'.state = "ready"
        \/ host' = [host EXCEPT !.pos = 0, !.state = "reading"] /\ host.frame \notin Files
    BY <1>5, <1>i DEF HostSend, HostState, len
  <2>4. CASE host' = [host EXCEPT !.pos = @ + c] /\ host.pos + c # len
    <3>1. host'.state = host.state /\ host'.frame = host.frame
      BY <1>i, <2>4 DEF HostState
    <3>2. len # 10
      BY <1>i, <2>1, <2>2, <2>4 DEF InvShort, Least, len
    <3>3. QED
      BY <1>i, <2>1, <3>1, <3>2 DEF InvShort, len
  <2>5. CASE host'.state = "ready"
    BY <2>5 DEF InvShort
  <2>6. CASE host' = [host EXCEPT !.pos = 0, !.state = "reading"] /\ host.frame \notin Files
    <3>1. host'.state = "reading" /\ host'.frame = host.frame /\ host.frame \in Uploads
      BY <1>i, <2>1, <2>6 DEF HostState, Frames
    <3>2. QED
      BY <3>1 DEF InvShort
  <2>7. QED
    BY <2>3, <2>4, <2>5, <2>6
<1>6. CASE HostRead
  <2>1. host'.state \in {"ready", "reading"} /\ host'.frame = host.frame
    BY <1>6, <1>i DEF HostRead, HostState
  <2>2. QED
    BY <1>6, <1>i, <2>1 DEF HostRead, InvShort
<1>7. QED
  BY <1>1, <1>2, <1>3, <1>4, <1>5, <1>6
  DEF Next, Device, StartSome, UsbInit, Poll, OnReset, OnPacket, OnEmptyFifo, OnBulkIn, Boot,
      EnumDone, HostInToken, hostVars

LEMMA PktStep == IInv /\ Next => InvPkt'
<1> SUFFICES ASSUME IInv, Next PROVE InvPkt'
  OBVIOUS
<1>i. TypeOK /\ InvPkt /\ host \in HostState /\ pass \subseteq Causes /\ irq \subseteq Causes
  BY DEF IInv, TypeInv, TypeOK
<1>1. CASE /\ UNCHANGED <<pktsize, enumerated, dsts>>
           /\ "ENUMDONE" \in (irq \union pass) <=> "ENUMDONE" \in (irq' \union pass')
           /\ host.state = "detached" => host'.state = "detached"
  BY <1>1, <1>i DEF InvPkt
<1>2. CASE OnEnumDone
  <2>1. host' = host /\ host.state = "detached"
    BY <1>2, <1>i DEF OnEnumDone, Serves, InvPkt, hostVars
  <2>2. dsts' = dsts /\ (dsts # "other" => pktsize' # 0)
    BY <1>2, PktAssumption DEF OnEnumDone, SetInit, MaxPktsize, busVars
  <2>3. QED
    BY <2>1, <2>2 DEF InvPkt
<1>3. CASE BusReset
  <2>1. host'.state = "detached" /\ enumerated' = FALSE
    BY <1>3, <1>i DEF BusReset, HostState
  <2>2. QED
    BY <2>1 DEF InvPkt
<1>4. CASE \E s \in Speeds : EnumDone(s)
  <2>1. host' = host /\ host.state = "detached" /\ "ENUMDONE" \in irq'
    BY <1>4, <1>i DEF EnumDone, InvPkt, hostVars
  <2>2. QED
    BY <2>1 DEF InvPkt
<1>5. CASE HostReady
  <2>1. UNCHANGED <<pktsize, enumerated, dsts, irq, pass>>
    BY <1>5 DEF HostReady, devVars, busVars
  <2>2. enumerated /\ dsts # "other" /\ "ENUMDONE" \notin irq \union pass
    BY <1>5 DEF HostReady
  <2>3. QED
    BY <2>1, <2>2, <1>i DEF InvPkt
<1>6. CASE StartSome \/ HostSend \/ HostRead \/ HostAbort
  <2>1. host.state # "detached" /\ UNCHANGED <<pktsize, enumerated, dsts, irq, pass>>
    BY <1>6 DEF StartSome, HostStart, HostSend, HostRead, HostAbort, devVars, busVars
  <2>2. QED
    BY <2>1, <1>i DEF InvPkt
<1>7. CASE Poll \/ OnReset \/ OnPacket \/ OnEmptyFifo \/ OnBulkIn \/ HostInToken
           \/ Boot \/ \E ok \in BOOLEAN : UsbInit(ok)
  <2>1. UNCHANGED <<pktsize, enumerated, dsts, host>>
    BY <1>7 DEF Poll, OnReset, OnPacket, OnEmptyFifo, OnBulkIn, HostInToken, Boot, UsbInit,
                devVars, busVars, hostVars
  <2>2. "ENUMDONE" \in (irq \union pass) <=> "ENUMDONE" \in (irq' \union pass')
    BY <1>7 DEF Poll, OnReset, OnPacket, OnEmptyFifo, OnBulkIn, HostInToken, Boot, UsbInit,
                Serves, devVars
  <2>3. QED
    BY <1>1, <2>1, <2>2
<1>8. QED
  BY <1>2, <1>3, <1>4, <1>5, <1>6, <1>7 DEF Next, Device, StartSome

LEMMA DoneStep == IInv /\ Next => InvDone'
<1> SUFFICES ASSUME IInv, Next PROVE InvDone'
  OBVIOUS
<1>i. InvDone /\ InvRx /\ InvImage /\ TypeOK
  BY DEF IInv, TypeInv
<1>1. CASE /\ UNCHANGED <<pc, pass, s3c_receive_done>>
           /\ (~dirty' => ~dirty) /\ (open => open')
  BY <1>1, <1>i DEF InvDone
<1>2. CASE \E ok \in BOOLEAN : UsbInit(ok)
  <2>1. s3c_receive_done' = 0 /\ pc' # "run"
    BY <1>2 DEF UsbInit
  <2>2. QED
    BY <2>1 DEF InvDone
<1>3. CASE Boot
  BY <1>3, <1>i DEF Boot, InvDone, doneVars
<1>4. CASE Poll \/ OnReset \/ OnEnumDone \/ OnEmptyFifo
  <2>1. s3c_receive_done = 0
    BY <1>4, <1>i DEF Poll, OnReset, OnEnumDone, OnEmptyFifo, Serves, InvDone, TypeOK
  <2>2. s3c_receive_done' = 0 /\ pc' = pc
    BY <1>4, <2>1 DEF Poll, OnReset, OnEnumDone, OnEmptyFifo, doneVars
  <2>3. QED
    BY <1>i, <2>1, <2>2 DEF InvDone
<1>5. CASE OnPacket
  <2>1. pc' = pc /\ pc # "run" /\ UNCHANGED <<open, dirty>> /\ pass' \subseteq {"INEP"}
    BY <1>5, <1>i DEF OnPacket, Serves, TypeOK, Causes
  <2>2. s3c_receive_done' = 1 /\ ~dirty => open
    <3>1. s3c_receive_done = 0
      BY <1>5, <1>i DEF OnPacket, Serves, InvDone, TypeOK
    <3>2. s3c_receive_done' = 1 => dn_filesize # 0
      BY <1>5, <3>1 DEF OnPacket, UploadStart, DownloadStart, doneVars
    <3>3. QED
      BY <3>2, <1>i DEF InvImage
  <2>3. QED
    BY <2>1, <2>2 DEF InvDone
<1>6. CASE OnBulkIn
  <2>1. pc' = pc /\ pass' = {} /\ UNCHANGED <<s3c_receive_done, open, dirty>>
    BY <1>6 DEF OnBulkIn, doneVars
  <2>2. QED
    BY <2>1, <1>i DEF InvDone
<1>7. CASE BusReset \/ (\E s \in Speeds : EnumDone(s)) \/ HostReady \/ HostSend
           \/ HostInToken \/ HostRead
  <2>1. UNCHANGED <<pc, pass, s3c_receive_done, open, dirty>>
    BY <1>7 DEF BusReset, EnumDone, HostReady, HostSend, HostInToken, HostRead, devVars,
                doneVars
  <2>2. QED
    BY <2>1, <1>i DEF InvDone
<1>8. CASE StartSome \/ HostAbort
  <2>1. UNCHANGED <<pc, pass, s3c_receive_done>>
    BY <1>8 DEF StartSome, HostStart, HostAbort, devVars, doneVars
  <2>2. (~dirty' => ~dirty) /\ (open => open')
    <3>1. CASE StartSome
      <4>1. PICK f, j : HostStart(f, j)
        BY <3>1 DEF StartSome
      <4>2. dirty' = (dirty \/ open) /\ open' = (open \/ FrameLen(f) # 10)
        BY <4>1, Zenon DEF HostStart
      <4>3. QED
        BY <4>2, Zenon
    <3>2. CASE HostAbort
      <4>1. dirty' = (dirty \/ host.state = "reading") /\ open' = open
        BY <3>2, Zenon DEF HostAbort
      <4>2. QED
        BY <4>1, Zenon
    <3>3. QED
      BY <1>8, <3>1, <3>2
  <2>3. QED
    BY <1>1, <2>1, <2>2
<1>9. QED
  BY <1>2, <1>3, <1>4, <1>5, <1>6, <1>7, <1>8 DEF Next, Device, StartSome

\* InvRx and InvImage, for the steps that change what they speak of.
LEMMA ImageSame ==
    ASSUME InvRx, InvImage,
           UNCHANGED <<dn_addr, dn_filesize, dn_ptr, s3c_usbd_dn_addr, mem, host.frame,
                       host.pos, open, s3c_receive_done>>,
           rx' = rx \/ rx'.cnt = 0,
           ~dirty' => ~dirty,
           host'.state = "sending" => host.state = "sending" /\ rx' = rx
    PROVE  InvRx' /\ InvImage'
<1>1. InvRx'
  BY DEF InvRx, ShortWaits, NextWaits, Taken
<1>2. InvImage'
  BY DEF InvImage, Taken, Holds
<1>3. QED
  BY <1>1, <1>2

\* DownloadStart takes the first packet of the only image frame.
LEMMA StartImage ==
    ASSUME IInv, OnPacket, ~dirty, dn_filesize = 0, NEW h \in HeaderOf(rx), DownloadStart(h)
    PROVE  InvImage'
<1>i. TypeOK /\ InvRx /\ InvImage /\ InvDone /\ rx.cnt > 0 /\ rx.cnt # 10
  BY DEF IInv, TypeInv, OnPacket, DownloadStart
<1>1. /\ open /\ rx.frame = host.frame /\ rx.from = 0 /\ rx.cnt = host.pos /\ rx.cnt > 10
      /\ host.frame \in Files /\ host.pos <= Size[host.frame] + 10 /\ Size[host.frame] > 0
  BY <1>i DEF InvRx, ShortWaits, NextWaits, Taken, InvImage, TypeOK, Packet, Mem
<1> DEFINE f == host.frame
           z == Size[host.frame]
<1>2. z \in Nat /\ DlAddr + z + 16 < W /\ DlAddr \in Nat /\ DlAddr \in Mem /\ W \in Nat
      /\ DlAddr % 2 = 0
  BY <1>1, FramesAssumption, WordAssumption DEF Mem
<1>3. h = <<DlAddr, z + 10>>
  BY <1>1 DEF HeaderOf, HdrAddr, HdrSize
<1>4. EvenAddr(h[1]) = DlAddr
  BY <1>2, <1>3 DEF EvenAddr
<1>5. rx.cnt \in Nat /\ rx.cnt - 8 \in Nat /\ rx.cnt - 8 > 0
  <2>1. rx.cnt \in Nat
    BY <1>i DEF TypeOK, Packet, Mem
  <2>2. QED
    BY <2>1, <1>1
<1>6. /\ dn_addr' = DlAddr /\ s3c_usbd_dn_addr' = DlAddr /\ dn_filesize' = z + 10
      /\ mem' = ReadOutFifo(rx, 8, rx.cnt - 8, DlAddr)
      /\ dn_ptr' = FirstPtr(DlAddr)
  BY <1>3, <1>4 DEF DownloadStart, RecordHeader
<1>7. dn_ptr' = DlAddr + (rx.cnt - 8)
  BY <1>1, <1>2, <1>5, <1>6 DEF FirstPtr, Add, Sub
<1>8. \A k \in 0 .. (rx.cnt - 8) - 1 : mem'[DlAddr + k] = <<f, k + 8>>
  <2>1. DlAddr + (rx.cnt - 8) + 3 < W
    BY <1>1, <1>2, <1>5
  <2>2. \A k \in 0 .. (rx.cnt - 8) - 1 :
            mem'[DlAddr + k] = <<rx.frame, rx.from + 8 + k>>
    BY <1>i, <1>2, <1>5, <1>6, <2>1, ReadOutWrites
  <2>3. QED
    BY <1>1, <1>5, <2>2
<1>9. UNCHANGED <<host, open, dirty, s3c_receive_done>> /\ s3c_receive_done = 0
  BY <1>i DEF OnPacket, DownloadStart, doneVars, hostVars, Serves, InvDone, TypeOK
<1>10. Holds(f, dn_ptr - DlAddr)'
  BY <1>1, <1>2, <1>5, <1>7, <1>8, <1>9 DEF Holds
<1>11. rx'.cnt = 0 /\ Taken' = host'.pos
  BY <1>1, <1>2, <1>5, <1>6, <1>7, <1>9 DEF OnPacket, NoPacket, Taken
<1>12. QED
  BY <1>1, <1>2, <1>5, <1>6, <1>7, <1>9, <1>10, <1>11 DEF InvImage

\* DownloadContinue takes the next packet of the only image frame.
LEMMA ContinueImage ==
    ASSUME IInv, OnPacket, ~dirty, dn_filesize # 0, DownloadContinue
    PROVE  InvImage'
<1>i. TypeOK /\ InvRx /\ InvImage /\ InvDone /\ rx.cnt > 0
  BY DEF IInv, TypeInv, OnPacket
<1>1. /\ open /\ rx.frame = host.frame /\ rx.from = dn_ptr - DlAddr + 8
      /\ rx.from + rx.cnt = host.pos
  BY <1>i DEF InvRx, ShortWaits, NextWaits, Taken
<1> DEFINE f == host.frame
           z == Size[host.frame]
<1>2. /\ f \in Files /\ z > 0 /\ host.pos <= z + 10
      /\ dn_filesize = z + 10 /\ dn_addr = DlAddr /\ s3c_usbd_dn_addr = DlAddr
      /\ dn_ptr > DlAddr + 2 /\ Holds(f, dn_ptr - DlAddr)
  BY <1>i, <1>1 DEF InvImage
<1>3. z \in Nat /\ DlAddr + z + 16 < W /\ DlAddr \in Nat /\ W \in Nat
  BY <1>2, FramesAssumption, WordAssumption DEF Mem
<1>4. rx.cnt \in Nat /\ dn_ptr \in Nat /\ dn_ptr \in Mem /\ host.pos \in Nat
  BY <1>i DEF TypeOK, Packet, Mem, HostState
<1>5. dn_ptr + rx.cnt = DlAddr + host.pos - 8
  BY <1>1, <1>3, <1>4
<1>6. /\ mem' = ReadOutFifo(rx, 0, rx.cnt, dn_ptr)
      /\ dn_ptr' = Add(dn_ptr, rx.cnt)
      /\ UNCHANGED <<dn_addr, dn_filesize, s3c_usbd_dn_addr>>
      /\ s3c_receive_done' = 1 => AllReceived(dn_ptr') \/ s3c_receive_done = 1
  BY DEF DownloadContinue, doneVars
<1>7. dn_ptr' = dn_ptr + rx.cnt
  BY <1>2, <1>3, <1>4, <1>5, <1>6 DEF Add
<1>8. /\ \A k \in 0 .. rx.cnt - 1 : mem'[dn_ptr + k] = <<rx.frame, rx.from + 0 + k>>
      /\ \A a \in Mem : a < dn_ptr => mem'[a] = mem[a]
  <2>1. dn_ptr + rx.cnt + 3 < W
    BY <1>2, <1>3, <1>4, <1>5
  <2>2. QED
    BY <1>i, <1>4, <1>6, <2>1, ReadOutWrites
<1>9. UNCHANGED <<host, open, dirty>> /\ s3c_receive_done = 0
  BY <1>i DEF OnPacket, hostVars, Serves, InvDone, TypeOK
<1>10. ASSUME NEW k \in 0 .. (dn_ptr' - DlAddr) - 1
       PROVE  mem'[DlAddr + k] = <<f, k + 8>>
  <2>1. CASE k < dn_ptr - DlAddr
    <3>1. DlAddr + k \in Mem /\ DlAddr + k < dn_ptr /\ k \in 0 .. (dn_ptr - DlAddr) - 1
      BY <1>2, <1>3, <1>4, <2>1, <1>i DEF Mem
    <3>2. mem[DlAddr + k] = <<f, k + 8>>
      BY <3>1, <1>2 DEF Holds
    <3>3. QED
      BY <1>8, <3>1, <3>2
  <2>2. CASE k >= dn_ptr - DlAddr
    <3> DEFINE m == k - (dn_ptr - DlAddr)
    <3>1. m \in 0 .. rx.cnt - 1 /\ dn_ptr + m = DlAddr + k
      BY <1>3, <1>4, <1>7, <2>2
    <3>2. rx.from + 0 + m = k + 8
      BY <1>1, <1>3, <1>4
    <3>3. mem'[dn_ptr + m] = <<rx.frame, rx.from + 0 + m>>
      BY <3>1, <1>8
    <3>4. QED
      BY <3>1, <3>2, <3>3, <1>1
  <2>3. QED
    BY <2>1, <2>2, <1>3, <1>4, <1>7
<1>11. Holds(f, dn_ptr - DlAddr)'
  BY <1>9, <1>10 DEF Holds
<1>12. rx'.cnt = 0 /\ Taken' = host'.pos
  BY <1>2, <1>3, <1>4, <1>5, <1>6, <1>7, <1>9 DEF OnPacket, NoPacket, Taken
<1>13. s3c_receive_done' = 1 => Taken' = z + 10
  <2>1. ASSUME AllReceived(dn_ptr') PROVE host.pos >= z + 10
    BY <2>1, <1>2, <1>3, <1>4, <1>5, <1>7 DEF AllReceived, Sub
  <2>2. QED
    BY <2>1, <1>2, <1>3, <1>4, <1>6, <1>9, <1>12
<1>14. QED
  BY <1>1, <1>2, <1>3, <1>4, <1>5, <1>6, <1>7, <1>9, <1>11, <1>12, <1>13 DEF InvImage

\* The handler takes a packet.
LEMMA PacketImage == IInv /\ OnPacket => InvRx' /\ InvImage'
<1> SUFFICES ASSUME IInv, OnPacket PROVE InvRx' /\ InvImage'
  OBVIOUS
<1>i. TypeOK /\ InvRx /\ InvImage /\ InvDone /\ rx.cnt > 0
  BY DEF IInv, TypeInv, OnPacket
<1>1. rx'.cnt = 0 /\ UNCHANGED <<host, open, dirty>>
  BY DEF OnPacket, NoPacket, hostVars
<1>2. InvRx'
  BY <1>1 DEF InvRx
<1>3. CASE dirty
  BY <1>1, <1>2, <1>3 DEF InvImage
<1>4. ASSUME ~dirty, dn_filesize = 0, NEW h \in HeaderOf(rx), UploadStart(h) PROVE InvImage'
  <2>1. rx.cnt = 10 /\ dn_filesize' = 0 /\ s3c_receive_done' = s3c_receive_done
    BY <1>4 DEF UploadStart, doneVars
  <2>2. ShortWaits
    BY <1>i, <1>4, <2>1 DEF InvRx, NextWaits, Taken
  <2>3. s3c_receive_done = 0
    BY <1>i DEF OnPacket, Serves, InvDone, TypeOK
  <2>4. QED
    BY <1>i, <1>1, <1>4, <2>1, <2>2, <2>3 DEF InvImage, ShortWaits, Taken
<1>5. CASE ~dirty
  <2>1. \/ dn_filesize = 0 /\ \E h \in HeaderOf(rx) : UploadStart(h) \/ DownloadStart(h)
        \/ dn_filesize # 0 /\ DownloadContinue
    BY DEF OnPacket
  <2>2. CASE dn_filesize = 0
    <3>1. PICK h \in HeaderOf(rx) : UploadStart(h) \/ DownloadStart(h)
      BY <2>1, <2>2
    <3>2. QED
      BY <1>2, <1>4, <1>5, <2>2, <3>1, StartImage
  <2>3. CASE dn_filesize # 0
    BY <1>2, <1>5, <2>1, <2>3, ContinueImage
  <2>4. QED
    BY <2>2, <2>3
<1>6. QED
  BY <1>2, <1>3, <1>5

\* The host puts a packet on the bus.
LEMMA SendImage == IInv /\ HostSend => InvRx' /\ InvImage'
<1> SUFFICES ASSUME IInv, HostSend PROVE InvRx' /\ InvImage'
  OBVIOUS
<1>i. /\ TypeOK /\ InvHost /\ InvShort /\ InvPkt /\ InvImage /\ InvDone
      /\ host \in HostState /\ host.state = "sending" /\ rx.cnt = 0
  BY DEF IInv, TypeInv, TypeOK, HostSend
<1> DEFINE len == FrameLen(host.frame)
           c == Least(pktsize, len - host.pos)
<1>1. /\ host.frame \in Frames /\ host.pos \in Nat /\ host.pos < len /\ len \in Nat
      /\ pktsize \in Nat /\ pktsize > 10 /\ len >= 10
  BY <1>i, FrameRange, PktAssumption DEF InvHost, InvPkt, HostState, TypeOK
<1>2. c \in Nat /\ host.pos + c <= len /\ (host.pos = 0 /\ len > 10 => c > 10)
      /\ (host.pos = 0 /\ len = 10 => c = 10)
  <2> HIDE DEF len
  <2> QED
    BY <1>1 DEF Least
<1> HIDE DEF c, len
<1>3. /\ rx' = [frame |-> host.frame, from |-> host.pos, cnt |-> c, junk |-> host.junk]
      /\ UNCHANGED <<dn_addr, dn_filesize, dn_ptr, s3c_usbd_dn_addr, mem, open, dirty,
                     s3c_receive_done>>
  BY DEF HostSend, c, len, devVars, dnVars, doneVars
<1>4. \/ host'.pos = host.pos + c /\ host'.frame = host.frame
      \/ host.frame \notin Files
  BY <1>i DEF HostSend, c, len, HostState
<1>5. CASE dirty
  BY <1>3, <1>5 DEF InvRx, InvImage
<1>6. CASE ~dirty /\ ~open
  <2>1. len = 10 /\ host.pos = 0 /\ dn_filesize = 0
    BY <1>6, <1>i DEF InvShort, InvImage, len
  <2>2. ShortWaits'
    BY <1>1, <1>2, <1>3, <1>6, <2>1 DEF ShortWaits, len
  <2>3. QED
    BY <1>3, <1>6, <2>1, <2>2 DEF InvRx, InvImage
<1>7. CASE ~dirty /\ open
  <2>1. /\ host.frame \in Files /\ Size[host.frame] > 0 /\ host.pos = Taken
        /\ Size[host.frame] \in Nat /\ len = Size[host.frame] + 10
    BY <1>7, <1>i, FramesAssumption DEF InvImage, FrameLen, len
  <2>2. host'.pos = host.pos + c /\ host'.frame = host.frame
    BY <1>4, <2>1
  <2>3. NextWaits'
    BY <1>1, <1>2, <1>3, <1>7, <2>1, <2>2 DEF NextWaits, Taken
  <2>4. s3c_receive_done # 1
    BY <1>1, <1>7, <1>i, <2>1 DEF InvImage
  <2>5. rx'.cnt # 0
    BY <1>1, <1>2, <1>3, <2>1 DEF Least, c
  <2>6. dn_filesize # 0 => dn_ptr \in Int /\ DlAddr \in Int
    BY <1>i, WordAssumption DEF TypeOK, Mem
  <2>7. Holds(host.frame, dn_ptr - DlAddr) => Holds(host.frame, dn_ptr - DlAddr)'
    BY <1>3, <2>2 DEF Holds
  <2>8. InvImage'
    BY <1>1, <1>2, <1>3, <1>7, <1>i, <2>1, <2>2, <2>4, <2>5, <2>6, <2>7 DEF InvImage
  <2>9. QED
    BY <2>3, <2>8 DEF InvRx
<1>8. QED
  BY <1>5, <1>6, <1>7

\* A frame is started.
LEMMA HostStartImage == IInv /\ StartSome => InvRx' /\ InvImage'
<1> SUFFICES ASSUME IInv, StartSome PROVE InvRx' /\ InvImage'
  OBVIOUS
<1>i. TypeOK /\ InvRx /\ InvImage /\ InvDone
  BY DEF IInv, TypeInv
<1>1. PICK f \in Frames, j \in Nat : HostStart(f, j)
  BY WordAssumption DEF StartSome, Frames
<1>2. /\ host' = [state |-> "sending", frame |-> f, pos |-> 0, junk |-> j]
      /\ UNCHANGED <<rx, dn_addr, dn_filesize, dn_ptr, s3c_usbd_dn_addr, mem, s3c_receive_done>>
  BY <1>1 DEF HostStart, devVars, dnVars, doneVars
<1>3. dirty' = (dirty \/ open) /\ open' = (open \/ FrameLen(f) # 10)
  BY <1>1, Zenon DEF HostStart
<1>4. CASE dirty'
  BY <1>4 DEF InvRx, InvImage
<1>5. CASE ~dirty'
  <2>1. ~dirty /\ ~open
    BY <1>3, <1>5, Zenon
  <2>2. dn_filesize = 0 /\ s3c_receive_done # 1
    BY <1>i, <2>1 DEF InvImage, InvDone
  <2>3. open' => f \in Files /\ Size[f] > 0 /\ Size[f] \in Nat
    <3>1. open' => FrameLen(f) # 10
      BY <1>3, <2>1, Zenon
    <3>2. QED
      BY <3>1, FramesAssumption DEF FrameLen
  <2>4. rx.cnt > 0 => ShortWaits'
    BY <1>2, <1>i, <2>1 DEF InvRx, NextWaits, ShortWaits
  <2>5. InvRx'
    BY <1>2, <2>4 DEF InvRx
  <2>6. InvImage'
    BY <1>2, <2>2, <2>3 DEF InvImage, Taken
  <2>7. QED
    BY <2>5, <2>6
<1>6. QED
  BY <1>4, <1>5

LEMMA ImageStep == IInv /\ Next => InvRx' /\ InvImage'
<1> SUFFICES ASSUME IInv, Next PROVE InvRx' /\ InvImage'
  OBVIOUS
<1>i. /\ TypeOK /\ InvShort /\ InvRx /\ InvImage /\ InvDone /\ host \in HostState
  BY DEF IInv, TypeInv, TypeOK
<1>1. CASE OnPacket
  BY <1>1, PacketImage
<1>2. CASE HostSend
  BY <1>2, SendImage
<1>3. CASE StartSome
  BY <1>3, HostStartImage
<1>4. CASE OnEnumDone
  <2>1. CASE dsts = "other"
    <3>1. UNCHANGED <<dn_addr, dn_filesize, dn_ptr, s3c_usbd_dn_addr, mem, host, open, dirty,
                      s3c_receive_done, rx>>
      BY <1>4, <2>1 DEF OnEnumDone, dnVars, doneVars, hostVars
    <3>2. QED
      BY <1>i, <3>1, ImageSame
  <2>2. CASE dsts # "other"
    <3>1. dn_filesize' = 0 /\ rx' = rx
      BY <1>4, <2>2 DEF OnEnumDone, SetInit, MaxPktsize
    <3>2. open' = FALSE /\ dirty' = (rx.cnt > 0 \/ tx.cnt > 0 \/ "INEP" \in pass \union irq)
      BY <1>4, <2>2, Zenon DEF OnEnumDone
    <3>3. ~open' /\ (~dirty' => ~(rx.cnt > 0))
      BY <3>2, Zenon
    <3>4. QED
      BY <3>1, <3>3 DEF InvRx, InvImage
  <2>3. QED
    BY <2>1, <2>2
<1>5. CASE \E ok \in BOOLEAN : UsbInit(ok)
  <2>1. UNCHANGED <<dn_addr, dn_filesize, dn_ptr, s3c_usbd_dn_addr, mem, host, open, dirty, rx>>
        /\ s3c_receive_done' = 0
    BY <1>5 DEF UsbInit, hostVars
  <2>2. InvRx'
    BY <1>i, <2>1 DEF InvRx, ShortWaits, NextWaits, Taken
  <2>3. InvImage'
    BY <1>i, <2>1 DEF InvImage, Taken, Holds
  <2>4. QED
    BY <2>2, <2>3
<1>6. CASE Poll \/ OnReset \/ OnEmptyFifo \/ OnBulkIn \/ Boot \/ HostInToken
           \/ \E s \in Speeds : EnumDone(s)
  <2>1. UNCHANGED <<dn_addr, dn_filesize, dn_ptr, s3c_usbd_dn_addr, mem, host, open, dirty,
                    s3c_receive_done, rx>>
    BY <1>6 DEF Poll, OnReset, OnEmptyFifo, OnBulkIn, Boot, HostInToken, EnumDone, devVars,
                dnVars, doneVars, hostVars
  <2>2. QED
    BY <1>i, <2>1, ImageSame
<1>7. CASE BusReset \/ HostReady
  <2>1. /\ UNCHANGED <<dn_addr, dn_filesize, dn_ptr, s3c_usbd_dn_addr, mem, open, dirty,
                       s3c_receive_done>>
        /\ rx' = rx \/ rx'.cnt = 0
    BY <1>7 DEF BusReset, HostReady, devVars, dnVars, doneVars, NoPacket
  <2>2. /\ host'.frame = host.frame /\ host'.pos = host.pos
        /\ host'.state # "sending"
    BY <1>7, <1>i DEF BusReset, HostReady, HostState
  <2>3. QED
    BY <1>i, <2>1, <2>2, ImageSame
<1>8. CASE HostAbort
  <2>1. /\ UNCHANGED <<dn_addr, dn_filesize, dn_ptr, s3c_usbd_dn_addr, mem, open,
                       s3c_receive_done, rx>>
    BY <1>8 DEF HostAbort, devVars, dnVars, doneVars
  <2>2. /\ host'.frame = host.frame /\ host'.pos = host.pos
        /\ host'.state # "sending"
    BY <1>8, <1>i DEF HostAbort, HostState
  <2>3. dirty' = (dirty \/ host.state = "reading")
    BY <1>8, Zenon DEF HostAbort
  <2>4. ~dirty' => ~dirty
    BY <2>3, Zenon
  <2>5. QED
    BY <1>i, <2>1, <2>2, <2>4, ImageSame
<1>9. CASE HostRead
  <2>1. /\ UNCHANGED <<dn_addr, dn_filesize, dn_ptr, s3c_usbd_dn_addr, mem, open, dirty,
                       s3c_receive_done, rx>>
        /\ host.state = "reading"
    BY <1>9 DEF HostRead, devVars, dnVars, doneVars
  <2>2. host.frame \in Uploads
    BY <1>i, <2>1 DEF InvShort
  <2>3. dirty \/ ~open
    BY <1>i, <2>2, FramesAssumption DEF InvImage
  <2>4. QED
    BY <1>i, <2>1, <2>3 DEF InvRx, ShortWaits, NextWaits, InvImage
<1>10. QED
  BY <1>1, <1>2, <1>3, <1>4, <1>5, <1>6, <1>7, <1>8, <1>9 DEF Next, Device, StartSome

LEMMA IStep == IInv /\ [Next]_vars => IInv'
<1> SUFFICES ASSUME IInv, [Next]_vars PROVE IInv'
  OBVIOUS
<1>1. TypeInv'
  BY TypeStep DEF IInv
<1>2. CASE Next
  BY <1>1, <1>2, ShortStep, PktStep, DoneStep, ImageStep DEF IInv
<1>3. CASE UNCHANGED vars
  <2>1. UNCHANGED <<pc, pass, dn_addr, dn_filesize, dn_ptr, s3c_usbd_dn_addr, pktsize, mem, irq,
                    dsts, rx, enumerated, host, open, dirty, s3c_receive_done>>
    BY <1>3 DEF vars, dnVars, doneVars, busVars, hostVars
  <2>2. (InvShort /\ InvPkt /\ InvDone)'
    BY <2>1 DEF IInv, InvShort, InvPkt, InvDone
  <2>3. InvRx' /\ InvImage'
    BY <2>1, ImageSame DEF IInv
  <2>4. QED
    BY <1>1, <2>2, <2>3 DEF IInv
<1>4. QED
  BY <1>2, <1>3

\* usb_read jumps only into one complete, ordered image at the address it
\* jumps to, for every image, packet size and sequence of bus resets, aborted
\* transfers and uploads that leaves the frame alone on its enumeration.
THEOREM OnlyIntactImagesRun == Spec => []BootsIntact
<1>1. IInv => BootsIntact
  <2> SUFFICES ASSUME IInv, pc = "run", ~dirty
               PROVE  /\ host.frame \in Files /\ s3c_usbd_dn_addr = DlAddr
                      /\ Holds(host.frame, Size[host.frame])
    BY DEF BootsIntact
  <2>1. s3c_receive_done = 1 /\ open
    BY DEF IInv, InvDone
  <2>2. /\ host.frame \in Files /\ Taken = Size[host.frame] + 10
        /\ Size[host.frame] > 0 /\ Size[host.frame] \in Nat
    BY <2>1, FramesAssumption DEF IInv, InvImage
  <2>3. dn_filesize # 0 /\ dn_ptr - DlAddr = Size[host.frame] + 2
        /\ s3c_usbd_dn_addr = DlAddr /\ Holds(host.frame, dn_ptr - DlAddr)
    <3>1. dn_ptr \in Int /\ DlAddr \in Int
      BY WordAssumption DEF IInv, TypeInv, TypeOK, Mem
    <3>2. QED
      BY <2>1, <2>2, <3>1 DEF IInv, InvImage, Taken
  <2>4. QED
    BY <2>2, <2>3 DEF Holds
<1>2. QED
  BY IInit, IStep, <1>1, PTL DEF Spec

-----------------------------------------------------------------------------
(* Consequences of the same invariant.                                      *)

\* The globals usb_read looks at are those of the download in progress.
InvCount ==
    /\ dn_filesize # 0 => s3c_usbd_dn_cnt = dn_filesize /\ s3c_usbd_dn_addr = dn_addr
    /\ s3c_receive_done = 1 => dn_filesize # 0
    /\ pc = "init" => dn_filesize = 0

LEMMA CountStep == IInv /\ InvCount /\ [Next]_vars => InvCount'
<1> SUFFICES ASSUME IInv, InvCount, [Next]_vars PROVE InvCount'
  OBVIOUS
<1>i. TypeOK /\ InvDone
  BY DEF IInv, TypeInv
<1>1. CASE OnEnumDone
  <2>1. s3c_receive_done = 0 /\ UNCHANGED <<pc, s3c_receive_done>> /\ pc = "poll"
    BY <1>1, <1>i DEF OnEnumDone, Serves, InvDone, TypeOK, doneVars
  <2>2. dn_filesize' = 0 \/ UNCHANGED dnVars
    BY <1>1 DEF OnEnumDone, SetInit, MaxPktsize
  <2>3. QED
    BY <2>1, <2>2 DEF InvCount, dnVars
<1>2. CASE OnPacket
  <2>1. s3c_receive_done = 0 /\ pc' = "poll"
    BY <1>2, <1>i DEF OnPacket, Serves, InvDone, TypeOK
  <2>2. CASE dn_filesize = 0
    <3>1. PICK h \in HeaderOf(rx) : UploadStart(h) \/ DownloadStart(h)
      BY <1>2, <2>2 DEF OnPacket
    <3>2. /\ s3c_receive_done' = s3c_receive_done
          /\ \/ dn_filesize' = 0
             \/ s3c_usbd_dn_cnt' = dn_filesize' /\ s3c_usbd_dn_addr' = dn_addr'
      BY <3>1 DEF UploadStart, DownloadStart, RecordHeader, doneVars
    <3>3. QED
      BY <2>1, <3>2 DEF InvCount
  <2>3. CASE dn_filesize # 0
    <3>1. UNCHANGED <<dn_addr, dn_filesize, s3c_usbd_dn_addr, s3c_usbd_dn_cnt>>
      BY <1>2, <2>3 DEF OnPacket, DownloadContinue
    <3>2. QED
      BY <2>1, <2>3, <3>1 DEF InvCount
  <2>4. QED
    BY <2>2, <2>3
<1>3. CASE \E ok \in BOOLEAN : UsbInit(ok)
  <2>1. pc = "init" /\ dn_filesize' = dn_filesize /\ s3c_receive_done' = 0
    BY <1>3 DEF UsbInit
  <2>2. QED
    BY <2>1 DEF InvCount
<1>4. CASE UNCHANGED <<pc, dnVars, doneVars>> \/ Boot
  BY <1>4 DEF InvCount, Boot, dnVars, doneVars
<1>5. CASE Poll \/ OnReset \/ OnEmptyFifo \/ OnBulkIn \/ BusReset
           \/ (\E s \in Speeds : EnumDone(s)) \/ HostReady \/ StartSome \/ HostSend
           \/ HostInToken \/ HostRead \/ HostAbort
  <2>1. UNCHANGED <<pc, dnVars, doneVars>>
    BY <1>5 DEF Poll, OnReset, OnEmptyFifo, OnBulkIn, BusReset, EnumDone, HostReady, StartSome,
                HostStart, HostSend, HostInToken, HostRead, HostAbort, devVars
  <2>2. QED
    BY <1>4, <2>1
<1>6. CASE UNCHANGED vars
  BY <1>6, <1>4 DEF vars
<1>7. QED
  BY <1>1, <1>2, <1>3, <1>4, <1>5, <1>6 DEF Next, Device, StartSome

\* Whatever the hosts do, once the driver reports a download usb_read has an
\* image to jump to and jumps to where the driver wrote it.
THEOREM DownloadIsRun == Spec => []CompletedDownloadBoots
<1>1. Init => InvCount
  BY DEF Init, InvCount
<1>2. InvCount => CompletedDownloadBoots
  BY DEF InvCount, CompletedDownloadBoots
<1>3. QED
  BY IInit, IStep, CountStep, <1>1, <1>2, PTL DEF Spec

\* A packet is written inside the image, its checksum and three bytes more.
LEMMA PacketWrites ==
    ASSUME IInv, OnPacket, ~dirty, NEW a \in Mem, mem'[a] # mem[a]
    PROVE  rx.frame \in Files /\ a \in DlAddr .. DlAddr + Size[rx.frame] + 4
<1>i. TypeOK /\ InvRx /\ InvImage /\ rx.cnt > 0
  BY DEF IInv, TypeInv, OnPacket
<1>c. rx.cnt \in Nat /\ DlAddr \in Nat /\ W \in Nat /\ dn_ptr \in Nat /\ dn_ptr \in Mem
      /\ DlAddr \in Mem /\ a \in Nat /\ rx.from \in Nat /\ host.pos \in Nat
  BY <1>i, WordAssumption DEF TypeOK, Packet, Mem, HostState
<1> DEFINE z == Size[host.frame]
<1>1. CASE dn_filesize = 0
  <2>1. PICK h \in HeaderOf(rx) : UploadStart(h) \/ DownloadStart(h)
    BY <1>1 DEF OnPacket
  <2>2. DownloadStart(h) /\ rx.cnt # 10
    BY <2>1 DEF UploadStart, DownloadStart
  <2>3. /\ open /\ rx.frame = host.frame /\ rx.from = 0 /\ rx.cnt = host.pos /\ rx.cnt > 10
        /\ host.frame \in Files /\ host.pos <= z + 10
    BY <1>1, <1>i, <1>c, <2>2 DEF InvRx, ShortWaits, NextWaits, Taken, InvImage
  <2>4. z \in Nat /\ DlAddr + z + 16 < W /\ DlAddr % 2 = 0
    BY <2>3, FramesAssumption, WordAssumption
  <2>5. h[1] = DlAddr /\ EvenAddr(h[1]) = DlAddr
    BY <2>3, <2>4, <1>c DEF HeaderOf, HdrAddr, EvenAddr
  <2>6. mem' = ReadOutFifo(rx, 8, rx.cnt - 8, DlAddr)
    BY <2>2, <2>5 DEF DownloadStart
  <2>7. rx.cnt - 8 \in Nat /\ rx.cnt - 8 > 0 /\ DlAddr + (rx.cnt - 8) + 3 < W
    BY <1>c, <2>3, <2>4
  <2>8. ~(a < DlAddr \/ a >= DlAddr + (rx.cnt - 8) + 3)
    <3> DEFINE n == rx.cnt - 8
    <3>1. n \in Nat /\ n > 0 /\ DlAddr + n + 3 < W
      BY <2>7
    <3> HIDE DEF n
    <3>2. \A b \in Mem : b < DlAddr \/ b >= DlAddr + n + 3 =>
              ReadOutFifo(rx, 8, n, DlAddr)[b] = mem[b]
      BY <1>i, <1>c, <3>1, ReadOutWrites
    <3>3. mem' = ReadOutFifo(rx, 8, n, DlAddr)
      BY <2>6 DEF n
    <3>4. ~(a < DlAddr \/ a >= DlAddr + n + 3)
      BY <3>2, <3>3
    <3>5. QED
      BY <3>4 DEF n
  <2>9. QED
    BY <1>c, <2>3, <2>4, <2>8
<1>2. CASE dn_filesize # 0
  <2>1. /\ rx.frame = host.frame /\ rx.from = dn_ptr - DlAddr + 8
        /\ rx.from + rx.cnt = host.pos /\ host.frame \in Files /\ host.pos <= z + 10
        /\ dn_ptr > DlAddr + 2
    BY <1>2, <1>i DEF InvRx, ShortWaits, NextWaits, Taken, InvImage
  <2>2. z \in Nat /\ DlAddr + z + 16 < W
    BY <2>1, FramesAssumption, WordAssumption
  <2>3. mem' = ReadOutFifo(rx, 0, rx.cnt, dn_ptr)
    BY <1>2 DEF OnPacket, DownloadContinue
  <2>4. dn_ptr + rx.cnt + 3 < W
    BY <1>c, <2>1, <2>2
  <2>5. ~(a < dn_ptr \/ a >= dn_ptr + rx.cnt + 3)
    BY <1>i, <1>c, <2>3, <2>4, ReadOutWrites
  <2>6. QED
    BY <1>c, <2>1, <2>2, <2>5
<1>3. QED
  BY <1>1, <1>2

\* A download changes memory only in its image, the checksum behind it and up
\* to three bytes of padding, whatever the packet size and the image's length.
THEOREM WritesStayInImage == Spec => NoStrayWrites
<1>1. ASSUME IInv, [Next]_vars, ~dirty, NEW a \in Mem, mem'[a] # mem[a]
      PROVE  rx.frame \in Files /\ a \in DlAddr .. DlAddr + Size[rx.frame] + 4
  <2>1. OnPacket \/ mem' = mem
    BY <1>1 DEF Next, Device, vars, UsbInit, Poll, OnReset, OnEnumDone, OnEmptyFifo, OnBulkIn,
                Boot, BusReset, EnumDone, HostReady, HostStart, HostSend, HostInToken, HostRead,
                HostAbort, devVars
  <2>2. QED
    BY <1>1, <2>1, PacketWrites
<1>2. IInv /\ [Next]_vars =>
          [~dirty => \A a \in Mem : mem'[a] # mem[a] =>
              /\ rx.frame \in Files
              /\ a \in DlAddr .. DlAddr + Size[rx.frame] + 4]_vars
  BY <1>1
<1>3. QED
  BY IInit, IStep, <1>2, PTL DEF Spec, NoStrayWrites
-----------------------------------------------------------------------------
(* The OUT endpoint.                                                        *)

\* A device that has served the enumeration listens, has a packet to serve, or
\* took an upload request last; a host talks only to such a device.
InvArmed ==
    /\ host.state # "detached" => dsts # "other"
    /\ (enumerated /\ dsts # "other" /\ "ENUMDONE" \notin irq \union pass) =>
           armed \/ uploaded \/ rx.cnt # 0

LEMMA ArmedPacket == InvArmed /\ OnPacket => InvArmed'
<1> SUFFICES ASSUME InvArmed, OnPacket PROVE InvArmed'
  OBVIOUS
<1>1. armed' \/ uploaded'
  <2>1. CASE dn_filesize = 0
    <3>1. PICK h \in HeaderOf(rx) : UploadStart(h) \/ DownloadStart(h)
      BY <2>1, Zenon DEF OnPacket
    <3>2. QED
      BY <3>1, Zenon DEF UploadStart, DownloadStart, Rearm
  <2>2. CASE dn_filesize # 0
    BY <2>2, Zenon DEF OnPacket, DownloadContinue, Rearm
  <2>3. QED
    BY <2>1, <2>2
<1>2. UNCHANGED <<host, dsts>>
  BY Zenon DEF OnPacket, busVars, hostVars
<1>3. QED
  BY <1>1, <1>2, Zenon DEF InvArmed

LEMMA ArmedEnumDone == InvArmed /\ OnEnumDone => InvArmed'
<1> SUFFICES ASSUME InvArmed, OnEnumDone PROVE InvArmed'
  OBVIOUS
<1>1. UNCHANGED <<host, dsts>>
  BY Zenon DEF OnEnumDone, busVars, hostVars
<1>2. dsts # "other" => armed'
  BY Zenon DEF OnEnumDone, SetInit
<1>3. QED
  BY <1>1, <1>2, Zenon DEF InvArmed

LEMMA ArmedSend == IInv /\ InvArmed /\ HostSend => InvArmed'
<1> SUFFICES ASSUME IInv, InvArmed, HostSend PROVE InvArmed'
  OBVIOUS
<1>1. host.state = "sending" /\ UNCHANGED dsts
  BY Zenon DEF HostSend, busVars
<1>2. /\ pktsize \in {HighPkt, FullPkt}
      /\ FrameLen(host.frame) - host.pos \in Nat \ {0}
  BY <1>1, FrameRange DEF IInv, TypeInv, TypeOK, InvHost, InvPkt, HostState
<1>3. Least(pktsize, FrameLen(host.frame) - host.pos) # 0
  BY <1>2, PktAssumption DEF Least
<1>4. rx'.cnt # 0
  BY <1>3 DEF HostSend
<1>5. QED
  BY <1>1, <1>4, Zenon DEF InvArmed

LEMMA ArmedStep == IInv /\ InvArmed /\ [Next]_vars => InvArmed'
<1> SUFFICES ASSUME IInv, InvArmed, [Next]_vars PROVE InvArmed'
  OBVIOUS
<1>1. CASE OnPacket \/ OnEnumDone \/ HostSend
  BY <1>1, ArmedPacket, ArmedEnumDone, ArmedSend
<1>2. CASE BusReset
  BY <1>2 DEF BusReset, InvArmed
<1>3. CASE \E s \in Speeds : EnumDone(s)
  <2>1. /\ host.state = "detached" /\ host' = host
        /\ "ENUMDONE" \in irq'
    BY <1>3 DEF EnumDone, hostVars, IInv, InvPkt
  <2>2. QED
    BY <2>1, Zenon DEF InvArmed
<1>4. CASE HostReady
  <2>1. dsts' # "other" /\ UNCHANGED <<enumerated, dsts, irq, pass, armed, uploaded, rx>>
    BY <1>4, Zenon DEF HostReady, devVars, busVars
  <2>2. QED
    BY <2>1, Zenon DEF InvArmed
<1>5. CASE StartSome \/ HostRead \/ HostAbort
  <2>1. /\ host.state # "detached"
        /\ UNCHANGED <<enumerated, dsts, irq, pass, armed, uploaded, rx>>
    BY <1>5, Zenon DEF StartSome, HostStart, HostRead, HostAbort, devVars, busVars
  <2>2. QED
    BY <2>1, Zenon DEF InvArmed
<1>6. CASE HostInToken
  <2>1. /\ UNCHANGED <<enumerated, dsts, pass, armed, uploaded, rx, host>>
        /\ irq' = irq \union {"INEP"}
    BY <1>6, Zenon DEF HostInToken, devVars, busVars, hostVars
  <2>2. QED
    BY <2>1 DEF InvArmed
<1>7. CASE Poll \/ OnReset \/ OnEmptyFifo \/ OnBulkIn \/ Boot
  <2>1. /\ UNCHANGED <<enumerated, dsts, armed, uploaded, rx, host>>
        /\ "ENUMDONE" \in irq \union pass => "ENUMDONE" \in irq' \union pass'
    BY <1>7 DEF Poll, OnReset, OnEmptyFifo, OnBulkIn, Boot, Serves, busVars, hostVars
  <2>2. QED
    BY <2>1, Zenon DEF InvArmed
<1>8. CASE (\E ok \in BOOLEAN : UsbInit(ok)) \/ UNCHANGED vars
  <2>1. UNCHANGED <<enumerated, dsts, irq, pass, armed, uploaded, rx, host>>
    BY <1>8, Zenon DEF UsbInit, vars, busVars, hostVars
  <2>2. QED
    BY <2>1, Zenon DEF InvArmed
<1>9. QED
  BY <1>1, <1>2, <1>3, <1>4, <1>5, <1>6, <1>7, <1>8 DEF Next, Device, StartSome

\* The endpoint never goes deaf in the middle of a transfer, unless an upload
\* request was taken last (s3c_usb_upload_start does not arm it again).
THEOREM EndpointListens == Spec => []OutArmed
<1>1. Init => InvArmed
  BY DEF Init, InvArmed
<1>2. IInv /\ InvArmed => OutArmed
  <2> SUFFICES ASSUME IInv, InvArmed, pass = {}, rx.cnt = 0, host.state = "sending"
               PROVE  armed \/ uploaded
    BY DEF OutArmed
  <2>1. enumerated /\ dsts # "other" /\ "ENUMDONE" \notin irq \union pass
    BY DEF IInv, InvPkt, InvArmed
  <2>2. QED
    BY <2>1 DEF InvArmed
<1>3. QED
  BY IInit, IStep, ArmedStep, <1>1, <1>2, PTL DEF Spec
-----------------------------------------------------------------------------
(* Uploads.                                                                 *)

Quiet == tx.cnt = 0 /\ "INEP" \notin irq \union pass

\* Nothing is left of an earlier upload when a host can start another.
InvQuiet == ~dirty =>
    /\ host.state \in {"ready", "sending"} => Quiet
    /\ (host.state = "detached" /\ enumerated /\ dsts # "other"
        /\ "ENUMDONE" \notin irq \union pass) => Quiet

\* The request that waits is served before the IN token that follows it.
Asked ==
    /\ rx.frame = host.frame /\ host.pos = 0 /\ tx.cnt = 0
    /\ "INEP" \in pass => "RX" \in pass

\* The pointer is behind what the host has and what waits for it.
Serving ==
    LET u == host.frame IN
    /\ up_addr = UpAddr[u] /\ up_size = UpSize[u]
    /\ host.pos < UpSize[u] /\ host.pos + tx.cnt <= UpSize[u]
    /\ up_ptr = UpAddr[u] + host.pos + tx.cnt
    /\ tx.cnt > 0 => tx.from = UpAddr[u] + host.pos /\ "INEP" \notin irq \union pass

InvReading == (~dirty /\ host.state = "reading") => IF rx.cnt > 0 THEN Asked ELSE Serving

\* One IN token at a time.
InvToken == "INEP" \notin irq \cap pass

InvUpload == InvToken /\ InvQuiet /\ InvReading

LEMMA QuietStep == IInv /\ InvUpload /\ Next => InvQuiet'
<1> SUFFICES ASSUME IInv, InvUpload, Next PROVE InvQuiet'
  OBVIOUS
<1>i. InvQuiet /\ InvPkt /\ TypeOK /\ host \in HostState
  BY DEF IInv, TypeInv, TypeOK, InvUpload
<1>1. CASE OnEnumDone
  <2>1. host.state = "detached" /\ host' = host /\ dsts' = dsts
    BY <1>1, <1>i DEF OnEnumDone, Serves, InvPkt, hostVars, busVars
  <2>2. CASE dsts = "other"
    BY <2>1, <2>2, Zenon DEF InvQuiet
  <2>3. CASE dsts # "other"
    <3>1. /\ dirty' = (rx.cnt > 0 \/ tx.cnt > 0 \/ "INEP" \in pass \union irq)
          /\ irq' = irq /\ tx' = tx /\ pass' = pass \ {"ENUMDONE"}
      BY <1>1, <2>3, Zenon DEF OnEnumDone, SetInit
    <3>2. tx.cnt > 0 \/ tx.cnt = 0
      BY <1>i DEF TypeOK, Chunk
    <3>3. QED
      BY <3>1, <3>2 DEF InvQuiet, Quiet
  <2>4. QED
    BY <2>2, <2>3
<1>2. CASE BusReset
  <2>1. host'.state = "detached" /\ enumerated' = FALSE
    BY <1>2, <1>i DEF BusReset, HostState
  <2>2. QED
    BY <2>1 DEF InvQuiet
<1>3. CASE \E s \in Speeds : EnumDone(s)
  <2>1. host' = host /\ host.state = "detached" /\ "ENUMDONE" \in irq'
    BY <1>3, <1>i DEF EnumDone, InvPkt, hostVars
  <2>2. QED
    BY <2>1 DEF InvQuiet
<1>4. CASE HostReady
  <2>1. UNCHANGED <<tx, irq, pass, dirty>>
    BY <1>4, Zenon DEF HostReady, devVars
  <2>2. /\ host.state = "detached" /\ enumerated /\ dsts # "other"
        /\ "ENUMDONE" \notin irq \union pass /\ host'.state = "ready"
    BY <1>4, <1>i DEF HostReady, HostState
  <2>3. QED
    BY <2>1, <2>2, <1>i DEF InvQuiet, Quiet
<1>5. CASE StartSome \/ HostSend
  <2>1. host.state \in {"ready", "sending"} /\ UNCHANGED <<tx, irq, pass>>
    BY <1>5, Zenon DEF StartSome, HostStart, HostSend, devVars
  <2>2. ~dirty' => ~dirty
    BY <1>5, Zenon DEF StartSome, HostStart, HostSend
  <2>3. ~dirty' => Quiet'
    BY <2>1, <2>2, <1>i DEF InvQuiet, Quiet
  <2>4. QED
    BY <2>3, Zenon DEF InvQuiet
<1>6. CASE HostAbort
  <2>1. /\ host.state \in {"sending", "reading"} /\ UNCHANGED <<tx, irq, pass>>
        /\ dirty' = (dirty \/ host.state = "reading")
    BY <1>6, Zenon DEF HostAbort, devVars
  <2>2. ~dirty' => ~dirty /\ host.state = "sending"
    BY <2>1, Zenon
  <2>3. ~dirty' => Quiet'
    BY <2>1, <2>2, <1>i DEF InvQuiet, Quiet
  <2>4. QED
    BY <2>3, Zenon DEF InvQuiet
<1>7. CASE HostRead
  <2>1. /\ host.state = "reading" /\ tx.cnt > 0 /\ UNCHANGED <<irq, pass, dirty>>
        /\ tx' = NoChunk
    BY <1>7, Zenon DEF HostRead, devVars
  <2>2. tx'.cnt = 0 /\ host'.state # "detached"
    BY <1>7, <1>i, <2>1 DEF NoChunk, HostRead, HostState
  <2>3. ~dirty => "INEP" \notin irq \union pass
    <3>1. ASSUME ~dirty PROVE ~Asked \/ ~(rx.cnt > 0)
      BY <2>1, <1>i DEF Asked, TypeOK, Chunk
    <3>2. QED
      BY <3>1, <2>1 DEF InvUpload, InvReading, Serving
  <2>4. ~dirty' => Quiet'
    BY <2>1, <2>2, <2>3 DEF Quiet
  <2>5. QED
    BY <2>4, Zenon DEF InvQuiet
<1>8. CASE HostInToken
  <2>1. host.state = "reading" /\ host' = host
    BY <1>8, Zenon DEF HostInToken, hostVars
  <2>2. QED
    BY <2>1 DEF InvQuiet
<1>9. CASE OnBulkIn
  <2>1. /\ UNCHANGED <<host, enumerated, dsts, dirty, irq>> /\ "INEP" \in pass /\ pass' = {}
        /\ pass = {"INEP"}
    BY <1>9, Zenon DEF OnBulkIn, Serves, hostVars, busVars
  <2>2. QED
    BY <2>1, <1>i DEF InvQuiet, Quiet
<1>10. CASE Poll \/ OnReset \/ OnPacket \/ OnEmptyFifo \/ Boot \/ (\E ok \in BOOLEAN : UsbInit(ok))
  <2>1. UNCHANGED <<host, enumerated, dsts, dirty, tx>>
    BY <1>10, Zenon DEF Poll, OnReset, OnPacket, OnEmptyFifo, Boot, UsbInit, hostVars, busVars
  <2>2. /\ "ENUMDONE" \in (irq \union pass) <=> "ENUMDONE" \in (irq' \union pass')
        /\ "INEP" \in (irq \union pass) <=> "INEP" \in (irq' \union pass')
    BY <1>10 DEF Poll, OnReset, OnPacket, OnEmptyFifo, Boot, UsbInit, Serves
  <2>3. QED
    BY <2>1, <2>2, <1>i, Zenon DEF InvQuiet, Quiet
<1>11. QED
  BY <1>1, <1>2, <1>3, <1>4, <1>5, <1>6, <1>7, <1>8, <1>9, <1>10 DEF Next, Device, StartSome
\* s3c_usb_upload_start takes the range that the host reads.
LEMMA UploadPacket ==
    ASSUME IInv, InvUpload, OnPacket, ~dirty, host.state = "reading"
    PROVE  rx'.cnt = 0 /\ Serving'
<1> DEFINE u == host.frame
<1>i. TypeOK /\ InvShort /\ InvRx /\ InvImage /\ host \in HostState /\ rx.cnt > 0
  BY DEF IInv, TypeInv, TypeOK, OnPacket
<1>1. u \in Uploads /\ u \notin Files /\ Asked
  BY <1>i, FramesAssumption DEF InvShort, InvUpload, InvReading
<1>2. ~open
  BY <1>i, <1>1, Zenon DEF InvImage
<1>3. ShortWaits
  BY <1>i, <1>2, Zenon DEF InvRx, NextWaits
<1>4. /\ rx.frame = u /\ rx.from = 0 /\ rx.cnt = 10 /\ dn_filesize = 0
      /\ host.pos = 0 /\ tx.cnt = 0
  BY <1>1, <1>3, Zenon DEF ShortWaits, Asked
<1>5. PICK h \in HeaderOf(rx) : UploadStart(h)
  <2>1. PICK h \in HeaderOf(rx) : UploadStart(h) \/ DownloadStart(h)
    BY <1>4, Zenon DEF OnPacket
  <2>2. ~DownloadStart(h)
    BY <1>4, Zenon DEF DownloadStart
  <2>3. QED
    BY <2>1, <2>2, Zenon
<1>6. h = <<UpAddr[u], UpSize[u]>>
  BY <1>1, <1>4, Zenon DEF HeaderOf, HdrAddr, HdrSize
<1>7. up_addr' = UpAddr[u] /\ up_size' = UpSize[u] /\ up_ptr' = UpAddr[u]
  <2>1. h[1] = UpAddr[u] /\ h[2] = UpSize[u]
    BY <1>6
  <2>2. up_addr' = h[1] /\ up_size' = h[2] /\ up_ptr' = h[1]
    BY <1>1, <1>4, <1>5 DEF UploadStart
  <2>3. QED
    BY <2>1, <2>2
<1>8. host' = host /\ tx' = tx /\ rx' = NoPacket
  BY Zenon DEF OnPacket, hostVars
<1>9. UpAddr[u] \in Nat /\ UpSize[u] \in Nat \ {0}
  BY <1>1, FramesAssumption
<1>10. rx'.cnt = 0
  BY <1>8 DEF NoPacket
<1>11. QED
  BY <1>4, <1>7, <1>8, <1>9, <1>10 DEF Serving

\* s3c_usb_transfer puts the next bytes of the range into the FIFO.
LEMMA UploadChunk ==
    ASSUME IInv, InvUpload, OnBulkIn, ~dirty, host.state = "reading"
    PROVE  rx'.cnt = 0 /\ Serving'
<1>i. /\ TypeOK /\ InvShort /\ InvPkt /\ host \in HostState
      /\ pass = {"INEP"} /\ pass' = {} /\ irq' = irq
      /\ UNCHANGED <<rx, host, up_addr, up_size>>
  BY DEF IInv, TypeInv, TypeOK, OnBulkIn, Serves, hostVars
<1>1. rx.cnt = 0
  <2>1. ~Asked
    BY <1>i DEF Asked
  <2>2. ~(rx.cnt > 0)
    BY <2>1, Zenon DEF InvUpload, InvReading
  <2>3. QED
    BY <2>2, <1>i DEF TypeOK, Packet, Mem
<1>2. Serving
  BY <1>1 DEF InvUpload, InvReading
<1>3. PICK a, z : a = UpAddr[host.frame] /\ z = UpSize[host.frame]
  OBVIOUS
<1>4. a \in Nat /\ z \in Nat /\ a + z < W /\ W \in Nat
  BY <1>i, <1>3, FramesAssumption, WordAssumption DEF InvShort
<1>5. PICK pos : pos = host.pos
  OBVIOUS
<1>6. /\ pos \in Nat /\ pos < z /\ tx.cnt = 0
      /\ up_addr = a /\ up_size = z /\ up_ptr = a + pos
  <2>1. pos \in Nat /\ tx.cnt \in Nat /\ ~(tx.cnt > 0)
    BY <1>i, <1>2, <1>5 DEF Serving, TypeOK, Chunk, HostState
  <2>2. tx.cnt = 0
    BY <2>1
  <2>3. QED
    BY <1>2, <1>3, <1>4, <1>5, <2>1, <2>2 DEF Serving
<1>7. pktsize \in Nat /\ pktsize > 0
  BY <1>i, PktAssumption DEF InvPkt, TypeOK
<1>8. Sub(up_size, Sub(up_ptr, up_addr)) = z - pos
  BY <1>4, <1>6 DEF Sub
<1>9. PICK n : n = ChunkLen(z - pos)
  OBVIOUS
<1>10. n \in Nat /\ n > 0 /\ n <= z - pos
  BY <1>4, <1>6, <1>7, <1>9 DEF ChunkLen, Least
<1>11. tx' = [from |-> up_ptr, cnt |-> n] /\ up_ptr' = Add(up_ptr, n)
  BY <1>8, <1>9, <1>10 DEF OnBulkIn
<1>12. up_ptr' = a + pos + n
  BY <1>4, <1>6, <1>10, <1>11 DEF Add
<1>13. tx'.cnt = n /\ tx'.from = a + pos
  BY <1>6, <1>11
<1>14. "INEP" \notin irq' \union pass'
  BY <1>i DEF InvUpload, InvToken
<1>15. rx'.cnt = 0 /\ host'.pos = pos /\ UpAddr[host'.frame] = a /\ UpSize[host'.frame] = z
       /\ up_addr' = a /\ up_size' = z
  BY <1>i, <1>1, <1>3, <1>5, <1>6
<1>16. QED
  BY <1>4, <1>6, <1>10, <1>12, <1>13, <1>14, <1>15 DEF Serving

LEMMA TokenStep == InvToken /\ Next => InvToken'
<1> SUFFICES ASSUME InvToken, Next PROVE InvToken'
  OBVIOUS
<1>1. CASE OnEnumDone
  BY <1>1 DEF OnEnumDone, SetInit, InvToken
<1>2. CASE Poll \/ OnReset \/ OnPacket \/ OnEmptyFifo \/ OnBulkIn \/ Boot
           \/ (\E ok \in BOOLEAN : UsbInit(ok))
  BY <1>2 DEF Poll, OnReset, OnPacket, OnEmptyFifo, OnBulkIn, Boot, UsbInit, InvToken
<1>3. CASE \/ BusReset \/ (\E s \in Speeds : EnumDone(s)) \/ HostReady \/ StartSome
           \/ HostSend \/ HostInToken \/ HostRead \/ HostAbort
  BY <1>3 DEF BusReset, EnumDone, HostReady, StartSome, HostStart, HostSend, HostInToken,
              HostRead, HostAbort, devVars, InvToken
<1>4. QED
  BY <1>1, <1>2, <1>3 DEF Next, Device, StartSome

LEMMA ReadingStep == IInv /\ InvUpload /\ Next => InvReading'
<1> SUFFICES ASSUME IInv, InvUpload, Next PROVE InvReading'
  OBVIOUS
<1>i. /\ InvToken /\ InvQuiet /\ InvReading /\ TypeOK /\ InvPkt /\ host \in HostState
  BY DEF IInv, TypeInv, TypeOK, InvUpload
<1>1. CASE OnPacket \/ OnBulkIn
  <2>1. host' = host /\ dirty' = dirty
    BY <1>1, Zenon DEF OnPacket, OnBulkIn, hostVars
  <2>2. ASSUME ~dirty, host.state = "reading" PROVE ~(rx'.cnt > 0) /\ Serving'
    <3>1. rx'.cnt = 0 /\ Serving'
      BY <1>1, <2>2, UploadPacket, UploadChunk
    <3>2. QED
      BY <3>1
  <2>3. QED
    BY <2>1, <2>2, Zenon DEF InvReading
<1>2. CASE OnEnumDone \/ (\E s \in Speeds : EnumDone(s))
  <2>1. host' = host /\ host.state = "detached"
    BY <1>2, <1>i DEF OnEnumDone, EnumDone, Serves, InvPkt, hostVars
  <2>2. QED
    BY <2>1 DEF InvReading
<1>3. CASE BusReset \/ HostReady \/ StartSome \/ HostAbort
  <2>1. host'.state # "reading"
    BY <1>3, <1>i DEF BusReset, HostReady, StartSome, HostStart, HostAbort, HostState
  <2>2. QED
    BY <2>1 DEF InvReading
<1>4. CASE HostSend
  <2>1. /\ host.state = "sending" /\ UNCHANGED <<tx, pass, irq, dirty>>
        /\ rx'.frame = host.frame
    BY <1>4 DEF HostSend, devVars
  <2>2. ~dirty => Quiet
    BY <2>1, <1>i DEF InvQuiet
  <2>3. host'.state = "reading" => host'.pos = 0 /\ host'.frame = host.frame
    BY <1>4, <1>i DEF HostSend, HostState
  <2>4. ~dirty' /\ host'.state = "reading" => Asked'
    BY <2>1, <2>2, <2>3 DEF Quiet, Asked
  <2>5. ASSUME host'.state = "reading" PROVE rx'.cnt > 0
    <3>1. FrameLen(host.frame) - host.pos \in Nat \ {0}
      BY <2>1, FrameRange DEF IInv, TypeInv, InvHost, TypeOK, HostState
    <3>2. pktsize \in Nat \ {0}
      BY <2>1, <1>i, PktAssumption DEF InvPkt, TypeOK
    <3>3. Least(pktsize, FrameLen(host.frame) - host.pos) > 0
      BY <3>1, <3>2 DEF Least
    <3>4. QED
      BY <1>4, <3>3 DEF HostSend
  <2>6. QED
    BY <2>4, <2>5, Zenon DEF InvReading
<1>5. CASE HostRead
  <2>1. /\ host.state = "reading" /\ tx.cnt > 0 /\ tx' = NoChunk
        /\ UNCHANGED <<rx, irq, pass, dirty, up_addr, up_size, up_ptr>>
        /\ host' = [host EXCEPT !.pos = @ + tx.cnt,
                                !.state = IF host.pos + tx.cnt >= UpSize[host.frame]
                                          THEN "ready" ELSE "reading"]
    BY <1>5, Zenon DEF HostRead, devVars, upVars
  <2>2. ASSUME ~dirty, host'.state = "reading" PROVE ~(rx.cnt > 0) /\ Serving'
    <3>1. ~(rx.cnt > 0) /\ Serving
      <4>1. ~Asked
        BY <2>1, <1>i DEF Asked, TypeOK, Chunk
      <4>2. QED
        BY <2>1, <2>2, <4>1, <1>i, Zenon DEF InvReading
    <3>2. /\ host'.pos = host.pos + tx.cnt /\ host'.frame = host.frame
          /\ ~(host.pos + tx.cnt >= UpSize[host.frame])
      BY <1>i, <2>1, <2>2 DEF HostState
    <3>3. /\ UpAddr[host.frame] \in Nat /\ UpSize[host.frame] \in Nat
      BY <2>1, FramesAssumption DEF IInv, InvShort
    <3>4. host.pos \in Nat /\ tx.cnt \in Nat /\ tx'.cnt = 0
      BY <1>i, <2>1 DEF TypeOK, HostState, Chunk, NoChunk
    <3>5. QED
      BY <2>1, <3>1, <3>2, <3>3, <3>4 DEF Serving
  <2>3. QED
    BY <2>1, <2>2, Zenon DEF InvReading
<1>6. CASE HostInToken
  <2>1. /\ host' = host /\ tx.cnt = 0
        /\ UNCHANGED <<rx, tx, pass, dirty, up_addr, up_size, up_ptr>>
    BY <1>6, Zenon DEF HostInToken, devVars, upVars, hostVars
  <2>2. Asked => Asked'
    BY <2>1, Zenon DEF Asked
  <2>3. Serving => Serving'
    BY <2>1 DEF Serving
  <2>4. QED
    BY <2>1, <2>2, <2>3, <1>i, Zenon DEF InvReading
<1>7. CASE Poll
  <2>1. /\ UNCHANGED <<host, rx, tx, dirty, up_addr, up_size, up_ptr>>
        /\ pass = {} /\ irq' = {}
        /\ pass' = irq \union (IF rx.cnt > 0 THEN {"RX"} ELSE {})
    BY <1>7, Zenon DEF Poll, upVars, hostVars
  <2>2. rx.cnt > 0 => "RX" \in pass'
    BY <2>1, Zenon
  <2>3. Asked /\ rx.cnt > 0 => Asked'
    BY <2>1, <2>2, Zenon DEF Asked
  <2>4. "INEP" \in irq' \union pass' => "INEP" \in irq \union pass
    BY <2>1
  <2>5. Serving => Serving'
    BY <2>1, <2>4, Zenon DEF Serving
  <2>6. QED
    BY <2>1, <2>3, <2>5, <1>i, Zenon DEF InvReading
<1>8. CASE OnReset \/ OnEmptyFifo \/ Boot \/ (\E ok \in BOOLEAN : UsbInit(ok))
  <2>1. /\ UNCHANGED <<host, rx, tx, irq, dirty, up_addr, up_size, up_ptr>>
        /\ pass' \subseteq pass
        /\ "RX" \in pass /\ rx.cnt > 0 => "RX" \in pass'
    BY <1>8, <1>i DEF OnReset, OnEmptyFifo, Boot, UsbInit, upVars, hostVars, TypeOK, Packet, Mem
  <2>2. Asked /\ rx.cnt > 0 => Asked'
    BY <2>1 DEF Asked
  <2>3. Serving => Serving'
    BY <2>1 DEF Serving
  <2>4. QED
    BY <2>1, <2>2, <2>3, <1>i, Zenon DEF InvReading
<1>9. QED
  BY <1>1, <1>2, <1>3, <1>4, <1>5, <1>6, <1>7, <1>8 DEF Next, Device, StartSome

LEMMA UploadStep == IInv /\ InvUpload /\ [Next]_vars => InvUpload'
<1> SUFFICES ASSUME IInv, InvUpload, [Next]_vars PROVE InvUpload'
  OBVIOUS
<1>1. CASE Next
  BY <1>1, TokenStep, QuietStep, ReadingStep DEF InvUpload
<1>2. CASE UNCHANGED vars
  <2>1. /\ UNCHANGED <<host, rx, tx, irq, pass, dirty, enumerated, dsts>>
        /\ UNCHANGED <<up_addr, up_size, up_ptr>>
    BY <1>2, Zenon DEF vars, upVars, hostVars, busVars
  <2>2. QED
    BY <2>1, Zenon DEF InvUpload, InvToken, InvQuiet, Quiet, InvReading, Asked, Serving
<1>3. QED
  BY <1>1, <1>2

\* An upload delivers the requested range in order and no byte of another, for
\* every range and packet size, unless an abort or a reset left something of
\* another upload behind.
THEOREM UploadsAreInOrder == Spec => []UploadInOrder
<1>1. Init => InvUpload
  BY DEF Init, InvUpload, InvToken, InvQuiet, InvReading
<1>2. IInv /\ InvUpload => UploadInOrder
  <2> SUFFICES ASSUME IInv, InvUpload, host.state = "reading", ~dirty, tx.cnt > 0
               PROVE  /\ tx.from = UpAddr[host.frame] + host.pos
                      /\ host.pos + tx.cnt <= UpSize[host.frame]
    BY DEF UploadInOrder
  <2>1. ~Asked
    BY DEF Asked, IInv, TypeInv, TypeOK, Chunk
  <2>2. Serving
    BY <2>1, Zenon DEF InvUpload, InvReading
  <2>3. QED
    BY <2>2, Zenon DEF Serving
<1>3. QED
  BY IInit, IStep, UploadStep, <1>1, <1>2, PTL DEF Spec

-----------------------------------------------------------------------------
(* Refinement: the driver and the hosts implement DownloadService.            *)

\* While nothing is received nothing is there.
Blank == LoadedFile = NoFrame /\ Loaded = 0 /\ Image = Service!Part(NoFrame, 0) /\ Entry = 0

LEMMA BlankNow == ~Loading => Blank
<1> SUFFICES ASSUME ~Loading PROVE Blank
  OBVIOUS
<1>1. LoadedFile = NoFrame /\ Loaded = 0
  BY Zenon DEF LoadedFile, Loaded
<1>2. 0 .. Loaded - 1 = {} /\ 0 .. 0 - 1 = {}
  BY <1>1
<1>3. Image = Service!Part(NoFrame, 0)
  BY <1>2, Zenon DEF Image, Service!Part
<1>4. Entry = 0
  BY Zenon DEF Entry, Loading
<1>5. QED
  BY <1>1, <1>3, <1>4, Zenon DEF Blank

\* usb_read is in its loop, or not there yet.
Loops == pc # "run" /\ pc # "noUsb"

\* What the stages say of the driver.
StageMeant ==
    /\ dirty <=> Stage = "adrift"
    /\ Stage = "running" <=> ~dirty /\ pc = "run"
    /\ Stage = "off" <=> ~dirty /\ pc = "noUsb"
    /\ Stage = "complete" <=> ~dirty /\ Loops /\ s3c_receive_done = 1
    /\ Stage = "receiving" <=> ~dirty /\ Loops /\ s3c_receive_done # 1 /\ dn_filesize # 0
    /\ Stage = "idle" <=> ~dirty /\ Loops /\ s3c_receive_done # 1 /\ dn_filesize = 0
    /\ Loading <=> Stage = "receiving" \/ Stage = "complete" \/ Stage = "running"

LEMMA StageMeans == StageMeant
<1>1. CASE dirty
  <2>1. Stage = "adrift"
    BY <1>1, Zenon DEF Stage, Loops
  <2>2. QED
    BY <1>1, <2>1, Zenon DEF StageMeant, Loading, Loops
<1>2. CASE ~dirty /\ pc = "run"
  <2>1. Stage = "running"
    BY <1>2, Zenon DEF Stage, Loops
  <2>2. QED
    BY <1>2, <2>1, Zenon DEF StageMeant, Loading, Loops
<1>3. CASE ~dirty /\ pc = "noUsb"
  <2>1. Stage = "off"
    BY <1>3, Zenon DEF Stage, Loops
  <2>2. QED
    BY <1>3, <2>1, Zenon DEF StageMeant, Loading, Loops
<1>4. CASE ~dirty /\ Loops /\ s3c_receive_done = 1
  <2>1. Stage = "complete"
    BY <1>4, Zenon DEF Stage, Loops
  <2>2. QED
    BY <1>4, <2>1, Zenon DEF StageMeant, Loading, Loops
<1>5. CASE ~dirty /\ Loops /\ s3c_receive_done # 1 /\ dn_filesize # 0
  <2>1. Stage = "receiving"
    BY <1>5, Zenon DEF Stage, Loops
  <2>2. QED
    BY <1>5, <2>1, Zenon DEF StageMeant, Loading, Loops
<1>6. CASE ~dirty /\ Loops /\ s3c_receive_done # 1 /\ dn_filesize = 0
  <2>1. Stage = "idle"
    BY <1>6, Zenon DEF Stage, Loops
  <2>2. QED
    BY <1>6, <2>1, Zenon DEF StageMeant, Loading, Loops
<1>7. QED
  BY <1>1, <1>2, <1>3, <1>4, <1>5, <1>6, Zenon DEF Loops

\* What is there of an image while it is received and after.
Arrived == Loading =>
    /\ ~dirty /\ open /\ dn_filesize # 0
    /\ host.frame \in Files /\ Size[host.frame] > 0
    /\ LoadedFile = host.frame /\ Loaded = dn_ptr - DlAddr
    /\ Loaded \in 1 .. Service!Whole(host.frame)
    /\ Image = Service!Part(host.frame, Loaded)
    /\ s3c_usbd_dn_addr = DlAddr
    /\ s3c_receive_done = 1 => Loaded = Service!Whole(host.frame)

LEMMA ArrivedNow == IInv /\ InvCount => Arrived
<1> SUFFICES ASSUME IInv, InvCount, Loading PROVE Arrived
  BY DEF Arrived
<1>i. TypeOK /\ InvDone /\ InvImage
  BY DEF IInv, TypeInv
<1>1. ~dirty /\ dn_filesize # 0
  <2>1. \/ Stage = "running" /\ ~dirty /\ pc = "run"
        \/ Stage = "complete" /\ ~dirty /\ s3c_receive_done = 1
        \/ Stage = "receiving" /\ ~dirty /\ dn_filesize # 0
    BY StageMeans DEF StageMeant
  <2>2. QED
    BY <2>1, <1>i DEF InvDone, InvCount
<1>2. open
  BY <1>1, <1>i DEF InvImage
<1>3. LoadedFile = host.frame /\ Loaded = dn_ptr - DlAddr
  BY Zenon DEF LoadedFile, Loaded
<1>4. /\ host.frame \in Files /\ Size[host.frame] > 0 /\ Size[host.frame] \in Nat
      /\ host.pos <= Size[host.frame] + 10
      /\ s3c_usbd_dn_addr = DlAddr
      /\ dn_ptr > DlAddr + 2 /\ dn_ptr - DlAddr + 8 <= host.pos
      /\ Holds(host.frame, dn_ptr - DlAddr)
      /\ s3c_receive_done = 1 => dn_ptr - DlAddr + 8 = Size[host.frame] + 10
  BY <1>1, <1>2, <1>i, FramesAssumption DEF InvImage, Taken
<1>5. dn_ptr \in Nat /\ DlAddr \in Nat /\ host.pos \in Nat
  BY <1>i, WordAssumption DEF TypeOK, Mem, HostState
<1>6. Loaded \in 1 .. Service!Whole(host.frame)
  BY <1>3, <1>4, <1>5 DEF Service!Whole
<1>7. Image = Service!Part(host.frame, Loaded)
  <2>1. \A k \in 0 .. Loaded - 1 : mem[DlAddr + k] = <<host.frame, k + 8>>
    BY <1>3, <1>4, Zenon DEF Holds
  <2>2. QED
    BY <2>1, Zenon DEF Image, Service!Part
<1>8. s3c_receive_done = 1 => Loaded = Service!Whole(host.frame)
  BY <1>3, <1>4, <1>5 DEF Service!Whole
<1>9. QED
  BY <1>1, <1>2, <1>3, <1>4, <1>6, <1>7, <1>8, Zenon DEF Arrived

\* The driver as the service sees it, before and after a step.
Seen == IInv /\ InvCount /\ StageMeant /\ Arrived /\ (~Loading => Blank)

LEMMA SeenStep == IInv /\ InvCount /\ [Next]_vars => Seen /\ Seen'
<1>1. IInv /\ InvCount /\ [Next]_vars => IInv' /\ InvCount'
  BY IStep, CountStep
<1>2. (IInv /\ InvCount => Arrived)'
  BY ArrivedNow, PTL
<1>3. (~Loading => Blank)'
  BY BlankNow, PTL
<1>4. StageMeant'
  BY StageMeans, PTL
<1>5. QED
  BY <1>1, <1>2, <1>3, <1>4, ArrivedNow, BlankNow, StageMeans DEF Seen

Served == [Service!Next]_(Service!vars)

\* The service does not see a step that keeps the stage and, of an image on its
\* way, the place.
LEMMA StageStutter ==
    ASSUME Seen, Seen', Stage' = Stage, Loading => UNCHANGED <<dn_ptr, host.frame>>
    PROVE  Served
<1>1. Loading' <=> Loading
  BY Zenon DEF Loading
<1>2. CASE ~Loading
  <2>1. ~Loading'
    BY <1>1, <1>2, Zenon
  <2>2. Blank /\ Blank'
    BY <1>2, <2>1, Zenon DEF Seen
  <2>3. QED
    BY <2>2, Zenon DEF Blank, Served, Service!vars
<1>3. CASE Loading
  <2>1. Loading'
    BY <1>1, <1>3, Zenon
  <2>2. dn_ptr' = dn_ptr /\ host'.frame = host.frame
    BY <1>3, Zenon
  <2>3. /\ LoadedFile = host.frame /\ Loaded = dn_ptr - DlAddr
        /\ Image = Service!Part(host.frame, Loaded) /\ s3c_usbd_dn_addr = DlAddr
    BY <1>3, Zenon DEF Seen, Arrived
  <2>4. /\ LoadedFile' = host'.frame /\ Loaded' = dn_ptr' - DlAddr
        /\ Image' = Service!Part(host'.frame, Loaded') /\ s3c_usbd_dn_addr' = DlAddr
    BY <2>1, Zenon DEF Seen, Arrived
  <2>5. LoadedFile' = LoadedFile /\ Loaded' = Loaded /\ Image' = Image
    BY <2>2, <2>3, <2>4, Zenon
  <2>6. Entry' = Entry
    BY <2>3, <2>4, Zenon DEF Entry
  <2>7. QED
    BY <2>5, <2>6, Zenon DEF Served, Service!vars
<1>4. QED
  BY <1>2, <1>3

\* A step that leaves the driver's and the host's place alone.
LEMMA PlaceSame ==
    ASSUME Seen, Seen',
           UNCHANGED <<pc, dirty, dn_filesize, s3c_receive_done, dn_ptr, host.frame>>
    PROVE  Served
<1>1. Stage' = Stage
  BY Zenon DEF Stage
<1>2. QED
  BY <1>1, StageStutter, Zenon

\* While hosts disturb each other the service sees nothing.
LEMMA StillAdrift ==
    ASSUME Seen, Seen', dirty, dirty'
    PROVE  Served
<1>1. Stage' = Stage
  BY Zenon DEF Stage
<1>2. Stage = "adrift"
  BY Zenon DEF Stage
<1>3. ~Loading
  BY <1>2, Zenon DEF Seen, StageMeant
<1>4. QED
  BY <1>1, <1>3, StageStutter, Zenon

\* A step in the loop after which nothing is promised.
LEMMA Drift ==
    ASSUME Seen, Seen', dirty', pc = "poll"
    PROVE  Served
<1>1. CASE dirty
  BY <1>1, StillAdrift, Zenon
<1>2. CASE ~dirty
  <2>1. Stage' = "adrift"
    BY Zenon DEF Seen, StageMeant
  <2>2. ~Loading'
    BY <2>1, Zenon DEF Seen, StageMeant
  <2>3. Blank'
    BY <2>2, Zenon DEF Seen
  <2>4. Stage = "idle" \/ Stage = "receiving" \/ Stage = "complete"
    BY <1>2, Zenon DEF Seen, StageMeant, Loops
  <2>5. Service!Disturb
    BY <2>1, <2>3, <2>4, Zenon DEF Service!Disturb, Service!Nothing, Blank
  <2>6. QED
    BY <2>5, Zenon DEF Served, Service!Next
<1>3. QED
  BY <1>1, <1>2, Zenon

\* usb_init.
LEMMA ServeUsbInit ==
    ASSUME Seen, Seen', \E ok \in BOOLEAN : UsbInit(ok)
    PROVE  Served
<1>1. /\ pc = "init" /\ (pc' = "poll" \/ pc' = "noUsb") /\ s3c_receive_done' = 0
      /\ dn_filesize' = dn_filesize /\ dirty' = dirty
  BY DEF UsbInit
<1>2. CASE dirty
  <2>1. dirty'
    BY <1>1, <1>2, Zenon
  <2>2. QED
    BY <1>2, <2>1, StillAdrift, Zenon
<1>3. CASE ~dirty
  <2>1. dn_filesize = 0 /\ s3c_receive_done # 1
    BY <1>1 DEF Seen, InvCount
  <2>2. ~dirty' /\ dn_filesize' = 0 /\ s3c_receive_done' # 1
    <3>1. s3c_receive_done' # 1
      BY <1>1
    <3>2. QED
      BY <1>1, <1>3, <2>1, <3>1, Zenon
  <2>3. Stage = "idle" /\ ~Loading
    BY <1>1, <1>3, <2>1, Zenon DEF Seen, StageMeant, Loops
  <2>4. CASE pc' = "poll"
    <3>1. Stage' = Stage
      BY <2>2, <2>3, <2>4, Zenon DEF Seen, StageMeant, Loops
    <3>2. QED
      BY <2>3, <3>1, StageStutter, Zenon
  <2>5. CASE pc' = "noUsb"
    <3>1. Stage' = "off"
      BY <2>2, <2>5, Zenon DEF Seen, StageMeant
    <3>2. ~Loading'
      BY <3>1, Zenon DEF Seen, StageMeant
    <3>3. Blank /\ Blank'
      BY <2>3, <3>2, Zenon DEF Seen
    <3>4. Service!TurnOff
      BY <2>3, <3>1, <3>3, Zenon DEF Blank, Service!TurnOff
    <3>5. QED
      BY <3>4, Zenon DEF Served, Service!Next
  <2>6. QED
    BY <1>1, <2>4, <2>5, Zenon
<1>4. QED
  BY <1>2, <1>3, Zenon

\* A new enumeration forgets what was there and ends all disturbance, but for a
\* packet that survived the reset.
LEMMA ServeEnumDone ==
    ASSUME Seen, Seen', OnEnumDone
    PROVE  Served
<1>1. pc = "poll" /\ pc' = "poll" /\ s3c_receive_done' = s3c_receive_done /\ host' = host
  BY DEF OnEnumDone, Serves, doneVars, hostVars
<1>2. s3c_receive_done # 1
  BY DEF Seen, IInv, InvDone, OnEnumDone, Serves
<1>3. CASE dsts = "other"
  <2>1. UNCHANGED <<pc, dirty, dn_filesize, s3c_receive_done, dn_ptr, host.frame>>
    BY <1>1, <1>3 DEF OnEnumDone, dnVars
  <2>2. QED
    BY <2>1, PlaceSame, Zenon
<1>4. CASE dsts # "other" /\ dirty'
  BY <1>1, <1>4, Drift, Zenon
<1>5. CASE dsts # "other" /\ ~dirty'
  <2>1. dn_filesize' = 0
    BY <1>5 DEF OnEnumDone, SetInit
  <2>2. s3c_receive_done' # 1
    BY <1>1, <1>2
  <2>3. Stage' = "idle"
    BY <1>1, <1>5, <2>1, <2>2, Zenon DEF Seen, StageMeant, Loops
  <2>4. ~Loading'
    BY <2>3, Zenon DEF Seen, StageMeant
  <2>5. Blank'
    BY <2>4, Zenon DEF Seen
  <2>6. Stage = "adrift" \/ Stage = "idle" \/ Stage = "receiving"
    BY <1>1, <1>2, Zenon DEF Seen, StageMeant, Loops
  <2>7. CASE Stage = "adrift"
    <3>1. Service!Recover
      BY <2>3, <2>5, <2>7, Zenon DEF Blank, Service!Recover, Service!Nothing
    <3>2. QED
      BY <3>1, Zenon DEF Served, Service!Next
  <2>8. CASE Stage = "idle"
    <3>1. ~Loading /\ Stage' = Stage
      BY <2>3, <2>8, Zenon DEF Seen, StageMeant
    <3>2. QED
      BY <3>1, StageStutter, Zenon
  <2>9. CASE Stage = "receiving"
    <3>1. Service!Forget
      BY <2>3, <2>5, <2>9, Zenon DEF Blank, Service!Forget, Service!Nothing
    <3>2. QED
      BY <3>1, Zenon DEF Served, Service!Next
  <2>10. QED
    BY <2>6, <2>7, <2>8, <2>9, Zenon
<1>6. QED
  BY <1>3, <1>4, <1>5, Zenon

\* The first packet of an image begins a download, and only begins it.
LEMMA ServeStart ==
    ASSUME Seen, Seen', OnPacket, ~dirty, dn_filesize = 0, NEW h \in HeaderOf(rx),
           DownloadStart(h)
    PROVE  Served
<1>i. TypeOK /\ InvRx /\ InvImage /\ InvDone /\ rx.cnt > 0 /\ rx.cnt # 10
  BY DEF Seen, IInv, TypeInv, OnPacket, DownloadStart
<1>1. pc = "poll" /\ pc' = "poll" /\ dirty' = dirty /\ host' = host
      /\ s3c_receive_done # 1 /\ s3c_receive_done' = s3c_receive_done
  BY <1>i DEF OnPacket, Serves, DownloadStart, InvDone, doneVars, hostVars
<1>2. open /\ rx.frame = host.frame /\ rx.from = 0 /\ host.frame \in Files
  BY <1>i DEF InvRx, ShortWaits, NextWaits, Taken, InvImage
<1>3. h = <<DlAddr, Size[host.frame] + 10>>
  BY <1>2 DEF HeaderOf, HdrAddr, HdrSize
<1>4. dn_filesize' # 0
  <2>1. Size[host.frame] \in Nat
    BY <1>2, FramesAssumption
  <2>2. dn_filesize' = Size[host.frame] + 10
    BY <1>3 DEF DownloadStart, RecordHeader
  <2>3. QED
    BY <2>1, <2>2
<1>5. Stage = "idle"
  BY <1>1, Zenon DEF Seen, StageMeant, Loops
<1>6. Stage' = "receiving"
  <2>1. ~dirty' /\ s3c_receive_done' # 1
    BY <1>1, Zenon
  <2>2. QED
    BY <1>1, <1>4, <2>1, Zenon DEF Seen, StageMeant, Loops
<1>7. ~Loading /\ Loading'
  BY <1>5, <1>6, Zenon DEF Seen, StageMeant
<1>8. /\ host'.frame = host.frame
      /\ host'.frame \in Files /\ Size[host'.frame] > 0
      /\ LoadedFile' = host'.frame /\ Loaded' \in 1 .. Service!Whole(host'.frame)
      /\ Image' = Service!Part(host'.frame, Loaded')
  BY <1>1, <1>7, Zenon DEF Seen, Arrived
<1>9. Entry = 0 /\ Entry' = 0
  BY <1>5, <1>6, Zenon DEF Entry
<1>10. Service!Begin(host.frame)
  BY <1>5, <1>6, <1>8, <1>9, Zenon DEF Service!Begin
<1>11. QED
  BY <1>2, <1>10, Zenon DEF Served, Service!Next

\* Every further packet brings bytes, and the last one, no other, completes it.
LEMMA ServeContinue ==
    ASSUME Seen, Seen', OnPacket, ~dirty, dn_filesize # 0, DownloadContinue
    PROVE  Served
<1>i. TypeOK /\ InvRx /\ InvImage /\ InvDone /\ rx.cnt > 0
  BY DEF Seen, IInv, TypeInv, OnPacket
<1>1. pc = "poll" /\ pc' = "poll" /\ dirty' = dirty /\ host' = host
      /\ s3c_receive_done # 1 /\ dn_filesize' = dn_filesize /\ dn_addr' = dn_addr
  BY <1>i DEF OnPacket, Serves, DownloadContinue, InvDone, hostVars
<1>2. Stage = "receiving" /\ (Stage' = "receiving" \/ Stage' = "complete")
  <2>1. ~dirty' /\ dn_filesize' # 0
    BY <1>1, Zenon
  <2>2. QED
    BY <1>1, <2>1, Zenon DEF Seen, StageMeant, Loops
<1>3. Loading /\ Loading'
  BY <1>2, Zenon DEF Seen, StageMeant
<1>4. /\ open /\ host.frame \in Files
      /\ LoadedFile = host.frame /\ Loaded = dn_ptr - DlAddr
  BY <1>3, Zenon DEF Seen, Arrived
<1>5. /\ host'.frame = host.frame
      /\ LoadedFile' = host'.frame /\ Loaded' = dn_ptr' - DlAddr
      /\ Loaded' \in 1 .. Service!Whole(host'.frame)
      /\ Image' = Service!Part(host'.frame, Loaded')
      /\ s3c_receive_done' = 1 => Loaded' = Service!Whole(host'.frame)
  BY <1>1, <1>3, Zenon DEF Seen, Arrived
<1>6. PICK z : z = Size[host.frame]
  OBVIOUS
<1>7. /\ z \in Nat /\ DlAddr + z + 16 < W /\ DlAddr \in Nat /\ W \in Nat
      /\ dn_ptr \in Nat /\ rx.cnt \in Nat /\ host.pos \in Nat
  BY <1>i, <1>4, <1>6, FramesAssumption, WordAssumption DEF TypeOK, Packet, Mem, HostState
<1>8. /\ rx.from = dn_ptr - DlAddr + 8 /\ rx.from + rx.cnt = host.pos
      /\ host.pos <= z + 10 /\ dn_filesize = z + 10 /\ dn_addr = DlAddr
      /\ dn_ptr > DlAddr + 2
  BY <1>i, <1>4, <1>6 DEF InvRx, ShortWaits, NextWaits, Taken, InvImage
<1>9. dn_ptr' = dn_ptr + rx.cnt
  <2>1. dn_ptr + rx.cnt < W
    BY <1>7, <1>8
  <2>2. QED
    BY <1>7, <2>1 DEF DownloadContinue, Add
<1>10. Loaded' >= Loaded + 1 /\ Loaded \in Int /\ Loaded' \in Int
  BY <1>4, <1>5, <1>7, <1>8, <1>9, <1>i
<1>11. Loaded' = Service!Whole(host.frame) => s3c_receive_done' = 1
  <2> SUFFICES ASSUME Loaded' = Service!Whole(host.frame) PROVE s3c_receive_done' = 1
    OBVIOUS
  <2>1. dn_ptr' - DlAddr = z + 2
    BY <1>5, <1>6 DEF Service!Whole
  <2>2. AllReceived(dn_ptr')
    BY <1>7, <1>8, <1>9, <2>1 DEF AllReceived, Sub
  <2>3. QED
    BY <2>2 DEF DownloadContinue
<1>12. Loaded' \in Loaded + 1 .. Service!Whole(host.frame)
  <2>1. Service!Whole(host.frame) \in Int
    BY <1>6, <1>7 DEF Service!Whole
  <2>2. QED
    BY <1>5, <1>10, <2>1
<1>13. Stage' = IF Loaded' = Service!Whole(host.frame) THEN "complete" ELSE "receiving"
  <2>1. Stage' = "complete" <=> s3c_receive_done' = 1
    <3>1. ~dirty'
      BY <1>1, Zenon
    <3>2. QED
      BY <1>1, <3>1, Zenon DEF Seen, StageMeant, Loops
  <2>2. s3c_receive_done' = 1 <=> Loaded' = Service!Whole(host.frame)
    BY <1>5, <1>11, Zenon
  <2>3. QED
    BY <1>2, <2>1, <2>2, Zenon
<1>14. Entry = 0 /\ Entry' = 0
  BY <1>2, Zenon DEF Entry
<1>15. Service!Receive
  BY <1>2, <1>4, <1>5, <1>12, <1>13, <1>14, Zenon DEF Service!Receive
<1>16. QED
  BY <1>15, Zenon DEF Served, Service!Next

LEMMA ServePacket ==
    ASSUME Seen, Seen', OnPacket
    PROVE  Served
<1>1. dirty' = dirty
  BY DEF OnPacket
<1>2. CASE dirty
  <2>1. dirty'
    BY <1>1, <1>2, Zenon
  <2>2. QED
    BY <1>2, <2>1, StillAdrift, Zenon
<1>3. ASSUME ~dirty, dn_filesize = 0, NEW h \in HeaderOf(rx), UploadStart(h) PROVE Served
  <2>1. pc' = pc /\ dn_filesize' = dn_filesize /\ s3c_receive_done' = s3c_receive_done
        /\ dn_ptr' = dn_ptr /\ host'.frame = host.frame
    BY <1>3 DEF OnPacket, UploadStart, doneVars, hostVars
  <2>2. QED
    BY <1>1, <2>1, PlaceSame, Zenon
<1>4. CASE ~dirty /\ dn_filesize = 0
  <2>1. PICK h \in HeaderOf(rx) : UploadStart(h) \/ DownloadStart(h)
    BY <1>4 DEF OnPacket
  <2>2. QED
    BY <1>3, <1>4, <2>1, ServeStart
<1>5. CASE ~dirty /\ dn_filesize # 0
  <2>1. DownloadContinue
    BY <1>5 DEF OnPacket
  <2>2. QED
    BY <1>5, <2>1, ServeContinue
<1>6. QED
  BY <1>2, <1>4, <1>5, Zenon

\* The jump.
LEMMA ServeBoot ==
    ASSUME Seen, Seen', Boot
    PROVE  Served
<1>1. /\ pc = "poll" /\ s3c_receive_done = 1 /\ UNCHANGED <<dirty, dn_ptr, host, s3c_receive_done>>
  BY DEF Boot, dnVars, doneVars, hostVars
<1>2. pc' = "run"
  <2>1. s3c_usbd_dn_cnt # 0
    <3>1. s3c_usbd_dn_cnt = dn_filesize /\ dn_filesize # 0
      BY <1>1 DEF Seen, InvCount
    <3>2. QED
      BY <3>1
  <2>2. QED
    BY <2>1 DEF Boot
<1>3. CASE dirty
  <2>1. dirty'
    BY <1>1, <1>3, Zenon
  <2>2. QED
    BY <1>3, <2>1, StillAdrift, Zenon
<1>4. CASE ~dirty
  <2>1. Stage = "complete"
    BY <1>1, <1>4, Zenon DEF Seen, StageMeant, Loops
  <2>2. ~dirty'
    BY <1>1, <1>4, Zenon
  <2>3. Stage' = "running"
    BY <1>2, <2>2, Zenon DEF Seen, StageMeant
  <2>4. Loading /\ Loading'
    BY <2>1, <2>3, Zenon DEF Seen, StageMeant
  <2>5. /\ LoadedFile = host.frame /\ Loaded = dn_ptr - DlAddr
        /\ Image = Service!Part(host.frame, Loaded)
    BY <2>4, Zenon DEF Seen, Arrived
  <2>6. /\ LoadedFile' = host'.frame /\ Loaded' = dn_ptr' - DlAddr
        /\ Image' = Service!Part(host'.frame, Loaded') /\ s3c_usbd_dn_addr' = DlAddr
    BY <2>4, Zenon DEF Seen, Arrived
  <2>7. LoadedFile' = LoadedFile /\ Loaded' = Loaded /\ Image' = Image
    BY <1>1, <2>5, <2>6, Zenon
  <2>8. Entry' = DlAddr
    BY <2>3, <2>6, Zenon DEF Entry
  <2>9. Service!Run
    BY <2>1, <2>3, <2>7, <2>8, Zenon DEF Service!Run
  <2>10. QED
    BY <2>9, Zenon DEF Served, Service!Next
<1>5. QED
  BY <1>3, <1>4, Zenon

\* A host starts a transfer.
LEMMA ServeHostStart ==
    ASSUME Seen, Seen', StartSome
    PROVE  Served
<1>1. PICK f, j : HostStart(f, j)
  BY DEF StartSome
<1>2. dirty' = (dirty \/ open)
  BY <1>1, Zenon DEF HostStart
<1>3. pc = "poll" /\ UNCHANGED <<pc, dn_filesize, s3c_receive_done>>
  BY <1>1 DEF HostStart, devVars, dnVars, doneVars
<1>4. CASE dirty'
  BY <1>3, <1>4, Drift, Zenon
<1>5. CASE ~dirty'
  <2>1. ~dirty /\ ~open
    BY <1>2, <1>5, Zenon
  <2>2. ~Loading
    BY <2>1, Zenon DEF Seen, Arrived
  <2>3. Stage' = Stage
    BY <1>3, <1>5, <2>1, Zenon DEF Stage
  <2>4. QED
    BY <2>2, <2>3, StageStutter, Zenon
<1>6. QED
  BY <1>4, <1>5

\* A host gives up.
LEMMA ServeHostAbort ==
    ASSUME Seen, Seen', HostAbort
    PROVE  Served
<1>1. dirty' = (dirty \/ host.state = "reading")
  BY Zenon DEF HostAbort
<1>2. pc = "poll" /\ UNCHANGED <<pc, dn_filesize, s3c_receive_done, dn_ptr>>
  BY DEF HostAbort, devVars, dnVars, doneVars
<1>3. host'.frame = host.frame
  BY DEF HostAbort, Seen, IInv, TypeInv, TypeOK, HostState
<1>4. CASE dirty'
  BY <1>2, <1>4, Drift, Zenon
<1>5. CASE ~dirty'
  <2>1. ~dirty
    BY <1>1, <1>5, Zenon
  <2>2. Stage' = Stage
    BY <1>2, <1>5, <2>1, Zenon DEF Stage
  <2>3. QED
    BY <1>2, <1>3, <2>2, StageStutter, Zenon
<1>6. QED
  BY <1>4, <1>5

\* The rest of the bus and the handler is no step of the service.
LEMMA ServeRest ==
    ASSUME Seen, Seen',
           \/ Poll \/ OnReset \/ OnEmptyFifo \/ OnBulkIn
           \/ BusReset \/ (\E s \in Speeds : EnumDone(s)) \/ HostReady
           \/ HostSend \/ HostInToken \/ HostRead
    PROVE  Served
<1>1. UNCHANGED <<pc, dirty, dn_filesize, s3c_receive_done, dn_ptr>>
  BY DEF Poll, OnReset, OnEmptyFifo, OnBulkIn, BusReset, EnumDone, HostReady, HostSend,
         HostInToken, HostRead, devVars, dnVars, doneVars
<1>2. host'.frame = host.frame
  <2>1. host \in HostState
    BY DEF Seen, IInv, TypeInv, TypeOK
  <2>2. CASE HostSend
    BY <2>1, <2>2 DEF HostSend, HostState
  <2>3. CASE HostReady \/ HostRead \/ BusReset
    BY <2>1, <2>3 DEF HostReady, HostRead, BusReset, HostState
  <2>4. CASE Poll \/ OnReset \/ OnEmptyFifo \/ OnBulkIn \/ HostInToken
             \/ \E s \in Speeds : EnumDone(s)
    BY <2>4 DEF Poll, OnReset, OnEmptyFifo, OnBulkIn, HostInToken, EnumDone, hostVars
  <2>5. QED
    BY <2>2, <2>3, <2>4
<1>3. QED
  BY <1>1, <1>2, PlaceSame, Zenon

LEMMA ServiceStep == IInv /\ InvCount /\ [Next]_vars => [Service!Next]_(Service!vars)
<1> SUFFICES ASSUME IInv, InvCount, [Next]_vars PROVE Served
  BY Zenon DEF Served
<1>1. Seen /\ Seen'
  BY SeenStep
<1>2. CASE UNCHANGED vars
  <2>1. UNCHANGED <<pc, dirty, dn_filesize, s3c_receive_done, dn_ptr, host.frame>>
    BY <1>2 DEF vars, dnVars, doneVars, hostVars
  <2>2. QED
    BY <1>1, <2>1, PlaceSame, Zenon
<1>3. CASE \E ok \in BOOLEAN : UsbInit(ok)
  BY <1>1, <1>3, ServeUsbInit, Zenon
<1>4. CASE OnEnumDone
  BY <1>1, <1>4, ServeEnumDone, Zenon
<1>5. CASE OnPacket
  BY <1>1, <1>5, ServePacket, Zenon
<1>6. CASE Boot
  BY <1>1, <1>6, ServeBoot, Zenon
<1>7. CASE StartSome
  BY <1>1, <1>7, ServeHostStart, Zenon
<1>8. CASE HostAbort
  BY <1>1, <1>8, ServeHostAbort, Zenon
<1>9. CASE \/ Poll \/ OnReset \/ OnEmptyFifo \/ OnBulkIn
           \/ BusReset \/ (\E s \in Speeds : EnumDone(s)) \/ HostReady
           \/ HostSend \/ HostInToken \/ HostRead
  BY <1>1, <1>9, ServeRest, Zenon
<1>10. QED
  BY <1>2, <1>3, <1>4, <1>5, <1>6, <1>7, <1>8, <1>9 DEF Next, Device, StartSome

LEMMA ServiceInit == Init => Service!Init
<1> SUFFICES ASSUME Init PROVE Service!Init
  OBVIOUS
<1>1. ~dirty /\ Loops /\ s3c_receive_done # 1 /\ dn_filesize = 0
  BY DEF Init, Loops
<1>2. Stage = "idle" /\ ~Loading
  BY <1>1, StageMeans, Zenon DEF StageMeant
<1>3. Blank
  BY <1>2, BlankNow, Zenon
<1>4. QED
  BY <1>2, <1>3, Zenon DEF Blank, Service!Init, Service!Nothing

\* For every image, packet size and number of frames, resets and aborts, the
\* driver, usb_read and the hosts do nothing but what the download service
\* allows: one image, in order, complete before it is run, where it was put.
THEOREM ImplementsDownloadService == Spec => ImplementsService
<1>1. Init => IInv /\ InvCount /\ Service!Init
  <2>1. Init => InvCount
    BY DEF Init, InvCount
  <2>2. QED
    BY <2>1, IInit, ServiceInit
<1>2. IInv /\ InvCount /\ [Next]_vars => IInv' /\ InvCount' /\ [Service!Next]_(Service!vars)
  BY IStep, CountStep, ServiceStep
<1>3. QED
  BY <1>1, <1>2, PTL DEF Spec, ImplementsService, Service!Spec
=============================================================================
