---------------------------- MODULE UsbDownload ----------------------------
(***************************************************************************)
(* USB boot of qi-usb-lcd: the bulk endpoints of the S3C6410 OTG driver    *)
(* (src/cpu/s3c6410/usbd-otg-hs.c), the polling loop usb_read that runs    *)
(* it (smartq.c), and the host that talks to it: dltool, which downloads   *)
(* an image, and a DNW-style host, which reads memory back.                *)
(*                                                                         *)
(* A frame is what a host sends in one bulk transfer.  An image frame is   *)
(* addr(4)+size(4)+data(n)+cs(2); an upload request is addr(4)+size(4)+1.  *)
(* Byte k of frame f is the tag <<f, k>>: contents matter only by where    *)
(* they came from.                                                         *)
(***************************************************************************)
EXTENDS Integers

CONSTANTS
    Files,      \* images dltool can be asked to download
    Size,       \* Size[f]: length in bytes of image f
    Uploads,    \* upload requests
    UpAddr,     \* UpAddr[u]: first address an upload request asks for
    UpSize,     \* UpSize[u]: number of bytes it asks for
    DlAddr,     \* download address (0x50000000)
    W,          \* 2^32: addresses and sizes are u32
    HighPkt,    \* HS_BULK_PKT_SIZE
    FullPkt,    \* FS_BULK_PKT_SIZE
    Junk,       \* sums dltool's calc_cksum adds by mistake: the two checksum
                \* bytes it has not written yet and one byte past the buffer
    Garbage,    \* <<addr, size>> read from the middle of a frame
    NoFrame,    \* tag of bytes that come from no frame
    MaxFrames,  \* bound: frames the hosts start
    MaxResets,  \* bound: bus resets after the first
    MaxAborts   \* bound: transfers the hosts give up

Frames == Files \union Uploads
Mem    == 0 .. W - 1

\* Length of a frame on the wire; its two header words.
FrameLen(f) == IF f \in Files THEN Size[f] + 10 ELSE 10
HdrAddr(f)  == IF f \in Files THEN DlAddr ELSE UpAddr[f]
HdrSize(f)  == IF f \in Files THEN Size[f] + 10 ELSE UpSize[f]

ASSUME FramesAssumption ==
    /\ Files \cap Uploads = {}
    /\ NoFrame \notin Frames
    /\ Size \in [Files -> Nat]
    /\ UpAddr \in [Uploads -> Nat] /\ UpSize \in [Uploads -> Nat \ {0}]

ASSUME WordAssumption ==
    /\ W \in Nat /\ W > 16
    /\ DlAddr \in Mem /\ DlAddr % 2 = 0
    /\ \A f \in Files : DlAddr + Size[f] + 16 < W
    /\ \A u \in Uploads : UpAddr[u] + UpSize[u] < W
    /\ Junk \subseteq Nat
    /\ Garbage \subseteq Mem \X Mem

\* The packet sizes are multiples of the FIFO's word that hold a header.
ASSUME PktAssumption ==
    /\ HighPkt \in Nat /\ HighPkt > 10 /\ HighPkt % 4 = 0
    /\ FullPkt \in Nat /\ FullPkt > 10 /\ FullPkt % 4 = 0

ASSUME BoundAssumption == MaxFrames \in Nat /\ MaxResets \in Nat /\ MaxAborts \in Nat

VARIABLES
    \* the driver and usb_read
    pc,             \* "init", "poll", "run" (jumped to the image), "noUsb"
    pass,           \* interrupt causes the running handler still has to serve
    dn_addr, dn_filesize, dn_ptr,           \* otg.dn_*
    up_addr, up_size, up_ptr,               \* otg.up_*
    pktsize,                                \* otg.bulkin/bulkout_max_pktsize
    s3c_usbd_dn_addr, s3c_usbd_dn_cnt, s3c_receive_done,
    checksum,       \* what s3c_usb_verify_checksum reported
    mem,
    \* the OTG core
    irq,            \* pending causes
    dsts,           \* speed field of DSTS
    rx, tx,         \* packet in the receive / transmit FIFO (cnt = 0: none)
    armed,          \* the bulk OUT endpoint accepts one packet
    \* the bus and the host
    enumerated,     \* bus enumerated since the last reset
    host,           \* [state, frame, pos, junk]; pos counts bytes sent, then read
    frames, resets, aborts,
    \* history
    open,           \* an image frame was started since the last enumeration
    dirty,          \* something else followed or preceded it
    uploaded        \* an upload request was served since the last enumeration

dnVars   == <<dn_addr, dn_filesize, dn_ptr, s3c_usbd_dn_addr, s3c_usbd_dn_cnt>>
upVars   == <<up_addr, up_size, up_ptr>>
doneVars == <<s3c_receive_done, checksum>>
busVars  == <<dsts, enumerated>>
hostVars == <<host, frames, resets, aborts>>
vars     == <<pc, pass, dnVars, upVars, pktsize, doneVars, mem, irq, rx, tx,
              armed, busVars, hostVars, open, dirty, uploaded>>

Speeds == {"high", "full", "other"}
Causes == {"RESET", "ENUMDONE", "RX", "INEP"}

Packet   == [frame : Frames \union {NoFrame}, from : Nat, cnt : Mem, junk : Nat]
NoPacket == [frame |-> NoFrame, from |-> 0, cnt |-> 0, junk |-> 0]
Chunk    == [from : Mem, cnt : Nat]
NoChunk  == [from |-> 0, cnt |-> 0]

\* u32 addition and subtraction, for operands below W.
SubSigned(a, b) == a - b
Add(a, b) == IF a + b < W THEN a + b ELSE a + b - W
Sub(a, b) == IF a >= b THEN a - b ELSE a - b + W
Least(a, b) == IF a <= b THEN a ELSE b

\* s3c_usb_read_out_fifo: n bytes of the packet from offset skip go to ptr, in
\* whole words: the last word may carry up to three bytes more.
ReadOutFifo(p, skip, n, ptr) ==
    [a \in Mem |->
        LET k == Sub(a, ptr) IN
        IF n > 0 /\ k < n THEN <<p.frame, p.from + skip + k>>
        ELSE IF n > 0 /\ k < 4 * ((n + 3) \div 4) THEN <<NoFrame, 0>>
        ELSE mem[a]]

\* What the first eight bytes of a packet say, read as a header.
HeaderOf(p) == IF p.from = 0 THEN {<<HdrAddr(p.frame), HdrSize(p.frame)>>} ELSE Garbage

-----------------------------------------------------------------------------
(* The driver.                                                             *)

Init ==
    /\ pc = "init" /\ pass = {}
    /\ dn_addr = 0 /\ dn_filesize = 0 /\ dn_ptr = 0
    /\ up_addr = 0 /\ up_size = 0 /\ up_ptr = 0
    /\ pktsize = 0
    /\ s3c_usbd_dn_addr = 0 /\ s3c_usbd_dn_cnt = 0
    /\ s3c_receive_done = 0 /\ checksum = "none"
    /\ mem = [a \in Mem |-> <<NoFrame, 0>>]
    /\ irq = {} /\ dsts \in Speeds /\ rx = NoPacket /\ tx = NoChunk /\ armed = FALSE
    /\ enumerated = FALSE
    /\ host = [state |-> "detached", frame |-> NoFrame, pos |-> 0, junk |-> 0]
    /\ frames = 0 /\ resets = 0 /\ aborts = 0
    /\ open = FALSE /\ dirty = FALSE /\ uploaded = FALSE

\* usb_init and the head of usb_read.  s3c_usbctl_init fails when no cable shows
\* up in time or the core comes up as a host; usb_read then returns at once.
UsbInit(ok) ==
    /\ pc = "init"
    /\ pc' = IF ok THEN "poll" ELSE "noUsb"
    /\ s3c_receive_done' = 0 /\ s3c_usbd_dn_cnt' = 0
    /\ UNCHANGED <<pass, dn_addr, dn_filesize, dn_ptr, s3c_usbd_dn_addr, upVars, pktsize,
                   checksum, mem, irq, rx, tx, armed, busVars, hostVars, open, dirty, uploaded>>

\* One iteration of usb_read's loop finds an interrupt: the handler reads and
\* clears the status register.  RX stays raised as long as the FIFO holds a packet.
Poll ==
    /\ pc = "poll" /\ pass = {} /\ s3c_receive_done = 0
    /\ pass' = irq \union (IF rx.cnt > 0 THEN {"RX"} ELSE {})
    /\ pass' # {}
    /\ irq' = {}
    /\ UNCHANGED <<pc, dnVars, upVars, pktsize, doneVars, mem, rx, tx, armed, busVars,
                   hostVars, open, dirty, uploaded>>

\* The handler serves its causes in this order.
Serves(c) ==
    /\ pc = "poll" /\ c \in pass
    /\ c = "ENUMDONE" => "RESET" \notin pass
    /\ c = "RX" => pass \cap {"RESET", "ENUMDONE"} = {}
    /\ c = "INEP" => pass = {"INEP"}

\* s3c_usb_reset: nothing of the bulk state, least of all otg.dn_*, is touched.
OnReset ==
    /\ Serves("RESET")
    /\ pass' = pass \ {"RESET"}
    /\ UNCHANGED <<pc, dnVars, upVars, pktsize, doneVars, mem, irq, rx, tx, armed, busVars,
                   hostVars, open, dirty, uploaded>>

\* s3c_usb_set_max_pktsize, bulkin_max_pktsize and bulkout_max_pktsize.
MaxPktsize(speed) == IF speed = "high" THEN HighPkt ELSE FullPkt

\* A mutant: otg.dn_* survives the enumeration.
SetInitKeepsFile ==
    /\ pktsize' = MaxPktsize(dsts)
    /\ armed' = TRUE
    /\ pass' = pass \ {"ENUMDONE"}
    /\ UNCHANGED dnVars

\* s3c_usb_set_init at a known speed: packet sizes, endpoints, otg.dn_* cleared
\* (otg.up_* is not), OUT endpoint armed.
SetInit ==
    /\ pktsize' = MaxPktsize(dsts)
    /\ dn_addr' = 0 /\ dn_filesize' = 0 /\ dn_ptr' = 0
    /\ armed' = TRUE
    /\ pass' = pass \ {"ENUMDONE"}
    /\ UNCHANGED <<s3c_usbd_dn_addr, s3c_usbd_dn_cnt>>

OnEnumDone ==
    /\ Serves("ENUMDONE")
    /\ IF dsts = "other"
       THEN \* the handler gives up this interrupt
            /\ pass' = {}
            /\ irq' = irq \union (pass \cap {"INEP"})
            /\ UNCHANGED <<dnVars, pktsize, armed, open, dirty, uploaded>>
       ELSE /\ SetInit
            /\ open' = FALSE /\ uploaded' = FALSE
            /\ dirty' = (rx.cnt > 0 \/ tx.cnt > 0 \/ "INEP" \in pass \union irq)
            /\ UNCHANGED irq
    /\ UNCHANGED <<pc, upVars, doneVars, mem, rx, tx, busVars, hostVars>>

\* The bulk OUT endpoint is enabled for one more packet.
RearmForgotten == UNCHANGED armed
Rearm == armed' = TRUE

\* s3c_usb_upload_start.  Only a request with the check word 1 is taken.  The
\* OUT endpoint is not armed again.
UploadStart(h) ==
    /\ rx.cnt = 10
    /\ LET check == IF rx.frame \in Files THEN rx.junk ELSE 1 IN
       IF check = 1
       THEN up_addr' = h[1] /\ up_size' = h[2] /\ up_ptr' = h[1]
       ELSE UNCHANGED upVars
    /\ dn_filesize' = 0
    /\ uploaded' = TRUE
    /\ UNCHANGED <<dn_addr, dn_ptr, s3c_usbd_dn_addr, s3c_usbd_dn_cnt, doneVars, mem, armed>>

\* A mutant: the header is counted as data.
FirstPtrWithHeader(a) == Add(a, rx.cnt)

\* s3c_usb_download_start: the header, then the data of the first packet.
FirstPtr(a) == Add(a, Sub(rx.cnt, 8))
RecordHeader(a, size) ==
    /\ s3c_usbd_dn_addr' = a /\ dn_addr' = a
    /\ s3c_usbd_dn_cnt' = size /\ dn_filesize' = size
EvenAddr(a) == IF a % 2 = 1 THEN Add(a, 1) ELSE a

DownloadStart(h) ==
    /\ rx.cnt # 10
    /\ LET a == EvenAddr(h[1]) IN
       /\ RecordHeader(a, h[2])
       /\ mem' = ReadOutFifo(rx, 8, rx.cnt - 8, a)
       /\ dn_ptr' = FirstPtr(a)
    /\ Rearm
    /\ UNCHANGED <<upVars, doneVars, uploaded>>

\* s3c_usb_verify_checksum only reports.  Of an image that arrived in order it
\* finds the sum dltool sent off by the junk; of anything else, anything.
VerifyChecksum(m) ==
    LET f == rx.frame IN
    IF f \in Files /\ dn_filesize = Size[f] + 10
       /\ \A k \in 0 .. Size[f] + 1 : m[Add(dn_addr, k)] = <<f, k + 8>>
    THEN checksum' = IF rx.junk = 0 THEN "ok" ELSE "failed"
    ELSE checksum' \in {"ok", "failed"}

\* Mutants: off by one; the header is subtracted twice.
AllReceivedStrict(ptr) == Sub(ptr, dn_addr) > Sub(dn_filesize, 8)
AllReceivedEarly(ptr) == Sub(ptr, dn_addr) >= Sub(dn_filesize, 16)
\* The completion test: dn_ptr - dn_addr >= dn_filesize - 8, in u32.
AllReceived(ptr) == Sub(ptr, dn_addr) >= Sub(dn_filesize, 8)

\* s3c_usb_download_continue
DownloadContinue ==
    /\ mem' = ReadOutFifo(rx, 0, rx.cnt, dn_ptr)
    /\ dn_ptr' = Add(dn_ptr, rx.cnt)
    /\ Rearm
    /\ IF AllReceived(dn_ptr')
       THEN s3c_receive_done' = 1 /\ VerifyChecksum(mem')
       ELSE UNCHANGED doneVars
    /\ UNCHANGED <<dn_addr, dn_filesize, s3c_usbd_dn_addr, s3c_usbd_dn_cnt, upVars, uploaded>>

\* s3c_usb_pkt_receive and s3c_usb_int_bulkout, for a bulk OUT packet.
OnPacket ==
    /\ Serves("RX") /\ rx.cnt > 0
    /\ \/ /\ dn_filesize = 0
          /\ \E h \in HeaderOf(rx) : UploadStart(h) \/ DownloadStart(h)
       \/ dn_filesize # 0 /\ DownloadContinue
    /\ rx' = NoPacket
    /\ pass' = pass \ {"RX"}
    /\ UNCHANGED <<pc, pktsize, irq, tx, busVars, hostVars, open, dirty>>

\* The packet was lost with a reset between the status read and this step.
OnEmptyFifo ==
    /\ Serves("RX") /\ rx.cnt = 0
    /\ pass' = pass \ {"RX"}
    /\ UNCHANGED <<pc, dnVars, upVars, pktsize, doneVars, mem, irq, rx, tx, armed, busVars,
                   hostVars, open, dirty, uploaded>>

\* Mutants: every chunk is a full packet; the last, short one is not sent.
ChunkAlwaysFull(remain_cnt) == IF remain_cnt > 0 THEN pktsize ELSE 0
ChunkDropsLast(remain_cnt)  == IF remain_cnt > pktsize THEN pktsize ELSE 0
\* The length of the next packet of an upload.
ChunkLen(remain_cnt) == Least(remain_cnt, pktsize)

\* s3c_usb_transfer and s3c_usb_int_bulkin: an IN token met an empty FIFO.
OnBulkIn ==
    /\ Serves("INEP")
    /\ LET remain_cnt == Sub(up_size, Sub(up_ptr, up_addr))
           n == ChunkLen(remain_cnt)
       IN  /\ tx' = IF n > 0 THEN [from |-> up_ptr, cnt |-> n] ELSE tx
           /\ up_ptr' = Add(up_ptr, n)
    /\ pass' = {}
    /\ UNCHANGED <<pc, dnVars, up_addr, up_size, pktsize, doneVars, mem, irq, rx, armed,
                   busVars, hostVars, open, dirty, uploaded>>

\* The tail of usb_read: stop the core and jump to the image.
Boot ==
    /\ pc = "poll" /\ pass = {} /\ s3c_receive_done = 1
    /\ pc' = IF s3c_usbd_dn_cnt # 0 THEN "run" ELSE "noUsb"
    /\ UNCHANGED <<pass, dnVars, upVars, pktsize, doneVars, mem, irq, rx, tx, armed, busVars,
                   hostVars, open, dirty, uploaded>>

Device == Poll \/ OnReset \/ OnEnumDone \/ OnPacket \/ OnEmptyFifo \/ OnBulkIn \/ Boot

-----------------------------------------------------------------------------
(* The bus and the hosts (the OTG core and libusb are external).           *)

devVars == <<pass, dnVars, upVars, pktsize, doneVars, mem>>

\* The host resets the bus, or the cable is pulled.  A packet that waits in a
\* FIFO of the core may survive: the driver does not flush them.
BusReset ==
    /\ pc = "poll"
    /\ enumerated /\ resets < MaxResets
    /\ resets' = resets + 1
    /\ irq' = irq \union {"RESET"}
    /\ enumerated' = FALSE
    /\ host' = [host EXCEPT !.state = "detached"]
    /\ rx' \in {rx, NoPacket} /\ tx' \in {tx, NoChunk}
    /\ UNCHANGED <<pc, devVars, dsts, armed, frames, aborts, open, dirty, uploaded>>

EnumDone(s) ==
    /\ pc = "poll" /\ ~enumerated
    /\ enumerated' = TRUE /\ dsts' = s
    /\ irq' = irq \union {"ENUMDONE"}
    /\ UNCHANGED <<pc, devVars, rx, tx, armed, hostVars, open, dirty, uploaded>>

\* The host has configured the device (control transfers, see Ep0).
HostReady ==
    /\ pc = "poll" /\ host.state = "detached" /\ enumerated /\ dsts # "other"
    /\ "ENUMDONE" \notin irq \union pass
    /\ host' = [host EXCEPT !.state = "ready"]
    /\ UNCHANGED <<pc, devVars, irq, rx, tx, armed, busVars, frames, resets, aborts, open,
                   dirty, uploaded>>

\* dltool's main up to usb_bulk_write: load_file, write_header, calc_cksum; or
\* another host issues an upload request.
HostStart(f, j) ==
    /\ pc = "poll" /\ host.state = "ready" /\ frames < MaxFrames
    /\ frames' = frames + 1
    /\ host' = [state |-> "sending", frame |-> f, pos |-> 0, junk |-> j]
    /\ dirty' = (dirty \/ open)
    /\ open' = (open \/ FrameLen(f) # 10)
    /\ UNCHANGED <<pc, devVars, irq, rx, tx, armed, busVars, resets, aborts, uploaded>>

\* The next packet of usb_bulk_write's transfer goes out.
HostSend ==
    /\ pc = "poll" /\ host.state = "sending" /\ armed /\ rx.cnt = 0
    /\ LET c == Least(pktsize, FrameLen(host.frame) - host.pos)
           last == host.pos + c = FrameLen(host.frame)
       IN  /\ rx' = [frame |-> host.frame, from |-> host.pos, cnt |-> c, junk |-> host.junk]
           /\ host' = IF ~last THEN [host EXCEPT !.pos = @ + c]
                      ELSE IF host.frame \in Files
                           THEN [host EXCEPT !.pos = @ + c, !.state = "ready"]
                           ELSE [host EXCEPT !.pos = 0, !.state = "reading"]
    /\ armed' = FALSE
    /\ UNCHANGED <<pc, devVars, irq, tx, busVars, frames, resets, aborts, open, dirty, uploaded>>

\* A reading host polls the bulk IN endpoint.
HostInToken ==
    /\ pc = "poll" /\ host.state = "reading" /\ tx.cnt = 0
    /\ "INEP" \notin irq \union pass
    /\ irq' = irq \union {"INEP"}
    /\ UNCHANGED <<pc, devVars, rx, tx, armed, busVars, hostVars, open, dirty, uploaded>>

HostRead ==
    /\ pc = "poll" /\ host.state = "reading" /\ tx.cnt > 0
    /\ host' = [host EXCEPT !.pos = @ + tx.cnt,
                            !.state = IF host.pos + tx.cnt >= UpSize[host.frame]
                                      THEN "ready" ELSE "reading"]
    /\ tx' = NoChunk
    /\ UNCHANGED <<pc, devVars, irq, rx, armed, busVars, frames, resets, aborts, open, dirty,
                   uploaded>>

\* The host's program is stopped or its transfer times out; dltool only prints
\* that the write was short.  The bus is not reset.
HostAbort ==
    /\ pc = "poll" /\ host.state \in {"sending", "reading"} /\ aborts < MaxAborts
    /\ aborts' = aborts + 1
    /\ host' = [host EXCEPT !.state = "ready"]
    /\ dirty' = (dirty \/ host.state = "reading")
    /\ UNCHANGED <<pc, devVars, irq, rx, tx, armed, busVars, frames, resets, open, uploaded>>

Next ==
    \/ \E ok \in BOOLEAN : UsbInit(ok)
    \/ Device
    \/ BusReset \/ \E s \in Speeds : EnumDone(s)
    \/ HostReady
    \/ \E f \in Files, j \in Junk : HostStart(f, j)
    \/ \E u \in Uploads : HostStart(u, 0)
    \/ HostSend \/ HostInToken \/ HostRead \/ HostAbort

Spec == Init /\ [][Next]_vars

\* usb_read polls for ever and a host controller retries a bulk transfer until
\* the device takes it; nothing makes a host start, abort or reset.
FairSpec ==
    /\ Spec
    /\ WF_vars(Device)
    /\ WF_vars(HostReady) /\ WF_vars(HostSend) /\ WF_vars(HostInToken) /\ WF_vars(HostRead)
-----------------------------------------------------------------------------
(* Properties.                                                             *)

HostState == [state : {"detached", "ready", "sending", "reading"},
              frame : Frames \union {NoFrame}, pos : Nat, junk : Nat]

\* Types of all variables: otg.dn_*, otg.up_* and the globals stay u32 values.
TypeOK ==
    /\ pc \in {"init", "poll", "run", "noUsb"} /\ pass \subseteq Causes
    /\ dn_addr \in Mem /\ dn_filesize \in Mem /\ dn_ptr \in Mem
    /\ up_addr \in Mem /\ up_size \in Mem /\ up_ptr \in Mem
    /\ pktsize \in {0, HighPkt, FullPkt}
    /\ s3c_usbd_dn_addr \in Mem /\ s3c_usbd_dn_cnt \in Mem
    /\ s3c_receive_done \in {0, 1} /\ checksum \in {"none", "ok", "failed"}
    /\ mem \in [Mem -> (Frames \union {NoFrame}) \X Nat]
    /\ irq \subseteq Causes /\ dsts \in Speeds
    /\ rx \in Packet /\ tx \in Chunk /\ armed \in BOOLEAN
    /\ enumerated \in BOOLEAN /\ host \in HostState
    /\ frames \in Nat /\ resets \in Nat /\ aborts \in Nat
    /\ open \in BOOLEAN /\ dirty \in BOOLEAN /\ uploaded \in BOOLEAN

\* Memory holds bytes 8 .. 8 + n - 1 of frame f at the download address.
Holds(f, n) == \A k \in 0 .. n - 1 : mem[DlAddr + k] = <<f, k + 8>>

\* usb_read jumps only into an image that is complete, in order and of one
\* download, at the address it jumps to, whatever bus resets, aborted transfers
\* and uploads came before, unless a transfer was started on top of another
\* without an enumeration in between or a packet survived a bus reset.
BootsIntact ==
    pc = "run" /\ ~dirty =>
        /\ host.frame \in Files
        /\ s3c_usbd_dn_addr = DlAddr
        /\ Holds(host.frame, Size[host.frame])

\* When the driver reports a download, usb_read has an image to jump to, at the
\* address the driver wrote it to: usb_read never falls out of its loop.
CompletedDownloadBoots ==
    s3c_receive_done = 1 => s3c_usbd_dn_cnt # 0 /\ s3c_usbd_dn_addr = dn_addr

\* A download writes to the image, the two checksum bytes and at most three
\* bytes of padding behind them, and nowhere else.
NoStrayWrites ==
    [][~dirty => \A a \in Mem : mem'[a] # mem[a] =>
            /\ rx.frame \in Files
            /\ a \in DlAddr .. DlAddr + Size[rx.frame] + 4]_vars

\* The endpoint never goes deaf: once the handler has returned, a host in the
\* middle of a transfer finds the OUT endpoint enabled, unless an upload
\* request was the last thing the device took.
OutArmed ==
    (pc = "poll" /\ pass = {} /\ rx.cnt = 0 /\ host.state = "sending") => (armed \/ uploaded)

\* An upload delivers the requested range in order and no byte of another.
UploadInOrder ==
    (host.state = "reading" /\ ~dirty /\ tx.cnt > 0) =>
        /\ tx.from = UpAddr[host.frame] + host.pos
        /\ host.pos + tx.cnt <= UpSize[host.frame]

Cut == host.state = "detached" \/ (host.state = "ready" /\ host.pos < FrameLen(host.frame))

\* A download that needs more than one packet runs in the end, if it is not cut
\* off and the OUT endpoint was listening when it began.
DownloadCompletes ==
    \A f \in Files :
        (/\ host.state = "sending" /\ host.frame = f /\ FrameLen(f) > pktsize
         /\ ~dirty /\ armed)
        ~> (pc = "run" \/ Cut)

\* A host that reads an upload back gets all of it.
UploadCompletes ==
    (host.state = "reading" /\ ~dirty /\ pc = "poll") ~> (host.state # "reading" \/ dirty)

\* The download as the host sees it: how far it is, of which image, how many
\* bytes are there, which, and where the jump leads.
Stage ==
    IF dirty THEN "adrift"
    ELSE IF pc = "run" THEN "running"
    ELSE IF pc = "noUsb" THEN "off"
    ELSE IF s3c_receive_done = 1 THEN "complete"
    ELSE IF dn_filesize # 0 THEN "receiving" ELSE "idle"
Loading == Stage \in {"receiving", "complete", "running"}
LoadedFile == IF Loading THEN host.frame ELSE NoFrame
Loaded == IF Loading THEN dn_ptr - DlAddr ELSE 0
Image == [k \in 0 .. Loaded - 1 |-> mem[DlAddr + k]]
Entry == IF Stage = "running" THEN s3c_usbd_dn_addr ELSE 0

Service == INSTANCE DownloadService WITH
    NoFile <- NoFrame,
    state <- Stage, file <- LoadedFile, got <- Loaded, image <- Image, entry <- Entry

\* smartq.c usb_read, usbd-otg-hs.c: whatever interrupts, resets, uploads and
\* aborted transfers come in between, a download goes forward only, packet by
\* packet, is complete with its last byte and no earlier, and only then run.
ImplementsService == Service!Spec

\* The comment "USB format : addr(4)+size(4)+data(n)+cs(2)" beside the
\* completion test: a frame received to its last byte is a download done.
FrameReceivedIsDone ==
    (/\ pc = "poll" /\ ~dirty /\ open /\ host.state = "ready"
     /\ host.pos = FrameLen(host.frame) /\ rx.cnt = 0)
    => s3c_receive_done = 1
=============================================================================
