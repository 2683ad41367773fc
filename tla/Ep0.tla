-------------------------------- MODULE Ep0 --------------------------------
(***************************************************************************)
(* The control endpoint (qi-usb-lcd/src/cpu/s3c6410/usbd-otg-hs.c):        *)
(* s3c_usb_ep0_int_hndlr decodes a SETUP packet when ep0_state is          *)
(* EP0_STATE_INIT, and s3c_usb_transfer_ep0 writes one packet of the       *)
(* answer each time the core has seen an IN token with nothing to send     *)
(* (INTKN_TXFEMP).  At high speed a descriptor is one packet, at full      *)
(* speed it takes several, and the host decides when it has enough.        *)
(*                                                                         *)
(* A packet is the descriptor it is cut from, the first byte and the       *)
(* number of bytes.  While the bus is reset the driver has time to empty   *)
(* the receive FIFO.                                                       *)
(***************************************************************************)
EXTENDS Integers, Sequences

CONSTANTS
    FsPkt, HsPkt,       \* FS_CTRL_PKT_SIZE, HS_CTRL_PKT_SIZE
    Size,               \* Size[d]: bytes of descriptor d
    Requests,           \* what hosts ask for: kind and wLength
    MaxResets,          \* bound: bus resets
    MaxAborts           \* bound: transfers the host gives up

Strings == {"str1", "str2"}
Chained == {"dev", "cfg", "cfgonly"}    \* a state for each packet at full speed
Bounded == {"qual", "other"}            \* high speed only, wLength looked at
Fixed == {"str0", "ep1", "ep2", "byte"} \* one packet, whatever wLength is
Descriptors == Strings \union Chained \union Bounded \union Fixed
Kinds == (Descriptors \ {"cfgonly"}) \union {"unknown", "getconf", "setconf", "nodata"}
Speeds == {"full", "high"}
Request == [kind: Kinds, len: Nat]

ASSUME SizeAssumption ==
    /\ FsPkt \in Nat \ {0} /\ HsPkt \in Nat \ {0} /\ FsPkt < HsPkt
    /\ Size \in [Descriptors -> Nat \ {0}]
    /\ \A d \in Descriptors : Size[d] < HsPkt
    /\ 2 * FsPkt < Size["dev"] /\ Size["dev"] < 3 * FsPkt
    /\ Size["cfgonly"] = FsPkt + 1 /\ Size["cfg"] = 4 * FsPkt
    /\ \A d \in Fixed : Size[d] < FsPkt
    /\ \A d \in Strings : Size[d] % FsPkt # 0
    /\ Size["other"] = Size["cfg"]

\* Only a request that has no answer has no wLength.
ASSUME RequestAssumption ==
    /\ Requests \subseteq Request
    /\ \A r \in Requests : (r.kind \in {"setconf", "nodata"}) <=> r.len = 0
    /\ MaxResets \in Nat /\ MaxAborts \in Nat

VARIABLES
    speed,
    ep0_state,          \* the descriptor and the number of its next packet
    ep0_substate,
    req_length,
    set_config,
    rx,                 \* the SETUP packet in the receive FIFO, if any
    token,              \* INTKN_TXFEMP
    fifo,               \* the packet in the transmit FIFO, if any
    host,               \* the control transfer as the host sees it
    configured,         \* the host has set the configuration
    unread,             \* words of a SETUP packet are left in the receive FIFO
    jammed, left, cut,  \* history: see Undecoded, InData, BusReset
    resets, aborts

device == <<speed, ep0_state, ep0_substate, req_length, set_config>>
history == <<jammed, left, cut, resets, aborts>>
vars == <<device, rx, token, fifo, host, configured, unread, history>>

INIT == [desc |-> "none", k |-> 0]      \* EP0_STATE_INIT
MaxPkt == IF speed = "high" THEN HsPkt ELSE FsPkt
Packet == [desc: Descriptors \union {"none", "value"}, from: Int, len: Nat]
Room == IF left THEN HsPkt ELSE MaxPkt  \* a packet may be left of the other speed
ZeroPacket == [desc |-> "none", from |-> 0, len |-> 0]

\* bytes: how many have come; at: how many there were before the packet.
Received == [packet: Packet, at: Nat]
Host == [phase: {"idle", "data", "status"}, req: Request, bytes: Nat, got: SUBSET Received]

TypeOK ==
    /\ speed \in Speeds
    /\ ep0_state \in [desc: Descriptors \union {"none"}, k: 0 .. 4]
    /\ ep0_substate \in Nat /\ ep0_substate * FsPkt < Size["str1"] + Size["str2"]
    /\ req_length \in Nat
    /\ set_config \in BOOLEAN
    /\ rx \in Seq(Requests) /\ Len(rx) <= 1
    /\ token \in BOOLEAN
    /\ fifo \in Seq(Packet) /\ Len(fifo) <= 1
    /\ \A n \in DOMAIN fifo : fifo[n].len <= Room
    /\ host \in Host
    /\ configured \in BOOLEAN /\ unread \in BOOLEAN /\ jammed \in BOOLEAN
    /\ left \in BOOLEAN /\ cut \in BOOLEAN
    /\ resets \in 0 .. MaxResets /\ aborts \in 0 .. MaxAborts

\* The host has no transfer under way.
Idle == [phase |-> "idle", req |-> [kind |-> "nodata", len |-> 0], bytes |-> 0, got |-> {}]

Init ==
    /\ speed \in Speeds
    /\ ep0_state = INIT /\ ep0_substate = 0 /\ req_length = 0
    /\ set_config = FALSE
    /\ rx = <<>> /\ token = FALSE /\ fifo = <<>>
    /\ host = Idle
    /\ configured = FALSE /\ unread = FALSE
    /\ jammed = FALSE /\ left = FALSE /\ cut = FALSE
    /\ resets = 0 /\ aborts = 0

-----------------------------------------------------------------------------
(* The host and the core that drive the driver *)

\* No host asks a full speed device for what it has at the other speed.
Setup(r) ==
    /\ host.phase = "idle" /\ rx = <<>> /\ ~unread
    /\ r.kind \in Bounded => speed = "high"
    /\ rx' = <<r>>
    /\ host' = [phase |-> IF r.len = 0 THEN "status" ELSE "data", req |-> r,
                bytes |-> 0, got |-> {}]
    /\ cut' = (cut /\ ep0_substate # 0)
    /\ UNCHANGED <<device, token, fifo, configured, unread, jammed, left, resets, aborts>>

InToken ==
    /\ host.phase # "idle" /\ fifo = <<>> /\ ~token
    /\ token' = TRUE
    /\ UNCHANGED <<device, rx, fifo, host, configured, unread, history>>

\* The host has what it asked for, or a packet that is not full.
Enough(packet) ==
    \/ host.phase = "status"
    \/ host.bytes + packet.len >= host.req.len \/ packet.len < MaxPkt

\* The transfer with the packet in the FIFO.
Taken ==
    [host EXCEPT
        !.bytes = @ + fifo[1].len,
        !.got = @ \union {[packet |-> fifo[1], at |-> host.bytes]},
        !.phase = IF Enough(fifo[1]) THEN "idle" ELSE @]

\* A SETUP packet makes the core answer NAK until the driver clears that.
\* left: the host is through with a transfer, the driver is not; what it
\* gets from then on is not recorded.
InData ==
    /\ host.phase # "idle" /\ fifo # <<>> /\ rx = <<>>
    /\ host' = IF ~left /\ ~cut THEN Taken
               ELSE IF Enough(fifo[1]) THEN Idle ELSE [Taken EXCEPT !.got = {}]
    /\ left' = (left \/ (Enough(fifo[1]) /\ ep0_state # INIT))
    /\ configured' = (configured \/ (host.req.kind = "setconf" /\ fifo[1].len = 0))
    /\ fifo' = <<>>
    /\ UNCHANGED <<device, rx, token, unread, jammed, cut, resets, aborts>>

\* The host gives up waiting.
Abort ==
    /\ host.phase # "idle" /\ rx = <<>> /\ aborts < MaxAborts
    /\ host' = Idle
    /\ left' = TRUE /\ aborts' = aborts + 1
    /\ UNCHANGED <<device, rx, token, fifo, configured, unread, jammed, cut, resets>>

\* Mutant: s3c_usb_reset leaves the driver in the state it is in.
BusResetKeeps(s) ==
    /\ rx = <<>> /\ ~unread /\ resets < MaxResets
    /\ speed' = s
    /\ ep0_state' = IF s = speed THEN ep0_state ELSE INIT
    /\ token' = FALSE /\ fifo' \in {fifo, <<>>}
    /\ host' = Idle
    /\ configured' = FALSE
    /\ jammed' = FALSE /\ left' = (fifo' # <<>>) /\ cut' = (ep0_substate # 0)
    /\ resets' = resets + 1
    /\ UNCHANGED <<ep0_substate, req_length, set_config, rx, unread, aborts>>

\* s3c_usb_reset and s3c_usb_set_init, which do not empty the transmit FIFO: the
\* driver is through, a packet of its answer may not be.  cut: a string was
\* under way; it comes out of step until one has been read to its end.
BusReset(s) ==
    /\ rx = <<>> /\ ~unread /\ resets < MaxResets
    /\ speed' = s
    /\ ep0_state' = INIT
    /\ token' = FALSE /\ fifo' \in {fifo, <<>>}
    /\ host' = Idle
    /\ configured' = FALSE
    /\ jammed' = FALSE /\ left' = (fifo' # <<>>) /\ cut' = (ep0_substate # 0)
    /\ resets' = resets + 1
    /\ UNCHANGED <<ep0_substate, req_length, set_config, rx, unread, aborts>>

-----------------------------------------------------------------------------
(* s3c_usb_ep0_int_hndlr *)

Decoding == rx # <<>> /\ ep0_state = INIT /\ rx' = <<>>

Goto(d) == ep0_state' = [desc |-> d, k |-> 0]

\* Mutant: wLength is not kept.
DecodeGetStale ==
    /\ Decoding /\ rx[1].kind \in Descriptors
    /\ Goto(IF rx[1].kind = "cfg" /\ rx[1].len <= Size["cfgonly"] THEN "cfgonly" ELSE rx[1].kind)
    /\ UNCHANGED <<speed, ep0_substate, req_length, set_config,
                   token, fifo, host, configured, unread, history>>

\* s3c_usb_get_desc, s3c_usb_get_status, STANDARD_GET_INTERFACE
DecodeGet ==
    /\ Decoding /\ rx[1].kind \in Descriptors
    /\ Goto(IF rx[1].kind = "cfg" /\ rx[1].len <= Size["cfgonly"] THEN "cfgonly" ELSE rx[1].kind)
    /\ req_length' = IF rx[1].kind \in Chained \union Bounded THEN rx[1].len ELSE req_length
    /\ UNCHANGED <<speed, ep0_substate, set_config, token, fifo, host, configured, unread, history>>

\* STANDARD_GET_CONFIGURATION answers at once.  An IN token that came before
\* is answered once more.
DecodeGetConfiguration ==
    /\ Decoding /\ rx[1].kind = "getconf"
    /\ fifo' = <<[desc |-> "value", from |-> 0, len |-> 1]>>
    /\ left' = (left \/ token)
    /\ UNCHANGED <<device, token, host, configured, unread, jammed, cut, resets, aborts>>

DecodeSetConfiguration ==
    /\ Decoding /\ rx[1].kind = "setconf"
    /\ set_config' = TRUE
    /\ UNCHANGED <<speed, ep0_state, ep0_substate, req_length,
                   token, fifo, host, configured, unread, history>>

\* Addresses, features, interfaces; descriptors there are none of.
DecodeOther ==
    /\ Decoding /\ rx[1].kind \in {"nodata", "unknown"}
    /\ UNCHANGED <<device, token, fifo, host, configured, unread, history>>

\* In another state the packet is not even read, and the driver goes on with the
\* IN tokens as if it had not come.
Undecoded ==
    /\ rx # <<>> /\ ep0_state # INIT
    /\ rx' = <<>> /\ unread' = TRUE /\ jammed' = TRUE
    /\ UNCHANGED <<device, token, fifo, host, configured, left, cut, resets, aborts>>

\* s3c_usb_pkt_receive takes the words that were left for the status of packets.
\* If one says SETUP_PKT_RECEIVED, and the driver has come to EP0_STATE_INIT by
\* then, it decodes what it reads next, which may be anything.
Misread ==
    /\ unread /\ rx = <<>>
    /\ unread' = FALSE
    /\ \/ UNCHANGED rx
       \/ /\ ep0_state = INIT
          /\ \E r \in Requests : (r.kind \in Bounded => speed = "high") /\ rx' = <<r>>
    /\ UNCHANGED <<device, token, fifo, host, configured, history>>

-----------------------------------------------------------------------------
(* s3c_usb_transfer_ep0 *)

\* A received packet is served before an IN token.
Transfer == token /\ rx = <<>> /\ token' = FALSE

\* A write of no bytes, or of less, leaves the FIFO as it was.
Write(d, from, n) ==
    fifo' = IF n > 0 THEN <<[desc |-> d, from |-> from, len |-> n]>> ELSE fifo

Only == UNCHANGED <<speed, req_length, set_config, rx, host, configured, unread, history>>

\* EP0_STATE_INIT: the status stage.  Over a value that is waiting in the FIFO
\* an empty packet may be sent, or the value.
TransferInit ==
    /\ Transfer /\ ep0_state = INIT
    /\ fifo' = <<ZeroPacket>> \/ (fifo # <<>> /\ UNCHANGED fifo)
    /\ Only /\ UNCHANGED <<ep0_state, ep0_substate>>

Least(a, b) == IF a < b THEN a ELSE b
Desc == ep0_state.desc
Offset == ep0_state.k * FsPkt

\* s3c_usb_set_otherspeed_conf_desc knows two lengths.
WriteOther ==
    IF req_length \in {Size["cfgonly"], Size["cfg"]}
    THEN Write("other", 0, req_length) ELSE UNCHANGED fifo

\* Mutant: the driver does not go back to EP0_STATE_INIT.
TransferOneStays ==
    /\ Transfer
    /\ \/ Desc \in Fixed /\ Write(Desc, 0, Size[Desc])
       \/ Desc = "qual" /\ Write(Desc, 0, Least(req_length, Size[Desc]))
       \/ Desc = "other" /\ WriteOther
       \/ /\ Desc \in Chained /\ speed = "high"
          /\ Write(Desc, 0, Least(req_length, Size[Desc]))
    /\ Only /\ UNCHANGED <<ep0_state, ep0_substate>>

\* A descriptor in one packet.
TransferOne ==
    /\ Transfer
    /\ \/ Desc \in Fixed /\ Write(Desc, 0, Size[Desc])
       \/ Desc = "qual" /\ Write(Desc, 0, Least(req_length, Size[Desc]))
       \/ Desc = "other" /\ WriteOther
       \/ /\ Desc \in Chained /\ speed = "high"
          /\ Write(Desc, 0, Least(req_length, Size[Desc]))
    /\ ep0_state' = INIT
    /\ Only /\ UNCHANGED ep0_substate

\* Mutant: a fifth packet of the configuration.
LastStateLate == CASE Desc = "dev" -> 2 [] Desc = "cfg" -> 5 [] Desc = "cfgonly" -> 1

\* The last state of a chain does not look whether the packet can be full.
LastState == CASE Desc = "dev" -> 2 [] Desc = "cfg" -> 4 [] Desc = "cfgonly" -> 1

TransferChained ==
    /\ Transfer /\ Desc \in Chained /\ speed = "full" /\ ep0_state.k < LastState
    /\ IF req_length < Offset + FsPkt
         THEN Write(Desc, Offset, req_length - Offset) /\ ep0_state' = INIT
         ELSE Write(Desc, Offset, FsPkt) /\ ep0_state' = [ep0_state EXCEPT !.k = @ + 1]
    /\ Only /\ UNCHANGED ep0_substate

\* Mutant: the last state is not left.
TransferChainEndStays ==
    /\ Transfer /\ Desc \in Chained /\ speed = "full" /\ ep0_state.k = LastState
    /\ CASE Desc = "dev"     -> Write(Desc, Offset, Least(req_length, Size[Desc]) - Offset)
         [] Desc = "cfg"     -> UNCHANGED fifo
         [] Desc = "cfgonly" -> Write(Desc, Offset, Size[Desc] - Offset)
    /\ Only /\ UNCHANGED <<ep0_state, ep0_substate>>

TransferChainEnd ==
    /\ Transfer /\ Desc \in Chained /\ speed = "full" /\ ep0_state.k = LastState
    /\ CASE Desc = "dev"     -> Write(Desc, Offset, Least(req_length, Size[Desc]) - Offset)
         [] Desc = "cfg"     -> UNCHANGED fifo
         [] Desc = "cfgonly" -> Write(Desc, Offset, Size[Desc] - Offset)
    /\ ep0_state' = INIT
    /\ Only /\ UNCHANGED ep0_substate

Start == ep0_substate * MaxPkt

\* Mutant: the count is not cleared behind the last packet.
TransferStringCounts ==
    /\ Transfer /\ Desc \in Strings
    /\ IF Start + MaxPkt < Size[Desc]
         THEN /\ Write(Desc, Start, MaxPkt)
              /\ ep0_substate' = ep0_substate + 1
              /\ UNCHANGED ep0_state
         ELSE /\ Write(Desc, Start, Size[Desc] - Start)
              /\ ep0_state' = INIT /\ UNCHANGED ep0_substate
    /\ Only

TransferString ==
    /\ Transfer /\ Desc \in Strings
    /\ IF Start + MaxPkt < Size[Desc]
         THEN /\ Write(Desc, Start, MaxPkt)
              /\ ep0_substate' = ep0_substate + 1
              /\ UNCHANGED ep0_state
         ELSE /\ Write(Desc, Start, Size[Desc] - Start)
              /\ ep0_substate' = 0 /\ ep0_state' = INIT
    /\ Only

-----------------------------------------------------------------------------
Decode ==
    \/ DecodeGet \/ DecodeGetConfiguration \/ DecodeSetConfiguration \/ DecodeOther
    \/ Undecoded \/ Misread
Answer == TransferInit \/ TransferOne \/ TransferChained \/ TransferChainEnd \/ TransferString

Next ==
    \/ \E r \in Requests : Setup(r)
    \/ InToken \/ InData \/ Abort
    \/ \E s \in Speeds : BusReset(s)
    \/ Decode \/ Answer

Spec == Init /\ [][Next]_vars

\* The driver polls the interrupt status; a host repeats its IN tokens.
FairSpec ==
    /\ Spec
    /\ WF_vars(Decode) /\ WF_vars(Answer) /\ WF_vars(InToken) /\ WF_vars(InData)

-----------------------------------------------------------------------------
(* Properties *)

\* What the host is to get of what it asked for.
Source(r) == IF r.kind = "cfg" /\ r.len <= Size["cfgonly"] THEN "cfgonly" ELSE r.kind
Due(r) ==
    CASE r.kind \in Descriptors -> Least(r.len, Size[Source(r)])
      [] r.kind = "getconf" -> 1
      [] OTHER -> 0

\* The driver sends a string, and what always is one packet, whole and without a
\* look at wLength; of the other configuration it knows two lengths.
Heeded(r) ==
    /\ r.kind \in Strings \union Fixed => r.len >= Size[r.kind]
    /\ r.kind = "other" => r.len \in {Size["cfgonly"], Size["cfg"]}

\* usbd-otg-hs.c:976-1388: the host gets the descriptor it asked for, from its
\* first byte, in order, and at the end as much of it as there is and as it
\* asked for, if wLength is one the driver heeds and unless the driver was left
\* in the middle of another answer.
Answered ==
    (~left /\ ~cut /\ host.req.kind \in Descriptors /\ Heeded(host.req) /\ host.got # {}) =>
        /\ host.bytes <= Due(host.req)
        /\ \A g \in host.got : g.packet.len > 0 =>
              g.packet.desc = Source(host.req) /\ g.packet.from = g.at
        /\ host.phase = "idle" => host.bytes = Due(host.req)

\* A full speed transfer that ends with a full packet.
Exact(r) ==
    /\ speed = "full" /\ r.kind \in {"dev", "cfg"}
    /\ r.len % FsPkt = 0 /\ r.len <= Size[r.kind]

\* usbd-otg-hs.c:829: the next SETUP packet is decoded only in EP0_STATE_INIT.
\* The host is through with a transfer before the driver only if it gave up, if
\* its wLength is a multiple of the packet size at full speed or is not heeded,
\* if it asked for the configuration, or if a reset left a packet in the FIFO.
EndsTogether ==
    [][left' /\ ~left => \/ aborts' # aborts \/ resets' # resets
                         \/ Exact(host.req) \/ ~Heeded(host.req)
                         \/ host.req.kind = "getconf"]_vars

\* usbd-otg-hs.c:1341: between requests the count of string packets is 0,
\* unless the bus was reset in the middle of a string.
SubstateClear == (ep0_state = INIT /\ ~cut) => ep0_substate = 0

\* usbd-otg-hs.c:861: what the host takes for the acknowledgement of its
\* SET_CONFIGURATION comes from a driver that has decoded it, unless, since the
\* bus was reset, the host was through with a transfer before the driver and a
\* SETUP packet was left undecoded.
ConfiguredIsSet == configured => set_config \/ (left /\ jammed)

\* usbd-otg-hs.c:2032: every control transfer comes to an end, also the one
\* whose SETUP packet the driver left unread.
TransfersEnd == host.phase # "idle" ~> host.phase = "idle"
=============================================================================
