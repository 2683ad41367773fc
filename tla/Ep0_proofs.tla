----------------------------- MODULE Ep0_proofs -----------------------------
(***************************************************************************)
(* Theorems about the control endpoint, for every set of requests, all     *)
(* descriptor sizes and any number of resets and aborts.                   *)
(***************************************************************************)
EXTENDS Ep0, TLAPS

\* Only the chains count packets in the state, and none of them too far; at
\* high speed there is one packet.
InChain ==
    IF Desc \in Chained THEN ep0_state.k <= LastState /\ (speed = "high" => ep0_state.k = 0)
                        ELSE ep0_state.k = 0

\* What a device has at the other speed is asked for at high speed only.
AtHighSpeed ==
    Desc \in Bounded \/ (rx # <<>> /\ rx[1].kind \in Bounded) => speed = "high"

\* Only a string in progress counts packets in the substate.
CountedString == (Desc \notin Strings /\ ~cut) => ep0_substate = 0

\* What the driver has written of its answer.
Sent == host.bytes + (IF fifo = <<>> THEN 0 ELSE fifo[1].len)

\* The driver is at the transfer of the host, with what the state says written
\* and the host not content with it: at most one packet, a full one, is on its
\* way.
AtWork ==
    /\ host.phase = "data" /\ rx = <<>>
    /\ host.req \in Requests /\ host.req.kind \in Descriptors /\ Desc = Source(host.req)
    /\ host.bytes < host.req.len
    /\ fifo # <<>> => fifo[1].len = MaxPkt
    /\ Desc \in Chained \union Bounded => req_length = host.req.len
    /\ Desc \notin Strings => Sent = Offset /\ Offset <= host.req.len
    /\ Desc \in Strings =>
          /\ Sent <= Start
          /\ fifo # <<>> => Start < Size[Desc]
          /\ ~cut => Sent = Start /\ Start < Size[Desc]

\* The driver waits for the next SETUP packet; it has written all that was due.
Through ==
    /\ rx # <<>> => /\ rx = <<host.req>> /\ fifo = <<>> /\ host.bytes = 0 /\ host.got = {}
                    /\ host.phase # "idle"
    /\ host.phase = "idle" => fifo = <<>> /\ ~token
    /\ rx = <<>> /\ host.req.kind \in Descriptors /\ Heeded(host.req) /\ ~cut =>
          Sent = Due(host.req)

Together == ~left =>
    /\ ~jammed /\ ~unread
    /\ token => fifo = <<>>
    /\ host.phase # "idle" => (host.phase = "status" <=> host.req.len = 0)
    /\ IF ep0_state = INIT THEN Through ELSE AtWork

\* Every packet is the next piece of what was asked for.
InOrder == (~left /\ ~cut /\ host.req.kind \in Descriptors /\ Heeded(host.req)) =>
    /\ \A g \in host.got : g.packet.len > 0 =>
          g.packet.desc = Source(host.req) /\ g.packet.from = g.at
    /\ (fifo # <<>> /\ fifo[1].len > 0) =>
          fifo[1].desc = Source(host.req) /\ fifo[1].from = host.bytes

-----------------------------------------------------------------------------
(* Sizes *)

\* The kinds of descriptor, which have no member in common.
LEMMA KindsApart ==
    /\ \A d \in Chained \union Bounded \union Fixed : d \notin Strings
    /\ \A d \in Bounded \union Fixed : d \notin Chained
    /\ "none" \notin Strings /\ "none" \notin Chained /\ "none" \notin Descriptors
    /\ \A k \in {"setconf", "getconf", "nodata", "unknown"} : k \notin Descriptors
    /\ "cfgonly" \in Chained /\ "cfg" \in Chained /\ "dev" \in Chained
    /\ Chained \subseteq Descriptors /\ Bounded \subseteq Descriptors
    /\ Fixed \subseteq Descriptors /\ Strings \subseteq Descriptors
    /\ Descriptors \subseteq Strings \union Chained \union Bounded \union Fixed
BY DEF Chained, Bounded, Fixed, Strings, Descriptors

\* A packet at either speed, and the descriptors that take several.
LEMMA PacketSizes ==
    /\ FsPkt \in Nat /\ FsPkt > 1 /\ HsPkt \in Nat /\ FsPkt < HsPkt
    /\ MaxPkt \in Nat /\ FsPkt <= MaxPkt /\ (speed = "full" => MaxPkt = FsPkt)
    /\ \A d \in Descriptors : Size[d] \in Nat /\ Size[d] > 0 /\ Size[d] < HsPkt
    /\ \A d \in Fixed : Size[d] < FsPkt
    /\ (speed \in Speeds /\ speed # "full" => MaxPkt = HsPkt)
    /\ Room \in Nat /\ MaxPkt <= Room
<1>1. /\ FsPkt \in Nat /\ FsPkt > 0 /\ HsPkt \in Nat /\ FsPkt < HsPkt
      /\ \A d \in Descriptors : Size[d] \in Nat /\ Size[d] > 0 /\ Size[d] < HsPkt
      /\ \A d \in Fixed : Size[d] < FsPkt
  BY SizeAssumption
<1>2. FsPkt > 1
  <2>1. Size["byte"] > 0 /\ Size["byte"] < FsPkt /\ Size["byte"] \in Nat
    BY <1>1, KindsApart DEF Fixed
  <2> QED BY <1>1, <2>1
<1> QED BY <1>1, <1>2 DEF MaxPkt, Speeds, Room

\* The states of the three chains.
LEMMA LastStates ==
    ASSUME Desc \in Chained
    PROVE  /\ LastState \in 1 .. 4
           /\ Desc = "dev" => LastState = 2
           /\ Desc = "cfg" => LastState = 4
           /\ Desc = "cfgonly" => LastState = 1
BY DEF LastState, Chained

\* The places of a chain, k packets along.
LEMMA Offsets ==
    ASSUME TypeOK
    PROVE  /\ Offset \in Nat /\ ep0_state.k \in 0 .. 4
           /\ ep0_state.k = 0 => Offset = 0
           /\ ep0_state.k = 1 => Offset = FsPkt
           /\ ep0_state.k = 2 => Offset = 2 * FsPkt
           /\ ep0_state.k = 3 => Offset = 3 * FsPkt
           /\ ep0_state.k = 4 => Offset = 4 * FsPkt
<1>1. ep0_state.k \in 0 .. 4
  BY DEF TypeOK
<1>2. FsPkt \in Nat
  BY PacketSizes
<1>3. Offset \in Nat
  BY <1>1, <1>2 DEF Offset
<1> QED BY <1>1, <1>2, <1>3 DEF Offset

\* The place a string is at; one packet more is not less when counted in
\* packets of full speed.
LEMMA Starts ==
    ASSUME TypeOK
    PROVE  /\ Start \in Nat /\ ep0_substate \in Nat
           /\ ep0_substate = 0 => Start = 0
           /\ (ep0_substate + 1) * MaxPkt = Start + MaxPkt
           /\ (ep0_substate + 1) * FsPkt <= Start + MaxPkt
<1>1. ep0_substate \in Nat
  BY DEF TypeOK
<1>2. PICK m \in Nat, f \in Nat, s \in Nat :
        m = MaxPkt /\ f = FsPkt /\ s = ep0_substate /\ f <= m
  BY <1>1, PacketSizes
<1>3. /\ s * m \in Nat /\ (s + 1) * m = s * m + m
      /\ s = 0 => s * m = 0
  OBVIOUS
<1>4. (s + 1) * f <= (s + 1) * m
  <2>1. PICK e \in Nat, g \in Nat : m = f + e /\ g = s + 1
    BY <1>2
  <2>2. g * m = g * f + g * e /\ g * e \in Nat /\ g * f \in Nat
    BY <2>1
  <2> QED BY <2>1, <2>2
<1> QED BY <1>1, <1>2, <1>3, <1>4 DEF Start

-----------------------------------------------------------------------------
(* Types *)

\* The FIFO is written with a packet that fits, or with none.
Writes == \E d \in Descriptors, from \in Int, n \in Int : n <= MaxPkt /\ Write(d, from, n)

\* What is written is a packet that is not too long, or nothing.
LEMMA Written ==
    ASSUME TypeOK, Writes
    PROVE  /\ fifo' \in Seq(Packet) /\ Len(fifo') <= 1
           /\ \A i \in DOMAIN fifo' : fifo'[i].len <= Room
<1>0. PICK d \in Descriptors, from \in Int, n \in Int : n <= MaxPkt /\ Write(d, from, n)
  BY DEF Writes
<1>1. CASE n > 0
  <2>1. PICK p : p = [desc |-> d, from |-> from, len |-> n]
    OBVIOUS
  <2>2. p \in Packet /\ p.len <= Room
    BY <1>0, <1>1, <2>1, PacketSizes DEF Packet
  <2>3. fifo' = <<p>>
    BY <1>0, <1>1, <2>1 DEF Write
  <2> QED BY <2>2, <2>3
<1>2. CASE ~(n > 0)
  BY <1>0, <1>2 DEF Write, TypeOK
<1> QED BY <1>1, <1>2

\* What s3c_usb_transfer_ep0 writes is a packet, and it goes to a next state
\* that there is.
LEMMA AnswerTypes ==
    ASSUME TypeOK, InChain, AtHighSpeed, Answer
    PROVE  /\ ep0_state' \in [desc: Descriptors \union {"none"}, k: 0 .. 4]
           /\ ep0_substate' \in Nat /\ ep0_substate' * FsPkt < Size["str1"] + Size["str2"]
           /\ fifo' \in Seq(Packet) /\ Len(fifo') <= 1
           /\ \A i \in DOMAIN fifo' : fifo'[i].len <= Room
           /\ token' = FALSE
           /\ Only
           /\ InChain' /\ AtHighSpeed'
<1> DEFINE Filled == /\ fifo' \in Seq(Packet) /\ Len(fifo') <= 1
                     /\ \A i \in DOMAIN fifo' : fifo'[i].len <= Room
           State == ep0_state' \in [desc: Descriptors \union {"none"}, k: 0 .. 4] /\ InChain' /\ AtHighSpeed'
           Count == ep0_substate' \in Nat /\ ep0_substate' * FsPkt < Size["str1"] + Size["str2"]
<1>1. token' = FALSE /\ Only
  BY DEF Answer, TransferInit, TransferOne, TransferChained, TransferChainEnd, TransferString,
         Transfer
<1>2. speed' = speed
  BY <1>1 DEF Only
<1>3. ASSUME ep0_state' = INIT PROVE State
  <2>1. "none" \notin Chained /\ "none" \notin Bounded
    BY KindsApart
  <2>2. AtHighSpeed'
    BY <1>1, <1>3, <2>1 DEF AtHighSpeed, Only, INIT, Desc
  <2> QED BY <1>3, <2>1, <2>2 DEF INIT, InChain, Desc
<1>4. ASSUME ep0_substate' = ep0_substate PROVE Count
  BY <1>4 DEF TypeOK
<1>5. CASE TransferInit
  <2>1. ZeroPacket \in Packet /\ ZeroPacket.len <= Room
    BY PacketSizes DEF ZeroPacket, Packet
  <2>2. fifo' = <<ZeroPacket>> \/ fifo' = fifo
    BY <1>5 DEF TransferInit
  <2>3. Filled
    <3>1. CASE fifo' = <<ZeroPacket>>
      BY <2>1, <3>1
    <3>2. CASE fifo' = fifo
      BY <3>2 DEF TypeOK
    <3> QED BY <2>2, <3>1, <3>2
  <2>4. ep0_state' = INIT /\ ep0_substate' = ep0_substate
    BY <1>5 DEF TransferInit
  <2> QED BY <1>1, <1>3, <1>4, <2>3, <2>4
<1>6. CASE TransferOne
  <2>1. fifo' # fifo => Writes
    <3> SUFFICES ASSUME fifo' # fifo PROVE Writes
      OBVIOUS
    <3>1. CASE Desc \in Fixed
      <4>1. Size[Desc] \in Nat /\ Size[Desc] < FsPkt /\ FsPkt <= MaxPkt
        BY <3>1, PacketSizes, KindsApart
      <4>2. Write(Desc, 0, Size[Desc])
        BY <1>6, <3>1, KindsApart DEF TransferOne, Bounded, Chained, Fixed
      <4>3. Desc \in Descriptors /\ 0 \in Int /\ Size[Desc] \in Int /\ Size[Desc] <= MaxPkt
        BY <3>1, <4>1, PacketSizes, KindsApart
      <4> QED BY <4>2, <4>3, Zenon DEF Writes
    <3>2. CASE Desc \notin Fixed /\ Desc # "other"
      <4>1. Write(Desc, 0, Least(req_length, Size[Desc])) /\ Desc \in Bounded \union Chained
        BY <1>6, <3>2 DEF TransferOne, Bounded
      <4>2. req_length \in Nat /\ Size[Desc] \in Nat
        BY <4>1, PacketSizes, KindsApart DEF TypeOK
      <4>3. speed = "high" /\ Size[Desc] < MaxPkt
        <5>1. speed = "high"
          BY <1>6, <3>2 DEF TransferOne, AtHighSpeed, Bounded
        <5> QED BY <4>1, <5>1, PacketSizes, KindsApart DEF MaxPkt
      <4>4. Least(req_length, Size[Desc]) \in Int /\ Least(req_length, Size[Desc]) <= MaxPkt
        BY <4>2, <4>3, PacketSizes DEF Least
      <4>5. Desc \in Descriptors /\ 0 \in Int
        BY <4>1, KindsApart
      <4> QED BY <4>1, <4>4, <4>5, Zenon DEF Writes
    <3>3. CASE Desc = "other" /\ fifo' # fifo
      <4>1. Write("other", 0, req_length) /\ req_length \in {Size["cfgonly"], Size["cfg"]}
        BY <1>6, <3>3 DEF TransferOne, WriteOther, Fixed, Chained
      <4>2. speed = "high"
        BY <3>3 DEF AtHighSpeed, Bounded
      <4>3. req_length \in Int /\ req_length <= MaxPkt
        <5>1. "cfgonly" \in Descriptors /\ "cfg" \in Descriptors
          BY KindsApart
        <5> QED BY <4>1, <4>2, <5>1, PacketSizes DEF MaxPkt
      <4>4. "other" \in Descriptors /\ 0 \in Int
        BY DEF Descriptors, Bounded
      <4> QED BY <4>1, <4>3, <4>4, Zenon DEF Writes
    <3> QED BY <3>1, <3>2, <3>3
  <2>2. Filled
    <3>1. CASE fifo' = fifo
      BY <3>1 DEF TypeOK
    <3> QED BY <2>1, <3>1, Written
  <2>3. ep0_state' = INIT /\ ep0_substate' = ep0_substate
    BY <1>6 DEF TransferOne
  <2> QED BY <1>1, <1>3, <1>4, <2>2, <2>3
<1>7. CASE TransferChained
  <2>1. /\ Desc \in Chained /\ speed = "full" /\ ep0_state.k < LastState
        /\ IF req_length < Offset + FsPkt
             THEN Write(Desc, Offset, req_length - Offset) /\ ep0_state' = INIT
             ELSE Write(Desc, Offset, FsPkt) /\ ep0_state' = [ep0_state EXCEPT !.k = @ + 1]
        /\ ep0_substate' = ep0_substate
    BY <1>7 DEF TransferChained
  <2>2. /\ Offset \in Int /\ req_length - Offset \in Int /\ FsPkt \in Int /\ FsPkt <= MaxPkt
        /\ req_length < Offset + FsPkt => req_length - Offset <= MaxPkt
    BY Offsets, PacketSizes DEF TypeOK
  <2>3. Desc \in Descriptors
    BY <2>1, KindsApart
  <2>4. Writes
    BY <2>1, <2>2, <2>3, Zenon DEF Writes
  <2>5. State
    <3>1. CASE ep0_state' = INIT
      BY <1>3, <3>1
    <3>2. CASE ep0_state' = [ep0_state EXCEPT !.k = @ + 1]
      <4>1. ep0_state'.desc = Desc /\ ep0_state'.k = ep0_state.k + 1
        BY <3>2 DEF TypeOK, Desc
      <4>2. ep0_state'.k \in 1 .. LastState /\ LastState \in 1 .. 4
        BY <2>1, <4>1, LastStates DEF TypeOK
      <4>3. Desc' = Desc /\ LastState' = LastState
        BY <4>1 DEF Desc, LastState
      <4>4. InChain'
        BY <1>2, <2>1, <4>2, <4>3 DEF InChain
      <4>5. ep0_state' \in [desc: Descriptors \union {"none"}, k: 0 .. 4]
        BY <2>3, <3>2, <4>1, <4>2 DEF TypeOK
      <4>6. AtHighSpeed'
        BY <1>1, <4>3 DEF AtHighSpeed, Only
      <4> QED BY <4>4, <4>5, <4>6
    <3> QED BY <2>1, <3>1, <3>2
  <2> QED BY <1>1, <1>4, <2>1, <2>4, <2>5, Written
<1>8. CASE TransferChainEnd
  <2>1. /\ Desc \in Chained /\ ep0_state.k = LastState /\ ep0_state' = INIT
        /\ ep0_substate' = ep0_substate
        /\ Desc = "dev" => Write(Desc, Offset, Least(req_length, Size[Desc]) - Offset)
        /\ Desc = "cfg" => fifo' = fifo
        /\ Desc = "cfgonly" => Write(Desc, Offset, Size[Desc] - Offset)
    BY <1>8 DEF TransferChainEnd, Chained
  <2>2. Filled
    <3>1. CASE Desc = "cfg"
      BY <2>1, <3>1 DEF TypeOK
    <3>2. CASE Desc = "dev"
      <4>1. Offset = 2 * FsPkt /\ Offset \in Int
        BY <2>1, <3>2, LastStates, Offsets
      <4>2. Desc \in Descriptors /\ Size[Desc] \in Nat /\ Size[Desc] < 3 * FsPkt
        BY <2>1, <3>2, KindsApart, PacketSizes, SizeAssumption
      <4>3. Least(req_length, Size[Desc]) \in Int /\ Least(req_length, Size[Desc]) <= Size[Desc]
        BY <4>2 DEF Least, TypeOK
      <4>4. PICK n \in Int : n = Least(req_length, Size[Desc]) - Offset
        BY <4>1, <4>3
      <4>5. n <= MaxPkt
        BY <4>1, <4>2, <4>3, <4>4, PacketSizes
      <4>6. Writes
        BY <2>1, <3>2, <4>1, <4>2, <4>4, <4>5, Zenon DEF Writes
      <4> QED BY <4>6, Written
    <3>3. CASE Desc = "cfgonly"
      <4>1. Offset = FsPkt /\ Offset \in Int
        BY <2>1, <3>3, LastStates, Offsets, PacketSizes
      <4>2. Desc \in Descriptors /\ Size[Desc] = FsPkt + 1
        BY <2>1, <3>3, KindsApart, SizeAssumption
      <4>3. PICK n \in Int : n = Size[Desc] - Offset /\ n = 1
        BY <4>1, <4>2, PacketSizes
      <4>4. n <= MaxPkt
        BY <4>3, PacketSizes
      <4>5. Writes
        BY <2>1, <3>3, <4>1, <4>2, <4>3, <4>4, Zenon DEF Writes
      <4> QED BY <4>5, Written
    <3> QED BY <2>1, <3>1, <3>2, <3>3 DEF Chained
  <2> QED BY <1>1, <1>3, <1>4, <2>1, <2>2
<1>9. CASE TransferString
  <2>1. /\ Desc \in Strings
        /\ IF Start + MaxPkt < Size[Desc]
             THEN /\ Write(Desc, Start, MaxPkt)
                  /\ ep0_substate' = ep0_substate + 1 /\ ep0_state' = ep0_state
             ELSE /\ Write(Desc, Start, Size[Desc] - Start)
                  /\ ep0_substate' = 0 /\ ep0_state' = INIT
    BY <1>9 DEF TransferString
  <2>2. Desc \in Descriptors /\ Size[Desc] \in Nat /\ Start \in Int /\ MaxPkt \in Int
    BY <2>1, KindsApart, PacketSizes, Starts
  <2>3. /\ Size["str1"] \in Nat /\ Size["str2"] \in Nat
        /\ Size["str1"] > 0 /\ Size[Desc] <= Size["str1"] + Size["str2"]
    <3>1. "str1" \in Descriptors /\ "str2" \in Descriptors /\ Desc \in {"str1", "str2"}
      BY <2>1 DEF Descriptors, Strings
    <3> QED BY <3>1, PacketSizes
  <2>4. CASE Start + MaxPkt < Size[Desc]
    <3>1. Writes
      <4>1. MaxPkt <= MaxPkt
        BY <2>2
      <4> QED BY <2>1, <2>2, <2>4, <4>1, Zenon DEF Writes
    <3>2. State
      BY <1>1, <2>1, <2>4 DEF TypeOK, InChain, AtHighSpeed, Only, Desc, LastState
    <3>3. Count
      <4>1. ep0_substate \in Nat /\ (ep0_substate + 1) * FsPkt <= Start + MaxPkt
        BY Starts
      <4>2. ep0_substate + 1 \in Nat /\ FsPkt \in Nat
        BY <4>1, PacketSizes
      <4>3. PICK x \in Nat : x = (ep0_substate + 1) * FsPkt
        BY <4>2
      <4>4. x < Size["str1"] + Size["str2"]
        BY <2>2, <2>3, <2>4, <4>1, <4>3
      <4> QED BY <2>1, <2>4, <4>1, <4>2, <4>3, <4>4
    <3> QED BY <1>1, <3>1, <3>2, <3>3, Written
  <2>5. CASE ~(Start + MaxPkt < Size[Desc])
    <3>1. Writes
      <4>1. PICK n \in Int : n = Size[Desc] - Start
        BY <2>2
      <4>2. n <= MaxPkt
        BY <2>2, <2>5, <4>1
      <4> QED BY <2>1, <2>2, <2>5, <4>1, <4>2, Zenon DEF Writes
    <3>2. Count
      <4>1. 0 * FsPkt = 0
        BY PacketSizes
      <4> QED BY <2>1, <2>3, <2>5, <4>1
    <3> QED BY <1>1, <1>3, <2>1, <2>5, <3>1, <3>2, Written
  <2> QED BY <2>4, <2>5
<1> QED BY <1>5, <1>6, <1>7, <1>8, <1>9 DEF Answer

\* The types, with what they rest on.
Typed == TypeOK /\ InChain /\ AtHighSpeed

\* The types hold at first.
LEMMA TypedInit == Init => Typed
<1> SUFFICES ASSUME Init PROVE Typed
  OBVIOUS
<1>1. /\ ep0_state = INIT /\ ep0_substate = 0 /\ req_length = 0 /\ rx = <<>> /\ fifo = <<>>
      /\ speed \in Speeds /\ set_config = FALSE /\ token = FALSE /\ host = Idle
      /\ configured = FALSE /\ unread = FALSE /\ jammed = FALSE /\ left = FALSE /\ cut = FALSE
      /\ resets = 0 /\ aborts = 0
  BY DEF Init
<1>2. InChain /\ AtHighSpeed
  BY <1>1, KindsApart DEF InChain, AtHighSpeed, INIT, Desc, Bounded
<1>3. /\ ep0_substate * FsPkt = 0 /\ Size["str1"] + Size["str2"] > 0
  <2>1. "str1" \in Descriptors /\ "str2" \in Descriptors
    BY DEF Descriptors, Strings
  <2> QED BY <1>1, <2>1, PacketSizes
<1>4. host \in Host
  BY <1>1 DEF Host, Idle, Request, Kinds
<1>5. ep0_state \in [desc: Descriptors \union {"none"}, k: 0 .. 4]
  BY <1>1 DEF INIT
<1>6. /\ set_config \in BOOLEAN /\ token \in BOOLEAN /\ configured \in BOOLEAN
      /\ unread \in BOOLEAN /\ jammed \in BOOLEAN /\ left \in BOOLEAN /\ cut \in BOOLEAN
  BY <1>1, Zenon
<1>7. resets \in 0 .. MaxResets /\ aborts \in 0 .. MaxAborts
  BY <1>1, RequestAssumption
<1>8. TypeOK
  BY <1>1, <1>3, <1>4, <1>5, <1>6, <1>7 DEF TypeOK
<1> QED BY <1>2, <1>8 DEF Typed

\* The driver's variables and the FIFOs.
Driver ==
    /\ speed \in Speeds
    /\ ep0_state \in [desc: Descriptors \union {"none"}, k: 0 .. 4]
    /\ ep0_substate \in Nat /\ ep0_substate * FsPkt < Size["str1"] + Size["str2"]
    /\ req_length \in Nat
    /\ rx \in Seq(Requests) /\ Len(rx) <= 1
    /\ fifo \in Seq(Packet) /\ Len(fifo) <= 1
    /\ \A n \in DOMAIN fifo : fifo[n].len <= Room

\* The others.
Flags ==
    /\ set_config \in BOOLEAN /\ token \in BOOLEAN
    /\ configured \in BOOLEAN /\ unread \in BOOLEAN /\ jammed \in BOOLEAN
    /\ left \in BOOLEAN /\ cut \in BOOLEAN

\* TypeOK, in the parts that the provers take one at a time.
LEMMA TypeParts ==
    TypeOK <=> /\ Driver /\ Flags /\ host \in Host
               /\ resets \in 0 .. MaxResets /\ aborts \in 0 .. MaxAborts
BY Zenon DEF TypeOK, Driver, Flags

\* Every step keeps the types of the flags.
LEMMA FlagsStep == Typed /\ Next => Flags'
<1> SUFFICES ASSUME Typed, Next PROVE Flags'
  OBVIOUS
<1>0. Flags
  BY TypeParts DEF Typed
<1>1. /\ set_config' \in {set_config, TRUE} /\ token' \in {token, TRUE, FALSE}
      /\ jammed' \in {jammed, TRUE, FALSE} /\ unread' \in {unread, TRUE, FALSE}
  BY DEF Next, Setup, InToken, InData, Abort, BusReset, Decode, DecodeGet,
         DecodeGetConfiguration, DecodeSetConfiguration, DecodeOther, Undecoded, Misread, Answer,
         TransferInit, TransferOne, TransferChained, TransferChainEnd, TransferString, Transfer,
         Only, device, history
<1>2. /\ set_config' \in BOOLEAN /\ token' \in BOOLEAN
      /\ jammed' \in BOOLEAN /\ unread' \in BOOLEAN
  BY <1>0, <1>1, Zenon DEF Flags
<1>3. ASSUME NEW r \in Requests, Setup(r) PROVE Flags'
  BY <1>0, <1>2, <1>3, Zenon DEF Setup, Flags, device, history
<1>4. CASE InToken
  BY <1>0, <1>2, <1>4, Zenon DEF InToken, Flags, device, history
<1>5. CASE InData
  BY <1>0, <1>2, <1>5, Zenon DEF InData, Flags, device
<1>6. CASE Abort
  BY <1>0, <1>2, <1>6, Zenon DEF Abort, Flags, device
<1>7. ASSUME NEW s \in Speeds, BusReset(s) PROVE Flags'
  BY <1>0, <1>2, <1>7, Zenon DEF BusReset, Flags
<1>8. CASE Decode
  BY <1>0, <1>2, <1>8, Zenon DEF Decode, DecodeGet, DecodeGetConfiguration,
     DecodeSetConfiguration, DecodeOther, Undecoded, Misread, Flags, device, history
<1>9. CASE Answer
  BY <1>0, <1>2, <1>9, AnswerTypes, Zenon DEF Only, Flags, history, Typed
<1> QED BY <1>3, <1>4, <1>5, <1>6, <1>7, <1>8, <1>9 DEF Next

\* What the host has got stays a set of packets.
LEMMA HostStep == Typed /\ Next => host' \in Host
<1> SUFFICES ASSUME Typed, Next PROVE host' \in Host
  OBVIOUS
<1>0. host \in Host /\ fifo \in Seq(Packet)
  BY DEF Typed, TypeOK
<1>1. ASSUME NEW r \in Requests, Setup(r) PROVE host' \in Host
  BY <1>1, RequestAssumption DEF Setup, Host, Request
<1>2. CASE InData
  <2>1. fifo # <<>> /\ fifo[1] \in Packet
    BY <1>0, <1>2 DEF InData
  <2>2. PICK b, g, h : /\ Taken = [host EXCEPT !.bytes = b, !.got = g, !.phase = h]
                       /\ b = host.bytes + fifo[1].len
                       /\ g = host.got \union {[packet |-> fifo[1], at |-> host.bytes]}
                       /\ h \in {"idle", host.phase}
    BY DEF Taken
  <2>3. b \in Nat /\ g \in SUBSET Received /\ h \in {"idle", "data", "status"}
    BY <1>0, <2>1, <2>2 DEF Host, Received, Packet
  <2>4. Taken \in Host
    BY <1>0, <2>2, <2>3 DEF Host
  <2>5. [Taken EXCEPT !.got = {}] \in Host
    BY <2>4 DEF Host
  <2>6. Idle \in Host
    BY DEF Idle, Host, Request, Kinds
  <2>7. host' \in {Taken, Idle, [Taken EXCEPT !.got = {}]}
    BY <1>2, Zenon DEF InData
  <2> QED BY <2>4, <2>5, <2>6, <2>7
<1>3. CASE Abort \/ \E s \in Speeds : BusReset(s)
  BY <1>3 DEF Abort, BusReset, Idle, Host, Request, Kinds
<1>4. CASE InToken \/ Decode \/ Answer
  <2>1. host' = host
    BY <1>4, AnswerTypes DEF InToken, Decode, DecodeGet, DecodeGetConfiguration,
       DecodeSetConfiguration, DecodeOther, Undecoded, Misread, Only, Typed
  <2> QED BY <1>0, <2>1
<1> QED BY <1>1, <1>2, <1>3, <1>4 DEF Next

\* What the driver's state says is the same when the state is.
LEMMA SameState ==
    ASSUME UNCHANGED <<speed, ep0_state>>
    PROVE  MaxPkt' = MaxPkt /\ InChain' = InChain /\ Desc' = Desc
BY DEF MaxPkt, InChain, Desc, LastState

\* The FIFO as it was, or empty, holds no packet that is too long, when the
\* speed is the same or the driver has been left.
LEMMA Kept ==
    ASSUME Typed, fifo' \in {fifo, <<>>},
           \/ speed' = speed /\ (left => left')
           \/ fifo' # <<>> => left'
    PROVE  /\ fifo' \in Seq(Packet) /\ Len(fifo') <= 1
           /\ \A n \in DOMAIN fifo' : fifo'[n].len <= Room'
<1>1. /\ fifo \in Seq(Packet) /\ Len(fifo) <= 1
      /\ \A n \in DOMAIN fifo : fifo[n].len <= Room
  BY DEF Typed, TypeOK
<1>2. FsPkt \in Nat /\ HsPkt \in Nat /\ FsPkt < HsPkt
  BY PacketSizes
<1>3. CASE fifo' = <<>>
  BY <1>3
<1>4. CASE fifo' = fifo /\ fifo # <<>>
  <2>1. Room <= Room'
    BY <1>2, <1>4 DEF Room, MaxPkt
  <2>2. Room \in Nat /\ Room' \in Nat
    BY <1>2 DEF Room, MaxPkt
  <2>3. \A n \in DOMAIN fifo : fifo[n].len \in Nat
    <3>1. \A n \in DOMAIN fifo : fifo[n] \in Packet
      BY <1>1
    <3> QED BY <3>1 DEF Packet
  <2> QED BY <1>1, <1>4, <2>1, <2>2, <2>3
<1> QED BY <1>3, <1>4

\* Every step keeps the types of the driver's variables.
LEMMA DriverStep == Typed /\ Next => Driver' /\ InChain' /\ AtHighSpeed'
<1> SUFFICES ASSUME Typed, Next PROVE Driver' /\ InChain' /\ AtHighSpeed'
  OBVIOUS
<1>0. Driver /\ InChain /\ AtHighSpeed
  BY TypeParts DEF Typed
<1>1. ASSUME NEW r \in Requests, Setup(r) PROVE Driver' /\ InChain' /\ AtHighSpeed'
  <2>1. /\ UNCHANGED <<speed, ep0_state, ep0_substate, req_length, fifo, left>> /\ rx' = <<r>>
        /\ r.kind \in Bounded => speed = "high"
    BY <1>1 DEF Setup, device
  <2>2. Driver'
    BY <1>0, <1>1, <2>1, Kept DEF Driver
  <2>3. AtHighSpeed'
    BY <1>0, <2>1, SameState DEF AtHighSpeed
  <2> QED BY <1>0, <2>1, <2>2, <2>3, SameState
<1>2. CASE InToken \/ Abort
  <2>1. UNCHANGED <<speed, ep0_state, ep0_substate, req_length, fifo, rx>> /\ (left => left')
    BY <1>2 DEF InToken, Abort, device, history
  <2>2. Driver'
    BY <1>0, <2>1, Kept DEF Driver
  <2>3. AtHighSpeed'
    BY <1>0, <2>1, SameState DEF AtHighSpeed
  <2> QED BY <1>0, <2>1, <2>2, <2>3, SameState
<1>3. CASE InData
  <2>1. UNCHANGED <<speed, ep0_state, ep0_substate, req_length, rx>> /\ fifo' = <<>>
    BY <1>3 DEF InData, device
  <2>2. Driver'
    BY <1>0, <2>1, Kept DEF Driver
  <2>3. AtHighSpeed'
    BY <1>0, <2>1, SameState DEF AtHighSpeed
  <2> QED BY <1>0, <2>1, <2>2, <2>3, SameState
<1>4. ASSUME NEW s \in Speeds, BusReset(s) PROVE Driver' /\ InChain' /\ AtHighSpeed'
  <2>1. /\ UNCHANGED <<ep0_substate, req_length, rx>> /\ fifo' \in {fifo, <<>>} /\ rx = <<>>
        /\ speed' = s /\ ep0_state' = INIT /\ (fifo' # <<>> => left')
    BY <1>4 DEF BusReset
  <2>2. Driver'
    BY <1>0, <2>1, Kept DEF Driver, INIT
  <2> QED BY <2>1, <2>2, KindsApart DEF InChain, AtHighSpeed, Desc, INIT, Bounded
<1>5. CASE DecodeGet
  <2>1. /\ UNCHANGED <<speed, ep0_substate, fifo, left>> /\ rx' = <<>> /\ rx # <<>>
        /\ rx[1].kind \in Descriptors
        /\ req_length' \in {req_length, rx[1].len}
        /\ \/ ep0_state' = [desc |-> rx[1].kind, k |-> 0]
           \/ ep0_state' = [desc |-> "cfgonly", k |-> 0]
    BY <1>5 DEF DecodeGet, Decoding, Goto, history
  <2>2. rx[1] \in Request
    BY <1>0, <2>1, RequestAssumption DEF Driver
  <2>3. PICK d \in Descriptors : ep0_state' = [desc |-> d, k |-> 0] /\ d \in {rx[1].kind, "cfgonly"}
    BY <2>1, KindsApart
  <2>4. ep0_state'.desc = d /\ ep0_state'.k = 0 /\ ep0_state' \in [desc: Descriptors \union {"none"}, k: 0 .. 4]
    BY <2>3
  <2>5. Driver'
    BY <1>0, <2>1, <2>2, <2>4, Kept DEF Driver, Request
  <2>6. InChain'
    BY <2>4 DEF InChain, Desc, LastState, Chained
  <2>7. AtHighSpeed'
    BY <1>0, <2>1, <2>3, <2>4, KindsApart DEF AtHighSpeed, Desc
  <2> QED BY <2>5, <2>6, <2>7
<1>6. CASE DecodeGetConfiguration
  <2>1. /\ UNCHANGED <<speed, ep0_state, ep0_substate, req_length>> /\ rx' = <<>>
        /\ fifo' = <<[desc |-> "value", from |-> 0, len |-> 1]>>
    BY <1>6 DEF DecodeGetConfiguration, Decoding, device
  <2>2. PICK p : p = [desc |-> "value", from |-> 0, len |-> 1]
    OBVIOUS
  <2>3. p \in Packet /\ p.len = 1 /\ Room' \in Nat /\ Room' > 0
    BY <2>2, PacketSizes DEF Packet, Room, MaxPkt
  <2>4. fifo' \in Seq(Packet) /\ Len(fifo') <= 1 /\ (\A n \in DOMAIN fifo' : fifo'[n].len <= Room')
    BY <2>1, <2>2, <2>3
  <2>5. Driver'
    BY <1>0, <2>1, <2>4, SameState DEF Driver
  <2>6. AtHighSpeed'
    BY <1>0, <2>1, SameState DEF AtHighSpeed
  <2> QED BY <1>0, <2>1, <2>5, <2>6, SameState
<1>7. CASE DecodeSetConfiguration \/ DecodeOther \/ Undecoded
  <2>1. UNCHANGED <<speed, ep0_state, ep0_substate, req_length, fifo, left>> /\ rx' = <<>>
    BY <1>7 DEF DecodeSetConfiguration, DecodeOther, Undecoded, Decoding, device, history
  <2>2. Driver'
    BY <1>0, <2>1, Kept DEF Driver
  <2>3. AtHighSpeed'
    BY <1>0, <2>1, SameState DEF AtHighSpeed
  <2> QED BY <1>0, <2>1, <2>2, <2>3, SameState
<1>8. CASE Misread
  <2>1. UNCHANGED <<speed, ep0_state, ep0_substate, req_length, fifo, left>> /\ rx = <<>>
    BY <1>8 DEF Misread, device, history
  <2>2. \/ rx' = rx
        \/ \E r \in Requests : (r.kind \in Bounded => speed = "high") /\ rx' = <<r>>
    BY <1>8 DEF Misread
  <2>3. Driver' /\ AtHighSpeed'
    <3>1. CASE rx' = rx
      BY <1>0, <2>1, <3>1, Kept, SameState DEF Driver, AtHighSpeed
    <3>2. ASSUME NEW r \in Requests, r.kind \in Bounded => speed = "high", rx' = <<r>>
          PROVE  Driver' /\ AtHighSpeed'
      BY <1>0, <2>1, <3>2, Kept, SameState DEF Driver, AtHighSpeed
    <3> QED BY <2>2, <3>1, <3>2
  <2> QED BY <1>0, <2>1, <2>3, SameState
<1>9. CASE Answer
  <2>1. UNCHANGED <<speed, req_length, rx, left>>
    BY <1>9, AnswerTypes DEF Only, Typed, history
  <2>2. Room' = Room
    BY <2>1 DEF Room, MaxPkt
  <2> QED BY <1>0, <1>9, <2>1, <2>2, AnswerTypes DEF Driver, Typed
<1> QED BY <1>1, <1>2, <1>3, <1>4, <1>5, <1>6, <1>7, <1>8, <1>9 DEF Next, Decode

\* Every step keeps the types.
LEMMA TypedStep == Typed /\ [Next]_vars => Typed'
<1> SUFFICES ASSUME Typed, [Next]_vars PROVE Typed'
  OBVIOUS
<1>1. CASE UNCHANGED vars
  <2>1. /\ UNCHANGED <<speed, ep0_state, ep0_substate, req_length, rx, fifo, host, resets, aborts>>
        /\ UNCHANGED <<set_config, token, configured, unread, jammed, left, cut>>
    BY <1>1 DEF vars, device, history
  <2>2. Driver /\ Flags /\ host \in Host /\ resets \in 0 .. MaxResets /\ aborts \in 0 .. MaxAborts
    BY TypeParts DEF Typed
  <2>3. Driver'
    BY <2>1, <2>2, Kept DEF Driver
  <2>4. Flags'
    BY <2>1, <2>2, Zenon DEF Flags
  <2>5. AtHighSpeed' /\ InChain'
    BY <2>1, SameState DEF AtHighSpeed, Typed
  <2>6. host' \in Host /\ resets' \in 0 .. MaxResets /\ aborts' \in 0 .. MaxAborts
    BY <2>1, <2>2
  <2> QED BY <2>3, <2>4, <2>5, <2>6, Zenon DEF Typed, TypeOK, Driver, Flags
<1>2. CASE Next
  <2>1. resets' \in 0 .. MaxResets /\ aborts' \in 0 .. MaxAborts
    <3>1. resets \in 0 .. MaxResets /\ aborts \in 0 .. MaxAborts
      BY DEF Typed, TypeOK
    <3>2. /\ resets' = resets \/ (resets < MaxResets /\ resets' = resets + 1)
          /\ aborts' = aborts \/ (aborts < MaxAborts /\ aborts' = aborts + 1)
      <4>1. CASE Answer
        BY <4>1, AnswerTypes DEF Only, history, Typed
      <4>2. CASE ~Answer
        BY <1>2, <4>2 DEF Next, Setup, InToken, InData, Abort, BusReset, Decode, DecodeGet,
           DecodeGetConfiguration, DecodeSetConfiguration, DecodeOther, Undecoded, Misread, history
      <4> QED BY <4>1, <4>2
    <3> QED BY <3>1, <3>2, RequestAssumption
  <2>2. Driver' /\ InChain' /\ AtHighSpeed' /\ Flags' /\ host' \in Host
    BY <1>2, FlagsStep, HostStep, DriverStep
  <2> QED BY <2>1, <2>2, Zenon DEF Typed, TypeOK, Driver, Flags
<1> QED BY <1>1, <1>2

\* s3c_usb_ep0_int_hndlr and s3c_usb_transfer_ep0: whatever the host asks for
\* and whenever the bus is reset, no packet is longer than the endpoint takes at
\* the speed there is, no answer goes past its last state and the count of
\* string packets does not run away.
THEOREM TypeCorrect == Spec => []TypeOK
<1>1. Typed => TypeOK
  BY DEF Typed
<1> QED BY <1>1, TypedInit, TypedStep, PTL DEF Spec

-----------------------------------------------------------------------------
(* The count of string packets, and SET_CONFIGURATION *)

\* Every step keeps CountedString: only a reset leaves a string in the middle.
LEMMA CountStep == Typed /\ CountedString /\ [Next]_vars => CountedString'
<1> SUFFICES ASSUME Typed, CountedString, [Next]_vars PROVE CountedString'
  OBVIOUS
<1>0. cut \in BOOLEAN
  BY DEF Typed, TypeOK
<1>1. CASE UNCHANGED vars \/ InToken \/ InData \/ Abort
  <2>1. UNCHANGED <<ep0_state, ep0_substate, cut>>
    BY <1>1, Zenon DEF InToken, InData, Abort, device, history, vars
  <2> QED BY <2>1, Zenon DEF CountedString, Desc
<1>2. ASSUME NEW r \in Requests, Setup(r) PROVE CountedString'
  <2>1. UNCHANGED <<ep0_state, ep0_substate>> /\ (cut' <=> (cut /\ ep0_substate # 0))
    BY <1>2, Zenon DEF Setup, device
  <2> QED BY <2>1, Zenon DEF CountedString, Desc
<1>3. ASSUME NEW s \in Speeds, BusReset(s) PROVE CountedString'
  BY <1>3 DEF CountedString, BusReset
<1>4. CASE DecodeGet
  <2>1. ep0_state = INIT /\ ep0_substate' = ep0_substate /\ cut' = cut
    BY <1>4 DEF DecodeGet, Decoding, history
  <2> QED BY <2>1, KindsApart DEF CountedString, Desc, INIT
<1>5. CASE Decode /\ ~DecodeGet
  <2>1. UNCHANGED <<ep0_state, ep0_substate, cut>>
    BY <1>5, Zenon DEF Decode, DecodeGetConfiguration, DecodeSetConfiguration, DecodeOther,
                       Undecoded, Misread, device, history
  <2> QED BY <2>1, Zenon DEF CountedString, Desc
<1>6. CASE Answer
  <2>1. cut' = cut
    BY <1>6, AnswerTypes DEF Typed, Only, history
  <2>2. \/ UNCHANGED <<ep0_state, ep0_substate>>
        \/ ep0_state' = INIT /\ ep0_substate' = 0
        \/ Desc \notin Strings /\ ep0_substate' = ep0_substate
        \/ Desc \in Strings /\ ep0_state' = ep0_state
    BY <1>6, KindsApart DEF Answer, TransferInit, TransferOne, TransferChained, TransferChainEnd,
                            TransferString, Bounded
  <2> QED BY <2>1, <2>2 DEF CountedString, Desc
<1> QED BY <1>1, <1>2, <1>3, <1>4, <1>5, <1>6 DEF Next, Decode

\* Between requests the count of string packets is 0 unless a bus reset cut a
\* string off (ep0_substate in s3c_usb_transfer_ep0 and s3c_usb_reset).
THEOREM SubstateIsClear == Spec => []SubstateClear
<1>1. Init => CountedString
  BY DEF Init, CountedString
<1>2. CountedString => SubstateClear
  BY KindsApart DEF CountedString, SubstateClear, INIT, Desc
<1> QED BY <1>1, <1>2, TypedInit, TypedStep, CountStep, PTL DEF Spec

\* Until one is left undecoded, the SETUP packet in the FIFO is the host's
\* request, and one that has been taken out of it has been obeyed.
Pending ==
    /\ (rx # <<>> /\ ~jammed) => rx[1] = host.req
    /\ (rx = <<>> /\ ~jammed /\ host.phase # "idle" /\ host.req.kind = "setconf") => set_config
    /\ configured => set_config \/ jammed
    /\ unread => jammed

\* Every step keeps Pending: what is in the FIFO is decoded, or left, before the
\* host can take an answer.
LEMMA PendingStep == Typed /\ Pending /\ [Next]_vars => Pending'
<1> SUFFICES ASSUME Typed, Pending, [Next]_vars PROVE Pending'
  OBVIOUS
<1>0. host \in Host /\ set_config \in BOOLEAN
  BY DEF Typed, TypeOK
<1>1. CASE UNCHANGED vars
  BY <1>1, Zenon DEF Pending, vars, device, history
<1>2. CASE Next
  <2>1. ASSUME NEW r \in Requests, Setup(r) PROVE Pending'
    <3>1. /\ rx' = <<r>> /\ UNCHANGED <<configured, set_config, unread, jammed>>
          /\ host'.req = r
      BY <2>1 DEF Setup, device
    <3>2. rx' # <<>> /\ rx'[1] = host'.req
      BY <3>1
    <3> QED BY <3>1, <3>2, Zenon DEF Pending
  <2>2. CASE InToken
    BY <2>2, Zenon DEF Pending, InToken, device, history
  <2>3. CASE InData
    <3>1. /\ host.phase # "idle" /\ rx = <<>> /\ rx' = <<>>
          /\ UNCHANGED <<set_config, unread, jammed>>
      BY <2>3 DEF InData, device
    <3>2. host'.req = host.req \/ host' = Idle
      BY <1>0, <2>3 DEF InData, Host, Taken
    <3>3. configured' => configured \/ host.req.kind = "setconf"
      BY <2>3, Zenon DEF InData
    <3>4. Idle.phase = "idle"
      BY DEF Idle
    <3> QED BY <3>1, <3>2, <3>3, <3>4, Zenon DEF Pending
  <2>4. CASE Abort
    <3>1. UNCHANGED <<rx, configured, set_config, unread, jammed>> /\ rx = <<>> /\ host' = Idle
      BY <2>4 DEF Abort, device
    <3>2. Idle.phase = "idle"
      BY DEF Idle
    <3> QED BY <3>1, <3>2, Zenon DEF Pending
  <2>5. ASSUME NEW s \in Speeds, BusReset(s) PROVE Pending'
    <3>1. Idle.phase = "idle"
      BY DEF Idle
    <3> QED BY <2>5, <3>1, Zenon DEF Pending, BusReset
  <2>6. CASE DecodeGet \/ DecodeGetConfiguration \/ DecodeSetConfiguration \/ DecodeOther
    <3>1. UNCHANGED <<host, configured, unread, jammed>> /\ rx # <<>> /\ rx' = <<>>
      BY <2>6, Zenon DEF DecodeGet, DecodeGetConfiguration, DecodeSetConfiguration, DecodeOther,
                         Decoding, history
    <3>2. set_config => set_config'
      BY <2>6, Zenon DEF DecodeGet, DecodeGetConfiguration, DecodeSetConfiguration, DecodeOther,
                         device
    <3>3. rx[1].kind = "setconf" => set_config'
      BY <2>6, KindsApart DEF DecodeGet, DecodeGetConfiguration, DecodeSetConfiguration,
                              DecodeOther
    <3> QED BY <3>1, <3>2, <3>3, Zenon DEF Pending
  <2>7. CASE Undecoded
    BY <2>7, Zenon DEF Pending, Undecoded, device
  <2>8. CASE Misread
    <3>1. unread /\ ~unread' /\ UNCHANGED <<jammed, configured, set_config>>
      BY <2>8, Zenon DEF Misread, device, history
    <3> QED BY <3>1, Zenon DEF Pending
  <2>9. CASE Answer
    <3>1. UNCHANGED <<set_config, rx, host, configured, unread, jammed>>
      BY <2>9, AnswerTypes DEF Only, Typed, history
    <3> QED BY <3>1, Zenon DEF Pending
  <2> QED BY <1>2, <2>1, <2>2, <2>3, <2>4, <2>5, <2>6, <2>7, <2>8, <2>9 DEF Next, Decode
<1> QED BY <1>1, <1>2

-----------------------------------------------------------------------------
(* The transfer, at the driver and at the host *)

\* The inductive invariant.
IInv == Typed /\ CountedString /\ Together /\ InOrder

\* What is due for a descriptor.
LEMMA DueOf ==
    ASSUME host.req.kind \in Descriptors
    PROVE  Due(host.req) = Least(host.req.len, Size[Source(host.req)])
BY KindsApart DEF Due

\* What Write leaves in the FIFO.
LEMMA Wrote ==
    ASSUME NEW d, NEW from, NEW n \in Int, n > 0, Write(d, from, n)
    PROVE  /\ fifo' # <<>> /\ fifo'[1].desc = d /\ fifo'[1].from = from /\ fifo'[1].len = n
BY DEF Write

\* A new SETUP packet finds the driver waiting.
LEMMA SetupTogether ==
    ASSUME IInv, NEW r \in Requests, Setup(r), ~left'
    PROVE  Together' /\ InOrder'
<1>1. /\ UNCHANGED <<ep0_state, fifo, token, unread, jammed, left>> /\ rx' = <<r>>
      /\ host' = [phase |-> IF r.len = 0 THEN "status" ELSE "data", req |-> r,
                  bytes |-> 0, got |-> {}]
      /\ host.phase = "idle"
  BY DEF Setup, device
<1>2. ~left /\ ~jammed /\ ~unread /\ ep0_state = INIT /\ Through
  BY <1>1 DEF IInv, Together, AtWork
<1>3. fifo = <<>> /\ ~token
  BY <1>1, <1>2 DEF Through
<1>4. /\ host'.req = r /\ host'.bytes = 0 /\ host'.got = {} /\ host'.phase # "idle"
      /\ (host'.phase = "status" <=> r.len = 0)
  BY <1>1
<1>5. Through'
  BY <1>1, <1>3, <1>4 DEF Through
<1>6. Together'
  BY <1>1, <1>2, <1>3, <1>4, <1>5 DEF Together
<1> QED BY <1>1, <1>3, <1>4, <1>6 DEF InOrder

\* An IN token changes nothing of the transfer.
LEMMA InTokenTogether ==
    ASSUME IInv, InToken, ~left'
    PROVE  Together' /\ InOrder'
<1>1. /\ UNCHANGED <<speed, ep0_state, ep0_substate, req_length, rx, fifo, host, cut, left, unread, jammed>>
      /\ fifo = <<>> /\ host.phase # "idle"
  BY DEF InToken, device, history
<1>2. ~left /\ Together /\ InOrder
  BY <1>1 DEF IInv
<1>3. InOrder'
  BY <1>1, <1>2 DEF InOrder, Source
<1>4. AtWork => AtWork'
  BY <1>1 DEF AtWork, Desc, Sent, Offset, Start, MaxPkt, Source
<1>5. Through => Through'
  BY <1>1 DEF Through, Sent, Due, Source
<1> QED BY <1>1, <1>2, <1>3, <1>4, <1>5 DEF Together

\* The host takes a packet.
LEMMA InDataTogether ==
    ASSUME IInv, InData, ~left'
    PROVE  Together' /\ InOrder'
<1>0. /\ host \in Host /\ fifo \in Seq(Packet) /\ Len(fifo) <= 1 /\ left \in BOOLEAN
  BY DEF IInv, Typed, TypeOK
<1>1. /\ UNCHANGED <<speed, ep0_state, ep0_substate, req_length, rx, token, cut, unread, jammed>>
      /\ host.phase # "idle" /\ fifo # <<>> /\ rx = <<>> /\ fifo' = <<>>
  BY DEF InData, device
<1>2. ~left /\ (Enough(fifo[1]) => ep0_state = INIT)
  BY <1>0, Zenon DEF InData
<1>3. fifo[1] \in Packet
  BY <1>0, <1>1
<1>4. /\ Taken.req = host.req /\ Taken.bytes = host.bytes + fifo[1].len
      /\ Taken.got = host.got \union {[packet |-> fifo[1], at |-> host.bytes]}
      /\ Taken.phase = IF Enough(fifo[1]) THEN "idle" ELSE host.phase
  BY <1>0 DEF Taken, Host
<1>11. Taken \in Host /\ Idle.phase = "idle" /\ Idle.req.kind \notin Descriptors
  <2>1. [packet |-> fifo[1], at |-> host.bytes] \in Received /\ host.bytes + fifo[1].len \in Nat
    BY <1>0, <1>3 DEF Host, Received, Packet
  <2>2. PICK b \in Nat, g \in SUBSET Received, h \in {"idle", "data", "status"} :
           Taken = [host EXCEPT !.bytes = b, !.got = g, !.phase = h]
    <3>1. host.got \union {[packet |-> fifo[1], at |-> host.bytes]} \in SUBSET Received
      BY <1>0, <2>1 DEF Host
    <3>2. (IF Enough(fifo[1]) THEN "idle" ELSE host.phase) \in {"idle", "data", "status"}
      BY <1>0 DEF Host
    <3> QED BY <2>1, <3>1, <3>2 DEF Taken
  <2>3. Taken \in Host
    BY <1>0, <2>2 DEF Host
  <2>4. Idle.phase = "idle" /\ Idle.req.kind = "nodata"
    BY DEF Idle
  <2> QED BY <2>3, <2>4, KindsApart
<1>12. /\ ~cut => host' = Taken
       /\ Enough(fifo[1]) => host' = Taken \/ host' = Idle
       /\ ~Enough(fifo[1]) => host' \in {Taken, [Taken EXCEPT !.got = {}]}
  BY <1>2, Zenon DEF InData
<1>13. ~(cut /\ Enough(fifo[1])) =>
          host'.req = Taken.req /\ host'.bytes = Taken.bytes /\ host'.phase = Taken.phase
  BY <1>11, <1>12 DEF Host
<1>5. ~token /\ ~jammed /\ ~unread
  BY <1>1, <1>2 DEF IInv, Together
<1>6. ~(cut /\ Enough(fifo[1])) => Sent' = Sent
  <2>1. host.bytes \in Nat /\ fifo[1].len \in Nat
    BY <1>0, <1>3 DEF Host, Packet
  <2> QED BY <1>1, <1>4, <1>13, <2>1 DEF Sent
<1>7. InOrder'
  <2> SUFFICES ASSUME ~cut, host.req.kind \in Descriptors, Heeded(host.req),
                      NEW g \in Taken.got, g.packet.len > 0
               PROVE  g.packet.desc = Source(host.req) /\ g.packet.from = g.at
    BY <1>1, <1>4, <1>12 DEF InOrder
  <2>1. CASE g \in host.got
    BY <1>2, <2>1 DEF IInv, InOrder
  <2>2. CASE g = [packet |-> fifo[1], at |-> host.bytes]
    BY <1>1, <1>2, <2>2 DEF IInv, InOrder
  <2> QED BY <1>4, <2>1, <2>2
<1>8. CASE ep0_state = INIT
  <2>1. Through
    BY <1>2, <1>8 DEF IInv, Together
  <2>2. CASE cut /\ Enough(fifo[1]) /\ host' = Idle
    <3>1. Through'
      BY <1>1, <1>5, <1>11, <2>2 DEF Through
    <3> QED BY <1>1, <1>5, <1>7, <1>8, <1>11, <2>2, <3>1 DEF Together
  <2>3. CASE ~(cut /\ Enough(fifo[1]) /\ host' = Idle)
    <3>1. /\ host'.req = host.req /\ Sent' = Sent
          /\ host'.phase = IF Enough(fifo[1]) THEN "idle" ELSE host.phase
      <4>1. CASE cut /\ Enough(fifo[1])
        <5>1. host' = Taken
          BY <1>12, <2>3, <4>1
        <5>2. host.bytes \in Nat /\ fifo[1].len \in Nat
          BY <1>0, <1>3 DEF Host, Packet
        <5> QED BY <1>1, <1>4, <5>1, <5>2 DEF Sent
      <4>2. CASE ~(cut /\ Enough(fifo[1]))
        BY <1>4, <1>6, <1>13, <4>2
      <4> QED BY <4>1, <4>2
    <3>2. Through'
      BY <1>1, <1>5, <2>1, <3>1 DEF Through, Due, Source
    <3> QED BY <1>1, <1>2, <1>5, <1>7, <1>8, <3>1, <3>2 DEF IInv, Together
  <2> QED BY <2>2, <2>3
<1>9. CASE ep0_state # INIT
  <2>1. AtWork
    BY <1>2, <1>9 DEF IInv, Together
  <2>2. ~Enough(fifo[1])
    BY <1>2, <1>9
  <2>5. host'.req = host.req /\ host'.bytes = Taken.bytes /\ host'.phase = host.phase /\ Sent' = Sent
    BY <1>4, <1>6, <1>13, <2>2
  <2>3. host'.bytes < host.req.len /\ host'.phase = "data"
    <3>1. ~(host.bytes + fifo[1].len >= host.req.len)
      BY <2>2 DEF Enough
    <3>2. host.bytes \in Nat /\ fifo[1].len \in Nat /\ host.req.len \in Nat
      BY <1>0, <1>3 DEF Host, Packet, Request
    <3> QED BY <1>4, <2>1, <2>5, <3>1, <3>2 DEF AtWork
  <2>4. AtWork'
    BY <1>1, <2>1, <2>3, <2>5 DEF AtWork, Desc, Offset, Start, MaxPkt, Source
  <2> QED BY <1>1, <1>2, <1>5, <1>7, <1>9, <2>1, <2>3, <2>4, <2>5 DEF IInv, Together
<1> QED BY <1>8, <1>9

\* A bus reset ends the transfer on both sides.
LEMMA ResetTogether ==
    ASSUME IInv, NEW s \in Speeds, BusReset(s), ~left'
    PROVE  Together' /\ InOrder'
<1>0. fifo' = <<>>
  BY Zenon DEF BusReset
<1>1. /\ jammed' = FALSE /\ unread' = FALSE /\ rx' = <<>> /\ fifo' = <<>> /\ token' = FALSE
      /\ host' = Idle /\ ep0_state' = INIT
  <2>1. unread' = FALSE
    BY DEF BusReset, IInv, Typed, TypeOK
  <2> QED BY <1>0, <2>1 DEF BusReset
<1>2. Idle.req.kind \notin Descriptors /\ Idle.phase = "idle"
  BY KindsApart DEF Idle
<1> QED BY <1>1, <1>2 DEF Together, InOrder, Through

\* The request is decoded and the driver begins.
LEMMA DecodeGetTogether ==
    ASSUME IInv, DecodeGet, ~left'
    PROVE  Together' /\ InOrder'
<1>1. /\ UNCHANGED <<speed, ep0_substate, token, fifo, host, unread, jammed, left, cut>>
      /\ rx # <<>> /\ rx' = <<>> /\ ep0_state = INIT /\ rx[1].kind \in Descriptors
  BY DEF DecodeGet, Decoding, history
<1>2. /\ ~left /\ rx = <<host.req>> /\ fifo = <<>> /\ host.bytes = 0 /\ host.got = {}
      /\ host.phase # "idle" /\ ~jammed /\ ~unread /\ (host.phase = "status" <=> host.req.len = 0)
  BY <1>1 DEF IInv, Together, Through
<1>3. host.req \in Requests /\ host.req.kind \in Descriptors /\ host \in Host
  BY <1>1, <1>2 DEF IInv, Typed, TypeOK
<1>4. host.req.len \in Nat /\ host.req.len > 0 /\ host.phase = "data"
  BY <1>2, <1>3, RequestAssumption, KindsApart DEF Host, Request
<1>5. /\ ep0_state' = [desc |-> Source(host.req), k |-> 0]
      /\ req_length' = IF host.req.kind \in Chained \union Bounded THEN host.req.len ELSE req_length
  BY <1>1, <1>2 DEF DecodeGet, Goto, Source
<1>6. ep0_state'.desc = Source(host.req) /\ ep0_state'.k = 0 /\ Source(host.req) \in Descriptors
  BY <1>3, <1>5, KindsApart DEF Source
<1>7. ep0_state' # INIT
  BY <1>6, KindsApart DEF INIT
<1>8. Source(host.req) \in Chained \union Bounded => host.req.kind \in Chained \union Bounded
  BY KindsApart DEF Source
<1>9. Offset' = 0
  BY <1>6, PacketSizes DEF Offset
<1>10. Sent' = 0
  BY <1>1, <1>2 DEF Sent
<1>11. Start' = Start /\ Start \in Nat /\ (ep0_substate = 0 => Start = 0)
  BY <1>1, Starts DEF Start, MaxPkt, IInv, Typed
<1>12. ~cut => ep0_substate = 0
  BY <1>1, KindsApart DEF IInv, CountedString, Desc, INIT
<1>13. Size[Source(host.req)] > 0
  BY <1>6, PacketSizes
<1>14. Desc' = Source(host.req)
  BY <1>6 DEF Desc
<1>15. /\ Sent' <= Start'
       /\ ~cut => Sent' = Start' /\ Start' < Size[Source(host.req)]
  BY <1>10, <1>11, <1>12, <1>13
<1>16. AtWork'
  BY <1>1, <1>2, <1>3, <1>4, <1>5, <1>8, <1>9, <1>10, <1>14, <1>15 DEF AtWork, Source
<1> QED BY <1>1, <1>2, <1>7, <1>16 DEF Together, InOrder

\* What s3c_usb_ep0_int_hndlr is through with at once.
LEMMA DecodeTogether ==
    ASSUME IInv, Decode, ~DecodeGet, ~left'
    PROVE  Together' /\ InOrder'
<1>1. ~left
  <2>1. left' = left \/ left' = (left \/ token)
    BY Zenon DEF Decode, DecodeGetConfiguration, DecodeSetConfiguration, DecodeOther, Undecoded,
                 Misread, history
  <2> QED BY <2>1, Zenon
<1>2. rx # <<>>
  <2>1. ~Misread
    BY <1>1 DEF Misread, IInv, Together
  <2> QED BY <2>1 DEF Decode, DecodeGetConfiguration, DecodeSetConfiguration, DecodeOther,
                      Undecoded, Decoding
<1>3. ep0_state = INIT
  BY <1>1, <1>2 DEF IInv, Together, AtWork
<1>4. /\ rx = <<host.req>> /\ fifo = <<>> /\ host.phase # "idle" /\ ~jammed /\ ~unread
      /\ (host.phase = "status" <=> host.req.len = 0)
  BY <1>1, <1>2, <1>3 DEF IInv, Together, Through
<1>5. /\ UNCHANGED <<ep0_state, host, token, unread, jammed>> /\ rx' = <<>>
      /\ host.req.kind \in {"getconf", "setconf", "nodata", "unknown"}
      /\ fifo' = fifo \/ ~token
  <2>1. CASE DecodeGetConfiguration
    <3>1. left' = (left \/ token)
      BY <2>1 DEF DecodeGetConfiguration
    <3>2. ~token
      BY <3>1, Zenon
    <3> QED BY <1>4, <2>1, <3>2 DEF DecodeGetConfiguration, Decoding, device
  <2>2. CASE DecodeSetConfiguration \/ DecodeOther
    BY <1>4, <2>2 DEF DecodeSetConfiguration, DecodeOther, Decoding, device, history
  <2>3. ~Misread
    BY <1>1 DEF Misread, IInv, Together
  <2> QED BY <1>3, <2>1, <2>2, <2>3 DEF Decode, Undecoded
<1>6. host.req.kind \notin Descriptors
  BY <1>5, KindsApart
<1>7. Through'
  BY <1>4, <1>5, <1>6 DEF Through
<1> QED BY <1>3, <1>4, <1>5, <1>6, <1>7 DEF Together, InOrder

\* An IN token that is served: the FIFO is empty.
LEMMA Serving ==
    ASSUME IInv, Answer, ~left'
    PROVE  /\ UNCHANGED <<speed, req_length, rx, host, unread, jammed, cut, left>>
           /\ ~left /\ ~jammed /\ ~unread /\ rx = <<>> /\ fifo = <<>> /\ token' = FALSE
           /\ IF ep0_state = INIT THEN Through /\ host.phase # "idle" ELSE AtWork
           /\ Sent = host.bytes /\ host.bytes \in Nat
           /\ (host.phase = "status" <=> host.req.len = 0)
           /\ host \in Host
<1>1. UNCHANGED <<speed, req_length, rx, host, unread, jammed, cut, left>> /\ token' = FALSE
  BY AnswerTypes DEF IInv, Typed, Only, history
<1>2. token /\ rx = <<>>
  BY DEF Answer, TransferInit, TransferOne, TransferChained, TransferChainEnd, TransferString,
         Transfer
<1>3. ~left /\ ~jammed /\ ~unread /\ fifo = <<>> /\ (ep0_state = INIT => Through /\ host.phase # "idle")
      /\ (ep0_state # INIT => AtWork)
  BY <1>1, <1>2 DEF IInv, Together, Through
<1>4. host \in Host /\ host.bytes \in Nat
  BY DEF IInv, Typed, TypeOK, Host
<1>5. host.phase = "status" <=> host.req.len = 0
  BY <1>1, <1>2, <1>3 DEF IInv, Together, AtWork
<1> QED BY <1>1, <1>2, <1>3, <1>4, <1>5 DEF Sent

\* The last packet of an answer, n bytes from the place the driver is at.
LEMMA Last ==
    ASSUME IInv, Answer, ~left', AtWork, ep0_state' = INIT,
           (~cut /\ Heeded(host.req)) =>
              \E n \in Nat : /\ host.bytes + n = Least(host.req.len, Size[Desc])
                             /\ IF n = 0 THEN fifo' = fifo ELSE Write(Desc, host.bytes, n)
    PROVE  Together' /\ InOrder'
<1>1. /\ UNCHANGED <<speed, req_length, rx, host, unread, jammed, cut, left>>
      /\ ~left /\ ~jammed /\ ~unread /\ rx = <<>> /\ fifo = <<>> /\ token' = FALSE
      /\ host.bytes \in Nat /\ (host.phase = "status" <=> host.req.len = 0)
  BY Serving
<1>2. host.phase = "data" /\ host.req.kind \in Descriptors /\ Desc = Source(host.req)
  BY DEF AtWork
<1>3. Due(host.req) = Least(host.req.len, Size[Desc])
  BY <1>2, DueOf
<1>4. ASSUME ~cut, Heeded(host.req)
      PROVE  /\ Sent' = Due(host.req)
             /\ (fifo' # <<>> /\ fifo'[1].len > 0) =>
                   fifo'[1].desc = Desc /\ fifo'[1].from = host.bytes
  <2>1. PICK n \in Nat : /\ host.bytes + n = Least(host.req.len, Size[Desc])
                         /\ IF n = 0 THEN fifo' = fifo ELSE Write(Desc, host.bytes, n)
    BY <1>4
  <2>2. CASE n = 0
    BY <1>1, <1>3, <2>1, <2>2 DEF Sent
  <2>3. CASE n > 0
    <3>1. fifo' # <<>> /\ fifo'[1].desc = Desc /\ fifo'[1].from = host.bytes /\ fifo'[1].len = n
      BY <2>1, <2>3, Wrote
    <3> QED BY <1>1, <1>3, <2>1, <3>1 DEF Sent
  <2> QED BY <2>1, <2>2, <2>3
<1>5. Due(host.req)' = Due(host.req)
  BY <1>1 DEF Due, Source
<1>6. Through'
  BY <1>1, <1>2, <1>4, <1>5 DEF Through
<1>7. Together'
  BY <1>1, <1>2, <1>6 DEF Together
<1>8. InOrder'
  BY <1>1, <1>2, <1>4 DEF IInv, InOrder, Source
<1> QED BY <1>7, <1>8

\* An empty packet for a host that waits for more than there is.
LEMMA InitTogether ==
    ASSUME IInv, Answer, TransferInit, ~left'
    PROVE  Together' /\ InOrder'
<1>1. /\ UNCHANGED <<speed, req_length, rx, host, unread, jammed, cut, left>>
      /\ ~left /\ ~jammed /\ ~unread /\ rx = <<>> /\ fifo = <<>> /\ token' = FALSE
      /\ Sent = host.bytes /\ host.bytes \in Nat
      /\ (host.phase = "status" <=> host.req.len = 0)
  BY Serving
<1>2. ep0_state = INIT /\ ep0_state' = INIT /\ fifo' = <<ZeroPacket>>
  BY <1>1 DEF TransferInit
<1>3. Through /\ host.phase # "idle"
  BY <1>2, Serving
<1>4. fifo' # <<>> /\ fifo'[1].len = 0
  BY <1>2 DEF ZeroPacket
<1>5. Sent' = Sent
  BY <1>1, <1>4 DEF Sent
<1>6. Through'
  BY <1>1, <1>3, <1>5 DEF Through, Due, Source
<1>7. Together'
  BY <1>1, <1>2, <1>6 DEF Together
<1> QED BY <1>1, <1>4, <1>7 DEF IInv, InOrder, Source

\* An answer in one packet.
LEMMA OneTogether ==
    ASSUME IInv, Answer, TransferOne, ~left'
    PROVE  Together' /\ InOrder'
<1>1. Desc \in Descriptors /\ Desc \notin Strings /\ ep0_state' = INIT
  BY KindsApart DEF TransferOne, Bounded
<1>2. AtWork
  BY <1>1, Serving, KindsApart DEF INIT, Desc
<1>3. ep0_state.k = 0
  BY KindsApart DEF TransferOne, IInv, Typed, InChain, Bounded
<1>4. host.bytes = 0 /\ Sent = host.bytes
  BY <1>1, <1>2, <1>3, Serving, Offsets DEF AtWork, IInv, Typed
<1>5. host.req.len \in Nat /\ host.req.len > 0 /\ Size[Desc] \in Nat /\ Size[Desc] > 0
  BY <1>1, <1>2, <1>4, PacketSizes, RequestAssumption DEF AtWork, Request
<1>6. ASSUME Heeded(host.req)
      PROVE  Write(Desc, 0, Least(host.req.len, Size[Desc]))
  <2>1. CASE Desc \in Fixed
    <3>1. Desc = host.req.kind
      BY <1>2, <2>1, KindsApart DEF AtWork, Source
    <3>2. host.req.len >= Size[Desc]
      BY <1>6, <2>1, <3>1 DEF Heeded
    <3>3. Least(host.req.len, Size[Desc]) = Size[Desc]
      BY <1>5, <3>2 DEF Least
    <3> QED BY <2>1, <3>3, KindsApart DEF TransferOne, Fixed, Bounded, Chained
  <2>2. CASE Desc \notin Fixed /\ Desc # "other"
    <3>1. Desc \in Chained \union Bounded /\ Write(Desc, 0, Least(req_length, Size[Desc]))
      BY <2>2 DEF TransferOne, Bounded
    <3>2. req_length = host.req.len
      BY <1>2, <3>1 DEF AtWork
    <3> QED BY <3>1, <3>2
  <2>3. CASE Desc = "other"
    <3>1. req_length = host.req.len /\ host.req.kind = "other"
      BY <1>2, <2>3, KindsApart DEF AtWork, Bounded, Source
    <3>2. req_length \in {Size["cfgonly"], Size["cfg"]}
      BY <1>6, <3>1 DEF Heeded
    <3>3. Write("other", 0, req_length)
      BY <2>3, <3>2 DEF TransferOne, WriteOther, Fixed, Chained
    <3>4. Least(req_length, Size["other"]) = req_length
      <4>1. /\ Size["cfgonly"] = FsPkt + 1 /\ Size["cfg"] = 4 * FsPkt /\ Size["other"] = Size["cfg"]
            /\ FsPkt \in Nat /\ FsPkt > 1
        BY SizeAssumption, PacketSizes
      <4> QED BY <3>2, <4>1 DEF Least
    <3> QED BY <2>3, <3>1, <3>3, <3>4
  <2> QED BY <2>1, <2>2, <2>3
<1>7. PICK n \in Nat : n = Least(host.req.len, Size[Desc]) /\ n > 0
  BY <1>5 DEF Least
<1>8. Heeded(host.req) =>
          \E m \in Nat : /\ host.bytes + m = Least(host.req.len, Size[Desc])
                         /\ IF m = 0 THEN fifo' = fifo ELSE Write(Desc, host.bytes, m)
  <2>1. host.bytes + n = n /\ n # 0
    BY <1>4, <1>7
  <2> QED BY <1>4, <1>6, <1>7, <2>1
<1> QED BY <1>1, <1>2, <1>8, Last

\* A packet of a chain at full speed.
LEMMA ChainedTogether ==
    ASSUME IInv, Answer, TransferChained, ~left'
    PROVE  Together' /\ InOrder'
<1>0. /\ UNCHANGED <<speed, req_length, rx, host, unread, jammed, cut, left>>
      /\ ~left /\ ~jammed /\ ~unread /\ rx = <<>> /\ fifo = <<>> /\ token' = FALSE
      /\ Sent = host.bytes /\ host.bytes \in Nat
      /\ (host.phase = "status" <=> host.req.len = 0)
  BY Serving
<1>1. /\ Desc \in Chained /\ Desc \in Descriptors /\ Desc \notin Strings /\ speed = "full"
      /\ ep0_state.k < LastState /\ ep0_substate' = ep0_substate
  BY KindsApart DEF TransferChained
<1>2. AtWork
  BY <1>1, Serving, KindsApart DEF INIT, Desc
<1>3. /\ host.bytes = Offset /\ Offset < host.req.len /\ req_length = host.req.len
      /\ host.req.len \in Nat /\ Offset \in Nat
  BY <1>0, <1>1, <1>2, Offsets, RequestAssumption DEF AtWork, Request, IInv, Typed
<1>4. FsPkt \in Nat /\ FsPkt > 0 /\ MaxPkt = FsPkt
  BY <1>1, PacketSizes
<1>5. Offset + FsPkt <= Size[Desc] /\ Size[Desc] \in Nat
  <2>1. Size[Desc] \in Nat
    BY <1>1, PacketSizes
  <2>2. CASE Desc = "dev"
    <3>1. 2 * FsPkt < Size[Desc] /\ ep0_state.k \in {0, 1}
      BY <1>1, <2>2, LastStates, SizeAssumption DEF IInv, Typed, TypeOK
    <3> QED BY <1>4, <2>1, <3>1, Offsets DEF IInv, Typed
  <2>3. CASE Desc = "cfg"
    <3>1. 4 * FsPkt = Size[Desc] /\ ep0_state.k \in {0, 1, 2, 3}
      BY <1>1, <2>3, LastStates, SizeAssumption DEF IInv, Typed, TypeOK
    <3> QED BY <1>4, <2>1, <3>1, Offsets DEF IInv, Typed
  <2>4. CASE Desc = "cfgonly"
    <3>1. FsPkt + 1 = Size[Desc] /\ ep0_state.k = 0
      BY <1>1, <2>4, LastStates, SizeAssumption DEF IInv, Typed, TypeOK
    <3> QED BY <1>4, <2>1, <3>1, Offsets DEF IInv, Typed
  <2> QED BY <1>1, <2>1, <2>2, <2>3, <2>4 DEF Chained
<1>6. CASE req_length < Offset + FsPkt
  <2>1. ep0_state' = INIT /\ Write(Desc, Offset, req_length - Offset)
    BY <1>6 DEF TransferChained
  <2>2. PICK n \in Nat : n = req_length - Offset /\ n > 0
    BY <1>3
  <2>3. host.bytes + n = host.req.len /\ host.req.len < Size[Desc] /\ n # 0
    BY <1>3, <1>4, <1>5, <1>6, <2>2
  <2>4. Least(host.req.len, Size[Desc]) = host.req.len
    BY <2>3 DEF Least
  <2>5. \E m \in Nat : /\ host.bytes + m = Least(host.req.len, Size[Desc])
                       /\ IF m = 0 THEN fifo' = fifo ELSE Write(Desc, host.bytes, m)
    BY <1>3, <2>1, <2>2, <2>3, <2>4
  <2> QED BY <1>2, <2>1, <2>5, Last
<1>7. CASE ~(req_length < Offset + FsPkt)
  <2>1. Write(Desc, Offset, FsPkt) /\ ep0_state' = [ep0_state EXCEPT !.k = @ + 1]
    BY <1>7 DEF TransferChained
  <2>2. /\ fifo' # <<>> /\ fifo'[1].desc = Desc /\ fifo'[1].from = Offset /\ fifo'[1].len = FsPkt
    BY <1>4, <2>1, Wrote
  <2>3. Desc' = Desc /\ ep0_state'.k = ep0_state.k + 1 /\ ep0_state' # INIT
    BY <1>1, <2>1, KindsApart DEF Desc, IInv, Typed, TypeOK, INIT
  <2>4. Offset' = Offset + FsPkt
    <3>1. PICK k \in Nat, f \in Nat : k = ep0_state.k /\ f = FsPkt
      BY <1>4 DEF IInv, Typed, TypeOK
    <3>2. (k + 1) * f = k * f + f
      OBVIOUS
    <3> QED BY <2>3, <3>1, <3>2 DEF Offset
  <2>5. Sent' = host.bytes + FsPkt
    BY <1>0, <2>2 DEF Sent
  <2>6. Sent' = Offset' /\ Offset' <= host.req.len
    BY <1>3, <1>4, <1>7, <2>4, <2>5
  <2>7. MaxPkt' = MaxPkt
    BY <1>0 DEF MaxPkt
  <2>8. AtWork'
    BY <1>0, <1>1, <1>2, <1>4, <2>2, <2>3, <2>6, <2>7 DEF AtWork, Source
  <2>9. Together'
    BY <1>0, <2>3, <2>8 DEF Together
  <2>10. Desc = Source(host.req)
    BY <1>2 DEF AtWork
  <2> QED BY <1>0, <1>3, <2>2, <2>9, <2>10 DEF IInv, InOrder, Source
<1> QED BY <1>6, <1>7

\* The last state of a chain.
LEMMA ChainEndTogether ==
    ASSUME IInv, Answer, TransferChainEnd, ~left'
    PROVE  Together' /\ InOrder'
<1>0. Sent = host.bytes /\ host.bytes \in Nat /\ fifo = <<>>
  BY Serving
<1>1. /\ Desc \in Chained /\ Desc \in Descriptors /\ Desc \notin Strings
      /\ ep0_state.k = LastState /\ ep0_state' = INIT
      /\ Desc = "dev" => Write(Desc, Offset, Least(req_length, Size[Desc]) - Offset)
      /\ Desc = "cfg" => fifo' = fifo
      /\ Desc = "cfgonly" => Write(Desc, Offset, Size[Desc] - Offset)
  BY KindsApart DEF TransferChainEnd
<1>2. AtWork
  BY <1>1, Serving, KindsApart DEF INIT, Desc
<1>3. /\ host.bytes = Offset /\ Offset < host.req.len /\ req_length = host.req.len
      /\ host.req.len \in Nat /\ Offset \in Nat /\ Size[Desc] \in Nat /\ FsPkt \in Nat
  BY <1>0, <1>1, <1>2, Offsets, RequestAssumption, PacketSizes DEF AtWork, Request, IInv, Typed
<1>4. \E m \in Nat : /\ host.bytes + m = Least(host.req.len, Size[Desc])
                     /\ IF m = 0 THEN fifo' = fifo ELSE Write(Desc, host.bytes, m)
  <2>1. CASE Desc = "dev"
    <3>1. Offset = 2 * FsPkt /\ 2 * FsPkt < Size[Desc]
      BY <1>1, <2>1, LastStates, Offsets, SizeAssumption DEF IInv, Typed
    <3>2. Least(host.req.len, Size[Desc]) \in Nat /\ Least(host.req.len, Size[Desc]) > Offset
      BY <1>3, <3>1 DEF Least
    <3>3. PICK n \in Nat : n = Least(host.req.len, Size[Desc]) - Offset /\ n # 0
      BY <1>3, <3>2
    <3>4. host.bytes + n = Least(host.req.len, Size[Desc])
      BY <1>3, <3>2, <3>3
    <3> QED BY <1>1, <1>3, <2>1, <3>3, <3>4
  <2>2. CASE Desc = "cfg"
    <3>1. Offset = 4 * FsPkt /\ 4 * FsPkt = Size[Desc]
      BY <1>1, <2>2, LastStates, Offsets, SizeAssumption DEF IInv, Typed
    <3>2. Least(host.req.len, Size[Desc]) = host.bytes + 0
      BY <1>3, <3>1 DEF Least
    <3> QED BY <1>1, <2>2, <3>2
  <2>3. CASE Desc = "cfgonly"
    <3>1. Offset = FsPkt /\ FsPkt + 1 = Size[Desc]
      BY <1>1, <2>3, LastStates, Offsets, SizeAssumption, PacketSizes DEF IInv, Typed
    <3>2. /\ Least(host.req.len, Size[Desc]) = Size[Desc]
          /\ Size[Desc] - Offset = 1 /\ host.bytes + 1 = Size[Desc]
      BY <1>3, <3>1 DEF Least
    <3> QED BY <1>1, <1>3, <2>3, <3>2
  <2> QED BY <1>1, <2>1, <2>2, <2>3 DEF Chained
<1> QED BY <1>1, <1>2, <1>4, Last

\* A packet of a string.
LEMMA StringTogether ==
    ASSUME IInv, Answer, TransferString, ~left'
    PROVE  Together' /\ InOrder'
<1>0. /\ UNCHANGED <<speed, req_length, rx, host, unread, jammed, cut, left>>
      /\ ~left /\ ~jammed /\ ~unread /\ rx = <<>> /\ fifo = <<>> /\ token' = FALSE
      /\ Sent = host.bytes /\ host.bytes \in Nat
      /\ (host.phase = "status" <=> host.req.len = 0)
  BY Serving
<1>1. Desc \in Strings /\ Desc \in Descriptors
  BY KindsApart DEF TransferString
<1>2. AtWork
  BY <1>1, Serving, KindsApart DEF INIT, Desc
<1>3. /\ host.bytes <= Start
      /\ ~cut => host.bytes = Start /\ Start < Size[Desc]
  BY <1>0, <1>1, <1>2 DEF AtWork
<1>4. Size[Desc] \in Nat /\ Start \in Nat /\ MaxPkt \in Nat /\ MaxPkt > 0
  BY <1>1, PacketSizes, Starts DEF IInv, Typed
<1>5. CASE Start + MaxPkt < Size[Desc]
  <2>1. Write(Desc, Start, MaxPkt) /\ ep0_substate' = ep0_substate + 1 /\ ep0_state' = ep0_state
    BY <1>5 DEF TransferString
  <2>2. fifo' # <<>> /\ fifo'[1].desc = Desc /\ fifo'[1].from = Start /\ fifo'[1].len = MaxPkt
    BY <1>4, <2>1, Wrote
  <2>3. MaxPkt' = MaxPkt
    BY <1>0 DEF MaxPkt
  <2>4. Start' = Start + MaxPkt
    BY <2>1, <2>3, Starts DEF Start, IInv, Typed
  <2>5. Sent' = host.bytes + MaxPkt
    BY <1>0, <2>2 DEF Sent
  <2>6. /\ Sent' <= Start' /\ Start' < Size[Desc]
        /\ ~cut => Sent' = Start'
    BY <1>0, <1>3, <1>4, <1>5, <2>4, <2>5
  <2>7. Desc' = Desc /\ ep0_state' # INIT
    BY <1>1, <2>1, KindsApart DEF Desc, INIT
  <2>8. AtWork'
    BY <1>0, <1>1, <1>2, <2>2, <2>3, <2>6, <2>7, KindsApart DEF AtWork, Source
  <2>9. Together'
    BY <1>0, <2>7, <2>8 DEF Together
  <2>10. Desc = Source(host.req)
    BY <1>2 DEF AtWork
  <2> QED BY <1>0, <1>3, <2>2, <2>9, <2>10 DEF IInv, InOrder, Source
<1>6. CASE ~(Start + MaxPkt < Size[Desc])
  <2>1. Write(Desc, Start, Size[Desc] - Start) /\ ep0_state' = INIT
    BY <1>6 DEF TransferString
  <2>2. ASSUME ~cut, Heeded(host.req)
        PROVE  \E m \in Nat : /\ host.bytes + m = Least(host.req.len, Size[Desc])
                              /\ IF m = 0 THEN fifo' = fifo ELSE Write(Desc, host.bytes, m)
    <3>1. PICK n \in Nat : n = Size[Desc] - Start /\ n > 0
      BY <1>3, <1>4, <2>2
    <3>2. host.req.kind = Desc
      BY <1>1, <1>2, KindsApart DEF AtWork, Source
    <3>3. host.req.len >= Size[Desc] /\ host.req.len \in Nat
      BY <1>1, <1>2, <2>2, <3>2, RequestAssumption DEF AtWork, Request, Heeded
    <3>4. Least(host.req.len, Size[Desc]) = Size[Desc]
      BY <1>4, <3>3 DEF Least
    <3>5. host.bytes + n = Size[Desc] /\ n # 0 /\ host.bytes = Start
      BY <1>3, <1>4, <2>2, <3>1
    <3> QED BY <2>1, <3>1, <3>4, <3>5
  <2> QED BY <1>2, <2>1, <2>2, Last
<1> QED BY <1>5, <1>6

\* Every step that does not leave the driver behind keeps the two together.
LEMMA TogetherStep ==
    ASSUME IInv, Next, ~left'
    PROVE  Together' /\ InOrder'
<1>1. CASE Abort
  BY <1>1 DEF Abort
<1>2. CASE InToken \/ InData
  BY <1>2, InTokenTogether, InDataTogether
<1>3. CASE \E r \in Requests : Setup(r)
  BY <1>3, SetupTogether
<1>4. CASE \E s \in Speeds : BusReset(s)
  BY <1>4, ResetTogether
<1>5. CASE Decode
  BY <1>5, DecodeGetTogether, DecodeTogether DEF Decode
<1>6. CASE Answer
  BY <1>6, InitTogether, OneTogether, ChainedTogether, ChainEndTogether, StringTogether DEF Answer
<1> QED BY <1>1, <1>2, <1>3, <1>4, <1>5, <1>6 DEF Next

\* A step that changes nothing.
LEMMA Unmoved ==
    ASSUME Together, InOrder, UNCHANGED vars
    PROVE  Together' /\ InOrder'
<1>1. UNCHANGED <<speed, ep0_state, ep0_substate, req_length, rx, token, fifo, host, unread, jammed, left, cut>>
  BY DEF vars, device, history
<1>2. AtWork' = AtWork
  BY <1>1 DEF AtWork, Desc, Sent, Offset, Start, MaxPkt, Source
<1>3. Through' = Through
  BY <1>1 DEF Through, Sent, Due, Source
<1>4. Together'
  BY <1>1, <1>2, <1>3 DEF Together
<1>5. InOrder'
  BY <1>1 DEF InOrder, Source
<1> QED BY <1>4, <1>5

\* IInv is kept by every step.
LEMMA Inductive == IInv /\ [Next]_vars => IInv'
<1> SUFFICES ASSUME IInv, [Next]_vars PROVE IInv'
  OBVIOUS
<1>1. Typed' /\ CountedString'
  BY TypedStep, CountStep DEF IInv
<1>2. CASE UNCHANGED vars
  BY <1>1, <1>2, Unmoved DEF IInv
<1>3. CASE Next /\ ~left'
  BY <1>1, <1>3, TogetherStep DEF IInv
<1>4. CASE left'
  BY <1>1, <1>4 DEF IInv, Together, InOrder
<1> QED BY <1>2, <1>3, <1>4

\* Before the first request nothing is under way.
LEMMA Initially == Init => IInv
<1> SUFFICES ASSUME Init PROVE IInv
  OBVIOUS
<1>1. /\ ep0_state = INIT /\ rx = <<>> /\ token = FALSE /\ fifo = <<>> /\ host = Idle
      /\ unread = FALSE /\ jammed = FALSE /\ ep0_substate = 0
  BY DEF Init
<1>2. Idle.req.kind \notin Descriptors /\ Idle.phase = "idle"
  BY KindsApart DEF Idle
<1>3. Through
  BY <1>1, <1>2 DEF Through
<1>4. Together /\ InOrder /\ CountedString
  BY <1>1, <1>2, <1>3 DEF Together, InOrder, CountedString
<1> QED BY <1>4, TypedInit DEF IInv

\* The driver is in the middle of an answer: it has not written all of it.
LEMMA NotAll ==
    ASSUME IInv, AtWork, ~cut
    PROVE  host.bytes <= Least(host.req.len, Size[Desc])
<1>1. /\ host.bytes \in Nat /\ Sent \in Nat /\ host.bytes <= Sent /\ host.req.len \in Nat
  <2>1. host \in Host /\ (fifo # <<>> => fifo[1] \in Packet)
    BY DEF IInv, Typed, TypeOK
  <2>2. host.bytes \in Nat /\ host.req.len \in Nat /\ (fifo # <<>> => fifo[1].len \in Nat)
    BY <2>1 DEF Host, Request, Packet
  <2> QED BY <2>2 DEF Sent
<1>2. Desc \in Descriptors /\ Size[Desc] \in Nat /\ Size[Desc] > 0 /\ FsPkt \in Nat
  <2>1. Desc \in Descriptors
    BY KindsApart DEF AtWork, Source
  <2> QED BY <2>1, PacketSizes
<1>3. CASE Desc \in Strings
  BY <1>1, <1>2, <1>3 DEF AtWork, Least
<1>4. CASE Desc \notin Strings
  <2>1. Sent = Offset /\ Offset <= host.req.len /\ host.bytes < host.req.len
    BY <1>4 DEF AtWork
  <2>2. Offset <= Size[Desc]
    <3>1. CASE Desc \notin Chained
      <4>1. Offset = 0
        BY <3>1, Offsets DEF IInv, Typed, InChain
      <4> QED BY <1>2, <4>1
    <3>2. CASE Desc = "dev"
      <4>1. Size[Desc] > 2 * FsPkt /\ ep0_state.k \in {0, 1, 2}
        BY <3>2, LastStates, SizeAssumption DEF IInv, Typed, TypeOK, InChain, Chained
      <4> QED BY <1>2, <4>1, Offsets DEF IInv, Typed
    <3>3. CASE Desc = "cfg"
      <4>1. Size[Desc] = 4 * FsPkt /\ ep0_state.k \in 0 .. 4
        BY <3>3, SizeAssumption DEF IInv, Typed, TypeOK
      <4> QED BY <1>2, <4>1, Offsets DEF IInv, Typed
    <3>4. CASE Desc = "cfgonly"
      <4>1. Size[Desc] = FsPkt + 1 /\ ep0_state.k \in {0, 1}
        BY <3>4, LastStates, SizeAssumption DEF IInv, Typed, TypeOK, InChain, Chained
      <4> QED BY <1>2, <4>1, Offsets DEF IInv, Typed
    <3> QED BY <3>1, <3>2, <3>3, <3>4 DEF Chained
  <2> QED BY <1>1, <1>2, <2>1, <2>2, Offsets DEF Least, IInv, Typed
<1> QED BY <1>3, <1>4

\* usbd-otg-hs.c:976-1388: at either speed and for every descriptor the host
\* gets what it asked for, packet by packet and in order, and at the end all
\* that was due, if its wLength is one the driver heeds and unless the driver
\* was left in the middle of another answer.
THEOREM AnswersAreRight == Spec => []Answered
<1>1. IInv => Answered
  <2> SUFFICES ASSUME IInv, ~left, ~cut, host.req.kind \in Descriptors, Heeded(host.req),
                      host.got # {}
               PROVE  /\ host.bytes <= Due(host.req)
                      /\ \A g \in host.got : g.packet.len > 0 =>
                            g.packet.desc = Source(host.req) /\ g.packet.from = g.at
                      /\ host.phase = "idle" => host.bytes = Due(host.req)
    BY DEF Answered
  <2>1. \A g \in host.got : g.packet.len > 0 => g.packet.desc = Source(host.req) /\ g.packet.from = g.at
    BY DEF IInv, InOrder
  <2>2. host.bytes \in Nat /\ (fifo # <<>> => fifo[1].len \in Nat)
    <3>1. host \in Host /\ (fifo # <<>> => fifo[1] \in Packet)
      BY DEF IInv, Typed, TypeOK
    <3> QED BY <3>1 DEF Host, Packet
  <2>3. CASE ep0_state = INIT
    <3>1. Through
      BY <2>3 DEF IInv, Together
    <3>2. rx = <<>> /\ Sent = Due(host.req)
      BY <3>1 DEF Through
    <3>3. host.phase = "idle" => fifo = <<>>
      BY <3>1 DEF Through
    <3> QED BY <2>1, <2>2, <3>2, <3>3 DEF Sent
  <2>4. CASE ep0_state # INIT
    <3>1. AtWork
      BY <2>4 DEF IInv, Together
    <3> QED BY <2>1, <3>1, NotAll, DueOf DEF AtWork
  <2> QED BY <2>3, <2>4
<1> QED BY <1>1, Initially, Inductive, PTL DEF Spec

\* A number of full packets.
LEMMA WholePackets ==
    ASSUME NEW k \in Nat, NEW f \in Nat, f > 0
    PROVE  (k * f) % f = 0
OBVIOUS

\* A full speed answer that the host has had enough of ends with a full packet.
LEMMA LeftExact ==
    ASSUME IInv, InData, ~left, left', Heeded(host.req)
    PROVE  Exact(host.req)
<1>1. Enough(fifo[1]) /\ ep0_state # INIT /\ fifo # <<>>
  BY DEF InData
<1>2. AtWork
  BY <1>1 DEF IInv, Together
<1>3. host.bytes \in Nat /\ host.req.len \in Nat /\ MaxPkt \in Nat /\ MaxPkt > 0
  BY PacketSizes DEF IInv, Typed, TypeOK, Host, Request
<1>4. fifo[1].len = MaxPkt /\ Sent = host.bytes + MaxPkt
  BY <1>1, <1>2 DEF AtWork, Sent
<1>5. Sent >= host.req.len
  <2>1. host.phase = "data"
    BY <1>2 DEF AtWork
  <2>2. host.bytes + fifo[1].len >= host.req.len
    BY <1>1, <1>3, <1>4, <2>1 DEF Enough
  <2> QED BY <1>4, <2>2
<1>6. Desc \notin Strings
  <2> SUFFICES ASSUME Desc \in Strings PROVE FALSE
    OBVIOUS
  <2>1. Sent <= Start /\ Start < Size[Desc] /\ host.req.kind = Desc
    BY <1>1, <1>2, KindsApart DEF AtWork, Source
  <2>2. Size[Desc] <= host.req.len /\ Size[Desc] \in Nat
    BY <1>2, <2>1, PacketSizes, KindsApart DEF AtWork, Heeded
  <2> QED BY <1>3, <1>4, <1>5, <2>1, <2>2, Starts DEF IInv, Typed
<1>7. host.req.len = Offset /\ Offset > 0
  <2>1. Sent = Offset /\ Offset <= host.req.len
    BY <1>2, <1>6 DEF AtWork
  <2> QED BY <1>3, <1>4, <1>5, <2>1
<1>8. ep0_state.k # 0
  BY <1>7, Offsets DEF IInv, Typed
<1>9. Desc \in Chained /\ speed = "full" /\ ep0_state.k <= LastState
  BY <1>8 DEF IInv, Typed, TypeOK, InChain, Speeds
<1>10. host.req.kind \in {"dev", "cfg"}
  <2>1. host.req.kind \in Kinds
    BY DEF IInv, Typed, TypeOK, Host, Request
  <2>2. host.req.kind \in Chained
    BY <1>2, <1>9, KindsApart DEF AtWork, Source
  <2> QED BY <2>1, <2>2 DEF Kinds, Chained
<1>11. FsPkt \in Nat /\ FsPkt > 0 /\ ep0_state.k \in Nat
  BY PacketSizes DEF IInv, Typed, TypeOK
<1>12. host.req.len % FsPkt = 0
  BY <1>7, <1>11, WholePackets DEF Offset
<1>13. host.req.len <= Size[host.req.kind]
  <2>1. CASE host.req.kind = "dev"
    <3>1. Desc = "dev"
      BY <1>2, <2>1 DEF AtWork, Source
    <3>2. ep0_state.k \in {1, 2} /\ 2 * FsPkt < Size["dev"]
      BY <1>8, <1>9, <3>1, LastStates, SizeAssumption DEF IInv, Typed, TypeOK
    <3>3. Size["dev"] \in Nat
      BY PacketSizes, KindsApart
    <3> QED BY <1>7, <1>11, <2>1, <3>2, <3>3, Offsets DEF IInv, Typed
  <2>2. CASE host.req.kind = "cfg"
    <3>1. Size["cfg"] = 4 * FsPkt /\ ep0_state.k \in 0 .. 4
      BY SizeAssumption DEF IInv, Typed, TypeOK
    <3> QED BY <1>7, <1>11, <2>2, <3>1, Offsets DEF IInv, Typed
  <2> QED BY <1>10, <2>1, <2>2
<1> QED BY <1>9, <1>10, <1>12, <1>13 DEF Exact

\* usbd-otg-hs.c:829: the host is through before the driver only if it gave up,
\* if its wLength is a multiple of the packet size at full speed or is one that
\* the driver does not heed, if it asked for the configuration, or if a bus reset
\* left a packet in the FIFO.
THEOREM TheyEndTogether == Spec => EndsTogether
<1>1. IInv /\ [Next]_vars =>
        [left' /\ ~left => \/ aborts' # aborts \/ resets' # resets
                           \/ Exact(host.req) \/ ~Heeded(host.req)
                           \/ host.req.kind = "getconf"]_vars
  <2> SUFFICES ASSUME IInv, Next, ~left, left', aborts' = aborts, resets' = resets,
                      ~Exact(host.req), Heeded(host.req)
               PROVE  host.req.kind = "getconf"
    BY Zenon
  <2>1. ~InData
    BY LeftExact
  <2>2. ~Abort
    <3>1. aborts \in Nat
      BY DEF IInv, Typed, TypeOK
    <3> QED BY <3>1 DEF Abort
  <2>3. ~Answer
    BY AnswerTypes, Zenon DEF IInv, Typed, Only, history
  <2>4. ~(\E s \in Speeds : BusReset(s))
    <3> SUFFICES ASSUME NEW s \in Speeds, BusReset(s) PROVE FALSE
      OBVIOUS
    <3>1. resets \in Nat /\ resets' = resets + 1
      BY DEF IInv, Typed, TypeOK, BusReset
    <3> QED BY <3>1
  <2>5. DecodeGetConfiguration
    <3>1. ~InToken /\ ~DecodeGet /\ ~DecodeSetConfiguration /\ ~DecodeOther /\ ~Undecoded
          /\ ~Misread /\ ~(\E r \in Requests : Setup(r))
      BY Zenon DEF InToken, DecodeGet, DecodeSetConfiguration, DecodeOther, Undecoded, Misread,
                   Setup, history
    <3> QED BY <2>1, <2>2, <2>3, <2>4, <3>1, Zenon DEF Next, Decode
  <2>6. ep0_state = INIT /\ rx # <<>> /\ rx[1].kind = "getconf"
    BY <2>5 DEF DecodeGetConfiguration, Decoding
  <2>7. rx = <<host.req>>
    BY <2>6 DEF IInv, Together, Through
  <2> QED BY <2>6, <2>7
<1> QED BY <1>1, Initially, Inductive, PTL DEF Spec, EndsTogether

\* usbd-otg-hs.c:861 and 1142: what the host takes for the acknowledgement of its
\* SET_CONFIGURATION comes from a driver that has decoded it, unless a SETUP
\* packet was left undecoded since the bus was reset; and one is left only where
\* the host was through with a transfer before the driver (TheyEndTogether).
THEOREM ConfigurationIsSet == Spec => []ConfiguredIsSet
<1>1. Init => Pending
  BY DEF Init, Pending, Idle
<1>2. IInv /\ Pending => ConfiguredIsSet
  <2>1. Together => (jammed => left)
    BY Zenon DEF Together
  <2> QED BY <2>1, Zenon DEF IInv, Pending, ConfiguredIsSet
<1>3. IInv /\ Pending /\ [Next]_vars => Pending'
  BY PendingStep DEF IInv
<1> QED BY <1>1, <1>2, <1>3, Initially, Inductive, PTL DEF Spec
=============================================================================
