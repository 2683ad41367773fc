--------------------------- MODULE MCUsbDownload ---------------------------
(* Small instance of UsbDownload: packets of 16 (high speed) and 12 (full   *)
(* speed) bytes, u32 of 64 values.  Frames of 10 bytes (empty image), 14    *)
(* (one packet at high speed, two at full speed) and 31 bytes (two or       *)
(* three packets with an odd tail).                                         *)
EXTENDS UsbDownload, TLC

CONSTANTS fEmpty, fShort, fLong, uShort, uLong

MCFiles   == {fEmpty, fShort, fLong}
MCUploads == {uShort, uLong}
MCSize    == (fEmpty :> 0) @@ (fShort :> 4) @@ (fLong :> 21)
MCUpAddr  == (uShort :> 3) @@ (uLong :> 40)
MCUpSize  == (uShort :> 5) @@ (uLong :> 20)

\* Headers read from the middle of a frame: odd address and a size that
\* underflows, address 0, size 0.
MCGarbage == {<<17, 5>>, <<0, 30>>, <<16, 0>>}
=============================================================================
