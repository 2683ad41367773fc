------------------------- MODULE MCFirmwareUpgrade -------------------------
(* Small instance of FirmwareUpgrade: halves of seven blocks with the slots  *)
(* header 1, u-boot 1, zimage 1, initramfs 2, Qi 1, tail 1, and two versions *)
(* of which v1 has a long initramfs.                                         *)
EXTENDS FirmwareUpgrade, TLC

CONSTANTS v1, v2

Sections(z, i) ==
    ("hdr" :> 1) @@ ("uboot" :> 1) @@ ("zimage" :> z) @@ ("initramfs" :> i) @@ ("qi" :> 1)

MCVersions == {v1, v2}
MCLen  == (v1 :> Sections(1, 2)) @@ (v2 :> Sections(1, 1))
=============================================================================
