-------------------------- MODULE DownloadService --------------------------
(***************************************************************************)
(* What usb_read promises a host that downloads an image: the bytes of one *)
(* image arrive in order, none twice and none of another; when all are     *)
(* there, and not before, the image is run.  An image that is cut off is   *)
(* forgotten.  All bets are off while the hosts disturb each other.        *)
(***************************************************************************)
EXTENDS Integers

CONSTANTS
    Files,      \* images that can be downloaded
    Size,       \* Size[f]: length of image f
    NoFile,
    DlAddr      \* the address an image is run at

VARIABLES
    state,      \* "idle", "receiving", "complete", "running", "off", "adrift"
    file,       \* the image that is received
    got,        \* its bytes that are there, the checksum behind it included
    image,      \* what is there
    entry       \* the address that is jumped to

vars == <<state, file, got, image, entry>>

\* The first n bytes of image f, whose frame has a header of eight bytes.
Part(f, n) == [k \in 0 .. n - 1 |-> <<f, k + 8>>]
Whole(f) == Size[f] + 2

Nothing == file = NoFile /\ got = 0 /\ image = Part(NoFile, 0) /\ entry = 0

Init == state = "idle" /\ Nothing

\* The first packet never completes a download, not even with all there is in it.
Begin(f) ==
    /\ state = "idle" /\ state' = "receiving"
    /\ Size[f] > 0 /\ file' = f
    /\ got' \in 1 .. Whole(f) /\ image' = Part(f, got')
    /\ UNCHANGED entry

Receive ==
    /\ state = "receiving"
    /\ got' \in got + 1 .. Whole(file) /\ image' = Part(file, got')
    /\ state' = IF got' = Whole(file) THEN "complete" ELSE "receiving"
    /\ UNCHANGED <<file, entry>>

\* A new enumeration.
Forget == state = "receiving" /\ state' = "idle" /\ Nothing'

Run ==
    /\ state = "complete" /\ state' = "running"
    /\ entry' = DlAddr
    /\ UNCHANGED <<file, got, image>>

\* No cable, no download.
TurnOff == state = "idle" /\ state' = "off" /\ UNCHANGED <<file, got, image, entry>>

\* A transfer on top of another, a packet that survives a reset of the bus; the
\* next enumeration puts an end to it.
Disturb ==
    /\ state \in {"idle", "receiving", "complete"} /\ state' = "adrift"
    /\ Nothing'
Recover == state = "adrift" /\ state' = "idle" /\ Nothing'

Next ==
    \/ \E f \in Files : Begin(f)
    \/ Receive \/ Forget \/ Run \/ TurnOff \/ Disturb \/ Recover

Spec == Init /\ [][Next]_vars
=============================================================================
