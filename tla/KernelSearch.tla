---------------------------- MODULE KernelSearch ----------------------------
(***************************************************************************)
(* What the second phase of Qi promises (README, "Booting Heuristics"):    *)
(* the kernel sources are visited in order, each once, and the first       *)
(* viable kernel is started.  A source whose reads failed is spoiled: it   *)
(* may be passed over or be started all the same, and the promise for the  *)
(* other sources stands.                                                   *)
(***************************************************************************)
EXTENDS Integers

CONSTANT N          \* SD card partitions; source 0 is USB

VARIABLES
    viable,         \* the partitions with a kernel that should be started
    spoiled,        \* the partitions a read error fell on
    at,             \* the source being tried
    outcome

vars == <<viable, spoiled, at, outcome>>

Init ==
    /\ viable \in SUBSET (1 .. N)
    /\ spoiled = {}
    /\ at = 0
    /\ outcome = "searching"

\* A read error can only fall on the source being tried.
MaySpoil == spoiled' \in {spoiled, spoiled \union {at}}

Pass ==
    /\ outcome = "searching"
    /\ MaySpoil
    /\ at \notin viable \ spoiled'
    /\ at' = at + 1
    /\ outcome' = IF at = N THEN "none" ELSE "searching"
    /\ UNCHANGED viable

Spoil ==
    /\ outcome = "searching"
    /\ MaySpoil
    /\ UNCHANGED <<viable, at, outcome>>

Start ==
    /\ outcome = "searching"
    /\ MaySpoil
    /\ at \in viable \union spoiled'
    /\ outcome' = "started"
    /\ UNCHANGED <<viable, at>>

\* The USB source waits for a download and runs it.
Download ==
    /\ outcome = "searching" /\ at = 0
    /\ outcome' = "download"
    /\ UNCHANGED <<viable, spoiled, at>>

\* The pool of malloc is used up.
Hang ==
    /\ outcome = "searching"
    /\ outcome' = "hung"
    /\ UNCHANGED <<viable, spoiled, at>>

Next == Pass \/ Spoil \/ Start \/ Download \/ Hang

Spec == Init /\ [][Next]_vars
=============================================================================
