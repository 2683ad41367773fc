------------------------------- MODULE MCEp0 -------------------------------
(* The sizes of the driver.  What a host asks for at first (64 bytes), then  *)
(* (9 and all), a length that ends inside a packet and one that ends with   *)
(* one, and lengths that the driver does not heed.                          *)
EXTENDS Ep0, TLC

MCSize == [d \in Descriptors |->
    CASE d = "dev" -> 18 [] d = "cfg" -> 32 [] d = "cfgonly" -> 9
      [] d = "str1" -> 22 [] d = "str2" -> 44 [] d = "str0" -> 4
      [] d \in {"ep1", "ep2"} -> 7 [] d = "byte" -> 1
      [] d = "qual" -> 10 [] d = "other" -> 32]

\* ep1 stands for the answers that are always one packet.
MCRequests ==
    [kind: {"dev"}, len: {11, 64}]
    \union [kind: {"cfg"}, len: {9, 32, 255}]
    \union [kind: {"str2"}, len: {255}] \union [kind: {"str1"}, len: {2}]
    \union [kind: {"ep1"}, len: {7}] \union [kind: {"getconf"}, len: {1}]
    \union [kind: {"qual"}, len: {8}] \union [kind: {"other"}, len: {9, 11}]
    \union [kind: {"setconf", "nodata"}, len: {0}]
=============================================================================
