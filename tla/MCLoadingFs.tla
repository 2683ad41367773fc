---------------------------- MODULE MCLoadingFs ----------------------------
(* Trees of two and three reads. *)
EXTENDS LoadingFs

MCReads == ("homefs" :> 3) @@ ("rootfs" :> 2)
=============================================================================
