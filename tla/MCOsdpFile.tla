----------------------------- MODULE MCOsdpFile -----------------------------
(* Instances of OsdpFile for TLC: two files, the last chunk of each shorter than the rest. *)
EXTENDS OsdpFile, TLC

CONSTANTS f, g
MCSize == (f :> 3 @@ g :> 5)
=============================================================================
