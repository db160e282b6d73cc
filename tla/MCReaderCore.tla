---------------------------- MODULE MCReaderCore ----------------------------
(* Instances of ReaderCore for TLC. *)
EXTENDS ReaderCore

MCOsdpOnly == <<"osdp">>
=============================================================================
