------------------------- MODULE MCContainerStreams -------------------------
(* Small instances of ContainerStreams. *)
EXTENDS ContainerStreams
=============================================================================
