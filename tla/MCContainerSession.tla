------------------------- MODULE MCContainerSession -------------------------
(* Small instances of ContainerSession. *)
EXTENDS ContainerSession
=============================================================================
