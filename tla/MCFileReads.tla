---------------------------- MODULE MCFileReads ----------------------------
(* Small volumes for FileReads. *)
EXTENDS FileReads
=============================================================================
