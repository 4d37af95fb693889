--------------------------- MODULE MCFileExplorer ---------------------------
(* A folder d in the root, with a file of two chunks and a folder e, which holds
   an empty file. *)
EXTENDS FileExplorer

MCChildren == [x \in Folders |-> CASE x = Root -> <<"d">> [] x = "d" -> <<"e", "g">>
                                   [] x = "e" -> <<"h">>]
MCSize == [x \in Files |-> IF x = "g" THEN 2 ELSE 0]
=============================================================================
