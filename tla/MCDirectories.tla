--------------------------- MODULE MCDirectories ---------------------------
(* Small volumes for Directories: the root in cluster 2, further directories in
   clusters 3 and 4. The entries are those that a listing keeps: on exFAT,
   exfat_stream_extent_is_plausible has passed them. *)
EXTENDS Directories

Dir(n, c, flat, len) ==
    [name |-> n, dir |-> TRUE, first |-> c, flat |-> flat, len |-> len]
File(n) == [name |-> n, dir |-> FALSE, first |-> 3, flat |-> FALSE, len |-> 1]

(* Nothing or one of the entries, with an end marker behind it or without. *)
Holding(entries) ==
    {[entries |-> s, last |-> e] :
        s \in {<<>>} \cup {<<x>> : x \in entries}, e \in BOOLEAN}

FileAt4 == {[entries |-> <<File("a")>>, last |-> e] : e \in BOOLEAN}

MCContents ==
    [fat32 |-> <<{},
                 Holding({Dir("a", 3, FALSE, 0), Dir("a", 0, FALSE, 0),
                          Dir("a", EndOfChain, FALSE, 0), File("a")}),
                 Holding({Dir("a", 4, FALSE, 0), File("a"), File("b")}),
                 FileAt4>>,
     exfat |-> <<{},
                 Holding({Dir("a", 3, TRUE, 1), Dir("a", 3, TRUE, 2),
                          Dir("a", 3, FALSE, 1)}),
                 Holding({File("a"), Dir("a", 4, TRUE, 0)}),
                 FileAt4>>]

MCBitmaps == {Clusters, Clusters \ {4}}
MCPaths == {<<>>, <<"a">>, <<"a", "a">>}
=============================================================================
