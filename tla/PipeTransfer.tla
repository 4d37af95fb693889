---------------------------- MODULE PipeTransfer ----------------------------
(***************************************************************************)
(* What a client of openDocument or openFile may rely on: it receives a    *)
(* prefix of the file through the reliable pipe, in chunks, and the pipe   *)
(* ends once: clean after the whole file, or with an error.                *)
(***************************************************************************)
EXTENDS Naturals

CONSTANTS Streams, Chunks

VARIABLES sent, got, end

vars == <<sent, got, end>>

Init ==
    /\ sent = [s \in Streams |-> 0] /\ got = [s \in Streams |-> 0]
    /\ end = [s \in Streams |-> "open"]

Send(s) ==
    /\ end[s] = "open" /\ sent[s] < Chunks
    /\ sent' = [sent EXCEPT ![s] = @ + 1]
    /\ UNCHANGED <<got, end>>

Receive(s) ==
    /\ got[s] < sent[s]
    /\ got' = [got EXCEPT ![s] = @ + 1]
    /\ UNCHANGED <<sent, end>>

Finish(s) ==
    /\ end[s] = "open" /\ sent[s] = Chunks
    /\ end' = [end EXCEPT ![s] = "clean"]
    /\ UNCHANGED <<sent, got>>

(* A cancellation that reaches several streams fails them one by one. *)
Fail(s) ==
    /\ end[s] = "open"
    /\ end' = [end EXCEPT ![s] = "error"]
    /\ UNCHANGED <<sent, got>>

Next == \E s \in Streams : Send(s) \/ Receive(s) \/ Finish(s) \/ Fail(s)

SafeSpec == Init /\ [][Next]_vars
=============================================================================
