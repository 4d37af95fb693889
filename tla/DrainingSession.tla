-------------------------- MODULE DrainingSession --------------------------
(***************************************************************************)
(* What ContainerSession promises in its class comment: operations are     *)
(* accepted until close() takes effect, every accepted operation runs on   *)
(* the open native session, and the native keys are destroyed only after   *)
(* the last of them.                                                       *)
(***************************************************************************)
CONSTANT Calls

VARIABLES stage,     \* "open", "closing", "destroyed"
          accepted,  \* operations accepted and not yet run
          ran        \* operations that ran on the open native session

vars == <<stage, accepted, ran>>

Init == stage = "open" /\ accepted = {} /\ ran = {}

Accept(c) ==
    /\ stage # "destroyed"
    /\ c \notin accepted \cup ran
    /\ accepted' = accepted \cup {c}
    /\ UNCHANGED <<stage, ran>>

Run(c) ==
    /\ stage # "destroyed"
    /\ c \in accepted
    /\ accepted' = accepted \ {c}
    /\ ran' = ran \cup {c}
    /\ UNCHANGED stage

StartClose ==
    /\ stage = "open"
    /\ stage' = "closing"
    /\ UNCHANGED <<accepted, ran>>

Destroy ==
    /\ stage = "closing" /\ accepted = {}
    /\ stage' = "destroyed"
    /\ UNCHANGED <<accepted, ran>>

Next == StartClose \/ Destroy \/ \E c \in Calls : Accept(c) \/ Run(c)

SafeSpec == Init /\ [][Next]_vars

(* Accepted work runs, and a session that is being closed is destroyed. *)
Spec == SafeSpec /\ WF_vars(Destroy) /\ \A c \in Calls : WF_vars(Run(c))
=============================================================================
