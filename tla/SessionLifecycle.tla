-------------------------- MODULE SessionLifecycle --------------------------
(***************************************************************************)
(* What the native session store promises its callers, without threads,    *)
(* mutexes, descriptors or key copies.                                     *)
(*                                                                         *)
(* A session is created on one container, may serve plaintext of exactly   *)
(* that container, is retired when nativeClose removes its handle (calls   *)
(* already accepted may still be served), and is finally destroyed: from   *)
(* then on nothing is served and nothing of the container is kept.         *)
(***************************************************************************)

CONSTANTS Sessions,    \* ManagedSession allocations
          Containers,  \* container files
          Threads,     \* JNI callers
          None

VARIABLES life,        \* stage of each session
          container,   \* container whose keys the session keeps, or None
          served       \* container whose plaintext a caller is being handed

vars == <<life, container, served>>

Stages == {"absent", "open", "draining", "destroyed"}

TypeOK ==
    /\ life \in [Sessions -> Stages]
    /\ container \in [Sessions -> Containers \cup {None}]
    /\ served \in [Threads -> Containers \cup {None}]

Init ==
    /\ life = [s \in Sessions |-> "absent"]
    /\ container = [s \in Sessions |-> None]
    /\ served = [t \in Threads |-> None]

Create(s, c) ==
    /\ life[s] = "absent"
    /\ life' = [life EXCEPT ![s] = "open"]
    /\ container' = [container EXCEPT ![s] = c]
    /\ UNCHANGED served

Serve(t, s) ==
    /\ life[s] \in {"open", "draining"}
    /\ served' = [served EXCEPT ![t] = container[s]]
    /\ UNCHANGED <<life, container>>

EndServe(t) ==
    /\ served' = [served EXCEPT ![t] = None]
    /\ UNCHANGED <<life, container>>

Retire(s) ==
    /\ life[s] = "open"
    /\ life' = [life EXCEPT ![s] = "draining"]
    /\ UNCHANGED <<container, served>>

Destroy(s) ==
    /\ life[s] = "draining"
    /\ life' = [life EXCEPT ![s] = "destroyed"]
    /\ container' = [container EXCEPT ![s] = None]
    /\ UNCHANGED served

Next ==
    \/ \E s \in Sessions, c \in Containers : Create(s, c)
    \/ \E t \in Threads, s \in Sessions : Serve(t, s)
    \/ \E t \in Threads : EndServe(t)
    \/ \E s \in Sessions : Retire(s) \/ Destroy(s)

(* A retired session is destroyed: closing never leaves keys behind. *)
Fairness == \A s \in Sessions : WF_vars(Destroy(s))

Spec == Init /\ [][Next]_vars /\ Fairness
SafeSpec == Init /\ [][Next]_vars
=============================================================================
