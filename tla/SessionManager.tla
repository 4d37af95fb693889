--------------------------- MODULE SessionManager ---------------------------
(***************************************************************************)
(* ContainerSessionManager of ContainerSession.kt as MainActivity and      *)
(* VeraCryptDocumentsProvider use it: background threads open containers,  *)
(* the main thread mounts what they opened, anybody may unmount, and       *)
(* queries look the mounted session up.                                    *)
(*                                                                         *)
(* An element of Opens is one attempt to open a container and stands for   *)
(* its background thread, for the runnable it posts and for the session    *)
(* it creates. Unmounts and Lookups are calls on threads of their own. A   *)
(* session is what ContainerSession promises: close() sets the flag once,  *)
(* and its winner waits until the worker has destroyed the native session. *)
(***************************************************************************)
EXTENDS Naturals, Sequences, FiniteSets

CONSTANTS Opens, Unmounts, Lookups, None

ASSUME CallsAssumption ==
    /\ Opens \cap Unmounts = {} /\ Opens \cap Lookups = {}
    /\ None \notin Opens \cup Unmounts \cup Lookups

VARIABLES native,   \* per session: "absent", "open", "destroyed"
          closed,   \* per session: its AtomicBoolean
          active,   \* the AtomicReference
          pc,       \* per open and per unmount
          outcome,  \* per open: the SessionOpenResult
          old,      \* per open and per unmount: result of getAndSet
          main,     \* runnables posted to the main thread
          lookPc, seen, answer,  \* per lookup: place, active.get(), result
          during    \* history, per lookup: values of active since it began

sessionVars == <<native, closed>>
callVars == <<pc, outcome, old, main>>
lookVars == <<lookPc, seen, answer, during>>
vars == <<sessionVars, active, callVars, lookVars>>

Swappers == Opens \cup Unmounts

TypeOK ==
    /\ native \in [Opens -> {"absent", "open", "destroyed"}]
    /\ closed \in [Opens -> BOOLEAN]
    /\ active \in Opens \cup {None}
    /\ pc \in [Swappers -> {"idle", "probe", "reject", "rejected", "post", "posted",
                            "require", "swap", "close", "await", "done"}]
    /\ outcome \in [Opens -> {"none", "success", "failure"}]
    /\ old \in [Swappers -> Opens \cup {None}]
    /\ \A c \in Swappers : pc[c] \in {"close", "await"} => old[c] # None
    /\ main \in Seq(Opens)
    /\ lookPc \in [Lookups -> {"idle", "check", "done"}]
    /\ seen \in [Lookups -> Opens \cup {None}]
    /\ answer \in [Lookups -> Opens \cup {None}]
    /\ during \in [Lookups -> SUBSET (Opens \cup {None})]

Init ==
    /\ native = [s \in Opens |-> "absent"]
    /\ closed = [s \in Opens |-> FALSE]
    /\ active = None
    /\ pc = [c \in Swappers |-> "idle"]
    /\ outcome = [o \in Opens |-> "none"]
    /\ old = [c \in Swappers |-> None]
    /\ main = <<>>
    /\ lookPc = [l \in Lookups |-> "idle"]
    /\ seen = [l \in Lookups |-> None] /\ answer = [l \in Lookups |-> None]
    /\ during = [l \in Lookups |-> {}]

Goto(c, from, to) == pc[c] = from /\ pc' = [pc EXCEPT ![c] = to]

isOpen(s) == ~closed[s] /\ native[s] = "open"

(* active takes a new value, which the lookups under way live through. *)
Expose(s) ==
    /\ active' = s
    /\ during' = [l \in Lookups |->
                    IF lookPc[l] = "check" THEN during[l] \cup {s} ELSE during[l]]
    /\ UNCHANGED <<lookPc, seen, answer>>

-----------------------------------------------------------------------------
(* The thread of an open *)

(* nativeOpen: a handle and its session, or one of the error codes. *)
NativeOpen(o) ==
    /\ \/ /\ Goto(o, "idle", "probe")
          /\ native' = [native EXCEPT ![o] = "open"]
          /\ UNCHANGED outcome
       \/ /\ Goto(o, "idle", "post")
          /\ outcome' = [outcome EXCEPT ![o] = "failure"]
          /\ UNCHANGED native
    /\ UNCHANGED <<closed, active, old, main, lookVars>>

(* fileSystemType() of the new session: FAT32 or exFAT, or anything else. *)
Probe(o) ==
    /\ \/ /\ Goto(o, "probe", "post")
          /\ outcome' = [outcome EXCEPT ![o] = "success"]
       \/ /\ Goto(o, "probe", "reject")
          /\ UNCHANGED outcome
    /\ UNCHANGED <<sessionVars, active, old, main, lookVars>>

(* An unsupported file system that is reported with the session left open. *)
RejectUnclosed(o) ==
    /\ Goto(o, "reject", "rejected")
    /\ UNCHANGED <<sessionVars, active, outcome, old, main, lookVars>>

(* session.close() on an unsupported file system. *)
Reject(o) ==
    /\ Goto(o, "reject", "rejected")
    /\ closed' = [closed EXCEPT ![o] = TRUE]
    /\ UNCHANGED <<native, active, outcome, old, main, lookVars>>

Rejected(o) ==
    /\ Goto(o, "rejected", "post")
    /\ closed[o] => native[o] = "destroyed"
    /\ outcome' = [outcome EXCEPT ![o] = "failure"]
    /\ UNCHANGED <<sessionVars, active, old, main, lookVars>>

(* runOnUiThread *)
Post(o) ==
    /\ Goto(o, "post", "posted")
    /\ main' = Append(main, o)
    /\ UNCHANGED <<sessionVars, active, outcome, old, lookVars>>

-----------------------------------------------------------------------------
(* The main thread runs one runnable at a time, the head of main *)

Runs(o) == main # <<>> /\ Head(main) = o

(* Success mounts the session, any other result is shown. *)
Handle(o) ==
    /\ Runs(o)
    /\ Goto(o, "posted", IF outcome[o] = "success" THEN "require" ELSE "done")
    /\ main' = IF outcome[o] = "success" THEN main ELSE Tail(main)
    /\ UNCHANGED <<sessionVars, active, outcome, old, lookVars>>

(* require(session.isOpen) of activate; a closed session is refused. *)
Require(o) ==
    /\ Goto(o, "require", IF isOpen(o) THEN "swap" ELSE "done")
    /\ main' = IF isOpen(o) THEN main ELSE Tail(main)
    /\ UNCHANGED <<sessionVars, active, outcome, old, lookVars>>

(* active is set; the session that was there is forgotten. *)
MountForgets(o) ==
    /\ Goto(o, "swap", "done")
    /\ Expose(o)
    /\ main' = Tail(main)
    /\ UNCHANGED <<sessionVars, outcome, old>>

(* active.getAndSet(session)?.takeIf { it !== session } *)
Mount(o) ==
    /\ Goto(o, "swap", IF active \in {None, o} THEN "done" ELSE "close")
    /\ Expose(o)
    /\ old' = [old EXCEPT ![o] = active]
    /\ main' = IF active \in {None, o} THEN Tail(main) ELSE main
    /\ UNCHANGED <<sessionVars, outcome>>

-----------------------------------------------------------------------------
(* unmount, and the close() of the session that was active *)

(* The session is closed before the reference is cleared. *)
UnmountCloseFirst(u) ==
    /\ Goto(u, "idle", IF active = None THEN "done" ELSE "close")
    /\ old' = [old EXCEPT ![u] = active]
    /\ UNCHANGED <<sessionVars, active, outcome, main, lookVars>>

(* active.getAndSet(null) *)
Unmount(u) ==
    /\ Goto(u, "idle", IF active = None THEN "done" ELSE "close")
    /\ Expose(None)
    /\ old' = [old EXCEPT ![u] = active]
    /\ UNCHANGED <<sessionVars, outcome, main>>

Return(c) == main' = IF c \in Opens THEN Tail(main) ELSE main

(* ?.close(): the call that sets the flag waits for the worker, another one
   returns at once. *)
CloseOld(c) ==
    /\ Goto(c, "close", IF closed[old[c]] THEN "done" ELSE "await")
    /\ IF closed[old[c]] THEN Return(c) ELSE UNCHANGED main
    /\ closed' = [closed EXCEPT ![old[c]] = TRUE]
    /\ UNCHANGED <<native, active, outcome, old, lookVars>>

(* A destruction that has to be run by the main thread. *)
AwaitOnMain(c) ==
    /\ Goto(c, "await", "done")
    /\ native[old[c]] = "destroyed" /\ main = <<>>
    /\ UNCHANGED <<sessionVars, active, outcome, old, main, lookVars>>

AwaitOld(c) ==
    /\ Goto(c, "await", "done")
    /\ native[old[c]] = "destroyed"
    /\ Return(c)
    /\ UNCHANGED <<sessionVars, active, outcome, old, lookVars>>

(* The worker of a session that is being closed. *)
Destroy(s) ==
    /\ closed[s] /\ native[s] = "open"
    /\ native' = [native EXCEPT ![s] = "destroyed"]
    /\ UNCHANGED <<closed, active, callVars, lookVars>>

-----------------------------------------------------------------------------
(* currentOrNull *)

LookupGet(l) ==
    /\ lookPc[l] = "idle"
    /\ lookPc' = [lookPc EXCEPT ![l] = IF active = None THEN "done" ELSE "check"]
    /\ seen' = [seen EXCEPT ![l] = active]
    /\ during' = [during EXCEPT ![l] = {active}]
    /\ UNCHANGED <<sessionVars, active, callVars, answer>>

(* takeIf { it.isOpen } *)
LookupCheck(l) ==
    /\ lookPc[l] = "check"
    /\ lookPc' = [lookPc EXCEPT ![l] = "done"]
    /\ answer' = [answer EXCEPT ![l] = IF isOpen(seen[l]) THEN seen[l] ELSE None]
    /\ UNCHANGED <<sessionVars, active, callVars, seen, during>>

-----------------------------------------------------------------------------
OpenStep(o) ==
    \/ Probe(o) \/ Reject(o) \/ Rejected(o) \/ Post(o)
    \/ Handle(o) \/ Require(o) \/ Mount(o)
CloseStep(c) == CloseOld(c) \/ AwaitOld(c)

Next ==
    \/ \E o \in Opens : NativeOpen(o) \/ OpenStep(o) \/ Destroy(o)
    \/ \E u \in Unmounts : Unmount(u)
    \/ \E c \in Swappers : CloseStep(c)
    \/ \E l \in Lookups : LookupGet(l) \/ LookupCheck(l)

SafeSpec == Init /\ [][Next]_vars

(* Threads and the session worker go on once they have begun. *)
Fairness ==
    /\ \A o \in Opens : WF_vars(OpenStep(o)) /\ WF_vars(Destroy(o))
    /\ \A c \in Swappers : WF_vars(CloseStep(c))

Spec == SafeSpec /\ Fairness

-----------------------------------------------------------------------------
(* Properties *)

(* The session that is mounted is never a closed one. A query is therefore told
   that there is none only if none was mounted at some moment of its call, or
   if the one it saw was replaced under it. *)
MountedIsOpen ==
    /\ active # None => isOpen(active)
    /\ \A l \in Lookups : lookPc[l] = "done" =>
          /\ answer[l] \in during[l] \cup {None}
          /\ answer[l] = None => None \in during[l] \/ during[l] # {seen[l]}

(* With no open, mount or unmount under way, the keys of the mounted container
   are the only ones in memory. *)
Quiet == \A c \in Swappers : pc[c] \in {"idle", "done"}
KeysOnlyOfMounted ==
    Quiet => \A s \in Opens : native[s] = "open" => active = s

(* A successful open is mounted sooner or later, on a main thread that may be
   waiting for the destruction of an earlier session; a session that was
   replaced or unmounted is destroyed. *)
SuccessIsMounted == \A o \in Opens :
    (outcome[o] = "success" /\ pc[o] = "post") ~> (active = o)
ReplacedIsDestroyed ==
    \A o \in Opens : (pc[o] = "done" /\ outcome[o] = "success" /\ active # o)
                        ~> (native[o] = "destroyed")
=============================================================================
