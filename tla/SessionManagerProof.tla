------------------------ MODULE SessionManagerProof ------------------------
(***************************************************************************)
(* Proofs about SessionManager for any number of opens, unmounts and       *)
(* lookups. KeysOnlyOfMounted speaks of quiet moments only; the invariant  *)
(* says at every moment who answers for a session whose keys are in        *)
(* memory: the reference, the thread that opened it, or a thread that has  *)
(* taken it out of the reference and is about to close it or waits for     *)
(* its destruction.                                                        *)
(***************************************************************************)
EXTENDS SessionManager, TLAPS

(* The open s has not come to the getAndSet of activate. *)
Before(s) == pc[s] \in {"idle", "probe", "reject", "rejected", "post", "posted",
                        "require", "swap"}

(* The thread of s, or its runnable, holds an open session. *)
Holds(s) ==
    \/ pc[s] \in {"probe", "reject", "require", "swap"}
    \/ pc[s] \in {"post", "posted"} /\ outcome[s] = "success"

(* Unclosed keys have an owner. *)
Owned == \A s \in Opens : native[s] = "open" /\ ~closed[s] =>
    \/ active = s
    \/ Holds(s)
    \/ \E c \in Swappers : pc[c] = "close" /\ old[c] = s

(* Keys that are being destroyed have somebody who waits for it. *)
Awaited == \A s \in Opens : native[s] = "open" /\ closed[s] =>
    \/ pc[s] = "rejected"
    \/ \E c \in Swappers : pc[c] = "await" /\ old[c] = s

(* The mounted session is open, has been mounted, and nobody closes it. *)
Mounted == \A s \in Opens : active = s =>
    /\ native[s] = "open" /\ ~closed[s]
    /\ ~Before(s)
    /\ \A c \in Swappers : pc[c] \in {"close", "await"} => old[c] # s

(* Nobody knows a session that was never mounted. *)
Fresh == \A s \in Opens : Before(s) => \A c \in Swappers : old[c] # s

(* What each place of an open means for its session. *)
Places == \A s \in Opens :
    /\ pc[s] = "idle" => native[s] = "absent" /\ ~closed[s]
    /\ Holds(s) => native[s] = "open" /\ ~closed[s]
    /\ pc[s] = "rejected" => closed[s]
    /\ pc[s] \in {"post", "posted"} /\ outcome[s] # "success" => native[s] # "open"

(* The main thread is in the runnable at the head of its queue. *)
OnMain == \A s \in Opens :
    pc[s] \in {"require", "swap", "close", "await"} => main # <<>> /\ Head(main) = s

(* A lookup has seen every value of the reference since it began. *)
Looking == \A l \in Lookups :
    /\ lookPc[l] = "idle" => answer[l] = None
    /\ lookPc[l] = "check" =>
          seen[l] # None /\ seen[l] \in during[l] /\ active \in during[l]
    /\ lookPc[l] = "done" =>
          /\ answer[l] \in during[l] \cup {None}
          /\ answer[l] = None => None \in during[l] \/ during[l] # {seen[l]}

IInv == TypeOK /\ Owned /\ Awaited /\ Mounted /\ Fresh /\ Places /\ OnMain /\ Looking

LEMMA NativeOpenStep == ASSUME IInv, NEW o \in Opens, NativeOpen(o) PROVE IInv'
<1>1. TypeOK'
  <2>1. native' \in [Opens -> {"absent", "open", "destroyed"}]
    BY DEF IInv, TypeOK, NativeOpen
  <2>2. outcome' \in [Opens -> {"none", "success", "failure"}]
    BY DEF IInv, TypeOK, NativeOpen
  <2>3. UNCHANGED <<closed, active, old, main, lookPc, seen, answer, during>>
    BY DEF NativeOpen, lookVars
  <2>4. pc' = [pc EXCEPT ![o] = "probe"] \/ pc' = [pc EXCEPT ![o] = "post"]
    BY DEF NativeOpen, Goto
  <2> QED BY <2>1, <2>2, <2>3, <2>4 DEF IInv, TypeOK, Swappers
<1>2. Owned'
    BY DEF IInv, TypeOK, Owned, Holds, Swappers, NativeOpen, Goto
<1>3. Awaited'
    BY DEF IInv, TypeOK, Awaited, Places, Holds, Swappers, NativeOpen, Goto
<1>4. Mounted'
    BY DEF IInv, TypeOK, Mounted, Before, Swappers, NativeOpen, Goto
<1>5. Fresh'
    BY DEF IInv, TypeOK, Fresh, Before, Swappers, NativeOpen, Goto
<1>6. Places'
    BY DEF IInv, TypeOK, Places, Holds, Swappers, NativeOpen, Goto
<1>7. OnMain'
    BY DEF IInv, TypeOK, OnMain, Swappers, NativeOpen, Goto
<1>8. Looking'
    BY DEF IInv, TypeOK, Looking, Swappers, NativeOpen, Goto, lookVars
<1> QED BY <1>1, <1>2, <1>3, <1>4, <1>5, <1>6, <1>7, <1>8 DEF IInv

LEMMA ProbeStep == ASSUME IInv, NEW o \in Opens, Probe(o) PROVE IInv'
<1>1. TypeOK'
    BY DEF IInv, TypeOK, Swappers, Probe, Goto, lookVars, sessionVars
<1>2. Owned'
    BY DEF IInv, TypeOK, Owned, Holds, Swappers, Probe, Goto, sessionVars
<1>3. Awaited'
    BY DEF IInv, TypeOK, Awaited, Swappers, Probe, Goto, sessionVars
<1>4. Mounted'
    BY DEF IInv, TypeOK, Mounted, Before, Swappers, Probe, Goto, sessionVars
<1>5. Fresh'
    BY DEF IInv, TypeOK, Fresh, Before, Swappers, Probe, Goto, sessionVars
<1>6. Places'
    BY DEF IInv, TypeOK, Places, Holds, Swappers, Probe, Goto, sessionVars
<1>7. OnMain'
    BY DEF IInv, TypeOK, OnMain, Swappers, Probe, Goto, sessionVars
<1>8. Looking'
    BY DEF IInv, TypeOK, Looking, Swappers, Probe, Goto, lookVars, sessionVars
<1> QED BY <1>1, <1>2, <1>3, <1>4, <1>5, <1>6, <1>7, <1>8 DEF IInv

LEMMA RejectStep == ASSUME IInv, NEW o \in Opens, Reject(o) PROVE IInv'
<1>1. TypeOK'
    BY DEF IInv, TypeOK, Swappers, Reject, Goto, lookVars
<1>2. Owned'
    BY DEF IInv, TypeOK, Owned, Holds, Swappers, Reject, Goto
<1>3. Awaited'
    BY DEF IInv, TypeOK, Awaited, Swappers, Reject, Goto
<1>4. Mounted'
    BY DEF IInv, TypeOK, Mounted, Before, Swappers, Reject, Goto
<1>5. Fresh'
    BY DEF IInv, TypeOK, Fresh, Before, Swappers, Reject, Goto
<1>6. Places'
    BY DEF IInv, TypeOK, Places, Holds, Swappers, Reject, Goto
<1>7. OnMain'
    BY DEF IInv, TypeOK, OnMain, Swappers, Reject, Goto
<1>8. Looking'
    BY DEF IInv, TypeOK, Looking, Swappers, Reject, Goto, lookVars
<1> QED BY <1>1, <1>2, <1>3, <1>4, <1>5, <1>6, <1>7, <1>8 DEF IInv

LEMMA RejectedStep == ASSUME IInv, NEW o \in Opens, Rejected(o) PROVE IInv'
<1>1. TypeOK'
    BY DEF IInv, TypeOK, Swappers, Rejected, Goto, lookVars, sessionVars
<1>2. Owned'
    BY DEF IInv, TypeOK, Owned, Holds, Swappers, Rejected, Goto, sessionVars
<1>3. Awaited'
    BY DEF IInv, TypeOK, Awaited, Swappers, Rejected, Goto, sessionVars
<1>4. Mounted'
    BY DEF IInv, TypeOK, Mounted, Before, Swappers, Rejected, Goto, sessionVars
<1>5. Fresh'
    BY DEF IInv, TypeOK, Fresh, Before, Swappers, Rejected, Goto, sessionVars
<1>6. Places'
    BY DEF IInv, TypeOK, Places, Holds, Swappers, Rejected, Goto, sessionVars
<1>7. OnMain'
    BY DEF IInv, TypeOK, OnMain, Swappers, Rejected, Goto, sessionVars
<1>8. Looking'
    BY DEF IInv, TypeOK, Looking, Swappers, Rejected, Goto, lookVars, sessionVars
<1> QED BY <1>1, <1>2, <1>3, <1>4, <1>5, <1>6, <1>7, <1>8 DEF IInv

LEMMA PostStep == ASSUME IInv, NEW o \in Opens, Post(o) PROVE IInv'
<1>1. TypeOK'
    BY DEF IInv, TypeOK, Swappers, Post, Goto, lookVars, sessionVars
<1>2. Owned'
    BY DEF IInv, TypeOK, Owned, Holds, Swappers, Post, Goto, sessionVars
<1>3. Awaited'
    BY DEF IInv, TypeOK, Awaited, Swappers, Post, Goto, sessionVars
<1>4. Mounted'
    BY DEF IInv, TypeOK, Mounted, Before, Swappers, Post, Goto, sessionVars
<1>5. Fresh'
    BY DEF IInv, TypeOK, Fresh, Before, Swappers, Post, Goto, sessionVars
<1>6. Places'
    BY DEF IInv, TypeOK, Places, Holds, Swappers, Post, Goto, sessionVars
<1>7. OnMain'
    BY DEF IInv, TypeOK, OnMain, Swappers, Post, Goto, sessionVars
<1>8. Looking'
    BY DEF IInv, TypeOK, Looking, Swappers, Post, Goto, lookVars, sessionVars
<1> QED BY <1>1, <1>2, <1>3, <1>4, <1>5, <1>6, <1>7, <1>8 DEF IInv

LEMMA HandleStep == ASSUME IInv, NEW o \in Opens, Handle(o) PROVE IInv'
<1>1. TypeOK'
    BY DEF IInv, TypeOK, Swappers, Handle, Goto, Runs, lookVars, sessionVars
<1>2. Owned'
    BY DEF IInv, TypeOK, Owned, Places, Holds, Swappers, Handle, Goto, Runs,
       sessionVars
<1>3. Awaited'
    BY DEF IInv, TypeOK, Awaited, Swappers, Handle, Goto, Runs, sessionVars
<1>4. Mounted'
    BY DEF IInv, TypeOK, Mounted, Before, Swappers, Handle, Goto, Runs,
       sessionVars
<1>5. Fresh'
    BY DEF IInv, TypeOK, Fresh, Before, Swappers, Handle, Goto, Runs, sessionVars
<1>6. Places'
    BY DEF IInv, TypeOK, Places, Holds, Swappers, Handle, Goto, Runs, sessionVars
<1>7. OnMain'
    BY DEF IInv, TypeOK, OnMain, Swappers, Handle, Goto, Runs, sessionVars
<1>8. Looking'
    BY DEF IInv, TypeOK, Looking, Swappers, Handle, Goto, Runs, lookVars,
       sessionVars
<1> QED BY <1>1, <1>2, <1>3, <1>4, <1>5, <1>6, <1>7, <1>8 DEF IInv

LEMMA RequireStep == ASSUME IInv, NEW o \in Opens, Require(o) PROVE IInv'
<1>1. TypeOK'
    BY DEF IInv, TypeOK, OnMain, Swappers, Require, Goto, isOpen, lookVars,
       sessionVars
<1>2. Owned'
    BY DEF IInv, TypeOK, Owned, Places, Holds, Swappers, Require, Goto, isOpen,
       sessionVars
<1>3. Awaited'
    BY DEF IInv, TypeOK, Awaited, Swappers, Require, Goto, isOpen, sessionVars
<1>4. Mounted'
    BY DEF IInv, TypeOK, Mounted, Before, Swappers, Require, Goto, isOpen,
       sessionVars
<1>5. Fresh'
    BY DEF IInv, TypeOK, Fresh, Before, Swappers, Require, Goto, isOpen,
       sessionVars
<1>6. Places'
    BY DEF IInv, TypeOK, Places, Holds, Swappers, Require, Goto, isOpen,
       sessionVars
<1>7. OnMain'
    BY DEF IInv, TypeOK, OnMain, Swappers, Require, Goto, isOpen, sessionVars
<1>8. Looking'
    BY DEF IInv, TypeOK, Looking, Swappers, Require, Goto, isOpen, lookVars,
       sessionVars
<1> QED BY <1>1, <1>2, <1>3, <1>4, <1>5, <1>6, <1>7, <1>8 DEF IInv

LEMMA MountStep == ASSUME IInv, NEW o \in Opens, Mount(o) PROVE IInv'
<1>1. TypeOK'
    BY DEF IInv, TypeOK, OnMain, Swappers, Mount, Goto, Expose, sessionVars
<1>2. Owned'
  <2> SUFFICES ASSUME NEW s \in Opens, native'[s] = "open" /\ ~closed'[s], s # o
               PROVE  \/ Holds(s)'
                      \/ \E c \in Swappers : pc'[c] = "close" /\ old'[c] = s
    BY DEF Owned, Mount, Expose
  <2>1. CASE active = s
    <3>1. pc'[o] = "close" /\ old'[o] = s
      BY <2>1, CallsAssumption DEF IInv, TypeOK, Swappers, Mount, Goto
    <3> QED BY <3>1 DEF Swappers
  <2>2. CASE Holds(s)
    BY <2>2 DEF IInv, TypeOK, Holds, Swappers, Mount, Goto
  <2>3. CASE \E c \in Swappers : pc[c] = "close" /\ old[c] = s
    BY <2>3 DEF IInv, TypeOK, Mount, Goto
  <2> QED BY <2>1, <2>2, <2>3 DEF IInv, Owned, Mount, sessionVars
<1>3. Awaited'
    BY DEF IInv, TypeOK, Awaited, Swappers, Mount, Goto, Expose, sessionVars
<1>4. Mounted'
    BY DEF IInv, TypeOK, Mounted, Places, Fresh, Before, Holds, Swappers, Mount,
       Goto, Expose, sessionVars
<1>5. Fresh'
    BY DEF IInv, TypeOK, Fresh, Mounted, Before, Swappers, Mount, Goto, Expose,
       sessionVars
<1>6. Places'
    BY DEF IInv, TypeOK, Places, Holds, Swappers, Mount, Goto, Expose, sessionVars
<1>7. OnMain'
    BY DEF IInv, TypeOK, OnMain, Swappers, Mount, Goto, Expose, sessionVars
<1>8. Looking'
    BY DEF IInv, TypeOK, Looking, Swappers, Mount, Goto, Expose, sessionVars
<1> QED BY <1>1, <1>2, <1>3, <1>4, <1>5, <1>6, <1>7, <1>8 DEF IInv

LEMMA UnmountStep == ASSUME IInv, NEW u \in Unmounts, Unmount(u) PROVE IInv'
<1>1. TypeOK'
    BY CallsAssumption DEF IInv, TypeOK, Swappers, Unmount, Goto, Expose,
       sessionVars
<1>2. Owned'
    BY CallsAssumption DEF IInv, TypeOK, Owned, Holds, Swappers, Unmount, Goto,
       Expose, sessionVars
<1>3. Awaited'
    BY CallsAssumption DEF IInv, TypeOK, Awaited, Swappers, Unmount, Goto, Expose,
       sessionVars
<1>4. Mounted'
    BY CallsAssumption DEF IInv, TypeOK, Mounted, Before, Swappers, Unmount, Goto,
       Expose, sessionVars
<1>5. Fresh'
    BY CallsAssumption DEF IInv, TypeOK, Fresh, Mounted, Before, Swappers,
       Unmount, Goto, Expose, sessionVars
<1>6. Places'
    BY CallsAssumption DEF IInv, TypeOK, Places, Holds, Swappers, Unmount, Goto,
       Expose, sessionVars
<1>7. OnMain'
    BY CallsAssumption DEF IInv, TypeOK, OnMain, Swappers, Unmount, Goto, Expose,
       sessionVars
<1>8. Looking'
    BY CallsAssumption DEF IInv, TypeOK, Looking, Swappers, Unmount, Goto, Expose,
       sessionVars
<1> QED BY <1>1, <1>2, <1>3, <1>4, <1>5, <1>6, <1>7, <1>8 DEF IInv

LEMMA CloseOldStep == ASSUME IInv, NEW c \in Swappers, CloseOld(c) PROVE IInv'
<1>1. TypeOK'
  <2>1. old[c] \in Opens /\ closed' = [closed EXCEPT ![old[c]] = TRUE]
    BY DEF IInv, TypeOK, CloseOld, Goto
  <2>2. closed' \in [Opens -> BOOLEAN]
    BY <2>1 DEF IInv, TypeOK
  <2>3. c \in Opens => main # <<>>
    BY DEF IInv, OnMain, CloseOld, Goto
  <2>4. main' = main \/ (main # <<>> /\ main' = Tail(main))
    BY <2>3 DEF CloseOld, Return
  <2>8. main' \in Seq(Opens)
    <3>1. main \in Seq(Opens)
      BY DEF IInv, TypeOK
    <3> QED BY <3>1, <2>4
  <2>5. UNCHANGED <<native, active, outcome, old, lookPc, seen, answer, during>>
    BY DEF CloseOld, lookVars
  <2>6. pc' = [pc EXCEPT ![c] = "done"] \/ pc' = [pc EXCEPT ![c] = "await"]
    BY DEF CloseOld, Goto
  <2>7. pc[c] = "close"
    BY DEF CloseOld, Goto
  <2> QED BY <2>2, <2>5, <2>6, <2>7, <2>8 DEF IInv, TypeOK
<1>2. Owned'
    BY CallsAssumption DEF IInv, TypeOK, Owned, Holds, Swappers, CloseOld, Goto,
       Return
<1>3. Awaited'
    BY CallsAssumption DEF IInv, TypeOK, Awaited, Swappers, CloseOld, Goto, Return
<1>4. Mounted'
    BY CallsAssumption DEF IInv, TypeOK, Mounted, Before, Swappers, CloseOld,
       Goto, Return
<1>5. Fresh'
    BY CallsAssumption DEF IInv, TypeOK, Fresh, Before, Swappers, CloseOld, Goto,
       Return
<1>6. Places'
    BY CallsAssumption DEF IInv, TypeOK, Places, Fresh, Before, Holds, Swappers,
       CloseOld, Goto, Return
<1>7. OnMain'
    BY CallsAssumption DEF IInv, TypeOK, OnMain, Swappers, CloseOld, Goto, Return
<1>8. Looking'
    BY CallsAssumption DEF IInv, TypeOK, Looking, Swappers, CloseOld, Goto,
       Return, lookVars
<1> QED BY <1>1, <1>2, <1>3, <1>4, <1>5, <1>6, <1>7, <1>8 DEF IInv

LEMMA AwaitOldStep == ASSUME IInv, NEW c \in Swappers, AwaitOld(c) PROVE IInv'
<1>1. TypeOK'
    BY CallsAssumption DEF IInv, TypeOK, OnMain, Swappers, AwaitOld, Goto, Return,
       lookVars, sessionVars
<1>2. Owned'
    BY CallsAssumption DEF IInv, TypeOK, Owned, Holds, Swappers, AwaitOld, Goto,
       Return, sessionVars
<1>3. Awaited'
    BY CallsAssumption DEF IInv, TypeOK, Awaited, Swappers, AwaitOld, Goto,
       Return, sessionVars
<1>4. Mounted'
    BY CallsAssumption DEF IInv, TypeOK, Mounted, Before, Swappers, AwaitOld,
       Goto, Return, sessionVars
<1>5. Fresh'
    BY CallsAssumption DEF IInv, TypeOK, Fresh, Before, Swappers, AwaitOld, Goto,
       Return, sessionVars
<1>6. Places'
    BY CallsAssumption DEF IInv, TypeOK, Places, Holds, Swappers, AwaitOld, Goto,
       Return, sessionVars
<1>7. OnMain'
    BY CallsAssumption DEF IInv, TypeOK, OnMain, Swappers, AwaitOld, Goto, Return,
       sessionVars
<1>8. Looking'
    BY CallsAssumption DEF IInv, TypeOK, Looking, Swappers, AwaitOld, Goto,
       Return, lookVars, sessionVars
<1> QED BY <1>1, <1>2, <1>3, <1>4, <1>5, <1>6, <1>7, <1>8 DEF IInv

LEMMA DestroyStep == ASSUME IInv, NEW s \in Opens, Destroy(s) PROVE IInv'
<1>1. TypeOK'
    BY DEF IInv, TypeOK, Swappers, Destroy, callVars, lookVars
<1>2. Owned'
    BY DEF IInv, TypeOK, Owned, Holds, Swappers, Destroy, callVars
<1>3. Awaited'
    BY DEF IInv, TypeOK, Awaited, Swappers, Destroy, callVars
<1>4. Mounted'
    BY DEF IInv, TypeOK, Mounted, Before, Swappers, Destroy, callVars
<1>5. Fresh'
    BY DEF IInv, TypeOK, Fresh, Before, Swappers, Destroy, callVars
<1>6. Places'
    BY DEF IInv, TypeOK, Places, Holds, Swappers, Destroy, callVars
<1>7. OnMain'
    BY DEF IInv, TypeOK, OnMain, Swappers, Destroy, callVars
<1>8. Looking'
    BY DEF IInv, TypeOK, Looking, Swappers, Destroy, callVars, lookVars
<1> QED BY <1>1, <1>2, <1>3, <1>4, <1>5, <1>6, <1>7, <1>8 DEF IInv

LEMMA LookupGetStep == ASSUME IInv, NEW l \in Lookups, LookupGet(l) PROVE IInv'
<1>1. TypeOK'
    BY DEF IInv, TypeOK, LookupGet, callVars, sessionVars
<1>2. Owned'
    BY DEF IInv, TypeOK, Owned, Holds, LookupGet, callVars, sessionVars
<1>3. Awaited'
    BY DEF IInv, TypeOK, Awaited, LookupGet, callVars, sessionVars
<1>4. Mounted'
    BY DEF IInv, TypeOK, Mounted, Before, LookupGet, callVars, sessionVars
<1>5. Fresh'
    BY DEF IInv, TypeOK, Fresh, Before, LookupGet, callVars, sessionVars
<1>6. Places'
    BY DEF IInv, TypeOK, Places, Holds, LookupGet, callVars, sessionVars
<1>7. OnMain'
    BY DEF IInv, TypeOK, OnMain, LookupGet, callVars, sessionVars
<1>8. Looking'
    BY DEF IInv, TypeOK, Looking, LookupGet, callVars, sessionVars
<1> QED BY <1>1, <1>2, <1>3, <1>4, <1>5, <1>6, <1>7, <1>8 DEF IInv

LEMMA LookupCheckStep == ASSUME IInv, NEW l \in Lookups, LookupCheck(l) PROVE IInv'
<1>1. TypeOK'
    BY DEF IInv, TypeOK, LookupCheck, callVars, isOpen, sessionVars
<1>2. Owned'
    BY DEF IInv, TypeOK, Owned, Holds, LookupCheck, callVars, isOpen, sessionVars
<1>3. Awaited'
    BY DEF IInv, TypeOK, Awaited, LookupCheck, callVars, isOpen, sessionVars
<1>4. Mounted'
    BY DEF IInv, TypeOK, Mounted, Before, LookupCheck, callVars, isOpen,
       sessionVars
<1>5. Fresh'
    BY DEF IInv, TypeOK, Fresh, Before, LookupCheck, callVars, isOpen, sessionVars
<1>6. Places'
    BY DEF IInv, TypeOK, Places, Holds, LookupCheck, callVars, isOpen, sessionVars
<1>7. OnMain'
    BY DEF IInv, TypeOK, OnMain, LookupCheck, callVars, isOpen, sessionVars
<1>8. Looking'
    BY DEF IInv, TypeOK, Looking, Mounted, Before, LookupCheck, callVars, isOpen,
       sessionVars
<1> QED BY <1>1, <1>2, <1>3, <1>4, <1>5, <1>6, <1>7, <1>8 DEF IInv

LEMMA InitInv == Init => IInv
<1> SUFFICES ASSUME Init PROVE IInv
    OBVIOUS
<1>1. TypeOK
    BY DEF Init, TypeOK
<1>2. Owned /\ Awaited /\ Places
    BY DEF Init, Owned, Awaited, Places, Holds, Swappers
<1>3. Mounted /\ Fresh
    BY CallsAssumption DEF Init, Mounted, Fresh, Swappers
<1>4. OnMain /\ Looking
    BY DEF Init, OnMain, Looking, Swappers
<1> QED BY <1>1, <1>2, <1>3, <1>4 DEF IInv

LEMMA StepInv == IInv /\ [Next]_vars => IInv'
<1> SUFFICES ASSUME IInv, [Next]_vars PROVE IInv'
    OBVIOUS
<1>1. ASSUME NEW o \in Opens, NativeOpen(o) \/ OpenStep(o) \/ Destroy(o) PROVE IInv'
    BY <1>1, NativeOpenStep, ProbeStep, RejectStep, RejectedStep, PostStep, HandleStep,
       RequireStep, MountStep, DestroyStep DEF OpenStep
<1>2. ASSUME NEW u \in Unmounts, Unmount(u) PROVE IInv'
    BY <1>2, UnmountStep
<1>3. ASSUME NEW c \in Swappers, CloseStep(c) PROVE IInv'
    BY <1>3, CloseOldStep, AwaitOldStep DEF CloseStep
<1>4. ASSUME NEW l \in Lookups, LookupGet(l) \/ LookupCheck(l) PROVE IInv'
    BY <1>4, LookupGetStep, LookupCheckStep
<1>5. CASE UNCHANGED vars
    BY <1>5 DEF vars, sessionVars, callVars, lookVars, IInv, TypeOK, Owned, Awaited,
       Mounted, Fresh, Places, OnMain, Looking, Before, Holds
<1> QED BY <1>1, <1>2, <1>3, <1>4, <1>5 DEF Next

(* The invariant holds in every reachable state. *)
THEOREM Inductive == SafeSpec => []IInv
BY InitInv, StepInv, PTL DEF SafeSpec

(* Every variable keeps its type; whoever closes a session has one to close. *)
THEOREM TypeCorrect == SafeSpec => []TypeOK
<1>1. IInv => TypeOK
    BY DEF IInv
<1> QED BY <1>1, Inductive, PTL

(* currentOrNull never returns a session that was not mounted during the call, and
   the session in the reference is open. *)
THEOREM MountedOpen == SafeSpec => []MountedIsOpen
<1>1. IInv => MountedIsOpen
    BY DEF IInv, TypeOK, Mounted, Looking, MountedIsOpen, isOpen
<1> QED BY <1>1, Inductive, PTL

(* Between mounts and unmounts only the mounted container has keys in memory. *)
THEOREM KeysOfMounted == SafeSpec => []KeysOnlyOfMounted
<1>1. IInv => KeysOnlyOfMounted
    BY DEF IInv, TypeOK, Owned, Awaited, Holds, Swappers, KeysOnlyOfMounted, Quiet
<1> QED BY <1>1, Inductive, PTL
=============================================================================
