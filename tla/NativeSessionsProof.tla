------------------------ MODULE NativeSessionsProof ------------------------
(***************************************************************************)
(* NativeSessions for any number of threads, sessions, containers and      *)
(* descriptor numbers: type correctness, and the inductive invariant from  *)
(* which the key and descriptor guarantees of the session store follow;    *)
(* and that the store takes only steps its abstract lifecycle allows. That *)
(* a retired session is destroyed in the end is liveness and stays with    *)
(* TLC (ImplementsLifecycle).                                              *)
(***************************************************************************)
EXTENDS NativeSessions, TLAPS

(* What is true of the thread-private variables at each place of a call. *)
Outside == {"idle", "opened", "populated"}
Working == {"work", "checked", "fetched", "wipe"}
Closing == {"erased", "closeFd", "closeWipe"}
Locked == Working \cup {"unlock", "closeFd", "closeWipe"}

PlaceInv == \A t \in Threads :
    /\ pc[t] \in Outside <=> obj[t] = None
    /\ obj[t] # None => obj[t] \in allocated
    /\ scopedFd[t] \in Fds <=> pc[t] \in {"opened", "populated"}
    /\ pc[t] # "fetched" => raw[t] = None

(* The operation mutex serialises everything between its acquisition and its
   release. *)
LockInv == \A t \in Threads : pc[t] \in Locked => mutex[obj[t]] = t

(* A key set is complete, on one container, or it is gone. *)
Live(v) == v.valid /\ v.fd \in Fds /\ v.file \in Containers /\ v.key = v.file
Dead(v) == ~v.valid /\ v.fd \notin Fds /\ v.key = None

StateInv == \A s \in Sessions :
    Dead(state[s]) \/ (s \in allocated /\ Live(state[s]))

ContextInv == \A t \in Threads :
    /\ pc[t] \in Working => tls[t] = state[obj[t]]
    /\ pc[t] \in {"checked", "fetched"} => tls[t].valid
    /\ pc[t] = "fetched" => raw[t] = tls[t].key
    /\ pc[t] = "populated" => /\ Live(tls[t]) /\ tls[t].fd = scopedFd[t]
                              /\ fdTable[scopedFd[t]] = tls[t].file
    /\ pc[t] \notin Working \cup {"populated", "stored"} => tls[t].key = None

(* The table holds live sessions once each; a session out of the table is
   being closed by exactly one thread or is wiped. *)
TableInv ==
    /\ \A h \in Handles : table[h] # None =>
          table[h] \in allocated /\ Live(state[table[h]])
    /\ \A g, h \in Handles : table[g] = table[h] /\ table[g] # None => g = h
    /\ \A t \in Threads : pc[t] = "stored" => IsStored(obj[t])

ClosingInv ==
    /\ \A t \in Threads : pc[t] \in Closing =>
          ~IsStored(obj[t]) /\ Live(state[obj[t]])
    /\ \A t, u \in Threads :
          pc[t] \in Closing /\ pc[u] \in Closing /\ obj[t] = obj[u] => t = u
    /\ \A s \in Sessions : IsRetired(s) /\ ~IsClosing(s) => state[s] = Cleared

(* A session owns its descriptor until close() in nativeClose. *)
Holds(s) == /\ state[s].fd \in Fds
            /\ \A t \in Threads : obj[t] = s => pc[t] # "closeWipe"

DescriptorInv ==
    /\ \A t \in Threads : scopedFd[t] \in Fds => fdTable[scopedFd[t]] \in Containers
    /\ \A s \in Sessions : Holds(s) => fdTable[state[s].fd] = state[s].file
    /\ \A t, u \in Threads : scopedFd[t] \in Fds /\ scopedFd[t] = scopedFd[u] => t = u
    /\ \A r, s \in Sessions : Holds(r) /\ Holds(s) /\ state[r].fd = state[s].fd => r = s
    /\ \A t \in Threads, s \in Sessions : Holds(s) => scopedFd[t] # state[s].fd
    /\ \A f \in Fds : fdTable[f] \in Containers =>
          \/ \E t \in Threads : scopedFd[t] = f
          \/ \E s \in Sessions : Holds(s) /\ state[s].fd = f

IInv == TypeOK /\ PlaceInv /\ LockInv /\ StateInv /\ ContextInv /\ TableInv
          /\ ClosingInv /\ DescriptorInv

-----------------------------------------------------------------------------
(* Type correctness *)

USE FdsAssumption, FilesAssumption, SessionsAssumption, ThreadsAssumption,
    HandleAssumption

LEMMA InitType == Init => TypeOK
<1> SUFFICES ASSUME Init PROVE TypeOK
    OBVIOUS
<1>1. nextHandle \in 0 .. (HandleModulus - 1)
      BY DEF Init
<1>2. Zeroed \in VCSession /\ NoJob \in Jobs
      BY DEF Zeroed, VCSession, NoJob, NewJob, Jobs, Kinds, FileSystems
<1> QED BY <1>1, <1>2 DEF Init, TypeOK, Pcs

LEMMA NoFdType == -1 \notin Fds
OBVIOUS

LEMMA ClearedType == Cleared \in VCSession /\ Dead(Cleared) /\ Cleared.fd = -1
BY NoFdType DEF Cleared, VCSession, Dead

-----------------------------------------------------------------------------
(* Steps that leave the inputs of an invariant alone keep it *)

(* Which thread is about to wipe which session. *)
AtCloseWipe(s) == \E t \in Threads : obj[t] = s /\ pc[t] = "closeWipe"

LEMMA DescriptorFrame ==
    ASSUME DescriptorInv, UNCHANGED <<state, fdTable, scopedFd>>,
           \A s \in Sessions : AtCloseWipe(s)' <=> AtCloseWipe(s)
    PROVE  DescriptorInv'
<1>1. \A s \in Sessions : Holds(s)' <=> Holds(s)
      BY DEF Holds, AtCloseWipe
<1> QED BY <1>1 DEF DescriptorInv

LEMMA ClosingFrame ==
    ASSUME ClosingInv, UNCHANGED <<table, allocated, state>>,
           NEW t \in Threads,
           \A u \in Threads \ {t} : pc'[u] = pc[u] /\ obj'[u] = obj[u],
           pc[t] \in Closing <=> pc'[t] \in Closing,
           pc[t] \in Closing => obj'[t] = obj[t]
    PROVE  ClosingInv'
<1>1. \A s \in Sessions : IsStored(s)' <=> IsStored(s)
      BY DEF IsStored
<1>2. \A u \in Threads : pc[u] \in Closing <=> pc'[u] \in Closing
      OBVIOUS
<1>3. \A u \in Threads : pc[u] \in Closing => obj'[u] = obj[u]
      OBVIOUS
<1>4. \A s \in Sessions : IsClosing(s)' <=> IsClosing(s)
      BY <1>2, <1>3 DEF IsClosing, Closing
<1>5. \A s \in Sessions : IsRetired(s)' <=> IsRetired(s)
      BY <1>1 DEF IsRetired
<1> QED BY <1>1, <1>2, <1>3, <1>4, <1>5 DEF ClosingInv, IsStored

(* SectorDecrypt only moves its thread on, or to the end of the operation. *)
LEMMA DecryptFrame ==
    ASSUME TypeOK, NEW t \in Threads, SectorDecrypt(t)
    PROVE  /\ pc[t] = "fetched" /\ pc'[t] \in {"work", "wipe"}
           /\ pc' = [pc EXCEPT ![t] = pc'[t]]
           /\ raw' = [raw EXCEPT ![t] = None]
           /\ UNCHANGED <<table, nextHandle, allocated, state, mutex, fdTable,
                          obj, tls, scopedFd>>
BY DEF TypeOK, SectorDecrypt, Detect, Validate, Data, tableVars

(* The inductive step, one step per action and under it one per part of the
   invariant. *)
LEMMA StepIInv == IInv /\ [Next]_vars => IInv'
<1> SUFFICES ASSUME IInv, [Next]_vars PROVE IInv'
    OBVIOUS
<1>0. TypeOK /\ PlaceInv /\ LockInv /\ StateInv /\ ContextInv /\ TableInv
        /\ ClosingInv /\ DescriptorInv
      BY DEF IInv
<1> USE <1>0, ClearedType, NoFdType DEF Goto, Pcs, Files, tableVars, objectVars,
        threadVars
<1>1. ASSUME NEW t \in Threads, NEW c \in Containers, OpenDup(t, c) PROVE IInv'
  <2>1. PICK f \in Fds : /\ fdTable[f] = None
                         /\ fdTable' = [fdTable EXCEPT ![f] = c]
                         /\ scopedFd' = [scopedFd EXCEPT ![t] = f]
        BY <1>1 DEF OpenDup
  <2>21. TypeOK'
    <3>1. pc' \in [Threads -> Pcs] /\ tls' \in [Threads -> VCSession]
          BY <1>1 DEF OpenDup, TypeOK
    <3> QED BY <1>1, <2>1, <3>1 DEF OpenDup, TypeOK
  <2>22. PlaceInv'
        BY <1>1, <2>21 DEF TypeOK, PlaceInv, Outside, OpenDup
  <2>23. LockInv'
        BY <1>1, <2>21 DEF TypeOK, PlaceInv, LockInv, Locked, Working, Outside,
        OpenDup
  <2>24. StateInv'
        BY <1>1, <2>21 DEF TypeOK, PlaceInv, StateInv, ContextInv, ClosingInv,
        Live, Dead, OpenDup
  <2>25. ContextInv'
        BY <1>1, <2>21 DEF TypeOK, PlaceInv, LockInv, StateInv, ContextInv,
        DescriptorInv, Working, Live, Dead, Locked, Outside, Holds, OpenDup
  <2>26. TableInv'
        BY <1>1, <2>21 DEF TypeOK, PlaceInv, TableInv, ClosingInv, ContextInv,
        IsStored, Live, Dead, Closing, IsIssued, Outside, OpenDup
  <2>27. ClosingInv'
        BY <1>1, <2>21 DEF TypeOK, PlaceInv, TableInv, LockInv, ClosingInv,
        StateInv, Closing, IsStored, IsRetired, IsClosing, IsIssued, Live,
        Dead, Outside, Locked, OpenDup
  <2>28. DescriptorInv'
    <3>1. \A s \in Sessions : Holds(s)' <=> Holds(s)
          BY <1>1, <2>21 DEF OpenDup, Holds, TypeOK
    <3>2. \A s \in Sessions : Holds(s) => fdTable[state[s].fd] \in Containers
          BY DEF DescriptorInv, StateInv, Live, Dead, Holds
    <3>3. \A s \in Sessions : Holds(s) => state[s].fd # f
          BY <2>1, <3>2
    <3>4. \A u \in Threads : scopedFd[u] # f
          BY <2>1 DEF DescriptorInv
    <3>5. UNCHANGED state /\ c \in Containers
          BY <1>1 DEF OpenDup
    <3>6. \A g \in Fds : fdTable'[g] \in Containers =>
            (\E u \in Threads : scopedFd'[u] = g)
              \/ (\E s \in Sessions : Holds(s)' /\ state'[s].fd = g)
      <4> SUFFICES ASSUME NEW g \in Fds, fdTable'[g] \in Containers
                   PROVE  (\E u \in Threads : scopedFd'[u] = g)
                            \/ (\E s \in Sessions : Holds(s)' /\ state'[s].fd = g)
          OBVIOUS
      <4>1. scopedFd[t] \notin Fds
            BY <1>1 DEF OpenDup, PlaceInv
      <4>2. CASE g = f
            BY <2>1, <4>2 DEF TypeOK
      <4>3. CASE g # f
            BY <2>1, <3>1, <3>5, <4>1, <4>3 DEF DescriptorInv, TypeOK
      <4> QED BY <4>2, <4>3
    <3> QED BY <2>1, <3>1, <3>2, <3>3, <3>4, <3>5, <3>6 DEF DescriptorInv, TypeOK, Holds
  <2> QED BY <2>21, <2>22, <2>23, <2>24, <2>25, <2>26, <2>27, <2>28 DEF IInv
<1>2. ASSUME NEW t \in Threads, OpenReject(t) PROVE IInv'
  <2>21. TypeOK'
        BY <1>2 DEF TypeOK, OpenReject
  <2>22. PlaceInv'
        BY <1>2, <2>21 DEF TypeOK, PlaceInv, Outside, OpenReject
  <2>23. LockInv'
        BY <1>2, <2>21 DEF TypeOK, PlaceInv, LockInv, Locked, Working, Outside,
        OpenReject
  <2>24. StateInv'
        BY <1>2, <2>21 DEF TypeOK, PlaceInv, StateInv, ContextInv, ClosingInv,
        Live, Dead, OpenReject
  <2>25. ContextInv'
        BY <1>2, <2>21 DEF TypeOK, PlaceInv, LockInv, StateInv, ContextInv,
        DescriptorInv, Working, Live, Dead, Locked, Outside, Holds, OpenReject
  <2>26. TableInv'
        BY <1>2, <2>21 DEF TypeOK, PlaceInv, TableInv, ClosingInv, ContextInv,
        IsStored, Live, Dead, Closing, IsIssued, Outside, OpenReject
  <2>27. ClosingInv'
        BY <1>2, ClosingFrame DEF Closing, OpenReject, TypeOK
  <2>28. DescriptorInv'
        BY <1>2, DescriptorFrame DEF AtCloseWipe, OpenReject, TypeOK
  <2> QED BY <2>21, <2>22, <2>23, <2>24, <2>25, <2>26, <2>27, <2>28 DEF IInv
<1>3. ASSUME NEW t \in Threads, OpenFail(t) PROVE IInv'
  <2>21. TypeOK'
        BY <1>3 DEF TypeOK, OpenFail
  <2>22. PlaceInv'
        BY <1>3, <2>21 DEF TypeOK, PlaceInv, Outside, OpenFail
  <2>23. LockInv'
        BY <1>3, <2>21 DEF TypeOK, PlaceInv, LockInv, Locked, Working, Outside,
        OpenFail
  <2>24. StateInv'
        BY <1>3, <2>21 DEF TypeOK, PlaceInv, StateInv, ContextInv, ClosingInv,
        Live, Dead, OpenFail
  <2>25. ContextInv'
        BY <1>3, <2>21 DEF TypeOK, PlaceInv, LockInv, StateInv, ContextInv,
        DescriptorInv, Working, Live, Dead, Locked, Outside, Holds, OpenFail
  <2>26. TableInv'
        BY <1>3, <2>21 DEF TypeOK, PlaceInv, TableInv, ClosingInv, ContextInv,
        IsStored, Live, Dead, Closing, IsIssued, Outside, OpenFail
  <2>27. ClosingInv'
        BY <1>3, <2>21 DEF TypeOK, PlaceInv, TableInv, LockInv, ClosingInv,
        StateInv, Closing, IsStored, IsRetired, IsClosing, IsIssued, Live,
        Dead, Outside, Locked, OpenFail
  <2>28. DescriptorInv'
    <3>1. \A s \in Sessions : Holds(s)' <=> Holds(s)
          BY <1>3, <2>21 DEF OpenFail, Holds, TypeOK
    <3>2. \A s \in Sessions : Holds(s) => fdTable[state[s].fd] \in Containers
          BY DEF DescriptorInv, StateInv, Live, Dead, Holds
    <3>3. scopedFd[t] \in Fds /\ UNCHANGED state
          BY <1>3 DEF OpenFail, PlaceInv
    <3>4. fdTable' = [fdTable EXCEPT ![scopedFd[t]] = None]
            /\ scopedFd' = [scopedFd EXCEPT ![t] = -1]
          BY <1>3 DEF OpenFail
    <3>5. \A s \in Sessions : Holds(s) => state[s].fd # scopedFd[t]
          BY DEF DescriptorInv
    <3>6. \A u \in Threads : u # t /\ scopedFd[u] \in Fds => scopedFd[u] # scopedFd[t]
          BY <3>3 DEF DescriptorInv
    <3>7. \A g \in Fds : fdTable'[g] \in Containers =>
            (\E u \in Threads : scopedFd'[u] = g)
              \/ (\E s \in Sessions : Holds(s)' /\ state'[s].fd = g)
          BY <3>1, <3>3, <3>4 DEF DescriptorInv, TypeOK
    <3> QED BY <3>1, <3>3, <3>4, <3>5, <3>6, <3>7 DEF DescriptorInv, TypeOK, Holds
  <2> QED BY <2>21, <2>22, <2>23, <2>24, <2>25, <2>26, <2>27, <2>28 DEF IInv
<1>4. ASSUME NEW t \in Threads, OpenPopulate(t) PROVE IInv'
  <2>1. scopedFd[t] \in Fds /\ fdTable[scopedFd[t]] \in Containers
        BY <1>4 DEF OpenPopulate, PlaceInv, DescriptorInv
  <2>21. TypeOK'
        BY <1>4, <2>1 DEF TypeOK, OpenPopulate, VCSession
  <2>22. PlaceInv'
        BY <1>4, <2>21 DEF TypeOK, PlaceInv, Outside, OpenPopulate
  <2>23. LockInv'
        BY <1>4, <2>21 DEF TypeOK, PlaceInv, LockInv, Locked, Working, Outside,
        OpenPopulate
  <2>24. StateInv'
        BY <1>4, <2>21 DEF TypeOK, PlaceInv, StateInv, ContextInv, ClosingInv,
        Live, Dead, OpenPopulate
  <2>25. ContextInv'
        BY <1>4, <2>1, <2>21 DEF TypeOK, OpenPopulate, ContextInv, Working,
        Live
  <2>26. TableInv'
        BY <1>4, <2>21 DEF TypeOK, PlaceInv, TableInv, ClosingInv, ContextInv,
        IsStored, Live, Dead, Closing, IsIssued, Outside, OpenPopulate
  <2>27. ClosingInv'
        BY <1>4, <2>21 DEF TypeOK, PlaceInv, TableInv, LockInv, ClosingInv,
        StateInv, Closing, IsStored, IsRetired, IsClosing, IsIssued, Live,
        Dead, Outside, Locked, OpenPopulate
  <2>28. DescriptorInv'
        BY <1>4, DescriptorFrame DEF AtCloseWipe, OpenPopulate, TypeOK
  <2> QED BY <2>21, <2>22, <2>23, <2>24, <2>25, <2>26, <2>27, <2>28 DEF IInv
<1>5. ASSUME NEW t \in Threads, OpenStore(t) PROVE IInv'
  <2>1. PICK s \in Sessions \ allocated, h \in Handles :
           /\ table[h] = None
           /\ allocated' = allocated \cup {s}
           /\ state' = [state EXCEPT ![s] = [tls[t] EXCEPT !.fd = scopedFd[t]]]
           /\ table' = [table EXCEPT ![h] = s]
           /\ nextHandle' = After(h)
           /\ obj' = [obj EXCEPT ![t] = s]
        BY <1>5 DEF OpenStore, IsFreshHandle
  <2>2. [tls[t] EXCEPT !.fd = scopedFd[t]] \in VCSession
        BY DEF TypeOK, VCSession
  <2>3. nextHandle' \in 0 .. (HandleModulus - 1)
        BY <2>1 DEF After, Handles
  <2>4. /\ Live(state'[s]) /\ state'[s].fd = scopedFd[t]
        /\ fdTable[scopedFd[t]] = state'[s].file
        BY <1>5, <2>1, <2>2 DEF OpenStore, ContextInv, Live, TypeOK
  <2>5. \A r \in Sessions : r # s => state'[r] = state[r]
        BY <2>1 DEF TypeOK
  <2>6. Dead(state[s]) /\ \A g \in Handles : table[g] # s
        BY <2>1 DEF StateInv, TableInv
  <2>7. obj[t] = None /\ \A u \in Threads : obj[u] # s
        BY <1>5, <2>1 DEF OpenStore, PlaceInv, Outside
  <2>21. TypeOK'
        BY <1>5, <2>1, <2>2, <2>3 DEF OpenStore, TypeOK
  <2>22. PlaceInv'
        BY <1>5, <2>21 DEF TypeOK, PlaceInv, Outside, OpenStore
  <2>23. LockInv'
        BY <1>5, <2>21 DEF TypeOK, PlaceInv, LockInv, Locked, Working, Outside,
        OpenStore
  <2>24. StateInv'
        BY <1>5, <2>21 DEF TypeOK, PlaceInv, StateInv, ContextInv, ClosingInv,
        Live, Dead, OpenStore
  <2>25. ContextInv'
        BY <1>5, <2>21 DEF TypeOK, PlaceInv, LockInv, StateInv, ContextInv,
        DescriptorInv, Working, Live, Dead, Locked, Outside, Holds, OpenStore
  <2>26. TableInv'
    <3>1. \A g \in Handles : table'[g] = IF g = h THEN s ELSE table[g]
          BY <2>1 DEF TypeOK
    <3>2. \A u \in Threads : u # t => obj'[u] = obj[u] /\ pc'[u] = pc[u]
          BY <1>5, <2>1 DEF OpenStore, TypeOK
    <3>3. \A g \in Handles : table'[g] # None =>
             table'[g] \in allocated' /\ Live(state'[table'[g]])
          BY <2>1, <2>4, <2>5, <3>1 DEF TableInv
    <3>4. \A g, k \in Handles : table'[g] = table'[k] /\ table'[g] # None => g = k
          BY <2>6, <3>1 DEF TableInv
    <3>5. \A u \in Threads : pc'[u] = "stored" => IsStored(obj[u]) \/ u = t
          BY <3>2 DEF TableInv
    <3>6. \A r \in Sessions : IsStored(r) => IsStored(r)'
          BY <2>1, <3>1 DEF IsStored, TypeOK
    <3>7. IsStored(obj[t])'
          BY <2>1, <3>1 DEF IsStored, TypeOK
    <3>8. \A u \in Threads : pc'[u] = "stored" => IsStored(obj[u])'
      <4> TAKE u \in Threads
      <4> HAVE pc'[u] = "stored"
      <4>1. CASE u = t
            BY <3>7, <4>1
      <4>2. CASE u # t
        <5>1. IsStored(obj[u]) /\ obj[u] \in Sessions /\ obj'[u] = obj[u]
              BY <3>2, <4>2 DEF TableInv, PlaceInv, Outside, TypeOK
        <5> QED BY <3>6, <5>1 DEF IsStored
      <4> QED BY <4>1, <4>2
    <3> QED BY <3>3, <3>4, <3>8 DEF TableInv
  <2>27. ClosingInv'
    <3>1. \A r \in Sessions : r # s => (IsStored(r)' <=> IsStored(r))
          BY <2>1, <2>6 DEF IsStored, TypeOK
    <3>2. \A u \in Threads : pc'[u] \in Closing =>
             u # t /\ pc[u] \in Closing /\ obj'[u] = obj[u] /\ obj[u] \in Sessions /\ obj[u] # s
          BY <1>5, <2>1, <2>7 DEF OpenStore, Closing, TypeOK, PlaceInv, Outside
    <3>3. \A u \in Threads : pc[u] \in Closing => pc'[u] = pc[u] /\ obj'[u] = obj[u]
          BY <1>5, <2>1 DEF OpenStore, Closing, TypeOK
    <3>4. IsStored(s)'
          BY <2>1 DEF IsStored, TypeOK
    <3>5. \A u \in Threads : pc'[u] \in Closing =>
             ~IsStored(obj[u])' /\ Live(state'[obj'[u]])
      <4> TAKE u \in Threads
      <4> HAVE pc'[u] \in Closing
      <4>1. obj'[u] = obj[u] /\ obj[u] \in Sessions /\ obj[u] # s /\ pc[u] \in Closing
            BY <3>2
      <4>2. ~IsStored(obj[u])
            BY <4>1 DEF ClosingInv
      <4>3. ~IsStored(obj[u])'
            BY <2>1, <2>6, <4>1, <4>2 DEF IsStored, TypeOK
      <4> QED BY <2>5, <4>1, <4>3 DEF ClosingInv
    <3>6. \A r \in Sessions : r # s => (IsClosing(r)' <=> IsClosing(r))
          BY <3>2, <3>3 DEF IsClosing, Closing
    <3>7. \A r \in Sessions : IsRetired(r)' /\ ~IsClosing(r)' => state'[r] = Cleared
          BY <2>1, <2>5, <3>1, <3>4, <3>6 DEF IsRetired, ClosingInv
    <3> QED BY <3>2, <3>5, <3>7 DEF ClosingInv
  <2>28. DescriptorInv'
    <3>1. scopedFd[t] \in Fds /\ scopedFd' = [scopedFd EXCEPT ![t] = -1]
            /\ UNCHANGED fdTable
          BY <1>5 DEF OpenStore, PlaceInv
    <3>2. \A r \in Sessions : r # s => (Holds(r)' <=> Holds(r))
          BY <1>5, <2>1, <2>5, <2>7 DEF OpenStore, Holds, TypeOK
    <3>3. Holds(s)' /\ ~Holds(s)
          BY <1>5, <2>1, <2>4, <2>6, <2>7, <3>1 DEF OpenStore, Holds, Dead, TypeOK
    <3>4. \A r \in Sessions : Holds(r) => state[r].fd # scopedFd[t]
          BY DEF DescriptorInv
    <3>5. \A u \in Threads : scopedFd'[u] \in Fds =>
             u # t /\ scopedFd'[u] = scopedFd[u] /\ scopedFd[u] # scopedFd[t]
          BY <3>1 DEF DescriptorInv, TypeOK
    <3>6. \A g \in Fds : fdTable'[g] \in Containers =>
            (\E u \in Threads : scopedFd'[u] = g)
              \/ (\E r \in Sessions : Holds(r)' /\ state'[r].fd = g)
      <4> SUFFICES ASSUME NEW g \in Fds, fdTable[g] \in Containers
                   PROVE  (\E u \in Threads : scopedFd'[u] = g)
                            \/ (\E r \in Sessions : Holds(r)' /\ state'[r].fd = g)
          BY <3>1
      <4>1. CASE g = scopedFd[t]
            BY <2>4, <3>3, <4>1
      <4>2. CASE g # scopedFd[t]
            BY <2>5, <3>1, <3>2, <3>3, <4>2 DEF DescriptorInv, TypeOK
      <4> QED BY <4>1, <4>2
    <3> QED BY <2>4, <2>5, <3>1, <3>2, <3>3, <3>4, <3>5, <3>6 DEF DescriptorInv, Holds
  <2> QED BY <2>21, <2>22, <2>23, <2>24, <2>25, <2>26, <2>27, <2>28 DEF IInv
<1>6. ASSUME NEW t \in Threads, OpenReturn(t) PROVE IInv'
  <2>21. TypeOK'
        BY <1>6 DEF TypeOK, OpenReturn
  <2>22. PlaceInv'
        BY <1>6, <2>21 DEF TypeOK, PlaceInv, Outside, OpenReturn
  <2>23. LockInv'
        BY <1>6, <2>21 DEF TypeOK, PlaceInv, LockInv, Locked, Working, Outside,
        OpenReturn
  <2>24. StateInv'
        BY <1>6, <2>21 DEF TypeOK, PlaceInv, StateInv, ContextInv, ClosingInv,
        Live, Dead, OpenReturn
  <2>25. ContextInv'
        BY <1>6, <2>21 DEF TypeOK, PlaceInv, LockInv, StateInv, ContextInv,
        DescriptorInv, Working, Live, Dead, Locked, Outside, Holds, OpenReturn
  <2>26. TableInv'
        BY <1>6, <2>21 DEF TypeOK, PlaceInv, TableInv, ClosingInv, ContextInv,
        IsStored, Live, Dead, Closing, IsIssued, Outside, OpenReturn
  <2>27. ClosingInv'
        BY <1>6, <2>21 DEF TypeOK, PlaceInv, TableInv, LockInv, ClosingInv,
        StateInv, Closing, IsStored, IsRetired, IsClosing, IsIssued, Live,
        Dead, Outside, Locked, OpenReturn
  <2>28. DescriptorInv'
        BY <1>6, DescriptorFrame DEF AtCloseWipe, OpenReturn, TypeOK
  <2> QED BY <2>21, <2>22, <2>23, <2>24, <2>25, <2>26, <2>27, <2>28 DEF IInv
<1>7. ASSUME NEW t \in Threads, NEW h \in Handles, NEW k \in Kinds, OpFind(t, h, k) PROVE IInv'
  <2>21. TypeOK'
        BY <1>7 DEF TypeOK, OpFind, find_session, Jobs, NewJob, FileSystems
  <2>22. PlaceInv'
        BY <1>7, <2>21 DEF TypeOK, PlaceInv, Outside, OpFind, find_session,
        TableInv
  <2>23. LockInv'
        BY <1>7, <2>21 DEF TypeOK, PlaceInv, LockInv, Locked, Working, Outside,
        OpFind, find_session
  <2>24. StateInv'
        BY <1>7, <2>21 DEF TypeOK, PlaceInv, StateInv, ContextInv, ClosingInv,
        Live, Dead, OpFind, find_session
  <2>25. ContextInv'
        BY <1>7, <2>21 DEF TypeOK, PlaceInv, LockInv, StateInv, ContextInv,
        DescriptorInv, Working, Live, Dead, Locked, Outside, Holds, OpFind,
        find_session
  <2>26. TableInv'
        BY <1>7, <2>21 DEF TypeOK, PlaceInv, TableInv, ClosingInv, ContextInv,
        IsStored, Live, Dead, Closing, IsIssued, Outside, OpFind, find_session
  <2>27. ClosingInv'
        BY <1>7, ClosingFrame DEF Closing, OpFind, find_session, TypeOK
  <2>28. DescriptorInv'
        BY <1>7, DescriptorFrame DEF AtCloseWipe, OpFind, find_session, TypeOK
  <2> QED BY <2>21, <2>22, <2>23, <2>24, <2>25, <2>26, <2>27, <2>28 DEF IInv
<1>8. ASSUME NEW t \in Threads, OpAcquire(t) PROVE IInv'
  <2>1. obj[t] \in Sessions
        BY <1>8 DEF PlaceInv, Outside, TypeOK, OpAcquire
  <2>21. TypeOK'
        BY <1>8, <2>1 DEF TypeOK, OpAcquire
  <2>22. PlaceInv'
        BY <1>8, <2>21 DEF TypeOK, PlaceInv, Outside, OpAcquire
  <2>23. LockInv'
    <3> SUFFICES ASSUME NEW u \in Threads, pc'[u] \in Locked PROVE mutex'[obj'[u]] = u
        BY DEF LockInv
    <3>1. CASE u = t
          BY <1>8, <2>1, <3>1 DEF OpAcquire, TypeOK
    <3>2. CASE u # t
      <4>1. pc[u] \in Locked /\ mutex[obj[u]] = u /\ obj[u] \in Sessions
            BY <1>8, <3>2 DEF OpAcquire, LockInv, PlaceInv, Outside, Locked, Working, TypeOK
      <4>2. obj[u] # obj[t]
            BY <1>8, <4>1 DEF OpAcquire
      <4> QED BY <1>8, <3>2, <4>1, <4>2 DEF OpAcquire, TypeOK
    <3> QED BY <3>1, <3>2
  <2>24. StateInv'
        BY <1>8, <2>21 DEF TypeOK, PlaceInv, StateInv, ContextInv, ClosingInv,
        Live, Dead, OpAcquire
  <2>25. ContextInv'
        BY <1>8, <2>21 DEF TypeOK, PlaceInv, LockInv, StateInv, ContextInv,
        DescriptorInv, Working, Live, Dead, Locked, Outside, Holds, OpAcquire
  <2>26. TableInv'
        BY <1>8, <2>21 DEF TypeOK, PlaceInv, TableInv, ClosingInv, ContextInv,
        IsStored, Live, Dead, Closing, IsIssued, Outside, OpAcquire
  <2>27. ClosingInv'
        BY <1>8, ClosingFrame DEF Closing, OpAcquire, TypeOK
  <2>28. DescriptorInv'
        BY <1>8, DescriptorFrame DEF AtCloseWipe, OpAcquire, TypeOK
  <2> QED BY <2>21, <2>22, <2>23, <2>24, <2>25, <2>26, <2>27, <2>28 DEF IInv
<1>9. ASSUME NEW t \in Threads, OpAbandon(t) PROVE IInv'
  <2>21. TypeOK'
        BY <1>9 DEF TypeOK, OpAbandon
  <2>22. PlaceInv'
        BY <1>9, <2>21 DEF TypeOK, PlaceInv, Outside, OpAbandon
  <2>23. LockInv'
        BY <1>9, <2>21 DEF TypeOK, PlaceInv, LockInv, Locked, Working, Outside,
        OpAbandon
  <2>24. StateInv'
        BY <1>9, <2>21 DEF TypeOK, PlaceInv, StateInv, ContextInv, ClosingInv,
        Live, Dead, OpAbandon
  <2>25. ContextInv'
        BY <1>9, <2>21 DEF TypeOK, PlaceInv, LockInv, StateInv, ContextInv,
        DescriptorInv, Working, Live, Dead, Locked, Outside, Holds, OpAbandon
  <2>26. TableInv'
        BY <1>9, <2>21 DEF TypeOK, PlaceInv, TableInv, ClosingInv, ContextInv,
        IsStored, Live, Dead, Closing, IsIssued, Outside, OpAbandon
  <2>27. ClosingInv'
        BY <1>9, <2>21 DEF TypeOK, PlaceInv, TableInv, LockInv, ClosingInv,
        StateInv, Closing, IsStored, IsRetired, IsClosing, IsIssued, Live,
        Dead, Outside, Locked, OpAbandon
  <2>28. DescriptorInv'
        BY <1>9, DescriptorFrame DEF AtCloseWipe, OpAbandon, TypeOK
  <2> QED BY <2>21, <2>22, <2>23, <2>24, <2>25, <2>26, <2>27, <2>28 DEF IInv
<1>10. ASSUME NEW t \in Threads, SectorCheck(t) PROVE IInv'
  <2>21. TypeOK'
        BY <1>10 DEF TypeOK, SectorCheck, current_fd_matches_session
  <2>22. PlaceInv'
        BY <1>10, <2>21 DEF TypeOK, PlaceInv, Outside, SectorCheck,
        current_fd_matches_session
  <2>23. LockInv'
        BY <1>10, <2>21 DEF TypeOK, PlaceInv, LockInv, Locked, Working,
        Outside, SectorCheck, current_fd_matches_session
  <2>24. StateInv'
        BY <1>10, <2>21 DEF TypeOK, PlaceInv, StateInv, ContextInv, ClosingInv,
        Live, Dead, SectorCheck, current_fd_matches_session
  <2>25. ContextInv'
        BY <1>10, <2>21 DEF TypeOK, PlaceInv, LockInv, StateInv, ContextInv,
        DescriptorInv, Working, Live, Dead, Locked, Outside, Holds,
        SectorCheck, current_fd_matches_session
  <2>26. TableInv'
        BY <1>10, <2>21 DEF TypeOK, PlaceInv, TableInv, ClosingInv, ContextInv,
        IsStored, Live, Dead, Closing, IsIssued, Outside, SectorCheck,
        current_fd_matches_session
  <2>27. ClosingInv'
        BY <1>10, ClosingFrame DEF Closing, SectorCheck,
        current_fd_matches_session, TypeOK
  <2>28. DescriptorInv'
        BY <1>10, DescriptorFrame DEF AtCloseWipe, SectorCheck,
        current_fd_matches_session, TypeOK
  <2> QED BY <2>21, <2>22, <2>23, <2>24, <2>25, <2>26, <2>27, <2>28 DEF IInv
<1>11. ASSUME NEW t \in Threads, SectorRead(t) PROVE IInv'
  <2>1. tls[t].fd \in Fds /\ fdTable[tls[t].fd] = tls[t].key
        BY <1>11 DEF SectorRead, ContextInv, StateInv, Live, Dead, PlaceInv, LockInv,
                   DescriptorInv, Holds, Working, Locked, Outside, TypeOK
  <2>21. TypeOK'
        BY <1>11, <2>1 DEF TypeOK, SectorRead
  <2>22. PlaceInv'
        BY <1>11, <2>21 DEF TypeOK, PlaceInv, Outside, SectorRead
  <2>23. LockInv'
        BY <1>11, <2>21 DEF TypeOK, PlaceInv, LockInv, Locked, Working,
        Outside, SectorRead
  <2>24. StateInv'
        BY <1>11, <2>21 DEF TypeOK, PlaceInv, StateInv, ContextInv, ClosingInv,
        Live, Dead, SectorRead
  <2>25. ContextInv'
        BY <1>11, <2>1, <2>21 DEF TypeOK, SectorRead, ContextInv, Working
  <2>26. TableInv'
        BY <1>11, <2>21 DEF TypeOK, PlaceInv, TableInv, ClosingInv, ContextInv,
        IsStored, Live, Dead, Closing, IsIssued, Outside, SectorRead
  <2>27. ClosingInv'
        BY <1>11, <2>21 DEF TypeOK, PlaceInv, TableInv, LockInv, ClosingInv,
        StateInv, Closing, IsStored, IsRetired, IsClosing, IsIssued, Live,
        Dead, Outside, Locked, SectorRead
  <2>28. DescriptorInv'
        BY <1>11, DescriptorFrame DEF AtCloseWipe, SectorRead, TypeOK
  <2> QED BY <2>21, <2>22, <2>23, <2>24, <2>25, <2>26, <2>27, <2>28 DEF IInv
<1>12. ASSUME NEW t \in Threads, SectorDecrypt(t) PROVE IInv'
  <2>1. /\ pc[t] = "fetched" /\ pc'[t] \in {"work", "wipe"}
        /\ pc' = [pc EXCEPT ![t] = pc'[t]]
        /\ raw' = [raw EXCEPT ![t] = None]
        /\ UNCHANGED <<table, nextHandle, allocated, state, mutex, fdTable,
                       obj, tls, scopedFd>>
        BY <1>12, DecryptFrame
  <2>2. obj[t] \in Sessions
        BY <2>1 DEF PlaceInv, Outside, TypeOK
  <2>21. TypeOK'
    <3>1. ASSUME NEW fs \in FileSystems, Detect(t, fs)
          PROVE  job' \in [Threads -> Jobs] /\ UNCHANGED <<validated, proven>>
      <4>1. CASE job[t].kind = "type" \/ fs = "OTHER"
            BY <3>1, <4>1 DEF TypeOK, Detect
      <4>2. CASE ~(job[t].kind = "type" \/ fs = "OTHER")
        <5>1. job[t] \in Jobs
              BY DEF TypeOK
        <5>2. [kind |-> job[t].kind, phase |-> "validate", fs |-> fs,
               full |-> validated[obj[t]] # 2] \in Jobs
              BY <5>1 DEF Jobs
        <5>3. job' = [job EXCEPT ![t] =
                        [kind |-> job[t].kind, phase |-> "validate", fs |-> fs,
                         full |-> validated[obj[t]] # 2]]
              BY <3>1, <4>2, <5>1 DEF Detect, TypeOK, Jobs
        <5> QED BY <3>1, <5>2, <5>3 DEF TypeOK, Detect
      <4> QED BY <4>1, <4>2
    <3>2. ASSUME Validate(t)
          PROVE  /\ job' \in [Threads -> Jobs]
                 /\ validated' \in [Sessions -> {0, 1, 2}] /\ proven' \subseteq Sessions
          BY <2>2, <3>2 DEF TypeOK, Validate, Verdict, Jobs
    <3> QED BY <1>12, <2>1, <3>1, <3>2 DEF SectorDecrypt, Data, TypeOK
  <2>22. PlaceInv'
        BY <2>1 DEF TypeOK, PlaceInv, Outside
  <2>23. LockInv'
        BY <2>1 DEF TypeOK, LockInv, Locked, Working
  <2>24. StateInv'
        BY <2>1 DEF TypeOK, StateInv
  <2>25. ContextInv'
        BY <2>1 DEF TypeOK, ContextInv, Working
  <2>26. TableInv'
        BY <2>1 DEF TypeOK, TableInv, IsStored
  <2>27. ClosingInv'
        BY <2>1, ClosingFrame DEF Closing, TypeOK
  <2>28. DescriptorInv'
        BY <2>1, DescriptorFrame DEF AtCloseWipe, TypeOK
  <2> QED BY <2>21, <2>22, <2>23, <2>24, <2>25, <2>26, <2>27, <2>28 DEF IInv
<1>13. ASSUME NEW t \in Threads, OpWipe(t) PROVE IInv'
  <2>21. TypeOK'
        BY <1>13 DEF TypeOK, OpWipe
  <2>22. PlaceInv'
        BY <1>13, <2>21 DEF TypeOK, PlaceInv, Outside, OpWipe
  <2>23. LockInv'
        BY <1>13, <2>21 DEF TypeOK, PlaceInv, LockInv, Locked, Working,
        Outside, OpWipe
  <2>24. StateInv'
        BY <1>13, <2>21 DEF TypeOK, PlaceInv, StateInv, ContextInv, ClosingInv,
        Live, Dead, OpWipe
  <2>25. ContextInv'
        BY <1>13, <2>21 DEF TypeOK, PlaceInv, LockInv, StateInv, ContextInv,
        DescriptorInv, Working, Live, Dead, Locked, Outside, Holds, OpWipe
  <2>26. TableInv'
        BY <1>13, <2>21 DEF TypeOK, PlaceInv, TableInv, ClosingInv, ContextInv,
        IsStored, Live, Dead, Closing, IsIssued, Outside, OpWipe
  <2>27. ClosingInv'
        BY <1>13, ClosingFrame DEF Closing, OpWipe, TypeOK
  <2>28. DescriptorInv'
        BY <1>13, DescriptorFrame DEF AtCloseWipe, OpWipe, TypeOK
  <2> QED BY <2>21, <2>22, <2>23, <2>24, <2>25, <2>26, <2>27, <2>28 DEF IInv
<1>14. ASSUME NEW t \in Threads, Unlock(t) PROVE IInv'
  <2>1. obj[t] \in Sessions
        BY <1>14 DEF PlaceInv, Outside, TypeOK, Unlock
  <2>21. TypeOK'
        BY <1>14, <2>1 DEF TypeOK, Unlock, NoJob, NewJob, Jobs, Kinds,
        FileSystems
  <2>22. PlaceInv'
        BY <1>14, <2>21 DEF TypeOK, PlaceInv, Outside, Unlock
  <2>23. LockInv'
        BY <1>14, <2>21 DEF TypeOK, PlaceInv, LockInv, Locked, Working,
        Outside, Unlock
  <2>24. StateInv'
        BY <1>14, <2>21 DEF TypeOK, PlaceInv, StateInv, ContextInv, ClosingInv,
        Live, Dead, Unlock
  <2>25. ContextInv'
        BY <1>14, <2>21 DEF TypeOK, PlaceInv, LockInv, StateInv, ContextInv,
        DescriptorInv, Working, Live, Dead, Locked, Outside, Holds, Unlock
  <2>26. TableInv'
        BY <1>14, <2>21 DEF TypeOK, PlaceInv, TableInv, ClosingInv, ContextInv,
        IsStored, Live, Dead, Closing, IsIssued, Outside, Unlock
  <2>27. ClosingInv'
        BY <1>14, <2>21 DEF TypeOK, PlaceInv, TableInv, LockInv, ClosingInv,
        StateInv, Closing, IsStored, IsRetired, IsClosing, IsIssued, Live,
        Dead, Outside, Locked, Unlock
  <2>28. DescriptorInv'
        BY <1>14, DescriptorFrame DEF AtCloseWipe, Unlock, TypeOK
  <2> QED BY <2>21, <2>22, <2>23, <2>24, <2>25, <2>26, <2>27, <2>28 DEF IInv
<1>15. ASSUME NEW t \in Threads, NEW h \in Handles, CloseErase(t, h) PROVE IInv'
  <2>21. TypeOK'
        BY <1>15 DEF TypeOK, CloseErase
  <2>22. PlaceInv'
        BY <1>15, <2>21 DEF TypeOK, PlaceInv, Outside, CloseErase, TableInv
  <2>23. LockInv'
        BY <1>15, <2>21 DEF TypeOK, PlaceInv, LockInv, Locked, Working,
        Outside, CloseErase
  <2>24. StateInv'
        BY <1>15, <2>21 DEF TypeOK, PlaceInv, StateInv, ContextInv, ClosingInv,
        Live, Dead, CloseErase
  <2>25. ContextInv'
        BY <1>15, <2>21 DEF TypeOK, PlaceInv, LockInv, StateInv, ContextInv,
        DescriptorInv, Working, Live, Dead, Locked, Outside, Holds, CloseErase
  <2>26. TableInv'
        BY <1>15, <2>21 DEF TypeOK, PlaceInv, TableInv, ClosingInv, ContextInv,
        IsStored, Live, Dead, Closing, IsIssued, Outside, CloseErase
  <2>27. ClosingInv'
        BY <1>15, <2>21 DEF TypeOK, PlaceInv, TableInv, LockInv, ClosingInv,
        StateInv, Closing, IsStored, IsRetired, IsClosing, IsIssued, Live,
        Dead, Outside, Locked, CloseErase
  <2>28. DescriptorInv'
        BY <1>15, DescriptorFrame DEF AtCloseWipe, CloseErase, TypeOK
  <2> QED BY <2>21, <2>22, <2>23, <2>24, <2>25, <2>26, <2>27, <2>28 DEF IInv
<1>16. ASSUME NEW t \in Threads, CloseAcquire(t) PROVE IInv'
  <2>1. obj[t] \in Sessions
        BY <1>16 DEF PlaceInv, Outside, TypeOK, CloseAcquire
  <2>21. TypeOK'
        BY <1>16, <2>1 DEF TypeOK, CloseAcquire
  <2>22. PlaceInv'
        BY <1>16, <2>21 DEF TypeOK, PlaceInv, Outside, CloseAcquire
  <2>23. LockInv'
    <3> SUFFICES ASSUME NEW u \in Threads, pc'[u] \in Locked PROVE mutex'[obj'[u]] = u
        BY DEF LockInv
    <3>1. CASE u = t
          BY <1>16, <2>1, <3>1 DEF CloseAcquire, TypeOK
    <3>2. CASE u # t
      <4>1. pc[u] \in Locked /\ mutex[obj[u]] = u /\ obj[u] \in Sessions
            BY <1>16, <3>2 DEF CloseAcquire, LockInv, PlaceInv, Outside, Locked, Working, TypeOK
      <4>2. obj[u] # obj[t]
            BY <1>16, <4>1 DEF CloseAcquire
      <4> QED BY <1>16, <3>2, <4>1, <4>2 DEF CloseAcquire, TypeOK
    <3> QED BY <3>1, <3>2
  <2>24. StateInv'
        BY <1>16, <2>21 DEF TypeOK, PlaceInv, StateInv, ContextInv, ClosingInv,
        Live, Dead, CloseAcquire
  <2>25. ContextInv'
        BY <1>16, <2>21 DEF TypeOK, PlaceInv, LockInv, StateInv, ContextInv,
        DescriptorInv, Working, Live, Dead, Locked, Outside, Holds,
        CloseAcquire
  <2>26. TableInv'
        BY <1>16, <2>21 DEF TypeOK, PlaceInv, TableInv, ClosingInv, ContextInv,
        IsStored, Live, Dead, Closing, IsIssued, Outside, CloseAcquire
  <2>27. ClosingInv'
        BY <1>16, <2>21 DEF TypeOK, PlaceInv, TableInv, LockInv, ClosingInv,
        StateInv, Closing, IsStored, IsRetired, IsClosing, IsIssued, Live,
        Dead, Outside, Locked, CloseAcquire
  <2>28. DescriptorInv'
        BY <1>16, DescriptorFrame DEF AtCloseWipe, CloseAcquire, TypeOK
  <2> QED BY <2>21, <2>22, <2>23, <2>24, <2>25, <2>26, <2>27, <2>28 DEF IInv
<1>17. ASSUME NEW t \in Threads, CloseFd(t) PROVE IInv'
  <2>21. TypeOK'
        BY <1>17 DEF TypeOK, CloseFd
  <2>22. PlaceInv'
        BY <1>17, <2>21 DEF TypeOK, PlaceInv, Outside, CloseFd
  <2>23. LockInv'
        BY <1>17, <2>21 DEF TypeOK, PlaceInv, LockInv, Locked, Working,
        Outside, CloseFd
  <2>24. StateInv'
        BY <1>17, <2>21 DEF TypeOK, PlaceInv, StateInv, ContextInv, ClosingInv,
        Live, Dead, CloseFd
  <2>25. ContextInv'
        BY <1>17, <2>21 DEF TypeOK, PlaceInv, LockInv, StateInv, ContextInv,
        DescriptorInv, Working, Live, Dead, Locked, Outside, Holds, CloseFd
  <2>26. TableInv'
        BY <1>17, <2>21 DEF TypeOK, PlaceInv, TableInv, ClosingInv, ContextInv,
        IsStored, Live, Dead, Closing, IsIssued, Outside, CloseFd
  <2>27. ClosingInv'
        BY <1>17, ClosingFrame DEF Closing, CloseFd, TypeOK
  <2>28. DescriptorInv'
        BY <1>17, <2>21 DEF TypeOK, PlaceInv, LockInv, StateInv, ContextInv,
        TableInv, ClosingInv, DescriptorInv, Holds, Live, Dead, Closing,
        Locked, Outside, CloseFd
  <2> QED BY <2>21, <2>22, <2>23, <2>24, <2>25, <2>26, <2>27, <2>28 DEF IInv
<1>18. ASSUME NEW t \in Threads, CloseWipe(t) PROVE IInv'
  <2>1. obj[t] \in Sessions /\ pc[t] = "closeWipe" /\ pc' = [pc EXCEPT ![t] = "unlock"]
        /\ state' = [state EXCEPT ![obj[t]] = Cleared]
        /\ UNCHANGED <<obj, scopedFd, fdTable>>
        BY <1>18 DEF CloseWipe, PlaceInv, Outside, TypeOK
  <2>21. TypeOK'
        BY <1>18 DEF TypeOK, CloseWipe
  <2>22. PlaceInv'
        BY <1>18, <2>21 DEF TypeOK, PlaceInv, Outside, CloseWipe
  <2>23. LockInv'
        BY <1>18, <2>21 DEF TypeOK, PlaceInv, LockInv, Locked, Working,
        Outside, CloseWipe
  <2>24. StateInv'
        BY <1>18, <2>21 DEF TypeOK, PlaceInv, StateInv, ContextInv, ClosingInv,
        Live, Dead, CloseWipe
  <2>25. ContextInv'
        BY <1>18, <2>21 DEF TypeOK, PlaceInv, LockInv, StateInv, ContextInv,
        DescriptorInv, Working, Live, Dead, Locked, Outside, Holds, CloseWipe
  <2>26. TableInv'
        BY <1>18, <2>21 DEF TypeOK, PlaceInv, TableInv, ClosingInv, ContextInv,
        IsStored, Live, Dead, Closing, IsIssued, Outside, CloseWipe
  <2>27. ClosingInv'
        BY <1>18, <2>21 DEF TypeOK, PlaceInv, TableInv, LockInv, ClosingInv,
        StateInv, Closing, IsStored, IsRetired, IsClosing, IsIssued, Live,
        Dead, Outside, Locked, CloseWipe
  <2>28. DescriptorInv'
    <3>1. ~Holds(obj[t]) /\ ~Holds(obj[t])'
          BY <2>1 DEF Holds, Dead, TypeOK
    <3>2. \A s \in Sessions : s # obj[t] => (Holds(s)' <=> Holds(s)) /\ state'[s] = state[s]
          BY <2>1 DEF Holds, TypeOK
    <3> QED BY <2>1, <3>1, <3>2 DEF DescriptorInv
  <2> QED BY <2>21, <2>22, <2>23, <2>24, <2>25, <2>26, <2>27, <2>28 DEF IInv
<1>19. ASSUME NEW f \in Fds, ForeignOpen(f) \/ ForeignClose(f) PROVE IInv'
  <2>21. TypeOK'
        BY <1>19 DEF TypeOK, ForeignOpen, ForeignClose
  <2>22. PlaceInv'
        BY <1>19, <2>21 DEF TypeOK, PlaceInv, Outside, ForeignOpen,
        ForeignClose
  <2>23. LockInv'
        BY <1>19, <2>21 DEF TypeOK, PlaceInv, LockInv, Locked, Working,
        Outside, ForeignOpen, ForeignClose
  <2>24. StateInv'
        BY <1>19, <2>21 DEF TypeOK, PlaceInv, StateInv, ContextInv, ClosingInv,
        Live, Dead, ForeignOpen, ForeignClose
  <2>25. ContextInv'
        BY <1>19, <2>21 DEF TypeOK, PlaceInv, LockInv, StateInv, ContextInv,
        DescriptorInv, Working, Live, Dead, Locked, Outside, Holds,
        ForeignOpen, ForeignClose
  <2>26. TableInv'
        BY <1>19, <2>21 DEF TypeOK, PlaceInv, TableInv, ClosingInv, ContextInv,
        IsStored, Live, Dead, Closing, IsIssued, Outside, ForeignOpen,
        ForeignClose
  <2>27. ClosingInv'
        BY <1>19, <2>21 DEF TypeOK, PlaceInv, TableInv, LockInv, ClosingInv,
        StateInv, Closing, IsStored, IsRetired, IsClosing, IsIssued, Live,
        Dead, Outside, Locked, ForeignOpen, ForeignClose
  <2>28. DescriptorInv'
    <3>1. \A s \in Sessions : Holds(s)' <=> Holds(s)
          BY <1>19, <2>21 DEF ForeignOpen, ForeignClose, Holds, TypeOK
    <3>2. \A s \in Sessions : Holds(s) => fdTable[state[s].fd] \in Containers
          BY DEF DescriptorInv, StateInv, Live, Dead, Holds
    <3>3. UNCHANGED <<state, scopedFd>>
            /\ \A g \in Fds : fdTable'[g] = fdTable[g] \/
                              (fdTable[g] \notin Containers /\ fdTable'[g] \notin Containers)
          BY <1>19 DEF ForeignOpen, ForeignClose, TypeOK
    <3>4. \A g \in Fds : fdTable'[g] \in Containers <=> fdTable[g] \in Containers
          BY <3>3
    <3>5. \A s \in Sessions : Holds(s) => fdTable'[state[s].fd] = state[s].file
          BY <3>2, <3>3 DEF DescriptorInv, Holds
    <3>6. \A u \in Threads : scopedFd[u] \in Fds => fdTable'[scopedFd[u]] \in Containers
          BY <3>4 DEF DescriptorInv
    <3> QED BY <3>1, <3>3, <3>4, <3>5, <3>6 DEF DescriptorInv
  <2> QED BY <2>21, <2>22, <2>23, <2>24, <2>25, <2>26, <2>27, <2>28 DEF IInv
<1>20. CASE UNCHANGED vars
      BY <1>20 DEF vars, IInv, TypeOK, PlaceInv, LockInv, StateInv, ContextInv,
         TableInv, ClosingInv, DescriptorInv, Holds, IsStored, IsRetired,
         IsClosing
<1> QED BY <1>1, <1>2, <1>3, <1>4, <1>5, <1>6, <1>7, <1>8, <1>9, <1>10, <1>11, <1>12, <1>13, <1>14, <1>15, <1>16, <1>17, <1>18, <1>19, <1>20 DEF Next, Call, Step

LEMMA InitIInv == Init => IInv
BY InitType DEF Init, IInv, PlaceInv, LockInv, StateInv, ContextInv, TableInv,
   ClosingInv, DescriptorInv, Outside, Locked, Working, Closing, Live, Dead,
   Zeroed, Holds, IsStored, IsRetired, IsClosing

THEOREM Inductive == SafeSpec => []IInv
BY InitIInv, StepIInv, PTL DEF SafeSpec

-----------------------------------------------------------------------------
(* What follows for the callers of the session store *)

(* Type correctness of the whole store. *)
THEOREM TypeCorrect == SafeSpec => []TypeOK
<1>1. IInv => TypeOK
      BY DEF IInv
<1> QED BY <1>1, Inductive, PTL

(* No operation, in any interleaving with nativeOpen and nativeClose and any
   reuse of descriptor numbers, decrypts a sector of one file with the keys of
   another. *)
THEOREM PlaintextCorrect == SafeSpec => []PlaintextOfOwnContainer
<1>1. IInv => PlaintextOfOwnContainer
      BY DEF IInv, ContextInv, PlaintextOfOwnContainer
<1> QED BY <1>1, Inductive, PTL

(* Thread-local key copies exist only inside nativeOpen or under the session's
   operation mutex, where they equal the session's state. *)
THEOREM KeysGuarded == SafeSpec => []KeyCopiesGuarded
<1>1. IInv => KeyCopiesGuarded
      BY DEF IInv, LockInv, ContextInv, KeyCopiesGuarded, Locked, Working
<1> QED BY <1>1, Inductive, PTL

(* A nativeClose that has returned left no key and no descriptor behind. *)
THEOREM KeysWiped == SafeSpec => []ClosedSessionsWiped
<1>1. IInv => ClosedSessionsWiped
  <2> SUFFICES ASSUME IInv, NEW s \in Sessions, IsRetired(s), ~IsClosing(s)
               PROVE  /\ state[s].key = None /\ state[s].fd = -1
                      /\ \A t \in Threads : obj[t] = s => tls[t].key = None
      BY DEF ClosedSessionsWiped
  <2>1. state[s] = Cleared
      BY DEF IInv, ClosingInv
  <2>2. ASSUME NEW t \in Threads, obj[t] = s PROVE tls[t].key = None
    <3>1. pc[t] # "stored" /\ pc[t] # "populated"
        BY <2>2, SessionsAssumption DEF IInv, TableInv, PlaceInv, IsRetired, Outside, TypeOK
    <3> QED BY <2>1, <2>2, <3>1 DEF IInv, ContextInv, Cleared
  <2> QED BY <2>1, <2>2 DEF Cleared
<1> QED BY <1>1, Inductive, PTL

(* Descriptors of containers neither leak nor are closed twice. *)
THEOREM DescriptorsCorrect == SafeSpec => []DescriptorsOwned
<1>1. IInv => DescriptorsOwned
  <2> SUFFICES ASSUME IInv, NEW f \in Fds
               PROVE  /\ fdTable[f] \in Containers => Owners(f) # {}
                      /\ Owners(f) # {} => fdTable[f] \in Containers
                      /\ \A o, p \in Owners(f) : o = p
      BY DEF DescriptorsOwned
  <2>1. Owners(f) = {t \in Threads : scopedFd[t] = f} \cup
                    {s \in Sessions : Holds(s) /\ state[s].fd = f}
      BY DEF Owners, Holds, IInv, TypeOK, StateInv, Dead
  <2>2. \A s \in Sessions : Holds(s) => state[s].file \in Containers
      BY DEF IInv, StateInv, Live, Dead, Holds
  <2> QED BY <2>1, <2>2 DEF IInv, DescriptorInv
<1> QED BY <1>1, Inductive, PTL

(* A descriptor number of the rest of the process is never closed by the
   session store. *)
THEOREM ForeignUntouched == SafeSpec => ForeignDescriptorsUntouched
<1> DEFINE Untouched == \A f \in Fds : fdTable[f] = Foreign =>
                           fdTable'[f] = Foreign \/ ForeignClose(f)
<1>1. ASSUME IInv, [Next]_vars PROVE [Untouched]_vars
  <2> SUFFICES ASSUME Next, NEW f \in Fds, fdTable[f] = Foreign, ~ForeignClose(f)
               PROVE  fdTable'[f] = Foreign
      BY <1>1
  <2> USE DEF Goto, tableVars, objectVars, threadVars
  <2>1. ASSUME NEW t \in Threads, NEW c \in Containers, OpenDup(t, c)
        PROVE  fdTable'[f] = Foreign
      BY <2>1, <1>1, FilesAssumption DEF OpenDup, IInv, TypeOK
  <2>2. ASSUME NEW t \in Threads, OpenFail(t) PROVE fdTable'[f] = Foreign
      BY <2>2, <1>1, FilesAssumption DEF OpenFail, IInv, TypeOK, PlaceInv, DescriptorInv
  <2>3. ASSUME NEW t \in Threads, CloseFd(t) PROVE fdTable'[f] = Foreign
    <3>1. obj[t] \in Sessions /\ Holds(obj[t]) /\ Live(state[obj[t]])
        BY <2>3, <1>1 DEF CloseFd, IInv, TypeOK, PlaceInv, Outside, ClosingInv, Closing,
                          Holds, Live
    <3>2. fdTable[state[obj[t]].fd] \in Containers
        BY <3>1, <1>1 DEF IInv, DescriptorInv, Live
    <3> QED BY <2>3, <3>1, <3>2, <1>1, FilesAssumption DEF CloseFd, IInv, TypeOK
  <2>5. ASSUME NEW g \in Fds, ForeignOpen(g) \/ ForeignClose(g) PROVE fdTable'[f] = Foreign
      BY <2>5, <1>1 DEF ForeignOpen, ForeignClose, IInv, TypeOK
  <2>6. ASSUME NEW t \in Threads, Call(t) PROVE fdTable'[f] = Foreign
      BY <2>1, <2>6 DEF Call, OpenReject, OpFind, CloseErase
  <2>7. ASSUME NEW t \in Threads, SectorDecrypt(t) PROVE UNCHANGED fdTable
      BY <2>7 DEF SectorDecrypt
  <2>8. ASSUME NEW t \in Threads, Step(t) PROVE fdTable'[f] = Foreign
      BY <2>2, <2>3, <2>7, <2>8 DEF Step, OpenPopulate, OpenStore, OpenReturn, OpAcquire,
         OpAbandon, SectorCheck, SectorRead, OpWipe, Unlock, CloseAcquire, CloseWipe
  <2> QED BY <2>5, <2>6, <2>8 DEF Next
<1> QED BY <1>1, Inductive, PTL DEF SafeSpec, ForeignDescriptorsUntouched

(* store_session never hands out, and never replaces, the handle of a live
   session, also when its counter comes round. *)
THEOREM HandlesStable == SafeSpec => LiveHandlesStable
<1> DEFINE Stable == \A h \in Handles : table[h] # None => table'[h] \in {table[h], None}
<1>1. ASSUME IInv, [Next]_vars PROVE [Stable]_vars
  <2> SUFFICES ASSUME Next, NEW h \in Handles, table[h] # None
               PROVE  table'[h] \in {table[h], None}
      BY <1>1
  <2> USE DEF Goto, tableVars, objectVars, threadVars
  <2>1. ASSUME NEW t \in Threads, OpenStore(t) PROVE table'[h] = table[h]
      BY <2>1, <1>1 DEF OpenStore, IsFreshHandle, IInv, TypeOK
  <2>2. ASSUME NEW t \in Threads, NEW g \in Handles, CloseErase(t, g)
        PROVE  table'[h] \in {table[h], None}
      BY <2>2, <1>1 DEF CloseErase, IInv, TypeOK
  <2>3. ASSUME NEW t \in Threads, Call(t) PROVE table'[h] \in {table[h], None}
      BY <2>2, <2>3 DEF Call, OpenDup, OpenReject, OpFind
  <2>4. ASSUME NEW t \in Threads, SectorDecrypt(t) PROVE UNCHANGED table
      BY <2>4 DEF SectorDecrypt
  <2>5. ASSUME NEW t \in Threads, Step(t) PROVE table'[h] = table[h]
      BY <2>1, <2>4, <2>5 DEF Step, OpenFail, OpenPopulate, OpenReturn, OpAcquire,
         OpAbandon, SectorCheck, SectorRead, OpWipe, Unlock, CloseAcquire, CloseFd,
         CloseWipe
  <2> QED BY <2>3, <2>5 DEF Next, ForeignOpen, ForeignClose
<1> QED BY <1>1, Inductive, PTL DEF SafeSpec, LiveHandlesStable
-----------------------------------------------------------------------------
(* The cached verdict on a file system *)

(* From the moment an operation has found its session. *)
Serving == {"found", "work", "checked", "fetched"}

(* A cached exFAT verdict is one that a full validation gave; an operation that
   reads data, or skips the full validation, relies on such a verdict. *)
VerdictInv ==
    /\ \A s \in Sessions : validated[s] = 2 => s \in proven
    /\ \A t \in Threads : pc[t] = "found" => job[t].phase = "detect"
    /\ \A t \in Threads : pc[t] \in Serving /\ job[t].fs = "EXFAT" =>
          /\ job[t].phase = "data" => obj[t] \in proven
          /\ job[t].phase = "validate" /\ ~job[t].full => obj[t] \in proven

LEMMA VerdictFrame ==
    ASSUME TypeOK, VerdictInv, NEW t \in Threads,
           UNCHANGED <<validated, proven>>,
           \A u \in Threads \ {t} :
               pc'[u] = pc[u] /\ obj'[u] = obj[u] /\ job'[u] = job[u],
           \/ pc'[t] \notin Serving
           \/ /\ pc[t] \in Serving /\ pc'[t] # "found"
              /\ obj'[t] = obj[t] /\ job'[t] = job[t]
    PROVE  VerdictInv'
BY DEF VerdictInv, Serving

LEMMA VerdictStep == IInv /\ VerdictInv /\ [Next]_vars => VerdictInv'
<1> SUFFICES ASSUME IInv, VerdictInv, [Next]_vars PROVE VerdictInv'
    OBVIOUS
<1> USE DEF Goto, tableVars, objectVars
<1>0. TypeOK
    BY DEF IInv
<1>1. ASSUME NEW t \in Threads, Call(t) PROVE VerdictInv'
  <2>1. ASSUME NEW h \in Handles, NEW k \in Kinds, OpFind(t, h, k)
        PROVE  VerdictInv'
    <3>1. pc'[t] = "found" /\ job'[t] = NewJob(k) /\ UNCHANGED <<validated, proven>>
        BY <2>1, <1>0 DEF OpFind, TypeOK
    <3>2. \A u \in Threads \ {t} :
              pc'[u] = pc[u] /\ obj'[u] = obj[u] /\ job'[u] = job[u]
        BY <2>1, <1>0 DEF OpFind, TypeOK
    <3> QED BY <3>1, <3>2 DEF VerdictInv, NewJob
  <2>2. CASE \E c \in Containers : OpenDup(t, c)
      BY <2>2, <1>0, VerdictFrame DEF OpenDup, TypeOK, Serving
  <2>3. CASE OpenReject(t)
      BY <2>3, <1>0 DEF OpenReject, VerdictInv, Serving
  <2>4. CASE \E h \in Handles : CloseErase(t, h)
      BY <2>4, <1>0, VerdictFrame DEF CloseErase, TypeOK, Serving
  <2> QED BY <1>1, <2>1, <2>2, <2>3, <2>4 DEF Call
<1>2. ASSUME NEW t \in Threads, SectorDecrypt(t) PROVE VerdictInv'
  <2>1. /\ pc[t] = "fetched" /\ obj' = obj /\ obj[t] \in Sessions
        /\ \A u \in Threads \ {t} : pc'[u] = pc[u] /\ job'[u] = job[u]
    <3>1. pc[t] = "fetched" /\ obj' = obj
        BY <1>2 DEF SectorDecrypt
    <3>2. obj[t] \in Sessions
        BY <3>1, <1>0 DEF TypeOK, IInv, PlaceInv, Outside
    <3>3. ASSUME NEW u \in Threads \ {t} PROVE pc'[u] = pc[u] /\ job'[u] = job[u]
      <4>1. CASE \E fs \in FileSystems : Detect(t, fs)
          BY <4>1, <1>0 DEF Detect, TypeOK
      <4>2. CASE Validate(t)
          BY <4>2, <1>0 DEF Validate, TypeOK
      <4>3. CASE Data(t)
          BY <4>3, <1>0 DEF Data, TypeOK
      <4> QED BY <1>2, <4>1, <4>2, <4>3 DEF SectorDecrypt
    <3> QED BY <3>1, <3>2, <3>3
  <2>2. ASSUME NEW fs \in FileSystems, Detect(t, fs) PROVE VerdictInv'
    <3>1. UNCHANGED <<validated, proven>> /\ pc'[t] \in {"work", "wipe"}
        BY <2>2, <1>0 DEF Detect, TypeOK
    <3>2. CASE pc'[t] = "wipe"
        BY <2>1, <3>1, <3>2, <1>0, VerdictFrame DEF Serving
    <3>3. CASE pc'[t] = "work"
      <4>1. job'[t].phase = "validate" /\ job'[t].full = (validated[obj[t]] # 2)
          BY <2>2, <3>3, <1>0 DEF Detect, TypeOK, Jobs
      <4> QED BY <2>1, <3>1, <3>3, <4>1 DEF VerdictInv, Serving
    <3> QED BY <3>1, <3>2, <3>3
  <2>3. CASE Validate(t)
    <3>1. /\ job[t].phase = "validate" /\ pc'[t] = "work"
          /\ job'[t].phase = "data" /\ job'[t].fs = job[t].fs
          /\ validated' = [validated EXCEPT ![obj[t]] = Verdict(t)]
        BY <2>3, <1>0 DEF Validate, TypeOK, Jobs
    <3>2. proven \subseteq proven' /\ (job[t].fs = "EXFAT" => obj[t] \in proven')
        BY <2>1, <2>3, <3>1 DEF Validate, VerdictInv, Serving
    <3>3. \A s \in Sessions : validated'[s] = 2 => s \in proven'
      <4>1. Verdict(t) = 2 => job[t].fs = "EXFAT" \/ validated[obj[t]] = 2
          BY DEF Verdict
      <4> QED BY <2>1, <3>1, <3>2, <4>1, <1>0 DEF VerdictInv, TypeOK
    <3> QED BY <2>1, <3>1, <3>2, <3>3 DEF VerdictInv
  <2>4. CASE Data(t)
      BY <2>1, <2>4, <1>0, VerdictFrame DEF Data, TypeOK, Serving
  <2> QED BY <1>2, <2>2, <2>3, <2>4 DEF SectorDecrypt
<1>3. ASSUME NEW t \in Threads, Step(t) PROVE VerdictInv'
  <2>1. CASE OpenFail(t) \/ OpenPopulate(t) \/ OpenStore(t) \/ OpenReturn(t)
      BY <2>1, <1>0, VerdictFrame
         DEF OpenFail, OpenPopulate, OpenStore, OpenReturn, TypeOK, Serving
  <2>2. CASE OpAcquire(t) \/ OpAbandon(t) \/ SectorCheck(t) \/ SectorRead(t)
      BY <2>2, <1>0, VerdictFrame
         DEF OpAcquire, OpAbandon, SectorCheck, SectorRead, TypeOK, Serving
  <2>3. CASE OpWipe(t) \/ Unlock(t) \/ CloseAcquire(t) \/ CloseFd(t) \/ CloseWipe(t)
      BY <2>3, <1>0, VerdictFrame
         DEF OpWipe, Unlock, CloseAcquire, CloseFd, CloseWipe, TypeOK, Serving
  <2> QED BY <1>2, <1>3, <2>1, <2>2, <2>3 DEF Step
<1>4. ASSUME NEW f \in Fds, ForeignOpen(f) \/ ForeignClose(f) PROVE VerdictInv'
    BY <1>4 DEF ForeignOpen, ForeignClose, VerdictInv, threadVars
<1>5. CASE UNCHANGED vars
    BY <1>5 DEF vars, VerdictInv, threadVars
<1> QED BY <1>1, <1>3, <1>4, <1>5 DEF Next

(* No operation decrypts data of an exFAT volume in a session that did not pass
   the full validation, however the calls that fill and use the cached verdict
   of the session interleave. *)
THEOREM ExFatValidated == SafeSpec => []ExFatDataValidated
<1>1. Init => VerdictInv
    BY DEF Init, VerdictInv, Serving
<1>2. IInv /\ VerdictInv => ExFatDataValidated
    BY DEF VerdictInv, ExFatDataValidated, Serving
<1> QED BY <1>1, <1>2, VerdictStep, Inductive, PTL DEF SafeSpec

-----------------------------------------------------------------------------
(* The refinement of SessionLifecycle *)

container == [s \in Sessions |-> state[s].key]

(* Steps that touch none of the mapped variables stutter. *)
LEMMA Stutter ==
    ASSUME UNCHANGED <<table, allocated, state, raw>> PROVE UNCHANGED Lifecycle!vars
BY DEF Lifecycle!vars, life, IsStored, IsRetired

(* A step that only changes what one caller is served ends its service. *)
LEMMA Ended ==
    ASSUME TypeOK, NEW t \in Threads, UNCHANGED <<table, allocated, state>>,
           raw' = [raw EXCEPT ![t] = None]
    PROVE  Lifecycle!EndServe(t)
BY DEF Lifecycle!EndServe, life, IsStored, IsRetired

(* The stage of a session while nativeOpen creates it, while it serves, and on
   the two steps of nativeClose that change it. *)
LEMMA Created ==
    ASSUME IInv, NEW t \in Threads, OpenStore(t)
    PROVE  \E s \in Sessions, c \in Containers : Lifecycle!Create(s, c)
<1>1. PICK s \in Sessions \ allocated, h \in Handles :
         /\ table[h] = None
         /\ allocated' = allocated \cup {s}
         /\ state' = [state EXCEPT ![s] = [tls[t] EXCEPT !.fd = scopedFd[t]]]
         /\ table' = [table EXCEPT ![h] = s]
      BY DEF OpenStore, IsFreshHandle
<1>2. Live(tls[t]) /\ tls[t] \in VCSession /\ raw' = raw
      BY DEF OpenStore, Goto, IInv, ContextInv, TypeOK
<1>3. state'[s].key = tls[t].key /\ tls[t].key \in Containers
      BY <1>1, <1>2 DEF IInv, TypeOK, VCSession, Live
<1>4. IsStored(s)' /\ s \in allocated'
      BY <1>1 DEF IsStored, IInv, TypeOK
<1>5. \A r \in Sessions \ {s} : (IsStored(r)' <=> IsStored(r)) /\ state'[r] = state[r]
                                 /\ (r \in allocated' <=> r \in allocated)
      BY <1>1, SessionsAssumption DEF IsStored, IInv, TypeOK
<1>6. life[s] = "absent" /\ life' = [life EXCEPT ![s] = "open"]
      BY <1>1, <1>4, <1>5 DEF life, IsRetired
<1>7. container' = [container EXCEPT ![s] = tls[t].key]
  <2>1. \A r \in Sessions : container'[r] = IF r = s THEN tls[t].key ELSE container[r]
        BY <1>3, <1>5 DEF container
  <2> QED BY <2>1 DEF container
<1> QED BY <1>2, <1>3, <1>6, <1>7 DEF Lifecycle!Create, container

LEMMA Served ==
    ASSUME IInv, NEW t \in Threads, SectorRead(t)
    PROVE  Lifecycle!Serve(t, obj[t]) /\ obj[t] \in Sessions
<1>1. obj[t] \in allocated /\ obj[t] \in Sessions
      BY DEF SectorRead, IInv, PlaceInv, Outside, TypeOK
<1>2. Live(state[obj[t]]) /\ fdTable[tls[t].fd] = state[obj[t]].key
      BY <1>1 DEF SectorRead, IInv, ContextInv, StateInv, Live, Dead, LockInv,
         DescriptorInv, Holds, Working, Locked, TypeOK
<1>3. life[obj[t]] \in {"open", "draining"}
      BY <1>1, <1>2 DEF life, IsRetired, Live
<1>4. raw' = [raw EXCEPT ![t] = container[obj[t]]]
      BY <1>1, <1>2 DEF SectorRead, container
<1>5. UNCHANGED <<life, container>>
      BY DEF SectorRead, tableVars, objectVars, life, container, IsStored, IsRetired
<1> QED BY <1>1, <1>3, <1>4, <1>5 DEF Lifecycle!Serve, container

LEMMA Retired ==
    ASSUME IInv, NEW t \in Threads, NEW h \in Handles, CloseErase(t, h)
    PROVE  \E s \in Sessions : Lifecycle!Retire(s)
<1>1. PICK s \in allocated : /\ s = table[h] /\ s \in Sessions /\ Live(state[s])
                             /\ table' = [table EXCEPT ![h] = None]
                             /\ UNCHANGED <<allocated, state, raw>>
      BY DEF CloseErase, objectVars, IInv, TableInv, TypeOK
<1>2. \A g \in Handles : table'[g] = IF g = h THEN None ELSE table[g]
      BY <1>1 DEF IInv, TypeOK
<1>3. \A g \in Handles : table[g] = s => g = h
      BY <1>1, SessionsAssumption DEF IInv, TableInv
<1>4. ~IsStored(s)' /\ IsStored(s)
      BY <1>1, <1>2, <1>3, SessionsAssumption DEF IsStored
<1>5. \A r \in Sessions \ {s} : IsStored(r)' <=> IsStored(r)
      BY <1>1, <1>2, SessionsAssumption DEF IsStored
<1>6. life[s] = "open" /\ life' = [life EXCEPT ![s] = "draining"]
      BY <1>1, <1>4, <1>5 DEF life, IsRetired, Live
<1> QED BY <1>1, <1>6 DEF Lifecycle!Retire

LEMMA Destroyed ==
    ASSUME IInv, NEW t \in Threads, CloseWipe(t)
    PROVE  \E s \in Sessions : Lifecycle!Destroy(s)
<1>1. /\ obj[t] \in allocated /\ obj[t] \in Sessions /\ ~IsStored(obj[t])
      /\ Live(state[obj[t]]) /\ state' = [state EXCEPT ![obj[t]] = Cleared]
      /\ UNCHANGED <<table, allocated, raw>>
      BY DEF CloseWipe, Goto, tableVars, IInv, PlaceInv, Outside, ClosingInv, Closing, TypeOK
<1>2. \A r \in Sessions : IsStored(r)' <=> IsStored(r)
      BY <1>1 DEF IsStored
<1>3. \A r \in Sessions \ {obj[t]} : state'[r] = state[r]
      BY <1>1 DEF IInv, TypeOK
<1>4. state'[obj[t]] = Cleared /\ ~Cleared.valid /\ Cleared.key = None
      BY <1>1 DEF IInv, TypeOK, Cleared
<1>5. life[obj[t]] = "draining" /\ life' = [life EXCEPT ![obj[t]] = "destroyed"]
      BY <1>1, <1>2, <1>3, <1>4 DEF life, IsRetired, Live
<1>6. container' = [container EXCEPT ![obj[t]] = None]
  <2>1. \A r \in Sessions : container'[r] = IF r = obj[t] THEN None ELSE container[r]
        BY <1>3, <1>4 DEF container
  <2> QED BY <2>1 DEF container
<1> QED BY <1>1, <1>5, <1>6 DEF Lifecycle!Destroy, container

LEMMA StepImplements == IInv /\ [Next]_vars => [Lifecycle!Next]_Lifecycle!vars
<1> SUFFICES ASSUME IInv, Next PROVE [Lifecycle!Next]_Lifecycle!vars
    BY Stutter DEF vars, tableVars, objectVars, threadVars
<1> USE DEF tableVars, objectVars, threadVars
<1>0. TypeOK
      BY DEF IInv
<1>1. ASSUME NEW t \in Threads, Call(t) PROVE [Lifecycle!Next]_Lifecycle!vars
  <2>1. ASSUME NEW h \in Handles, CloseErase(t, h) PROVE Lifecycle!Next
        BY <2>1, Retired DEF Lifecycle!Next
  <2>2. CASE UNCHANGED <<table, allocated, state, raw>>
        BY <2>2, Stutter
  <2> QED BY <1>1, <2>1, <2>2 DEF Call, OpenDup, OpenReject, OpFind
<1>2. ASSUME NEW t \in Threads, Step(t) PROVE [Lifecycle!Next]_Lifecycle!vars
  <2>1. CASE OpenStore(t)
        BY <2>1, Created DEF Lifecycle!Next
  <2>2. CASE SectorRead(t)
        BY <2>2, Served DEF Lifecycle!Next
  <2>3. CASE OpAbandon(t)
        BY <2>3, <1>0, Ended DEF OpAbandon, Lifecycle!Next
  <2>4. CASE SectorDecrypt(t)
        BY <2>4, <1>0, DecryptFrame, Ended DEF Lifecycle!Next
  <2>5. CASE CloseWipe(t)
        BY <2>5, Destroyed DEF Lifecycle!Next
  <2>6. CASE UNCHANGED <<table, allocated, state, raw>>
        BY <2>6, Stutter
  <2> QED BY <1>2, <2>1, <2>2, <2>3, <2>4, <2>5, <2>6 DEF Step, OpenFail, OpenPopulate,
         OpenReturn, OpAcquire, SectorCheck, OpWipe, Unlock, CloseAcquire, CloseFd
<1>3. ASSUME NEW f \in Fds, ForeignOpen(f) \/ ForeignClose(f)
      PROVE  [Lifecycle!Next]_Lifecycle!vars
      BY <1>3, Stutter DEF ForeignOpen, ForeignClose
<1> QED BY <1>1, <1>2, <1>3 DEF Next

LEMMA InitImplements == Init => Lifecycle!Init
BY DEF Init, Lifecycle!Init, life, Zeroed

(* Whatever the threads do, a session serves only the container it was opened
   on, only between nativeOpen and the wipe of its nativeClose, and loses its
   keys for good with that wipe. *)
THEOREM Implementation == SafeSpec => Lifecycle!SafeSpec
BY InitImplements, StepImplements, Inductive, PTL DEF SafeSpec, Lifecycle!SafeSpec
=============================================================================
