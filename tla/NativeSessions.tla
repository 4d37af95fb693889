--------------------------- MODULE NativeSessions ---------------------------
(***************************************************************************)
(* The JNI session store of veracrypt_jni.cpp: the handle table, the       *)
(* ManagedSession objects with their operation mutexes, the thread-local   *)
(* key copy, and the duplicated container descriptors, under any           *)
(* interleaving of nativeOpen, nativeListDir, nativeReadFile,              *)
(* nativeGetFileSystemType and nativeClose calls.                          *)
(*                                                                         *)
(* A key is represented by the container it decrypts and a file by its     *)
(* identity (st_dev, st_ino). Descriptor numbers are reused by the kernel  *)
(* and by the rest of the process (Foreign).                               *)
(***************************************************************************)
EXTENDS Integers, FiniteSets

CONSTANTS Threads,        \* threads that call into JNI
          Sessions,       \* ManagedSession allocations (bounds nativeOpen)
          Containers,     \* container files
          Fds,            \* descriptor numbers fcntl may return
          HandleModulus,  \* handles are taken modulo this (2^63 in the code)
          Foreign,        \* any file of the process that is not a container
          None

ASSUME FdsAssumption == Fds \subseteq Nat \ {0}
ASSUME FilesAssumption ==
    Foreign \notin Containers /\ None \notin Containers /\ None # Foreign
ASSUME SessionsAssumption ==
    None \notin Sessions /\ Sessions \cap Threads = {}
ASSUME ThreadsAssumption == None \notin Threads
ASSUME HandleAssumption == HandleModulus \in Nat \ {0, 1}

VARIABLES table,       \* g_sessions: handle -> session, None when absent
          nextHandle,  \* g_next_session_handle
          allocated,   \* ManagedSession objects constructed so far
          state,       \* ManagedSession::state
          mutex,       \* holder of ManagedSession::operationMutex
          validated,   \* ManagedSession::validatedFsType
          fdTable,     \* kernel: the file behind each descriptor number
          pc, obj,     \* per thread: place in the call, its shared_ptr
          tls,         \* per thread: g_session
          scopedFd,    \* per thread: the ScopedFd of nativeOpen
          job,         \* per thread: what the operation is doing
          raw,         \* per thread: file whose ciphertext was just read
          proven       \* history: sessions whose exFAT passed full validation

tableVars == <<table, nextHandle>>
objectVars == <<allocated, state, mutex, validated>>
threadVars == <<pc, obj, tls, scopedFd, job, raw>>
vars == <<tableVars, objectVars, fdTable, threadVars, proven>>

Handles == 1 .. (HandleModulus - 1)
Files == Containers \cup {Foreign}

(***************************************************************************)
(* VCSession. A thread_local one starts zeroed (fd 0, not valid);          *)
(* clear_session_state leaves fd = -1.                                     *)
(***************************************************************************)
VCSession == [valid: BOOLEAN, key: Containers \cup {None},
              fd: Fds \cup {-1, 0}, file: Containers \cup {None}]
Zeroed == [valid |-> FALSE, key |-> None, fd |-> 0, file |-> None]
Cleared == [valid |-> FALSE, key |-> None, fd |-> -1, file |-> None]

(***************************************************************************)
(* What an operation does between taking and releasing the mutex: detect   *)
(* the file system, validate it, and read data; fs is detect_filesystem's  *)
(* answer and full is needsFullValidation.                                 *)
(***************************************************************************)
Kinds == {"list", "read", "type"}
FileSystems == {"FAT32", "EXFAT", "OTHER"}
Jobs == [kind: Kinds, phase: {"detect", "validate", "data"},
         fs: FileSystems, full: BOOLEAN]
NewJob(k) == [kind |-> k, phase |-> "detect", fs |-> "OTHER", full |-> FALSE]
NoJob == NewJob("type")

Pcs == {"idle", "opened", "populated", "stored",
        "found", "work", "checked", "fetched", "wipe", "unlock",
        "erased", "closeFd", "closeWipe"}

TypeOK ==
    /\ table \in [Handles -> Sessions \cup {None}]
    /\ nextHandle \in 0 .. (HandleModulus - 1)
    /\ allocated \subseteq Sessions
    /\ state \in [Sessions -> VCSession]
    /\ mutex \in [Sessions -> Threads \cup {None}]
    /\ validated \in [Sessions -> {0, 1, 2}]
    /\ fdTable \in [Fds -> Files \cup {None}]
    /\ pc \in [Threads -> Pcs]
    /\ obj \in [Threads -> Sessions \cup {None}]
    /\ tls \in [Threads -> VCSession]
    /\ scopedFd \in [Threads -> Fds \cup {-1}]
    /\ job \in [Threads -> Jobs]
    /\ raw \in [Threads -> Files \cup {None}]
    /\ proven \subseteq Sessions

Init ==
    /\ table = [h \in Handles |-> None]
    /\ nextHandle = 1
    /\ allocated = {}
    /\ state = [s \in Sessions |-> Zeroed]
    /\ mutex = [s \in Sessions |-> None]
    /\ validated = [s \in Sessions |-> 0]
    /\ fdTable = [f \in Fds |-> None]
    /\ pc = [t \in Threads |-> "idle"]
    /\ obj = [t \in Threads |-> None]
    /\ tls = [t \in Threads |-> Zeroed]
    /\ scopedFd = [t \in Threads |-> -1]
    /\ job = [t \in Threads |-> NoJob]
    /\ raw = [t \in Threads |-> None]
    /\ proven = {}

Goto(t, from, to) == pc[t] = from /\ pc' = [pc EXCEPT ![t] = to]

-----------------------------------------------------------------------------
(* nativeOpen *)

(* Clears the thread's g_session and duplicates the caller's descriptor of
   container c into any free number. MayOpen bounds nativeOpen by the
   allocations left. *)
MayOpen ==
    LET opening == Cardinality({t \in Threads : pc[t] \in {"opened", "populated"}})
    IN  opening < Cardinality(Sessions \ allocated)

OpenDup(t, c) ==
    /\ MayOpen
    /\ Goto(t, "idle", "opened")
    /\ tls' = [tls EXCEPT ![t] = Cleared]
    /\ \E f \in Fds :
         /\ fdTable[f] = None
         /\ fdTable' = [fdTable EXCEPT ![f] = c]
         /\ scopedFd' = [scopedFd EXCEPT ![t] = f]
    /\ UNCHANGED <<tableVars, objectVars, obj, job, raw, proven>>

(* Bad arguments, or no descriptor left for fcntl. *)
OpenReject(t) ==
    /\ pc[t] = "idle"
    /\ tls' = [tls EXCEPT ![t] = Cleared]
    /\ UNCHANGED <<tableVars, objectVars, fdTable, pc, obj, scopedFd, job, raw,
                   proven>>

(* A copy of the function without the ScopedFd guard. *)
OpenFailLeak(t) ==
    /\ Goto(t, "opened", "idle")
    /\ scopedFd' = [scopedFd EXCEPT ![t] = -1]
    /\ UNCHANGED <<tableVars, objectVars, fdTable, obj, tls, job, raw, proven>>

(* Every error return between the duplication and the population of
   g_session: ~ScopedFd closes the duplicate. *)
OpenFail(t) ==
    /\ Goto(t, "opened", "idle")
    /\ fdTable' = [fdTable EXCEPT ![scopedFd[t]] = None]
    /\ scopedFd' = [scopedFd EXCEPT ![t] = -1]
    /\ UNCHANGED <<tableVars, objectVars, obj, tls, job, raw, proven>>

(* The header decrypted and validated: keys, identity and descriptor go to
   the thread's g_session. *)
OpenPopulate(t) ==
    /\ Goto(t, "opened", "populated")
    /\ LET c == fdTable[scopedFd[t]] IN
       tls' = [tls EXCEPT ![t] = [valid |-> TRUE, key |-> c,
                                  fd |-> scopedFd[t], file |-> c]]
    /\ UNCHANGED <<tableVars, objectVars, fdTable, obj, scopedFd, job, raw,
                   proven>>

(* The counter values store_session's loop passes over before it reaches h. *)
Skipped(h) ==
    IF nextHandle <= h THEN nextHandle .. (h - 1)
    ELSE (nextHandle .. (HandleModulus - 1)) \cup (0 .. (h - 1))

(* A store_session that trusts the counter and replaces what is there. *)
IsNextHandle(h) == Skipped(h) \subseteq {0}

(* store_session's choice: the first counter value that is neither zero nor
   the handle of a live session. *)
IsFreshHandle(h) ==
    /\ table[h] = None
    /\ \A g \in Skipped(h) \ {0} : table[g] # None

(* The counter after handle h, masked with INT64_MAX. *)
After(h) == IF h = HandleModulus - 1 THEN 0 ELSE h + 1

(* make_shared, the copy of g_session with the released descriptor, and
   store_session's loop under g_sessions_mutex, which goes round for as long as
   every handle is taken. *)
OpenStore(t) ==
    /\ Goto(t, "populated", "stored")
    /\ \E s \in Sessions \ allocated, h \in Handles :
         /\ IsFreshHandle(h)
         /\ allocated' = allocated \cup {s}
         /\ state' = [state EXCEPT ![s] = [tls[t] EXCEPT !.fd = scopedFd[t]]]
         /\ table' = [table EXCEPT ![h] = s]
         /\ nextHandle' = After(h)
         /\ obj' = [obj EXCEPT ![t] = s]
    /\ scopedFd' = [scopedFd EXCEPT ![t] = -1]
    /\ UNCHANGED <<mutex, validated, fdTable, tls, job, raw, proven>>

(* Without ScopedFd::release, the destructor closes the session's descriptor. *)
OpenReturnUnreleased(t) ==
    /\ Goto(t, "stored", "idle")
    /\ tls' = [tls EXCEPT ![t] = Cleared]
    /\ obj' = [obj EXCEPT ![t] = None]
    /\ fdTable' = [fdTable EXCEPT ![tls[t].fd] = None]
    /\ UNCHANGED <<tableVars, objectVars, scopedFd, job, raw, proven>>

(* clear_session_state(g_session) and the return of the handle. *)
OpenReturn(t) ==
    /\ Goto(t, "stored", "idle")
    /\ tls' = [tls EXCEPT ![t] = Cleared]
    /\ obj' = [obj EXCEPT ![t] = None]
    /\ UNCHANGED <<tableVars, objectVars, fdTable, scopedFd, job, raw, proven>>

-----------------------------------------------------------------------------
(* nativeListDir, nativeReadFile, nativeGetFileSystemType *)

find_session(h) == table[h]

(* Callers only have handles that nativeOpen has returned. *)
IsIssued(h) == \A t \in Threads : pc[t] = "stored" => obj[t] # table[h]

(* A handle without a session makes the call return at once. *)
OpFind(t, h, k) ==
    /\ find_session(h) # None /\ IsIssued(h)
    /\ Goto(t, "idle", "found")
    /\ obj' = [obj EXCEPT ![t] = find_session(h)]
    /\ job' = [job EXCEPT ![t] = NewJob(k)]
    /\ UNCHANGED <<tableVars, objectVars, fdTable, tls, scopedFd, raw, proven>>

(* The operation lock and the ScopedSessionContext copy. *)
OpAcquire(t) ==
    /\ Goto(t, "found", "work")
    /\ mutex[obj[t]] = None
    /\ mutex' = [mutex EXCEPT ![obj[t]] = t]
    /\ tls' = [tls EXCEPT ![t] = state[obj[t]]]
    /\ UNCHANGED <<tableVars, allocated, state, validated, fdTable, obj,
                   scopedFd, job, raw, proven>>

(* An early return that skips the destructors. *)
OpAbandonLocked(t) ==
    /\ pc[t] \in {"work", "checked", "fetched"}
    /\ pc' = [pc EXCEPT ![t] = "idle"]
    /\ raw' = [raw EXCEPT ![t] = None]
    /\ UNCHANGED <<tableVars, objectVars, fdTable, obj, tls, scopedFd, job,
                   proven>>

(* An unsafe path, an unknown file system, a structure that does not
   validate, a sector out of bounds: the call gives up and unwinds. *)
OpAbandon(t) ==
    /\ pc[t] \in {"work", "checked", "fetched"}
    /\ pc' = [pc EXCEPT ![t] = "wipe"]
    /\ raw' = [raw EXCEPT ![t] = None]
    /\ UNCHANGED <<tableVars, objectVars, fdTable, obj, tls, scopedFd, job,
                   proven>>

current_fd_matches_session(t) ==
    /\ tls[t].valid
    /\ tls[t].fd \in Fds
    /\ fdTable[tls[t].fd] = tls[t].file

(* vc_read_sector up to its bound checks. *)
SectorCheck(t) ==
    /\ pc[t] = "work"
    /\ pc' = [pc EXCEPT ![t] = IF current_fd_matches_session(t)
                               THEN "checked" ELSE "wipe"]
    /\ UNCHANGED <<tableVars, objectVars, fdTable, obj, tls, scopedFd, job, raw,
                   proven>>

(* read_full_at: pread on the number, whatever file it denotes by now. *)
SectorRead(t) ==
    /\ pc[t] = "checked"
    /\ raw' = [raw EXCEPT ![t] = fdTable[tls[t].fd]]
    /\ pc' = [pc EXCEPT ![t] = IF raw'[t] = None THEN "wipe" ELSE "fetched"]
    /\ UNCHANGED <<tableVars, objectVars, fdTable, obj, tls, scopedFd, job,
                   proven>>

(* A decrypted boot sector decides the file system; the type query ends. *)
Detect(t, fs) ==
    /\ job[t].phase = "detect"
    /\ IF job[t].kind = "type" \/ fs = "OTHER"
       THEN pc' = [pc EXCEPT ![t] = "wipe"] /\ UNCHANGED job
       ELSE /\ pc' = [pc EXCEPT ![t] = "work"]
            /\ job' = [job EXCEPT ![t].phase = "validate", ![t].fs = fs,
                                  ![t].full = validated[obj[t]] # 2]
    /\ UNCHANGED <<validated, proven>>

(* The verdict an operation caches; the first form takes any accepted listing
   for a full exFAT validation. *)
VerdictTooWide(t) == IF job[t].fs = "EXFAT" \/ job[t].kind = "list" THEN 2
                     ELSE validated[obj[t]]
Verdict(t) == IF job[t].fs = "EXFAT" THEN 2
              ELSE IF job[t].kind = "list" THEN 1 ELSE validated[obj[t]]

(* fat32_read_bpb, or exfat_read_bpb and exfat_validate_root_metadata, accept
   the volume. Only nativeListDir records a FAT32 verdict. *)
Validate(t) ==
    /\ job[t].phase = "validate"
    /\ pc' = [pc EXCEPT ![t] = "work"]
    /\ job' = [job EXCEPT ![t].phase = "data"]
    /\ validated' = [validated EXCEPT ![obj[t]] = Verdict(t)]
    /\ proven' = IF job[t].fs = "EXFAT" /\ job[t].full
                 THEN proven \cup {obj[t]} ELSE proven

(* Directory or file content; one sector stands for all of them. *)
Data(t) ==
    /\ job[t].phase = "data"
    /\ pc' = [pc EXCEPT ![t] = "wipe"]
    /\ UNCHANGED <<job, validated, proven>>

(* aes256_xts_decrypt with the thread's key copy, and what follows from it. *)
SectorDecrypt(t) ==
    /\ pc[t] = "fetched"
    /\ (\E fs \in FileSystems : Detect(t, fs)) \/ Validate(t) \/ Data(t)
    /\ raw' = [raw EXCEPT ![t] = None]
    /\ UNCHANGED <<tableVars, allocated, state, mutex, fdTable, obj, tls,
                   scopedFd>>

(* A context that is not cleared on the way out. *)
OpKeepContext(t) ==
    /\ Goto(t, "wipe", "unlock")
    /\ UNCHANGED <<tableVars, objectVars, fdTable, obj, tls, scopedFd, job, raw,
                   proven>>

(* ~ScopedSessionContext. *)
OpWipe(t) ==
    /\ Goto(t, "wipe", "unlock")
    /\ tls' = [tls EXCEPT ![t] = Cleared]
    /\ UNCHANGED <<tableVars, objectVars, fdTable, obj, scopedFd, job, raw,
                   proven>>

(* ~lock_guard, and the return. *)
Unlock(t) ==
    /\ Goto(t, "unlock", "idle")
    /\ mutex' = [mutex EXCEPT ![obj[t]] = None]
    /\ obj' = [obj EXCEPT ![t] = None]
    /\ job' = [job EXCEPT ![t] = NoJob]
    /\ UNCHANGED <<tableVars, allocated, state, validated, fdTable, tls,
                   scopedFd, raw, proven>>

-----------------------------------------------------------------------------
(* nativeClose *)

(* Only the call that erases the handle goes on. *)
CloseErase(t, h) ==
    /\ table[h] # None /\ IsIssued(h)
    /\ Goto(t, "idle", "erased")
    /\ obj' = [obj EXCEPT ![t] = table[h]]
    /\ table' = [table EXCEPT ![h] = None]
    /\ UNCHANGED <<nextHandle, objectVars, fdTable, tls, scopedFd, job, raw,
                   proven>>

(* Closing under the table lock alone. *)
CloseUnlocked(t) ==
    /\ Goto(t, "erased", "closeFd")
    /\ UNCHANGED <<tableVars, objectVars, fdTable, obj, tls, scopedFd, job, raw,
                   proven>>

CloseAcquire(t) ==
    /\ Goto(t, "erased", "closeFd")
    /\ mutex[obj[t]] = None
    /\ mutex' = [mutex EXCEPT ![obj[t]] = t]
    /\ UNCHANGED <<tableVars, allocated, state, validated, fdTable, obj, tls,
                   scopedFd, job, raw, proven>>

CloseFd(t) ==
    /\ Goto(t, "closeFd", "closeWipe")
    /\ LET fd == state[obj[t]].fd IN
       fdTable' = IF fd \in Fds THEN [fdTable EXCEPT ![fd] = None] ELSE fdTable
    /\ UNCHANGED <<tableVars, objectVars, obj, tls, scopedFd, job, raw, proven>>

(* Invalidates the session and forgets its key buffers. *)
CloseInvalidate(t) ==
    /\ Goto(t, "closeWipe", "unlock")
    /\ state' = [state EXCEPT ![obj[t]].valid = FALSE, ![obj[t]].fd = -1]
    /\ UNCHANGED <<tableVars, allocated, mutex, validated, fdTable, obj, tls,
                   scopedFd, job, raw, proven>>

CloseWipe(t) ==
    /\ Goto(t, "closeWipe", "unlock")
    /\ state' = [state EXCEPT ![obj[t]] = Cleared]
    /\ UNCHANGED <<tableVars, allocated, mutex, validated, fdTable, obj, tls,
                   scopedFd, job, raw, proven>>

-----------------------------------------------------------------------------
(* The rest of the process takes and returns descriptor numbers. *)

ForeignOpen(f) ==
    /\ fdTable[f] = None
    /\ fdTable' = [fdTable EXCEPT ![f] = Foreign]
    /\ UNCHANGED <<tableVars, objectVars, threadVars, proven>>

ForeignClose(f) ==
    /\ fdTable[f] = Foreign
    /\ fdTable' = [fdTable EXCEPT ![f] = None]
    /\ UNCHANGED <<tableVars, objectVars, threadVars, proven>>

Call(t) ==
    \/ \E c \in Containers : OpenDup(t, c)
    \/ OpenReject(t)
    \/ \E h \in Handles, k \in Kinds : OpFind(t, h, k)
    \/ \E h \in Handles : CloseErase(t, h)

Step(t) ==
    \/ OpenFail(t) \/ OpenPopulate(t) \/ OpenStore(t) \/ OpenReturn(t)
    \/ OpAcquire(t) \/ OpAbandon(t) \/ SectorCheck(t) \/ SectorRead(t)
    \/ SectorDecrypt(t) \/ OpWipe(t) \/ Unlock(t)
    \/ CloseAcquire(t) \/ CloseFd(t) \/ CloseWipe(t)

Next ==
    \/ \E t \in Threads : Call(t) \/ Step(t)
    \/ \E f \in Fds : ForeignOpen(f) \/ ForeignClose(f)

SafeSpec == Init /\ [][Next]_vars

(* The scheduler runs every thread that can go on. Nothing is assumed of
   std::mutex: a waiter is only sure of the lock once it stays free. *)
Fairness == \A t \in Threads : WF_vars(Step(t))

Spec == SafeSpec /\ Fairness

-----------------------------------------------------------------------------
(* Properties *)

IsStored(s) == \E h \in Handles : table[h] = s

(* Removed from the table: no later call can reach the session. *)
IsRetired(s) == s \in allocated /\ ~IsStored(s)

IsClosing(s) == \E t \in Threads :
                  obj[t] = s /\ pc[t] \in {"erased", "closeFd", "closeWipe"}

(* A sector is decrypted with the keys of the very file it was read from: no
   call sees a descriptor number that a racing nativeClose freed and somebody
   else took (nativeReadFile, nativeListDir against nativeClose). *)
PlaintextOfOwnContainer ==
    \A t \in Threads : pc[t] = "fetched" => raw[t] = tls[t].key

(* A thread-local key copy exists only inside nativeOpen or under the operation
   mutex of its session, and there it is the session's current state. *)
KeyCopiesGuarded ==
    \A t \in Threads : tls[t].key # None =>
        \/ pc[t] \in {"populated", "stored"}
        \/ /\ pc[t] \in {"work", "checked", "fetched", "wipe"}
           /\ mutex[obj[t]] = t
           /\ tls[t] = state[obj[t]]

(* When the nativeClose that erased a handle has returned, neither the session
   nor any thread still working on it holds its keys or its descriptor. *)
ClosedSessionsWiped ==
    \A s \in Sessions : IsRetired(s) /\ ~IsClosing(s) =>
        /\ state[s].key = None /\ state[s].fd = -1
        /\ \A t \in Threads : obj[t] = s => tls[t].key = None

(* Who must close descriptor f: an open in progress, or a session whose
   nativeClose has not reached close(). *)
Owners(f) ==
    {t \in Threads : scopedFd[t] = f} \cup
    {s \in allocated : /\ state[s].fd = f
                       /\ \A t \in Threads : obj[t] = s => pc[t] # "closeWipe"}

(* Every duplicated container descriptor has exactly one owner, whatever path
   nativeOpen took, and every owner's number is still open on a container: none
   leaks and none is closed twice. *)
DescriptorsOwned ==
    \A f \in Fds :
        /\ fdTable[f] \in Containers => Owners(f) # {}
        /\ Owners(f) # {} => fdTable[f] \in Containers
        /\ \A o, p \in Owners(f) : o = p

(* The session store never closes a descriptor number that belongs to the rest
   of the process (ScopedFd and the close in nativeClose). *)
ForeignDescriptorsUntouched ==
    [][\A f \in Fds : fdTable[f] = Foreign =>
           fdTable'[f] = Foreign \/ ForeignClose(f)]_vars

(* A live handle names the same session until it is closed, also when the
   counter of store_session comes round to it again. *)
LiveHandlesStable ==
    [][\A h \in Handles : table[h] # None => table'[h] \in {table[h], None}]_vars

(* Directory or file content of an exFAT volume is only decrypted in a session
   that passed the full validation, which later operations skip because of the
   cached validatedFsType. *)
ExFatDataValidated ==
    \A t \in Threads :
        pc[t] = "fetched" /\ job[t].phase = "data" /\ job[t].fs = "EXFAT"
            => obj[t] \in proven

(* Once a session is retired, the close itself and every call that had already
   found the session come to an end. *)
RetiredCallsEnd ==
    \A t \in Threads, s \in Sessions :
        (IsRetired(s) /\ obj[t] = s) ~> obj[t] # s

(* The store implements the lifecycle it promises: the stage of a session is
   read off the table and its valid flag. *)
life == [s \in Sessions |->
           CASE s \notin allocated -> "absent"
             [] s \in allocated /\ IsStored(s) -> "open"
             [] IsRetired(s) /\ state[s].valid -> "draining"
             [] OTHER -> "destroyed"]

Lifecycle == INSTANCE SessionLifecycle WITH
               life <- life,
               container <- [s \in Sessions |-> state[s].key],
               served <- raw

(* Every behaviour of the store, with its locks and key copies, is one of the
   session lifecycle, and a retired session is eventually destroyed. *)
ImplementsLifecycle == Lifecycle!Spec
=============================================================================
