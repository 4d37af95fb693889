-------------------------- MODULE ContainerSession --------------------------
(***************************************************************************)
(* The class ContainerSession of ContainerSession.kt: the closed flag, the *)
(* gate, the single-thread worker with its queue, and the cancellation     *)
(* callbacks that streams register with onClose.                           *)
(*                                                                         *)
(* An element of Calls is one invocation of list, read or fileSystemType,  *)
(* an element of Closers one invocation of close, and an element of Regs   *)
(* one registration with onClose; its number is the place of its id in the *)
(* order in which the hash table is traversed. Each runs on a thread of    *)
(* its own.                                                                *)
(***************************************************************************)
EXTENDS Integers, Sequences, FiniteSets

CONSTANTS Calls, Closers, Regs, None

ASSUME RegsAssumption == Regs \subseteq Nat
ASSUME ProcessAssumption ==
    /\ Calls \cap Closers = {}
    /\ None \notin Calls \cup Closers \cup Regs

VARIABLES closed,     \* the AtomicBoolean
          gate,       \* holder of the monitor
          queue,      \* tasks submitted and not yet taken
          running,    \* the task on the worker thread, or None
          shut,       \* worker.shutdown() was called
          native,     \* the native session behind the handle
          callPc, answer,      \* per call
          closePc, closeEnd,   \* per close(): place, and how it ended
          regPc, fired,        \* per registration: place, invocations of cancel
          callbacks,  \* keys of cancellationCallbacks
          cursor,     \* next() of the iterator in close(), None at its end
          early       \* history: registered when close() won the flag

callVars == <<callPc, answer>>
closeVars == <<closePc, closeEnd>>
regVars == <<regPc, fired, callbacks>>
workVars == <<queue, running, shut, native>>
vars == <<closed, gate, workVars, callVars, closeVars, regVars, cursor, early>>

(* A task is named by the invocation that submitted it. *)
Tasks == Calls \cup Closers
Answers == {"none", "served", "stale", "rejected", "interrupted"}

TypeOK ==
    /\ closed \in BOOLEAN /\ shut \in BOOLEAN
    /\ gate \in Tasks \cup {None}
    /\ queue \in Seq(Tasks) /\ running \in Tasks \cup {None}
    /\ native \in {"open", "destroyed"}
    /\ callPc \in [Calls -> {"new", "check", "submit", "wait", "done"}]
    /\ answer \in [Calls -> Answers]
    /\ closePc \in [Closers -> {"new", "start", "iterate", "gate", "submit",
                                "wait", "shutdown", "done"}]
    /\ closeEnd \in [Closers -> {"none", "already", "closed", "interrupted"}]
    /\ regPc \in [Regs -> {"new", "put", "recheck", "retract", "registered",
                           "released"}]
    /\ fired \in [Regs -> 0 .. 2]
    /\ callbacks \subseteq Regs
    /\ cursor \in Regs \cup {None}
    /\ early \subseteq Regs

Init ==
    /\ closed = FALSE /\ shut = FALSE /\ gate = None
    /\ queue = <<>> /\ running = None /\ native = "open"
    /\ callPc = [c \in Calls |-> "new"]
    /\ answer = [c \in Calls |-> "none"]
    /\ closePc = [k \in Closers |-> "new"]
    /\ closeEnd = [k \in Closers |-> "none"]
    /\ regPc = [r \in Regs |-> "new"]
    /\ fired = [r \in Regs |-> 0]
    /\ callbacks = {} /\ cursor = None /\ early = {}

Queued(x) == \E i \in DOMAIN queue : queue[i] = x
Finished(x) == ~Queued(x) /\ running # x

-----------------------------------------------------------------------------
(* execute *)

MoveCall(c, from, to) == callPc[c] = from /\ callPc' = [callPc EXCEPT ![c] = to]

ExecEnter(c) ==
    /\ MoveCall(c, "new", "check")
    /\ gate = None
    /\ gate' = c
    /\ UNCHANGED <<closed, workVars, answer, closeVars, regVars, cursor, early>>

(* The same check made before the monitor is taken for the submission only. *)
ExecCheckOutside(c) ==
    /\ MoveCall(c, "check", IF closed THEN "done" ELSE "submit")
    /\ gate' = None
    /\ answer' = [answer EXCEPT ![c] = IF closed THEN "rejected" ELSE @]
    /\ UNCHANGED <<closed, workVars, closeVars, regVars, cursor, early>>

(* check(!closed.get()) with the monitor held; the exception releases it. *)
ExecCheck(c) ==
    /\ MoveCall(c, "check", IF closed THEN "done" ELSE "submit")
    /\ gate' = IF closed THEN None ELSE gate
    /\ answer' = [answer EXCEPT ![c] = IF closed THEN "rejected" ELSE @]
    /\ UNCHANGED <<closed, workVars, closeVars, regVars, cursor, early>>

(* worker.submit, which a worker that is shut down refuses. *)
ExecSubmit(c) ==
    /\ MoveCall(c, "submit", IF shut THEN "done" ELSE "wait")
    /\ queue' = IF shut THEN queue ELSE Append(queue, c)
    /\ answer' = [answer EXCEPT ![c] = IF shut THEN "rejected" ELSE @]
    /\ gate' = None
    /\ UNCHANGED <<closed, running, shut, native, closeVars, regVars, cursor,
                   early>>

(* future.get() *)
ExecGet(c) ==
    /\ MoveCall(c, "wait", "done")
    /\ answer[c] # "none"
    /\ UNCHANGED <<closed, gate, workVars, answer, closeVars, regVars, cursor,
                   early>>

(* future.get() throws InterruptedException; the task stays with the worker. *)
ExecInterrupted(c) ==
    /\ MoveCall(c, "wait", "done")
    /\ answer[c] = "none"
    /\ answer' = [answer EXCEPT ![c] = "interrupted"]
    /\ UNCHANGED <<closed, gate, workVars, closeVars, regVars, cursor, early>>

-----------------------------------------------------------------------------
(* The worker thread *)

WorkerTake ==
    /\ running = None /\ queue # <<>>
    /\ running' = Head(queue) /\ queue' = Tail(queue)
    /\ UNCHANGED <<closed, gate, shut, native, callVars, closeVars, regVars,
                   cursor, early>>

(* nativeListDir, nativeReadFile or nativeGetFileSystemType. *)
WorkerRun ==
    /\ running \in Calls
    /\ running' = None
    /\ answer' = [answer EXCEPT ![running] =
                    IF @ # "none" THEN @
                    ELSE IF native = "open" THEN "served" ELSE "stale"]
    /\ UNCHANGED <<closed, gate, queue, shut, native, callPc, closeVars, regVars,
                   cursor, early>>

(* nativeClose *)
WorkerClose ==
    /\ running \in Closers
    /\ running' = None
    /\ native' = "destroyed"
    /\ UNCHANGED <<closed, gate, queue, shut, callVars, closeVars, regVars, cursor,
                   early>>

-----------------------------------------------------------------------------
(* close *)

MoveClose(k, from, to) == closePc[k] = from /\ closePc' = [closePc EXCEPT ![k] = to]

(* ConcurrentHashMap's iterator holds the next entry ahead of its use: entries
   put behind it are missed, an entry removed under it is still returned. *)
FirstFrom(n) ==
    IF \E r \in callbacks : r >= n
    THEN CHOOSE r \in callbacks : r >= n /\ \A q \in callbacks : q >= n => r <= q
    ELSE None

(* compareAndSet; the loser returns at once. *)
CloseFlag(k) ==
    /\ closed' = TRUE
    /\ MoveClose(k, "new", IF closed THEN "done" ELSE "start")
    /\ closeEnd' = [closeEnd EXCEPT ![k] = IF closed THEN "already" ELSE @]
    /\ early' = IF closed THEN early ELSE {r \in Regs : regPc[r] = "registered"}
    /\ UNCHANGED <<gate, workVars, callVars, regVars, cursor>>

(* The iterator of values.forEach. *)
CloseIterate(k) ==
    /\ MoveClose(k, "start", "iterate")
    /\ cursor' = FirstFrom(0)
    /\ UNCHANGED <<closed, gate, workVars, callVars, closeEnd, regVars, early>>

(* A callback that throws ends the loop. *)
CloseVisitThrows(k) ==
    /\ closePc[k] = "iterate" /\ cursor # None
    /\ fired' = [fired EXCEPT ![cursor] = @ + 1]
    /\ cursor' = None
    /\ UNCHANGED <<closed, gate, workVars, callVars, closeVars, regPc, callbacks,
                   early>>

(* One round of the forEach: next() moves the iterator on, then the callback
   runs; runCatching keeps the loop going whatever it throws. *)
CloseVisit(k) ==
    /\ closePc[k] = "iterate" /\ cursor # None
    /\ fired' = [fired EXCEPT ![cursor] = @ + 1]
    /\ cursor' = FirstFrom(cursor + 1)
    /\ UNCHANGED <<closed, gate, workVars, callVars, closeVars, regPc, callbacks,
                   early>>

CloseClear(k) ==
    /\ cursor = None
    /\ MoveClose(k, "iterate", "gate")
    /\ callbacks' = {}
    /\ UNCHANGED <<closed, gate, workVars, callVars, closeEnd, regPc, fired,
                   cursor, early>>

CloseEnter(k) ==
    /\ MoveClose(k, "gate", "submit")
    /\ gate = None
    /\ gate' = k
    /\ UNCHANGED <<closed, workVars, callVars, closeEnd, regVars, cursor, early>>

CloseSubmit(k) ==
    /\ MoveClose(k, "submit", "wait")
    /\ queue' = Append(queue, k)
    /\ gate' = None
    /\ UNCHANGED <<closed, running, shut, native, callVars, closeEnd, regVars,
                   cursor, early>>

(* A close that does not wait for the worker. *)
CloseNoWait(k) ==
    /\ MoveClose(k, "wait", "shutdown")
    /\ closeEnd' = [closeEnd EXCEPT ![k] = "closed"]
    /\ UNCHANGED <<closed, gate, workVars, callVars, regVars, cursor, early>>

(* closeFuture.get() *)
CloseGet(k) ==
    /\ MoveClose(k, "wait", "shutdown")
    /\ Finished(k)
    /\ closeEnd' = [closeEnd EXCEPT ![k] = "closed"]
    /\ UNCHANGED <<closed, gate, workVars, callVars, regVars, cursor, early>>

CloseInterrupted(k) ==
    /\ MoveClose(k, "wait", "shutdown")
    /\ ~Finished(k)
    /\ closeEnd' = [closeEnd EXCEPT ![k] = "interrupted"]
    /\ UNCHANGED <<closed, gate, workVars, callVars, regVars, cursor, early>>

(* shutdownNow drops the queued tasks. *)
CloseShutdownNow(k) ==
    /\ MoveClose(k, "shutdown", "done")
    /\ shut' = TRUE /\ queue' = <<>>
    /\ UNCHANGED <<closed, gate, running, native, callVars, closeEnd,
                   regVars, cursor, early>>

(* finally: shutdown lets the queued tasks run. *)
CloseShutdown(k) ==
    /\ MoveClose(k, "shutdown", "done")
    /\ shut' = TRUE
    /\ UNCHANGED <<closed, gate, queue, running, native, callVars, closeEnd,
                   regVars, cursor, early>>

-----------------------------------------------------------------------------
(* onClose *)

MoveReg(r, from, to) == regPc[r] = from /\ regPc' = [regPc EXCEPT ![r] = to]
NotByRegs == <<closed, gate, workVars, callVars, closeVars, cursor, early>>

(* A session already closed: cancel() at once, and an inert Closeable. *)
RegCheck(r) ==
    /\ MoveReg(r, "new", IF closed THEN "released" ELSE "put")
    /\ fired' = [fired EXCEPT ![r] = IF closed THEN @ + 1 ELSE @]
    /\ UNCHANGED <<NotByRegs, callbacks>>

RegPut(r) ==
    /\ MoveReg(r, "put", "recheck")
    /\ callbacks' = callbacks \cup {r}
    /\ UNCHANGED <<NotByRegs, fired>>

(* The second closed.get(). *)
RegRecheck(r) ==
    /\ MoveReg(r, "recheck", IF closed THEN "retract" ELSE "registered")
    /\ UNCHANGED <<NotByRegs, fired, callbacks>>

(* Cancels only if its own remove() found the entry. *)
RegRetract(r) ==
    /\ MoveReg(r, "retract", "registered")
    /\ fired' = [fired EXCEPT ![r] = IF r \in callbacks THEN @ + 1 ELSE @]
    /\ callbacks' = callbacks \ {r}
    /\ UNCHANGED NotByRegs

(* The Closeable of a finished stream. *)
RegRelease(r) ==
    /\ MoveReg(r, "registered", "released")
    /\ callbacks' = callbacks \ {r}
    /\ UNCHANGED <<NotByRegs, fired>>

-----------------------------------------------------------------------------
CallStep(c) == ExecCheck(c) \/ ExecSubmit(c) \/ ExecGet(c)
CloseStep(k) ==
    \/ CloseIterate(k) \/ CloseVisit(k) \/ CloseClear(k) \/ CloseEnter(k)
    \/ CloseSubmit(k) \/ CloseGet(k) \/ CloseShutdown(k)
RegStep(r) == RegPut(r) \/ RegRecheck(r) \/ RegRetract(r)
WorkerStep == WorkerTake \/ WorkerRun \/ WorkerClose

Next ==
    \/ \E c \in Calls : ExecEnter(c) \/ CallStep(c) \/ ExecInterrupted(c)
    \/ \E k \in Closers : CloseFlag(k) \/ CloseStep(k) \/ CloseInterrupted(k)
    \/ \E r \in Regs : RegCheck(r) \/ RegStep(r) \/ RegRelease(r)
    \/ WorkerStep

SafeSpec == Init /\ [][Next]_vars

(* Threads that have begun go on; whether a call, a close or a registration
   begins, is interrupted or released is up to the application. *)
Fairness ==
    /\ \A c \in Calls : WF_vars(CallStep(c))
    /\ \A k \in Closers : WF_vars(CloseStep(k))
    /\ \A r \in Regs : WF_vars(RegStep(r))
    /\ WF_vars(WorkerStep)

Spec == SafeSpec /\ Fairness

-----------------------------------------------------------------------------
(* Properties *)

(* A normal return of the close() that won the flag means that the native keys
   are gone and that no operation is left that could still want them. *)
CloseReturnsDestroyed ==
    \A k \in Closers : closeEnd[k] = "closed" =>
        native = "destroyed" /\ \A c \in Calls : Finished(c)

(* No operation reaches the native layer after nativeClose: whoever passed the
   closed check is served, whatever close() does meanwhile. *)
AcceptedAreServed ==
    \A c \in Calls :
        /\ answer[c] # "stale"
        /\ native = "destroyed" => Finished(c)

(* Work registered before close() took the flag, and not finished since, has
   been cancelled when the native keys are destroyed. *)
EarlyRegistrationsCancelled ==
    native = "destroyed" =>
        \A r \in early : fired[r] > 0 \/ regPc[r] = "released"

(* As the comment on onClose says it: registered work is cancelled before the
   native keys and the descriptor are destroyed. *)
CancelledBeforeDestruction ==
    native = "destroyed" =>
        \A r \in Regs : regPc[r] = "registered" => fired[r] > 0

(* Once the flag is set the native session is destroyed and the worker runs
   empty and is shut down, also when close() itself is interrupted. *)
CloseCompletes ==
    closed ~> (native = "destroyed" /\ shut /\ queue = <<>> /\ running = None)

(* The session keeps the promise of its class comment. *)
accepted == {c \in Calls : Queued(c) \/ running = c}
Draining == INSTANCE DrainingSession WITH
              stage <- IF native = "destroyed" THEN "destroyed"
                       ELSE IF closed THEN "closing" ELSE "open",
              accepted <- accepted,
              ran <- {c \in Calls : callPc[c] \in {"wait", "done"}
                         /\ answer[c] # "rejected" /\ c \notin accepted}

(* Operations are accepted, run in the open session and drain before the keys
   are destroyed; accepted operations do run and the destruction does happen. *)
ImplementsDraining == Draining!Spec
=============================================================================
