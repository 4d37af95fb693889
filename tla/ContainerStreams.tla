-------------------------- MODULE ContainerStreams --------------------------
(***************************************************************************)
(* The reliable-pipe streams of VeraCryptDocumentsProvider.openDocument    *)
(* and ContainerViewerProvider.openReadPipe on one mounted session, with   *)
(* the three ways to end them early: the client's CancellationSignal,      *)
(* unmount, and the close() of a session that another one replaces.        *)
(*                                                                         *)
(* A stream is the call that sets it up, its thread and its pipe. Those of *)
(* the documents provider are also entered in activeStreams; the viewer's  *)
(* are not. Data is counted in chunks; session.read returns a whole chunk  *)
(* or throws (FileReads is about reads that return less).                  *)
(***************************************************************************)
EXTENDS Integers, FiniteSets

CONSTANTS Streams,               \* their numbers order both hash tables
          Unmounts, Replacements,
          Chunks, Capacity,      \* size of the file and of a pipe
          None

ASSUME StreamsAssumption == Streams \subseteq Nat
ASSUME SizesAssumption == Chunks \in Nat /\ Capacity \in Nat \ {0}
ASSUME ClosersAssumption ==
    Unmounts \cap Replacements = {} /\ None \notin Streams

VARIABLES
    mounted, closed, native,  \* the session: active, its flag, its keys
    callbacks, activeStreams, \* the two tables of running streams
    closePc, cursor,          \* per unmount or replacement: place, iterator
    pc, offset, interrupted,  \* per stream: its thread
    cancelled, listening,     \* per stream: the CancellationSignal,
    calling,                  \* and that its cancel() is at the listener
    writeEnd, pipe,           \* per stream: the pipe, chunks in it
    listed,                   \* the streams asked of the documents provider
    readEnd, got,             \* per stream: the client, chunks it took
    early                     \* history: set up when close() took the flag

sessionVars == <<mounted, closed, native, early>>
tableVars == <<callbacks, activeStreams>>
closeVars == <<closePc, cursor>>
threadVars == <<pc, offset>>
signalVars == <<cancelled, listening, calling>>
clientVars == <<listed, readEnd, got>>
vars == <<sessionVars, tableVars, closeVars, threadVars, interrupted,
          signalVars, writeEnd, pipe, clientVars>>

Closers == Unmounts \cup Replacements
SetUp == {"register", "put", "recheck", "retract", "list", "listen", "start"}
Running == {"check", "submit", "wait", "served", "write", "finish", "fail"}
Ending == {"unlist", "release"}

TypeOK ==
    /\ mounted \in BOOLEAN /\ closed \in BOOLEAN
    /\ native \in {"open", "destroyed"}
    /\ callbacks \subseteq Streams /\ activeStreams \subseteq listed
    /\ listed \subseteq Streams
    /\ closePc \in [Closers -> {"idle", "streams", "swap", "flag", "begin",
                                "iterate", "destroy", "done"}]
    /\ cursor \in [Closers -> Streams \cup {None}]
    /\ pc \in [Streams -> SetUp \cup Running \cup Ending \cup {"idle", "done"}]
    /\ offset \in [Streams -> 0 .. Chunks]
    /\ interrupted \in [Streams -> BOOLEAN]
    /\ cancelled \in [Streams -> BOOLEAN] /\ listening \in [Streams -> BOOLEAN]
    /\ calling \in [Streams -> BOOLEAN]
    /\ writeEnd \in [Streams -> {"open", "clean", "error"}]
    /\ pipe \in [Streams -> 0 .. Capacity]
    /\ readEnd \in [Streams -> {"open", "closed"}]
    /\ got \in [Streams -> 0 .. Chunks]
    /\ early \subseteq Streams

Init ==
    /\ mounted = TRUE /\ closed = FALSE /\ native = "open" /\ early = {}
    /\ callbacks = {} /\ activeStreams = {} /\ listed = {}
    /\ closePc = [k \in Closers |-> "idle"]
    /\ cursor = [k \in Closers |-> None]
    /\ pc = [s \in Streams |-> "idle"]
    /\ offset = [s \in Streams |-> 0]
    /\ interrupted = [s \in Streams |-> FALSE]
    /\ cancelled = [s \in Streams |-> FALSE]
    /\ listening = [s \in Streams |-> FALSE]
    /\ calling = [s \in Streams |-> FALSE]
    /\ writeEnd = [s \in Streams |-> "open"]
    /\ pipe = [s \in Streams |-> 0]
    /\ readEnd = [s \in Streams |-> "open"]
    /\ got = [s \in Streams |-> 0]

Goto(s, from, to) == pc[s] = from /\ pc' = [pc EXCEPT ![s] = to]

(* close() and closeWithError() of the write end; only the first one counts. *)
EndPipe(s, how) ==
    writeEnd' = [writeEnd EXCEPT ![s] = IF @ = "open" THEN how ELSE @]

(* A cancellation that leaves the pipe to the thread. *)
InterruptOnly(s) ==
    /\ interrupted' = [interrupted EXCEPT ![s] = TRUE]
    /\ UNCHANGED writeEnd

(* The callback of onClose, the cancel listener and the loop of unmount:
   closeWithError() and thread.interrupt(). The interrupt of a thread that has
   not been started may be lost. *)
Cancel(s) ==
    /\ EndPipe(s, "error")
    /\ \/ interrupted' = [interrupted EXCEPT ![s] = pc[s] # "done"]
       \/ pc[s] \in SetUp /\ UNCHANGED interrupted

Spared == UNCHANGED <<writeEnd, interrupted>>

-----------------------------------------------------------------------------
(* Setting a stream up *)

(* mountedSessionOrNull and lookupEntry have succeeded, the pipe is made: a
   document, or a file for the viewer. *)
Open(s) ==
    /\ mounted /\ ~closed
    /\ Goto(s, "idle", "register")
    /\ listed' \in {listed, listed \cup {s}}
    /\ UNCHANGED <<sessionVars, tableVars, closeVars, offset, interrupted,
                   signalVars, writeEnd, pipe, readEnd, got>>

(* onClose: cancelled at once if the session is closed. *)
RegCheck(s) ==
    /\ Goto(s, "register", IF closed THEN "list" ELSE "put")
    /\ IF closed THEN Cancel(s) ELSE Spared
    /\ UNCHANGED <<sessionVars, tableVars, closeVars, offset, signalVars, pipe,
                   clientVars>>

RegPut(s) ==
    /\ Goto(s, "put", "recheck")
    /\ callbacks' = callbacks \cup {s}
    /\ UNCHANGED <<sessionVars, activeStreams, closeVars, offset, interrupted,
                   signalVars, writeEnd, pipe, clientVars>>

RegRecheck(s) ==
    /\ Goto(s, "recheck", IF closed THEN "retract" ELSE "list")
    /\ UNCHANGED <<sessionVars, tableVars, closeVars, offset, interrupted,
                   signalVars, writeEnd, pipe, clientVars>>

RegRetract(s) ==
    /\ Goto(s, "retract", "list")
    /\ IF s \in callbacks THEN Cancel(s) ELSE Spared
    /\ callbacks' = callbacks \ {s}
    /\ UNCHANGED <<sessionVars, activeStreams, closeVars, offset, signalVars, pipe,
                   clientVars>>

(* The entry of a documents stream in activeStreams. *)
Enlist(s) ==
    /\ Goto(s, "list", "listen")
    /\ activeStreams' = activeStreams \cup ({s} \cap listed)
    /\ UNCHANGED <<sessionVars, callbacks, closeVars, offset, interrupted,
                   signalVars, writeEnd, pipe, clientVars>>

(* setOnCancelListener calls the listener of a signal already cancelled. *)
Listen(s) ==
    /\ Goto(s, "listen", "start")
    /\ listening' = [listening EXCEPT ![s] = TRUE]
    /\ IF cancelled[s] THEN Cancel(s) ELSE Spared
    /\ UNCHANGED <<sessionVars, tableVars, closeVars, offset, cancelled, calling,
                   pipe, clientVars>>

Start(s) ==
    /\ Goto(s, "start", "check")
    /\ UNCHANGED <<sessionVars, tableVars, closeVars, offset, interrupted,
                   signalVars, writeEnd, pipe, clientVars>>

-----------------------------------------------------------------------------
(* The thread of a stream *)

(* A cancelled transfer that leaves the loop instead of throwing. *)
CheckBreaks(s) ==
    /\ Goto(s, "check", IF cancelled[s] \/ interrupted[s] \/ offset[s] = Chunks
                        THEN "finish" ELSE "submit")
    /\ UNCHANGED <<sessionVars, tableVars, closeVars, offset, interrupted,
                   signalVars, writeEnd, pipe, clientVars>>

(* The head of the loop: cancelled, at the end of the file, or on. *)
Check(s) ==
    /\ Goto(s, "check", IF cancelled[s] \/ interrupted[s] THEN "fail"
                        ELSE IF offset[s] = Chunks THEN "finish" ELSE "submit")
    /\ UNCHANGED <<sessionVars, tableVars, closeVars, offset, interrupted,
                   signalVars, writeEnd, pipe, clientVars>>

(* session.read: refused by a closed session, or accepted by its worker. *)
ReadSubmit(s) ==
    /\ Goto(s, "submit", IF closed THEN "fail" ELSE "wait")
    /\ UNCHANGED <<sessionVars, tableVars, closeVars, offset, interrupted,
                   signalVars, writeEnd, pipe, clientVars>>

(* The worker reads a chunk, or the native read fails and null is thrown. *)
Serve(s) ==
    /\ Goto(s, "wait", "served") \/ Goto(s, "wait", "fail")
    /\ UNCHANGED <<sessionVars, tableVars, closeVars, offset, interrupted,
                   signalVars, writeEnd, pipe, clientVars>>

(* The wait for the worker ends in an InterruptedException. *)
ReadInterrupted(s) ==
    /\ interrupted[s]
    /\ Goto(s, "wait", "fail")
    /\ interrupted' = [interrupted EXCEPT ![s] = FALSE]
    /\ UNCHANGED <<sessionVars, tableVars, closeVars, offset, signalVars, writeEnd,
                   pipe, clientVars>>

ReadGet(s) ==
    /\ Goto(s, "served", "write")
    /\ UNCHANGED <<sessionVars, tableVars, closeVars, offset, interrupted,
                   signalVars, writeEnd, pipe, clientVars>>

(* out.write blocks while the pipe is full, and fails when either end is gone. *)
Write(s) ==
    /\ writeEnd[s] = "open" /\ readEnd[s] = "open" /\ pipe[s] < Capacity
    /\ Goto(s, "write", "check")
    /\ pipe' = [pipe EXCEPT ![s] = @ + 1]
    /\ offset' = [offset EXCEPT ![s] = @ + 1]
    /\ UNCHANGED <<sessionVars, tableVars, closeVars, interrupted, signalVars,
                   writeEnd, clientVars>>

WriteFails(s) ==
    /\ writeEnd[s] # "open" \/ readEnd[s] = "closed"
    /\ Goto(s, "write", "fail")
    /\ UNCHANGED <<sessionVars, tableVars, closeVars, offset, interrupted,
                   signalVars, writeEnd, pipe, clientVars>>

(* writeEnd.close() after the loop, closeWithError() in the catch. *)
EndStream(s) ==
    /\ \/ Goto(s, "finish", "unlist") /\ EndPipe(s, "clean")
       \/ Goto(s, "fail", "unlist") /\ EndPipe(s, "error")
    /\ UNCHANGED <<sessionVars, tableVars, closeVars, offset, interrupted,
                   signalVars, pipe, clientVars>>

(* A removal that only the successful end comes by. *)
UnlistAfterSuccess(s) ==
    /\ Goto(s, "unlist", "release")
    /\ activeStreams' = IF offset[s] = Chunks THEN activeStreams \ {s} ELSE activeStreams
    /\ listening' = [listening EXCEPT ![s] = @ /\ s \in listed]
    /\ UNCHANGED <<sessionVars, callbacks, closeVars, offset, interrupted,
                   cancelled, calling, writeEnd, pipe, clientVars>>

(* finally: the documents stream leaves activeStreams, the viewer's drops its
   listener and waits for a cancel() that is at it. *)
Unlist(s) ==
    /\ Goto(s, "unlist", "release")
    /\ s \in listed \/ ~calling[s]
    /\ activeStreams' = activeStreams \ {s}
    /\ listening' = [listening EXCEPT ![s] = @ /\ s \in listed]
    /\ UNCHANGED <<sessionVars, callbacks, closeVars, offset, interrupted,
                   cancelled, calling, writeEnd, pipe, clientVars>>

Release(s) ==
    /\ Goto(s, "release", "done")
    /\ callbacks' = callbacks \ {s}
    /\ UNCHANGED <<sessionVars, activeStreams, closeVars, offset, interrupted,
                   signalVars, writeEnd, pipe, clientVars>>

-----------------------------------------------------------------------------
(* The client *)

Receive(s) ==
    /\ readEnd[s] = "open" /\ pipe[s] > 0
    /\ pipe' = [pipe EXCEPT ![s] = @ - 1]
    /\ got' = [got EXCEPT ![s] = @ + 1]
    /\ UNCHANGED <<sessionVars, tableVars, closeVars, threadVars, interrupted,
                   signalVars, writeEnd, listed, readEnd>>

Abandon(s) ==
    /\ readEnd[s] = "open" /\ pc[s] \notin SetUp \cup {"idle"}
    /\ readEnd' = [readEnd EXCEPT ![s] = "closed"]
    /\ UNCHANGED <<sessionVars, tableVars, closeVars, threadVars, interrupted,
                   signalVars, writeEnd, pipe, listed, got>>

(* CancellationSignal.cancel: the flag first, then the listener, if there is
   one by then. *)
SignalCancel(s) ==
    /\ pc[s] # "idle" /\ ~cancelled[s]
    /\ cancelled' = [cancelled EXCEPT ![s] = TRUE]
    /\ calling' = [calling EXCEPT ![s] = listening[s]]
    /\ UNCHANGED <<sessionVars, tableVars, closeVars, threadVars, interrupted,
                   listening, writeEnd, pipe, clientVars>>

SignalCall(s) ==
    /\ calling[s]
    /\ Cancel(s)
    /\ calling' = [calling EXCEPT ![s] = FALSE]
    /\ UNCHANGED <<sessionVars, tableVars, closeVars, threadVars, cancelled,
                   listening, pipe, clientVars>>

-----------------------------------------------------------------------------
(* unmount, and the close() of a session that is replaced *)

MoveClose(k, from, to) == closePc[k] = from /\ closePc' = [closePc EXCEPT ![k] = to]

FirstFrom(table, n) ==
    IF \E s \in table : s >= n
    THEN CHOOSE s \in table : s >= n /\ \A q \in table : q >= n => s <= q
    ELSE None

(* activeStreams.values.forEach of unmount. *)
UnmountIterate(k) ==
    /\ k \in Unmounts
    /\ MoveClose(k, "idle", "streams")
    /\ cursor' = [cursor EXCEPT ![k] = FirstFrom(activeStreams, 0)]
    /\ UNCHANGED <<sessionVars, tableVars, threadVars, interrupted, signalVars,
                   writeEnd, pipe, clientVars>>

UnmountVisit(k) ==
    /\ closePc[k] = "streams" /\ cursor[k] # None
    /\ Cancel(cursor[k])
    /\ cursor' = [cursor EXCEPT ![k] = FirstFrom(activeStreams, cursor[k] + 1)]
    /\ UNCHANGED <<sessionVars, tableVars, closePc, threadVars, signalVars, pipe,
                   clientVars>>

UnmountClear(k) ==
    /\ cursor[k] = None
    /\ MoveClose(k, "streams", "swap")
    /\ activeStreams' = {}
    /\ UNCHANGED <<sessionVars, callbacks, cursor, threadVars, interrupted,
                   signalVars, writeEnd, pipe, clientVars>>

(* active.getAndSet: whoever finds the session closes it. *)
Swap(k) ==
    /\ \/ MoveClose(k, "swap", IF mounted THEN "flag" ELSE "done")
       \/ k \in Replacements /\ MoveClose(k, "idle", IF mounted THEN "flag" ELSE "done")
    /\ mounted' = FALSE
    /\ UNCHANGED <<closed, native, early, tableVars, cursor, threadVars,
                   interrupted, signalVars, writeEnd, pipe, clientVars>>

(* ContainerSession.close: the flag, the callbacks, the destruction. *)
CloseFlag(k) ==
    /\ MoveClose(k, "flag", "begin")
    /\ closed' = TRUE
    /\ early' = {s \in Streams : pc[s] \in {"list", "listen", "start"} \cup Running}
    /\ UNCHANGED <<mounted, native, tableVars, cursor, threadVars, interrupted,
                   signalVars, writeEnd, pipe, clientVars>>

CloseIterate(k) ==
    /\ MoveClose(k, "begin", "iterate")
    /\ cursor' = [cursor EXCEPT ![k] = FirstFrom(callbacks, 0)]
    /\ UNCHANGED <<sessionVars, tableVars, threadVars, interrupted, signalVars,
                   writeEnd, pipe, clientVars>>

(* A callback that does not close the pipe. *)
CloseVisitInterrupts(k) ==
    /\ closePc[k] = "iterate" /\ cursor[k] # None
    /\ InterruptOnly(cursor[k])
    /\ cursor' = [cursor EXCEPT ![k] = FirstFrom(callbacks, cursor[k] + 1)]
    /\ UNCHANGED <<sessionVars, tableVars, closePc, threadVars, signalVars, pipe,
                   clientVars>>

CloseVisit(k) ==
    /\ closePc[k] = "iterate" /\ cursor[k] # None
    /\ Cancel(cursor[k])
    /\ cursor' = [cursor EXCEPT ![k] = FirstFrom(callbacks, cursor[k] + 1)]
    /\ UNCHANGED <<sessionVars, tableVars, closePc, threadVars, signalVars, pipe,
                   clientVars>>

CloseClear(k) ==
    /\ cursor[k] = None
    /\ MoveClose(k, "iterate", "destroy")
    /\ callbacks' = {}
    /\ UNCHANGED <<sessionVars, activeStreams, cursor, threadVars, interrupted,
                   signalVars, writeEnd, pipe, clientVars>>

(* nativeClose on the worker, after the reads it has accepted. *)
Destroy(k) ==
    /\ MoveClose(k, "destroy", "done")
    /\ \A s \in Streams : pc[s] # "wait"
    /\ native' = "destroyed"
    /\ UNCHANGED <<mounted, closed, early, tableVars, cursor, threadVars,
                   interrupted, signalVars, writeEnd, pipe, clientVars>>

-----------------------------------------------------------------------------
ThreadStep(s) ==
    \/ RegCheck(s) \/ RegPut(s) \/ RegRecheck(s) \/ RegRetract(s) \/ Enlist(s)
    \/ Listen(s) \/ Start(s) \/ Check(s) \/ ReadSubmit(s) \/ Serve(s)
    \/ ReadGet(s) \/ Write(s) \/ WriteFails(s) \/ EndStream(s) \/ Unlist(s)
    \/ Release(s)
CloseStep(k) ==
    \/ UnmountVisit(k) \/ UnmountClear(k) \/ (closePc[k] = "swap" /\ Swap(k))
    \/ CloseFlag(k) \/ CloseIterate(k) \/ CloseVisit(k) \/ CloseClear(k)
    \/ Destroy(k)

Next ==
    \/ \E s \in Streams : \/ Open(s) \/ ThreadStep(s) \/ ReadInterrupted(s)
                          \/ Receive(s) \/ Abandon(s)
                          \/ SignalCancel(s) \/ SignalCall(s)
    \/ \E k \in Closers : UnmountIterate(k) \/ Swap(k) \/ CloseStep(k)

SafeSpec == Init /\ [][Next]_vars

(* Threads go on; what a client does, or whether it ever reads, is its own
   affair. *)
Fairness ==
    /\ \A s \in Streams : WF_vars(ThreadStep(s)) /\ WF_vars(SignalCall(s))
    /\ \A k \in Closers : WF_vars(CloseStep(k))

Spec == SafeSpec /\ Fairness

-----------------------------------------------------------------------------
(* Properties *)

(* A client that reads to a clean end has the whole file, whatever cancels,
   unmounts and closes on the way: each stream is a PipeTransfer. *)
Transfer == INSTANCE PipeTransfer WITH sent <- offset, end <- writeEnd
ImplementsTransfer == Transfer!SafeSpec

(* A stream that has ended is in neither table, where it would keep its pipe
   and its thread reachable and be cancelled again. *)
EndedIsForgotten ==
    \A s \in Streams : pc[s] = "done" => s \notin activeStreams \cup callbacks

(* Once the keys are destroyed nothing more of the file goes into the pipe of a
   stream that was set up when close() took the flag. *)
SilentAfterClose ==
    [][native = "destroyed" => \A s \in early : pipe'[s] <= pipe[s]]_vars

(* Such a stream ends, and so does a stream whose client cancels it, also when
   the client reads nothing and the thread is blocked in a full pipe. *)
StoppedStreamsEnd ==
    \A s \in Streams : (s \in early \/ cancelled[s]) ~> (pc[s] = "done")
=============================================================================
