------------------------ MODULE ContainerStreamsProof ------------------------
(***************************************************************************)
(* Proofs about ContainerStreams for any number of streams, unmounts and   *)
(* replacements, files and pipes of every size: each stream is a           *)
(* PipeTransfer, the tables forget the streams that have ended, and        *)
(* streams fall silent when the keys are gone.                             *)
(***************************************************************************)
EXTENDS ContainerStreams, WellFoundedInduction, TLAPS

Reading == {"submit", "wait", "served", "write"}
Places == SetUp \cup Running \cup Ending \cup {"idle", "done"}

(* Chunks are in the pipe or with the client; a thread is at the end of the file
   when it ends the pipe cleanly, and has ended it when it leaves the tables. *)
Transferred == \A s \in Streams :
    /\ got[s] + pipe[s] = offset[s]
    /\ pc[s] \in Reading => offset[s] < Chunks
    /\ pc[s] = "finish" => offset[s] = Chunks
    /\ writeEnd[s] = "clean" => offset[s] = Chunks
    /\ pc[s] \in Ending \cup {"done"} => writeEnd[s] # "open"

Forgotten == \A s \in Streams :
    /\ pc[s] \in {"release", "done"} => s \notin activeStreams
    /\ pc[s] = "done" => s \notin callbacks

(* Until close() takes the flag, each stream that has registered is in the
   callbacks. *)
AfterPut == {"recheck", "list", "listen", "start"} \cup Running \cup Ending
Registered == ~closed =>
    /\ early = {}
    /\ \A s \in Streams : pc[s] # "retract" /\ (pc[s] \in AfterPut => s \in callbacks)

(* One thread takes the session out of the reference, closes and destroys it. *)
InClose == {"flag", "begin", "iterate", "destroy"}
OneCloses ==
    /\ \A j, k \in Closers : closePc[j] \in InClose /\ closePc[k] \in InClose => j = k
    /\ \A k \in Closers : closePc[k] \in InClose => ~mounted /\ native = "open"
    /\ \A k \in Closers : closePc[k] \in InClose => (closed <=> closePc[k] # "flag")
    /\ mounted => ~closed
    /\ native = "destroyed" => closed

(* The iterator of close() has yet to come to the callback of s. *)
Ahead(s) == \E k \in Closers :
    \/ closePc[k] = "begin"
    \/ closePc[k] = "iterate" /\ cursor[k] # None /\ cursor[k] <= s

(* A stream that was set up in time has lost its pipe, or will. *)
Enlisted == {"list", "listen", "start", "done"} \cup Running \cup Ending
Reached == \A s \in early :
    /\ pc[s] \in Enlisted
    /\ writeEnd[s] # "open" \/ (s \in callbacks /\ Ahead(s))

IInv == TypeOK /\ Transferred /\ Forgotten /\ Registered /\ OneCloses /\ Reached

USE StreamsAssumption, SizesAssumption, ClosersAssumption

-----------------------------------------------------------------------------
(* The order of the traversal *)

LEMMA Least ==
    ASSUME NEW S, S \subseteq Nat, S # {}
    PROVE  \E x \in S : \A y \in S : x <= y
<1>1. PICK x \in S : \A y \in S : ~(<<y, x>> \in OpToRel(<, Nat))
  BY NatLessThanWellFounded, WFMin
<1>2. ASSUME NEW y \in S PROVE x <= y
  <2>1. SUFFICES ASSUME y < x PROVE FALSE
    OBVIOUS
  <2>2. <<y, x>> \in Nat \X Nat /\ <<y, x>>[1] < <<y, x>>[2]
    BY <2>1
  <2>3. <<y, x>> \in {ss \in Nat \X Nat : ss[1] < ss[2]}
    BY <2>2, Zenon
  <2>. QED
    BY <2>3, <1>1, Zenon DEF OpToRel
<1>. QED
  BY <1>2

LEMMA NextNumber == \A s \in Streams : s \in Nat /\ s + 1 \in Nat
  OBVIOUS

(* FirstFrom(table, n) is the first entry at or after n. *)
LEMMA First ==
    ASSUME NEW table, table \subseteq Streams, NEW n \in Nat
    PROVE  /\ FirstFrom(table, n) \in Streams \cup {None}
           /\ \A s \in table : s >= n =>
                 FirstFrom(table, n) # None /\ FirstFrom(table, n) <= s
<1>. DEFINE S == {s \in table : s >= n}
<1>1. S \subseteq Nat
  OBVIOUS
<1>2. CASE S = {}
  BY <1>2 DEF FirstFrom
<1>3. CASE S # {}
  <2>1. \E x \in S : \A y \in S : x <= y
    BY <1>1, <1>3, Least
  <2>2. \E x \in table : x >= n /\ \A y \in table : y >= n => x <= y
    BY <2>1
  <2>3. /\ FirstFrom(table, n) \in table
        /\ \A y \in table : y >= n => FirstFrom(table, n) <= y
    BY <2>2 DEF FirstFrom
  <2>. QED
    BY <2>3
<1>. QED
  BY <1>2, <1>3

-----------------------------------------------------------------------------
(* Steps of one stream *)

(* The pipe of s ends with an error, if it has not ended before. *)
Broken(s) == writeEnd' = [writeEnd EXCEPT ![s] = IF @ = "open" THEN "error" ELSE @]

LEMMA CancelBreaks ==
    ASSUME TypeOK, NEW s \in Streams, Cancel(s)
    PROVE  Broken(s) /\ interrupted' \in [Streams -> BOOLEAN]
BY DEF Cancel, EndPipe, Broken, TypeOK

(* A thread goes from place to place and leaves the tables and the pipe alone,
   but for the end of the pipe. *)
LEMMA Moves ==
    ASSUME IInv, NEW s \in Streams, NEW p \in Places,
           pc' = [pc EXCEPT ![s] = p],
           UNCHANGED <<sessionVars, callbacks, closeVars, offset, cancelled,
                       calling, pipe, clientVars>>,
           activeStreams' \in SUBSET listed,
           activeStreams' \subseteq activeStreams \cup {s},
           writeEnd' = writeEnd \/ Broken(s),
           listening' \in [Streams -> BOOLEAN],
           interrupted' \in [Streams -> BOOLEAN],
           p \in Reading => offset[s] < Chunks, p = "finish" => offset[s] = Chunks,
           p \notin Ending \cup {"done"}, pc[s] \notin {"release", "done"},
           ~closed => p # "retract" /\ (p \in AfterPut => s \in callbacks),
           s \in early => p \in Enlisted
    PROVE  IInv'
<1>. USE DEF sessionVars, closeVars, clientVars
<1>1. TypeOK'
  BY DEF IInv, TypeOK, Broken, Places
<1>2. Transferred'
  BY DEF IInv, TypeOK, Transferred, Broken, Ending
<1>3. Forgotten'
  BY DEF IInv, TypeOK, Forgotten, Ending
<1>4. Registered'
  BY DEF IInv, TypeOK, Registered
<1>5. OneCloses'
  BY DEF IInv, OneCloses
<1>6. Reached'
  BY DEF IInv, TypeOK, Reached, Ahead, Broken
<1>. QED
  BY <1>1, <1>2, <1>3, <1>4, <1>5, <1>6 DEF IInv

LEMMA SetUpStep ==
    ASSUME IInv, NEW s \in Streams,
           RegCheck(s) \/ RegRecheck(s) \/ Enlist(s) \/ Listen(s) \/ Start(s)
    PROVE  IInv'
<1>. USE DEF Goto, Spared, sessionVars, tableVars, closeVars, signalVars, clientVars,
             Places, SetUp, Running, Ending, Reading, AfterPut, Enlisted
<1>1. /\ TypeOK /\ listening \in [Streams -> BOOLEAN] /\ interrupted \in [Streams -> BOOLEAN]
      /\ activeStreams \in SUBSET listed
      /\ ~closed => (pc[s] \in AfterPut => s \in callbacks) /\ early = {}
      /\ s \in early => pc[s] \in Enlisted
  BY DEF IInv, TypeOK, Registered, Reached
<1>2. CASE RegCheck(s)
  <2>1. interrupted' \in [Streams -> BOOLEAN] /\ (writeEnd' = writeEnd \/ Broken(s))
    BY <1>1, <1>2, CancelBreaks DEF RegCheck
  <2>2. PICK p \in {"list", "put"} :
            /\ pc' = [pc EXCEPT ![s] = p] /\ pc[s] = "register"
            /\ p = "list" => closed
    BY <1>2 DEF RegCheck
  <2>3. UNCHANGED <<sessionVars, tableVars, closeVars, offset, signalVars, pipe, clientVars>>
    BY <1>2 DEF RegCheck
  <2>. QED
    BY <1>1, <2>1, <2>2, <2>3, Moves
<1>3. CASE RegRecheck(s)
  <2>1. PICK p \in {"retract", "list"} :
            /\ pc' = [pc EXCEPT ![s] = p] /\ pc[s] = "recheck"
            /\ p = "retract" => closed
    BY <1>3 DEF RegRecheck
  <2>2. UNCHANGED <<sessionVars, tableVars, closeVars, offset, interrupted, signalVars,
                    writeEnd, pipe, clientVars>>
    BY <1>3 DEF RegRecheck
  <2>. QED
    BY <1>1, <2>1, <2>2, Moves
<1>4. CASE Enlist(s)
  <2>1. /\ pc' = [pc EXCEPT ![s] = "listen"] /\ pc[s] = "list"
        /\ activeStreams' = activeStreams \cup ({s} \cap listed)
        /\ UNCHANGED <<sessionVars, callbacks, closeVars, offset, interrupted,
                       signalVars, writeEnd, pipe, clientVars>>
    BY <1>4 DEF Enlist
  <2>. QED
    BY <1>1, <2>1, Moves
<1>5. CASE Listen(s)
  <2>1. interrupted' \in [Streams -> BOOLEAN] /\ (writeEnd' = writeEnd \/ Broken(s))
    BY <1>1, <1>5, CancelBreaks DEF Listen
  <2>2. /\ pc' = [pc EXCEPT ![s] = "start"] /\ pc[s] = "listen"
        /\ listening' \in [Streams -> BOOLEAN]
        /\ UNCHANGED <<sessionVars, tableVars, closeVars, offset, cancelled, calling,
                       pipe, clientVars>>
    BY <1>1, <1>5 DEF Listen
  <2>. QED
    BY <1>1, <2>1, <2>2, Moves
<1>6. CASE Start(s)
  <2>1. /\ pc' = [pc EXCEPT ![s] = "check"] /\ pc[s] = "start"
        /\ UNCHANGED <<sessionVars, tableVars, closeVars, offset, interrupted,
                       signalVars, writeEnd, pipe, clientVars>>
    BY <1>6 DEF Start
  <2>. QED
    BY <1>1, <2>1, Moves
<1>. QED
  BY <1>2, <1>3, <1>4, <1>5, <1>6

LEMMA ReadStep ==
    ASSUME IInv, NEW s \in Streams,
           \/ Check(s) \/ ReadSubmit(s) \/ Serve(s) \/ ReadGet(s) \/ WriteFails(s)
           \/ ReadInterrupted(s)
    PROVE  IInv'
<1>. USE DEF Goto, sessionVars, tableVars, closeVars, signalVars, clientVars
<1>1. /\ listening \in [Streams -> BOOLEAN] /\ interrupted \in [Streams -> BOOLEAN]
      /\ activeStreams \in SUBSET listed /\ offset[s] \in 0 .. Chunks
      /\ ~closed => (pc[s] \in AfterPut => s \in callbacks) /\ early = {}
      /\ pc[s] \in Reading => offset[s] < Chunks
  BY DEF IInv, TypeOK, Registered, Transferred
<1>2. PICK p \in Running :
        /\ pc' = [pc EXCEPT ![s] = p] /\ pc[s] \in {"check"} \cup Reading
        /\ p \in Reading => offset[s] < Chunks
        /\ p = "finish" => offset[s] = Chunks
        /\ interrupted' \in [Streams -> BOOLEAN]
        /\ UNCHANGED <<sessionVars, tableVars, closeVars, offset, signalVars, writeEnd,
                       pipe, clientVars>>
  <2>. USE DEF Running, Reading
  <2>1. CASE Check(s)
    <3>1. CASE cancelled[s] \/ interrupted[s]
      BY <1>1, <2>1, <3>1 DEF Check
    <3>2. CASE ~ (cancelled[s] \/ interrupted[s]) /\ offset[s] = Chunks
      BY <1>1, <2>1, <3>2 DEF Check
    <3>3. CASE ~ (cancelled[s] \/ interrupted[s]) /\ offset[s] # Chunks
      <4>1. pc[s] = "check" /\ pc' = [pc EXCEPT ![s] = "submit"] /\ offset[s] < Chunks
        BY <1>1, <2>1, <3>3 DEF Check
      <4>. QED
        BY <1>1, <2>1, <4>1 DEF Check
    <3>. QED
      BY <3>1, <3>2, <3>3
  <2>2. CASE ReadSubmit(s)
    <3>1. CASE closed
      BY <1>1, <2>2, <3>1 DEF ReadSubmit
    <3>2. CASE ~ closed
      BY <1>1, <2>2, <3>2 DEF ReadSubmit
    <3>. QED
      BY <3>1, <3>2
  <2>3. CASE Serve(s)
    <3>1. CASE Goto(s, "wait", "served")
      BY <1>1, <2>3, <3>1 DEF Serve
    <3>2. CASE Goto(s, "wait", "fail")
      BY <1>1, <2>3, <3>2 DEF Serve
    <3>. QED
      BY <2>3, <3>1, <3>2 DEF Serve
  <2>4. CASE ReadGet(s)
    BY <1>1, <2>4 DEF ReadGet
  <2>5. CASE WriteFails(s)
    BY <1>1, <2>5 DEF WriteFails
  <2>6. CASE ReadInterrupted(s)
    BY <1>1, <2>6 DEF ReadInterrupted
  <2>. QED
    BY <2>1, <2>2, <2>3, <2>4, <2>5, <2>6
<1>. QED
  BY <1>1, <1>2, Moves DEF Places, Running, Ending, Reading, AfterPut, Enlisted

LEMMA OpenStep == ASSUME IInv, NEW s \in Streams, Open(s) PROVE IInv'
<1>. USE DEF Open, Goto, sessionVars, tableVars, closeVars, signalVars
<1>1. TypeOK'
  BY DEF IInv, TypeOK, SetUp
<1>2. Transferred'
  BY DEF IInv, TypeOK, Transferred, Reading, Ending
<1>3. Forgotten'
  BY DEF IInv, TypeOK, Forgotten
<1>4. Registered'
  BY DEF IInv, TypeOK, Registered, AfterPut, Running, Ending
<1>5. OneCloses'
  BY DEF IInv, OneCloses
<1>6. Reached'
  BY DEF IInv, TypeOK, Registered, Reached
<1>. QED
  BY <1>1, <1>2, <1>3, <1>4, <1>5, <1>6 DEF IInv

LEMMA PutStep == ASSUME IInv, NEW s \in Streams, RegPut(s) PROVE IInv'
<1>. USE DEF RegPut, Goto, sessionVars, closeVars, signalVars, clientVars
<1>1. TypeOK'
  BY DEF IInv, TypeOK, SetUp
<1>2. Transferred'
  BY DEF IInv, TypeOK, Transferred, Reading, Ending
<1>3. Forgotten'
  BY DEF IInv, TypeOK, Forgotten
<1>4. Registered'
  BY DEF IInv, TypeOK, Registered, AfterPut
<1>5. OneCloses'
  BY DEF IInv, OneCloses
<1>6. Reached'
  BY DEF IInv, TypeOK, Reached, Enlisted, Running, Ending, Ahead
<1>. QED
  BY <1>1, <1>2, <1>3, <1>4, <1>5, <1>6 DEF IInv

LEMMA RetractStep == ASSUME IInv, NEW s \in Streams, RegRetract(s) PROVE IInv'
<1>. USE DEF Goto, sessionVars, closeVars, signalVars, clientVars
<1>1. /\ pc[s] = "retract" /\ pc' = [pc EXCEPT ![s] = "list"] /\ callbacks' = callbacks \ {s}
      /\ UNCHANGED <<sessionVars, activeStreams, closeVars, offset, signalVars, pipe,
                     clientVars>>
  BY DEF RegRetract
<1>2. interrupted' \in [Streams -> BOOLEAN] /\ (writeEnd' = writeEnd \/ Broken(s))
  BY CancelBreaks DEF RegRetract, Spared, IInv, TypeOK
<1>3. TypeOK'
  BY <1>1, <1>2 DEF IInv, TypeOK, Broken, SetUp
<1>4. Transferred'
  BY <1>1, <1>2 DEF IInv, TypeOK, Transferred, Broken, Reading, Ending
<1>5. Forgotten'
  BY <1>1 DEF IInv, TypeOK, Forgotten
<1>6. Registered'
  BY <1>1 DEF IInv, TypeOK, Registered
<1>7. OneCloses'
  BY <1>1 DEF IInv, OneCloses
<1>8. Reached'
  BY <1>1, <1>2 DEF IInv, TypeOK, Reached, Enlisted, Running, Ending, Ahead, Broken
<1>. QED
  BY <1>3, <1>4, <1>5, <1>6, <1>7, <1>8 DEF IInv

LEMMA WriteStep == ASSUME IInv, NEW s \in Streams, Write(s) PROVE IInv'
<1>. USE DEF Goto, sessionVars, tableVars, closeVars, signalVars, clientVars
<1>1. /\ pc[s] = "write" /\ pc' = [pc EXCEPT ![s] = "check"]
      /\ pipe' = [pipe EXCEPT ![s] = @ + 1] /\ offset' = [offset EXCEPT ![s] = @ + 1]
      /\ pipe[s] < Capacity /\ offset[s] < Chunks /\ writeEnd[s] = "open"
      /\ UNCHANGED <<sessionVars, tableVars, closeVars, interrupted, signalVars,
                     writeEnd, clientVars>>
  BY DEF Write, IInv, Transferred, Reading
<1>2. TypeOK'
  BY <1>1 DEF IInv, TypeOK, Running
<1>3. Transferred'
  BY <1>1 DEF IInv, TypeOK, Transferred, Reading, Ending
<1>4. Forgotten'
  BY <1>1 DEF IInv, TypeOK, Forgotten
<1>5. Registered'
  BY <1>1 DEF IInv, TypeOK, Registered, AfterPut, Running
<1>6. OneCloses'
  BY <1>1 DEF IInv, OneCloses
<1>7. Reached'
  BY <1>1 DEF IInv, TypeOK, Reached, Enlisted, Running, Ahead
<1>. QED
  BY <1>2, <1>3, <1>4, <1>5, <1>6, <1>7 DEF IInv

LEMMA EndStep == ASSUME IInv, NEW s \in Streams, EndStream(s) PROVE IInv'
<1>. USE DEF Goto, sessionVars, tableVars, closeVars, signalVars, clientVars
<1>1. PICK how \in {"clean", "error"} :
        /\ writeEnd' = [writeEnd EXCEPT ![s] = IF @ = "open" THEN how ELSE @]
        /\ pc[s] = IF how = "clean" THEN "finish" ELSE "fail"
  BY DEF EndStream, EndPipe
<1>2. /\ pc' = [pc EXCEPT ![s] = "unlist"]
      /\ UNCHANGED <<sessionVars, tableVars, closeVars, offset, interrupted,
                     signalVars, pipe, clientVars>>
  BY DEF EndStream
<1>3. TypeOK'
  BY <1>1, <1>2 DEF IInv, TypeOK, Ending
<1>4. Transferred'
  BY <1>1, <1>2 DEF IInv, TypeOK, Transferred, Reading, Ending
<1>5. Forgotten'
  BY <1>1, <1>2 DEF IInv, TypeOK, Forgotten
<1>6. Registered'
  BY <1>1, <1>2 DEF IInv, TypeOK, Registered, AfterPut, Running, Ending
<1>7. OneCloses'
  BY <1>2 DEF IInv, OneCloses
<1>8. Reached'
  BY <1>1, <1>2 DEF IInv, TypeOK, Reached, Enlisted, Ending, Ahead
<1>. QED
  BY <1>3, <1>4, <1>5, <1>6, <1>7, <1>8 DEF IInv

LEMMA LeaveStep ==
    ASSUME IInv, NEW s \in Streams, Unlist(s) \/ Release(s)
    PROVE  IInv'
<1>. USE DEF Goto, sessionVars, closeVars, clientVars
<1>1. /\ \/ /\ pc[s] = "unlist" /\ pc' = [pc EXCEPT ![s] = "release"]
            /\ activeStreams' = activeStreams \ {s} /\ callbacks' = callbacks
         \/ /\ pc[s] = "release" /\ pc' = [pc EXCEPT ![s] = "done"]
            /\ callbacks' = callbacks \ {s} /\ activeStreams' = activeStreams
      /\ listening' \in [Streams -> BOOLEAN]
      /\ UNCHANGED <<sessionVars, closeVars, offset, interrupted, cancelled, calling,
                     writeEnd, pipe, clientVars>>
  BY DEF Unlist, Release, signalVars, IInv, TypeOK
<1>2. TypeOK'
  BY <1>1 DEF IInv, TypeOK, Ending
<1>3. Transferred'
  BY <1>1 DEF IInv, TypeOK, Transferred, Reading, Ending
<1>4. Forgotten'
  BY <1>1 DEF IInv, TypeOK, Forgotten
<1>5. Registered'
  BY <1>1 DEF IInv, TypeOK, Registered, AfterPut, Running, Ending
<1>6. OneCloses'
  BY <1>1 DEF IInv, OneCloses
<1>7. Reached'
  BY <1>1 DEF IInv, TypeOK, Transferred, Reached, Enlisted, Ending, Ahead
<1>. QED
  BY <1>2, <1>3, <1>4, <1>5, <1>6, <1>7 DEF IInv

LEMMA ClientStep ==
    ASSUME IInv, NEW s \in Streams,
           Receive(s) \/ Abandon(s) \/ SignalCancel(s) \/ SignalCall(s)
    PROVE  IInv'
<1>. USE DEF sessionVars, tableVars, closeVars, threadVars
<1>1. /\ UNCHANGED <<sessionVars, tableVars, closeVars, threadVars, listed>>
      /\ writeEnd' = writeEnd \/ Broken(s)
      /\ \/ UNCHANGED <<pipe, got>>
         \/ /\ pipe[s] > 0 /\ pipe' = [pipe EXCEPT ![s] = @ - 1]
            /\ got' = [got EXCEPT ![s] = @ + 1]
  BY CancelBreaks DEF Receive, Abandon, SignalCancel, SignalCall, signalVars, clientVars,
     IInv
<1>2. /\ interrupted' \in [Streams -> BOOLEAN] /\ cancelled' \in [Streams -> BOOLEAN]
      /\ listening' \in [Streams -> BOOLEAN] /\ calling' \in [Streams -> BOOLEAN]
      /\ readEnd' \in [Streams -> {"open", "closed"}]
  <2>. USE DEF signalVars, clientVars, IInv, TypeOK
  <2>1. CASE Receive(s)
    BY <2>1 DEF Receive
  <2>2. CASE Abandon(s)
    BY <2>2 DEF Abandon
  <2>3. CASE SignalCancel(s)
    BY <2>3 DEF SignalCancel
  <2>4. CASE SignalCall(s)
    BY <2>4, CancelBreaks DEF SignalCall
  <2>. QED
    BY <2>1, <2>2, <2>3, <2>4
<1>3. TypeOK'
  <2>1. pipe' \in [Streams -> 0 .. Capacity] /\ got' \in [Streams -> 0 .. Chunks]
    BY <1>1 DEF IInv, TypeOK, Transferred
  <2>2. writeEnd' \in [Streams -> {"open", "clean", "error"}]
    BY <1>1 DEF IInv, TypeOK, Broken
  <2>. QED
    BY <1>1, <1>2, <2>1, <2>2 DEF IInv, TypeOK
<1>4. Transferred'
  BY <1>1 DEF IInv, TypeOK, Transferred, Broken
<1>5. Forgotten'
  BY <1>1 DEF IInv, Forgotten
<1>6. Registered'
  BY <1>1 DEF IInv, Registered
<1>7. OneCloses'
  BY <1>1 DEF IInv, OneCloses
<1>8. Reached'
  BY <1>1 DEF IInv, TypeOK, Reached, Ahead, Broken
<1>. QED
  BY <1>3, <1>4, <1>5, <1>6, <1>7, <1>8 DEF IInv

-----------------------------------------------------------------------------
(* Steps of unmount and close() *)

(* Steps that leave the threads alone, and the callbacks and the flag too. *)
LEMMA Around ==
    ASSUME IInv, UNCHANGED <<threadVars, signalVars, pipe, clientVars, callbacks, closed,
                             native, early>>,
           activeStreams' \in SUBSET activeStreams,
           writeEnd' = writeEnd \/ \E t \in Streams : Broken(t),
           interrupted' \in [Streams -> BOOLEAN],
           OneCloses', mounted' \in BOOLEAN,
           closePc' \in [Closers -> {"idle", "streams", "swap", "flag", "begin",
                                     "iterate", "destroy", "done"}],
           cursor' \in [Closers -> Streams \cup {None}],
           \A s \in early : s \in callbacks /\ Ahead(s) /\ writeEnd'[s] = "open" => Ahead(s)'
    PROVE  IInv'
<1>. USE DEF threadVars, signalVars, clientVars
<1>1. TypeOK'
  BY DEF IInv, TypeOK, Broken
<1>2. Transferred'
  BY DEF IInv, TypeOK, Transferred, Broken
<1>3. Forgotten'
  BY DEF IInv, Forgotten
<1>4. Registered'
  BY DEF IInv, Registered
<1>5. Reached'
  <2>1. \A s \in Streams : writeEnd[s] # "open" => writeEnd'[s] # "open"
    BY DEF IInv, TypeOK, Broken
  <2>. QED
    BY <2>1 DEF IInv, TypeOK, Reached
<1>. QED
  BY <1>1, <1>2, <1>3, <1>4, <1>5 DEF IInv

LEMMA UnmountStep ==
    ASSUME IInv, NEW k \in Closers,
           \/ UnmountIterate(k) \/ UnmountVisit(k) \/ UnmountClear(k)
    PROVE  IInv'
<1>. USE DEF sessionVars, tableVars, threadVars, signalVars, clientVars, MoveClose
<1>1. /\ UNCHANGED <<sessionVars, callbacks, threadVars, signalVars, pipe, clientVars>>
      /\ activeStreams' \in SUBSET activeStreams
  BY DEF UnmountIterate, UnmountVisit, UnmountClear
<1>2. PICK p \in {"streams", "swap"} :
        closePc[k] \in {"idle", "streams"} /\ closePc' = [closePc EXCEPT ![k] = p]
  <2>1. CASE UnmountIterate(k)
    BY <2>1 DEF UnmountIterate
  <2>2. CASE UnmountVisit(k)
    BY <2>2 DEF UnmountVisit, IInv, TypeOK
  <2>3. CASE UnmountClear(k)
    BY <2>3 DEF UnmountClear
  <2>. QED
    BY <2>1, <2>2, <2>3
<1>3. /\ cursor' \in [Closers -> Streams \cup {None}]
      /\ \A j \in Closers \ {k} : cursor'[j] = cursor[j]
      /\ writeEnd' = writeEnd \/ \E t \in Streams : Broken(t)
      /\ interrupted' \in [Streams -> BOOLEAN]
  <2>0. /\ activeStreams \subseteq Streams /\ TypeOK
        /\ cursor \in [Closers -> Streams \cup {None}]
        /\ interrupted \in [Streams -> BOOLEAN]
    BY DEF IInv, TypeOK
  <2>1. CASE UnmountIterate(k)
    <3>1. FirstFrom(activeStreams, 0) \in Streams \cup {None}
      BY <2>0, First
    <3>. QED
      BY <2>0, <2>1, <3>1 DEF UnmountIterate
  <2>2. CASE UnmountVisit(k)
    <3>1. /\ cursor[k] \in Streams /\ Cancel(cursor[k])
          /\ cursor' = [cursor EXCEPT ![k] = FirstFrom(activeStreams, cursor[k] + 1)]
      BY <2>0, <2>2 DEF UnmountVisit
    <3>2. FirstFrom(activeStreams, cursor[k] + 1) \in Streams \cup {None}
      <4>1. cursor[k] + 1 \in Nat
        BY <3>1, NextNumber, Zenon
      <4>. QED
        BY <2>0, <4>1, First
    <3>3. Broken(cursor[k]) /\ interrupted' \in [Streams -> BOOLEAN]
      BY <2>0, <3>1, CancelBreaks
    <3>. QED
      BY <2>0, <3>1, <3>2, <3>3
  <2>3. CASE UnmountClear(k)
    BY <2>0, <2>3 DEF UnmountClear
  <2>. QED
    BY <2>1, <2>2, <2>3
<1>4. \A j \in Closers : closePc'[j] = IF j = k THEN p ELSE closePc[j]
  BY <1>2 DEF IInv, TypeOK
<1>5. OneCloses'
  BY <1>1, <1>2, <1>4 DEF IInv, OneCloses, InClose
<1>6. \A s \in early : Ahead(s) => Ahead(s)'
  BY <1>2, <1>3, <1>4 DEF Ahead
<1>7. closePc' \in [Closers -> {"idle", "streams", "swap", "flag", "begin",
                                "iterate", "destroy", "done"}]
  BY <1>2 DEF IInv, TypeOK
<1>8. mounted' \in BOOLEAN
  BY <1>1 DEF IInv, TypeOK
<1>. QED
  BY <1>1, <1>3, <1>5, <1>6, <1>7, <1>8, Around

LEMMA SwapStep == ASSUME IInv, NEW k \in Closers, Swap(k) PROVE IInv'
<1>. USE DEF tableVars, threadVars, signalVars, clientVars, MoveClose
<1>1. PICK p \in {"flag", "done"} :
        /\ closePc[k] \in {"swap", "idle"} /\ closePc' = [closePc EXCEPT ![k] = p]
        /\ p = "flag" => mounted
  BY DEF Swap
<1>2. /\ mounted' = FALSE
      /\ UNCHANGED <<closed, native, early, tableVars, cursor, threadVars,
                     interrupted, signalVars, writeEnd, pipe, clientVars>>
  BY DEF Swap
<1>3. \A j \in Closers : closePc'[j] = IF j = k THEN p ELSE closePc[j]
  BY <1>1 DEF IInv, TypeOK
<1>4. native # "destroyed" => native = "open"
  BY DEF IInv, TypeOK
<1>5. OneCloses'
  BY <1>1, <1>2, <1>3, <1>4 DEF IInv, OneCloses, InClose
<1>6. \A s \in early : Ahead(s) => Ahead(s)'
  BY <1>1, <1>2, <1>3 DEF Ahead
<1>7. closePc' \in [Closers -> {"idle", "streams", "swap", "flag", "begin",
                                "iterate", "destroy", "done"}]
  BY <1>1 DEF IInv, TypeOK
<1>8. /\ cursor' \in [Closers -> Streams \cup {None}] /\ mounted' \in BOOLEAN
      /\ interrupted' \in [Streams -> BOOLEAN]
  BY <1>2 DEF IInv, TypeOK
<1>. QED
  BY <1>2, <1>5, <1>6, <1>7, <1>8, Around

LEMMA FlagStep == ASSUME IInv, NEW k \in Closers, CloseFlag(k) PROVE IInv'
<1>. USE DEF tableVars, threadVars, signalVars, clientVars, MoveClose
<1>1. /\ closePc[k] = "flag" /\ closePc' = [closePc EXCEPT ![k] = "begin"]
      /\ closed' = TRUE
      /\ early' = {s \in Streams : pc[s] \in {"list", "listen", "start"} \cup Running}
      /\ UNCHANGED <<mounted, native, tableVars, cursor, threadVars, interrupted,
                     signalVars, writeEnd, pipe, clientVars>>
  BY DEF CloseFlag
<1>2. ~ closed /\ ~ mounted /\ native = "open"
  BY <1>1 DEF IInv, OneCloses, InClose, TypeOK
<1>3. \A j \in Closers : closePc'[j] = IF j = k THEN "begin" ELSE closePc[j]
  BY <1>1 DEF IInv, TypeOK
<1>4. TypeOK'
  BY <1>1 DEF IInv, TypeOK
<1>5. Transferred'
  BY <1>1 DEF IInv, Transferred
<1>6. Forgotten'
  BY <1>1 DEF IInv, Forgotten
<1>7. Registered'
  BY <1>1 DEF Registered
<1>8. OneCloses'
  BY <1>1, <1>2, <1>3 DEF IInv, OneCloses, InClose
<1>9. Reached'
  <2>1. \A s \in Streams : pc[s] \in AfterPut => s \in callbacks
    BY <1>2 DEF IInv, Registered
  <2>2. \A s \in Streams : Ahead(s)'
    BY <1>3 DEF Ahead
  <2>. QED
    BY <1>1, <2>1, <2>2 DEF Reached, Enlisted, AfterPut
<1>. QED
  BY <1>4, <1>5, <1>6, <1>7, <1>8, <1>9 DEF IInv

(* The iterator begins at the first callback. *)
LEMMA IterateStep == ASSUME IInv, NEW k \in Closers, CloseIterate(k) PROVE IInv'
<1>. USE DEF sessionVars, tableVars, threadVars, signalVars, clientVars, MoveClose
<1>1. /\ closePc[k] = "begin" /\ closePc' = [closePc EXCEPT ![k] = "iterate"]
      /\ cursor' = [cursor EXCEPT ![k] = FirstFrom(callbacks, 0)]
      /\ UNCHANGED <<sessionVars, tableVars, threadVars, interrupted, signalVars,
                     writeEnd, pipe, clientVars>>
  BY DEF CloseIterate
<1>2. /\ callbacks \subseteq Streams /\ early \subseteq Streams
      /\ cursor \in [Closers -> Streams \cup {None}]
  BY DEF IInv, TypeOK
<1>3. /\ FirstFrom(callbacks, 0) \in Streams \cup {None}
      /\ \A s \in callbacks : FirstFrom(callbacks, 0) # None /\ FirstFrom(callbacks, 0) <= s
  <2>1. \A s \in callbacks : s >= 0
    BY <1>2
  <2>. QED
    BY <1>2, <2>1, First
<1>4. \A j \in Closers : closePc'[j] = IF j = k THEN "iterate" ELSE closePc[j]
  BY <1>1 DEF IInv, TypeOK
<1>5. cursor'[k] = FirstFrom(callbacks, 0)
  BY <1>1, <1>2
<1>6. OneCloses'
  BY <1>1, <1>4 DEF IInv, OneCloses, InClose
<1>7. \A s \in early : s \in callbacks => Ahead(s)'
  BY <1>3, <1>4, <1>5 DEF Ahead
<1>8. closePc' \in [Closers -> {"idle", "streams", "swap", "flag", "begin",
                                "iterate", "destroy", "done"}]
  BY <1>1 DEF IInv, TypeOK
<1>9. /\ cursor' \in [Closers -> Streams \cup {None}] /\ mounted' \in BOOLEAN
      /\ interrupted' \in [Streams -> BOOLEAN]
  BY <1>1, <1>2, <1>3 DEF IInv, TypeOK
<1>. QED
  BY <1>1, <1>6, <1>7, <1>8, <1>9, Around

(* The callback at the iterator has broken its pipe, the next one is the first
   behind it. *)
LEMMA VisitStep == ASSUME IInv, NEW k \in Closers, CloseVisit(k) PROVE IInv'
<1>. USE DEF sessionVars, tableVars, threadVars, signalVars, clientVars
<1>. DEFINE t == cursor[k]
            n == FirstFrom(callbacks, cursor[k] + 1)
<1>1. /\ callbacks \subseteq Streams /\ early \subseteq Streams /\ TypeOK
      /\ cursor \in [Closers -> Streams \cup {None}]
  BY DEF IInv, TypeOK
<1>2. /\ closePc[k] = "iterate" /\ t \in Streams /\ Cancel(t)
      /\ cursor' = [cursor EXCEPT ![k] = n]
      /\ UNCHANGED <<sessionVars, tableVars, closePc, threadVars, signalVars, pipe,
                     clientVars>>
  BY <1>1 DEF CloseVisit
<1>3. Broken(t) /\ interrupted' \in [Streams -> BOOLEAN]
  BY <1>1, <1>2, CancelBreaks
<1>4. /\ n \in Streams \cup {None}
      /\ \A s \in callbacks : s >= t + 1 => n # None /\ n <= s
  <2>1. t + 1 \in Nat
    BY <1>2, NextNumber, Zenon
  <2>. QED
    BY <1>1, <2>1, First
<1>5. cursor'[k] = n /\ \A j \in Closers \ {k} : cursor'[j] = cursor[j]
  BY <1>1, <1>2
<1>6. OneCloses'
  BY <1>2 DEF IInv, OneCloses
<1>7. \A s \in early : s \in callbacks /\ Ahead(s) /\ writeEnd'[s] = "open" => Ahead(s)'
  <2>. SUFFICES ASSUME NEW s \in early, s \in callbacks, Ahead(s), writeEnd'[s] = "open"
                PROVE  Ahead(s)'
    OBVIOUS
  <2>1. writeEnd'[t] # "open" /\ s # t
    BY <1>1, <1>2, <1>3 DEF Broken, TypeOK
  <2>2. PICK j \in Closers :
           \/ closePc[j] = "begin"
           \/ closePc[j] = "iterate" /\ cursor[j] # None /\ cursor[j] <= s
    <3>1. Ahead(s)
      OBVIOUS
    <3>. QED
      BY ONLY <3>1, Zenon DEF Ahead
  <2>3. j = k
    BY <1>2, <2>2 DEF IInv, OneCloses, InClose
  <2>4. t <= s
    BY <1>2, <2>2, <2>3
  <2>5. s >= t + 1
    <3>1. s \in Nat /\ t \in Nat
      BY <1>1, <1>2, NextNumber, Zenon
    <3>. HIDE DEF t
    <3>. QED
      BY <2>1, <2>4, <3>1
  <2>. HIDE DEF n, t
  <2>6. n # None /\ n <= s
    BY <1>4, <2>5
  <2>. QED
    BY <1>2, <1>5, <2>6 DEF Ahead
<1>8. /\ cursor' \in [Closers -> Streams \cup {None}] /\ mounted' \in BOOLEAN
      /\ closePc' \in [Closers -> {"idle", "streams", "swap", "flag", "begin",
                                   "iterate", "destroy", "done"}]
  BY <1>1, <1>2, <1>4 DEF IInv, TypeOK
<1>9. \E u \in Streams : Broken(u)
  BY <1>2, <1>3
<1>. QED
  BY <1>2, <1>3, <1>6, <1>7, <1>8, <1>9, Around

(* When the loop is over, every stream in time has lost its pipe. *)
LEMMA ClearStep == ASSUME IInv, NEW k \in Closers, CloseClear(k) PROVE IInv'
<1>. USE DEF sessionVars, threadVars, signalVars, clientVars, MoveClose
<1>1. /\ cursor[k] = None
      /\ closePc[k] = "iterate" /\ closePc' = [closePc EXCEPT ![k] = "destroy"]
      /\ callbacks' = {}
      /\ UNCHANGED <<sessionVars, activeStreams, cursor, threadVars, interrupted,
                     signalVars, writeEnd, pipe, clientVars>>
  BY DEF CloseClear
<1>2. \A j \in Closers : closePc'[j] = IF j = k THEN "destroy" ELSE closePc[j]
  BY <1>1 DEF IInv, TypeOK
<1>3. closed
  BY <1>1 DEF IInv, OneCloses, InClose
<1>4. \A s \in early : writeEnd[s] # "open"
  <2>1. \A s \in early : ~ Ahead(s)
    BY <1>1 DEF Ahead, IInv, OneCloses, InClose
  <2>. QED
    BY <2>1 DEF IInv, Reached
<1>5. TypeOK'
  BY <1>1 DEF IInv, TypeOK
<1>6. Transferred'
  BY <1>1 DEF IInv, Transferred
<1>7. Forgotten'
  BY <1>1 DEF IInv, Forgotten
<1>8. Registered'
  BY <1>1, <1>3 DEF Registered
<1>9. OneCloses'
  BY <1>1, <1>2 DEF IInv, OneCloses, InClose
<1>10. Reached'
  BY <1>1, <1>4 DEF IInv, Reached
<1>. QED
  BY <1>5, <1>6, <1>7, <1>8, <1>9, <1>10 DEF IInv

LEMMA DestroyStep == ASSUME IInv, NEW k \in Closers, Destroy(k) PROVE IInv'
<1>. USE DEF tableVars, threadVars, signalVars, clientVars, MoveClose
<1>1. /\ closePc[k] = "destroy" /\ closePc' = [closePc EXCEPT ![k] = "done"]
      /\ native' = "destroyed"
      /\ UNCHANGED <<mounted, closed, early, tableVars, cursor, threadVars,
                     interrupted, signalVars, writeEnd, pipe, clientVars>>
  BY DEF Destroy
<1>2. \A j \in Closers : closePc'[j] = IF j = k THEN "done" ELSE closePc[j]
  BY <1>1 DEF IInv, TypeOK
<1>3. closed /\ ~ mounted /\ \A j \in Closers \ {k} : closePc[j] \notin InClose
  BY <1>1 DEF IInv, OneCloses, InClose
<1>4. TypeOK'
  BY <1>1 DEF IInv, TypeOK
<1>5. Transferred'
  BY <1>1 DEF IInv, Transferred
<1>6. Forgotten'
  BY <1>1 DEF IInv, Forgotten
<1>7. Registered'
  BY <1>1, <1>3 DEF Registered
<1>8. OneCloses'
  BY <1>1, <1>2, <1>3 DEF OneCloses, InClose
<1>9. Reached'
  <2>1. \A s \in early : Ahead(s) => Ahead(s)'
    BY <1>1, <1>2 DEF Ahead
  <2>. QED
    BY <1>1, <2>1 DEF IInv, Reached
<1>. QED
  BY <1>4, <1>5, <1>6, <1>7, <1>8, <1>9 DEF IInv

-----------------------------------------------------------------------------
(* Theorems *)

LEMMA Step == IInv /\ [Next]_vars => IInv'
<1>. SUFFICES ASSUME IInv, [Next]_vars PROVE IInv'
  OBVIOUS
<1>1. ASSUME NEW s \in Streams,
             \/ Open(s) \/ ThreadStep(s) \/ ReadInterrupted(s)
             \/ Receive(s) \/ Abandon(s) \/ SignalCancel(s) \/ SignalCall(s)
      PROVE  IInv'
  BY <1>1, OpenStep, SetUpStep, PutStep, RetractStep, ReadStep, WriteStep, EndStep,
     LeaveStep, ClientStep DEF ThreadStep
<1>2. ASSUME NEW k \in Closers, UnmountIterate(k) \/ Swap(k) \/ CloseStep(k)
      PROVE  IInv'
  BY <1>2, UnmountStep, SwapStep, FlagStep, IterateStep, VisitStep, ClearStep,
     DestroyStep DEF CloseStep
<1>3. CASE UNCHANGED vars
  <2>. USE <1>3 DEF vars, sessionVars, tableVars, closeVars, threadVars, signalVars,
                    clientVars
  <2>1. TypeOK'
    BY DEF IInv, TypeOK
  <2>2. Transferred' /\ Forgotten' /\ Registered' /\ OneCloses'
    BY DEF IInv, Transferred, Forgotten, Registered, OneCloses
  <2>3. Reached'
    BY DEF IInv, Reached, Ahead
  <2>. QED
    BY <2>1, <2>2, <2>3 DEF IInv
<1>. QED
  BY <1>1, <1>2, <1>3 DEF Next

LEMMA Inductive == SafeSpec => []IInv
<1>1. Init => IInv
  <2>. SUFFICES ASSUME Init PROVE IInv
    OBVIOUS
  <2>. USE DEF Init
  <2>1. TypeOK
    <3>1. /\ mounted \in BOOLEAN /\ closed \in BOOLEAN /\ native \in {"open", "destroyed"}
          /\ callbacks \subseteq Streams /\ activeStreams \subseteq listed
          /\ listed \subseteq Streams /\ early \subseteq Streams
      OBVIOUS
    <3>2. /\ closePc \in [Closers -> {"idle", "streams", "swap", "flag", "begin",
                                      "iterate", "destroy", "done"}]
          /\ cursor \in [Closers -> Streams \cup {None}]
      OBVIOUS
    <3>3. /\ pc \in [Streams -> SetUp \cup Running \cup Ending \cup {"idle", "done"}]
          /\ offset \in [Streams -> 0 .. Chunks] /\ got \in [Streams -> 0 .. Chunks]
          /\ pipe \in [Streams -> 0 .. Capacity]
      OBVIOUS
    <3>4. /\ interrupted \in [Streams -> BOOLEAN] /\ cancelled \in [Streams -> BOOLEAN]
          /\ listening \in [Streams -> BOOLEAN] /\ calling \in [Streams -> BOOLEAN]
      OBVIOUS
    <3>5. /\ writeEnd \in [Streams -> {"open", "clean", "error"}]
          /\ readEnd \in [Streams -> {"open", "closed"}]
      OBVIOUS
    <3>. QED
      BY <3>1, <3>2, <3>3, <3>4, <3>5, Zenon DEF TypeOK
  <2>2. Transferred /\ Forgotten /\ Registered
    BY DEF Transferred, Forgotten, Registered, Reading, AfterPut, Running, Ending
  <2>3. OneCloses /\ Reached
    BY DEF OneCloses, InClose, Reached
  <2>. QED
    BY <2>1, <2>2, <2>3 DEF IInv
<1>. QED
  BY <1>1, Step, PTL DEF SafeSpec

(* The tables and the places of threads, iterators and pipes are what they
   should be. *)
THEOREM TypeCorrect == SafeSpec => []TypeOK
BY Inductive, PTL DEF IInv

(* A stream whose thread has ended is in neither table, whoever cancelled it and
   whenever: nothing keeps its pipe, nobody cancels it again. *)
THEOREM EndedForgotten == SafeSpec => []EndedIsForgotten
<1>1. IInv => EndedIsForgotten
  BY DEF IInv, Forgotten, EndedIsForgotten
<1>. QED
  BY <1>1, Inductive, PTL

(* The iteration of close() has broken the pipe of every stream that was set up
   in time before the keys are destroyed, so none of them writes after that. *)
THEOREM Silent == SafeSpec => SilentAfterClose
<1>1. IInv /\ [Next]_vars =>
         (native = "destroyed" => \A s \in early : pipe'[s] <= pipe[s])
  <2>. SUFFICES ASSUME IInv, [Next]_vars, native = "destroyed", NEW s \in early
                PROVE  pipe'[s] <= pipe[s]
    OBVIOUS
  <2>1. \A k \in Closers : closePc[k] \notin InClose
    BY DEF IInv, OneCloses
  <2>2. writeEnd[s] # "open" /\ s \in Streams /\ pipe[s] \in Int
    BY <2>1 DEF IInv, TypeOK, Reached, Ahead, InClose
  <2>3. ASSUME NEW t \in Streams, Write(t) PROVE pipe'[s] <= pipe[s]
    BY <2>2, <2>3 DEF Write, IInv, TypeOK
  <2>4. ASSUME NEW t \in Streams, Receive(t) PROVE pipe'[s] <= pipe[s]
    BY <2>2, <2>4 DEF Receive, IInv, TypeOK
  <2>5. CASE pipe' = pipe
    BY <2>2, <2>5
  <2>6. ASSUME NEW t \in Streams,
               \/ Open(t) \/ ThreadStep(t) \/ ReadInterrupted(t)
               \/ Receive(t) \/ Abandon(t) \/ SignalCancel(t) \/ SignalCall(t)
        PROVE  pipe'[s] <= pipe[s]
    BY <2>3, <2>4, <2>5, <2>6
    DEF Open, ThreadStep, ReadInterrupted, Abandon, SignalCancel, SignalCall, RegCheck,
        RegPut, RegRecheck, RegRetract, Enlist, Listen, Start, Check, ReadSubmit, Serve,
        ReadGet, WriteFails, EndStream, Unlist, Release
  <2>7. ASSUME NEW k \in Closers, UnmountIterate(k) \/ Swap(k) \/ CloseStep(k)
        PROVE  pipe'[s] <= pipe[s]
    BY <2>5, <2>7
    DEF UnmountIterate, Swap, CloseStep, UnmountVisit, UnmountClear, CloseFlag,
        CloseIterate, CloseVisit, CloseClear, Destroy
  <2>8. CASE UNCHANGED vars
    BY <2>5, <2>8 DEF vars
  <2>. QED
    BY <2>6, <2>7, <2>8 DEF Next
<1>. QED
  BY <1>1, Inductive, PTL DEF SafeSpec, SilentAfterClose

(* What a step means for the client of a stream. *)
LEMMA TransferStep == IInv /\ [Next]_vars => [Transfer!Next]_(Transfer!vars)
<1>. SUFFICES ASSUME IInv, [Next]_vars PROVE Transfer!Next \/ UNCHANGED Transfer!vars
  OBVIOUS
<1>. USE DEF Transfer!vars
<1>1. ASSUME NEW s \in Streams, Broken(s), UNCHANGED <<offset, got>>
      PROVE  Transfer!Next \/ UNCHANGED Transfer!vars
  <2>1. CASE writeEnd[s] = "open"
    <3>1. Transfer!Fail(s)
      BY <1>1, <2>1 DEF Transfer!Fail, Broken, IInv, TypeOK
    <3>. QED
      BY <3>1 DEF Transfer!Next
  <2>2. CASE writeEnd[s] # "open"
    BY <1>1, <2>2 DEF Broken, IInv, TypeOK
  <2>. QED
    BY <2>1, <2>2
<1>2. ASSUME UNCHANGED <<offset, got, writeEnd>>
      PROVE  Transfer!Next \/ UNCHANGED Transfer!vars
  BY <1>2
<1>3. ASSUME NEW s \in Streams, Write(s) PROVE Transfer!Next
  <2>1. Transfer!Send(s)
    BY <1>3 DEF Write, Goto, clientVars, Transfer!Send, IInv, Transferred, Reading
  <2>. QED
    BY <2>1 DEF Transfer!Next
<1>4. ASSUME NEW s \in Streams, Receive(s) PROVE Transfer!Next
  <2>1. got[s] < offset[s]
    BY <1>4 DEF Receive, IInv, TypeOK, Transferred
  <2>2. Transfer!Receive(s)
    BY <1>4, <2>1 DEF Receive, threadVars, Transfer!Receive
  <2>. QED
    BY <2>2 DEF Transfer!Next
<1>5. ASSUME NEW s \in Streams, EndStream(s)
      PROVE  Transfer!Next \/ UNCHANGED Transfer!vars
  <2>1. UNCHANGED <<offset, got>>
    BY <1>5 DEF EndStream, clientVars
  <2>2. CASE pc[s] = "fail"
    BY <1>1, <1>5, <2>1, <2>2 DEF EndStream, EndPipe, Broken, Goto
  <2>3. CASE pc[s] = "finish" /\ writeEnd[s] = "open"
    <3>1. offset[s] = Chunks
      BY <2>3 DEF IInv, Transferred
    <3>2. Transfer!Finish(s)
      BY <1>5, <2>1, <2>3, <3>1
      DEF EndStream, EndPipe, Goto, Transfer!Finish, IInv, TypeOK
    <3>. QED
      BY <3>2 DEF Transfer!Next
  <2>4. CASE pc[s] = "finish" /\ writeEnd[s] # "open"
    BY <1>5, <2>1, <2>4 DEF EndStream, EndPipe, Goto, IInv, TypeOK
  <2>. QED
    BY <1>5, <2>2, <2>3, <2>4 DEF EndStream, Goto
<1>6. ASSUME NEW s \in Streams,
             \/ RegCheck(s) \/ RegRetract(s) \/ Listen(s) \/ SignalCall(s)
      PROVE  Transfer!Next \/ UNCHANGED Transfer!vars
  <2>1. UNCHANGED <<offset, got>> /\ (writeEnd' = writeEnd \/ Broken(s))
    BY <1>6, CancelBreaks
    DEF RegCheck, RegRetract, Listen, SignalCall, Spared, clientVars, threadVars, IInv
  <2>. QED
    BY <1>1, <1>2, <2>1
<1>7. ASSUME NEW s \in Streams,
             \/ Open(s) \/ RegPut(s) \/ RegRecheck(s) \/ Enlist(s) \/ Start(s) \/ Check(s)
             \/ ReadSubmit(s) \/ Serve(s) \/ ReadGet(s) \/ WriteFails(s) \/ Unlist(s)
             \/ Release(s) \/ ReadInterrupted(s) \/ Abandon(s) \/ SignalCancel(s)
      PROVE  UNCHANGED <<offset, got, writeEnd>>
  BY <1>7
  DEF Open, RegPut, RegRecheck, Enlist, Start, Check, ReadSubmit, Serve, ReadGet,
      WriteFails, Unlist, Release, ReadInterrupted, Abandon, SignalCancel, clientVars,
      threadVars
<1>8. ASSUME NEW k \in Closers, UnmountVisit(k) \/ CloseVisit(k)
      PROVE  Transfer!Next \/ UNCHANGED Transfer!vars
  <2>1. /\ cursor[k] \in Streams /\ Cancel(cursor[k]) /\ UNCHANGED <<offset, got>>
    BY <1>8 DEF UnmountVisit, CloseVisit, clientVars, threadVars, IInv, TypeOK
  <2>. QED
    BY <2>1, <1>1, CancelBreaks DEF IInv
<1>9. ASSUME NEW k \in Closers,
             \/ UnmountIterate(k) \/ UnmountClear(k) \/ Swap(k) \/ CloseFlag(k)
             \/ CloseIterate(k) \/ CloseClear(k) \/ Destroy(k)
      PROVE  UNCHANGED <<offset, got, writeEnd>>
  BY <1>9
  DEF UnmountIterate, UnmountClear, Swap, CloseFlag, CloseIterate, CloseClear, Destroy,
      clientVars, threadVars
<1>10. CASE UNCHANGED vars
  BY <1>10 DEF vars, threadVars, clientVars
<1>. QED
  BY <1>2, <1>3, <1>4, <1>5, <1>6, <1>7, <1>8, <1>9, <1>10 DEF Next, ThreadStep, CloseStep

(* Each stream hands its client a prefix of the file in order, and ends once:
   clean after the last chunk only, whatever cancels it on the way. *)
THEOREM Transfers == SafeSpec => ImplementsTransfer
<1>1. Init => Transfer!Init
  BY DEF Init, Transfer!Init
<1>. QED
  BY <1>1, TransferStep, Inductive, PTL DEF SafeSpec, Transfer!SafeSpec, ImplementsTransfer
=============================================================================
