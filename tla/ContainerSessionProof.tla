------------------------ MODULE ContainerSessionProof ------------------------
(***************************************************************************)
(* ContainerSession for any number of operations, closers and              *)
(* registrations: type correctness, the guarantees of close(), and the     *)
(* step correspondence with DrainingSession.                               *)
(***************************************************************************)
EXTENDS ContainerSession, WellFoundedInduction, TLAPS

(* The monitor is held from the check to the submission. *)
Monitor ==
    /\ \A c \in Calls : callPc[c] \in {"check", "submit"} => gate = c
    /\ \A k \in Closers : closePc[k] = "submit" => gate = k

(* The compareAndSet lets one close() through. *)
Winner(k) == closePc[k] # "new" /\ closeEnd[k] # "already"
Won ==
    /\ ~closed => \A k \in Closers : closePc[k] = "new"
    /\ \A j, k \in Closers : Winner(j) /\ Winner(k) => j = k
    /\ \A k \in Closers : closeEnd[k] = "already" => closePc[k] = "done"
    /\ \A k \in Closers : closeEnd[k] = "closed" => native = "destroyed"
    /\ \A k \in Closers : closeEnd[k] = "closed" => closePc[k] # "new"

(* The destruction is submitted after every operation, and never before an
   operation that has passed the check. *)
Submitted(k) == Winner(k) /\ closePc[k] \in {"wait", "shutdown", "done"}
Backlog ==
    /\ \A c \in Calls : callPc[c] = "submit" => \A k \in Closers : ~Submitted(k)
    /\ \A k \in Closers : Submitted(k) <=>
          (Winner(k) /\ (Queued(k) \/ running = k \/ native = "destroyed"))
    /\ \A k \in Closers : Queued(k) \/ running = k => Submitted(k)
    /\ native = "destroyed" => \E k \in Closers : Submitted(k)
    /\ \A i \in DOMAIN queue : queue[i] \in Closers => i = Len(queue)
    /\ running \in Closers \/ native = "destroyed" => queue = <<>>
    /\ native = "destroyed" => running = None
    /\ \A c \in Calls : answer[c] # "stale"

(* Operations are in the backlog once, and only after their submission. *)
Distinct ==
    /\ \A i, j \in DOMAIN queue : queue[i] = queue[j] => i = j
    /\ running # None => ~Queued(running)
    /\ \A c \in Calls : Queued(c) \/ running = c =>
          callPc[c] \in {"wait", "done"} /\ answer[c] # "rejected"
    /\ \A c \in Calls : callPc[c] \in {"new", "check", "submit"} => answer[c] = "none"
    /\ \A c \in Calls : answer[c] = "rejected" => callPc[c] = "done"

(* The iterator of close() has yet to come to the entry of r. *)
Ahead(r) == \E k \in Closers :
    \/ closePc[k] = "start"
    \/ closePc[k] = "iterate" /\ cursor # None /\ cursor <= r

BeforeClose == ~closed =>
    /\ cursor = None /\ early = {}
    /\ \A r \in Regs : regPc[r] \in {"recheck", "registered"} => r \in callbacks
    /\ \A r \in Regs : regPc[r] # "retract"
CursorInv == cursor # None => \E k \in Closers : closePc[k] = "iterate"
EarlyInv == \A r \in early :
    \/ fired[r] > 0 \/ regPc[r] = "released"
    \/ regPc[r] = "registered" /\ r \in callbacks /\ Ahead(r)

(* A callback runs at most once from the loop in close() and once from its own
   onClose. *)
Visits(r) == IF ~closed \/ Ahead(r) THEN 0 ELSE 1
OwnCancels(r) == IF regPc[r] \in {"registered", "released"} THEN 1 ELSE 0
FiredInv == \A r \in Regs : fired[r] <= Visits(r) + OwnCancels(r)

Cancels == BeforeClose /\ CursorInv /\ EarlyInv /\ FiredInv

IInv == TypeOK /\ Monitor /\ Won /\ Backlog /\ Distinct /\ Cancels

USE RegsAssumption, ProcessAssumption

-----------------------------------------------------------------------------
(* The order of the traversal *)

LEMMA NoneIsNoTask == /\ None \notin Calls /\ None \notin Closers
                      /\ None \notin Regs /\ None \notin Tasks
BY DEF Tasks

LEMMA Least ==
    ASSUME NEW S, S \subseteq Nat, S # {}
    PROVE  \E x \in S : \A y \in S : x <= y
<1>1. PICK x \in S : \A y \in S : ~(<<y, x>> \in OpToRel(<, Nat))
      BY NatLessThanWellFounded, WFMin
<1>2. ASSUME NEW y \in S PROVE x <= y
  <2>1. SUFFICES ASSUME y < x PROVE FALSE
        OBVIOUS
  <2>2. <<y, x>> \in Nat \X Nat /\ <<y, x>>[1] < <<y, x>>[2]
        BY <2>1
  <2>3. <<y, x>> \in {ss \in Nat \X Nat : ss[1] < ss[2]}
        BY <2>2, Zenon
  <2> QED BY <2>3, <1>1, Zenon DEF OpToRel
<1> QED BY <1>2

(* FirstFrom(n) is the first entry at or after n. *)
LEMMA First ==
    ASSUME TypeOK, NEW n \in Nat
    PROVE  /\ FirstFrom(n) \in Regs \cup {None}
           /\ FirstFrom(n) # None => FirstFrom(n) >= n
           /\ \A r \in callbacks : r >= n =>
                 FirstFrom(n) # None /\ FirstFrom(n) <= r
<1> DEFINE S == {r \in callbacks : r >= n}
<1>1. S \subseteq Nat /\ S \subseteq Regs
      BY DEF TypeOK
<1>2. CASE S = {}
      BY <1>2 DEF FirstFrom
<1>3. CASE S # {}
  <2>1. \E x \in S : \A y \in S : x <= y
        BY <1>1, <1>3, Least
  <2>2. \E x \in callbacks : x >= n /\ \A y \in callbacks : y >= n => x <= y
        BY <2>1
  <2>3. FirstFrom(n) \in callbacks /\ FirstFrom(n) >= n
           /\ \A y \in callbacks : y >= n => FirstFrom(n) <= y
        BY <2>2 DEF FirstFrom
  <2> QED BY <2>3, <1>1, NoneIsNoTask DEF TypeOK
<1> QED BY <1>2, <1>3

-----------------------------------------------------------------------------
(* The queue *)

LEMMA AppendTask ==
    ASSUME TypeOK, NEW x \in Tasks, queue' = Append(queue, x)
    PROVE  /\ queue' \in Seq(Tasks) /\ Len(queue') = Len(queue) + 1
           /\ queue'[Len(queue) + 1] = x
           /\ \A i \in DOMAIN queue : queue'[i] = queue[i]
           /\ \A y \in Tasks : Queued(y)' <=> Queued(y) \/ y = x
<1>1. /\ queue' \in Seq(Tasks) /\ Len(queue') = Len(queue) + 1
      /\ queue'[Len(queue) + 1] = x
      /\ \A i \in DOMAIN queue : queue'[i] = queue[i]
      BY DEF TypeOK
<1>2. /\ DOMAIN queue \subseteq DOMAIN queue'
      /\ Len(queue) + 1 \in DOMAIN queue'
      /\ \A i \in DOMAIN queue' : i \in DOMAIN queue \/ i = Len(queue) + 1
      BY <1>1 DEF TypeOK
<1>3. ASSUME NEW y \in Tasks PROVE Queued(y)' <=> Queued(y) \/ y = x
  <2>1. Queued(y)' => Queued(y) \/ y = x
        BY <1>1, <1>2 DEF Queued
  <2>2. Queued(y) => Queued(y)'
        BY <1>1, <1>2 DEF Queued
  <2>3. y = x => Queued(y)'
        BY <1>1, <1>2 DEF Queued
  <2> QED BY <2>1, <2>2, <2>3
<1> QED BY <1>1, <1>3

LEMMA TakeTask ==
    ASSUME TypeOK, queue # <<>>, queue' = Tail(queue)
    PROVE  /\ queue' \in Seq(Tasks) /\ Len(queue') = Len(queue) - 1
           /\ Head(queue) \in Tasks /\ Head(queue) = queue[1]
           /\ \A i \in DOMAIN queue' : i + 1 \in DOMAIN queue /\ queue'[i] = queue[i + 1]
           /\ \A y \in Tasks : Queued(y) <=> Queued(y)' \/ y = Head(queue)
<1>1. /\ queue' \in Seq(Tasks) /\ Len(queue') = Len(queue) - 1
      /\ Head(queue) \in Tasks /\ Head(queue) = queue[1]
      /\ \A i \in DOMAIN queue' : i + 1 \in DOMAIN queue /\ queue'[i] = queue[i + 1]
      BY DEF TypeOK
<1>2. \A i \in DOMAIN queue : i = 1 \/ (i - 1 \in DOMAIN queue' /\ queue'[i - 1] = queue[i])
      BY <1>1 DEF TypeOK
<1>3. 1 \in DOMAIN queue
      BY DEF TypeOK
<1>4. ASSUME NEW y \in Tasks PROVE Queued(y) <=> Queued(y)' \/ y = Head(queue)
  <2>1. Queued(y) => Queued(y)' \/ y = Head(queue)
        BY <1>1, <1>2 DEF Queued
  <2>2. Queued(y)' => Queued(y)
        BY <1>1 DEF Queued
  <2>3. y = Head(queue) => Queued(y)
        BY <1>1, <1>3 DEF Queued
  <2> QED BY <2>1, <2>2, <2>3
<1> QED BY <1>1, <1>4

-----------------------------------------------------------------------------
(* Steps that leave the inputs of an invariant alone keep it *)

LEMMA MonitorFrame == Monitor /\ UNCHANGED <<gate, callPc, closePc>> => Monitor'
BY DEF Monitor

LEMMA WonFrame == Won /\ UNCHANGED <<closed, native, closePc, closeEnd>> => Won'
BY DEF Won, Winner

LEMMA BacklogFrame ==
    Backlog /\ UNCHANGED <<workVars, callPc, answer, closePc, closeEnd>> => Backlog'
BY DEF Backlog, Winner, Submitted, Queued, workVars

LEMMA DistinctFrame == Distinct /\ UNCHANGED <<queue, running, callVars>> => Distinct'
BY DEF Distinct, Queued, callVars

LEMMA CancelsFrame ==
    Cancels /\ UNCHANGED <<closed, closePc, regVars, cursor, early>> => Cancels'
BY DEF Cancels, BeforeClose, CursorInv, EarlyInv, FiredInv, Visits, OwnCancels, Ahead,
   regVars

(* A close() that is past its iteration neither meets nor misses a callback. *)
LEMMA CancelsPast ==
    ASSUME Cancels, NEW k \in Closers, TypeOK,
           UNCHANGED <<closed, regVars, cursor, early>>,
           closePc[k] \notin {"start", "iterate"}, closePc'[k] \notin {"start", "iterate"},
           \A j \in Closers \ {k} : closePc'[j] = closePc[j]
    PROVE  Cancels'
<1>1. \A r \in Regs : Ahead(r)' <=> Ahead(r)
      BY DEF Ahead
<1>2. BeforeClose' /\ CursorInv'
      BY DEF Cancels, BeforeClose, CursorInv, regVars
<1>3. EarlyInv'
      BY <1>1 DEF Cancels, EarlyInv, regVars, TypeOK
<1>4. FiredInv'
      BY <1>1 DEF Cancels, FiredInv, Visits, OwnCancels, regVars
<1> QED BY <1>2, <1>3, <1>4 DEF Cancels

(* Steps of a registration leave the place of the iterator alone. *)
LEMMA SameAhead ==
    UNCHANGED <<closePc, cursor>> => \A r \in Regs : Ahead(r)' <=> Ahead(r)
BY DEF Ahead

-----------------------------------------------------------------------------
(* The invariant is inductive *)

LEMMA Initially == Init => IInv
<1> SUFFICES ASSUME Init PROVE IInv
    OBVIOUS
<1>1. queue \in Seq(Tasks)
      BY DEF Init
<1>5. fired \in [Regs -> 0 .. 2]
      BY DEF Init
<1>6. TypeOK
      BY <1>1, <1>5 DEF Init, TypeOK, Answers
<1>2. Monitor /\ Won
      BY DEF Init, Monitor, Won, Winner
<1>3. Backlog /\ Distinct
      BY NoneIsNoTask DEF Init, Backlog, Distinct, Winner, Submitted, Queued
<1>4. Cancels
      BY DEF Init, Cancels, BeforeClose, CursorInv, EarlyInv, FiredInv, Visits, OwnCancels
<1> QED BY <1>2, <1>3, <1>4, <1>6 DEF IInv

LEMMA ExecEnterKeeps ==
    ASSUME IInv, NEW c \in Calls, ExecEnter(c)
    PROVE  IInv'
<1> USE DEF IInv, MoveCall, MoveClose, MoveReg, callVars, closeVars, regVars, workVars, NotByRegs
<1>1. TypeOK'
      BY DEF ExecEnter, TypeOK, Tasks, Answers
<1>2. Monitor'
      BY <1>1, NoneIsNoTask DEF ExecEnter, TypeOK, Monitor
<1>3. Backlog'
      BY <1>1, NoneIsNoTask DEF ExecEnter, TypeOK, Monitor, Won, Backlog, Winner, Submitted, Queued, Tasks
<1>4. Distinct'
      BY <1>1, NoneIsNoTask DEF ExecEnter, TypeOK, Monitor, Distinct, Queued, Tasks
<1>5. Won' /\ Cancels'
      BY WonFrame, CancelsFrame DEF ExecEnter
<1> QED BY <1>1, <1>2, <1>3, <1>4, <1>5

LEMMA ExecCheckKeeps ==
    ASSUME IInv, NEW c \in Calls, ExecCheck(c)
    PROVE  IInv'
<1> USE DEF IInv, MoveCall, MoveClose, MoveReg, callVars, closeVars, regVars, workVars, NotByRegs
<1>1. TypeOK'
      BY DEF ExecCheck, TypeOK, Tasks, Answers
<1>2. Monitor'
      BY <1>1, NoneIsNoTask DEF ExecCheck, TypeOK, Monitor
<1>3. Backlog'
      BY <1>1, NoneIsNoTask DEF ExecCheck, TypeOK, Monitor, Won, Backlog, Winner, Submitted, Queued, Tasks
<1>4. Distinct'
      BY <1>1, NoneIsNoTask DEF ExecCheck, TypeOK, Monitor, Distinct, Queued, Tasks
<1>5. Won' /\ Cancels'
      BY WonFrame, CancelsFrame DEF ExecCheck
<1> QED BY <1>1, <1>2, <1>3, <1>4, <1>5

LEMMA ExecSubmitKeeps ==
    ASSUME IInv, NEW c \in Calls, ExecSubmit(c)
    PROVE  IInv'
<1> USE DEF IInv, MoveCall, MoveClose, MoveReg, callVars, closeVars, regVars, workVars, NotByRegs
<1>1. TypeOK'
      BY AppendTask DEF ExecSubmit, TypeOK, Tasks, Answers
<1>2. Monitor'
      BY <1>1, NoneIsNoTask DEF ExecSubmit, TypeOK, Monitor
<1>3. Backlog'
  <2>1. callPc[c] = "submit" /\ gate = c /\ c \in Tasks /\ c \notin Closers
        BY DEF ExecSubmit, Tasks, Monitor
  <2>2. \A k \in Closers : ~Submitted(k)
        BY <2>1 DEF Backlog
  <2>3. native # "destroyed" /\ running \notin Closers
        BY <2>2 DEF Backlog
  <2>4. CASE shut
        BY <2>4, <2>1 DEF ExecSubmit, TypeOK, Backlog, Winner, Submitted, Queued
  <2>5. CASE ~shut
    <3>1. queue' = Append(queue, c)
        BY <2>5 DEF ExecSubmit
    <3>2. \A k \in Closers : Queued(k)' <=> Queued(k)
        BY <2>1, <3>1, AppendTask DEF Tasks
    <3>3. \A k \in Closers : ~Queued(k) /\ running # k
        BY <2>2 DEF Backlog
    <3>4. \A k \in Closers : ~Submitted(k)'
        BY <2>2 DEF ExecSubmit, Submitted, Winner
    <3>5. \A i \in DOMAIN queue' : queue'[i] \notin Closers
        BY <3>2, <3>3 DEF Queued
    <3>6. \A k \in Closers : ~Queued(k)' /\ running' # k /\ native' # "destroyed"
        BY <2>3, <3>2, <3>3 DEF ExecSubmit
    <3>7. \A d \in Calls : answer'[d] # "stale"
        BY DEF ExecSubmit, TypeOK, Backlog
    <3>8. running' \notin Closers /\ native' # "destroyed"
        BY <2>3 DEF ExecSubmit
    <3> QED BY <3>4, <3>5, <3>6, <3>7, <3>8 DEF Backlog
  <2> QED BY <2>4, <2>5
<1>4. Distinct'
      BY <1>1, AppendTask, NoneIsNoTask DEF ExecSubmit, TypeOK, Monitor, Distinct, Queued, Tasks
<1>5. Won' /\ Cancels'
      BY WonFrame, CancelsFrame DEF ExecSubmit
<1> QED BY <1>1, <1>2, <1>3, <1>4, <1>5

LEMMA ExecGetKeeps ==
    ASSUME IInv, NEW c \in Calls, ExecGet(c)
    PROVE  IInv'
<1> USE DEF IInv, MoveCall, MoveClose, MoveReg, callVars, closeVars, regVars, workVars, NotByRegs
<1>1. TypeOK'
      BY DEF ExecGet, TypeOK, Tasks, Answers
<1>2. Monitor'
      BY <1>1, NoneIsNoTask DEF ExecGet, TypeOK, Monitor
<1>3. Backlog'
      BY <1>1, NoneIsNoTask DEF ExecGet, TypeOK, Monitor, Won, Backlog, Winner, Submitted, Queued, Tasks
<1>4. Distinct'
      BY <1>1, NoneIsNoTask DEF ExecGet, TypeOK, Monitor, Distinct, Queued, Tasks
<1>5. Won' /\ Cancels'
      BY WonFrame, CancelsFrame DEF ExecGet
<1> QED BY <1>1, <1>2, <1>3, <1>4, <1>5

LEMMA ExecInterruptedKeeps ==
    ASSUME IInv, NEW c \in Calls, ExecInterrupted(c)
    PROVE  IInv'
<1> USE DEF IInv, MoveCall, MoveClose, MoveReg, callVars, closeVars, regVars, workVars, NotByRegs
<1>1. TypeOK'
      BY DEF ExecInterrupted, TypeOK, Tasks, Answers
<1>2. Monitor'
      BY <1>1, NoneIsNoTask DEF ExecInterrupted, TypeOK, Monitor
<1>3. Backlog'
      BY <1>1, NoneIsNoTask DEF ExecInterrupted, TypeOK, Monitor, Won, Backlog, Winner, Submitted, Queued, Tasks
<1>4. Distinct'
      BY <1>1, NoneIsNoTask DEF ExecInterrupted, TypeOK, Monitor, Distinct, Queued, Tasks
<1>5. Won' /\ Cancels'
      BY WonFrame, CancelsFrame DEF ExecInterrupted
<1> QED BY <1>1, <1>2, <1>3, <1>4, <1>5

LEMMA CloseFlagKeeps ==
    ASSUME IInv, NEW k \in Closers, CloseFlag(k)
    PROVE  IInv'
<1> USE DEF IInv, MoveCall, MoveClose, MoveReg, callVars, closeVars, regVars, workVars, NotByRegs
<1>1. TypeOK'
      BY DEF CloseFlag, TypeOK, Tasks, Answers
<1>2. Monitor'
      BY <1>1, NoneIsNoTask DEF CloseFlag, TypeOK, Monitor
<1>3. Won'
      BY <1>1 DEF CloseFlag, TypeOK, Won, Winner
<1>4. Backlog'
      BY <1>1, NoneIsNoTask DEF CloseFlag, TypeOK, Monitor, Won, Backlog, Winner, Submitted, Queued, Tasks
<1>5. Cancels'
  <2>1. CASE closed
    <3>1. closePc'[k] = "done" /\ closePc[k] = "new"
        BY <2>1 DEF CloseFlag, TypeOK
    <3> QED BY <2>1, <3>1, CancelsPast DEF CloseFlag, TypeOK
  <2>2. CASE ~closed
    <3>1. closePc'[k] = "start" /\ closed' /\ cursor' = None
        BY <2>2 DEF CloseFlag, TypeOK, Cancels, BeforeClose
    <3>2. \A q \in Regs : Ahead(q)'
        BY <3>1 DEF Ahead
    <3>3. BeforeClose' /\ CursorInv'
        BY <3>1 DEF BeforeClose, CursorInv
    <3>4. EarlyInv'
        BY <2>2, <3>2 DEF CloseFlag, TypeOK, Cancels, BeforeClose, EarlyInv
    <3>5. FiredInv'
        BY <2>2, <3>2 DEF CloseFlag, Cancels, FiredInv, Visits, OwnCancels
    <3> QED BY <3>3, <3>4, <3>5 DEF Cancels
  <2> QED BY <2>1, <2>2
<1>6. Distinct'
      BY DistinctFrame DEF CloseFlag
<1> QED BY <1>1, <1>2, <1>3, <1>4, <1>5, <1>6

LEMMA CloseIterateKeeps ==
    ASSUME IInv, NEW k \in Closers, CloseIterate(k)
    PROVE  IInv'
<1> USE DEF IInv, MoveCall, MoveClose, MoveReg, callVars, closeVars, regVars, workVars, NotByRegs
<1>1. TypeOK'
      BY First DEF CloseIterate, TypeOK, Tasks, Answers
<1>2. Monitor'
      BY <1>1, NoneIsNoTask DEF CloseIterate, TypeOK, Monitor
<1>3. Won'
      BY <1>1 DEF CloseIterate, TypeOK, Won, Winner
<1>4. Backlog'
      BY <1>1, NoneIsNoTask DEF CloseIterate, TypeOK, Monitor, Won, Backlog, Winner, Submitted, Queued, Tasks
<1>5. Cancels'
  <2>1. closed /\ closed' /\ closePc'[k] = "iterate" /\ closePc[k] = "start"
        BY DEF CloseIterate, TypeOK, Won
  <2>2. \A q \in Regs : Ahead(q)
        BY <2>1 DEF Ahead
  <2>3. \A q \in callbacks : q >= 0 /\ q \in Nat => cursor' # None /\ cursor' <= q
        BY First DEF CloseIterate
  <2>4. \A q \in callbacks : Ahead(q)'
        BY <2>1, <2>3 DEF Ahead, TypeOK
  <2>5. BeforeClose' /\ CursorInv'
        BY <2>1 DEF BeforeClose, CursorInv
  <2>6. EarlyInv'
        BY <2>4 DEF CloseIterate, TypeOK, Cancels, EarlyInv
  <2>7. FiredInv'
    <3> SUFFICES ASSUME NEW q \in Regs PROVE fired'[q] <= Visits(q)' + OwnCancels(q)'
        BY DEF FiredInv
    <3>1. fired[q] \in Int /\ fired[q] <= 0 + OwnCancels(q) /\ fired'[q] = fired[q]
        BY <2>2 DEF CloseIterate, TypeOK, Cancels, FiredInv, Visits
    <3>2. Visits(q)' \in {0, 1} /\ OwnCancels(q)' = OwnCancels(q) /\ OwnCancels(q) \in {0, 1}
        BY DEF CloseIterate, Visits, OwnCancels
    <3> QED BY <3>1, <3>2
  <2> QED BY <2>5, <2>6, <2>7 DEF Cancels
<1>6. Distinct'
      BY DistinctFrame DEF CloseIterate
<1> QED BY <1>1, <1>2, <1>3, <1>4, <1>5, <1>6

LEMMA CloseVisitKeeps ==
    ASSUME IInv, NEW k \in Closers, CloseVisit(k)
    PROVE  IInv'
<1> USE DEF IInv, MoveCall, MoveClose, MoveReg, callVars, closeVars, regVars, workVars, NotByRegs
<1>1. TypeOK'
  <2>1. cursor \in Regs /\ cursor \in Nat /\ closePc[k] = "iterate" /\ closed
        BY DEF CloseVisit, TypeOK, Won
  <2>2. Ahead(cursor) /\ Visits(cursor) = 0
        BY <2>1 DEF Ahead, Visits, CloseVisit
  <2>3. fired[cursor] \in 0 .. 1
        BY <2>1, <2>2 DEF TypeOK, Cancels, FiredInv, OwnCancels
  <2>4. cursor' \in Regs \cup {None}
        BY <2>1, First DEF CloseVisit
  <2>5. fired' \in [Regs -> 0 .. 2]
        BY <2>1, <2>3 DEF CloseVisit, TypeOK
  <2> QED BY <2>4, <2>5 DEF CloseVisit, TypeOK
<1>2. Cancels'
  <2>1. cursor \in Regs /\ cursor \in Nat /\ closePc[k] = "iterate" /\ closed
        BY DEF CloseVisit, TypeOK, Won
  <2>2. \A j \in Closers : closePc[j] \in {"start", "iterate"} => j = k
        BY <2>1 DEF TypeOK, Won, Winner
  <2>3. \A q \in Regs : Ahead(q) <=> cursor <= q
        BY <2>1, <2>2 DEF Ahead, CloseVisit
  <2>4. \A q \in Regs : Ahead(q)' <=> cursor' # None /\ cursor' <= q
        BY <2>1, <2>2 DEF Ahead, CloseVisit
  <2>5. cursor' = FirstFrom(cursor + 1) /\ cursor + 1 \in Nat
        BY <2>1 DEF CloseVisit
  <2>6. /\ cursor' \in Regs \cup {None}
        /\ cursor' # None => cursor' >= cursor + 1
        /\ \A q \in callbacks : q >= cursor + 1 => cursor' # None /\ cursor' <= q
        BY <2>5, First
  <2>7. BeforeClose' /\ CursorInv'
        BY <2>1 DEF CloseVisit, BeforeClose, CursorInv
  <2>8. EarlyInv'
    <3> SUFFICES ASSUME NEW q \in early PROVE
            \/ fired'[q] > 0 \/ regPc'[q] = "released"
            \/ regPc'[q] = "registered" /\ q \in callbacks' /\ Ahead(q)'
        BY DEF CloseVisit, EarlyInv
    <3>1. q \in Regs /\ q \in Nat /\ fired[q] \in Nat
        BY DEF TypeOK
    <3>2. CASE q = cursor
        BY <3>1, <3>2 DEF CloseVisit, TypeOK
    <3>3. CASE q # cursor
      <4>1. fired'[q] = fired[q] /\ regPc' = regPc /\ callbacks' = callbacks
          BY <3>1, <3>3 DEF CloseVisit, TypeOK
      <4>2. q \in callbacks /\ Ahead(q) => Ahead(q)'
          BY <2>1, <2>3, <2>4, <2>6, <3>1, <3>3
      <4> QED BY <4>1, <4>2 DEF Cancels, EarlyInv
    <3> QED BY <3>2, <3>3
  <2>9. FiredInv'
    <3> SUFFICES ASSUME NEW q \in Regs PROVE fired'[q] <= Visits(q)' + OwnCancels(q)'
        BY DEF FiredInv
    <3>1. fired[q] \in Int /\ fired[q] <= Visits(q) + OwnCancels(q) /\ q \in Nat
        BY DEF TypeOK, Cancels, FiredInv
    <3>2. OwnCancels(q)' = OwnCancels(q) /\ OwnCancels(q) \in {0, 1}
        BY DEF CloseVisit, OwnCancels
    <3>3. fired'[q] = IF q = cursor THEN fired[q] + 1 ELSE fired[q]
        BY DEF CloseVisit, TypeOK
    <3>4. closed' /\ (q = cursor => Visits(q) = 0) /\ Visits(q) \in {0, 1} /\ Visits(q)' \in {0, 1}
        BY <2>1, <2>3, <3>1 DEF Visits, CloseVisit
    <3>5. Visits(q)' = 0 => Visits(q) = 0 /\ q # cursor
        BY <2>1, <2>3, <2>4, <2>6, <3>1, <3>4 DEF Visits
    <3> QED BY <3>1, <3>2, <3>3, <3>4, <3>5
  <2> QED BY <2>7, <2>8, <2>9 DEF Cancels
<1>3. Monitor' /\ Won' /\ Backlog' /\ Distinct'
      BY MonitorFrame, WonFrame, BacklogFrame, DistinctFrame DEF CloseVisit
<1> QED BY <1>1, <1>2, <1>3

LEMMA CloseClearKeeps ==
    ASSUME IInv, NEW k \in Closers, CloseClear(k)
    PROVE  IInv'
<1> USE DEF IInv, MoveCall, MoveClose, MoveReg, callVars, closeVars, regVars, workVars, NotByRegs
<1>1. TypeOK'
      BY DEF CloseClear, TypeOK, Tasks, Answers
<1>2. Monitor'
      BY <1>1, NoneIsNoTask DEF CloseClear, TypeOK, Monitor
<1>3. Won'
      BY <1>1 DEF CloseClear, TypeOK, Won, Winner
<1>4. Backlog'
      BY <1>1, NoneIsNoTask DEF CloseClear, TypeOK, Monitor, Won, Backlog, Winner, Submitted, Queued, Tasks
<1>5. Cancels'
  <2>1. closed /\ closed' /\ cursor' = None /\ cursor = None
        BY DEF CloseClear, TypeOK, Won
  <2>2. \A j \in Closers : closePc[j] \in {"start", "iterate"} => j = k
        BY DEF CloseClear, TypeOK, Won, Winner
  <2>3. \A q \in Regs : ~Ahead(q) /\ ~Ahead(q)'
        BY <2>1, <2>2 DEF Ahead, CloseClear, TypeOK
  <2>4. BeforeClose' /\ CursorInv'
        BY <2>1 DEF BeforeClose, CursorInv
  <2>5. EarlyInv'
        BY <2>3 DEF CloseClear, TypeOK, Cancels, EarlyInv
  <2>6. FiredInv'
        BY <2>1, <2>3 DEF CloseClear, Cancels, FiredInv, Visits, OwnCancels
  <2> QED BY <2>4, <2>5, <2>6 DEF Cancels
<1>6. Distinct'
      BY DistinctFrame DEF CloseClear
<1> QED BY <1>1, <1>2, <1>3, <1>4, <1>5, <1>6

LEMMA CloseEnterKeeps ==
    ASSUME IInv, NEW k \in Closers, CloseEnter(k)
    PROVE  IInv'
<1> USE DEF IInv, MoveCall, MoveClose, MoveReg, callVars, closeVars, regVars, workVars, NotByRegs
<1>1. TypeOK'
      BY DEF CloseEnter, TypeOK, Tasks, Answers
<1>2. Monitor'
      BY <1>1, NoneIsNoTask DEF CloseEnter, TypeOK, Monitor
<1>3. Won'
      BY <1>1 DEF CloseEnter, TypeOK, Won, Winner
<1>4. Backlog'
      BY <1>1, NoneIsNoTask DEF CloseEnter, TypeOK, Monitor, Won, Backlog, Winner, Submitted, Queued, Tasks
<1>5. Cancels'
  <2>1. /\ closePc[k] \notin {"start", "iterate"} /\ closePc'[k] \notin {"start", "iterate"}
        /\ \A j \in Closers \ {k} : closePc'[j] = closePc[j]
        /\ UNCHANGED <<closed, regVars, cursor, early>>
        BY DEF CloseEnter, TypeOK
  <2> QED BY <2>1, CancelsPast
<1>6. Distinct'
      BY DistinctFrame DEF CloseEnter
<1> QED BY <1>1, <1>2, <1>3, <1>4, <1>5, <1>6

LEMMA CloseSubmitKeeps ==
    ASSUME IInv, NEW k \in Closers, CloseSubmit(k)
    PROVE  IInv'
<1> USE DEF IInv, MoveCall, MoveClose, MoveReg, callVars, closeVars, regVars, workVars, NotByRegs
<1>1. TypeOK'
      BY AppendTask DEF CloseSubmit, TypeOK, Tasks, Answers
<1>2. Monitor'
      BY <1>1, NoneIsNoTask DEF CloseSubmit, TypeOK, Monitor
<1>3. Won'
      BY <1>1 DEF CloseSubmit, TypeOK, Won, Winner
<1>4. Backlog'
  <2>1. closePc[k] = "submit" /\ gate = k /\ k \in Tasks /\ k \notin Calls /\ Winner(k)
        BY DEF CloseSubmit, Tasks, Monitor, Winner, Won, TypeOK
  <2>2. \A j \in Closers : ~Submitted(j)
        BY <2>1 DEF Won, Submitted
  <2>3. native # "destroyed" /\ running \notin Closers /\ \A j \in Closers : ~Queued(j)
        BY <2>2 DEF Backlog
  <2>4. queue' = Append(queue, k)
        BY DEF CloseSubmit
  <2>5. \A j \in Closers : Queued(j)' <=> j = k
        BY <2>3, <2>4, <2>1, AppendTask DEF Tasks
  <2>6. \A j \in Closers : Submitted(j)' <=> j = k
        BY <2>1, <2>2 DEF CloseSubmit, Submitted, Winner, TypeOK
  <2>7. \A c \in Calls : callPc'[c] # "submit"
        BY <2>1 DEF CloseSubmit, Monitor
  <2>8. \A i \in DOMAIN queue' : queue'[i] \in Closers => i = Len(queue')
    <3>1. \A i \in DOMAIN queue' : i \in DOMAIN queue \/ i = Len(queue')
        BY <2>4, <2>1, AppendTask DEF TypeOK
    <3> QED BY <3>1, <2>3, <2>4, <2>1, AppendTask DEF Queued
  <2>9. native' # "destroyed" /\ running' \notin Closers /\ \A c \in Calls : answer'[c] # "stale"
        BY <2>3 DEF CloseSubmit, Backlog
  <2>10. \A j \in Closers : running' # j
        BY <2>9
  <2>11. Winner(k)'
        BY <2>1 DEF CloseSubmit, Winner, TypeOK
  <2>12. \A j \in Closers : Winner(j)' => j = k
        BY <2>1 DEF CloseSubmit, Winner, TypeOK, Won
  <2> QED BY <2>5, <2>6, <2>7, <2>8, <2>9, <2>10, <2>11, <2>12 DEF Backlog
<1>5. Distinct'
  <2>1. closePc[k] = "submit" /\ k \in Tasks /\ k \notin Calls /\ ~Submitted(k) /\ k # None
        BY NoneIsNoTask DEF CloseSubmit, Tasks, Submitted
  <2>2. ~Queued(k) /\ running # k
        BY <2>1 DEF Backlog
  <2>3. /\ queue' = Append(queue, k) /\ UNCHANGED <<running, callPc, answer>>
        BY DEF CloseSubmit
  <2>4. \A i \in DOMAIN queue' : i \in DOMAIN queue \/ i = Len(queue) + 1
        BY <2>1, <2>3, AppendTask DEF TypeOK
  <2>5. \A i, j \in DOMAIN queue' : queue'[i] = queue'[j] => i = j
        BY <2>1, <2>2, <2>3, <2>4, AppendTask DEF Distinct, Queued
  <2>6. \A x \in Tasks : Queued(x)' <=> Queued(x) \/ x = k
        BY <2>1, <2>3, AppendTask
  <2>7. running' # None => ~Queued(running)'
        BY <2>2, <2>3, <2>6 DEF Distinct, TypeOK
  <2> QED BY <2>1, <2>3, <2>5, <2>6, <2>7 DEF Distinct, Tasks
<1>6. Cancels'
  <2>1. /\ closePc[k] \notin {"start", "iterate"} /\ closePc'[k] \notin {"start", "iterate"}
        /\ \A j \in Closers \ {k} : closePc'[j] = closePc[j]
        /\ UNCHANGED <<closed, regVars, cursor, early>>
        BY DEF CloseSubmit, TypeOK
  <2> QED BY <2>1, CancelsPast
<1> QED BY <1>1, <1>2, <1>3, <1>4, <1>5, <1>6

LEMMA CloseGetKeeps ==
    ASSUME IInv, NEW k \in Closers, CloseGet(k)
    PROVE  IInv'
<1> USE DEF IInv, MoveCall, MoveClose, MoveReg, callVars, closeVars, regVars, workVars, NotByRegs
<1>1. TypeOK'
      BY DEF CloseGet, TypeOK, Tasks, Answers
<1>2. Monitor'
      BY <1>1, NoneIsNoTask DEF CloseGet, TypeOK, Monitor
<1>3. Won'
      BY <1>1 DEF CloseGet, TypeOK, Won, Winner, Backlog, Submitted, Finished
<1>4. Backlog'
      BY <1>1, NoneIsNoTask DEF CloseGet, TypeOK, Monitor, Won, Backlog, Winner, Submitted, Queued, Tasks
<1>5. Cancels'
  <2>1. /\ closePc[k] \notin {"start", "iterate"} /\ closePc'[k] \notin {"start", "iterate"}
        /\ \A j \in Closers \ {k} : closePc'[j] = closePc[j]
        /\ UNCHANGED <<closed, regVars, cursor, early>>
        BY DEF CloseGet, TypeOK
  <2> QED BY <2>1, CancelsPast
<1>6. Distinct'
      BY DistinctFrame DEF CloseGet
<1> QED BY <1>1, <1>2, <1>3, <1>4, <1>5, <1>6

LEMMA CloseInterruptedKeeps ==
    ASSUME IInv, NEW k \in Closers, CloseInterrupted(k)
    PROVE  IInv'
<1> USE DEF IInv, MoveCall, MoveClose, MoveReg, callVars, closeVars, regVars, workVars, NotByRegs
<1>1. TypeOK'
      BY DEF CloseInterrupted, TypeOK, Tasks, Answers
<1>2. Monitor'
      BY <1>1, NoneIsNoTask DEF CloseInterrupted, TypeOK, Monitor
<1>3. Won'
      BY <1>1 DEF CloseInterrupted, TypeOK, Won, Winner
<1>4. Backlog'
      BY <1>1, NoneIsNoTask DEF CloseInterrupted, TypeOK, Monitor, Won, Backlog, Winner, Submitted, Queued, Tasks
<1>5. Cancels'
  <2>1. /\ closePc[k] \notin {"start", "iterate"} /\ closePc'[k] \notin {"start", "iterate"}
        /\ \A j \in Closers \ {k} : closePc'[j] = closePc[j]
        /\ UNCHANGED <<closed, regVars, cursor, early>>
        BY DEF CloseInterrupted, TypeOK
  <2> QED BY <2>1, CancelsPast
<1>6. Distinct'
      BY DistinctFrame DEF CloseInterrupted
<1> QED BY <1>1, <1>2, <1>3, <1>4, <1>5, <1>6

LEMMA CloseShutdownKeeps ==
    ASSUME IInv, NEW k \in Closers, CloseShutdown(k)
    PROVE  IInv'
<1> USE DEF IInv, MoveCall, MoveClose, MoveReg, callVars, closeVars, regVars, workVars, NotByRegs
<1>1. TypeOK'
      BY DEF CloseShutdown, TypeOK, Tasks, Answers
<1>2. Monitor'
      BY <1>1, NoneIsNoTask DEF CloseShutdown, TypeOK, Monitor
<1>3. Won'
      BY <1>1 DEF CloseShutdown, TypeOK, Won, Winner
<1>4. Backlog'
      BY <1>1, NoneIsNoTask DEF CloseShutdown, TypeOK, Monitor, Won, Backlog, Winner, Submitted, Queued, Tasks
<1>5. Cancels'
  <2>1. /\ closePc[k] \notin {"start", "iterate"} /\ closePc'[k] \notin {"start", "iterate"}
        /\ \A j \in Closers \ {k} : closePc'[j] = closePc[j]
        /\ UNCHANGED <<closed, regVars, cursor, early>>
        BY DEF CloseShutdown, TypeOK
  <2> QED BY <2>1, CancelsPast
<1>6. Distinct'
      BY DistinctFrame DEF CloseShutdown
<1> QED BY <1>1, <1>2, <1>3, <1>4, <1>5, <1>6

LEMMA RegCheckKeeps ==
    ASSUME IInv, NEW r \in Regs, RegCheck(r)
    PROVE  IInv'
<1> USE DEF IInv, MoveCall, MoveClose, MoveReg, callVars, closeVars, regVars, workVars, NotByRegs
<1>1. TypeOK'
      BY DEF RegCheck, TypeOK, Cancels, FiredInv, Visits, OwnCancels, Ahead
<1>2. Cancels'
  <2>1. \A q \in Regs : Ahead(q)' <=> Ahead(q)
        BY SameAhead DEF RegCheck
  <2>2. BeforeClose' /\ CursorInv'
        BY DEF RegCheck, TypeOK, Cancels, BeforeClose, CursorInv
  <2>3. EarlyInv'
    <3> SUFFICES ASSUME NEW q \in early PROVE
            \/ fired'[q] > 0 \/ regPc'[q] = "released"
            \/ regPc'[q] = "registered" /\ q \in callbacks' /\ Ahead(q)'
        BY DEF RegCheck, EarlyInv
    <3>1. q \in Regs /\ Ahead(q)' <=> q \in Regs /\ Ahead(q)
        BY <2>1
    <3> QED BY <3>1 DEF RegCheck, TypeOK, Cancels, EarlyInv
  <2>4. FiredInv'
    <3> SUFFICES ASSUME NEW q \in Regs PROVE fired'[q] <= Visits(q)' + OwnCancels(q)'
        BY DEF FiredInv
    <3>1. Visits(q)' = Visits(q)
        BY <2>1 DEF RegCheck, Visits
    <3>2. fired[q] \in Int /\ Visits(q) \in {0, 1} /\ fired[q] <= Visits(q) + OwnCancels(q)
        BY DEF TypeOK, Cancels, FiredInv, Visits
    <3>3. fired'[q] - fired[q] <= OwnCancels(q)' - OwnCancels(q)
      <4>1. CASE q = r
          BY <4>1, <3>2 DEF RegCheck, OwnCancels, TypeOK
      <4>2. CASE q # r
          BY <4>2, <3>2 DEF RegCheck, OwnCancels, TypeOK
      <4> QED BY <4>1, <4>2
    <3>4. OwnCancels(q) \in {0, 1} /\ OwnCancels(q)' \in {0, 1} /\ fired'[q] \in Int
        BY <1>1 DEF OwnCancels, TypeOK
    <3> QED BY <3>1, <3>2, <3>3, <3>4
  <2> QED BY <2>2, <2>3, <2>4 DEF Cancels
<1>3. Monitor' /\ Won' /\ Backlog' /\ Distinct'
      BY MonitorFrame, WonFrame, BacklogFrame, DistinctFrame DEF RegCheck
<1> QED BY <1>1, <1>2, <1>3

LEMMA RegPutKeeps ==
    ASSUME IInv, NEW r \in Regs, RegPut(r)
    PROVE  IInv'
<1> USE DEF IInv, MoveCall, MoveClose, MoveReg, callVars, closeVars, regVars, workVars, NotByRegs
<1>1. TypeOK'
      BY DEF RegPut, TypeOK, Tasks, Answers
<1>2. Cancels'
  <2>1. \A q \in Regs : Ahead(q)' <=> Ahead(q)
        BY SameAhead DEF RegPut
  <2>2. BeforeClose' /\ CursorInv'
        BY DEF RegPut, TypeOK, Cancels, BeforeClose, CursorInv
  <2>3. EarlyInv'
    <3> SUFFICES ASSUME NEW q \in early PROVE
            \/ fired'[q] > 0 \/ regPc'[q] = "released"
            \/ regPc'[q] = "registered" /\ q \in callbacks' /\ Ahead(q)'
        BY DEF RegPut, EarlyInv
    <3>1. q \in Regs /\ Ahead(q)' <=> q \in Regs /\ Ahead(q)
        BY <2>1
    <3> QED BY <3>1 DEF RegPut, TypeOK, Cancels, EarlyInv
  <2>4. FiredInv'
    <3> SUFFICES ASSUME NEW q \in Regs PROVE fired'[q] <= Visits(q)' + OwnCancels(q)'
        BY DEF FiredInv
    <3>1. Visits(q)' = Visits(q)
        BY <2>1 DEF RegPut, Visits
    <3>2. fired[q] \in Int /\ Visits(q) \in {0, 1} /\ fired[q] <= Visits(q) + OwnCancels(q)
        BY DEF TypeOK, Cancels, FiredInv, Visits
    <3>3. fired'[q] - fired[q] <= OwnCancels(q)' - OwnCancels(q)
      <4>1. CASE q = r
          BY <4>1, <3>2 DEF RegPut, OwnCancels, TypeOK
      <4>2. CASE q # r
          BY <4>2, <3>2 DEF RegPut, OwnCancels, TypeOK
      <4> QED BY <4>1, <4>2
    <3>4. OwnCancels(q) \in {0, 1} /\ OwnCancels(q)' \in {0, 1} /\ fired'[q] \in Int
        BY <1>1 DEF OwnCancels, TypeOK
    <3> QED BY <3>1, <3>2, <3>3, <3>4
  <2> QED BY <2>2, <2>3, <2>4 DEF Cancels
<1>3. Monitor' /\ Won' /\ Backlog' /\ Distinct'
      BY MonitorFrame, WonFrame, BacklogFrame, DistinctFrame DEF RegPut
<1> QED BY <1>1, <1>2, <1>3

LEMMA RegRecheckKeeps ==
    ASSUME IInv, NEW r \in Regs, RegRecheck(r)
    PROVE  IInv'
<1> USE DEF IInv, MoveCall, MoveClose, MoveReg, callVars, closeVars, regVars, workVars, NotByRegs
<1>1. TypeOK'
      BY DEF RegRecheck, TypeOK, Tasks, Answers
<1>2. Cancels'
  <2>1. \A q \in Regs : Ahead(q)' <=> Ahead(q)
        BY SameAhead DEF RegRecheck
  <2>2. BeforeClose' /\ CursorInv'
        BY DEF RegRecheck, TypeOK, Cancels, BeforeClose, CursorInv
  <2>3. EarlyInv'
    <3> SUFFICES ASSUME NEW q \in early PROVE
            \/ fired'[q] > 0 \/ regPc'[q] = "released"
            \/ regPc'[q] = "registered" /\ q \in callbacks' /\ Ahead(q)'
        BY DEF RegRecheck, EarlyInv
    <3>1. q \in Regs /\ Ahead(q)' <=> q \in Regs /\ Ahead(q)
        BY <2>1
    <3> QED BY <3>1 DEF RegRecheck, TypeOK, Cancels, EarlyInv
  <2>4. FiredInv'
    <3> SUFFICES ASSUME NEW q \in Regs PROVE fired'[q] <= Visits(q)' + OwnCancels(q)'
        BY DEF FiredInv
    <3>1. Visits(q)' = Visits(q)
        BY <2>1 DEF RegRecheck, Visits
    <3>2. fired[q] \in Int /\ Visits(q) \in {0, 1} /\ fired[q] <= Visits(q) + OwnCancels(q)
        BY DEF TypeOK, Cancels, FiredInv, Visits
    <3>3. fired'[q] - fired[q] <= OwnCancels(q)' - OwnCancels(q)
      <4>1. CASE q = r
          BY <4>1, <3>2 DEF RegRecheck, OwnCancels, TypeOK
      <4>2. CASE q # r
          BY <4>2, <3>2 DEF RegRecheck, OwnCancels, TypeOK
      <4> QED BY <4>1, <4>2
    <3>4. OwnCancels(q) \in {0, 1} /\ OwnCancels(q)' \in {0, 1} /\ fired'[q] \in Int
        BY <1>1 DEF OwnCancels, TypeOK
    <3> QED BY <3>1, <3>2, <3>3, <3>4
  <2> QED BY <2>2, <2>3, <2>4 DEF Cancels
<1>3. Monitor' /\ Won' /\ Backlog' /\ Distinct'
      BY MonitorFrame, WonFrame, BacklogFrame, DistinctFrame DEF RegRecheck
<1> QED BY <1>1, <1>2, <1>3

LEMMA RegRetractKeeps ==
    ASSUME IInv, NEW r \in Regs, RegRetract(r)
    PROVE  IInv'
<1> USE DEF IInv, MoveCall, MoveClose, MoveReg, callVars, closeVars, regVars, workVars, NotByRegs
<1>1. TypeOK'
      BY DEF RegRetract, TypeOK, Cancels, FiredInv, Visits, OwnCancels, Ahead
<1>2. Cancels'
  <2>1. \A q \in Regs : Ahead(q)' <=> Ahead(q)
        BY SameAhead DEF RegRetract
  <2>2. BeforeClose' /\ CursorInv'
        BY DEF RegRetract, TypeOK, Cancels, BeforeClose, CursorInv
  <2>3. EarlyInv'
    <3> SUFFICES ASSUME NEW q \in early PROVE
            \/ fired'[q] > 0 \/ regPc'[q] = "released"
            \/ regPc'[q] = "registered" /\ q \in callbacks' /\ Ahead(q)'
        BY DEF RegRetract, EarlyInv
    <3>1. q \in Regs /\ Ahead(q)' <=> q \in Regs /\ Ahead(q)
        BY <2>1
    <3> QED BY <3>1 DEF RegRetract, TypeOK, Cancels, EarlyInv
  <2>4. FiredInv'
    <3> SUFFICES ASSUME NEW q \in Regs PROVE fired'[q] <= Visits(q)' + OwnCancels(q)'
        BY DEF FiredInv
    <3>1. Visits(q)' = Visits(q)
        BY <2>1 DEF RegRetract, Visits
    <3>2. fired[q] \in Int /\ Visits(q) \in {0, 1} /\ fired[q] <= Visits(q) + OwnCancels(q)
        BY DEF TypeOK, Cancels, FiredInv, Visits
    <3>3. fired'[q] - fired[q] <= OwnCancels(q)' - OwnCancels(q)
      <4>1. CASE q = r
          BY <4>1, <3>2 DEF RegRetract, OwnCancels, TypeOK
      <4>2. CASE q # r
          BY <4>2, <3>2 DEF RegRetract, OwnCancels, TypeOK
      <4> QED BY <4>1, <4>2
    <3>4. OwnCancels(q) \in {0, 1} /\ OwnCancels(q)' \in {0, 1} /\ fired'[q] \in Int
        BY <1>1 DEF OwnCancels, TypeOK
    <3> QED BY <3>1, <3>2, <3>3, <3>4
  <2> QED BY <2>2, <2>3, <2>4 DEF Cancels
<1>3. Monitor' /\ Won' /\ Backlog' /\ Distinct'
      BY MonitorFrame, WonFrame, BacklogFrame, DistinctFrame DEF RegRetract
<1> QED BY <1>1, <1>2, <1>3

LEMMA RegReleaseKeeps ==
    ASSUME IInv, NEW r \in Regs, RegRelease(r)
    PROVE  IInv'
<1> USE DEF IInv, MoveCall, MoveClose, MoveReg, callVars, closeVars, regVars, workVars, NotByRegs
<1>1. TypeOK'
      BY DEF RegRelease, TypeOK, Tasks, Answers
<1>2. Cancels'
  <2>1. \A q \in Regs : Ahead(q)' <=> Ahead(q)
        BY SameAhead DEF RegRelease
  <2>2. BeforeClose' /\ CursorInv'
        BY DEF RegRelease, TypeOK, Cancels, BeforeClose, CursorInv
  <2>3. EarlyInv'
    <3> SUFFICES ASSUME NEW q \in early PROVE
            \/ fired'[q] > 0 \/ regPc'[q] = "released"
            \/ regPc'[q] = "registered" /\ q \in callbacks' /\ Ahead(q)'
        BY DEF RegRelease, EarlyInv
    <3>1. q \in Regs /\ Ahead(q)' <=> q \in Regs /\ Ahead(q)
        BY <2>1
    <3> QED BY <3>1 DEF RegRelease, TypeOK, Cancels, EarlyInv
  <2>4. FiredInv'
    <3> SUFFICES ASSUME NEW q \in Regs PROVE fired'[q] <= Visits(q)' + OwnCancels(q)'
        BY DEF FiredInv
    <3>1. Visits(q)' = Visits(q)
        BY <2>1 DEF RegRelease, Visits
    <3>2. fired[q] \in Int /\ Visits(q) \in {0, 1} /\ fired[q] <= Visits(q) + OwnCancels(q)
        BY DEF TypeOK, Cancels, FiredInv, Visits
    <3>3. fired'[q] - fired[q] <= OwnCancels(q)' - OwnCancels(q)
      <4>1. CASE q = r
          BY <4>1, <3>2 DEF RegRelease, OwnCancels, TypeOK
      <4>2. CASE q # r
          BY <4>2, <3>2 DEF RegRelease, OwnCancels, TypeOK
      <4> QED BY <4>1, <4>2
    <3>4. OwnCancels(q) \in {0, 1} /\ OwnCancels(q)' \in {0, 1} /\ fired'[q] \in Int
        BY <1>1 DEF OwnCancels, TypeOK
    <3> QED BY <3>1, <3>2, <3>3, <3>4
  <2> QED BY <2>2, <2>3, <2>4 DEF Cancels
<1>3. Monitor' /\ Won' /\ Backlog' /\ Distinct'
      BY MonitorFrame, WonFrame, BacklogFrame, DistinctFrame DEF RegRelease
<1> QED BY <1>1, <1>2, <1>3

LEMMA WorkerTakeKeeps ==
    ASSUME IInv, WorkerTake
    PROVE  IInv'
<1> USE DEF IInv, MoveCall, MoveClose, MoveReg, callVars, closeVars, regVars, workVars, NotByRegs
<1>1. TypeOK'
      BY TakeTask DEF WorkerTake, TypeOK, Tasks, Answers
<1>2. Backlog'
      BY <1>1, TakeTask, NoneIsNoTask DEF WorkerTake, TypeOK, Monitor, Won, Backlog, Winner, Submitted, Queued, Tasks
<1>3. Distinct'
      BY <1>1, TakeTask, NoneIsNoTask DEF WorkerTake, TypeOK, Monitor, Distinct, Queued, Tasks
<1>4. Monitor' /\ Won' /\ Cancels'
      BY MonitorFrame, WonFrame, CancelsFrame DEF WorkerTake
<1> QED BY <1>1, <1>2, <1>3, <1>4

LEMMA WorkerRunKeeps ==
    ASSUME IInv, WorkerRun
    PROVE  IInv'
<1> USE DEF IInv, MoveCall, MoveClose, MoveReg, callVars, closeVars, regVars, workVars, NotByRegs
<1>1. TypeOK'
      BY DEF WorkerRun, TypeOK, Tasks, Answers
<1>2. Backlog'
      BY <1>1, NoneIsNoTask DEF WorkerRun, TypeOK, Monitor, Won, Backlog, Winner, Submitted, Queued, Tasks
<1>3. Distinct'
      BY <1>1, NoneIsNoTask DEF WorkerRun, TypeOK, Monitor, Distinct, Queued, Tasks
<1>4. Monitor' /\ Won' /\ Cancels'
      BY MonitorFrame, WonFrame, CancelsFrame DEF WorkerRun
<1> QED BY <1>1, <1>2, <1>3, <1>4

LEMMA WorkerCloseKeeps ==
    ASSUME IInv, WorkerClose
    PROVE  IInv'
<1> USE DEF IInv, MoveCall, MoveClose, MoveReg, callVars, closeVars, regVars, workVars, NotByRegs
<1>1. TypeOK'
      BY DEF WorkerClose, TypeOK, Tasks, Answers
<1>2. Won'
      BY <1>1 DEF WorkerClose, TypeOK, Won, Winner
<1>3. Backlog'
      BY <1>1, NoneIsNoTask DEF WorkerClose, TypeOK, Monitor, Won, Backlog, Winner, Submitted, Queued, Tasks
<1>4. Distinct'
      BY <1>1, NoneIsNoTask DEF WorkerClose, TypeOK, Monitor, Distinct, Queued, Tasks
<1>5. Monitor' /\ Cancels'
      BY MonitorFrame, CancelsFrame DEF WorkerClose
<1> QED BY <1>1, <1>2, <1>3, <1>4, <1>5

-----------------------------------------------------------------------------
LEMMA StutterKeeps == IInv /\ UNCHANGED vars => IInv'
BY MonitorFrame, WonFrame, BacklogFrame, DistinctFrame, CancelsFrame
   DEF IInv, TypeOK, vars, callVars, closeVars, regVars, workVars

LEMMA NextKeeps == IInv /\ [Next]_vars => IInv'
<1> SUFFICES ASSUME IInv, Next PROVE IInv'
    BY StutterKeeps
<1>1. ASSUME NEW c \in Calls, ExecEnter(c) \/ CallStep(c) \/ ExecInterrupted(c)
      PROVE  IInv'
      BY <1>1, ExecEnterKeeps, ExecCheckKeeps, ExecSubmitKeeps, ExecGetKeeps,
         ExecInterruptedKeeps DEF CallStep
<1>2. ASSUME NEW k \in Closers, CloseFlag(k) \/ CloseStep(k) \/ CloseInterrupted(k)
      PROVE  IInv'
      BY <1>2, CloseFlagKeeps, CloseIterateKeeps, CloseVisitKeeps, CloseClearKeeps,
         CloseEnterKeeps, CloseSubmitKeeps, CloseGetKeeps, CloseInterruptedKeeps,
         CloseShutdownKeeps DEF CloseStep
<1>3. ASSUME NEW r \in Regs, RegCheck(r) \/ RegStep(r) \/ RegRelease(r)
      PROVE  IInv'
      BY <1>3, RegCheckKeeps, RegPutKeeps, RegRecheckKeeps, RegRetractKeeps,
         RegReleaseKeeps DEF RegStep
<1>4. WorkerStep => IInv'
      BY WorkerTakeKeeps, WorkerRunKeeps, WorkerCloseKeeps DEF WorkerStep
<1> QED BY <1>1, <1>2, <1>3, <1>4 DEF Next

(* IInv holds in every reachable state, whatever the fairness. *)
THEOREM Inductive == SafeSpec => []IInv
BY Initially, NextKeeps, PTL DEF SafeSpec

-----------------------------------------------------------------------------
(* What follows for a caller *)

(* Every variable of the session keeps its type; a callback runs at most
   twice, once from close() and once from its own onClose. *)
THEOREM TypeCorrect == SafeSpec => []TypeOK
BY Inductive, PTL DEF IInv

(* close() returns normally only when nativeClose has run and nothing is left
   in the worker's queue. *)
THEOREM CloseIsFinal == SafeSpec => []CloseReturnsDestroyed
<1>1. IInv => CloseReturnsDestroyed
      BY NoneIsNoTask DEF IInv, CloseReturnsDestroyed, Won, Backlog, Finished, Queued
<1> QED BY <1>1, Inductive, PTL

(* An operation that passed the closed check runs before nativeClose. *)
THEOREM AcceptedServed == SafeSpec => []AcceptedAreServed
<1>1. IInv => AcceptedAreServed
      BY NoneIsNoTask DEF IInv, AcceptedAreServed, Backlog, Finished, Queued
<1> QED BY <1>1, Inductive, PTL

(* A stream registered before close() took the flag is cancelled before the
   keys are destroyed, unless it ended by itself. *)
THEOREM EarlyCancelled == SafeSpec => []EarlyRegistrationsCancelled
<1>1. ASSUME IInv, native = "destroyed", NEW r \in early
      PROVE  fired[r] > 0 \/ regPc[r] = "released"
  <2>1. PICK k \in Closers : Submitted(k)
        BY <1>1 DEF IInv, Backlog
  <2>2. \A j \in Closers : closePc[j] \notin {"start", "iterate"}
        BY <1>1, <2>1 DEF IInv, Won, Winner, Submitted, TypeOK
  <2> QED BY <1>1, <2>2 DEF IInv, Cancels, EarlyInv, Ahead
<1>2. IInv => EarlyRegistrationsCancelled
      BY <1>1 DEF EarlyRegistrationsCancelled
<1> QED BY <1>2, Inductive, PTL

-----------------------------------------------------------------------------
(* Every step is a step of DrainingSession, or a stutter *)

stage == IF native = "destroyed" THEN "destroyed" ELSE IF closed THEN "closing" ELSE "open"
ran == {c \in Calls : callPc[c] \in {"wait", "done"}
           /\ answer[c] # "rejected" /\ c \notin accepted}

LEMMA Unseen ==
    UNCHANGED <<native, closed, accepted, ran>> => [Draining!Next]_Draining!vars
BY DEF Draining!vars, stage, ran

(* Steps that neither move tasks nor answer operations. *)
LEMMA SameWork ==
    UNCHANGED <<queue, running, callPc, answer>> => UNCHANGED <<accepted, ran>>
BY DEF accepted, ran, Queued

LEMMA SubmitAccepts ==
    ASSUME IInv, NEW c \in Calls, ExecSubmit(c)
    PROVE  [Draining!Next]_Draining!vars
<1>1. /\ c \in Tasks /\ callPc[c] = "submit" /\ answer[c] = "none" /\ native # "destroyed"
      /\ UNCHANGED <<closed, native, running>>
      BY DEF ExecSubmit, MoveCall, Tasks, IInv, Backlog, Distinct
<1>2. ~Queued(c) /\ running # c
      BY <1>1 DEF IInv, Distinct
<1>3. CASE shut
  <2>1. UNCHANGED queue /\ callPc' = [callPc EXCEPT ![c] = "done"]
           /\ answer' = [answer EXCEPT ![c] = "rejected"]
        BY <1>3 DEF ExecSubmit, MoveCall
  <2>2. UNCHANGED accepted
        BY <2>1, <1>1 DEF accepted, Queued
  <2>3. \A d \in Calls : d \in ran' <=> d \in ran
        BY <2>1, <2>2, <1>1 DEF ran, IInv, TypeOK
  <2> QED BY <2>2, <2>3, <1>1, Unseen DEF ran
<1>4. CASE ~shut
  <2>1. /\ queue' = Append(queue, c) /\ callPc' = [callPc EXCEPT ![c] = "wait"]
        /\ answer' = answer
        BY <1>4 DEF ExecSubmit, MoveCall, IInv, TypeOK
  <2>2. \A d \in Calls : Queued(d)' <=> Queued(d) \/ d = c
        BY <2>1, <1>1, AppendTask DEF IInv, Tasks
  <2>3. accepted' = accepted \cup {c}
        BY <2>2, <1>1 DEF accepted
  <2>4. \A d \in Calls : d \in ran' <=> d \in ran
        BY <2>1, <2>3, <1>1 DEF ran, IInv, TypeOK
  <2>5. ran' = ran /\ c \notin accepted \cup ran /\ stage' = stage /\ stage # "destroyed"
        BY <2>4, <1>1, <1>2 DEF ran, accepted, stage
  <2>6. Draining!Accept(c)
        BY <2>3, <2>5 DEF Draining!Accept, stage, ran
  <2> QED BY <2>6 DEF Draining!Next
<1> QED BY <1>3, <1>4

LEMMA TakeMoves ==
    ASSUME IInv, WorkerTake
    PROVE  [Draining!Next]_Draining!vars
<1>1. /\ running = None /\ queue' = Tail(queue) /\ running' = Head(queue) /\ queue # <<>>
      /\ UNCHANGED <<closed, native, callPc, answer>>
      BY DEF WorkerTake, callVars
<1>2. \A c \in Calls : (Queued(c) \/ running = c) <=> (Queued(c)' \/ running' = c)
      BY <1>1, TakeTask, NoneIsNoTask DEF IInv, Tasks
<1>3. accepted' = accepted
      BY <1>2 DEF accepted
<1> QED BY <1>1, <1>3, Unseen DEF ran

LEMMA RunServes ==
    ASSUME IInv, WorkerRun
    PROVE  [Draining!Next]_Draining!vars
<1>1. /\ running \in Calls /\ running' = None /\ queue' = queue
      /\ UNCHANGED <<closed, native, callPc>> /\ native # "destroyed"
      BY NoneIsNoTask DEF WorkerRun, IInv, Backlog
<1>2. /\ ~Queued(running) /\ callPc[running] \in {"wait", "done"}
      /\ answer[running] # "rejected" /\ running \in accepted
      BY <1>1, NoneIsNoTask DEF IInv, Distinct, accepted
<1>3. /\ answer'[running] # "rejected"
      /\ \A d \in Calls \ {running} : answer'[d] = answer[d]
      BY <1>1, <1>2 DEF WorkerRun, IInv, TypeOK
<1>4. \A d \in Calls : Queued(d)' <=> Queued(d)
      BY <1>1 DEF Queued
<1>5. accepted' = accepted \ {running}
      BY <1>1, <1>2, <1>4, NoneIsNoTask DEF accepted
<1>6. \A d \in Calls : d \in ran' <=> d \in ran \/ d = running
      BY <1>1, <1>2, <1>3, <1>5 DEF ran
<1>7. ran' = ran \cup {running}
      BY <1>1, <1>6 DEF ran
<1>8. PICK c \in Calls : c = running
      BY <1>1
<1>9. Draining!Run(c)
      BY <1>1, <1>2, <1>5, <1>7, <1>8 DEF Draining!Run, stage, ran
<1> QED BY <1>9 DEF Draining!Next

LEMMA CloseDestroys ==
    ASSUME IInv, WorkerClose
    PROVE  [Draining!Next]_Draining!vars
<1>1. /\ running \in Closers /\ running' = None /\ native' = "destroyed" /\ queue = <<>>
      /\ UNCHANGED <<closed, queue, callPc, answer>> /\ native # "destroyed"
      BY NoneIsNoTask DEF WorkerClose, IInv, Backlog, callVars
<1>2. closed
      BY <1>1 DEF IInv, Won, Winner, Backlog, Submitted
<1>3. accepted = {} /\ accepted' = {}
      BY <1>1, NoneIsNoTask DEF accepted, Queued
<1>4. ran' = ran
      BY <1>1, <1>3 DEF ran
<1>5. Draining!Destroy
      BY <1>1, <1>2, <1>3, <1>4 DEF Draining!Destroy, stage, ran
<1> QED BY <1>5 DEF Draining!Next

LEMMA FlagCloses ==
    ASSUME IInv, NEW k \in Closers, CloseFlag(k)
    PROVE  [Draining!Next]_Draining!vars
<1>1. UNCHANGED <<native, queue, running, callPc, answer>> /\ closed'
      BY DEF CloseFlag, workVars, callVars
<1>2. UNCHANGED <<accepted, ran>>
      BY <1>1, SameWork
<1>3. CASE closed
      BY <1>1, <1>2, <1>3, Unseen
<1>4. CASE ~closed
  <2>1. native # "destroyed"
        BY <1>4 DEF IInv, Won, Winner, Backlog, Submitted
  <2>2. Draining!StartClose
        BY <1>1, <1>2, <1>4, <2>1 DEF Draining!StartClose, stage, ran
  <2> QED BY <2>2 DEF Draining!Next
<1> QED BY <1>3, <1>4

(* An operation that is refused or gives up waiting. *)
LEMMA CallEnds ==
    ASSUME IInv, NEW c \in Calls,
           ExecEnter(c) \/ ExecCheck(c) \/ ExecGet(c) \/ ExecInterrupted(c)
    PROVE  [Draining!Next]_Draining!vars
<1>1. UNCHANGED <<closed, native, queue, running>>
      BY DEF ExecEnter, ExecCheck, ExecGet, ExecInterrupted, workVars
<1>2. UNCHANGED accepted
      BY <1>1 DEF accepted, Queued
<1>3. /\ \A d \in Calls \ {c} : callPc'[d] = callPc[d] /\ answer'[d] = answer[d]
      /\ callPc'[c] \in {"wait", "done"} /\ answer'[c] # "rejected" <=>
            callPc[c] \in {"wait", "done"} /\ answer[c] # "rejected"
      BY DEF ExecEnter, ExecCheck, ExecGet, ExecInterrupted, MoveCall, IInv, TypeOK, Distinct
<1>4. \A d \in Calls : d \in ran' <=> d \in ran
      BY <1>2, <1>3 DEF ran
<1> QED BY <1>1, <1>2, <1>4, Unseen DEF ran

LEMMA StepDrains == IInv /\ [Next]_vars => [Draining!Next]_Draining!vars
<1> SUFFICES ASSUME IInv, [Next]_vars PROVE [Draining!Next]_Draining!vars
    OBVIOUS
<1> USE DEF callVars, closeVars, regVars, workVars
<1>1. CASE UNCHANGED <<closed, native, queue, running, callPc, answer>>
      BY <1>1, SameWork, Unseen
<1>2. ASSUME NEW c \in Calls, ExecEnter(c) \/ CallStep(c) \/ ExecInterrupted(c)
      PROVE  [Draining!Next]_Draining!vars
      BY <1>2, SubmitAccepts, CallEnds DEF CallStep
<1>3. ASSUME NEW k \in Closers, CloseFlag(k) \/ CloseStep(k) \/ CloseInterrupted(k)
      PROVE  [Draining!Next]_Draining!vars
  <2>1. CASE CloseFlag(k)
        BY <2>1, FlagCloses
  <2>2. CASE CloseSubmit(k)
    <3>1. /\ queue' = Append(queue, k) /\ k \in Tasks /\ k \notin Calls
          /\ UNCHANGED <<closed, native, running, callPc, answer>>
          BY <2>2 DEF CloseSubmit, Tasks
    <3>2. \A c \in Calls : Queued(c)' <=> Queued(c)
          BY <3>1, AppendTask DEF IInv, Tasks
    <3>3. accepted' = accepted
          BY <3>1, <3>2 DEF accepted
    <3> QED BY <3>1, <3>3, Unseen DEF ran
  <2>3. CASE UNCHANGED <<closed, native, queue, running, callPc, answer>>
        BY <2>3, <1>1
  <2> QED BY <1>3, <2>1, <2>2, <2>3 DEF CloseStep, CloseIterate, CloseVisit, CloseClear,
         CloseEnter, CloseGet, CloseShutdown, CloseInterrupted
<1>4. ASSUME NEW r \in Regs, RegCheck(r) \/ RegStep(r) \/ RegRelease(r)
      PROVE  [Draining!Next]_Draining!vars
  <2>1. UNCHANGED <<closed, native, queue, running, callPc, answer>>
        BY <1>4 DEF RegStep, RegCheck, RegPut, RegRecheck, RegRetract, RegRelease, NotByRegs
  <2> QED BY <2>1, <1>1
<1>5. WorkerStep => [Draining!Next]_Draining!vars
      BY TakeMoves, RunServes, CloseDestroys DEF WorkerStep
<1> QED BY <1>1, <1>2, <1>3, <1>4, <1>5 DEF Next, vars

LEMMA InitDrains == Init => Draining!Init
BY NoneIsNoTask DEF Init, Draining!Init, accepted, Queued

(* The session drains: whatever callers, closers and interrupts do, accepted
   operations run on the open native session and its keys go last. *)
THEOREM Drains == SafeSpec => Draining!SafeSpec
BY InitDrains, StepDrains, Inductive, PTL DEF SafeSpec, Draining!SafeSpec
=============================================================================
