-------------------------- MODULE FileExplorerProof --------------------------
(***************************************************************************)
(* FileExplorer for folders of any shape and depth, files of any size, any *)
(* number of requests, recreations and containers.                         *)
(*                                                                         *)
(* Answers come in order because the request numbers rise from what is     *)
(* shown over what is posted and what the worker does to what is queued    *)
(* (Order). A message is true because, from its beginning on, every file   *)
(* of the export is whole, excepted, or covered by what the loops have     *)
(* still to do (Covered).                                                  *)
(***************************************************************************)
EXTENDS FileExplorer, TLAPS

-----------------------------------------------------------------------------
(* Sequences *)

LEMMA AppendFacts ==
    ASSUME NEW S, NEW q \in Seq(S), NEW x \in S
    PROVE  /\ Append(q, x) \in Seq(S)
           /\ Len(Append(q, x)) = Len(q) + 1
           /\ \A n \in 1 .. Len(q) : Append(q, x)[n] = q[n]
           /\ Append(q, x)[Len(q) + 1] = x
BY SMT

LEMMA TailFacts ==
    ASSUME NEW S, NEW q \in Seq(S), q # <<>>
    PROVE  /\ Tail(q) \in Seq(S) /\ Len(q) \in Nat \ {0}
           /\ Len(Tail(q)) = Len(q) - 1
           /\ \A n \in 1 .. Len(q) - 1 : Tail(q)[n] = q[n + 1]
           /\ Head(q) = q[1] /\ q[1] \in S
BY SMT

LEMMA WithoutFirst ==
    ASSUME NEW S, NEW q \in Seq(S), 1 \in DOMAIN q,
           NEW r, r = SubSeq(q, 1, 1 - 1) \o SubSeq(q, 1 + 1, Len(q))
    PROVE  /\ r \in Seq(S) /\ Len(r) = Len(q) - 1 /\ Len(q) \in Nat
           /\ \A n \in 1 .. Len(q) - 1 : r[n] = q[n + 1]
<1>1. Len(q) \in Nat /\ 1 <= Len(q) /\ DOMAIN q = 1 .. Len(q)
  OBVIOUS
<1>2. SubSeq(q, 1, 0) \in Seq(S) /\ Len(SubSeq(q, 1, 0)) = 0
  BY <1>1
<1>3. /\ SubSeq(q, 2, Len(q)) \in Seq(S) /\ Len(SubSeq(q, 2, Len(q))) = Len(q) - 1
      /\ \A n \in 1 .. Len(q) - 1 : SubSeq(q, 2, Len(q))[n] = q[n + 1]
  BY <1>1
<1>4. r = SubSeq(q, 1, 0) \o SubSeq(q, 2, Len(q))
  BY SMT
<1>. QED
  BY <1>1, <1>2, <1>3, <1>4

LEMMA Joined ==
    ASSUME NEW S, NEW p \in Seq(S), NEW q \in Seq(S)
    PROVE  /\ p \o q \in Seq(S) /\ Len(p \o q) = Len(p) + Len(q)
           /\ Len(p) \in Nat /\ Len(q) \in Nat
           /\ \A n \in 1 .. Len(p) : (p \o q)[n] = p[n]
           /\ \A n \in 1 .. Len(q) : (p \o q)[Len(p) + n] = q[n]
BY SMT

-----------------------------------------------------------------------------
(* Types *)

LEMMA NewJob ==
    ASSUME TypeOK, mounted # 0, NEW path \in Folders
    PROVE  /\ \A id \in Nat : LoadJob(id, path) \in Jobs
           /\ ExportJob(path) \in Jobs
BY DEF TypeOK, LoadJob, ExportJob, Jobs

LEMMA ParentFolder ==
    ASSUME NEW f \in Folders \ {Root} PROVE Parent(f) \in Folders
BY TreeAssumption DEF Parent

LEMMA EntriesTyped ==
    ASSUME NEW f \in Folders
    PROVE  /\ DOMAIN Children[f] = 1 .. Len(Children[f]) /\ Len(Children[f]) \in Nat
           /\ \A n \in 1 .. Len(Children[f]) : Children[f][n] \in Folders \cup Files
           /\ Contents(f) \subseteq Folders \cup Files
BY TreeAssumption DEF Contents

LEMMA Queued ==
    ASSUME TypeOK, NEW i \in Instances, NEW x \in Jobs
    PROVE  [queue EXCEPT ![i] = Append(@, x)] \in [Instances -> Seq(Jobs)]
BY AppendFacts DEF TypeOK

LEMMA Posted ==
    ASSUME TypeOK, NEW i \in Instances, NEW kind \in {"show", "error", "done"},
           NEW id \in Nat, NEW path \in Folders, Post(i, kind, id, path)
    PROVE  posts' \in Seq(Posts)
<1>1. [of |-> i, kind |-> kind, id |-> id, path |-> path] \in Posts
  BY DEF Posts
<1>. QED
  BY <1>1, AppendFacts DEF TypeOK, Post

LEMMA ShutdownTypes ==
    ASSUME TypeOK, NEW i \in Instances, NEW q \in [Instances -> Seq(Jobs)],
           ShutdownNow(i, q)
    PROVE  queue' \in [Instances -> Seq(Jobs)] /\ interrupted' \in [Instances -> BOOLEAN]
BY DEF TypeOK, ShutdownNow

LEMMA LoadTypes ==
    ASSUME TypeOK, NEW path \in Folders, Load(path)
    PROVE  /\ phase' \in {"alive", "finishing", "gone"} /\ progress' \in BOOLEAN
           /\ asked' \in 1 .. MaxRequests /\ queue' \in [Instances -> Seq(Jobs)]
<1>1. CASE mounted = 0
  BY <1>1 DEF Load, TypeOK
<1>2. CASE mounted # 0
  <2>1. LoadJob(asked + 1, path) \in Jobs
    BY <1>2, NewJob DEF TypeOK
  <2>2. queue' = [queue EXCEPT ![instance] = Append(@, LoadJob(asked + 1, path))]
    BY <1>2 DEF Load
  <2>3. queue' \in [Instances -> Seq(Jobs)]
    BY <2>1, <2>2, Queued DEF TypeOK
  <2>. QED
    BY <1>2, <2>3, BoundsAssumption DEF Load, TypeOK
<1>. QED
  BY <1>1, <1>2

USE DEF sessionVars, viewVars, pickVars, workVars, exportVars, mainVars

LEMMA UserTypes == TypeOK /\ User => TypeOK'
<1>. SUFFICES ASSUME TypeOK, User PROVE TypeOK'
  OBVIOUS
<1>1. CASE Enter
  <2>1. PICK i \in DOMAIN Children[shown.path] :
          Children[shown.path][i] \in Folders /\ Load(Children[shown.path][i])
    BY <1>1 DEF Enter
  <2>. QED
    BY <1>1, <2>1, LoadTypes DEF Enter, TypeOK
<1>2. CASE GoUp
  <2>1. CASE currentPath = Root
    BY <1>2, <2>1 DEF GoUp, TypeOK
  <2>2. CASE currentPath # Root
    <3>1. Parent(currentPath) \in Folders /\ Load(Parent(currentPath))
      BY <1>2, <2>2, ParentFolder DEF GoUp, TypeOK
    <3>. QED
      BY <1>2, <3>1, LoadTypes DEF GoUp, TypeOK
  <2>. QED
    BY <2>1, <2>2
<1>3. CASE ChooseFolder
  BY <1>3 DEF ChooseFolder, TypeOK
<1>4. CASE PickNothing
  BY <1>4 DEF PickNothing, TypeOK
<1>5. CASE PickDestination
  <2>1. CASE pending # None /\ mounted # 0
    <3>1. pending \in Folders /\ ExportJob(pending) \in Jobs
      BY <2>1, NewJob DEF TypeOK
    <3>2. queue' = [queue EXCEPT ![instance] = Append(@, ExportJob(pending))]
      BY <1>5, <2>1 DEF PickDestination
    <3>3. queue' \in [Instances -> Seq(Jobs)]
      BY <3>1, <3>2, Queued DEF TypeOK
    <3>. QED
      BY <1>5, <2>1, <3>3 DEF PickDestination, TypeOK
  <2>2. CASE pending = None \/ mounted = 0
    BY <1>5, <2>2 DEF PickDestination, TypeOK
  <2>. QED
    BY <2>1, <2>2
<1>. QED
  BY <1>1, <1>2, <1>3, <1>4, <1>5 DEF User

LEMMA SystemTypes == TypeOK /\ (System \/ RunPosted) => TypeOK'
<1>. SUFFICES ASSUME TypeOK, System \/ RunPosted PROVE TypeOK'
  OBVIOUS
<1>1. CASE Recreate
  <2>1. Root \in Folders /\ instance + 1 \in Instances /\ instance \in Instances
    BY <1>1, TreeAssumption, BoundsAssumption DEF Recreate, TypeOK, Instances
  <2>2. CASE mounted = 0
    <3>1. queue' \in [Instances -> Seq(Jobs)] /\ interrupted' \in [Instances -> BOOLEAN]
      BY <1>1, <2>1, <2>2, ShutdownTypes DEF Recreate, TypeOK
    <3>. QED
      BY <1>1, <2>1, <2>2, <3>1 DEF Recreate, TypeOK
  <2>3. CASE mounted # 0
    <3>1. LoadJob(asked + 1, currentPath) \in Jobs
      BY <2>3, NewJob DEF TypeOK
    <3>2. <<LoadJob(asked + 1, currentPath)>> \in Seq(Jobs)
      BY <3>1
    <3>3. [queue EXCEPT ![instance + 1] = <<LoadJob(asked + 1, currentPath)>>]
             \in [Instances -> Seq(Jobs)]
      BY <3>2 DEF TypeOK
    <3>4. queue' \in [Instances -> Seq(Jobs)] /\ interrupted' \in [Instances -> BOOLEAN]
      BY <1>1, <2>1, <2>3, <3>3, ShutdownTypes DEF Recreate
    <3>5. asked' \in 1 .. MaxRequests
      BY <1>1, <2>3, BoundsAssumption DEF Recreate, TypeOK
    <3>. QED
      BY <1>1, <2>1, <2>3, <3>4, <3>5 DEF Recreate, TypeOK
  <2>. QED
    BY <2>2, <2>3
<1>2. CASE Destroy
  <2>1. queue' \in [Instances -> Seq(Jobs)] /\ interrupted' \in [Instances -> BOOLEAN]
    BY <1>2, ShutdownTypes DEF Destroy, TypeOK
  <2>. QED
    BY <1>2, <2>1 DEF Destroy, TypeOK
<1>3. CASE Replace
  BY <1>3, BoundsAssumption DEF Replace, TypeOK
<1>4. CASE Unmount
  BY <1>4, BoundsAssumption DEF Unmount, TypeOK
<1>5. CASE RunPosted
  <2>1. posts' \in Seq(Posts) /\ Head(posts) \in Posts
    BY <1>5, TailFacts DEF RunPosted, TypeOK
  <2>2. /\ currentPath' \in Folders
        /\ shown' \in [id : Nat, path : Folders] \cup {Nothing}
    BY <1>5, <2>1 DEF RunPosted, TypeOK, Posts
  <2>3. progress' \in BOOLEAN
    BY <1>5 DEF RunPosted, TypeOK
  <2>4. report' \in {None, "all", "partial"}
    BY <1>5 DEF RunPosted, TypeOK
  <2>. QED
    BY <1>5, <2>1, <2>2, <2>3, <2>4 DEF RunPosted, TypeOK
<1>. QED
  BY <1>1, <1>2, <1>3, <1>4, <1>5 DEF System

(* A job that is not idle has the type of a job. *)
LEMMA JobTyped ==
    ASSUME TypeOK, NEW i \in Instances, job[i].kind # "none"
    PROVE  job[i] \in Jobs /\ job[i].path \in Folders /\ job[i].id \in Nat
           /\ job[i].session \in 1 .. LastSession
<1>1. job[i] # Idle
  BY DEF Idle
<1>. QED
  BY <1>1 DEF TypeOK, Jobs

LEMMA TaskTyped ==
    ASSUME TypeOK, NEW i \in Instances, NEW kind, At(i, kind)
    PROVE  /\ todo # <<>> /\ Head(todo) = todo[1] /\ todo[1] \in Tasks /\ Len(todo) \in Nat \ {0}
           /\ here = todo[1].path /\ todo[1].kind = kind
           /\ Tail(todo) \in Seq(Tasks)
           /\ kind \in {"list", "folder"} => here \in Folders
           /\ kind \in {"file", "open"} => here \in Files
<1>1. todo # <<>> /\ Head(todo).kind = kind /\ todo \in Seq(Tasks)
  BY DEF At, TypeOK
<1>2. Head(todo) = todo[1] /\ todo[1] \in Tasks /\ Tail(todo) \in Seq(Tasks)
      /\ Len(todo) \in Nat \ {0}
  BY <1>1, TailFacts
<1>. QED
  BY <1>1, <1>2 DEF Tasks, here

LEMMA Listing ==
    ASSUME TypeOK, NEW i \in Instances, ListFolder(i)
    PROVE  LET q == [n \in DOMAIN Children[here] |->
                       [kind |-> IF Children[here][n] \in Folders THEN "folder" ELSE "file",
                        path |-> Children[here][n]]]
           IN  /\ here \in Folders /\ q \in Seq(Tasks) /\ Len(q) = Len(Children[here])
               /\ todo' = q \o Tail(todo) /\ Tail(todo) \in Seq(Tasks)
               /\ \A n \in 1 .. Len(q) : q[n].path = Children[here][n]
<1>. DEFINE q == [n \in DOMAIN Children[here] |->
                       [kind |-> IF Children[here][n] \in Folders THEN "folder" ELSE "file",
                        path |-> Children[here][n]]]
<1>1. here \in Folders /\ Tail(todo) \in Seq(Tasks) /\ todo' = q \o Tail(todo)
  BY TaskTyped DEF ListFolder
<1>2. /\ DOMAIN Children[here] = 1 .. Len(Children[here]) /\ Len(Children[here]) \in Nat
      /\ \A n \in 1 .. Len(Children[here]) : Children[here][n] \in Folders \cup Files
  BY <1>1, EntriesTyped
<1>3. \A n \in 1 .. Len(Children[here]) : q[n] \in Tasks
  BY <1>2 DEF Tasks
<1>4. q \in Seq(Tasks) /\ Len(q) = Len(Children[here])
  <2>1. q \in [1 .. Len(Children[here]) -> Tasks]
    BY <1>2, <1>3
  <2>. HIDE DEF q
  <2>. QED
    BY <1>2, <2>1
<1>. QED
  BY <1>1, <1>2, <1>4

LEMMA MarkTypes ==
    ASSUME TypeOK, NEW i \in Instances
    PROVE  /\ MayClear(i) => interrupted' \in [Instances -> BOOLEAN]
           /\ EndJob(i) => job' \in [Instances -> Jobs \cup {Idle}]
BY DEF TypeOK, MayClear, EndJob

LEMMA FetchFacts ==
    ASSUME TypeOK, NEW i \in Instances, Fetch(i)
    PROVE  /\ job[i] = Idle /\ 1 \in DOMAIN queue[i] /\ queue[i][1] \in Jobs
           /\ job' = [job EXCEPT ![i] = queue[i][1]]
           /\ \E r \in Seq(Jobs) :
                 /\ queue' = [queue EXCEPT ![i] = r]
                 /\ Len(r) = Len(queue[i]) - 1 /\ Len(queue[i]) \in Nat \ {0}
                 /\ \A n \in 1 .. Len(queue[i]) - 1 : r[n] = queue[i][n + 1]
<1>1. /\ job[i] = Idle /\ 1 \in DOMAIN queue[i]
      /\ job' = [job EXCEPT ![i] = queue[i][1]]
      /\ queue' = [queue EXCEPT ![i] = SubSeq(@, 1, 1 - 1) \o SubSeq(@, 1 + 1, Len(@))]
  BY DEF Fetch, Begin
<1>2. queue[i] \in Seq(Jobs)
  BY DEF TypeOK
<1>3. PICK r : r = SubSeq(queue[i], 1, 1 - 1) \o SubSeq(queue[i], 1 + 1, Len(queue[i]))
  OBVIOUS
<1>4. /\ r \in Seq(Jobs) /\ Len(r) = Len(queue[i]) - 1
      /\ \A n \in 1 .. Len(queue[i]) - 1 : r[n] = queue[i][n + 1]
  BY <1>1, <1>2, <1>3, WithoutFirst
<1>5. Len(queue[i]) \in Nat \ {0} /\ queue[i][1] \in Jobs
  BY <1>1, <1>2
<1>6. queue' = [queue EXCEPT ![i] = r]
  BY <1>1, <1>3
<1>. QED
  BY <1>1, <1>4, <1>5, <1>6

LEMMA WorkTypes == TypeOK /\ (\E i \in Instances : Work(i)) => TypeOK'
<1>. SUFFICES ASSUME TypeOK, NEW i \in Instances, Work(i) PROVE TypeOK'
  OBVIOUS
<1>1. CASE Fetch(i)
  <2>1. PICK r \in Seq(Jobs) : queue' = [queue EXCEPT ![i] = r]
    BY <1>1, FetchFacts
  <2>2. queue[i][1] \in Jobs /\ job' = [job EXCEPT ![i] = queue[i][1]]
    BY <1>1, FetchFacts
  <2>3. queue' \in [Instances -> Seq(Jobs)] /\ job' \in [Instances -> Jobs \cup {Idle}]
    BY <2>1, <2>2 DEF TypeOK
  <2>4. CASE queue[i][1].kind = "export"
    <3>1. queue[i][1].path \in Folders
      BY <2>2 DEF Jobs
    <3>2. [kind |-> "list", path |-> queue[i][1].path] \in Tasks
      BY <3>1 DEF Tasks
    <3>3. /\ todo' = <<[kind |-> "list", path |-> queue[i][1].path]>>
          /\ offset' = 0 /\ failed' = 0 /\ copied' = [f \in Files |-> 0]
          /\ sources' = {} /\ lost' = {} /\ cut' = {}
      BY <1>1, <2>4 DEF Fetch, Begin
    <3>4. todo' \in Seq(Tasks)
      BY <3>2, <3>3
    <3>. QED
      BY <1>1, <2>3, <3>3, <3>4 DEF Fetch, Begin, TypeOK
  <2>5. CASE queue[i][1].kind # "export"
    BY <1>1, <2>3, <2>5 DEF Fetch, Begin, TypeOK
  <2>. QED
    BY <2>4, <2>5
<1>2. CASE Listed(i)
  <2>1. job[i].id \in Nat /\ job[i].path \in Folders
    BY <1>2, JobTyped DEF Listed
  <2>2. posts' \in Seq(Posts)
    BY <1>2, <2>1, Posted DEF Listed
  <2>. QED
    BY <1>2, <2>2, MarkTypes DEF Listed, TypeOK
<1>3. CASE ListFails(i)
  <2>1. job[i].id \in Nat /\ job[i].path \in Folders
    BY <1>3, JobTyped DEF ListFails
  <2>2. posts' \in Seq(Posts)
    BY <1>3, <2>1, Posted DEF ListFails
  <2>. QED
    BY <1>3, <2>2, MarkTypes DEF ListFails, TypeOK
<1>4. CASE ListFolder(i)
  <2>1. todo' \in Seq(Tasks)
    BY <1>4, Listing, Joined
  <2>. QED
    BY <1>4, <2>1 DEF ListFolder, TypeOK
<1>5. CASE ListNull(i) \/ CreateFolderFails(i)
  <2>1. here \in Folders /\ Tail(todo) \in Seq(Tasks)
    BY <1>5, TaskTyped DEF ListNull, CreateFolderFails
  <2>. QED
    BY <1>5, <2>1 DEF ListNull, CreateFolderFails, Skip, TypeOK
<1>6. CASE ListThrows(i)
  <2>1. job[i].path \in Folders
    BY <1>6, JobTyped DEF ListThrows, At
  <2>2. posts' \in Seq(Posts)
    BY <1>6, <2>1, Posted DEF ListThrows
  <2>3. todo' \in Seq(Tasks)
    BY <1>6 DEF ListThrows
  <2>. QED
    BY <1>6, <2>2, <2>3, MarkTypes DEF ListThrows, TypeOK
<1>7. CASE CreateFolder(i)
  <2>1. todo[1] \in Tasks /\ todo[1].kind = "folder" /\ Len(todo) \in Nat \ {0}
    BY <1>7, TaskTyped DEF CreateFolder
  <2>2. [todo[1] EXCEPT !.kind = "list"] \in Tasks
    BY <2>1 DEF Tasks
  <2>3. todo' = [todo EXCEPT ![1] = [todo[1] EXCEPT !.kind = "list"]]
    BY <1>7 DEF CreateFolder
  <2>4. todo' \in Seq(Tasks)
    BY <2>1, <2>2, <2>3 DEF TypeOK
  <2>. QED
    BY <1>7, <2>4 DEF CreateFolder, TypeOK
<1>8. CASE CreateFile(i)
  <2>1. todo[1] \in Tasks /\ todo[1].kind = "file" /\ Len(todo) \in Nat \ {0}
    BY <1>8, TaskTyped DEF CreateFile
  <2>2. [todo[1] EXCEPT !.kind = "open"] \in Tasks
    BY <2>1 DEF Tasks
  <2>3. todo' = [todo EXCEPT ![1] = [todo[1] EXCEPT !.kind = "open"]]
    BY <1>8 DEF CreateFile
  <2>4. todo' \in Seq(Tasks)
    BY <2>1, <2>2, <2>3 DEF TypeOK
  <2>. QED
    BY <1>8, <2>4 DEF CreateFile, TypeOK
<1>9. CASE Copy(i)
  <2>1. job[i].session \in 1 .. LastSession
    BY <1>9, JobTyped DEF Copy, CopyFrom, At
  <2>2. PICK s : s = job[i].session
    OBVIOUS
  <2>3. CopyFrom(i, s)
    BY <1>9, <2>2 DEF Copy
  <2>4. /\ copied' = [copied EXCEPT ![here] = copied[here] + 1]
        /\ offset' = offset + 1 /\ sources' = sources \cup {s}
    BY <2>3 DEF CopyFrom
  <2>5. copied \in [Files -> Nat] /\ offset \in Nat /\ sources \subseteq 1 .. LastSession
    BY DEF TypeOK
  <2>6. copied' \in [Files -> Nat]
    <3>1. here \in Files
      BY <2>3, TaskTyped DEF CopyFrom
    <3>. QED
      BY <2>4, <2>5, <3>1
  <2>7. offset' \in Nat
    BY <2>4, <2>5
  <2>8. sources' \subseteq 1 .. LastSession
    BY <2>1, <2>2, <2>4, <2>5
  <2>. QED
    BY <2>3, <2>6, <2>7, <2>8 DEF CopyFrom, TypeOK
<1>10. CASE CutShort(i) \/ EndFile(i)
  <2>1. here \in Files /\ Tail(todo) \in Seq(Tasks)
    BY <1>10, TaskTyped DEF CutShort, EndFile
  <2>. QED
    BY <1>10, <2>1 DEF CutShort, EndFile, Skip, TypeOK
<1>11. CASE FileFails(i)
  <2>1. here \in Files /\ Tail(todo) \in Seq(Tasks)
    BY <1>11, TaskTyped DEF FileFails
  <2>. QED
    BY <1>11, <2>1, MarkTypes DEF FileFails, Skip, TypeOK
<1>12. CASE EndExport(i)
  <2>1. job[i].path \in Folders
    BY <1>12, JobTyped DEF EndExport
  <2>2. posts' \in Seq(Posts)
    BY <1>12, <2>1, Posted DEF EndExport
  <2>. QED
    BY <1>12, <2>2, MarkTypes DEF EndExport, TypeOK
<1>. QED
  BY <1>1, <1>2, <1>3, <1>4, <1>5, <1>6, <1>7, <1>8, <1>9, <1>10, <1>11, <1>12
     DEF Work, Export

LEMMA InitTypes == Init => TypeOK
<1>. SUFFICES ASSUME Init PROVE TypeOK
  OBVIOUS
<1>1. LoadJob(1, Root) \in Jobs
  BY TreeAssumption, BoundsAssumption DEF Init, LoadJob, Jobs
<1>2. <<LoadJob(1, Root)>> \in Seq(Jobs) /\ <<>> \in Seq(Jobs)
  BY <1>1
<1>3. queue \in [Instances -> Seq(Jobs)]
  BY <1>2 DEF Init
<1>4. /\ job \in [Instances -> Jobs \cup {Idle}] /\ interrupted \in [Instances -> BOOLEAN]
      /\ copied \in [Files -> Nat] /\ posts \in Seq(Posts) /\ todo \in Seq(Tasks)
  BY DEF Init
<1>5. /\ mounted \in 0 .. LastSession /\ last \in 1 .. LastSession
      /\ instance \in Instances /\ asked \in 1 .. MaxRequests /\ currentPath \in Folders
  BY TreeAssumption, BoundsAssumption DEF Init, Instances
<1>. QED
  BY <1>3, <1>4, <1>5 DEF Init, TypeOK

LEMMA StepTypes == TypeOK /\ [Next]_vars => TypeOK'
<1>1. TypeOK /\ UNCHANGED vars => TypeOK'
  BY DEF vars, TypeOK
<1>. QED
  BY <1>1, UserTypes, SystemTypes, WorkTypes DEF Next

(* Everything the activity, its workers and the main thread keep has its type. *)
THEOREM TypeCorrect == Spec => []TypeOK
BY InitTypes, StepTypes, PTL DEF Spec

-----------------------------------------------------------------------------
(* The order of requests *)

Asks(i, n) == n \in 1 .. Len(queue[i]) /\ queue[i][n].kind = "load"
Answers(i, n) == n \in 1 .. Len(posts) /\ posts[n].of = i /\ posts[n].kind = "show"
Loading(i) == job[i].kind = "load"
ShownBy(i) == IF i = instance THEN shown.id ELSE 0

(* An instance that does not exist yet has nothing to do. *)
Unborn(i) == /\ queue[i] = <<>> /\ job[i] = Idle
             /\ \A n \in 1 .. Len(posts) : posts[n].of # i

(* From what instance i shows to what it is asked last, the numbers rise. *)
LoadingRises(i) == Loading(i) => ShownBy(i) < job[i].id /\ job[i].id <= asked
QueueRises(i) ==
    \A n \in 1 .. Len(queue[i]) : Asks(i, n) =>
        /\ ShownBy(i) < queue[i][n].id /\ queue[i][n].id <= asked
        /\ Loading(i) => job[i].id < queue[i][n].id
        /\ \A m \in 1 .. n - 1 : Asks(i, m) => queue[i][m].id < queue[i][n].id
PostsRise(i) ==
    \A n \in 1 .. Len(posts) : Answers(i, n) =>
        /\ ShownBy(i) < posts[n].id /\ posts[n].id <= asked
        /\ Loading(i) => posts[n].id < job[i].id
        /\ \A m \in 1 .. Len(queue[i]) : Asks(i, m) => posts[n].id < queue[i][m].id
        /\ \A m \in 1 .. n - 1 : Answers(i, m) => posts[m].id < posts[n].id

OrderOf(i) ==
    /\ i > instance => Unborn(i)
    /\ ShownBy(i) <= asked
    /\ LoadingRises(i) /\ QueueRises(i) /\ PostsRise(i)

Order == \A i \in Instances : OrderOf(i)

orderVars == <<instance, shown, asked, queue, job, posts>>

LEMMA Numbers ==
    ASSUME TypeOK
    PROVE  /\ instance \in Nat /\ asked \in Nat /\ shown.id \in Nat
           /\ \A i \in Instances :
                 /\ i \in Nat /\ ShownBy(i) \in Nat /\ Len(queue[i]) \in Nat
                 /\ queue[i] \in Seq(Jobs) /\ job[i] \in Jobs \cup {Idle}
                 /\ job[i].id \in Nat
                 /\ \A n \in 1 .. Len(queue[i]) : queue[i][n] \in Jobs /\ queue[i][n].id \in Nat
           /\ Len(posts) \in Nat
           /\ \A n \in 1 .. Len(posts) : posts[n] \in Posts /\ posts[n].id \in Nat
<1>1. instance \in Nat /\ asked \in Nat
  BY BoundsAssumption DEF TypeOK, Instances
<1>2. shown.id \in Nat
  BY DEF TypeOK, Nothing
<1>3. ASSUME NEW i \in Instances
      PROVE  /\ i \in Nat /\ ShownBy(i) \in Nat /\ Len(queue[i]) \in Nat
             /\ queue[i] \in Seq(Jobs) /\ job[i] \in Jobs \cup {Idle}
             /\ job[i].id \in Nat
             /\ \A n \in 1 .. Len(queue[i]) : queue[i][n] \in Jobs /\ queue[i][n].id \in Nat
  <2>1. i \in Nat /\ ShownBy(i) \in Nat
    BY <1>2, BoundsAssumption DEF Instances, ShownBy
  <2>2. queue[i] \in Seq(Jobs) /\ job[i] \in Jobs \cup {Idle}
    BY DEF TypeOK
  <2>3. \A x \in Jobs : x.id \in Nat
    BY DEF Jobs
  <2>4. Idle.id \in Nat
    BY DEF Idle
  <2>. QED
    BY <2>1, <2>2, <2>3, <2>4
<1>4. Len(posts) \in Nat /\ \A n \in 1 .. Len(posts) : posts[n] \in Posts
  BY DEF TypeOK
<1>5. \A x \in Posts : x.id \in Nat
  BY DEF Posts
<1>. QED
  BY <1>1, <1>2, <1>3, <1>4, <1>5

(* A step that does none of this to instance i. *)
LEMMA OrderFrame ==
    ASSUME NEW i, OrderOf(i), UNCHANGED <<instance, shown, asked, posts>>,
           queue'[i] = queue[i], job'[i] = job[i]
    PROVE  OrderOf(i)'
BY DEF OrderOf, Unborn, LoadingRises, QueueRises, PostsRise, Asks, Answers, Loading, ShownBy

(* loadPath, and a job behind the others that asks for no folder. *)
LEMMA OrderAsked ==
    ASSUME TypeOK, TypeOK', Order, NEW x \in Jobs,
           queue' = [queue EXCEPT ![instance] = Append(@, x)],
           UNCHANGED <<instance, shown, job, posts>>,
           \/ asked' = asked + 1 /\ x.id = asked + 1
           \/ asked' = asked /\ x.kind = "export"
    PROVE  Order'
<1>1. instance \in Instances /\ asked \in Nat
  BY Numbers DEF TypeOK
<1>2. ASSUME NEW i \in Instances PROVE OrderOf(i)'
  <2>1. /\ Len(queue[i]) \in Nat /\ ShownBy(i) \in Nat /\ job[i].id \in Nat
        /\ i \in Nat /\ instance \in Nat
        /\ \A n \in 1 .. Len(queue[i]) : queue[i][n].id \in Nat
        /\ Len(posts) \in Nat /\ \A n \in 1 .. Len(posts) : posts[n].id \in Nat
    BY Numbers
  <2>2. /\ i > instance => Unborn(i)
        /\ ShownBy(i) <= asked /\ LoadingRises(i) /\ QueueRises(i) /\ PostsRise(i)
    BY DEF Order, OrderOf
  <2>3. ShownBy(i)' = ShownBy(i) /\ (Loading(i)' <=> Loading(i))
    BY DEF ShownBy, Loading
  <2>4. asked' \in Nat /\ asked <= asked'
    BY <1>1
  <2>5. CASE i = instance
    <3>1. /\ Len(queue'[i]) = Len(queue[i]) + 1
          /\ \A n \in 1 .. Len(queue[i]) : queue'[i][n] = queue[i][n]
          /\ queue'[i][Len(queue[i]) + 1] = x
      BY <1>1, <2>5, AppendFacts DEF TypeOK
    <3>2. x.kind = "load" => x.id = asked' /\ asked < asked'
      BY <1>1
    <3>3. \A n \in 1 .. Len(queue[i]) : Asks(i, n)' <=> Asks(i, n)
      BY <2>1, <3>1 DEF Asks
    <3>4. QueueRises(i)'
      <4>1. ASSUME NEW n \in 1 .. Len(queue'[i]), Asks(i, n)'
            PROVE  /\ ShownBy(i)' < queue'[i][n].id /\ queue'[i][n].id <= asked'
                   /\ Loading(i)' => job'[i].id < queue'[i][n].id
                   /\ \A m \in 1 .. n - 1 : Asks(i, m)' => queue'[i][m].id < queue'[i][n].id
        <5>1. CASE n \in 1 .. Len(queue[i])
          <6>1. Asks(i, n) /\ queue'[i][n] = queue[i][n]
            BY <3>1, <3>3, <4>1, <5>1
          <6>2. \A m \in 1 .. n - 1 : /\ queue'[i][m] = queue[i][m]
                                      /\ Asks(i, m)' <=> Asks(i, m)
            BY <2>1, <3>1, <3>3, <5>1
          <6>3. /\ ShownBy(i) < queue[i][n].id /\ queue[i][n].id <= asked
                /\ Loading(i) => job[i].id < queue[i][n].id
                /\ \A m \in 1 .. n - 1 : Asks(i, m) => queue[i][m].id < queue[i][n].id
            BY <2>2, <5>1, <6>1 DEF QueueRises
          <6>4. queue[i][n].id <= asked'
            BY <1>1, <2>1, <2>4, <5>1, <6>3
          <6>. QED
            BY <2>3, <6>1, <6>2, <6>3, <6>4
        <5>2. CASE n = Len(queue[i]) + 1
          <6>1. queue'[i][n] = x /\ x.kind = "load"
            BY <3>1, <4>1, <5>2 DEF Asks
          <6>2. x.id = asked' /\ asked < asked'
            BY <3>2, <6>1
          <6>3. ShownBy(i)' < x.id /\ (Loading(i)' => job'[i].id < x.id)
            BY <1>1, <2>1, <2>2, <2>3, <2>4, <6>2 DEF LoadingRises
          <6>4. ASSUME NEW m \in 1 .. n - 1, Asks(i, m)' PROVE queue'[i][m].id < x.id
            <7>1. m \in 1 .. Len(queue[i]) /\ Asks(i, m) /\ queue'[i][m] = queue[i][m]
              BY <2>1, <3>1, <3>3, <5>2, <6>4
            <7>2. queue[i][m].id <= asked /\ queue[i][m].id \in Nat
              BY <2>1, <2>2, <7>1 DEF QueueRises
            <7>. QED
              BY <1>1, <2>4, <6>2, <7>1, <7>2
          <6>. QED
            BY <1>1, <2>4, <6>1, <6>2, <6>3, <6>4
        <5>. QED
          BY <2>1, <3>1, <5>1, <5>2
      <4>. QED
        BY <4>1 DEF QueueRises
    <3>5. PostsRise(i)'
      <4>1. ASSUME NEW n \in 1 .. Len(posts), Answers(i, n)
            PROVE  /\ ShownBy(i) < posts[n].id /\ posts[n].id <= asked'
                   /\ \A m \in 1 .. Len(queue'[i]) : Asks(i, m)' => posts[n].id < queue'[i][m].id
        <5>1. posts[n].id <= asked /\ ShownBy(i) < posts[n].id
              /\ \A m \in 1 .. Len(queue[i]) : Asks(i, m) => posts[n].id < queue[i][m].id
          BY <2>2, <4>1 DEF PostsRise
        <5>2. ASSUME NEW m \in 1 .. Len(queue'[i]), Asks(i, m)'
              PROVE  posts[n].id < queue'[i][m].id
          <6>1. CASE m \in 1 .. Len(queue[i])
            BY <3>1, <3>3, <5>1, <5>2, <6>1
          <6>2. CASE m = Len(queue[i]) + 1
            <7>1. queue'[i][m] = x /\ x.kind = "load"
              BY <3>1, <5>2, <6>2 DEF Asks
            <7>2. x.id = asked' /\ asked < asked'
              BY <3>2, <7>1
            <7>3. posts[n].id <= asked /\ posts[n].id \in Nat
              BY <2>1, <5>1
            <7>. QED
              BY <1>1, <2>4, <7>1, <7>2, <7>3
          <6>. QED
            BY <2>1, <3>1, <6>1, <6>2
        <5>. QED
          BY <1>1, <2>1, <2>4, <5>1, <5>2
      <4>2. posts' = posts /\ job' = job /\ \A n : Answers(i, n)' <=> Answers(i, n)
        BY DEF Answers
      <4>. QED
        BY <2>2, <2>3, <4>1, <4>2 DEF PostsRise
    <3>6. LoadingRises(i)' /\ ShownBy(i)' <= asked'
      BY <1>1, <2>1, <2>2, <2>3, <2>4 DEF LoadingRises
    <3>7. ~(i > instance')
      BY <2>1, <2>5
    <3>. QED
      BY <3>4, <3>5, <3>6, <3>7 DEF OrderOf
  <2>6. CASE i # instance
    <3>1. queue'[i] = queue[i] /\ job'[i] = job[i] /\ posts' = posts /\ instance' = instance
      BY <1>1, <2>6 DEF TypeOK
    <3>2. (\A n : Asks(i, n)' <=> Asks(i, n)) /\ (\A n : Answers(i, n)' <=> Answers(i, n))
      BY <3>1 DEF Asks, Answers
    <3>3. LoadingRises(i)' /\ ShownBy(i)' <= asked'
      BY <1>1, <2>1, <2>2, <2>3, <2>4, <3>1 DEF LoadingRises
    <3>4. QueueRises(i)'
      <4>1. \A n \in 1 .. Len(queue[i]) : queue[i][n].id <= asked => queue[i][n].id <= asked'
        BY <1>1, <2>1, <2>4
      <4>. QED
        BY <2>2, <2>3, <3>1, <3>2, <4>1 DEF QueueRises
    <3>5. PostsRise(i)'
      <4>1. \A n \in 1 .. Len(posts) : posts[n].id <= asked => posts[n].id <= asked'
        BY <1>1, <2>1, <2>4
      <4>. QED
        BY <2>2, <2>3, <3>1, <3>2, <4>1 DEF PostsRise
    <3>. QED
      BY <2>2, <3>1, <3>3, <3>4, <3>5 DEF OrderOf, Unborn
  <2>. QED
    BY <2>5, <2>6
<1>. QED
  BY <1>2 DEF Order

(* The worker of k takes its oldest job. *)
LEMMA OrderFetched ==
    ASSUME TypeOK, TypeOK', Order, NEW k \in Instances, Fetch(k) PROVE Order'
<1>1. UNCHANGED <<instance, shown, asked, posts>>
  BY DEF Fetch, Begin
<1>2. /\ job[k] = Idle /\ 1 \in DOMAIN queue[k] /\ queue[k][1] \in Jobs
      /\ job' = [job EXCEPT ![k] = queue[k][1]]
  BY FetchFacts
<1>3. PICK r \in Seq(Jobs) :
        /\ queue' = [queue EXCEPT ![k] = r]
        /\ Len(r) = Len(queue[k]) - 1 /\ Len(queue[k]) \in Nat \ {0}
        /\ \A n \in 1 .. Len(queue[k]) - 1 : r[n] = queue[k][n + 1]
  BY FetchFacts
<1>4. ASSUME NEW i \in Instances PROVE OrderOf(i)'
  <2>1. OrderOf(i)
    BY DEF Order
  <2>2. CASE i # k
    <3>1. queue'[i] = queue[i] /\ job'[i] = job[i]
      BY <1>2, <1>3, <2>2 DEF TypeOK
    <3>. QED
      BY <1>1, <2>1, <3>1, OrderFrame
  <2>3. CASE i = k
    <3>1. /\ job'[i] = queue[i][1] /\ Len(queue'[i]) = Len(queue[i]) - 1
          /\ Len(queue[i]) \in Nat \ {0} /\ 1 \in 1 .. Len(queue[i])
          /\ \A n \in 1 .. Len(queue'[i]) :
                /\ queue'[i][n] = queue[i][n + 1]
                /\ n + 1 \in 1 .. Len(queue[i]) /\ 1 \in 1 .. (n + 1) - 1
      <4>1. queue'[i] = r /\ job'[i] = queue[i][1]
        BY <1>2, <1>3, <2>3 DEF TypeOK
      <4>. QED
        BY <1>3, <2>3, <4>1
    <3>2. ~(i > instance)
      BY <2>1, <3>1 DEF OrderOf, Unborn
    <3>3. ShownBy(i)' = ShownBy(i) /\ asked' = asked /\ posts' = posts
      BY <1>1 DEF ShownBy
    <3>4. \A n \in 1 .. Len(queue'[i]) : Asks(i, n)' <=> Asks(i, n + 1)
      BY <3>1 DEF Asks
    <3>5. Loading(i)' <=> Asks(i, 1)
      BY <3>1 DEF Loading, Asks
    <3>6. QueueRises(i) /\ PostsRise(i)
      BY <2>1 DEF OrderOf
    <3>7. LoadingRises(i)'
      BY <3>1, <3>3, <3>5, <3>6 DEF LoadingRises, QueueRises
    <3>8. QueueRises(i)'
      <4>1. ASSUME NEW n \in 1 .. Len(queue'[i]), Asks(i, n)'
            PROVE  /\ ShownBy(i)' < queue'[i][n].id /\ queue'[i][n].id <= asked'
                   /\ Loading(i)' => job'[i].id < queue'[i][n].id
                   /\ \A m \in 1 .. n - 1 : Asks(i, m)' => queue'[i][m].id < queue'[i][n].id
        <5>1. /\ n + 1 \in 1 .. Len(queue[i]) /\ Asks(i, n + 1)
              /\ queue'[i][n] = queue[i][n + 1] /\ 1 \in 1 .. (n + 1) - 1
          BY <3>1, <3>4, <4>1
        <5>2. /\ ShownBy(i) < queue[i][n + 1].id /\ queue[i][n + 1].id <= asked
              /\ \A m \in 1 .. (n + 1) - 1 : Asks(i, m) => queue[i][m].id < queue[i][n + 1].id
          BY <3>6, <5>1 DEF QueueRises
        <5>3. Loading(i)' => job'[i].id < queue'[i][n].id
          BY <3>1, <3>5, <5>1, <5>2
        <5>4. ASSUME NEW m \in 1 .. n - 1, Asks(i, m)' PROVE queue'[i][m].id < queue'[i][n].id
          <6>0. Len(queue'[i]) \in Nat
            BY <3>1
          <6>1. m \in 1 .. Len(queue'[i]) /\ m + 1 \in 1 .. (n + 1) - 1
            BY <6>0
          <6>2. Asks(i, m + 1) /\ queue'[i][m] = queue[i][m + 1]
            BY <3>1, <3>4, <5>4, <6>1
          <6>. QED
            BY <5>1, <5>2, <6>1, <6>2
        <5>. QED
          BY <3>3, <5>1, <5>2, <5>3, <5>4
      <4>. QED
        BY <4>1 DEF QueueRises
    <3>9. PostsRise(i)'
      <4>1. ASSUME NEW n \in 1 .. Len(posts), Answers(i, n)
            PROVE  /\ Loading(i)' => posts[n].id < job'[i].id
                   /\ \A m \in 1 .. Len(queue'[i]) : Asks(i, m)' => posts[n].id < queue'[i][m].id
        <5>1. \A m \in 1 .. Len(queue[i]) : Asks(i, m) => posts[n].id < queue[i][m].id
          BY <3>6, <4>1 DEF PostsRise
        <5>. QED
          BY <3>1, <3>4, <3>5, <5>1
      <4>2. \A n : Answers(i, n)' <=> Answers(i, n)
        BY <3>3 DEF Answers
      <4>. QED
        BY <3>3, <3>6, <4>1, <4>2 DEF PostsRise
    <3>10. ShownBy(i)' <= asked' /\ ~(i > instance')
      BY <1>1, <2>1, <3>2, <3>3 DEF OrderOf
    <3>. QED
      BY <3>7, <3>8, <3>9, <3>10 DEF OrderOf
  <2>. QED
    BY <2>2, <2>3
<1>. QED
  BY <1>4 DEF Order

(* The worker of k ends its job, and answers with its number or not at all. *)
LEMMA OrderEnded ==
    ASSUME TypeOK, TypeOK', Order, NEW k \in Instances, job[k] # Idle,
           UNCHANGED <<instance, shown, asked, queue>>, EndJob(k),
           \/ posts' = posts
           \/ \E p \in Posts : /\ posts' = Append(posts, p) /\ p.of = k
                               /\ p.kind = "show" => Loading(k) /\ p.id = job[k].id
    PROVE  Order'
<1>1. job' = [job EXCEPT ![k] = Idle]
  BY DEF EndJob
<1>2. ASSUME NEW i \in Instances PROVE OrderOf(i)'
  <2>1. OrderOf(i)
    BY DEF Order
  <2>2. /\ ShownBy(i)' = ShownBy(i) /\ asked' = asked /\ queue' = queue /\ instance' = instance
        /\ Loading(i)' => Loading(i) /\ i # k /\ job'[i] = job[i]
    BY <1>1 DEF ShownBy, Loading, TypeOK, Idle
  <2>3. \A n : Asks(i, n)' <=> Asks(i, n)
    BY DEF Asks
  <2>4. LoadingRises(i)' /\ QueueRises(i)' /\ ShownBy(i)' <= asked'
    BY <2>1, <2>2, <2>3 DEF OrderOf, LoadingRises, QueueRises
  <2>5. i = k => ~(i > instance)
    BY <2>1 DEF OrderOf, Unborn
  <2>6. CASE posts' = posts
    <3>1. \A n : Answers(i, n)' <=> Answers(i, n)
      BY <2>6 DEF Answers
    <3>2. PostsRise(i)'
      BY <2>1, <2>2, <2>3, <2>6, <3>1 DEF OrderOf, PostsRise
    <3>3. i > instance => Unborn(i)'
      BY <1>1, <2>1, <2>2, <2>5, <2>6 DEF OrderOf, Unborn, TypeOK
    <3>. QED
      BY <2>2, <2>4, <3>2, <3>3 DEF OrderOf
  <2>7. ASSUME NEW p \in Posts, posts' = Append(posts, p), p.of = k,
               p.kind = "show" => Loading(k) /\ p.id = job[k].id
        PROVE  OrderOf(i)'
    <3>1. /\ Len(posts') = Len(posts) + 1 /\ posts'[Len(posts) + 1] = p
          /\ \A n \in 1 .. Len(posts) : posts'[n] = posts[n]
      BY <2>7, AppendFacts DEF TypeOK
    <3>2. Len(posts) \in Nat /\ i \in Nat /\ \A n \in 1 .. Len(posts) : posts[n].id \in Nat
      BY Numbers
    <3>3. \A n \in 1 .. Len(posts) : Answers(i, n)' <=> Answers(i, n)
      BY <3>1, <3>2 DEF Answers
    <3>4. i > instance => Unborn(i)'
      <4>1. ASSUME i > instance PROVE Unborn(i)'
        <5>1. i # k /\ Unborn(i)
          BY <2>1, <2>5, <4>1 DEF OrderOf
        <5>2. job'[i] = job[i]
          BY <1>1, <5>1 DEF TypeOK
        <5>3. ASSUME NEW n \in 1 .. Len(posts') PROVE posts'[n].of # i
          BY <2>7, <3>1, <3>2, <5>1, <5>3 DEF Unborn
        <5>. QED
          BY <2>2, <5>1, <5>2, <5>3 DEF Unborn
      <4>. QED
        BY <4>1
    <3>5. PostsRise(i)'
      <4>1. ASSUME NEW n \in 1 .. Len(posts'), Answers(i, n)'
            PROVE  /\ ShownBy(i)' < posts'[n].id /\ posts'[n].id <= asked'
                   /\ Loading(i)' => posts'[n].id < job'[i].id
                   /\ \A m \in 1 .. Len(queue'[i]) : Asks(i, m)' => posts'[n].id < queue'[i][m].id
                   /\ \A m \in 1 .. n - 1 : Answers(i, m)' => posts'[m].id < posts'[n].id
        <5>1. CASE n \in 1 .. Len(posts)
          <6>1. Answers(i, n) /\ posts'[n] = posts[n]
            BY <3>1, <3>3, <4>1, <5>1
          <6>2. \A m \in 1 .. n - 1 : posts'[m] = posts[m] /\ (Answers(i, m)' <=> Answers(i, m))
            BY <3>1, <3>2, <3>3, <5>1
          <6>. QED
            BY <2>1, <2>2, <2>3, <5>1, <6>1, <6>2 DEF OrderOf, PostsRise
        <5>2. CASE n = Len(posts) + 1
          <6>1. i = k /\ posts'[n] = p /\ Loading(i) /\ p.id = job[i].id
            BY <2>7, <3>1, <4>1, <5>2 DEF Answers
          <6>2. ~Loading(i)'
            BY <2>2, <6>1
          <6>3. ShownBy(i) < p.id /\ p.id <= asked
            BY <2>1, <6>1 DEF OrderOf, LoadingRises
          <6>4. \A m \in 1 .. Len(queue[i]) : Asks(i, m) => p.id < queue[i][m].id
            BY <2>1, <6>1 DEF OrderOf, QueueRises
          <6>5. ASSUME NEW m \in 1 .. n - 1, Answers(i, m)' PROVE posts'[m].id < p.id
            <7>1. m \in 1 .. Len(posts) /\ Answers(i, m) /\ posts'[m] = posts[m]
              BY <3>1, <3>2, <3>3, <5>2, <6>5
            <7>. QED
              BY <2>1, <6>1, <7>1 DEF OrderOf, PostsRise
          <6>. QED
            BY <2>2, <2>3, <6>1, <6>2, <6>3, <6>4, <6>5
        <5>. QED
          BY <3>1, <3>2, <5>1, <5>2
      <4>. QED
        BY <4>1 DEF PostsRise
    <3>. QED
      BY <2>2, <2>4, <3>4, <3>5 DEF OrderOf
  <2>. QED
    BY <2>6, <2>7
<1>. QED
  BY <1>2 DEF Order

(* onDestroy drops the queue of an instance. *)
LEMMA OrderDropped ==
    ASSUME TypeOK, Order, NEW k \in Instances, queue' = [queue EXCEPT ![k] = <<>>],
           UNCHANGED <<instance, shown, asked, job, posts>>
    PROVE  Order'
<1>1. ASSUME NEW i \in Instances PROVE OrderOf(i)'
  <2>1. OrderOf(i)
    BY DEF Order
  <2>2. CASE i # k
    <3>1. queue'[i] = queue[i]
      BY <2>2 DEF TypeOK
    <3>. QED
      BY <2>1, <3>1, OrderFrame
  <2>3. CASE i = k
    <3>1. queue'[i] = <<>> /\ Len(queue'[i]) = 0
      BY <2>3 DEF TypeOK
    <3>2. \A n : Answers(i, n)' <=> Answers(i, n)
      BY DEF Answers
    <3>3. ShownBy(i)' = ShownBy(i) /\ (Loading(i)' <=> Loading(i))
      BY DEF ShownBy, Loading
    <3>4. LoadingRises(i)' /\ ShownBy(i)' <= asked'
      BY <2>1, <3>3 DEF OrderOf, LoadingRises
    <3>5. QueueRises(i)' /\ PostsRise(i)'
      BY <2>1, <3>1, <3>2, <3>3 DEF OrderOf, QueueRises, PostsRise
    <3>6. i > instance => Unborn(i)'
      BY <2>1, <3>1 DEF OrderOf, Unborn
    <3>. QED
      BY <3>4, <3>5, <3>6 DEF OrderOf
  <2>. QED
    BY <2>2, <2>3
<1>. QED
  BY <1>1 DEF Order

(* A new instance takes over and shows nothing yet; it may ask for a folder. *)
LEMMA OrderRecreated ==
    ASSUME TypeOK, TypeOK', Order, Recreate PROVE Order'
<1>1. /\ instance \in Instances /\ instance + 1 \in Instances /\ instance \in Nat
      /\ instance' = instance + 1 /\ shown'.id = 0 /\ UNCHANGED <<job, posts>>
  BY BoundsAssumption DEF Recreate, TypeOK, Instances, Nothing
<1>2. /\ asked' \in Nat /\ asked <= asked' /\ asked \in Nat
      /\ queue'[instance] = <<>>
      /\ \A i \in Instances \ {instance, instance + 1} : queue'[i] = queue[i]
      /\ \/ queue'[instance + 1] = queue[instance + 1]
         \/ \E x \in Jobs : queue'[instance + 1] = <<x>> /\ x.id = asked + 1 /\ asked' = asked + 1
  <2>1. asked \in Nat /\ instance # instance + 1
    BY <1>1, Numbers
  <2>2. CASE mounted = 0
    <3>1. asked' = asked /\ queue' = [queue EXCEPT ![instance] = <<>>]
      BY <2>2 DEF Recreate, ShutdownNow
    <3>. QED
      BY <1>1, <2>1, <3>1 DEF TypeOK
  <2>3. CASE mounted # 0
    <3>0. asked + 1 \in Nat /\ asked <= asked + 1 /\ currentPath \in Folders
      BY <2>1 DEF TypeOK
    <3>1. PICK x \in Jobs : x = LoadJob(asked + 1, currentPath)
      BY <2>3, <3>0, NewJob
    <3>2. /\ asked' = asked + 1
          /\ queue' = [[queue EXCEPT ![instance + 1] = <<x>>] EXCEPT ![instance] = <<>>]
      BY <2>3, <3>1 DEF Recreate, ShutdownNow
    <3>3. x.id = asked + 1
      BY <3>1 DEF LoadJob
    <3>4. queue'[instance] = <<>> /\ queue'[instance + 1] = <<x>>
      BY <1>1, <2>1, <3>2 DEF TypeOK
    <3>5. \A i \in Instances \ {instance, instance + 1} : queue'[i] = queue[i]
      BY <1>1, <3>2 DEF TypeOK
    <3>. QED
      BY <2>1, <3>0, <3>2, <3>3, <3>4, <3>5
  <2>. QED
    BY <2>2, <2>3
<1>3. ASSUME NEW i \in Instances PROVE OrderOf(i)'
  <2>1. OrderOf(i)
    BY DEF Order
  <2>2. /\ i \in Nat /\ ShownBy(i) \in Nat /\ ShownBy(i)' = 0 /\ job[i].id \in Nat
        /\ Len(queue[i]) \in Nat /\ Len(posts) \in Nat
        /\ \A n \in 1 .. Len(queue[i]) : queue[i][n].id \in Nat
        /\ \A n \in 1 .. Len(posts) : posts[n].id \in Nat
    BY <1>1, Numbers DEF ShownBy
  <2>3. (Loading(i)' <=> Loading(i)) /\ \A n : Answers(i, n)' <=> Answers(i, n)
    BY <1>1 DEF Loading, Answers
  <2>4. LoadingRises(i)' /\ ShownBy(i)' <= asked'
    BY <1>1, <1>2, <2>1, <2>2, <2>3 DEF OrderOf, LoadingRises
  <2>5. CASE queue'[i] = queue[i] \/ queue'[i] = <<>>
    <3>1. /\ Len(queue'[i]) \in Nat /\ Len(queue'[i]) <= Len(queue[i])
          /\ \A n \in 1 .. Len(queue'[i]) : /\ queue'[i][n] = queue[i][n]
                                            /\ n \in 1 .. Len(queue[i])
                                            /\ Asks(i, n)' <=> Asks(i, n)
      BY <2>2, <2>5 DEF Asks
    <3>2. QueueRises(i)'
      <4>1. ASSUME NEW n \in 1 .. Len(queue'[i]), Asks(i, n)'
            PROVE  /\ ShownBy(i)' < queue'[i][n].id /\ queue'[i][n].id <= asked'
                   /\ Loading(i)' => job'[i].id < queue'[i][n].id
                   /\ \A m \in 1 .. n - 1 : Asks(i, m)' => queue'[i][m].id < queue'[i][n].id
        <5>1. /\ ShownBy(i) < queue[i][n].id /\ queue[i][n].id <= asked
              /\ Loading(i) => job[i].id < queue[i][n].id
              /\ \A m \in 1 .. n - 1 : Asks(i, m) => queue[i][m].id < queue[i][n].id
          BY <2>1, <3>1, <4>1 DEF OrderOf, QueueRises
        <5>2. \A m \in 1 .. n - 1 : m \in 1 .. Len(queue'[i])
          BY <3>1
        <5>3. ShownBy(i)' < queue'[i][n].id /\ queue'[i][n].id <= asked'
          <6>1. queue'[i][n] = queue[i][n] /\ queue[i][n].id \in Nat
            BY <2>2, <3>1
          <6>. QED
            BY <1>2, <2>2, <5>1, <6>1
        <5>. QED
          BY <1>1, <2>3, <3>1, <5>1, <5>2, <5>3
      <4>. QED
        BY <4>1 DEF QueueRises
    <3>3. PostsRise(i)'
      <4>1. ASSUME NEW n \in 1 .. Len(posts'), Answers(i, n)'
            PROVE  /\ ShownBy(i)' < posts'[n].id /\ posts'[n].id <= asked'
                   /\ Loading(i)' => posts'[n].id < job'[i].id
                   /\ \A m \in 1 .. Len(queue'[i]) : Asks(i, m)' => posts'[n].id < queue'[i][m].id
                   /\ \A m \in 1 .. n - 1 : Answers(i, m)' => posts'[m].id < posts'[n].id
        <5>1. posts' = posts /\ n \in 1 .. Len(posts) /\ Answers(i, n)
          BY <1>1, <2>3, <4>1
        <5>2. /\ ShownBy(i) < posts[n].id /\ posts[n].id <= asked
              /\ Loading(i) => posts[n].id < job[i].id
              /\ \A m \in 1 .. Len(queue[i]) : Asks(i, m) => posts[n].id < queue[i][m].id
              /\ \A m \in 1 .. n - 1 : Answers(i, m) => posts[m].id < posts[n].id
          BY <2>1, <5>1 DEF OrderOf, PostsRise
        <5>3. ShownBy(i)' < posts[n].id /\ posts[n].id <= asked'
          BY <1>2, <2>2, <5>1, <5>2
        <5>. QED
          BY <1>1, <2>3, <3>1, <5>1, <5>2, <5>3
      <4>. QED
        BY <4>1 DEF PostsRise
    <3>4. i > instance' => Unborn(i)'
      <4>1. ASSUME i > instance' PROVE Unborn(i)
        BY <1>1, <2>1, <2>2, <4>1 DEF OrderOf
      <4>. QED
        BY <1>1, <2>5, <4>1 DEF Unborn
    <3>. QED
      BY <2>4, <3>2, <3>3, <3>4 DEF OrderOf
  <2>6. CASE i = instance + 1
             /\ \E x \in Jobs : queue'[i] = <<x>> /\ x.id = asked + 1 /\ asked' = asked + 1
    <3>1. PICK x \in Jobs : queue'[i] = <<x>> /\ x.id = asked + 1 /\ asked' = asked + 1
      BY <2>6
    <3>2. Len(queue'[i]) = 1 /\ queue'[i][1] = x
      BY <3>1
    <3>3. Unborn(i)
      BY <1>1, <2>1, <2>6 DEF OrderOf
    <3>4. ~Loading(i)' /\ \A n \in 1 .. Len(posts') : ~Answers(i, n)'
      BY <1>1, <2>3, <3>3 DEF Unborn, Loading, Answers, Idle
    <3>5. QueueRises(i)'
      BY <1>2, <2>2, <3>1, <3>2, <3>4 DEF QueueRises
    <3>6. PostsRise(i)'
      BY <3>4 DEF PostsRise
    <3>7. ~(i > instance')
      BY <1>1, <2>2, <2>6
    <3>. QED
      BY <2>4, <3>5, <3>6, <3>7 DEF OrderOf
  <2>. QED
    BY <1>2, <2>5, <2>6
<1>. QED
  BY <1>3 DEF Order

(* The main thread runs the oldest posted answer. *)
LEMMA OrderShown ==
    ASSUME TypeOK, TypeOK', Order, RunPosted
    PROVE  Order' /\ shown'.id >= shown.id
<1>1. /\ posts # <<>> /\ posts' = Tail(posts) /\ UNCHANGED <<instance, asked, queue, job>>
  BY DEF RunPosted
<1>2. PICK p \in Posts : p = Head(posts)
  BY <1>1, TailFacts DEF TypeOK
<1>3. /\ Len(posts) \in Nat \ {0} /\ p = posts[1] /\ Len(posts') = Len(posts) - 1
      /\ \A n \in 1 .. Len(posts) - 1 : posts'[n] = posts[n + 1]
  BY <1>1, <1>2, TailFacts DEF TypeOK
<1>4. IF p.of = instance /\ p.kind = "show" THEN shown'.id = p.id ELSE shown' = shown
  BY <1>2 DEF RunPosted
<1>5. ASSUME NEW i \in Instances PROVE OrderOf(i)' /\ ShownBy(i)' >= ShownBy(i)
  <2>1. OrderOf(i)
    BY DEF Order
  <2>2. i \in Nat /\ ShownBy(i) \in Nat /\ p.id \in Nat
    BY <1>3, Numbers
  <2>3. ShownBy(i)' = IF Answers(i, 1) /\ i = instance THEN p.id ELSE ShownBy(i)
    BY <1>1, <1>3, <1>4 DEF Answers, ShownBy
  <2>4. (Loading(i)' <=> Loading(i)) /\ \A n : Asks(i, n)' <=> Asks(i, n)
    BY <1>1 DEF Loading, Asks
  <2>5. Answers(i, 1) =>
          /\ ShownBy(i) < p.id /\ p.id <= asked
          /\ Loading(i) => p.id < job[i].id
          /\ \A m \in 1 .. Len(queue[i]) : Asks(i, m) => p.id < queue[i][m].id
    BY <1>3, <2>1 DEF OrderOf, PostsRise
  <2>6. ShownBy(i)' >= ShownBy(i) /\ ShownBy(i)' <= asked'
    BY <1>1, <2>1, <2>2, <2>3, <2>5 DEF OrderOf
  <2>7. LoadingRises(i)'
    BY <1>1, <2>1, <2>3, <2>4, <2>5 DEF OrderOf, LoadingRises
  <2>8. QueueRises(i)'
    BY <1>1, <2>1, <2>3, <2>4, <2>5 DEF OrderOf, QueueRises
  <2>9. PostsRise(i)'
    <3>1. ASSUME NEW n \in 1 .. Len(posts'), Answers(i, n)'
          PROVE  /\ ShownBy(i)' < posts'[n].id /\ posts'[n].id <= asked'
                 /\ Loading(i)' => posts'[n].id < job'[i].id
                 /\ \A m \in 1 .. Len(queue'[i]) : Asks(i, m)' => posts'[n].id < queue'[i][m].id
                 /\ \A m \in 1 .. n - 1 : Answers(i, m)' => posts'[m].id < posts'[n].id
      <4>1. /\ n + 1 \in 1 .. Len(posts) /\ posts'[n] = posts[n + 1] /\ 1 \in 1 .. (n + 1) - 1
        BY <1>3
      <4>2. Answers(i, n + 1)
        BY <3>1, <4>1 DEF Answers
      <4>3. /\ ShownBy(i) < posts[n + 1].id /\ posts[n + 1].id <= asked
            /\ Loading(i) => posts[n + 1].id < job[i].id
            /\ \A m \in 1 .. Len(queue[i]) : Asks(i, m) => posts[n + 1].id < queue[i][m].id
            /\ \A m \in 1 .. (n + 1) - 1 : Answers(i, m) => posts[m].id < posts[n + 1].id
        BY <2>1, <4>1, <4>2 DEF OrderOf, PostsRise
      <4>4. ShownBy(i)' < posts'[n].id
        BY <1>3, <2>3, <4>1, <4>3
      <4>5. ASSUME NEW m \in 1 .. n - 1, Answers(i, m)' PROVE posts'[m].id < posts'[n].id
        <5>1. m + 1 \in 1 .. (n + 1) - 1 /\ m + 1 \in 1 .. Len(posts) /\ posts'[m] = posts[m + 1]
          BY <1>3
        <5>2. Answers(i, m + 1)
          BY <4>5, <5>1 DEF Answers
        <5>. QED
          BY <4>1, <4>3, <5>1, <5>2
      <4>. QED
        BY <1>1, <2>4, <4>1, <4>3, <4>4, <4>5
    <3>. QED
      BY <3>1 DEF PostsRise
  <2>10. i > instance' => Unborn(i)'
    BY <1>1, <1>3, <2>1 DEF OrderOf, Unborn
  <2>. QED
    BY <2>6, <2>7, <2>8, <2>9, <2>10 DEF OrderOf
<1>6. shown'.id >= shown.id
  BY <1>1, <1>5 DEF ShownBy, TypeOK
<1>. QED
  BY <1>5, <1>6 DEF Order

LEMMA OrderUser == TypeOK /\ TypeOK' /\ Order /\ User => Order' /\ UNCHANGED shown
<1>. SUFFICES ASSUME TypeOK, TypeOK', Order, User PROVE Order' /\ UNCHANGED shown
  OBVIOUS
<1>1. ASSUME UNCHANGED orderVars PROVE Order'
  BY <1>1, OrderFrame DEF orderVars, Order
<1>2. ASSUME NEW path \in Folders, Load(path), UNCHANGED <<instance, shown, job, posts>>
      PROVE  Order'
  <2>1. CASE mounted = 0
    <3>1. UNCHANGED orderVars
      BY <1>2, <2>1 DEF Load, orderVars
    <3>. QED
      BY <1>1, <3>1
  <2>2. CASE mounted # 0
    <3>1. asked \in Nat /\ asked + 1 \in Nat
      BY Numbers
    <3>2. PICK x \in Jobs : x = LoadJob(asked + 1, path)
      BY <2>2, <3>1, <1>2, NewJob
    <3>3. queue' = [queue EXCEPT ![instance] = Append(@, x)] /\ asked' = asked + 1
      BY <1>2, <2>2, <3>2 DEF Load
    <3>4. x.id = asked + 1
      BY <3>2 DEF LoadJob
    <3>. QED
      BY <1>2, <3>3, <3>4, OrderAsked
  <2>. QED
    BY <2>1, <2>2
<1>3. CASE Enter
  <2>1. PICK n \in DOMAIN Children[shown.path] :
          Children[shown.path][n] \in Folders /\ Load(Children[shown.path][n])
    BY <1>3 DEF Enter
  <2>2. UNCHANGED <<instance, shown, job, posts>>
    BY <1>3 DEF Enter
  <2>. QED
    BY <1>2, <2>1, <2>2
<1>4. CASE GoUp
  <2>1. UNCHANGED <<instance, shown, job, posts>>
    BY <1>4 DEF GoUp
  <2>2. CASE currentPath = Root
    <3>1. UNCHANGED orderVars
      BY <1>4, <2>1, <2>2 DEF GoUp, orderVars
    <3>. QED
      BY <1>1, <2>1, <3>1
  <2>3. CASE currentPath # Root
    <3>1. Parent(currentPath) \in Folders /\ Load(Parent(currentPath))
      BY <1>4, <2>3, ParentFolder DEF GoUp, TypeOK
    <3>. QED
      BY <1>2, <2>1, <3>1
  <2>. QED
    BY <2>2, <2>3
<1>5. CASE ChooseFolder \/ PickNothing
  <2>1. UNCHANGED orderVars
    BY <1>5 DEF ChooseFolder, PickNothing, orderVars
  <2>. QED
    BY <1>1, <2>1 DEF orderVars
<1>6. CASE PickDestination
  <2>1. UNCHANGED <<instance, shown, job, posts, asked>>
    BY <1>6 DEF PickDestination
  <2>2. CASE pending = None \/ mounted = 0
    <3>1. UNCHANGED orderVars
      BY <1>6, <2>1, <2>2 DEF PickDestination, orderVars
    <3>. QED
      BY <1>1, <2>1, <3>1
  <2>3. CASE pending # None /\ mounted # 0
    <3>1. PICK x \in Jobs : x = ExportJob(pending)
      BY <2>3, NewJob DEF TypeOK
    <3>2. queue' = [queue EXCEPT ![instance] = Append(@, x)] /\ x.kind = "export"
      BY <1>6, <2>3, <3>1 DEF PickDestination, ExportJob
    <3>. QED
      BY <2>1, <3>2, OrderAsked
  <2>. QED
    BY <2>2, <2>3
<1>. QED
  BY <1>3, <1>4, <1>5, <1>6 DEF User

(* What a job leaves behind when it ends: nothing, or one runnable. *)
LEMMA EndPosts ==
    ASSUME TypeOK, NEW i \in Instances,
           ListFails(i) \/ Listed(i) \/ ListThrows(i) \/ EndExport(i)
    PROVE  /\ job[i] # Idle /\ EndJob(i) /\ UNCHANGED <<mainVars, queue>>
           /\ \E p \in Posts :
                 /\ posts' = Append(posts, p) /\ p.of = i
                 /\ p.kind = "show" => job[i].kind = "load" /\ p.id = job[i].id
                 /\ p.kind = "done" => EndExport(i)
<1>1. job[i] # Idle /\ job[i].kind # "none" /\ EndJob(i) /\ UNCHANGED <<mainVars, queue>>
  BY DEF Listed, ListFails, ListThrows, EndExport, At, Idle
<1>2. job[i].path \in Folders /\ job[i].id \in Nat
  BY <1>1, JobTyped
<1>3. PICK kind \in {"show", "error", "done"}, id \in Nat :
        /\ Post(i, kind, id, job[i].path)
        /\ kind = "show" => job[i].kind = "load" /\ id = job[i].id
        /\ kind = "done" => EndExport(i)
  BY <1>2 DEF Listed, ListFails, ListThrows, EndExport
<1>4. PICK p \in Posts : p = [of |-> i, kind |-> kind, id |-> id, path |-> job[i].path]
  BY <1>2 DEF Posts
<1>5. posts' = Append(posts, p) /\ p.of = i /\ p.kind = kind /\ p.id = id
  BY <1>3, <1>4 DEF Post
<1>. QED
  BY <1>1, <1>3, <1>5

(* The steps of an export that only work on it. *)
Busy(i) ==
    \/ ListFolder(i) \/ ListNull(i) \/ CreateFolder(i) \/ CreateFolderFails(i)
    \/ CreateFile(i) \/ Copy(i) \/ CutShort(i) \/ EndFile(i) \/ FileFails(i)

LEMMA BusyFrame ==
    ASSUME NEW i \in Instances, Busy(i)
    PROVE  UNCHANGED <<mainVars, queue, job, posts>> /\ job[i].kind = "export"
BY DEF Busy, ListFolder, ListNull, CreateFolder, CreateFolderFails, CreateFile, Copy,
       CopyFrom, CutShort, EndFile, FileFails, Skip, At

LEMMA WorkCases ==
    ASSUME NEW i \in Instances, Work(i)
    PROVE  \/ Fetch(i) \/ Busy(i)
           \/ ListFails(i) \/ Listed(i) \/ ListThrows(i) \/ EndExport(i)
BY DEF Work, Export, Busy

LEMMA NextOrder ==
    TypeOK /\ TypeOK' /\ Order /\ [Next]_vars =>
        Order' /\ (instance' = instance => shown'.id >= shown.id)
<1>. SUFFICES ASSUME TypeOK, TypeOK', Order, [Next]_vars
              PROVE  Order' /\ (instance' = instance => shown'.id >= shown.id)
  OBVIOUS
<1>1. shown.id \in Nat /\ instance \in Nat
  BY Numbers
<1>2. ASSUME UNCHANGED orderVars PROVE Order'
  BY <1>2, OrderFrame DEF orderVars, Order
<1>3. CASE User
  BY <1>1, <1>3, OrderUser
<1>4. CASE Recreate
  <2>1. instance' # instance
    BY <1>1, <1>4 DEF Recreate
  <2>. QED
    BY <1>4, <2>1, OrderRecreated
<1>5. CASE Destroy
  <2>1. /\ queue' = [queue EXCEPT ![instance] = <<>>] /\ instance \in Instances
        /\ UNCHANGED <<instance, shown, asked, job, posts>>
    BY <1>5 DEF Destroy, ShutdownNow, TypeOK
  <2>2. Order'
    BY <2>1, OrderDropped
  <2>. QED
    BY <1>1, <2>1, <2>2
<1>6. CASE Replace \/ Unmount \/ UNCHANGED vars
  <2>1. UNCHANGED orderVars
    BY <1>6 DEF Replace, Unmount, vars, orderVars
  <2>. QED
    BY <1>1, <1>2, <2>1 DEF orderVars
<1>7. CASE RunPosted
  BY <1>7, OrderShown
<1>8. ASSUME NEW i \in Instances, Work(i)
      PROVE  Order' /\ (instance' = instance => shown'.id >= shown.id)
  <2>1. CASE Fetch(i)
    <3>1. UNCHANGED shown
      BY <2>1 DEF Fetch, Begin
    <3>. QED
      BY <1>1, <2>1, <3>1, OrderFetched
  <2>2. CASE Busy(i)
    <3>1. UNCHANGED orderVars
      BY <2>2, BusyFrame DEF orderVars
    <3>. QED
      BY <1>1, <1>2, <3>1 DEF orderVars
  <2>3. CASE ListFails(i) \/ Listed(i) \/ ListThrows(i) \/ EndExport(i)
    <3>1. job[i] # Idle /\ EndJob(i) /\ UNCHANGED <<instance, shown, asked, queue>>
      BY <2>3, EndPosts
    <3>2. \E p \in Posts : /\ posts' = Append(posts, p) /\ p.of = i
                           /\ p.kind = "show" => Loading(i) /\ p.id = job[i].id
      BY <2>3, EndPosts DEF Loading
    <3>. QED
      BY <1>1, <3>1, <3>2, OrderEnded
  <2>. QED
    BY <1>8, <2>1, <2>2, <2>3, WorkCases
<1>. QED
  BY <1>3, <1>4, <1>5, <1>6, <1>7, <1>8 DEF Next, System

LEMMA InitOrder == Init => Order
<1>. SUFFICES ASSUME Init, NEW i \in Instances PROVE OrderOf(i)
  BY DEF Order
<1>1. /\ instance = 1 /\ shown = Nothing /\ asked = 1 /\ job[i] = Idle /\ posts = <<>>
      /\ queue[i] = IF i = 1 THEN <<LoadJob(1, Root)>> ELSE <<>>
  BY DEF Init
<1>2. Len(posts) = 0 /\ ~Loading(i) /\ ShownBy(i) = 0 /\ i \in Nat
  BY <1>1, BoundsAssumption DEF Loading, Idle, ShownBy, Nothing, Instances
<1>3. \A n \in 1 .. Len(queue[i]) : n = 1 /\ queue[i][n].id = 1
  BY <1>1 DEF LoadJob
<1>4. QueueRises(i)
  BY <1>1, <1>2, <1>3 DEF QueueRises
<1>. QED
  BY <1>1, <1>2, <1>4 DEF OrderOf, Unborn, LoadingRises, PostsRise

(* The answer to a request of loadPath is never replaced by that to an earlier one,
   for any number of requests, of posted answers, and of recreations. *)
THEOREM NewestStays == Spec => NewestListingStays
<1>1. TypeOK /\ TypeOK' /\ Order /\ [Next]_vars
        => [instance' = instance => shown'.id >= shown.id]_vars
  BY NextOrder
<1>. QED
  BY <1>1, InitTypes, StepTypes, InitOrder, NextOrder, PTL DEF Spec, NewestListingStays

-----------------------------------------------------------------------------
(* Where the export is *)

Exports(i, n) == n \in 1 .. Len(queue[i]) /\ queue[i][n].kind = "export"
Running(i) == job[i].kind = "export"
Done(n) == n \in 1 .. Len(posts) /\ posts[n].kind = "done"
Told == report # None \/ \E n \in Nat : Done(n)

(* It is queued, or it is running, or it has ended: one of these, once, and with the
   folder that was chosen. *)
PlaceInv ==
    /\ exported => ~picking /\ chosen \in Folders
    /\ picking => pending = chosen /\ chosen \in Folders
    /\ Told => exported
    /\ \A i \in Instances : Running(i) => exported /\ job[i].path = chosen /\ ~Told
    /\ \A i, j \in Instances : Running(i) /\ Running(j) => i = j
    /\ \A i \in Instances, n \in Nat :
          Exports(i, n) => /\ exported /\ queue[i][n].path = chosen /\ ~Told
                           /\ \A j \in Instances : ~Running(j)
    /\ \A i, j \in Instances, n, m \in Nat : Exports(i, n) /\ Exports(j, m) => i = j /\ n = m

pickedVars == <<exported, picking, pending, chosen>>

(* Steps that bring no export into a queue. *)
LEMMA PlaceFrame ==
    ASSUME PlaceInv, UNCHANGED <<exported, job, chosen, posts, report>>,
           picking' => picking, UNCHANGED pending \/ exported \/ ~picking',
           \A i \in Instances, n \in Nat :
               Exports(i, n)' => Exports(i, n) /\ queue'[i][n] = queue[i][n]
    PROVE  PlaceInv'
<1>1. (Told' <=> Told) /\ \A i \in Instances : Running(i)' <=> Running(i)
  BY DEF Told, Done, Running
<1>. QED
  BY <1>1 DEF PlaceInv

LEMMA PlaceUser == TypeOK /\ PlaceInv /\ User => PlaceInv'
<1>. SUFFICES ASSUME TypeOK, PlaceInv, User PROVE PlaceInv'
  OBVIOUS
<1>1. ASSUME NEW path \in Folders, Load(path), UNCHANGED <<job, posts, report>>,
             UNCHANGED pickedVars
      PROVE  PlaceInv'
  <2>1. CASE mounted = 0
    <3>1. queue' = queue
      BY <1>1, <2>1 DEF Load
    <3>. QED
      BY <1>1, <3>1, PlaceFrame DEF Exports, pickedVars
  <2>2. CASE mounted # 0
    <3>1. asked + 1 \in Nat
      BY Numbers
    <3>2. PICK x \in Jobs : x = LoadJob(asked + 1, path)
      BY <2>2, <3>1, <1>1, NewJob
    <3>3. queue' = [queue EXCEPT ![instance] = Append(@, x)] /\ x.kind = "load"
      BY <1>1, <2>2, <3>2 DEF Load, LoadJob
    <3>4. ASSUME NEW i \in Instances, NEW n \in Nat, Exports(i, n)'
          PROVE  Exports(i, n) /\ queue'[i][n] = queue[i][n]
      <4>1. CASE i = instance
        <5>1. /\ Len(queue'[i]) = Len(queue[i]) + 1 /\ Len(queue[i]) \in Nat
              /\ \A m \in 1 .. Len(queue[i]) : queue'[i][m] = queue[i][m]
              /\ queue'[i][Len(queue[i]) + 1] = x
          BY <3>3, <4>1, AppendFacts, Numbers DEF TypeOK
        <5>. QED
          BY <3>3, <3>4, <5>1 DEF Exports
      <4>2. CASE i # instance
        <5>1. queue'[i] = queue[i]
          BY <3>3, <4>2 DEF TypeOK
        <5>. QED
          BY <3>4, <5>1 DEF Exports
      <4>. QED
        BY <4>1, <4>2
    <3>. QED
      BY <1>1, <3>4, PlaceFrame DEF pickedVars
  <2>. QED
    BY <2>1, <2>2
<1>2. CASE Enter
  <2>1. PICK n \in DOMAIN Children[shown.path] :
          Children[shown.path][n] \in Folders /\ Load(Children[shown.path][n])
    BY <1>2 DEF Enter
  <2>2. UNCHANGED <<job, posts, report>> /\ UNCHANGED pickedVars
    BY <1>2 DEF Enter, pickedVars
  <2>. QED
    BY <1>1, <2>1, <2>2
<1>3. CASE GoUp
  <2>1. UNCHANGED <<job, posts, report>> /\ UNCHANGED pickedVars
    BY <1>3 DEF GoUp, pickedVars
  <2>2. CASE currentPath = Root
    <3>1. queue' = queue
      BY <1>3, <2>2 DEF GoUp
    <3>. QED
      BY <2>1, <3>1, PlaceFrame DEF Exports, pickedVars
  <2>3. CASE currentPath # Root
    <3>1. Parent(currentPath) \in Folders /\ Load(Parent(currentPath))
      BY <1>3, <2>3, ParentFolder DEF GoUp, TypeOK
    <3>. QED
      BY <1>1, <2>1, <3>1
  <2>. QED
    BY <2>2, <2>3
<1>4. CASE ChooseFolder
  <2>1. /\ ~exported /\ ~exported' /\ pending' = chosen' /\ chosen' \in Folders
        /\ UNCHANGED <<queue, job, posts, report>>
    BY <1>4 DEF ChooseFolder
  <2>2. /\ Told' <=> Told
        /\ \A i \in Instances : Running(i)' <=> Running(i)
        /\ \A i \in Instances, n \in Nat : Exports(i, n)' <=> Exports(i, n)
    BY <2>1 DEF Told, Done, Running, Exports
  <2>. QED
    BY <2>1, <2>2 DEF PlaceInv
<1>5. CASE PickNothing
  BY <1>5, PlaceFrame DEF PickNothing, Exports
<1>6. CASE PickDestination
  <2>1. UNCHANGED <<job, posts, report, chosen>> /\ ~picking' /\ picking
    BY <1>6 DEF PickDestination
  <2>2. CASE pending = None \/ mounted = 0
    <3>1. UNCHANGED <<exported, queue>>
      BY <1>6, <2>2 DEF PickDestination
    <3>. QED
      BY <2>1, <3>1, PlaceFrame DEF Exports
  <2>3. CASE pending # None /\ mounted # 0
    <3>1. PICK x \in Jobs : x = ExportJob(pending)
      BY <2>3, NewJob DEF TypeOK
    <3>2. /\ queue' = [queue EXCEPT ![instance] = Append(@, x)] /\ exported'
          /\ x.path = pending
      BY <1>6, <2>3, <3>1 DEF PickDestination, ExportJob
    <3>3. /\ ~exported /\ pending = chosen /\ chosen \in Folders /\ ~Told
          /\ \A i \in Instances : ~Running(i) /\ \A n \in Nat : ~Exports(i, n)
      BY <2>1 DEF PlaceInv
    <3>4. ~Told' /\ \A i \in Instances : ~Running(i)'
      BY <2>1, <3>3 DEF Told, Done, Running
    <3>5. ASSUME NEW i \in Instances, NEW n \in Nat, Exports(i, n)'
          PROVE  i = instance /\ n = Len(queue[instance]) + 1 /\ queue'[i][n] = x
      <4>1. CASE i = instance
        <5>1. /\ Len(queue'[i]) = Len(queue[i]) + 1 /\ Len(queue[i]) \in Nat
              /\ \A m \in 1 .. Len(queue[i]) : queue'[i][m] = queue[i][m]
              /\ queue'[i][Len(queue[i]) + 1] = x
          BY <3>2, <4>1, AppendFacts, Numbers DEF TypeOK
        <5>2. n \notin 1 .. Len(queue[i])
          BY <3>3, <3>5, <5>1 DEF Exports
        <5>. QED
          BY <3>5, <4>1, <5>1, <5>2 DEF Exports
      <4>2. CASE i # instance
        <5>1. queue'[i] = queue[i]
          BY <3>2, <4>2 DEF TypeOK
        <5>. QED
          BY <3>3, <3>5, <5>1 DEF Exports
      <4>. QED
        BY <4>1, <4>2
    <3>. QED
      BY <2>1, <3>2, <3>3, <3>4, <3>5 DEF PlaceInv
  <2>. QED
    BY <2>2, <2>3
<1>. QED
  BY <1>2, <1>3, <1>4, <1>5, <1>6 DEF User

LEMMA PlaceSystem == TypeOK /\ PlaceInv /\ System => PlaceInv'
<1>. SUFFICES ASSUME TypeOK, PlaceInv, System PROVE PlaceInv'
  OBVIOUS
<1>1. UNCHANGED <<job, posts, report>> /\ UNCHANGED pickedVars
  BY DEF System, Recreate, Destroy, Replace, Unmount, pickedVars
<1>2. ASSUME NEW i \in Instances, NEW n \in Nat, Exports(i, n)'
      PROVE  Exports(i, n) /\ queue'[i][n] = queue[i][n]
  <2>1. CASE Recreate /\ mounted # 0
    <3>1. PICK x : x = LoadJob(asked + 1, currentPath)
      OBVIOUS
    <3>2. queue' = [[queue EXCEPT ![instance + 1] = <<x>>] EXCEPT ![instance] = <<>>]
      BY <2>1, <3>1 DEF Recreate, ShutdownNow
    <3>3. x.kind = "load"
      BY <3>1 DEF LoadJob
    <3>4. queue'[i] \in {queue[i], <<x>>, <<>>}
      BY <3>2 DEF TypeOK
    <3>. QED
      BY <1>2, <3>3, <3>4 DEF Exports
  <2>2. CASE (Recreate /\ mounted = 0) \/ Destroy
    <3>1. queue' = [queue EXCEPT ![instance] = <<>>]
      BY <2>2 DEF Recreate, Destroy, ShutdownNow
    <3>2. queue'[i] \in {queue[i], <<>>}
      BY <3>1 DEF TypeOK
    <3>. QED
      BY <1>2, <3>2 DEF Exports
  <2>3. CASE Replace \/ Unmount
    BY <1>2, <2>3 DEF Replace, Unmount, Exports
  <2>. QED
    BY <2>1, <2>2, <2>3 DEF System
<1>. QED
  BY <1>1, <1>2, PlaceFrame DEF pickedVars

LEMMA PlacePosted == TypeOK /\ PlaceInv /\ RunPosted => PlaceInv' /\ (Told' => Told)
<1>. SUFFICES ASSUME TypeOK, PlaceInv, RunPosted PROVE PlaceInv' /\ (Told' => Told)
  OBVIOUS
<1>1. /\ posts # <<>> /\ posts' = Tail(posts)
      /\ UNCHANGED <<queue, job>> /\ UNCHANGED pickedVars
      /\ report' = IF Head(posts).kind # "done" THEN report
                   ELSE IF failed = 0 THEN "all" ELSE "partial"
  BY DEF RunPosted, pickedVars
<1>2. /\ Len(posts) \in Nat \ {0} /\ Head(posts) = posts[1] /\ Len(posts') = Len(posts) - 1
      /\ \A n \in 1 .. Len(posts) - 1 : posts'[n] = posts[n + 1]
  BY <1>1, TailFacts DEF TypeOK
<1>3. Told' => Told
  <2>1. ASSUME NEW n \in Nat, Done(n)' PROVE Told
    <3>1. n + 1 \in Nat /\ Done(n + 1)
      BY <1>2, <2>1 DEF Done
    <3>. QED
      BY <3>1 DEF Told
  <2>2. ASSUME Head(posts).kind = "done" PROVE Told
    <3>1. Done(1) /\ 1 \in Nat
      BY <1>2, <2>2 DEF Done
    <3>. QED
      BY <3>1 DEF Told
  <2>3. CASE report' # None
    <3>1. report # None \/ Head(posts).kind = "done"
      BY <1>1, <2>3
    <3>. QED
      BY <2>2, <3>1 DEF Told
  <2>. QED
    BY <2>1, <2>3 DEF Told
<1>4. /\ \A i \in Instances : Running(i)' <=> Running(i)
      /\ \A i \in Instances, n \in Nat : Exports(i, n)' <=> Exports(i, n)
  BY <1>1 DEF Running, Exports
<1>. QED
  BY <1>1, <1>3, <1>4 DEF PlaceInv, pickedVars

LEMMA PlaceFetched ==
    ASSUME TypeOK, PlaceInv, NEW k \in Instances, Fetch(k)
    PROVE  /\ PlaceInv' /\ (Told' <=> Told)
           /\ \A i \in Instances \ {k} : job'[i] = job[i]
           /\ Running(k)' => Exports(k, 1) /\ job'[k] = queue[k][1] /\ queue[k][1].kind = "export"
           /\ queue[k][1].kind = "export" => \A i \in Instances : ~Running(i) /\ ~Told
<1>1. /\ UNCHANGED <<posts, report>> /\ UNCHANGED pickedVars
      /\ Told' <=> Told
  BY DEF Fetch, Begin, Told, Done, pickedVars
<1>2. /\ job[k] = Idle /\ 1 \in DOMAIN queue[k] /\ queue[k][1] \in Jobs
      /\ job' = [job EXCEPT ![k] = queue[k][1]]
  BY FetchFacts
<1>3. PICK r \in Seq(Jobs) :
        /\ queue' = [queue EXCEPT ![k] = r]
        /\ Len(r) = Len(queue[k]) - 1 /\ Len(queue[k]) \in Nat \ {0}
        /\ \A n \in 1 .. Len(queue[k]) - 1 : r[n] = queue[k][n + 1]
  BY FetchFacts
<1>4. /\ job'[k] = queue[k][1] /\ \A i \in Instances \ {k} : job'[i] = job[i]
      /\ queue'[k] = r /\ \A i \in Instances \ {k} : queue'[i] = queue[i]
  BY <1>2, <1>3 DEF TypeOK
<1>5. /\ Running(k)' <=> Exports(k, 1)
      /\ \A i \in Instances \ {k} : Running(i)' <=> Running(i)
  BY <1>3, <1>4 DEF Running, Exports
<1>6. ASSUME NEW n \in Nat, Exports(k, n)'
      PROVE  n + 1 \in Nat /\ Exports(k, n + 1) /\ queue'[k][n] = queue[k][n + 1] /\ n + 1 # 1
  BY <1>3, <1>4, <1>6 DEF Exports
<1>7. \A i \in Instances \ {k}, n \in Nat : Exports(i, n)' <=> Exports(i, n)
  BY <1>4 DEF Exports
<1>8. 1 \in Nat /\ (queue[k][1].kind = "export" => Exports(k, 1))
  BY <1>2, <1>3 DEF Exports
<1>9. \A i \in Instances : Running(i)' => exported' /\ job'[i].path = chosen' /\ ~Told'
  <2>1. Running(k)' => exported' /\ job'[k].path = chosen' /\ ~Told'
    BY <1>1, <1>4, <1>5, <1>8 DEF PlaceInv, pickedVars
  <2>. QED
    BY <1>1, <1>4, <1>5, <2>1 DEF PlaceInv, pickedVars
<1>10. \A i, j \in Instances : Running(i)' /\ Running(j)' => i = j
  BY <1>5, <1>8 DEF PlaceInv
<1>11. ASSUME NEW i \in Instances, NEW n \in Nat, Exports(i, n)'
       PROVE  /\ exported' /\ queue'[i][n].path = chosen' /\ ~Told'
              /\ \A j \in Instances : ~Running(j)'
  <2>1. PICK m \in Nat : /\ Exports(i, m) /\ queue'[i][n] = queue[i][m]
                         /\ i = k => m # 1
    BY <1>4, <1>6, <1>7, <1>11
  <2>2. ~Exports(k, 1)
    BY <1>8, <2>1 DEF PlaceInv
  <2>. QED
    BY <1>1, <1>5, <2>1, <2>2 DEF PlaceInv, pickedVars
<1>12. ASSUME NEW i \in Instances, NEW j \in Instances, NEW n \in Nat, NEW m \in Nat,
              Exports(i, n)', Exports(j, m)'
       PROVE  i = j /\ n = m
  <2>1. PICK a \in Nat : Exports(i, a) /\ a = IF i = k THEN n + 1 ELSE n
    BY <1>6, <1>7, <1>12
  <2>2. PICK b \in Nat : Exports(j, b) /\ b = IF j = k THEN m + 1 ELSE m
    BY <1>6, <1>7, <1>12
  <2>3. i = j /\ a = b
    BY <2>1, <2>2 DEF PlaceInv
  <2>. QED
    BY <2>1, <2>2, <2>3
<1>13. PlaceInv'
  BY <1>1, <1>9, <1>10, <1>11, <1>12 DEF PlaceInv, pickedVars
<1>14. Running(k)' => Exports(k, 1) /\ queue[k][1].kind = "export"
  BY <1>5 DEF Exports
<1>15. ASSUME queue[k][1].kind = "export", NEW i \in Instances PROVE ~Running(i) /\ ~Told
  <2>1. Exports(k, 1)
    BY <1>8, <1>15
  <2>. QED
    BY <1>8, <2>1 DEF PlaceInv
<1>. QED
  BY <1>1, <1>4, <1>13, <1>14, <1>15

LEMMA PlaceEnded ==
    ASSUME TypeOK, PlaceInv, NEW k \in Instances,
           ListFails(k) \/ Listed(k) \/ ListThrows(k) \/ EndExport(k)
    PROVE  /\ PlaceInv' /\ (Told' => Told \/ EndExport(k)) /\ ~Running(k)'
           /\ \A i \in Instances \ {k} : job'[i] = job[i]
<1>1. /\ UNCHANGED <<queue, report>> /\ UNCHANGED pickedVars /\ job' = [job EXCEPT ![k] = Idle]
  BY EndPosts DEF EndJob, pickedVars
<1>2. PICK p \in Posts : posts' = Append(posts, p) /\ (p.kind = "done" => EndExport(k))
  BY EndPosts
<1>3. /\ Len(posts') = Len(posts) + 1 /\ posts'[Len(posts) + 1] = p /\ Len(posts) \in Nat
      /\ \A n \in 1 .. Len(posts) : posts'[n] = posts[n]
  BY <1>2, AppendFacts DEF TypeOK
<1>4. Told' => Told \/ EndExport(k)
  <2>1. ASSUME NEW n \in Nat, Done(n)' PROVE Told \/ EndExport(k)
    <3>1. CASE n \in 1 .. Len(posts)
      <4>1. Done(n)
        BY <1>3, <2>1, <3>1 DEF Done
      <4>. QED
        BY <4>1 DEF Told
    <3>2. CASE n = Len(posts) + 1
      BY <1>2, <1>3, <2>1, <3>2 DEF Done
    <3>. QED
      BY <1>3, <2>1, <3>1, <3>2 DEF Done
  <2>. QED
    BY <1>1, <2>1 DEF Told
<1>5. /\ ~Running(k)' /\ \A i \in Instances \ {k} : job'[i] = job[i]
      /\ \A i \in Instances \ {k} : Running(i)' <=> Running(i)
      /\ \A i \in Instances, n \in Nat : Exports(i, n)' <=> Exports(i, n)
  BY <1>1 DEF Running, Exports, TypeOK, Idle
<1>6. CASE ~EndExport(k)
  <2>1. Told' => Told
    BY <1>4, <1>6
  <2>. QED
    BY <1>1, <1>4, <1>5, <2>1 DEF PlaceInv, pickedVars
<1>7. CASE EndExport(k)
  <2>1. Running(k)
    BY <1>7 DEF EndExport, Running
  <2>2. /\ exported /\ \A i \in Instances : ~Running(i)' /\ \A n \in Nat : ~Exports(i, n)'
    BY <1>5, <2>1 DEF PlaceInv
  <2>. QED
    BY <1>1, <1>4, <1>5, <2>2 DEF PlaceInv, pickedVars
<1>. QED
  BY <1>6, <1>7

-----------------------------------------------------------------------------
(* What is in a folder *)

LEMMA InsideHas ==
    ASSUME NEW f \in Folders
    PROVE  /\ Inside[f] \subseteq Entries /\ Contents(f) \subseteq Inside[f]
           /\ Closed(Inside[f])
<1>1. Inside[f] = {e \in Entries : \A S \in SUBSET Entries :
                                     Closed(S) /\ Contents(f) \subseteq S => e \in S}
  BY DEF Inside
<1>2. Contents(f) \subseteq Entries
  BY EntriesTyped DEF Entries
<1>3. ASSUME NEW g \in Inside[f] \cap Folders, NEW e \in Contents(g) PROVE e \in Inside[f]
  <2>1. e \in Entries
    BY <1>3, EntriesTyped DEF Entries
  <2>2. ASSUME NEW S \in SUBSET Entries, Closed(S), Contents(f) \subseteq S PROVE e \in S
    <3>1. g \in S
      BY <1>1, <1>3, <2>2
    <3>. QED
      BY <1>3, <2>2, <3>1 DEF Closed
  <2>. QED
    BY <1>1, <2>1, <2>2
<1>. QED
  BY <1>1, <1>2, <1>3 DEF Closed

(* What is in a folder is an entry of it or in a folder of it. *)
LEMMA InsideSplits ==
    ASSUME NEW f \in Folders, NEW e \in Inside[f]
    PROVE  \E c \in Contents(f) : c = e \/ (c \in Folders /\ e \in Inside[c])
<1>. DEFINE S == {x \in Entries : \E c \in Contents(f) : c = x \/ (c \in Folders /\ x \in Inside[c])}
<1>1. Contents(f) \subseteq S
  <2>1. ASSUME NEW c \in Contents(f) PROVE c \in S
    <3>1. c \in Entries
      BY <2>1, EntriesTyped DEF Entries
    <3>2. \E d \in Contents(f) : d = c \/ (d \in Folders /\ c \in Inside[d])
      BY <2>1
    <3>. QED
      BY <3>1, <3>2
  <2>. QED
    BY <2>1
<1>2. ASSUME NEW g \in S \cap Folders, NEW x \in Contents(g) PROVE x \in S
  <2>1. x \in Entries
    BY <1>2, EntriesTyped DEF Entries
  <2>2. PICK c \in Contents(f) : c = g \/ (c \in Folders /\ g \in Inside[c])
    BY <1>2
  <2>3. c \in Folders /\ x \in Inside[c]
    BY <1>2, <2>2, InsideHas DEF Closed
  <2>. QED
    BY <2>1, <2>2, <2>3
<1>3. Closed(S)
  BY <1>2 DEF Closed
<1>4. e \in S
  <2>1. S \in SUBSET Entries
    OBVIOUS
  <2>. HIDE DEF S
  <2>. QED
    BY <1>1, <1>3, <2>1 DEF Inside
<1>. QED
  BY <1>4

-----------------------------------------------------------------------------
(* What the export has written, and has still to do *)

(* What is to be done for task x sees to file f. *)
Covers(x, f) == x.path = f \/ (x.path \in Folders /\ f \in Inside[x.path])
Ahead(f) == \E n \in 1 .. Len(todo) : Covers(todo[n], f)
Admitted(f) == f \in cut \/ failed > 0 \/ \E g \in lost : f \in Inside[g]
Covered == \A f \in Files : f \in Inside[chosen] =>
               copied[f] = Size[f] \/ Admitted(f) \/ Ahead(f)

(* One document is open, and holds as many chunks as were read for it. *)
OneOpen == \A n \in 1 .. Len(todo) :
               todo[n].kind = "open" => n = 1 /\ copied[todo[1].path] = offset

WorkInv ==
    /\ \A i \in Instances : Running(i) => Covered /\ sources \subseteq {job[i].session}
    /\ Told => Covered /\ todo = <<>>
    /\ report = "all" => failed = 0
    /\ OneOpen /\ OneContainer

LEMMA AheadSkips ==
    ASSUME TypeOK, todo # <<>>, todo' = Tail(todo), NEW f \in Files, Ahead(f),
           ~Covers(todo[1], f)
    PROVE  Ahead(f)'
<1>1. /\ Len(todo) \in Nat \ {0} /\ Len(todo') = Len(todo) - 1
      /\ \A n \in 1 .. Len(todo) - 1 : todo'[n] = todo[n + 1]
  BY TailFacts DEF TypeOK
<1>2. PICK n \in 1 .. Len(todo) : Covers(todo[n], f)
  BY DEF Ahead
<1>3. n # 1
  BY <1>2
<1>4. n - 1 \in 1 .. Len(todo') /\ todo'[n - 1] = todo[n]
  BY <1>1, <1>2, <1>3
<1>5. Covers(todo'[n - 1], f)
  BY <1>2, <1>4
<1>. QED
  BY <1>4, <1>5 DEF Ahead, Covers

(* A task that is passed over, and what its folder held is admitted to be lost. *)
LEMMA PassedOver ==
    ASSUME TypeOK, NEW i \in Instances, Covered, ListNull(i) \/ CreateFolderFails(i)
    PROVE  Covered'
<1>1. /\ todo # <<>> /\ here = todo[1].path /\ here \in Folders
      /\ todo' = Tail(todo) /\ lost' = lost \cup {here}
      /\ UNCHANGED <<failed, copied, cut, chosen>>
  BY TaskTyped DEF ListNull, CreateFolderFails, Skip
<1>2. ASSUME NEW f \in Files, f \in Inside[chosen]
      PROVE  copied'[f] = Size[f] \/ Admitted(f)' \/ Ahead(f)'
  <2>1. Admitted(f) => Admitted(f)'
    BY <1>1 DEF Admitted
  <2>2. CASE Covers(todo[1], f)
    <3>1. f # here
      BY <1>1, TreeAssumption
    <3>2. f \in Inside[here]
      BY <1>1, <2>2, <3>1 DEF Covers
    <3>. QED
      BY <1>1, <3>2 DEF Admitted
  <2>3. CASE ~Covers(todo[1], f)
    BY <1>1, <1>2, <2>1, <2>3, AheadSkips DEF Covered
  <2>. QED
    BY <2>2, <2>3
<1>. QED
  BY <1>1, <1>2 DEF Covered

(* A file that is done, cut short, or failed. *)
LEMMA FileEnded ==
    ASSUME TypeOK, NEW i \in Instances, WorkInv, Covered,
           CutShort(i) \/ EndFile(i) \/ FileFails(i)
    PROVE  Covered'
<1>1. /\ todo # <<>> /\ here = todo[1].path /\ here \in Files
      /\ todo' = Tail(todo) /\ UNCHANGED <<copied, lost, chosen>>
      /\ \/ cut' = cut \cup {here} /\ failed' = failed
         \/ cut' = cut /\ failed' = failed /\ copied[here] = Size[here]
         \/ cut' = cut /\ failed' > 0
  <2>1. CASE CutShort(i)
    BY <2>1, TaskTyped DEF CutShort, Skip
  <2>2. CASE EndFile(i)
    <3>1. todo # <<>> /\ here = todo[1].path /\ here \in Files /\ todo[1].kind = "open"
      BY <2>2, TaskTyped DEF EndFile
    <3>2. 1 \in 1 .. Len(todo)
      BY <3>1 DEF TypeOK
    <3>3. copied[here] = Size[here]
      BY <2>2, <3>1, <3>2 DEF EndFile, WorkInv, OneOpen
    <3>. QED
      BY <2>2, <3>1, <3>3 DEF EndFile, Skip
  <2>3. CASE FileFails(i)
    <3>1. failed' > 0 /\ cut' = cut
      BY <2>3 DEF FileFails, TypeOK
    <3>. QED
      BY <2>3, <3>1, TaskTyped DEF FileFails, Skip
  <2>. QED
    BY <2>1, <2>2, <2>3
<1>2. ASSUME NEW f \in Files, f \in Inside[chosen]
      PROVE  copied'[f] = Size[f] \/ Admitted(f)' \/ Ahead(f)'
  <2>1. Admitted(f) => Admitted(f)'
    BY <1>1 DEF Admitted
  <2>2. CASE Covers(todo[1], f)
    <3>1. f = here
      BY <1>1, <2>2, TreeAssumption DEF Covers
    <3>. QED
      BY <1>1, <3>1 DEF Admitted
  <2>3. CASE ~Covers(todo[1], f)
    BY <1>1, <1>2, <2>1, <2>3, AheadSkips DEF Covered
  <2>. QED
    BY <2>2, <2>3
<1>. QED
  BY <1>1, <1>2 DEF Covered

(* A folder is replaced by its entries. *)
LEMMA Unfolded ==
    ASSUME TypeOK, NEW i \in Instances, Covered, ListFolder(i)
    PROVE  Covered'
<1>. DEFINE q == [n \in DOMAIN Children[here] |->
                    [kind |-> IF Children[here][n] \in Folders THEN "folder" ELSE "file",
                     path |-> Children[here][n]]]
<1>1. /\ here \in Folders /\ q \in Seq(Tasks) /\ Len(q) = Len(Children[here])
      /\ todo' = q \o Tail(todo) /\ Tail(todo) \in Seq(Tasks)
      /\ \A n \in 1 .. Len(q) : q[n].path = Children[here][n]
  BY Listing
<1>2. /\ todo # <<>> /\ here = todo[1].path
      /\ UNCHANGED <<failed, copied, lost, cut, chosen>>
  BY TaskTyped DEF ListFolder
<1>. HIDE DEF q
<1>3. /\ Len(todo') = Len(q) + Len(Tail(todo)) /\ Len(q) \in Nat /\ Len(Tail(todo)) \in Nat
      /\ \A n \in 1 .. Len(q) : todo'[n] = q[n]
      /\ \A n \in 1 .. Len(Tail(todo)) : todo'[Len(q) + n] = Tail(todo)[n]
  <2>1. PICK r \in Seq(Tasks) : r = Tail(todo)
    BY <1>1
  <2>2. /\ Len(q \o r) = Len(q) + Len(r) /\ Len(q) \in Nat /\ Len(r) \in Nat
        /\ \A n \in 1 .. Len(q) : (q \o r)[n] = q[n]
        /\ \A n \in 1 .. Len(r) : (q \o r)[Len(q) + n] = r[n]
    <3>1. q \in Seq(Tasks)
      BY <1>1
    <3>. QED
      BY <3>1, Joined
  <2>. QED
    BY <1>1, <2>1, <2>2
<1>4. /\ Len(todo) \in Nat \ {0} /\ Len(Tail(todo)) = Len(todo) - 1
      /\ \A n \in 1 .. Len(todo) - 1 : Tail(todo)[n] = todo[n + 1]
  BY <1>2, TailFacts DEF TypeOK
<1>5. ASSUME NEW f \in Files, Ahead(f) PROVE Ahead(f)'
  <2>1. PICK n \in 1 .. Len(todo) : Covers(todo[n], f)
    BY <1>5 DEF Ahead
  <2>2. CASE n = 1
    <3>1. f \in Inside[here]
      BY <1>1, <1>2, <2>1, <2>2, TreeAssumption DEF Covers
    <3>2. PICK c \in Contents(here) : c = f \/ (c \in Folders /\ f \in Inside[c])
      BY <1>1, <3>1, InsideSplits
    <3>3. PICK m \in 1 .. Len(q) : q[m].path = c
      BY <1>1, <3>2, EntriesTyped DEF Contents
    <3>4. m \in 1 .. Len(todo') /\ Covers(todo'[m], f)
      BY <1>3, <3>2, <3>3 DEF Covers
    <3>. QED
      BY <3>4 DEF Ahead, Covers
  <2>3. CASE n # 1
    <3>1. n - 1 \in 1 .. Len(Tail(todo)) /\ Tail(todo)[n - 1] = todo[n]
      BY <1>4, <2>1, <2>3
    <3>2. Len(q) + (n - 1) \in 1 .. Len(todo') /\ todo'[Len(q) + (n - 1)] = todo[n]
      BY <1>3, <3>1
    <3>3. Covers(todo'[Len(q) + (n - 1)], f)
      BY <2>1, <3>2
    <3>. QED
      BY <3>2, <3>3 DEF Ahead, Covers
  <2>. QED
    BY <2>2, <2>3
<1>6. ASSUME NEW f \in Files PROVE Admitted(f)' <=> Admitted(f)
  BY <1>2 DEF Admitted
<1>. QED
  BY <1>2, <1>5, <1>6 DEF Covered

(* A folder or a file is created, or a chunk of a file is written: the paths of
   what is to do stay, and only the file at hand changes. *)
LEMMA WorkedOn ==
    ASSUME TypeOK, NEW i \in Instances, Covered,
           CreateFolder(i) \/ CreateFile(i) \/ Copy(i)
    PROVE  Covered'
<1>1. /\ Len(todo) \in Nat \ {0} /\ Len(todo') = Len(todo)
      /\ \A n \in 1 .. Len(todo) : todo'[n].path = todo[n].path
      /\ \A f \in Files : copied'[f] = copied[f] \/ f = todo[1].path
      /\ UNCHANGED <<failed, lost, cut, chosen>>
  <2>1. CASE CreateFolder(i)
    <3>1. todo' = [todo EXCEPT ![1].kind = "list"] /\ Len(todo) \in Nat \ {0}
          /\ todo[1] \in Tasks
      BY <2>1, TaskTyped DEF CreateFolder
    <3>2. Len(todo') = Len(todo) /\ \A n \in 1 .. Len(todo) : todo'[n].path = todo[n].path
      BY <3>1 DEF TypeOK, Tasks
    <3>. QED
      BY <2>1, <3>1, <3>2 DEF CreateFolder
  <2>2. CASE CreateFile(i)
    <3>1. todo' = [todo EXCEPT ![1].kind = "open"] /\ Len(todo) \in Nat \ {0}
          /\ todo[1] \in Tasks /\ here = todo[1].path
      BY <2>2, TaskTyped DEF CreateFile
    <3>2. Len(todo') = Len(todo) /\ \A n \in 1 .. Len(todo) : todo'[n].path = todo[n].path
      BY <3>1 DEF TypeOK, Tasks
    <3>3. \A f \in Files : copied'[f] = copied[f] \/ f = here
      BY <2>2 DEF CreateFile, TypeOK
    <3>. QED
      BY <2>2, <3>1, <3>2, <3>3 DEF CreateFile
  <2>3. CASE Copy(i)
    <3>1. PICK s : CopyFrom(i, s)
      BY <2>3 DEF Copy
    <3>2. Len(todo) \in Nat \ {0} /\ here = todo[1].path
      BY <3>1, TaskTyped DEF CopyFrom
    <3>3. \A f \in Files : copied'[f] = copied[f] \/ f = here
      <4>1. copied' = [copied EXCEPT ![here] = copied[here] + 1]
        BY <3>1 DEF CopyFrom
      <4>2. copied \in [Files -> Nat]
        BY DEF TypeOK
      <4>. QED
        BY <4>1, <4>2
    <3>. QED
      BY <3>1, <3>2, <3>3 DEF CopyFrom
  <2>. QED
    BY <2>1, <2>2, <2>3
<1>2. ASSUME NEW f \in Files PROVE (Ahead(f)' <=> Ahead(f)) /\ (Admitted(f)' <=> Admitted(f))
  BY <1>1 DEF Ahead, Covers, Admitted
<1>3. ASSUME NEW f \in Files, f = todo[1].path PROVE Ahead(f)
  <2>1. Covers(todo[1], f)
    BY <1>3 DEF Covers
  <2>2. 1 \in 1 .. Len(todo)
    BY <1>1
  <2>. QED
    BY <2>1, <2>2 DEF Ahead
<1>. QED
  BY <1>1, <1>2, <1>3 DEF Covered

LEMMA OpenStep ==
    ASSUME TypeOK, NEW i \in Instances, OneOpen, Busy(i) PROVE OneOpen'
<1>1. CASE todo' = Tail(todo) /\ todo # <<>>
  <2>1. /\ Len(todo) \in Nat \ {0} /\ Len(todo') = Len(todo) - 1
        /\ \A n \in 1 .. Len(todo) - 1 : todo'[n] = todo[n + 1]
    BY <1>1, TailFacts DEF TypeOK
  <2>2. ASSUME NEW n \in 1 .. Len(todo') PROVE todo'[n].kind # "open"
    <3>1. n + 1 \in 1 .. Len(todo) /\ n + 1 # 1 /\ todo'[n] = todo[n + 1]
      BY <2>1
    <3>. QED
      BY <3>1 DEF OneOpen
  <2>. QED
    BY <2>2 DEF OneOpen
<1>2. CASE ListNull(i) \/ CreateFolderFails(i) \/ CutShort(i) \/ EndFile(i) \/ FileFails(i)
  <2>1. todo # <<>> /\ todo' = Tail(todo)
    BY <1>2 DEF ListNull, CreateFolderFails, CutShort, EndFile, FileFails, Skip, At
  <2>. QED
    BY <1>1, <2>1
<1>3. CASE ListFolder(i)
  <2>. DEFINE q == [n \in DOMAIN Children[here] |->
                      [kind |-> IF Children[here][n] \in Folders THEN "folder" ELSE "file",
                       path |-> Children[here][n]]]
  <2>1. /\ q \in Seq(Tasks) /\ todo' = q \o Tail(todo) /\ Tail(todo) \in Seq(Tasks)
    BY <1>3, Listing
  <2>2. \A n \in 1 .. Len(q) : q[n].kind # "open"
    <3>1. DOMAIN q = 1 .. Len(q)
      <4>1. q \in Seq(Tasks)
        BY <2>1
      <4>. HIDE DEF q
      <4>. QED
        BY <4>1
    <3>. QED
      BY <3>1
  <2>. HIDE DEF q
  <2>3. PICK r \in Seq(Tasks) : r = Tail(todo)
    BY <2>1
  <2>4. /\ Len(q \o r) = Len(q) + Len(r) /\ Len(q) \in Nat /\ Len(r) \in Nat
        /\ \A n \in 1 .. Len(q) : (q \o r)[n] = q[n]
        /\ \A n \in 1 .. Len(r) : (q \o r)[Len(q) + n] = r[n]
    BY <2>1, Joined
  <2>5. todo # <<>>
    BY <1>3 DEF ListFolder, At
  <2>6. \A n \in 1 .. Len(r) : r[n].kind # "open"
    <3>1. /\ Len(todo) \in Nat \ {0} /\ Len(r) = Len(todo) - 1
          /\ \A n \in 1 .. Len(todo) - 1 : r[n] = todo[n + 1]
      BY <2>3, <2>5, TailFacts DEF TypeOK
    <3>2. \A n \in 1 .. Len(r) : n + 1 \in 1 .. Len(todo) /\ n + 1 # 1 /\ r[n] = todo[n + 1]
      BY <3>1
    <3>. QED
      BY <3>2 DEF OneOpen
  <2>7. ASSUME NEW n \in 1 .. Len(todo') PROVE todo'[n].kind # "open"
    <3>1. CASE n \in 1 .. Len(q)
      BY <2>1, <2>2, <2>3, <2>4, <3>1
    <3>2. CASE n \notin 1 .. Len(q)
      <4>1. n - Len(q) \in 1 .. Len(r) /\ Len(q) + (n - Len(q)) = n
        BY <2>1, <2>3, <2>4, <3>2
      <4>2. todo'[n] = r[n - Len(q)]
        BY <2>1, <2>3, <2>4, <4>1
      <4>. QED
        BY <2>6, <4>1, <4>2
    <3>. QED
      BY <3>1, <3>2
  <2>. QED
    BY <2>7 DEF OneOpen
<1>4. CASE CreateFolder(i)
  <2>1. /\ todo' = [todo EXCEPT ![1] = [todo[1] EXCEPT !.kind = "list"]]
        /\ Len(todo) \in Nat \ {0} /\ todo[1] \in Tasks /\ UNCHANGED <<copied, offset>>
    BY <1>4, TaskTyped DEF CreateFolder
  <2>2. /\ Len(todo') = Len(todo) /\ todo'[1].kind = "list"
        /\ \A n \in 2 .. Len(todo) : todo'[n] = todo[n]
    BY <2>1 DEF TypeOK, Tasks
  <2>. QED
    BY <2>1, <2>2 DEF OneOpen
<1>5. CASE CreateFile(i)
  <2>1. /\ todo' = [todo EXCEPT ![1] = [todo[1] EXCEPT !.kind = "open"]]
        /\ Len(todo) \in Nat \ {0} /\ todo[1] \in Tasks /\ offset' = 0
        /\ copied' = [copied EXCEPT ![here] = 0] /\ here = todo[1].path /\ here \in Files
    BY <1>5, TaskTyped DEF CreateFile
  <2>2. /\ Len(todo') = Len(todo) /\ todo'[1].path = todo[1].path
        /\ \A n \in 2 .. Len(todo) : todo'[n] = todo[n]
    BY <2>1 DEF TypeOK, Tasks
  <2>3. copied'[here] = 0
    BY <2>1 DEF TypeOK
  <2>. QED
    BY <2>1, <2>2, <2>3 DEF OneOpen
<1>6. CASE Copy(i)
  <2>1. PICK s : CopyFrom(i, s)
    BY <1>6 DEF Copy
  <2>2. /\ todo' = todo /\ offset' = offset + 1
        /\ copied' = [copied EXCEPT ![here] = copied[here] + 1]
    BY <2>1 DEF CopyFrom
  <2>3. here = todo[1].path /\ here \in Files /\ todo[1].kind = "open" /\ 1 \in 1 .. Len(todo)
    BY <2>1, TaskTyped DEF CopyFrom
  <2>4. copied[here] = offset /\ copied \in [Files -> Nat]
    BY <2>3 DEF OneOpen, TypeOK
  <2>5. copied'[here] = offset'
    BY <2>2, <2>3, <2>4
  <2>. QED
    BY <2>2, <2>3, <2>5 DEF OneOpen
<1>. QED
  BY <1>2, <1>3, <1>4, <1>5, <1>6 DEF Busy

LEMMA BusySources ==
    ASSUME TypeOK, NEW i \in Instances, Busy(i), sources \subseteq {job[i].session}
    PROVE  sources' \subseteq {job[i].session}
<1>1. CASE Copy(i)
  BY <1>1 DEF Copy, CopyFrom
<1>2. CASE ~Copy(i)
  BY <1>2 DEF Busy, ListFolder, ListNull, CreateFolder, CreateFolderFails, CreateFile,
              CutShort, EndFile, FileFails
<1>. QED
  BY <1>1, <1>2

(* Steps that do not work on the export. *)
LEMMA WorkFrame ==
    ASSUME WorkInv, PlaceInv', UNCHANGED exportVars, UNCHANGED chosen \/ ~exported',
           Told' => Told, UNCHANGED report,
           \A i \in Instances : Running(i)' => Running(i) /\ job'[i] = job[i]
    PROVE  WorkInv'
<1>1. (Told' \/ \E i \in Instances : Running(i)') => exported'
  BY DEF PlaceInv
<1>2. CASE UNCHANGED chosen
  <2>1. (Covered' <=> Covered) /\ (OneOpen' <=> OneOpen) /\ (OneContainer' <=> OneContainer)
    BY <1>2 DEF Covered, Admitted, Ahead, Covers, OneOpen, OneContainer
  <2>. QED
    BY <2>1 DEF WorkInv
<1>3. CASE ~exported'
  <2>1. (OneOpen' <=> OneOpen) /\ (OneContainer' <=> OneContainer)
    BY DEF OneOpen, OneContainer
  <2>. QED
    BY <1>1, <1>3, <2>1 DEF WorkInv
<1>. QED
  BY <1>2, <1>3

ExportInv == PlaceInv /\ WorkInv

LEMMA BusyExport ==
    ASSUME TypeOK, ExportInv, NEW i \in Instances, Busy(i) PROVE ExportInv'
<1>1. /\ UNCHANGED <<mainVars, queue, job, posts>> /\ Running(i)
      /\ Told' <=> Told
  BY BusyFrame DEF Running, Told, Done
<1>2. PlaceInv'
  <2>1. \A k \in Instances, n \in Nat : Exports(k, n)' <=> Exports(k, n)
    BY <1>1 DEF Exports
  <2>. QED
    BY <1>1, <2>1, PlaceFrame DEF ExportInv, Exports
<1>3. ~Told /\ (\A j \in Instances : Running(j) => j = i)
      /\ \A j \in Instances : Running(j)' <=> Running(j)
  BY <1>1 DEF ExportInv, PlaceInv, Running
<1>4. Covered /\ OneOpen /\ sources \subseteq {job[i].session}
  BY <1>1 DEF ExportInv, WorkInv
<1>5. Covered'
  BY <1>4, PassedOver, FileEnded, Unfolded, WorkedOn DEF Busy, ExportInv
<1>6. OneOpen' /\ sources' \subseteq {job[i].session}
  BY <1>4, OpenStep, BusySources
<1>7. OneContainer'
  BY <1>6 DEF OneContainer
<1>8. report' = None
  BY <1>1, <1>3 DEF Told
<1>. QED
  BY <1>1, <1>2, <1>3, <1>5, <1>6, <1>7, <1>8, TreeAssumption DEF ExportInv, WorkInv

LEMMA FetchExport ==
    ASSUME TypeOK, ExportInv, NEW k \in Instances, Fetch(k) PROVE ExportInv'
<1>1. /\ PlaceInv' /\ (Told' <=> Told)
      /\ \A i \in Instances \ {k} : job'[i] = job[i]
      /\ Running(k)' => Exports(k, 1) /\ job'[k] = queue[k][1] /\ queue[k][1].kind = "export"
      /\ queue[k][1].kind = "export" => \A i \in Instances : ~Running(i) /\ ~Told
  BY PlaceFetched DEF ExportInv
<1>2. UNCHANGED <<chosen, report, exported>>
  BY DEF Fetch, Begin
<1>3. \A i \in Instances \ {k} : Running(i)' <=> Running(i)
  BY <1>1 DEF Running
<1>4. CASE queue[k][1].kind # "export"
  <2>1. UNCHANGED exportVars
    BY <1>4 DEF Fetch, Begin
  <2>2. \A i \in Instances : Running(i)' => Running(i) /\ job'[i] = job[i]
    BY <1>1, <1>3, <1>4
  <2>. QED
    BY <1>1, <1>2, <2>1, <2>2, WorkFrame DEF ExportInv
<1>5. CASE queue[k][1].kind = "export"
  <2>1. /\ todo' = <<[kind |-> "list", path |-> queue[k][1].path]>>
        /\ sources' = {}
    BY <1>5 DEF Fetch, Begin
  <2>2. ~Told' /\ \A i \in Instances : Running(i)' => i = k
    BY <1>1, <1>3, <1>5
  <2>3. Exports(k, 1)
    BY <1>5, FetchFacts DEF Exports, TypeOK
  <2>4. queue[k][1].path = chosen /\ chosen \in Folders
    BY <2>3 DEF ExportInv, PlaceInv
  <2>5. 1 \in 1 .. Len(todo') /\ todo'[1].path = chosen /\ Len(todo') = 1
        /\ todo'[1].kind = "list"
    BY <2>1, <2>4
  <2>6. Covered'
    <3>1. ASSUME NEW f \in Files, f \in Inside[chosen] PROVE Ahead(f)'
      BY <2>4, <2>5, <3>1 DEF Ahead, Covers
    <3>. QED
      BY <1>2, <3>1 DEF Covered
  <2>7. OneOpen' /\ OneContainer'
    BY <2>1, <2>5 DEF OneOpen, OneContainer
  <2>8. report' = None
    BY <2>2 DEF Told
  <2>. QED
    BY <1>1, <2>1, <2>2, <2>6, <2>7, <2>8, TreeAssumption DEF ExportInv, WorkInv
<1>. QED
  BY <1>4, <1>5

LEMMA EndExportStep ==
    ASSUME TypeOK, ExportInv, NEW k \in Instances,
           ListFails(k) \/ Listed(k) \/ ListThrows(k) \/ EndExport(k)
    PROVE  ExportInv'
<1>1. /\ PlaceInv' /\ (Told' => Told \/ EndExport(k)) /\ ~Running(k)'
      /\ \A i \in Instances \ {k} : job'[i] = job[i]
  BY PlaceEnded DEF ExportInv
<1>2. \A i \in Instances : Running(i)' => Running(i) /\ job'[i] = job[i]
  BY <1>1 DEF Running
<1>3. UNCHANGED <<chosen, report, exported>>
  BY EndPosts
<1>4. CASE ListFails(k) \/ Listed(k)
  <2>1. UNCHANGED exportVars /\ (Told' => Told)
    BY <1>1, <1>4 DEF ListFails, Listed, EndExport
  <2>. QED
    BY <1>1, <1>2, <1>3, <2>1, WorkFrame DEF ExportInv
<1>5. CASE EndExport(k)
  <2>1. Running(k) /\ todo = <<>> /\ UNCHANGED exportVars
    BY <1>5 DEF EndExport, Running
  <2>2. Covered /\ ~Told /\ \A i \in Instances : ~Running(i)'
    BY <1>1, <1>2, <2>1 DEF ExportInv, WorkInv, PlaceInv
  <2>3. Covered' /\ OneOpen' /\ OneContainer'
    BY <1>3, <2>1, <2>2 DEF Covered, Admitted, Ahead, Covers, OneOpen, OneContainer,
                            ExportInv, WorkInv
  <2>. QED
    BY <1>1, <1>3, <2>1, <2>2, <2>3 DEF ExportInv, WorkInv
<1>6. CASE ListThrows(k)
  <2>1. Running(k) /\ UNCHANGED <<offset, failed, copied, sources, lost, cut>> /\ todo' = <<>>
    BY <1>6 DEF ListThrows, At, Running
  <2>2. ~EndExport(k)
    BY <1>6 DEF ListThrows, EndExport, At
  <2>3. ~Told' /\ \A i \in Instances : ~Running(i)'
    BY <1>1, <1>2, <2>1, <2>2 DEF ExportInv, PlaceInv
  <2>4. OneOpen' /\ OneContainer'
    BY <2>1 DEF OneOpen, OneContainer, ExportInv, WorkInv
  <2>5. report' = None
    BY <2>3 DEF Told
  <2>. QED
    BY <1>1, <2>3, <2>4, <2>5, TreeAssumption DEF ExportInv, WorkInv
<1>. QED
  BY <1>4, <1>5, <1>6

LEMMA PostedExport == TypeOK /\ ExportInv /\ RunPosted => ExportInv'
<1>. SUFFICES ASSUME TypeOK, ExportInv, RunPosted PROVE ExportInv'
  OBVIOUS
<1>1. PlaceInv' /\ (Told' => Told)
  BY PlacePosted DEF ExportInv
<1>2. UNCHANGED <<chosen, exportVars, job>>
  BY DEF RunPosted
<1>3. (Covered' <=> Covered) /\ (OneOpen' <=> OneOpen) /\ (OneContainer' <=> OneContainer)
  BY <1>2 DEF Covered, Admitted, Ahead, Covers, OneOpen, OneContainer
<1>4. \A i \in Instances : Running(i)' <=> Running(i)
  BY <1>2 DEF Running
<1>5. report' = "all" => failed' = 0
  BY <1>2 DEF RunPosted, ExportInv, WorkInv
<1>. QED
  BY <1>1, <1>2, <1>3, <1>4, <1>5 DEF ExportInv, WorkInv

LEMMA NextExport == TypeOK /\ ExportInv /\ [Next]_vars => ExportInv'
<1>. SUFFICES ASSUME TypeOK, ExportInv, [Next]_vars PROVE ExportInv'
  OBVIOUS
<1>1. CASE User
  <2>1. PlaceInv'
    BY <1>1, PlaceUser DEF ExportInv
  <2>2. UNCHANGED <<job, posts, report>> /\ UNCHANGED exportVars
    BY <1>1 DEF User, Enter, GoUp, ChooseFolder, PickNothing, PickDestination
  <2>3. UNCHANGED chosen \/ ~exported'
    BY <1>1 DEF User, Enter, GoUp, ChooseFolder, PickNothing, PickDestination
  <2>4. (Told' => Told) /\ \A i \in Instances : Running(i)' => Running(i) /\ job'[i] = job[i]
    BY <2>2 DEF Told, Done, Running
  <2>. QED
    BY <2>1, <2>2, <2>3, <2>4, WorkFrame DEF ExportInv
<1>2. CASE System
  <2>1. PlaceInv'
    BY <1>2, PlaceSystem DEF ExportInv
  <2>2. UNCHANGED <<job, posts, report, chosen>> /\ UNCHANGED exportVars
    BY <1>2 DEF System, Recreate, Destroy, Replace, Unmount
  <2>3. (Told' => Told) /\ \A i \in Instances : Running(i)' => Running(i) /\ job'[i] = job[i]
    BY <2>2 DEF Told, Done, Running
  <2>. QED
    BY <2>1, <2>2, <2>3, WorkFrame DEF ExportInv
<1>3. CASE RunPosted
  BY <1>3, PostedExport
<1>4. ASSUME NEW i \in Instances, Work(i) PROVE ExportInv'
  BY <1>4, WorkCases, FetchExport, BusyExport, EndExportStep
<1>5. CASE UNCHANGED vars
  <2>1. /\ UNCHANGED <<exported, job, chosen, posts, report, picking, pending, queue>>
        /\ UNCHANGED exportVars
    BY <1>5 DEF vars
  <2>2. PlaceInv'
    BY <2>1, PlaceFrame DEF ExportInv, Exports
  <2>3. (Told' => Told) /\ \A i \in Instances : Running(i)' => Running(i) /\ job'[i] = job[i]
    BY <2>1 DEF Told, Done, Running
  <2>. QED
    BY <2>1, <2>2, <2>3, WorkFrame DEF ExportInv
<1>. QED
  BY <1>1, <1>2, <1>3, <1>4, <1>5 DEF Next

LEMMA InitExport == Init => ExportInv
<1>. SUFFICES ASSUME Init PROVE ExportInv
  OBVIOUS
<1>1. /\ ~exported /\ ~picking /\ report = None /\ posts = <<>> /\ todo = <<>> /\ sources = {}
      /\ failed = 0
  BY DEF Init
<1>2. ~Told
  BY <1>1 DEF Told, Done
<1>3. ASSUME NEW i \in Instances PROVE ~Running(i) /\ \A n \in Nat : ~Exports(i, n)
  <2>1. job[i] = Idle /\ queue[i] = IF i = 1 THEN <<LoadJob(1, Root)>> ELSE <<>>
    BY DEF Init
  <2>2. LoadJob(1, Root).kind = "load"
    BY DEF LoadJob
  <2>. QED
    BY <2>1, <2>2 DEF Running, Exports, Idle
<1>. QED
  BY <1>1, <1>2, <1>3, TreeAssumption DEF ExportInv, PlaceInv, WorkInv, OneOpen, OneContainer

LEMMA ExportHolds == Spec => [](TypeOK /\ ExportInv)
BY InitTypes, StepTypes, InitExport, NextExport, PTL DEF Spec

(* The chunks that exportContainerDirectory writes all come from the session that was
   mounted when the destination was picked. *)
THEOREM ExportsOne == Spec => []OneContainer
<1>1. ExportInv => OneContainer
  BY DEF ExportInv, WorkInv
<1>. QED
  BY <1>1, ExportHolds, PTL

(* When the message counts no failure, every file at any depth below the folder that
   was chosen is written with all its chunks, except in the two ways the code passes
   over in silence. *)
THEOREM MessageIsTrue == Spec => []AllMeansWhole
<1>1. ExportInv => AllMeansWhole
  <2>. SUFFICES ASSUME ExportInv, report = "all", NEW f \in Files, f \in Inside[chosen],
                       \A g \in lost : f \notin Inside[g]
                PROVE  f \in cut \/ copied[f] = Size[f]
    BY DEF AllMeansWhole
  <2>1. Told
    BY TreeAssumption DEF Told
  <2>2. Covered /\ todo = <<>> /\ failed = 0
    BY <2>1 DEF ExportInv, WorkInv
  <2>3. ~Ahead(f)
    BY <2>2 DEF Ahead
  <2>. QED
    BY <2>2, <2>3 DEF Covered, Admitted
<1>. QED
  BY <1>1, ExportHolds, PTL
=============================================================================
