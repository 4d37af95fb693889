----------------------------- MODULE FileExplorer -----------------------------
(***************************************************************************)
(* FileExplorerActivity: loading folders and exporting one of them on the  *)
(* single worker of the activity, with results posted to the main thread,  *)
(* while the activity is recreated or finished, and the container is       *)
(* unmounted or replaced.                                                  *)
(*                                                                         *)
(* A session reads as long as it is the mounted one: close() serves what   *)
(* was accepted and refuses the rest (ContainerSession). The steps of the  *)
(* main thread do not interleave with each other. The heading, which only  *)
(* enables the button next to the back key, and the preview of a file,     *)
(* which only starts the viewer, are left out.                             *)
(*                                                                         *)
(* The model follows one export. Its entries, offset and counts are locals *)
(* of the job in the code; another export would be, to this one, a job     *)
(* that holds the worker and ends like a load.                             *)
(***************************************************************************)
EXTENDS Integers, Sequences

CONSTANTS Root, Folders, Files,
          Children,      \* the entries of each folder, in the order listed
          Size,          \* of each file, in chunks of 4 MiB
          LastSession,   \* bound: sessions are 1 .. LastSession
          MaxInstances,  \* bound: the activity and its recreations
          MaxRequests,   \* bound: folders asked for, recreations included
          None

Contents(f) == {Children[f][i] : i \in DOMAIN Children[f]}

(* Every folder but the root is an entry of a folder. That the folders are a tree,
   or that names do not come twice, is not needed: a broken volume has others. *)
ASSUME TreeAssumption ==
    /\ Root \in Folders /\ Folders \cap Files = {}
    /\ None \notin Folders \cup {"all", "partial"}
    /\ Children \in [Folders -> Seq(Folders \cup Files)]
    /\ \A f \in Folders \ {Root} : \E g \in Folders : f \in Contents(g)
    /\ Size \in [Files -> Nat]
ASSUME BoundsAssumption ==
    {LastSession, MaxInstances, MaxRequests} \subseteq Nat \ {0}

VARIABLES
    mounted, last,            \* the mounted session or 0; the latest one
    phase, instance,          \* of the activity
    currentPath, shown,       \* currentPath, and what the adapter holds
    progress,                 \* the progress bar is visible
    pending, picking,         \* pendingExportFolderPath, the picker is open
    asked, exported,          \* requests so far; a destination was picked
    queue, job, interrupted,  \* per instance: its worker
    posts,                    \* the runnables of the main thread
    todo, offset, failed,     \* exportContainerDirectory: entries, place, counts[1]
    chosen, copied, sources,  \* history: the folder picked, what was written,
    lost, cut, report         \* from where, what was passed over, the message

sessionVars == <<mounted, last>>
viewVars == <<currentPath, shown>>
pickVars == <<pending, picking, exported, chosen>>
workVars == <<job, interrupted>>
exportVars == <<todo, offset, failed, copied, sources, lost, cut>>
vars == <<sessionVars, phase, instance, viewVars, progress, pickVars, asked, queue,
          workVars, posts, exportVars, report>>

Instances == 1 .. MaxInstances
Parent(e) == CHOOSE f \in Folders : e \in Contents(f)
Nothing == [id |-> 0, path |-> None]
LoadJob(id, path) == [kind |-> "load", id |-> id, path |-> path, session |-> mounted]
ExportJob(path) == [kind |-> "export", id |-> 0, path |-> path, session |-> mounted]
Idle == [kind |-> "none", id |-> 0, path |-> None, session |-> 0]

(* onCreate of an activity that finds a mounted container: loadPath("/"). *)
Init ==
    /\ mounted = 1 /\ last = 1
    /\ phase = "alive" /\ instance = 1
    /\ currentPath = Root /\ shown = Nothing /\ progress = TRUE
    /\ pending = None /\ picking = FALSE /\ asked = 1 /\ exported = FALSE
    /\ queue = [i \in Instances |-> IF i = 1 THEN <<LoadJob(1, Root)>> ELSE <<>>]
    /\ job = [i \in Instances |-> Idle]
    /\ interrupted = [i \in Instances |-> FALSE]
    /\ posts = <<>>
    /\ todo = <<>> /\ offset = 0 /\ failed = 0
    /\ chosen = None /\ copied = [f \in Files |-> 0] /\ sources = {}
    /\ lost = {} /\ cut = {} /\ report = None

Jobs == [kind : {"load", "export"}, id : Nat, path : Folders, session : 1 .. LastSession]
Posts == [of : Instances, kind : {"show", "error", "done"}, id : Nat, path : Folders]
Tasks == [kind : {"list", "folder"}, path : Folders] \cup [kind : {"file", "open"}, path : Files]

TypeOK ==
    /\ mounted \in 0 .. LastSession /\ last \in 1 .. LastSession
    /\ phase \in {"alive", "finishing", "gone"} /\ instance \in Instances
    /\ currentPath \in Folders /\ shown \in [id : Nat, path : Folders] \cup {Nothing}
    /\ progress \in BOOLEAN /\ picking \in BOOLEAN /\ exported \in BOOLEAN
    /\ pending \in Folders \cup {None} /\ chosen \in Folders \cup {None}
    /\ asked \in 1 .. MaxRequests
    /\ queue \in [Instances -> Seq(Jobs)] /\ job \in [Instances -> Jobs \cup {Idle}]
    /\ interrupted \in [Instances -> BOOLEAN]
    /\ posts \in Seq(Posts) /\ todo \in Seq(Tasks)
    /\ offset \in Nat /\ failed \in Nat /\ copied \in [Files -> Nat]
    /\ sources \subseteq 1 .. LastSession
    /\ lost \subseteq Folders /\ cut \subseteq Files /\ report \in {None, "all", "partial"}

-----------------------------------------------------------------------------
(* The main thread: the user *)

(* loadPath, or finish() when nothing is mounted. *)
Load(path) ==
    IF mounted = 0
    THEN phase' = "finishing" /\ UNCHANGED <<progress, asked, queue>>
    ELSE /\ asked < MaxRequests
         /\ asked' = asked + 1
         /\ progress' = TRUE
         /\ queue' = [queue EXCEPT ![instance] = Append(@, LoadJob(asked + 1, path))]
         /\ UNCHANGED phase

(* A click on a folder of the listing. *)
Enter ==
    /\ phase = "alive" /\ ~picking /\ shown # Nothing
    /\ \E i \in DOMAIN Children[shown.path] :
          Children[shown.path][i] \in Folders /\ Load(Children[shown.path][i])
    /\ UNCHANGED <<sessionVars, instance, viewVars, pickVars, workVars, posts,
                   exportVars, report>>

(* navigateUp, of the button and of the back key. *)
GoUp ==
    /\ phase = "alive" /\ ~picking
    /\ IF currentPath = Root
       THEN phase' = "finishing" /\ UNCHANGED <<progress, asked, queue>>
       ELSE Load(Parent(currentPath))
    /\ UNCHANGED <<sessionVars, instance, viewVars, pickVars, workVars, posts,
                   exportVars, report>>

(* A long click on a folder, and the two dialogs behind it. *)
ChooseFolder ==
    /\ phase = "alive" /\ ~picking /\ shown # Nothing /\ ~exported
    /\ \E i \in DOMAIN Children[shown.path] :
          /\ Children[shown.path][i] \in Folders
          /\ pending' = Children[shown.path][i] /\ chosen' = Children[shown.path][i]
    /\ picking' = TRUE
    /\ UNCHANGED <<sessionVars, phase, instance, viewVars, progress, asked, exported,
                   queue, workVars, posts, exportVars, report>>

PickNothing ==
    /\ phase = "alive" /\ picking
    /\ picking' = FALSE
    /\ UNCHANGED <<sessionVars, phase, instance, viewVars, progress, pending, asked,
                   exported, chosen, queue, workVars, posts, exportVars, report>>

(* The picker returns a destination: exportFolderToUri. *)
PickDestination ==
    /\ phase = "alive" /\ picking
    /\ picking' = FALSE
    /\ pending' = None
    /\ IF pending = None THEN UNCHANGED <<phase, progress, exported, queue>>
       ELSE IF mounted = 0
       THEN phase' = "finishing" /\ UNCHANGED <<progress, exported, queue>>
       ELSE /\ exported' = TRUE
            /\ progress' = TRUE
            /\ queue' = [queue EXCEPT ![instance] = Append(@, ExportJob(pending))]
            /\ UNCHANGED phase
    /\ UNCHANGED <<sessionVars, instance, viewVars, asked, chosen, workVars, posts,
                   exportVars, report>>

-----------------------------------------------------------------------------
(* The main thread: the system *)

(* onDestroy: shutdownNow drops what is queued and interrupts what runs. *)
ShutdownNow(i, q) ==
    /\ queue' = [q EXCEPT ![i] = <<>>]
    /\ interrupted' = [interrupted EXCEPT ![i] = job[i] # Idle]

(* A configuration change: onSaveInstanceState and onDestroy of the old
   activity, onCreate and onRestoreInstanceState of the new one. *)
Recreate ==
    /\ phase = "alive" /\ instance < MaxInstances /\ asked < MaxRequests
    /\ instance' = instance + 1
    /\ currentPath' = Root /\ shown' = Nothing
    /\ IF mounted = 0
       THEN /\ phase' = "finishing" /\ progress' = FALSE
            /\ ShutdownNow(instance, queue)
            /\ UNCHANGED asked
       ELSE /\ progress' = TRUE
            /\ asked' = asked + 1
            /\ ShutdownNow(instance, [queue EXCEPT ![instance + 1] =
                                         <<LoadJob(asked + 1, currentPath)>>])
            /\ UNCHANGED phase
    /\ UNCHANGED <<sessionVars, pickVars, job, posts, exportVars, report>>

Destroy ==
    /\ phase = "finishing"
    /\ phase' = "gone" /\ progress' = FALSE
    /\ ShutdownNow(instance, queue)
    /\ UNCHANGED <<sessionVars, instance, viewVars, pickVars, asked, job, posts,
                   exportVars, report>>

(* activate of another session, or unmount. *)
Replace ==
    /\ last < LastSession
    /\ last' = last + 1 /\ mounted' = last + 1
    /\ UNCHANGED <<phase, instance, viewVars, progress, pickVars, asked, queue,
                   workVars, posts, exportVars, report>>

Unmount ==
    /\ mounted # 0
    /\ mounted' = 0
    /\ UNCHANGED <<last, phase, instance, viewVars, progress, pickVars, asked, queue,
                   workVars, posts, exportVars, report>>

Post(i, kind, id, path) ==
    posts' = Append(posts, [of |-> i, kind |-> kind, id |-> id, path |-> path])

(* The next runnable that a worker has posted; one of an activity that has been
   replaced changes views nobody sees. *)
RunPosted ==
    /\ posts # <<>>
    /\ posts' = Tail(posts)
    /\ LET p == Head(posts) IN
       /\ IF p.of = instance /\ p.kind = "show"
          THEN currentPath' = p.path /\ shown' = [id |-> p.id, path |-> p.path]
          ELSE UNCHANGED viewVars
       /\ progress' = (progress /\ p.of # instance)
       /\ report' = IF p.kind # "done" THEN report
                    ELSE IF failed = 0 THEN "all" ELSE "partial"
    /\ UNCHANGED <<sessionVars, phase, instance, pickVars, asked, queue, workVars,
                   exportVars>>

-----------------------------------------------------------------------------
(* The worker of instance i *)

mainVars == <<sessionVars, phase, instance, viewVars, progress, pickVars, asked,
              report>>
Reads(i) == mounted = job[i].session

EndJob(i) == job' = [job EXCEPT ![i] = Idle]

(* A wait for the session that an interrupt has ended takes the flag with it. *)
MayClear(i) == interrupted' \in {interrupted, [interrupted EXCEPT ![i] = FALSE]}

Begin(i, n) ==
    /\ job[i] = Idle /\ n \in DOMAIN queue[i]
    /\ job' = [job EXCEPT ![i] = queue[i][n]]
    /\ queue' = [queue EXCEPT ![i] = SubSeq(@, 1, n - 1) \o SubSeq(@, n + 1, Len(@))]
    /\ IF queue[i][n].kind = "export"
       THEN /\ todo' = <<[kind |-> "list", path |-> queue[i][n].path]>>
            /\ offset' = 0 /\ failed' = 0
            /\ copied' = [f \in Files |-> 0] /\ sources' = {}
            /\ lost' = {} /\ cut' = {}
       ELSE UNCHANGED exportVars
    /\ UNCHANGED <<mainVars, interrupted, posts>>

(* An executor with more than one thread would begin what it likes. *)
FetchAny(i) == \E n \in 1 .. Len(queue[i]) : Begin(i, n)

(* The single thread takes the oldest job. *)
Fetch(i) == Begin(i, 1)

Listed(i) ==
    /\ job[i].kind = "load" /\ Reads(i)
    /\ Post(i, "show", job[i].id, job[i].path)
    /\ EndJob(i)
    /\ UNCHANGED <<mainVars, queue, interrupted, exportVars>>

(* A failure that is only logged. *)
FailQuietly(i) ==
    /\ job[i].kind = "load"
    /\ EndJob(i)
    /\ MayClear(i)
    /\ UNCHANGED <<mainVars, queue, posts, exportVars>>

(* A listing that is null, refused or interrupted. *)
ListFails(i) ==
    /\ job[i].kind = "load"
    /\ Post(i, "error", job[i].id, job[i].path)
    /\ EndJob(i)
    /\ MayClear(i)
    /\ UNCHANGED <<mainVars, queue, exportVars>>

-----------------------------------------------------------------------------
(* The worker: exportContainerDirectory. What is left of its loops, inner ones
   first, is the sequence todo. *)

At(i, kind) == job[i].kind = "export" /\ todo # <<>> /\ Head(todo).kind = kind
here == Head(todo).path

Skip(i) ==
    /\ todo' = Tail(todo)
    /\ UNCHANGED <<mainVars, queue, job, posts>>

ListFolder(i) ==
    /\ At(i, "list") /\ Reads(i)
    /\ todo' = [n \in DOMAIN Children[here] |->
                   [kind |-> IF Children[here][n] \in Folders THEN "folder" ELSE "file",
                    path |-> Children[here][n]]] \o Tail(todo)
    /\ UNCHANGED <<mainVars, queue, workVars, posts, offset, failed, copied, sources,
                   lost, cut>>

(* The native listing is null: return. *)
ListNull(i) ==
    /\ At(i, "list") /\ Reads(i)
    /\ Skip(i)
    /\ lost' = lost \cup {here}
    /\ UNCHANGED <<interrupted, offset, failed, copied, sources, cut>>

(* list throws, through all levels of the recursion. *)
ListThrows(i) ==
    /\ At(i, "list") /\ (~Reads(i) \/ interrupted[i])
    /\ Post(i, "error", 0, job[i].path)
    /\ EndJob(i)
    /\ MayClear(i)
    /\ todo' = <<>>
    /\ UNCHANGED <<mainVars, queue, offset, failed, copied, sources, lost, cut>>

CreateFolder(i) ==
    /\ At(i, "folder")
    /\ todo' = [todo EXCEPT ![1].kind = "list"]
    /\ UNCHANGED <<mainVars, queue, workVars, posts, offset, failed, copied, sources,
                   lost, cut>>

(* createDocument throws or returns null: continue. *)
CreateFolderFails(i) ==
    /\ At(i, "folder")
    /\ Skip(i)
    /\ lost' = lost \cup {here}
    /\ UNCHANGED <<interrupted, offset, failed, copied, sources, cut>>

(* createDocument: a new and empty document, also for a name seen before. *)
CreateFile(i) ==
    /\ At(i, "file")
    /\ todo' = [todo EXCEPT ![1].kind = "open"]
    /\ offset' = 0
    /\ copied' = [copied EXCEPT ![here] = 0]
    /\ UNCHANGED <<mainVars, queue, workVars, posts, failed, sources, lost, cut>>

(* The next chunk of the file, read and written. *)
CopyFrom(i, s) ==
    /\ At(i, "open") /\ offset < Size[here]
    /\ mounted = s
    /\ offset' = offset + 1
    /\ copied' = [copied EXCEPT ![here] = @ + 1]
    /\ sources' = sources \cup {s}
    /\ UNCHANGED <<mainVars, queue, workVars, posts, todo, failed, lost, cut>>

(* A chunk of whatever session is mounted by now. *)
CopyMounted(i) == mounted # 0 /\ CopyFrom(i, mounted)

Copy(i) == CopyFrom(i, job[i].session)

(* The read is empty, and the loop ends before the file does. *)
CutShort(i) ==
    /\ At(i, "open") /\ offset < Size[here] /\ Reads(i)
    /\ Skip(i)
    /\ cut' = cut \cup {here}
    /\ UNCHANGED <<interrupted, offset, failed, copied, sources, lost>>

EndFile(i) ==
    /\ At(i, "open") /\ offset = Size[here]
    /\ Skip(i)
    /\ UNCHANGED <<interrupted, offset, failed, copied, sources, lost, cut>>

(* A failure that is not counted. *)
FileForgotten(i) ==
    /\ At(i, "file") \/ At(i, "open")
    /\ Skip(i)
    /\ MayClear(i)
    /\ UNCHANGED <<offset, failed, copied, sources, lost, cut>>

(* Creating, opening, reading or writing the file fails: counts[1]++. *)
FileFails(i) ==
    /\ At(i, "file") \/ At(i, "open")
    /\ Skip(i)
    /\ failed' = failed + 1
    /\ MayClear(i)
    /\ UNCHANGED <<offset, copied, sources, lost, cut>>

EndExport(i) ==
    /\ job[i].kind = "export" /\ todo = <<>>
    /\ Post(i, "done", 0, job[i].path)
    /\ EndJob(i)
    /\ UNCHANGED <<mainVars, queue, interrupted, exportVars>>

-----------------------------------------------------------------------------
Export(i) ==
    \/ ListFolder(i) \/ ListNull(i) \/ ListThrows(i)
    \/ CreateFolder(i) \/ CreateFolderFails(i) \/ CreateFile(i)
    \/ Copy(i) \/ CutShort(i) \/ EndFile(i) \/ FileFails(i) \/ EndExport(i)
Work(i) == Fetch(i) \/ Listed(i) \/ ListFails(i) \/ Export(i)
User == Enter \/ GoUp \/ ChooseFolder \/ PickNothing \/ PickDestination
System == Recreate \/ Destroy \/ Replace \/ Unmount

Next == User \/ System \/ RunPosted \/ \E i \in Instances : Work(i)

(* The main thread and the workers go on; what the user does is his affair. *)
Fairness ==
    /\ WF_vars(RunPosted)
    /\ \A i \in Instances : WF_vars(Work(i))

Spec == Init /\ [][Next]_vars /\ Fairness

-----------------------------------------------------------------------------
(* Properties *)

(* What loadPath has shown is never replaced by the answer to an earlier request,
   however fast the user moves and whichever listings fail. *)
NewestListingStays ==
    [][instance' = instance => shown'.id >= shown.id]_vars

(* What is in a folder, at any depth: the least set with its entries that has, with
   a folder, the entries of that folder. *)
Entries == Folders \cup Files
Closed(S) == \A g \in S \cap Folders : Contents(g) \subseteq S
Inside == [f \in Folders |->
             {e \in Entries : \A S \in SUBSET Entries :
                                Closed(S) /\ Contents(f) \subseteq S => e \in S}]

(* A message that counts no failure speaks the truth: every file of the folder
   that was chosen, through recreations of the activity, is there with all its
   chunks, but for the folders that were passed over without a word and the
   files whose reads ended early. *)
AllMeansWhole ==
    report = "all" =>
        \A f \in Files : f \in Inside[chosen] /\ (\A g \in lost : f \notin Inside[g]) =>
                           f \in cut \/ copied[f] = Size[f]

(* exportContainerDirectory never mixes two containers, also when another one is
   mounted while it runs. *)
OneContainer == \A s, t \in sources : s = t

(* The progress bar that loadPath and exportFolderToUri show does not turn forever,
   whatever closes, fails or interrupts their work. *)
ProgressEnds == progress ~> ~progress
=============================================================================
