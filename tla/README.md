# Verification of VeraCrypt for Android (read-only client)

TLA+ models of the program in `src/`, TLC configurations that check them on
small instances, and theorems about them that TLAPS checks for every value of
the constants.

Contents: [the system](#the-system) · [modules](#modules-and-the-code) ·
[runs](#runs) · [bounds](#bounds) · [fairness](#fairness) · [proofs](#proofs) ·
[findings](#findings-and-observations) · [not modelled](#not-modelled) ·
[plan](#plan)

Run a check with `tlc -config X.cfg M`, a proof with `tlapm M.tla`.

## The system

The app opens a VeraCrypt container picked by the user, keeps its keys in native
memory, and offers the FAT32 or exFAT volume inside, read-only, to its own
explorer, to the Storage Access Framework and to viewer apps.

```
 MainActivity ──open (thread)──► ContainerSessionManager ──activate──► active
      │ mount (main thread)                                             │
 VeraCryptDocumentsProvider ── queries, openDocument ─┐                 │
 ContainerViewerProvider ───── openReadPipe ──────────┼─► ContainerSession
 FileExplorerActivity ──────── list, export ──────────┘   (one worker thread,
                                                           closed flag, callbacks)
                                                                 │ JNI
                                     handle table, keys, descriptor, mutex
                                                                 │ pread + XTS
                                     FAT32 / exFAT: boot sector → directory
                                                     → records → file data
```

| component | state | operations | what is hard | what makes it correct |
|---|---|---|---|---|
| native session store, `veracrypt_jni.cpp` | handle table, `ManagedSession` with keys, descriptor, mutex; thread-local key copy; cached verdict on the file system | `nativeOpen`, `nativeListDir`, `nativeReadFile`, `nativeGetFileSystemType`, `nativeClose` | calls race with the close of their session; descriptor numbers are reused; a dozen error returns | a sector is decrypted with the keys of its own file; closed sessions hold no keys; no descriptor leaks or is closed twice |
| `ContainerSession.kt`, the session | `closed`, the monitor `gate`, the worker's queue, `cancellationCallbacks` | `list`, `read`, `fileSystemType`, `onClose`, `close` | close against running operations and registrations, interrupts, throwing callbacks | accepted operations are served before the keys go; registered work is cancelled |
| `ContainerSession.kt`, the manager, with `MainActivity` | `active`, results posted to the main thread | `open`, `activate`, `currentOrNull`, `unmount` | two threads swap the reference; the main thread waits for a destruction | the reference holds open sessions only; a replaced or refused one loses its keys |
| the two providers | `activeStreams`, cancellation signals, pipes, stream threads | `openDocument`, `openReadPipe`, `mount`, `unmount` | client cancels, unmount and replacement race with setup and with a thread blocked in a full pipe | a clean end means the whole file; cancelled streams end and are forgotten |
| `FileExplorerActivity` | current path, adapter, progress bar, pending export, a single-thread executor | load a folder, go up, export a folder, recreate, destroy | late answers, recreation while a picker is open, container replaced under an export, partial failures | newest listing stays; the message does not overstate; one container per export |
| hash and key derivation, `sha512_*`, `hmac_sha512`, `pbkdf2_sha512` | `SHA512Ctx` with its partly filled buffer; `U`, `T` | hash in pieces, derive the header key | block boundaries, stale bytes of the buffer, a buffer that is argument and result | the digest is that of the padded message, the key that of RFC 8018 |
| reading a sector, `read_full_at`, `aes256_xts_decrypt` | buffer, count of bytes, tweak | `vc_read_sector` | short and interrupted `pread64`, a sector cut off by the end of the file, a tweak doubled in place | each block is decrypted from its own bytes with its own tweak |
| checksums: short names, exFAT sets, boot region, up-case table | a sum | four loops over bytes | rotation, places that are left out | any one damaged byte that is summed is seen |
| exFAT root metadata, `exfat_validate_root_metadata` | visited clusters, place of bitmap and up-case table | validation before use; `exfat_cluster_is_allocated` | cyclic root, failing sectors, a bitmap that lies wrong | the bitmap has a bit for every cluster and is asked for that bit |
| boot sector and header checks | none | `nativeOpen`, `validate_fat32_boot_sector`, `validate_exfat_boot_sector`, `vc_read_sector` | machine arithmetic on fields of the volume | clusters lie inside the area and apart |
| directory records | accumulators of the two inner loops | `fat32_list_cluster`, `exfat_list_cluster` | state kept over record, sector and cluster boundaries | a long name belongs to its entry; a file is a whole set |
| names and paths, `utf16_to_utf8_strict`, `safe_absolute_path`, `normalizeDocumentId` | decoder state | units to UTF-8, entry to path, path to parts | surrogates, three rules for what a path is, names that are no text | the path of a listed entry leads back to it |
| directories and paths | visited clusters | `nativeListDir`, `*_find_dir`, `*_find_file` | cyclic chains, failing sectors, two different rules for names | a listing is all of the directory or none of it |
| file data | none between calls | `*_read_file_data`, the stream loop | cyclic and short chains, boundaries, failing sectors | a prefix of the file and no byte twice |
| block cipher, compression function, queries, dialogs | none or none of interest | | | see [not modelled](#not-modelled) |

Each hazard of this code, with its line and the property that watches it, is in
`PROJECT.json` under `hazards`.

## Modules and the code

`PROJECT.json` maps every definition to its lines. In short:

**NativeSessions** (abstract: **SessionLifecycle**). One thread of `Threads` is
one JNI call at a time. `table`, `state`, `mutex` are the map, the `VCSession` and
the operation mutex of a `ManagedSession`; `tls` is the thread-local key copy,
`fdTable` the descriptor table of the process, which others change too. A key is
named by the container it opens. `OpenDup`…`OpenReturn` are the steps of
`nativeOpen` between which another call can run, with its error returns;
`OpFind`, `OpAcquire`, `SectorCheck`, `SectorRead`, `SectorDecrypt`, … those of
the three reading calls; `CloseErase`,
`CloseAcquire`, `CloseFd`, `CloseWipe` those of `nativeClose`. SessionLifecycle is
what a caller may rely on: a session is absent, open, draining, destroyed, and
serves only its own container, and only before it is destroyed.

**ContainerSession** (abstract: **DrainingSession**). `Exec*` are the steps of
`execute` around the monitor and `Future.get`, `Close*` those of `close` with the
weakly consistent iterator of `ConcurrentHashMap`, `Reg*` those of `onClose`.
`native` stands for the session store, whose promise is SessionLifecycle.
DrainingSession: operations are accepted while open, all accepted ones run, then
the keys are destroyed.

**SessionManager**. The thread of an open, its runnable on the main thread and
the session it makes share one name from `Opens`. `main` is the queue of the main
thread; `Handle`, `Require`, `Mount`, `CloseOld`, `AwaitOld` are the pieces of one
runnable, and the next runnable waits behind it. Sessions behave as
ContainerSession promises.

**ContainerStreams** (abstract: **PipeTransfer**). A stream is the binder call
that sets it up (`Open`, `RegCheck`, `RegPut`, `RegRecheck`, `Enlist`, `Listen`,
`Start`), its thread (`Check`…`Release`) and its pipe; `listed` tells a stream of the documents
provider, which is entered in `activeStreams`, from one of the viewer. `Cancel` is what all three
cancellers call: interrupt and `closeWithError`. `SignalCall` and `Release` model
that `setOnCancelListener(null)` waits for a listener that is running.
PipeTransfer: chunks in order, and a clean end only after the last one.

**FileReads**. The stream loop on top of `nativeReadFile`, on top of the cluster
walk. A byte is named by its place on the volume, so a wrong offset shows. The
FAT, the bitmap, the first cluster and the size are arbitrary, and any sector read
may fail. `ChainOf` is the file as the FAT describes it, and what the properties compare with.

**Directories**. `List` and `Find` with the descent through the path by
`SubDir` (listing) or `SubEntry` (reading), and below them the walk (`OpenDir`,
`EnterCluster`, `Scan`, `Follow`). Entries of a cluster come from the
configuration; how records become entries is **DirectoryRecords**, one action per
kind of record of each loop. What a directory *is* stands at the end of the module
and uses nothing of the walk: `Walked(d)` follows the chain without any check, `HasLength`
says where it ends and that it is sound, `DirAt` goes down the path.

**MessageDigest**. `HashInit`, `UpdateCall`, `UpdateTurn`, `HashFinal` are the calls on
one `SHA512Ctx`, a message in any cuts after any other message. `compressed` is
what the compression function was given, so two messages have one digest only where the
code compresses the same blocks.

**KeyDerivation**. `HmacKey`, `HmacInner`, `HmacOuter`, `Fold` are the steps of
`pbkdf2_sha512` in the buffer `uBytes` that is message and result. A digest is an unknown
function of the message (which MessageDigest justifies), a byte of `T` the set of bytes
XORed into it. The property computes the same byte otherwise: as the bytes that occur an odd
number of times.

**SectorReads**. `Pread` brings any part of what is missing, `PreadFails` is an error or
the end of the file; `FirstTweak`, `DecryptBlock`, `DecryptEnd` are
`aes256_xts_decrypt`. Bytes are named by their place in the file, a tweak is
its bits.

**RotatingChecksum**. The loop that all four checksums share, run over an area as it was
written and as it is found, with at most one byte damaged in between.

**ExFatMetadata**. The walk over the root directory for the bitmap and the up-case table,
the checks on both, and every later question to the bitmap.

**EntryNames**. `Decode*` are the iterations of `utf16_to_utf8_strict`; `LongName`, `NoText` and `ListEntry` what a
listing makes of the result, `AskNative` and `AskProvider` what the native code and the
documents provider make of the path when it comes back. A Java string is written as the bytes that
`GetStringUTFChars` gives of it. `NewString` is `NewStringUTF(s.c_str())`: it ends at the first NUL and keeps text as it is;
bytes that are no text, as an 8.3 name may hold, become any of the strings `Garbled`, or none at
all, and then the whole listing is lost (`NoStrings`).

**VolumeGeometry**. `Open` with the checks of `nativeOpen` on the header,
`MountFat32` and `MountExFat` with those on the boot sector, and `Access*` for the
places the code then reads. Every operation is taken modulo its machine width.

**FileExplorer**. `Load`, `Enter`, `GoUp`, `ChooseFolder`, `PickDestination` on
the main thread; `Recreate`, `Destroy`; a worker per instance of the activity
(`Fetch`, `Listed`, `ListFails`), and the recursion of `exportContainerDirectory`
as a stack of what is left to do. `RunPosted` is one runnable of the main thread. The model
follows one export: its entries, place and counts are locals of the job, and `exported` says
that its destination has been picked. To that export another one is a job that holds
the worker and ends, as a load does.

The modules meet at their abstract promises: ContainerSession uses what
SessionLifecycle says of the native session, SessionManager and ContainerStreams
what DrainingSession says of a session, FileExplorer and FileReads a session that
reads while mounted; Directories takes entries as DirectoryRecords delivers them,
FileReads and Directories clusters as VolumeGeometry places them, sectors as SectorReads
reads them, and the bitmap as ExFatMetadata answers for it. **MCVolumeFormat**
puts the modules about one volume side by side: they share no state, a
behaviour picks one.

## Runs

| run | question | states |
|---|---|---|
| `native_close_race` | One session, three callers and the rest of the process: can a call that races with `nativeClose` and the reuse of its descriptor number read the wrong file, keep keys, or hang? Does the store implement SessionLifecycle, with its liveness? | 73,516 |
| `native_descriptors` | Two sessions, two containers, two descriptor numbers, one handle: does an error return leak or close twice? Is a live handle ever handed out again when the counter wraps? Is data of an exFAT volume ever read in a session that was not validated? | 153,644 |
| `container_close` | An operation and two registrations against two `close()` calls, all interruptible: is accepted work served, early work cancelled, and does the close complete? Does it implement DrainingSession? | 131,798 |
| `container_late_registration` | Is all registered work cancelled before the keys go, as the comment on `onClose` says? No. | violation |
| `manager_mounts` | Three opens, an unmount, a lookup: is the mounted session open, are only its keys in memory, does every successful open get mounted and every replaced one destroyed? | 63,226 |
| `streams` | A stream of either kind against an unmount, a replacement, a cancel and a client that leaves: is a clean end a whole file, does a stopped stream end and is it forgotten, does it fall silent when the keys are gone? | 69,064 |
| `reads` | Every FAT of three clusters: is what a stream delivers a prefix of the file, from allocated clusters, complete for sound files, and does it end? | 782,842 |
| `reads_truncated` | Does a clean end always mean the whole file, as the comment at the end of `fat32_read_file_data` says? No. | violation |
| `directories` | Every small volume, broken ones too, with any sector failing: is a listing whole and without repetition, and do listing and reading agree on names? | 2,316,087 |
| `listing_partial` | Does `nativeListDir` give null on every error, as its comment says? No: a sound directory is listed without its second cluster. | violation |
| `volume` | What the app believes about one volume, in small: every boot sector and header, every cut of short messages, keys of every length about a block, every single damage, every root directory, every directory of four FAT32 or five exFAT records, names with every kind of unit, every way `pread64` brings a sector. Are places inside their regions, clusters apart, digests and keys right, damage seen, the bitmap sound, long names and sets with their entries, names coming through Java strings and paths leading back, blocks decrypted with their tweaks? | 2,286,594 |
| `explorer` | A tree of three levels, two containers, a recreation and an export: do answers arrive in order, is the message true, one container per export, does the progress bar end? | 336,364 |

Each property of a passing run has a mutant in `PROJECT.json`: a plausible bug in
one definition, written as an operator beside it, under which TLC finds the
property violated.

## Bounds

- *native*: two callers already give every pair of steps; the third lets a second
  `nativeClose` and an operation meet on the same session. `HandleModulus = 2` has
  one handle (0 is skipped), so the counter comes round to a live one at once.
- *container_close*: two closers give the winner and the loser of the flag; two
  registrations give one on each side of the iterator.
- *manager_mounts*: the third open is the one whose runnable waits behind the main
  thread while it destroys the first for the second.
- *streams*: one stream, which is of either kind. Streams meet only through the two
  tables, where `Regs = {1, 2}` of `container_close` has the interplay of several.
  Two streams with liveness take more time than a check is given. Three chunks
  and a pipe of one: the thread blocks in a full pipe before, at and after the
  middle of the file.
- *reads*: three clusters of two sectors of two bytes, chunks of five bytes: a
  chunk begins and ends inside a sector, on a sector and across a cluster; sizes
  are below, at and beyond what the chain holds. All cycles of length 1 to 3
  exist.
- *directories*: three clusters hold a root of two clusters or a tree two levels
  deep; `MaxEntries = 2` makes the limit of entries bite.
- *volume*, geometry: `U16 = 4`, `U32 = 8`, `U64 = 64` are small enough to enumerate every
  field and small enough that every product and sum can wrap.
- *volume*, digest and key: blocks of four bytes, two of them for the length; messages
  of up to two blocks and a byte end on every side of the boundary and of the length field, and a
  second message finds the buffer of the first. Passwords are shorter than, as long as and
  longer than a block; three iterations are two turns that read what the last one wrote.
- *volume*, checksums: sums of at least the byte's values, areas of a few bytes with
  unsummed places; a damage at each place, also the last.
- *volume*, metadata: nine clusters of one byte: the bitmap needs two bytes, so a
  question goes to a second cluster. The root may go on in itself; the bitmap may begin
  in the last cluster or behind it.
- *volume*, records: names of two pieces and sets of up to two secondaries; five
  records hold a broken set followed by a whole one.
- *volume*, names: the first and last unit of each range, pairs, lone surrogates, dots, slashes;
  at most six bytes, so that a name can be one byte too long, and paths of eight. 8.3 names of two
  bytes and one hold a NUL, spaces, dots and the two bytes of a letter of UTF-8, whole, in the wrong order and
  cut in two; one parent is a path that is no text.
- *volume*, sectors: four blocks of three bytes of two bits, a file that ends a
  byte before the sector, with it or behind it. All 64 first tweaks.
- *explorer*: two instances (one recreation), three requests, one export, two
  containers; the exported folder holds a subfolder and a file of two chunks.
  Exports do not interact except through the one worker.
- The theorems lift all these bounds for the safety properties they state; the bounds remain
  for liveness.

`MaxRequests`, `MaxInstances`, `LastSession` (FileExplorer) and
`MaxRecords` (DirectoryRecords) are bounds of the models; `MaxEntries`, `MaxSeq`,
`MaxSecondary`, `MaxNameBytes`, `MaxPath`, `UpcaseLimit` are limits of the code at smaller values. Deadlock checking is off
where the workload is finite and the system may stop when it is done; it is on in
the two native runs, whose callers go on for ever.

## Fairness

Weak fairness of the steps of a thread that has begun: the operating system
schedules it, and no step of the models holds up a thread that the code does not. Never
fair: that a user, client or caller does anything; that a pipe is read; that a
callback is registered; that a sector read succeeds or fails. In NativeSessions
the acquisition of the operation mutex is fair in the weak sense only; RetiredCallsEnd
needs no more because a retired session gets no new callers. In ContainerStreams
the client that reads is not fair, which is the point of StoppedStreamsEnd. In SessionManager the
main thread is, and so is the worker that destroys a session, which is what
CloseCompletes shows of ContainerSession.

## Proofs

| module | theorems | argument |
|---|---|---|
| NativeSessionsProof | TypeCorrect, PlaintextCorrect, KeysGuarded, KeysWiped, DescriptorsCorrect, ForeignUntouched, HandlesStable, ExFatValidated, Implementation | The invariants are not inductive: that a sector fits its keys needs that the descriptor of the session is still open on its container, which needs that whoever closes it holds the operation mutex. IInv adds what each place of a call implies, who holds which mutex (LockInv), that a key set is whole or gone (StateInv), that each retired session has one closer on its way (ClosingInv), and one owner per descriptor (DescriptorInv). VerdictInv is separate: a cached verdict was given by a full validation, and a job that skips it saw such a verdict under the mutex. Implementation: from the same invariant each step of the store is a step of SessionLifecycle or a stutter. |
| ContainerSessionProof | TypeCorrect, CloseIsFinal, AcceptedServed, EarlyCancelled, Drains | One `close()` wins the flag (Won); between check and submission the monitor is held (Monitor); so the destruction is behind every accepted operation in the queue (Backlog, Distinct); the iterator has passed or will pass every early registration (Cancels). Drains is the step correspondence with DrainingSession. |
| SessionManagerProof | TypeCorrect, MountedOpen, KeysOfMounted | KeysOnlyOfMounted is about quiet moments and says nothing about the others. The invariant names at each moment who answers for keys in memory: the reference, the thread that opened them, or a thread that has taken the session out of the reference (Owned, Awaited); it needs that nobody else knows a session that has not been mounted (Fresh) and that one runnable at a time is on the main thread (OnMain). |
| ContainerStreamsProof | TypeCorrect, EndedForgotten, Silent, Transfers | Chunks are in the pipe or with the client, and a pipe ends cleanly only from the place the thread reaches at the end of the file (Transferred); that gives the step correspondence with PipeTransfer. For Silent: one thread closes at a time (OneCloses), every registered stream is in the table until the flag is set (Registered), and the weakly consistent iterator has broken each early stream's pipe or has it ahead (Reached). |
| FileReadsProof | TypeCorrect, BytesInOrder, SoundArrive | Between calls nothing is kept but the offset, so the invariant relates each call's walk to the chain from its start: `visited` is exactly the set of the clusters passed (Walked), `skip` is what is left to the cluster of the offset (Skipping), and the next byte to copy is the byte at `position` of the file (AtCluster, AtSector). No byte comes twice because every delivered byte is in a cluster that was not met before (Owned), which a later call finds again in the same place. Arriving: on a sound file no check of the walk can fail, since the bounds of the index and the visited set would contradict Sound. |
| DirectoriesProof | TypeCorrect, ListingComplete, OpensListed | Walking: so many clusters have been scanned or entered, all good, and `results` is what `Walked` gives for them; a contiguous directory keeps no useful `visited`, but its clusters rise. A directory has at most one length (HasLength) and none above the number of clusters (an injection into them), so a walk that ends has the directory and one that is refused had none. Going, Trail: listing and reading resolve a path by different rules, yet once a read has come through, each of its directories is the one the listing went through (Leads); Having, Ended: what the client holds is that directory's. |
| FileExplorerProof | TypeCorrect, NewestStays, ExportsOne, MessageIsTrue | Answers keep their order because request numbers rise from what is shown over what is posted and what the worker does to what is queued, per instance (Order). An export is at one place at a time: picker, queue, worker, posted message (PlaceInv). Its message is true because every file inside the folder is whole, admitted in the counts or in `lost` and `cut`, or ahead in the stack (Covered), with `Inside` for folders of any shape. |
| FormatProof | GeometryTypeCorrect, ReadsGranted, ClustersAreApart | Facts about the accepted volume without wraparound, then that the checked sums and products do not wrap. |
| | RecordsTypeCorrect, LongNamesHold, SetsHold | The accumulators say exactly what the last records are: the pieces of one name down to the one expected next (RunInv, an equivalence), with the pieces themselves (PartsInv), or the beginning of a set (SetInv). Both directions are needed: that a name is never wrong, and that a good one is never lost behind a bad one. |
| | DamageSeen, BitmapServed, DigestCorrect | A turn of the checksum is one-to-one in the sum and in the byte, so a difference never heals. The bitmap's bit of a cluster is at one place, found by division as by counting, and that place lies in clusters of the heap. The digest: what was compressed and what is in the buffer is the message up to `fed`, and the buffer is never full between turns; padding is then one case for each side of the length field. |
| | KeyDerived | After n turns `uBytes` is U[n], though the call that made it read U[n - 1] from the same buffer, and `tBytes` is the XOR of the first n (Deriving): taking a byte out or putting it in changes the parity of its occurrences and of no other. |
| | SectorsDecrypted | The buffer holds the bytes of the file up to `count` however they came; after m blocks the tweak is the first one times x to the m (SectorInv), because doubling from the last byte down is TimesX on exponents: a carry is an exponent that crosses a byte, the carry out of the last byte the reduction. |
| | NamesReturn | While a name is converted, the text so far reads back as the units so far (TextPart): one character more adds its units at the end, because characters start where the text says (Starts) and what encode_codepoint writes has the width its first byte tells. The same makes a path text whose parent and name are (PathIsText), so `NewStringUTF` leaves both as they are. Each path is a parent without an empty part, a slash and the name; so Split appends the name, and the last slash is the one before it. |

The provers have no induction here: the library's induction theorems take an operator. Where
a definition is a recursive function (`ChainOf`, `Walked`, `DirAt`, `U`, `PowerOf`, `Split`, `Read`) the proofs take
the least number for which a claim fails, which exists because < on Nat is well
founded (WFMin of WellFoundedInduction takes a set); that the recursive function exists at all is shown
in the same way, from its finite beginnings.

Assumptions are those named in the modules, each true of the code or of what it reads:
disjoint names, `None` outside of every set, positive sizes; a `uint64_t` holds the
product of two `uint32_t` (RoomAssumption). TreeAssumption asks only that each folder but
the root is an entry of some folder: a damaged volume may list a folder twice, or in
itself. VolumesAssumption types the entries of a directory and says that only exFAT
has contiguous ones. InputAssumption: a salt is not longer than its buffer, and at least one
iteration is made. NamesAssumption
gives a long name every unit but the two that end it, and an 8.3 name every byte but the two that in front mean
no entry. ParentsAssumption: the path of a directory that is listed has passed `safe_absolute_path`,
no more. That Android's runtime gives text back as it got it, four-byte characters included, is taken for granted
(`NewString`); nothing is assumed of what it makes of other bytes. PolynomialAssumption is about the sector and the polynomial: x has more powers
than a sector has blocks before a tweak comes back; for the code it holds because x^128 + x^7 + x^2 + x + 1
is irreducible and a sector has at most 256 blocks, and TLC evaluates it for the small instance. It
is used for one conjunct, that no two blocks have the same tweak. The proofs bound
nothing else: any number of threads, sessions, opens, records, clusters, folders, and
widths of integers.

Only model-checked: liveness (RetiredCallsEnd, CloseCompletes, SuccessIsMounted,
ReplacedIsDestroyed, StoppedStreamsEnd, StreamEnds, ProgressEnds and the fair parts of
the refinements), since TLAPS has neither ENABLED nor fairness here.

What the proofs changed in the models: the definition of a directory that ListingIsWhole compares
with gave a contiguous directory whose data length ends before its end marker two lengths, and
an empty directory none; the choice fell right on the instance and could not be proved for all.
HasLength now has one answer, and `directories` an entry whose first cluster is an end-of-chain
mark. FileExplorer assumed a tree with unique names, which no check of the code provides;
it does without. NamesComeBack reads text forward, character by character; its theorem holds for
every byte of an 8.3 name and every parent that `safe_absolute_path` lets through, so that what it does not
promise stands in the property itself: names that are no text or have a slash, directories whose own path is no
text or ends with a slash (`Plain`).

Proved without a run of its own: AcceptedServed, which ImplementsDraining of
`container_close` implies on the small instance, and the type invariants.

## Findings and observations

Three runs show the code doing other than what its comments say:

1. `container_late_registration`: a registration stored behind the iterator of
   `close()` and cleared before its own second look at the flag is cancelled by
   nobody (`ContainerSession.kt:63` against the comment on line 55 and
   `SECURITY.md:54`).
2. `reads_truncated`: a file with no first cluster, a chain that ends early, and
   a sector that fails in mid-chunk give a clean end of a part of the file
   (`veracrypt_jni.cpp:1478`, `1492`, `1508` against the comment at 1522).
3. `listing_partial`: a sector of the FAT that cannot be read looks like the end of a
   chain, and the first part of a sound directory is returned as the whole of it
   (`veracrypt_jni.cpp:804`, `1124` against "null on error" in
   `NativeBridge.kt:69`).

Observed while modelling, without a run, since no statement of the repository is
contradicted in the model's terms or the matter is one of design:

- `currentOrNull` answers null for a moment while a container is replaced, although one is
  mounted before and after (`ContainerSession.kt:126`).
- The active-FAT bit of exFAT and the mirroring flags of FAT32 are accepted and
  ignored; chains are read from the first copy of the FAT.
- The valid data length of an exFAT file is checked and then not used.
- A FAT32 entry whose long name contains a slash is listed although no path leads to it
  (exFAT passes over such names); NamesComeBack excepts it.
- The bytes of an 8.3 name are those of a code page, and `fat_83_to_string` hands them to `NewStringUTF` as they
  are (`veracrypt_jni.cpp:697`, `2065`). A byte of 128 or more is in general no UTF-8: the runtime may replace it, so that
  the entry is listed under a name and path that lead nowhere, or refuse the string, and then the directory has no
  listing. A NUL inside the field cuts the name. NamesComeBack excepts names that are no text.
- Three rules for paths differ at the edges: bytes against Java units for the limit, a
  trailing slash that the native code accepts and the provider does not. They agree on all
  paths the app hands out within the limit of both, where NamesComeBack speaks of them.
- A contiguous exFAT directory that fills every cluster of the volume without an
  end marker is refused (line 1281); no real volume has one, since the bitmap
  takes a cluster.
- A FAT32 directory whose first cluster is an end-of-chain mark lists as empty rather than as
  damaged (the loop of line 836 is not entered); the definition of a directory follows the code.
- Nothing in the app calls `unmount`, only the instrumented test does: in use, a
  session ends by replacement.
- Export: a subfolder that cannot be created or listed is passed over without a
  count, though the comment at `FileExplorerActivity.kt:165` promises "all its
  contents"; a file whose reads end early counts as exported. AllMeansWhole says what is
  left of the promise: `lost` and `cut` are exactly these cases. An export goes on
  after `onDestroy` if the one interrupt is consumed by a file, which then counts
  as failed. A folder chosen in one container can be exported from another that
  was mounted while the picker was open.
- A second recreation before the first listing has arrived forgets the folder,
  since `currentPath` is set only when the answer arrives.

## Not modelled

The block cipher, the SHA-512 compression function, CRC-32 and their known-answer tests:
pure functions of bytes whose correctness is a matter of test vectors; the loops around
them are modelled. Secure memory is one operation without control flow. Queries of the providers, MIME types, URI
helpers, dialogs, password encoding: they format and keep no state. The interfaces of core-api: nothing implements
them. Fuzzers, tests, build files: no part of the running program. The contents of
clusters behind the valid data length of an exFAT file: the code reads them like any
other, and nothing in the repository says what it should return.

## Plan

The modules were written most dangerous first: the session store, the session, the
manager, the streams; then the walks over directories and files; then the formats and the
explorer. What is left, in the order of its use:

1. Refine: SessionManager as an abstract "one mounted container" register, in
   SessionManagerProof; FileExplorer's listings as the last of the requests answered.
2. Extend: the translation of native result codes in `open` and `MainActivity` (one
   message per cause); the preview path of FileExplorer composed with a viewer stream; two
   streams in one run, without liveness.
