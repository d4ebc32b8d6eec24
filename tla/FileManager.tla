----------------------------- MODULE FileManager -----------------------------
(***************************************************************************)
(* The client's FileManager (src/src/client/file/FileManager.{h,cpp}): a   *)
(* hand-made readers/writer lock per file name, built from two mutexes and *)
(* one condition variable, and the operations that use it.                 *)
(*                                                                         *)
(* Any number of threads call the public interface concurrently: Writers   *)
(* call storeSegmentToFile (as the DownloadWorkers do), Readers run        *)
(* sessions readLock; getSegment*; readUnlock.  Every step below touches   *)
(* the shared state once, between two points where the code may be         *)
(* pre-empted.  condVariableMutex protects nothing but the wait itself, so *)
(* locking it and entering the wait (172-173) is one step, and notifying   *)
(* under it (267-268) is another.                                          *)
(***************************************************************************)
EXTENDS Integers, FiniteSets, SequencesExt

CONSTANTS
    Readers,     \* threads that hold read sessions
    Writers,     \* threads that store segments
    NoThread,    \* "this mutex is free"
    Files,       \* file names
    Segments,    \* segment numbers of a file, 0 .. n
    MaxCalls,    \* bound: calls one thread makes; a DownloadWorker makes
                 \* finitely many, one per fragment its peer announced
    Spurious     \* whether a wait may return without a notification

Threads == Readers \cup Writers

ASSUME ThreadsAssumption == NoThread \notin Threads /\ IsFiniteSet(Threads)
ASSUME FilesAssumption == Files # {}
ASSUME SegmentsAssumption == Segments # {} /\ Segments \subseteq Nat
ASSUME MaxCallsAssumption == MaxCalls \in Nat
ASSUME SpuriousAssumption == Spurious \in BOOLEAN

VARIABLES
    alive,             \* FALSE once undefined behaviour ended the process
    writeLockMutex,    \* the thread that owns writeLockMutex, or NoThread
    readLockMutex,     \* the thread that owns readLockMutex, or NoThread
    readLockedFiles,   \* the vector of OpenedFile: name and stream position
    writeLockedFiles,  \* how often each name is in the vector of that name
    waiters,           \* threads asleep in condVariable.wait
    exists,            \* files that createLocalFile has made
    pc, arg,           \* where each thread is, and its fileName argument
    of,                \* getSegment's local pointer into readLockedFiles
    seg,               \* getSegment's segmentId argument
    calls,             \* calls made so far
    leaked             \* history: stores of the file that failed to open it

mutexes == <<writeLockMutex, readLockMutex>>
locks   == <<readLockedFiles, writeLockedFiles, waiters>>
callVars == <<arg, of, seg, calls>>
vars == <<alive, mutexes, locks, exists, pc, callVars, leaked>>

-----------------------------------------------------------------------------
(* The places where a thread can be.                                        *)

WriteLockPcs == {"writeLock", "wlRead", "wlScan", "wlPush",
                 "writeGap", "writeWait"}
StorePcs     == {"storing", "writeUnlock"}
ReadLockPcs  == {"readLock", "rlRead", "rlScan", "rlOpen",
                 "readGap", "readWait"}
SessionPcs   == {"reading", "seek", "tell", "fetch"}
PCs == {"idle", "notify"}
         \cup WriteLockPcs \cup StorePcs \cup ReadLockPcs \cup SessionPcs

\* Where a thread is while it owns one of the mutexes.
OwnsWrite == {"wlRead", "wlScan", "wlPush"}
OwnsRead  == {"wlScan", "rlScan", "rlOpen"}

\* The OpenedFile entries have this file name.
EntriesOf(f) == {i \in DOMAIN readLockedFiles : readLockedFiles[i].file = f}
ReadLocked(f) == EntriesOf(f) # {}

\* Mutant: the stream of a new entry is left at the failed position -1.
Mut_EntryUnset(f, p) == [file |-> f, pos |-> p - 1]

Entry(f, p) == [file |-> f, pos |-> p]

Goto(t, label) == pc' = [pc EXCEPT ![t] = label]

-----------------------------------------------------------------------------
Init ==
    /\ alive = TRUE
    /\ writeLockMutex = NoThread
    /\ readLockMutex = NoThread
    /\ readLockedFiles = <<>>
    /\ writeLockedFiles = [f \in Files |-> 0]
    /\ waiters = {}
    /\ exists = {}
    /\ pc = [t \in Threads |-> "idle"]
    /\ arg = [t \in Threads |-> CHOOSE f \in Files : TRUE]    \* no call yet
    /\ of = [t \in Threads |-> "unset"]
    /\ seg = [t \in Threads |-> CHOOSE s \in Segments : TRUE]
    /\ calls = [t \in Threads |-> 0]
    /\ leaked = [f \in Files |-> 0]

\* A caller enters the public interface with file name f.
Call(t, f, label) ==
    /\ pc[t] = "idle"
    /\ calls[t] < MaxCalls
    /\ calls' = [calls EXCEPT ![t] = @ + 1]
    /\ arg' = [arg EXCEPT ![t] = f]
    /\ Goto(t, label)
    /\ UNCHANGED <<alive, mutexes, locks, exists, of, seg, leaked>>

StoreSegmentToFile(t, f) == t \in Writers /\ Call(t, f, "writeLock")
ReadLock(t, f) == t \in Readers /\ Call(t, f, "readLock")

\* The menu creates (or truncates) a file; no lock is taken.
CreateLocalFile(f) ==
    /\ exists' = exists \cup {f}
    /\ UNCHANGED <<alive, mutexes, locks, pc, callVars, leaked>>

-----------------------------------------------------------------------------
(* writeLock                                                                *)

WriteLockTakeWrite(t) ==
    /\ pc[t] = "writeLock"
    /\ writeLockMutex = NoThread
    /\ writeLockMutex' = t
    /\ Goto(t, "wlRead")
    /\ UNCHANGED <<alive, readLockMutex, locks, exists, callVars, leaked>>

WriteLockTakeRead(t) ==
    /\ pc[t] = "wlRead"
    /\ readLockMutex = NoThread
    /\ readLockMutex' = t
    /\ Goto(t, "wlScan")
    /\ UNCHANGED <<alive, writeLockMutex, locks, exists, callVars, leaked>>

\* Mutant: a write lock, too, makes a writer wait.
Mut_WriteLockExclusive(t) ==
    /\ pc[t] = "wlScan"
    /\ ReadLocked(arg[t]) \/ writeLockedFiles[arg[t]] > 0
    /\ readLockMutex' = NoThread
    /\ writeLockMutex' = NoThread
    /\ Goto(t, "writeGap")
    /\ UNCHANGED <<alive, locks, exists, callVars, leaked>>

\* The file is read-locked: both mutexes are given up, then the thread sleeps.
WriteLockRefused(t) ==
    /\ pc[t] = "wlScan"
    /\ ReadLocked(arg[t])
    /\ readLockMutex' = NoThread
    /\ writeLockMutex' = NoThread
    /\ Goto(t, "writeGap")
    /\ UNCHANGED <<alive, locks, exists, callVars, leaked>>

\* Mutant: readLockMutex is not released on the way out.
Mut_WriteLockKeepsRead(t) ==
    /\ pc[t] = "wlScan"
    /\ ~ReadLocked(arg[t])
    /\ Goto(t, "wlPush")
    /\ UNCHANGED <<alive, mutexes, locks, exists, callVars, leaked>>

\* Nobody reads the file.  Other writers of it are not looked for.
WriteLockGranted(t) ==
    /\ pc[t] = "wlScan"
    /\ ~ReadLocked(arg[t])
    /\ readLockMutex' = NoThread
    /\ Goto(t, "wlPush")
    /\ UNCHANGED <<alive, writeLockMutex, locks, exists, callVars, leaked>>

WriteLockPush(t) ==
    /\ pc[t] = "wlPush"
    /\ writeLockedFiles' = [writeLockedFiles EXCEPT ![arg[t]] = @ + 1]
    /\ writeLockMutex' = NoThread
    /\ Goto(t, "storing")
    /\ UNCHANGED <<alive, readLockMutex, readLockedFiles, waiters, exists,
                   callVars, leaked>>

-----------------------------------------------------------------------------
(* condVariable, for both lock operations                                   *)

EnterWait(t) ==
    /\ \/ pc[t] = "writeGap" /\ Goto(t, "writeWait")
       \/ pc[t] = "readGap"  /\ Goto(t, "readWait")
    /\ waiters' = waiters \cup {t}
    /\ UNCHANGED <<alive, mutexes, readLockedFiles, writeLockedFiles, exists,
                   callVars, leaked>>

\* Mutant: after its wait a writer locks readLockMutex first, then writeLockMutex.
Mut_RelockInOtherOrder(t) ==
    /\ t \notin waiters
    /\ \/ /\ pc[t] = "writeWait" /\ readLockMutex = NoThread
          /\ readLockMutex' = t
          /\ UNCHANGED <<pc, writeLockMutex>>
       \/ /\ pc[t] = "writeWait" /\ readLockMutex = t /\ writeLockMutex = NoThread
          /\ writeLockMutex' = t
          /\ Goto(t, "wlScan")
          /\ UNCHANGED readLockMutex
       \/ pc[t] = "readWait" /\ Goto(t, "readLock") /\ UNCHANGED mutexes
    /\ UNCHANGED <<alive, locks, exists, callVars, leaked>>

\* A notified thread leaves the wait and locks its mutexes again.
LeaveWait(t) ==
    /\ t \notin waiters
    /\ \/ pc[t] = "writeWait" /\ Goto(t, "writeLock")
       \/ pc[t] = "readWait"  /\ Goto(t, "readLock")
    /\ UNCHANGED <<alive, mutexes, locks, exists, callVars, leaked>>

\* The standard lets a wait return without a notification.
SpuriousWakeup(t) ==
    /\ Spurious
    /\ t \in waiters
    /\ waiters' = waiters \ {t}
    /\ UNCHANGED <<alive, mutexes, readLockedFiles, writeLockedFiles, exists,
                   pc, callVars, leaked>>

-----------------------------------------------------------------------------
(* storeSegmentToFile after writeLock, and writeUnlock                      *)

\* The file could not be opened: the error is logged and the call returns.
StoreFailsToOpen(t) ==
    /\ pc[t] = "storing"
    /\ leaked' = [leaked EXCEPT ![arg[t]] = @ + 1]
    /\ Goto(t, "idle")
    /\ UNCHANGED <<alive, mutexes, locks, exists, callVars>>

StoreWrites(t) ==
    /\ pc[t] = "storing"
    /\ arg[t] \in exists
    /\ Goto(t, "writeUnlock")
    /\ UNCHANGED <<alive, mutexes, locks, exists, callVars, leaked>>

\* Mutant: every occurrence of the name is erased.
Mut_WriteUnlockErasesAll(t) ==
    /\ pc[t] = "writeUnlock"
    /\ writeLockMutex = NoThread
    /\ writeLockedFiles' = [writeLockedFiles EXCEPT ![arg[t]] = 0]
    /\ Goto(t, "notify")
    /\ UNCHANGED <<alive, mutexes, readLockedFiles, waiters, exists, callVars,
                   leaked>>

\* One occurrence of the name is erased under writeLockMutex; if there is
\* none, nobody is notified.
WriteUnlockErases(t) ==
    /\ pc[t] = "writeUnlock"
    /\ writeLockMutex = NoThread
    /\ IF writeLockedFiles[arg[t]] > 0
       THEN /\ writeLockedFiles' = [writeLockedFiles EXCEPT ![arg[t]] = @ - 1]
            /\ Goto(t, "notify")
       ELSE /\ UNCHANGED writeLockedFiles
            /\ Goto(t, "idle")
    /\ UNCHANGED <<alive, mutexes, readLockedFiles, waiters, exists, callVars,
                   leaked>>

WriteUnlockNotifies(t) ==
    /\ pc[t] = "notify"
    /\ waiters' = {}
    /\ Goto(t, "idle")
    /\ UNCHANGED <<alive, mutexes, readLockedFiles, writeLockedFiles, exists,
                   callVars, leaked>>

-----------------------------------------------------------------------------
(* readLock                                                                 *)

\* Under writeLockMutex: a write-locked file puts the reader to sleep, but
\* the mutex is released (170) before the wait is entered (173).
ReadLockRefused(t) ==
    /\ pc[t] = "readLock"
    /\ writeLockMutex = NoThread
    /\ writeLockedFiles[arg[t]] > 0
    /\ Goto(t, "readGap")
    /\ UNCHANGED <<alive, mutexes, locks, exists, callVars, leaked>>

\* Mutant: writeLockedFiles is searched without writeLockMutex.
Mut_ReadLockUnguarded(t) ==
    /\ pc[t] = "readLock"
    /\ writeLockedFiles[arg[t]] = 0
    /\ Goto(t, "rlRead")
    /\ UNCHANGED <<alive, mutexes, locks, exists, callVars, leaked>>

\* The write lock is not held: writeLockMutex is released (178), and only
\* then readLockMutex is asked for (180).
ReadLockPasses(t) ==
    /\ pc[t] = "readLock"
    /\ writeLockMutex = NoThread
    /\ writeLockedFiles[arg[t]] = 0
    /\ Goto(t, "rlRead")
    /\ UNCHANGED <<alive, mutexes, locks, exists, callVars, leaked>>

ReadLockTakeRead(t) ==
    /\ pc[t] = "rlRead"
    /\ readLockMutex = NoThread
    /\ readLockMutex' = t
    /\ Goto(t, "rlScan")
    /\ UNCHANGED <<alive, writeLockMutex, locks, exists, callVars, leaked>>

\* Another reader has the file open: its stream is shared.
ReadLockJoins(t) ==
    /\ pc[t] = "rlScan"
    /\ ReadLocked(arg[t])
    /\ readLockMutex' = NoThread
    /\ Goto(t, "reading")
    /\ UNCHANGED <<alive, writeLockMutex, locks, exists, callVars, leaked>>

\* Mutant: readLockMutex is released between the search and the push_back.
Mut_ReadLockChecksThenActs(t) ==
    /\ pc[t] = "rlScan"
    /\ ~ReadLocked(arg[t])
    /\ readLockMutex' = NoThread
    /\ Goto(t, "rlOpen")
    /\ UNCHANGED <<alive, writeLockMutex, locks, exists, callVars, leaked>>

ReadLockFindsNone(t) ==
    /\ pc[t] = "rlScan"
    /\ ~ReadLocked(arg[t])
    /\ Goto(t, "rlOpen")
    /\ UNCHANGED <<alive, mutexes, locks, exists, callVars, leaked>>

ReadLockOpens(t) ==
    /\ pc[t] = "rlOpen"
    /\ arg[t] \in exists
    /\ readLockedFiles' = Append(readLockedFiles, Entry(arg[t], 0))
    /\ readLockMutex' = NoThread
    /\ Goto(t, "reading")
    /\ UNCHANGED <<alive, writeLockMutex, writeLockedFiles, waiters, exists,
                   callVars, leaked>>

ReadLockFailsToOpen(t) ==
    /\ pc[t] = "rlOpen"
    /\ readLockMutex' = NoThread
    /\ Goto(t, "idle")
    /\ UNCHANGED <<alive, writeLockMutex, locks, exists, callVars, leaked>>

-----------------------------------------------------------------------------
(* getSegment and readUnlock                                                *)

\* Undefined behaviour: the process ends, or the call returns (nullptr or
\* meaningless bytes) as if nothing had happened.
Undefined(t, label) ==
    /\ \/ alive' = FALSE /\ UNCHANGED pc
       \/ alive' = alive /\ Goto(t, label)
    /\ UNCHANGED <<mutexes, locks, exists, leaked>>

\* The entry is looked up under readLockMutex, which is then released: from
\* here on only the raw pointer is used.  Without an entry the pointer is
\* never initialised.
GetSegmentFinds(t, s) ==
    /\ pc[t] = "reading"
    /\ calls[t] < MaxCalls
    /\ readLockMutex = NoThread
    /\ calls' = [calls EXCEPT ![t] = @ + 1]
    /\ seg' = [seg EXCEPT ![t] = s]
    /\ UNCHANGED arg
    /\ IF ReadLocked(arg[t])
       THEN /\ of' = [of EXCEPT ![t] = "valid"]
            /\ Goto(t, "seek")
            /\ UNCHANGED <<alive, mutexes, locks, exists, leaked>>
       ELSE /\ UNCHANGED of
            /\ Undefined(t, "reading")

\* The position of the stream behind f's entry.
StreamPos(f) ==
    readLockedFiles[CHOOSE i \in EntriesOf(f) : TRUE].pos

SetStreamPos(f, p) ==
    readLockedFiles' = [i \in DOMAIN readLockedFiles |->
        IF readLockedFiles[i].file = f THEN Entry(f, p) ELSE readLockedFiles[i]]

GetSegmentSeeks(t) ==
    /\ pc[t] = "seek"
    /\ of[t] = "valid"
    /\ SetStreamPos(arg[t], seg[t])
    /\ Goto(t, "tell")
    /\ UNCHANGED <<alive, mutexes, writeLockedFiles, waiters, exists,
                   callVars, leaked>>

\* A position other than the one asked for: nullptr.
GetSegmentTells(t) ==
    /\ pc[t] = "tell"
    /\ of[t] = "valid"
    /\ IF StreamPos(arg[t]) = seg[t]
       THEN Goto(t, "fetch") /\ UNCHANGED of
       ELSE Goto(t, "reading") /\ of' = [of EXCEPT ![t] = "unset"]
    /\ UNCHANGED <<alive, mutexes, locks, exists, arg, seg, calls, leaked>>

\* The bytes at the stream's position are returned and the position moves on.
GetSegmentReads(t) ==
    /\ pc[t] = "fetch"
    /\ of[t] = "valid"
    /\ SetStreamPos(arg[t], StreamPos(arg[t]) + 1)
    /\ of' = [of EXCEPT ![t] = "unset"]
    /\ Goto(t, "reading")
    /\ UNCHANGED <<alive, mutexes, writeLockedFiles, waiters, exists,
                   arg, seg, calls, leaked>>

\* Another reader's readUnlock deleted the OpenedFile in the meantime.
GetSegmentUsesDeleted(t) ==
    /\ pc[t] \in {"seek", "tell", "fetch"}
    /\ of[t] = "deleted"
    /\ Undefined(t, "reading")
    /\ of' = [of EXCEPT ![t] = "unset"]
    /\ UNCHANGED <<arg, seg, calls>>

\* Mutant: the stream is closed but its entry stays in the vector.
Mut_ReadUnlockKeepsEntry(t) ==
    /\ pc[t] = "reading"
    /\ readLockMutex = NoThread
    /\ Goto(t, "idle")
    /\ UNCHANGED <<alive, mutexes, locks, exists, callVars, leaked>>

\* Mutant: only the last reader of a file closes it.
Mut_ReadUnlockLast(t) ==
    /\ pc[t] = "reading"
    /\ readLockMutex = NoThread
    /\ readLockedFiles' =
         IF \E u \in Readers \ {t} : arg[u] = arg[t] /\ pc[u] \in SessionPcs
         THEN readLockedFiles
         ELSE SelectSeq(readLockedFiles, LAMBDA e : e.file # arg[t])
    /\ Goto(t, "idle")
    /\ UNCHANGED <<alive, mutexes, writeLockedFiles, waiters, exists, callVars,
                   leaked>>

\* The entry is closed, deleted and erased, whoever else reads the file.
\* Erasing the last element leaves the loop's iterator at end(), from where
\* it is advanced and dereferenced without bound.  Nobody is notified.
ReadUnlock(t) ==
    /\ pc[t] = "reading"
    /\ readLockMutex = NoThread
    /\ \/ \E i \in EntriesOf(arg[t]) :
            IF i = Len(readLockedFiles)
            THEN /\ alive' = FALSE
                 /\ UNCHANGED <<readLockedFiles, of, pc>>
            ELSE /\ readLockedFiles' = RemoveAt(readLockedFiles, i)
                 /\ of' = [u \in Threads |->
                             IF arg[u] = arg[t] /\ of[u] = "valid"
                             THEN "deleted" ELSE of[u]]
                 /\ Goto(t, "idle")
                 /\ UNCHANGED alive
       \/ /\ ~ReadLocked(arg[t])
          /\ Goto(t, "idle")
          /\ UNCHANGED <<alive, readLockedFiles, of>>
    /\ UNCHANGED <<mutexes, writeLockedFiles, waiters, exists, arg, seg, calls,
                   leaked>>

-----------------------------------------------------------------------------
\* The calls of the public interface.
Calls(t) ==
    \/ \E f \in Files : StoreSegmentToFile(t, f) \/ ReadLock(t, f)
    \/ \E s \in Segments : GetSegmentFinds(t, s)
    \/ ReadUnlock(t)

\* The steps a thread takes on its own once it is inside a call.
Step(t) ==
    \/ WriteLockTakeWrite(t) \/ WriteLockTakeRead(t)
    \/ WriteLockRefused(t) \/ WriteLockGranted(t) \/ WriteLockPush(t)
    \/ EnterWait(t) \/ LeaveWait(t)
    \/ StoreFailsToOpen(t) \/ StoreWrites(t)
    \/ WriteUnlockErases(t) \/ WriteUnlockNotifies(t)
    \/ ReadLockRefused(t) \/ ReadLockPasses(t) \/ ReadLockTakeRead(t)
    \/ ReadLockJoins(t) \/ ReadLockFindsNone(t)
    \/ ReadLockOpens(t) \/ ReadLockFailsToOpen(t)
    \/ GetSegmentSeeks(t) \/ GetSegmentTells(t) \/ GetSegmentReads(t)
    \/ GetSegmentUsesDeleted(t)

Next ==
    /\ alive
    /\ \/ \E t \in Threads :
            \/ Step(t)
            \/ Calls(t)
            \/ SpuriousWakeup(t)
       \/ \E f \in Files : CreateLocalFile(f)

Spec == Init /\ [][Next]_vars

\* The operating system runs every thread that can run, and a mutex that stays
\* free is obtained.  Nothing obliges a caller to call (or to end its read
\* session), or a wait to return unnotified.
Fairness == \A t \in Threads : WF_vars(alive /\ Step(t))

FairSpec == Spec /\ Fairness

-----------------------------------------------------------------------------
(* Properties                                                               *)

\* Every variable has its type.
TypeOK ==
    /\ alive \in BOOLEAN
    /\ writeLockMutex \in Threads \cup {NoThread}
    /\ readLockMutex \in Threads \cup {NoThread}
    /\ readLockedFiles \in Seq([file : Files, pos : Nat])
    /\ writeLockedFiles \in [Files -> Nat]
    /\ waiters \subseteq Threads
    /\ exists \subseteq Files
    /\ pc \in [Threads -> PCs]
    /\ arg \in [Threads -> Files]
    /\ of \in [Threads -> {"unset", "valid", "deleted"}]
    /\ seg \in [Threads -> Segments]
    /\ calls \in [Threads -> 0 .. MaxCalls]
    /\ leaked \in [Files -> Nat]

\* The hand-written lock()/unlock() pairs of readLock, writeLock and
\* writeUnlock balance on every path: a thread owns exactly the mutexes that
\* its place in the code says, so none sleeps or returns with one.
MutexesBalanced ==
    \A t \in Threads :
        /\ writeLockMutex = t <=> pc[t] \in OwnsWrite
        /\ readLockMutex = t <=> pc[t] \in OwnsRead

\* Concurrent readLock calls never open one file twice, although each of them
\* searches the vector first and appends to it later.
OneEntryPerFile ==
    \A i, j \in DOMAIN readLockedFiles :
        readLockedFiles[i].file = readLockedFiles[j].file => i = j

\* A file is never left read-locked (which would stop its writers for ever)
\* once all its read sessions have ended, in whatever order readers joined and
\* left, and however often readUnlock found the entry already erased.
EntryHasSession ==
    \A i \in DOMAIN readLockedFiles :
        \E t \in Threads : /\ arg[t] = readLockedFiles[i].file
                           /\ pc[t] \in SessionPcs

\* The threads that store to f under its write lock.
Storing(f) == {t \in Threads : arg[t] = f /\ pc[t] \in StorePcs}

\* writeLockedFiles holds one occurrence of a name for every store in progress
\* and one for every store that failed to open its file, so a writeUnlock
\* always finds an occurrence and never takes that of another writer.
WriteLocksAccounted ==
    \A f \in Files :
        writeLockedFiles[f] = Cardinality(Storing(f)) + leaked[f]

\* Nested locking of the two mutexes never ends in a circular wait, and none is
\* kept across a sleep on the condition variable: each of them is free again and
\* again.
MutexesReleased ==
    /\ []<>(writeLockMutex = NoThread \/ ~alive)
    /\ []<>(readLockMutex = NoThread \/ ~alive)

\* A storeSegmentToFile that finds its file unread, and whose file stays unread,
\* returns, even where an earlier store of the file returned without its
\* writeUnlock and whatever other writers and the readers of other files do.
\* (Once it sleeps for a reader nothing is promised: readUnlock notifies nobody.)
StoreReturns ==
    \A t \in Writers :
        (pc[t] = "writeLock" /\ []~ReadLocked(arg[t])) ~> (pc[t] = "idle" \/ ~alive)

\* getSegment returns the segment it was asked for to a reader that has the file
\* to itself now, although others may have moved the shared stream since the seek:
\* their leaving has closed it.
ReadsOwnSegment ==
    \A t \in Readers :
        /\ pc[t] = "fetch"
        /\ of[t] = "valid"
        /\ \A u \in Readers \ {t} : arg[u] = arg[t] => pc[u] \notin SessionPcs
        => StreamPos(arg[t]) = seg[t]

\* Between the check of ReadLockPasses and its session a reader is admitted.
AdmittedTo(t) == IF pc[t] \in {"rlRead", "rlScan", "rlOpen"} THEN {arg[t]} ELSE {}

SessionOn(t) == IF pc[t] \in SessionPcs THEN {arg[t]} ELSE {}

\* A store has begun with the check of WriteLockGranted.
StoresBegun(f) ==
    writeLockedFiles[f] + IF \E t \in Threads : pc[t] = "wlPush" /\ arg[t] = f
                          THEN 1 ELSE 0

\* The hand-made lock, with its two mutexes, two vectors and one condition variable
\* and whatever its threads do in between, is a FileLocks: both checks are atomic
\* with respect to every change of what they look at, every lock that is given back
\* had been obtained, and a readUnlock closes just the file it was called for.
Locks == INSTANCE FileLocks WITH
    open <- {f \in Files : ReadLocked(f)},
    stores <- [f \in Files |-> StoresBegun(f)],
    admitted <- [t \in Threads |-> AdmittedTo(t)],
    reading <- [t \in Threads |-> SessionOn(t)]

ImplementsFileLocks == Locks!LocksSpec

\* The comments at FileManager.cpp:184 ("multiple readers allowed") and 191 ("not
\* readLocked nor writeLocked" when a reader opens the file): as long as a read
\* session lasts, the file is read-locked and nobody stores to it.
SessionKeepsLock ==
    \A t \in Readers :
        pc[t] \in SessionPcs => ReadLocked(arg[t]) /\ Storing(arg[t]) = {}
=============================================================================
