# TLA+ models of p2p-network

A verification project for the two programs of this repository: the peer-to-peer
`client` (`src/src/client`) and the `server`, its tracker (`src/src/server`), which
talk protobuf over TCP (`src/src/shared`).  All line numbers below are those of the
files at this commit; `PROJECT.json` maps every definition to its lines.

## 1. Inventory

### Client

| component | state | operations | hard behaviour | what makes it correct |
|---|---|---|---|---|
| `FileManager` | `readLockedFiles` (open streams), `writeLockedFiles`, two mutexes, a condition variable | `storeSegmentToFile`, `storeFile`, `createLocalFile`, `readLock`, `getSegment`, `readUnlock` | several threads in a hand-made readers/writer lock; raw pointers used after unlocking; waits without a predicate; an error path that skips the unlock | mutexes balance on every path, one entry per file, every lock has an owner, stores return |
| `File`, `Segment` | state of every segment, cached `isCompleted`, peers | `tryToSetStateSegmentStateToDownload`, `setSegmentState`, `isComplete`, `addPeer` | claimed and resolved by concurrent workers, polled by the manager | claims are exclusive, COMPLETE is final, the cached answer is never stale |
| `DownloadWorker` | a peer, `finished` | `startWorker`, `work` | one thread per peer on one `File`; refusals, time-outs and failed stores in any order | every claim is resolved, the worker ends, a segment is stored before it is COMPLETE |
| `DownloadManager` | vectors of workers and threads | `updatePeersAndStartWorkers`, `manageWorkers`, `joinWorkers` | workers run while their vector grows; polling every 30 s | the download ends, every worker is joined |
| `BaseSocket`, `CSocket`, `SSocket` | descriptor, `select` set and time-out, receive buffer, `lastMsg`, `state` | `start`, `send`, `receive`, one method per request | late answers, split reads, time-outs that are not re-armed | an answer is the answer to its request |
| `ResponderThread` | connection, receive buffer | `run`, `respond` | one thread per connection | an answer states what the client has |
| `Database` | vector of `File`s, its file on disk | `addFile`, `getFile`, `loadFromFile`, `saveToFile` | copies, partial files | what was saved is loaded |
| `main` (menu) | the menu loop, a manager on its stack | five choices | the manager's thread outlives the manager | a download started is a download running |

### Tracker

| component | state | operations | hard behaviour | what makes it correct |
|---|---|---|---|---|
| `main` (accept loop) | `args` on its stack, the `Database` | accept, create a thread | the thread reads `args` after the next connection has overwritten it | every connection has its own thread |
| `TrackerThread` | connection, receive buffer | `run`, `respond`, `handleSeedNotification` | several threads on one `Database` | an answer follows from what clients registered |
| `Database`, `ClientInfo` | clients, torrents, a `shared_mutex` | `addTorrent`, `addTorrentToClient`, `getClientsWith`, `isHashUnique`, ... | lock used twice by one thread, state handed out without it | hashes are unique, a registered client is found |

### How they interact

A `DownloadManager` asks the tracker for peers (`SSocket`), puts them into the
`File` and runs one `DownloadWorker` thread for each.  The workers share the `File`
(under `fileMutex`) and the `FileManager` (under its own locks); each has a
`CSocket` to a peer's `ResponderThread`.  The menu creates the local file through a
`FileManager` of its own, which shares nothing with the manager's but the disk.  On
the tracker one `TrackerThread` per connection works on the one `Database`.

### What is hard here

* Locks written by hand (`lock`/`unlock` pairs over several paths) in `FileManager`
  and in the tracker's `Database`.
* Raw pointers and references that outlive the lock, the stack frame or the vector
  that they point into (`getSegment`, the accept loop's `args`, `DownloadManager`).
* A condition variable that is waited for without a predicate, and released locks
  before the wait.
* A request protocol without request identifiers over a byte stream without message
  boundaries, with a time-out that is set only once.
* A download whose workers compete for segments, along lists that peers send and
  nobody checks.
* `int` arithmetic on a size that a torrent holds as an unsigned number.

`PROJECT.json` lists each hazard at its line with the properties aimed at it, or
with the reason why there is none.

## 2. Modules

| module | models | TLC instance | proofs |
|---|---|---|---|
| `FileLocks` | what the locks of a `FileManager` promise (abstract) | used by `FileManager` | |
| `FileManager` | `FileManager.{h,cpp}`: locks and sessions | `MCFileManager` | `FileManagerProofs` |
| `SegmentLedger` | what a `File` promises (abstract) | used by `SegmentDownload` | |
| `SegmentDownload` | `File.cpp`, `DownloadWorker.cpp`, the lists of `CSocket.cpp`, the disk | `MCSegmentDownload` | `SegmentDownloadProofs` |
| `DownloadManager` | `DownloadManager.cpp`, the seed list of `SSocket.cpp`, choice 3 of the menu | `MCDownloadManager` | `DownloadManagerProofs` |
| `FileLayout` | `generateSegments`, offsets and the local file's length | `MCFileLayout` | `FileLayoutProofs` |
| `ClientDatabase` | the client's `Database.cpp`, torrent files, choices 1, 3, 5 of the menu | `MCClientDatabase` | |
| `Requests` | what a connection promises the worker that asks on it (abstract) | used by `PeerSocket` | |
| `PeerSocket` | `BaseSocket.cpp`, `CSocket.cpp`, the peer's `ResponderThread` | `MCPeerSocket` | `PeerSocketProofs` |
| `Tracker` | the tracker's `main.cpp`, `TrackerThread.cpp`, the lock of its `Database` | `MCTracker` | `TrackerProofs` |

Definitions whose names begin with `Mut_` are variants of the definition that
follows them, with a plausible mistake.  They are part of no specification; they
show that a property can be broken.

### FileManager and FileLocks

A thread (`Readers`, `Writers`) is at a place `pc[t]` inside a call with the file
name `arg[t]`.  Between two places it is pre-empted; each action touches what is
shared once.

* `writeLock` (223-257) is `WriteLockTakeWrite`, `WriteLockTakeRead`, then
  `WriteLockRefused` (both mutexes are unlocked, the thread goes to sleep) or
  `WriteLockGranted` and `WriteLockPush`.
* The wait has three steps, because the code unlocks the mutexes *before* it locks
  `condVariableMutex`: the thread is first in a gap (`writeGap`, `readGap`), enters
  the wait (`EnterWait`), and leaves it after a notification or spuriously.
* `storeSegmentToFile` is `StoreSegmentToFile`, the lock, `StoreWrites` or
  `StoreFailsToOpen` (63: returns without `writeUnlock`), then `WriteUnlockErases`
  and `WriteUnlockNotifies`.
* `readLock` looks at `writeLockedFiles` (`ReadLockRefused`, `ReadLockPasses`), gives
  that mutex up, takes the other one and joins, opens or fails.
* `getSegment` is `GetSegmentFinds` (the pointer `of` is taken under the mutex) and
  the unprotected `GetSegmentSeeks`, `GetSegmentTells`, `GetSegmentReads`.  A pointer
  to an entry that another reader has deleted (`GetSegmentUsesDeleted`) and an
  uninitialised one are undefined behaviour: the process ends or goes on.
* `ReadUnlock` erases from the vector that it walks along.  If the entry is the last one,
  the iterator is at `end()` after the `erase`, `++f` takes it past that, and the loop (212)
  has no bound any more: the process ends, which is the only outcome in the model.  An
  entry with another one behind it is taken away in a process that goes on, so what a
  session leaves to others shows with two files only.

`writeLockedFiles` is a count per name, since the vector is only searched for a name,
appended to and has one occurrence erased.  The bytes are left out; the position of
the shared stream is kept.  In the program today the workers call
`storeSegmentToFile` only: `readLock`, `getSegment` and `readUnlock` are public and
have no caller yet.  The runs with readers show what the interface does when the
responder comes to use it.

`FileLocks` is the abstract view, one step where the code has many: the files that are
open for reading, the number of stores to each, and what each thread has been admitted to
and reads.  A store begins only while the file is not open, a reader is admitted only while
nobody stores; the gap between its admission and its opening of the file (178 to 180) is in
`FileLocks`, too, since the code has it.  `Locks` is the refinement mapping.  A store begins
where the search under both mutexes has found no reader (`WriteLockGranted`), not where the
name is appended: `StoresBegun` counts the thread at `wlPush`, and what makes the two agree is
that this thread still owns `writeLockMutex`.  A reader is `AdmittedTo` its file between
`ReadLockPasses` and its session.

### SegmentDownload and SegmentLedger

`File`'s methods are single steps under `fileMutex`.  `work()` is the sequence
`Connects`, `ReceivesList`, then for each number of the list `Claims` or `Skips`,
`ReceivesFragment`, `Releases` or `Stores` and `Completes`, then `Finishes`.  An answer
is one of `bytes`, `none` (any file code but `F_ERROR` without the whole fragment:
`work()` stores it, and 8000 bytes are written all the same) and `error`
(`requestFragment` makes this of a time-out, a closed connection or a wrong code).
`disk` is what the local file holds where a segment belongs.  `IsComplete` may be asked
at any time; `CreateLocalFile` is menu choice 2.  The constructor of `DownloadWorker` is
taken to have worked (it reads `file1` after moving from it, `DownloadWorker.cpp:68`).

The list is what the peer sent.  Neither `requestFragmentsList` (`CSocket.cpp:18-24`) nor
`work()` (`DownloadWorker.cpp:35`) nor `File` (`File.cpp:12`, 21) checks a number, so `todo` counts
how often each is still to come, and `Numbers` has more than `Segments`.  A number twice is
looked at twice, and claimed again if its segment is `FREE` by then.  One of `Others`
indexes `segments` out of its bounds: what is there may read as `FREE`, and the fragment is
asked for and stored (`Claims`), it may read as something else (`Skips`), or there is nothing
to read or write (`Faults` ends the process, `alive`).  The store of such a number goes to a place
behind the file's segments, unless the `int` product of `FileManager.cpp:69` overflows: then it
may hit any of them (`hit` in `Stores`).  What `Writes` of such a number changes in memory behind
the vector is not in the model; it could be anything that the process keeps there.  (How the
list is walked is not modelled: `todo` is a bag, so every order is covered.)

Nothing of a `File` outlives the process.  The one that the database hands out after a
restart has no segments (`ClientDatabase`); with `Segments = {}` this module is about it.

`SegmentLedger` is the abstract view: `FREE`, claimed, `FREE` again or `COMPLETE` for
good, announced only when all are `COMPLETE`, no claim for ever, and an end of it all (`End`).
Its variables are the `segState`, `isCompleted` and `alive` of the detailed module (`Ledger`, the
refinement mapping of the `INSTANCE ... WITH`).

### DownloadManager

The manager's thread is at `pc`: it asks the tracker (`update`), goes over the answer
(`add`), over its copy of the `File`'s peers (`start`), then over its workers (`check`,
`ask`), and joins (`join`).  `sleep(30)` is any delay between `ask` and `update`.

* `peers` is `File::peers`.  `addPeersToFile` (87-100) is `AddsPeerToFile`, once per
  address.  `getPeers` returns a copy, so that `find_if` gets its `begin` and two `end`s
  from three different vectors: for an empty list all three are null and nothing is
  found; an address that is in the list is found, and added once more; for any other the
  search runs off the copy, and ends anywhere or crashes.
* `workers` and `worker_threads` grow together.  `workers[k].object` says whether the
  `DownloadWorker` that thread `k` runs on is still there: `Pushed` copies the elements of a
  full vector and frees them under the threads.  `WorkReturns` then writes `finished` into
  freed memory, and the vector's copy keeps `FALSE` for ever.
* `SamePeer` is the comparison of 84.  A peer has an address of one family and the empty
  string for the other, so any two peers of one family are taken for the same: a manager
  starts a worker for the first peer of each family, unless they come in one poll
  (`myPeers` is not updated while workers are started).
* `StartsWorker` has the constructor of `DownloadWorker`, which asks the `shared_ptr` that
  it has just moved from for its torrent (`DownloadWorker.cpp:68`).
* `CallerReturns` is the end of the block of choice 3: `dm` and `dmThread` are destroyed
  with the thread joinable, which is `std::terminate`.

### FileLayout

Integers as the program has them: a torrent's size is below `2 * IntLimit`, and `ToInt` is
what an `int` makes of it (`File::size`, and the product in `seekp`).  `Quotient` and `Divides`
round towards zero, as C++ does for negative sizes.  `length` is the local file's: zeros
from `CreateLocalFile` (as many as the unsigned size says), and a `StoreSegment` always
writes `SegmentSize` bytes at `Offset`.  `numOfSegments` is taken from the vector at the
end of the constructor, as in the code.

### ClientDatabase

`files` are the torrents of the `File`s in the vector, by the path of their torrent file;
`Blank` has none.  `CopyOf` is `File`'s copy constructor (`File.cpp:48`), an empty body.  `saved`
is the database file: a count, and the paths that were written.  When the count is larger,
`loadFromFile` reads behind the end: `nameSize` keeps what was on the stack.  `added`,
`savedAdded` and `expected` remember what was handed to `addFile`, so that `SavedIsLoaded` can
say what the repository's test says.  `ChangesTorrentFile` is the user, outside of the
program.

### PeerSocket and Requests

One connection: the client's `pc`, `state`, `armed` (whether the descriptor is in
`sockSelectSet`) and `budget` (what is left in `recvTimeout`); the two directions
`toPeer`, `toClient`, and `arrived`, the unread bytes in the client's kernel.  `Send`
sets `SENT` even after an error and dies of `SIGPIPE` on a connection that is down.
`Tick` and `SelectTimesOut` are `select` as Linux has it: the remaining time is written
back, and the set is cleared at the time-out.  `Receives` takes *all* that has arrived
for one message.  `PeerAnswers` is one `recv` of the `ResponderThread`, which may take
several requests together and answers the last.

`Requests` is what is left of it for the worker: requests one at a time, each returning
its own answer or nothing, and no answer after a time-out.  Its `usable` is `armed`, and
whose answer a request has is the `req` of its result (`Asked`, the refinement mapping).

### Tracker

Threads and connections are numbered in the order of `accept`.  `Accept` writes `args`
and creates a thread; `Start` is the moment the thread reads `args`, whatever it holds by
then.  A descriptor is a number that `fds` maps to a connection, and that is free again
after `Close`; a thread inside `recv` keeps to its connection (`sock`), but every later
call goes by the number.  `Handler` is `respond`'s choice by message code.  The mutex of the
`Database` is `writer` and `readers`.  `IsHashUnique`, called by `addTorrent` with the
exclusive lock held, asks for the shared lock of the same thread: an exception that
nobody catches (`aborted`) or a wait for ever (`stuck`).  For this reason no torrent and no
client is ever recorded, and the vectors of the database are not part of the state.

### How they compose

`SegmentDownload` uses what `FileManager` shows (a store returns, and takes its own write
lock away) by making a store one step, and what `PeerSocket` shows (every request
returns) by fairness of a worker's steps.  `Answers` of `SegmentDownload` are the outcomes of
`PeerSocket`'s requests, as `Requests` has them: the fragment that was asked for, or none (when answers come in one piece).  `FileLayout` says where the segments that `SegmentDownload` only names
lie in the local file.  `DownloadManager` has the workers of `SegmentDownload` as threads that
end (`WorkersFinish`) or throw, and the `File` as the answer of its `isComplete`, which
`CompletedIsFinal` allows: once true it stays true.  `ClientDatabase` decides which
`File` a manager gets; `GivenPeers` of `DownloadManager` are the peers that this `File` may
have, which in the program today are none.

## 3. Runs

| run | question and result |
|---|---|
| `filemanager_safety` | Three readers and a writer on two files, two calls each, with spurious wake-ups: are the mutexes balanced, entries unique and accounted for, and does a reader that has a stream to itself read what it asked for, while others open, read and leave?  Yes: `MutexesBalanced`, `OneEntryPerFile`, `EntryHasSession`, `ReadsOwnSegment`, and the refinement of `FileLocks` (`ImplementsFileLocks`). |
| `filemanager_stores` | A reader and two writers on two files, so that both writers may be at one; any store may fail to open its file and leak its lock.  Every write lock is that of a store in progress or of one that failed (`WriteLocksAccounted`), every mutex that is taken is given back, so there is no circular wait (`MutexesReleased`), and a store whose file is and stays unread returns, whatever other stores and the reader of the other file do (`StoreReturns`).  Of a store that waits for a reader nothing of the kind holds, as `readUnlock` does not notify. |
| `filemanager_session` | Does a file stay read-locked, and unwritten, as long as a session lasts, as the comments at 184 and 191 say?  No: a writer comes in between 178 and 180. |
| `download_safety` | Two workers with lists that have a number twice or one that is no segment's, any answers, a re-created file at any time: `ExclusiveClaim`, `ClaimsMatch`, `CompletedIsFinal`, `CompleteIsStored`, `StoredBytesKept` (bytes are lost only to a re-creation, or to an offset that overflowed), `MissingWasTried`, `WorkersFinish`, and the refinement of `SegmentLedger` with its liveness (`ImplementsLedger`). |
| `manager_safety` | Polls with any answers, workers that end or throw at any time while their vector moves: no entry of the list gets two workers (`OneWorkerPerPeer`; an address that is in it twice may), the end of a worker is missed only for a cause (`UnnoticedForCause`), the manager ends unless one is missed and the file stays incomplete (`ManagerEnds`), and leaves no thread behind (`NoThreadLeft`). |
| `manager_tracker` | Does a download get a worker for a peer that the tracker reports, as UC2 of the documentation says (`doc/projekt-koncowy.tex:150`)?  No: `addPeersToFile` adds only what the list has already (89), so a list without peers stays empty, and the manager ends (`ReportedPeerGetsWorker`). |
| `layout_safety` | Every torrent size, any order of stores and re-creations: `OffsetsInFile`, `LengthFits`, `CompletedIsCovered`. |
| `database_test` | Is a file that was added, saved and loaded the one that is found, as the repository's test says?  No: `addFile` keeps a blank copy (`SavedIsLoaded`). |
| `peersocket_safety` | Answers in one piece, late or never, a peer that closes or resets: `AnswerMatchesRequest`, the connection is a `Requests` (`ImplementsRequests`), and every request returns (`RequestsReturn`). |
| `peersocket_pieces` | The same with answers in two pieces: an answer is returned to the wrong request. |
| `tracker_safety` | `ExitsForCause`, `AnswersReachAsker`, `NoDescriptorLost` (as long as threads find their own argument); every message is received and every descriptor given back while the tracker is healthy (`MessagesReceived`, `DescriptorsReturned`). |
| `tracker_arguments` | Does every client get its own thread?  No: `args` is overwritten before it is read. |

The runs that find a violation are listed under `findings` in `PROJECT.json`, with
the sentence of the repository that they contradict.

### Bounds and why they are enough

* `FileManager`: in `filemanager_safety` two readers may be at one file and a third at the
  other, whose entry is behind theirs.  Only then does a session end in a process that goes
  on (the entry that is last takes the process with it), and leave something to
  others: a stream that is still open, a pointer to what is deleted.  Two calls are a
  session and a `getSegment`, or a session before another one.  One writer conflicts
  with readers; what writers do to each other is `filemanager_stores`, where two of them may
  hold an occurrence of one name each, and the reader is at one file while they are at the
  other.  One segment is enough to tell the position that was asked for from another one,
  as every read moves it.  The symmetry of `filemanager_safety` exchanges readers, and files.
* `SegmentDownload`: two workers compete, two segments tell a worker's own segment from
  another one and make *all* differ from *some*.  Of the three lists one has each segment
  once, one has a segment twice, so that it can be claimed again after a release, and one has a
  number that is no segment's; any list may also be missing (`EmptyList`).
* `DownloadManager`: two addresses of one family and one of the other make equal and
  different peers for `SamePeer`; the lists given have none, one of each, two of one and three
  peers.  `MaxPeers = 4` lets a vector of capacity 1, 2 and 4 be filled, and leave an old
  worker unmoved by a push; `MaxAnswer = 2` has a peer of each family in one answer.
  `manager_tracker` begins without peers and has one address of each family, so that nothing
  but line 89 keeps a reported peer from its worker.
* `FileLayout`: `IntLimit = 16` and `SegmentSize = 3`, which divides neither 16 nor 32: every
  size is an initial state, so that exact multiples, rests, negative sizes that make one
  segment or none and the last `int` are all there.  The theorems are for every width.
* `ClientDatabase`: one torrent is enough for the violation; the second makes lists.
* `PeerSocket`: six requests (the list and five fragments) against a time-out of four
  ticks, so that it can be used up by several requests before the last one.  The mix-up with
  two pieces needs two fragments.
* `Tracker`: two descriptors and three connections make a descriptor be given out
  again; two messages let one client be answered while another holds the lock.
  `ThreadLimit` is also the real limit that the un-joined threads run into.

Deadlock is not checked: calls, requests and connections are bounded, and a download
ends, so every instance comes to rest.  Where waiting for ever would be wrong, a liveness
property says so (`MutexesReleased`, `StoreReturns`, `WorkersFinish`, `ManagerEnds`,
`RequestsReturn`, `MessagesReceived`).

### Fairness

* `FileManager`: weak fairness of each thread's steps inside a call.  The operating
  system schedules every thread, and no call is obliged to begin nor a read session to
  end.  `std::mutex` is not fair, which weak fairness respects; that a thread gets it in
  the end rests on `MaxCalls`, as a worker makes finitely many calls.
* `SegmentDownload`: weak fairness of a started worker.  Its calls return: `connect` by
  the kernel's time-out, `receive` by `RequestsReturn`, a store by `StoreReturns`.
* `DownloadManager`: weak fairness of the manager and of each worker's end.  `sleep` and the
  requests to the tracker return (`RequestsReturn`), a worker ends by `WorkersFinish`.  The
  tracker, the completion of the file and the caller owe nothing.
* `PeerSocket`: weak fairness of the client, clock included; nothing of the peer or the
  network.
* `Tracker`: weak fairness of each thread; nothing of the clients, nor of `main`.

## 4. Proofs

All theorems are of the specification without fairness and hold for every value of
the constants, under the assumptions next to their declarations (a thread that is
not `NoThread`, finitely many threads, bounds that are natural numbers, lists that fit
them, a segment that is not longer than `int` can say).

* `FileManagerProofs`.  `TypeCorrect`: by `TInv`, as a stream is only moved through a
  valid pointer, and then its entry exists.  `MutexesCorrect`: by `LockInv`.
  `EntriesCorrect` (`OneEntryPerFile`) and `NoEntryLeft` (`EntryHasSession`): by `EntryInv`, whose
  `ScanHolds` adds what the search has found to be so as long as the mutex is held.
  `ReadsCorrect` (`ReadsOwnSegment`): by `StreamInv`, that the pointer a lone reader has taken
  is that of its file's only entry, and that from its `seekg` on the stream stays where it put
  it.  `AccountCorrect`: by `AccountInv`; one lemma says how the set of storing threads
  changes, with the cardinality theorems of the library.
  `FileLocksImplemented` (`ImplementsFileLocks`): by `EntryInv`; one lemma per kind of step
  (`GrantBegins`, `UnlockEnds`, `PassAdmits`, `SessionBegins`, `OpenFails`, `UnlockCloses`) names
  the step of `FileLocks` that it is, the others are stutters.  `PassAdmits` is where the mutexes
  matter: while a reader is admitted no thread is at `wlPush`, or it would own the mutex
  that the reader has just found free.  `UnlockCloses` needs `OneEntryPerFile`: with two entries
  a `readUnlock` would leave the file open.
  `OwnersGoOn`, the safety part of `MutexesReleased`: a mutex is owned by a thread that needs no
  other one, or the other one is; and an owner's steps to its release (at most three) only
  become fewer.
* `SegmentDownloadProofs`, for any lists of numbers, those of no segment included.
  `TypeCorrect`: with `ClaimNamed`, that `cur` is a number a peer may send while a claim exists; what
  is `todo` never falls below zero.  `ClaimsCorrect` and `NoClaimLost`:
  `ExclusiveClaim` and `ClaimsMatch` are inductive only together, since a worker may resolve a
  segment as its own just because nobody else holds it; a number that is no segment's touches
  no segment's state.  `LedgerImplemented`: every step is a step of `SegmentLedger` or a stutter.
  `CompleteCorrect`, `CompleteHasBytes`: by `DataInv`, which adds that an untainted segment at its
  `stored` place is on the disk.  `StoredKept`: by `KeptInv`, whose `DataWasStored` says that
  good bytes belong to a segment that is COMPLETE, or is about to be by the worker that stored
  them, so that nobody else holds it.  `MissingTried`: by `MissingInv`, that an announced segment is still
  on the worker's list, or claimed, or complete, or was refused to somebody.
  `WorkersGoOn`, the safety part of `WorkersFinish`: every step of a worker leaves it fewer numbers,
  or as many and fewer steps.
* `DownloadManagerProofs`.  `TypeCorrect`.  `PeerCorrect`: by `PeerInv`: the workers
  that `HasWorker` does not see, as they were started in this poll, have peers before the
  entry that is looked at next.
  `NoticeCorrect`: by `NoticeInv`, that an object is gone only after a push into a full
  vector behind it, and that only a worker without object, or that threw, goes unnoticed.
  `JoinCorrect` is inductive with the type invariant.  `ReportedNeverAsked`, the finding of
  `manager_tracker` for every instance: an empty list and no worker are kept by every step.
* `FileLayoutProofs`.  All by `LayoutInv`: the segments are those of the size, what has been
  announced is complete, and a local file is as long as `LengthFits` says.  The lemmas before it
  say, for every width, what
  `ToInt`, division towards zero and the count of segments are in terms of the torrent's size.
  `CoverCorrect`: a file whose size is an `int` is covered by its segments.  `NoCoverFromLimit`: no
  other is, against the comment `Torrent.h:18`.
* `PeerSocketProofs`.  `TypeCorrect`.  `AnswersCorrect`, for `Parts = 1`: by `PipeInv`, which says
  where the one answer is that can exist while the connection can be read.
  `RequestsImplemented`, for `Parts = 1` as well: by `AskInv`, which adds that a request that
  has not returned has no answer yet (`FreshInv`).  (With more parts `peersocket_pieces` refutes
  both.)
  `TimeoutShared`, for any `Parts`, says how far the code is from a time-out for each wait
  (section 5): by `ShareInv`, that what all requests have
  waited and what is left make up the time-out, that a request to come has not waited, and
  that a time-out leaves nothing.  `WaitedFor` is a recursive function; what is needed of it
  (`SumExists`, `SumNat`, `SumFlat`, `SumGrows`) is shown by a least counterexample, which the
  well-foundedness of `<` on the naturals provides (`LeastNumber`).
* `TrackerProofs`.  `TypeCorrect`, `ExitsCorrect`, `AnswersCorrect`: by `OwnInv`, that while no
  thread has found another's argument the descriptor of each is open and its own.
  `DescriptorsKept` (`NoDescriptorLost`): by `LostInv`, the converse, from `OneFdEach`, that no thread's
  connection is behind two descriptors.  `DatabaseLock`: by `LockInv`, that the `shared_mutex` is
  held just where the code has locked it.  `AddTorrentBlocksAll`: from the first `addTorrent` on
  nobody obtains or gives back that lock.

Only model-checked: everything under fairness (`MutexesReleased`, `StoreReturns`,
`WorkersFinish`, the liveness of `SegmentLedger`, `ManagerEnds`, `RequestsReturn`,
`MessagesReceived`, `DescriptorsReturned`), which the prover cannot do; and `ClientDatabase`,
whose lists are made with `SelectSeq`, an operator with an operator for an argument, of which
the provers know nothing.

## 5. What the code does that no run shows

* `readUnlock` (`FileManager.cpp:219`) does not notify, and the wait (245) has no predicate: a
  writer that waits for a reader sleeps until a store ends somewhere.  The decision to
  wait is also taken before `condVariableMutex` is locked, so a notify between 170 and
  173 is lost.  `StoreReturns` says what is left.
* A session that joined another one loses its lock, its stream and its entry when the
  other ends (`FileManager.cpp:216`); the models have it, and it also breaks
  `SessionKeepsLock`.  Two sessions that read at once share one position (127), so that
  `ReadsOwnSegment` speaks of a lone reader.
* Every choice of the menu, and every answer of the responder, makes a `FileManager` of its
  own (`client/main.cpp:155`, 169, `ResponderThread.cpp:35`): locks exclude the workers of one
  download from each other, but not from the menu.
* `F_NO_FILE` makes a segment `COMPLETE` (`DownloadWorker.cpp:41`), and a failed store
  does so, too; `tainted` marks both in the model.
* Nothing is checked about the numbers in a peer's list (`DownloadWorker.cpp:35`): one of no segment
  is looked up, and written, behind the vector (`File.cpp:12`, 21), and its fragment is
  written behind the file, or anywhere in it if the product overflows.
* A worker goes over its peer's list once.  A fragment that it skips because another has it
  (36), and that is given back (39), is not asked of it again, although
  `doc/projekt-koncowy.tex:205` says a worker asks for the fragments that are missing.
  `MissingWasTried` says what is left: somebody asked for it.
* `doc/projekt-koncowy.tex:258-261` describes time-outs of five seconds for waiting for an answer.
  In the code they are for a whole connection: `select` writes back what is left
  of `recvTimeout`, and `receive` does not set it again (`BaseSocket.cpp:44`), so the wait for a
  later answer is shorter, and after one time-out there is none.  No run states the
  documented time-out; `TimeoutShared` is proved of what is there instead.
* The comment `Torrent.h:18` allows files of 4 GB; `File.cpp:50` makes an `int` of the size.  From
  2 GiB on there are no segments and the file is complete at once, or, within the last
  8000 bytes of 4 GiB, one (`NoCoverFromLimit`; `CompletedIsCovered` leaves these sizes out).  A torrent file that is missing has size -1 (`Torrent.cpp:62`) and
  is one
  of these.
* Peers are never added to an empty list (`manager_tracker`), and a `File` from the
  database has none, although `doc/projekt-koncowy.tex:207` says that it comes with the clients
  that have parts of it.  Were they added, peers of one family would all be the same (84),
  and one that is reported by a later poll would get no worker.  `getFile` gives a blank `File` anyway (`Database.cpp:6`).
* A seed list without an IPv4 peer is asked for its first one (`SSocket.cpp:55`).
* Choice 3 ends the process (`client/main.cpp:178`), choice 4 does not return to the menu, and
  an input that is not a number is asked for for ever (124-131: `cin` is never cleared).
* The responder answers from a database of its own with one blank file
  (`ResponderThread.cpp:39-41`), so it announces no fragment and has no file.
* A send over a connection that is down ends the client, or the tracker, by `SIGPIPE`.
* The tracker's threads are neither joined nor detached (`server/main.cpp:67`): it ends when the
  system has room for no more, which `ExitsForCause` allows for.
* Every `CS_NEW_REQUEST` ends the tracker or blocks its database
  (`server/database/Database.cpp:69`).  Were `addTorrent` to return, `addTorrentToClient`
  would change a copy (20), the answer would carry the unsalted hash
  (`TrackerThread.cpp:54`), and 5 would iterate without the lock.
* `runTrackerThread` and `runResponderThread` have no return statement
  (`server/main.cpp:21`, `client/main.cpp:30`).
* `sendClientUnavailable` does not end for a non-empty list (`SSocket.cpp:69`).

## 6. Not modelled

* `CLI` is commented out, `RequestHandler` is used by nothing.  `TcpMessage` is
  generated code.  Logging and the parsing of options are I/O.  `storeFile` has no caller and
  the lock protocol of `storeSegmentToFile`.  The bytes of fragments and files are
  abstracted.
* The responder's content: it has none (above).  That it parses its whole buffer, the tail of an
  earlier message included (`ResponderThread.cpp:23`, and `TrackerThread` likewise), depends on
  the bytes of protobuf's encoding.
* The contents of the tracker's database, which stays empty; `addOrUpdateClient`, `deleteClient`,
  `getClients` and `hasTorrent` have no caller.
* Choice 4 of the menu, but for the peer of `PeerSocket`; wrong input to the menu.

## 7. Order of the work, and what is left

The modules were written with the most important behaviour first: `FileManager`,
`SegmentDownload` over `SegmentLedger`, `PeerSocket`, `Tracker`, then `DownloadManager`,
`FileLayout` and `ClientDatabase`, each checked before its theorems were proved.

Left, and worth doing when the code changes: the tracker's vectors and hashes once
`addTorrent` returns; the responder once it answers from the client's database, as a
composition of `FileManager`'s read sessions with `SegmentDownload`; `Requests` without its
condition on pieces once a message carries its length and a request an identifier.
