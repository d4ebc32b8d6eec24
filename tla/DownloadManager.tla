--------------------------- MODULE DownloadManager ---------------------------
(***************************************************************************)
(* One DownloadManager (src/src/client/download/DownloadManager.cpp) on    *)
(* its thread, the threads of its workers, and the caller that owns both   *)
(* (choice 3 of the menu, src/src/client/main.cpp).                        *)
(*                                                                         *)
(* workers is a vector of objects and each thread runs on the element of   *)
(* its worker: when the vector is full, a push copies all elements and     *)
(* frees the old ones, also those that threads are running on.  What a     *)
(* worker does with segments is module SegmentDownload; here it runs and   *)
(* ends, or fails with an exception.                                       *)
(***************************************************************************)
EXTENDS Integers, Sequences

CONSTANTS
    Addresses,      \* addresses of peers
    IPv6,           \* those that are IPv6 addresses
    GivenPeers,     \* the lists of peers a File may be handed over with
    MaxPeers,       \* bound: entries in the File's list of peers
    MaxAnswer       \* bound: addresses in one answer of the tracker

ASSUME IPv6Assumption == IPv6 \subseteq Addresses
ASSUME MaxPeersAssumption == MaxPeers \in Nat
ASSUME MaxAnswerAssumption == MaxAnswer \in Nat
ASSUME GivenPeersAssumption ==
    \A ps \in GivenPeers : ps \in Seq(Addresses) /\ Len(ps) <= MaxPeers

VARIABLES
    status,         \* the process: "running", "crashed", "terminated"
    pc,             \* where the manager's thread is
    peers,          \* File::peers
    complete,       \* what File::isComplete would answer
    workers,        \* workers and worker_threads, by position
    response,       \* what addPeersToFile has yet to look at
    next,           \* the entry of filePeers that is looked at next
    seen,           \* the length of myPeers
    caught          \* history: the manager ended with an exception

list == <<response, next, seen>>
vars == <<status, pc, peers, complete, workers, list, caught>>

PCs == {"update", "add", "start", "check", "ask", "join", "ended"}

\* peer: the entry of File::peers that the worker shares; finished: as the
\* element of the vector has it; object: whether what the thread runs on exists.
Worker == [peer : 1 .. MaxPeers, finished : BOOLEAN,
           thread : {"running", "ended", "thrown"}, object : {"live", "gone"}]

Running == {k \in DOMAIN workers : workers[k].thread = "running"}

Init ==
    /\ status = "running"
    /\ pc = "update"
    /\ peers \in GivenPeers
    /\ complete \in BOOLEAN
    /\ workers = <<>>
    /\ response = <<>>
    /\ next = 1
    /\ seen = 0
    /\ caught = FALSE

\* Undefined behaviour may end the process.
Crash ==
    /\ status' = "crashed"
    /\ UNCHANGED <<pc, peers, complete, workers, list, caught>>

-----------------------------------------------------------------------------
(* updatePeersAndStartWorkers                                               *)

\* An answer has an IPv4 peer, and they come last; <<>> stands for a time-out
\* or an answer of another kind.
Responses ==
    {<<>>} \cup
    {r \in UNION {[1 .. n -> Addresses] : n \in 1 .. MaxAnswer} :
        /\ r[Len(r)] \notin IPv6
        /\ \A i, j \in DOMAIN r : i < j /\ r[j] \in IPv6 => r[i] \in IPv6}

CannotConnect ==
    /\ pc = "update"
    /\ pc' = "check"
    /\ UNCHANGED <<status, peers, complete, workers, list, caught>>

ReceivesSeedlist ==
    /\ pc = "update"
    /\ \E r \in Responses :
        /\ Len(peers) + Len(r) <= MaxPeers
        /\ response' = r
    /\ pc' = "add"
    /\ UNCHANGED <<status, peers, complete, workers, next, seen, caught>>

\* Without an IPv4 peer in the answer, Get(0) reads behind an empty list, or
\* protobuf's check throws and start_manager's handler ends the thread.
ReceivesNoIpv4Peer ==
    /\ pc = "update"
    /\ \/ Crash
       \/ /\ pc' = "ended"
          /\ caught' = TRUE
          /\ UNCHANGED <<status, peers, complete, workers, list>>

Known(a) == \E j \in DOMAIN peers : peers[j] = a

\* Mutant: an address that is known is added as a peer and as a seed.
Mut_AddsTwice ==
    /\ pc = "add"
    /\ response # <<>>
    /\ response' = Tail(response)
    /\ peers' = IF Known(Head(response))
                THEN peers \o <<Head(response), Head(response)>> ELSE peers
    /\ UNCHANGED <<status, pc, complete, workers, next, seen, caught>>

\* checkIfFileContainsPeerWithGivenIp... compares iterators of three copies of
\* the list.  Without a peer they are all null, and the address is not there; an
\* address found is there, and added once more; otherwise the search leaves
\* the first copy and ends anywhere.
AddsPeerToFile ==
    /\ pc = "add"
    /\ response # <<>>
    /\ \/ /\ peers' \in {peers, Append(peers, Head(response))}
          /\ peers = <<>> => peers' = peers
          /\ Known(Head(response)) => peers' # peers
          /\ response' = Tail(response)
          /\ UNCHANGED <<status, pc, complete, workers, next, seen, caught>>
       \/ /\ peers # <<>>
          /\ ~Known(Head(response))
          /\ Crash

\* startWorkersForNewPeers copies filePeers and myPeers.
CopiesLists ==
    /\ pc = "add"
    /\ response = <<>>
    /\ next' = 1
    /\ seen' = Len(workers)
    /\ pc' = "start"
    /\ UNCHANGED <<status, peers, complete, workers, response, caught>>

\* A peer has an address of one family, and the other is "": peers of the same
\* family are equal in that one.
SamePeer(a, b) == a \in IPv6 <=> b \in IPv6

\* checkIfWorkersWorkWithPeer
HasWorker(a) == \E k \in 1 .. seen : SamePeer(peers[workers[k].peer], a)

SkipsPeer ==
    /\ pc = "start"
    /\ next <= Len(peers)
    /\ HasWorker(peers[next])
    /\ next' = next + 1
    /\ UNCHANGED <<status, pc, peers, complete, workers, response, seen, caught>>

\* The vector's capacity is 1, 2, 4, ...
Full(n) == \E k \in 0 .. n : n = 2 ^ k

\* push_back: into a full vector only after all elements have moved.
Pushed(worker) ==
    Append([k \in DOMAIN workers |->
               IF Full(Len(workers)) THEN [workers[k] EXCEPT !.object = "gone"]
               ELSE workers[k]],
           worker)

NewWorker(p) ==
    [peer |-> p, finished |-> FALSE, thread |-> "running", object |-> "live"]

\* Mutant: every poll starts a worker for every peer.
Mut_StartsAgain ==
    /\ pc = "start"
    /\ next <= Len(peers)
    /\ Len(workers) < MaxPeers
    /\ workers' = Pushed(NewWorker(next))
    /\ next' = next + 1
    /\ UNCHANGED <<status, pc, peers, complete, response, seen, caught>>

\* Mutant: all elements move with every push.
Mut_MovesAlways ==
    /\ pc = "start"
    /\ next <= Len(peers)
    /\ ~HasWorker(peers[next])
    /\ workers' = Append([k \in DOMAIN workers |-> [workers[k] EXCEPT !.object = "gone"]],
                         NewWorker(next))
    /\ next' = next + 1
    /\ UNCHANGED <<status, pc, peers, complete, response, seen, caught>>

\* startWorkerThreadForPeer.  The constructor of DownloadWorker asks the file1
\* it has moved from for its torrent, which ends the process (or goes well).
StartsWorker ==
    /\ pc = "start"
    /\ next <= Len(peers)
    /\ ~HasWorker(peers[next])
    /\ \/ Crash
       \/ /\ workers' = Pushed(NewWorker(next))
          /\ next' = next + 1
          /\ UNCHANGED <<status, pc, peers, complete, response, seen, caught>>

AllPeersSeen ==
    /\ pc = "start"
    /\ next > Len(peers)
    /\ pc' = "check"
    /\ UNCHANGED <<status, peers, complete, workers, list, caught>>

-----------------------------------------------------------------------------
(* manageWorkers and joinWorkers                                            *)

\* checkIfWorkersWork
Checks ==
    /\ pc = "check"
    /\ pc' = IF \E k \in DOMAIN workers : ~workers[k].finished THEN "ask" ELSE "join"
    /\ UNCHANGED <<status, peers, complete, workers, list, caught>>

\* Mutant: the manager does not ask the file.
Mut_AsksNobody ==
    /\ pc = "ask"
    /\ pc' = "update"
    /\ UNCHANGED <<status, peers, complete, workers, list, caught>>

\* Mutant: a complete file ends the manager at once.
Mut_ReturnsUnjoined ==
    /\ pc = "ask"
    /\ pc' = IF complete THEN "ended" ELSE "update"
    /\ UNCHANGED <<status, peers, complete, workers, list, caught>>

\* file->isComplete(), and the next poll if it is not.
AsksFile ==
    /\ pc = "ask"
    /\ pc' = IF complete THEN "join" ELSE "update"
    /\ UNCHANGED <<status, peers, complete, workers, list, caught>>

JoinsWorkers ==
    /\ pc = "join"
    /\ Running = {}
    /\ pc' = "ended"
    /\ UNCHANGED <<status, peers, complete, workers, list, caught>>

-----------------------------------------------------------------------------
(* The workers' threads, and the caller                                     *)

\* work() returns: finished is set in the object, which the vector has or
\* which is freed memory.
WorkReturns(k) ==
    /\ k \in Running
    /\ \/ /\ workers' = [workers EXCEPT ![k].thread = "ended",
                                        ![k].finished = (workers[k].object = "live")]
          /\ UNCHANGED <<status, pc, peers, complete, list, caught>>
       \/ /\ workers[k].object = "gone"
          /\ Crash

\* An exception in work() is caught in startWorker, and finished stays false.
WorkThrows(k) ==
    /\ k \in Running
    /\ workers' = [workers EXCEPT ![k].thread = "thrown"]
    /\ UNCHANGED <<status, pc, peers, complete, list, caught>>

\* A worker completes the last segment.
FileCompletes ==
    /\ Running # {}
    /\ ~complete
    /\ complete' = TRUE
    /\ UNCHANGED <<status, pc, peers, workers, list, caught>>

\* The caller's block ends with dmThread still joinable: std::terminate.
CallerReturns ==
    /\ status' = "terminated"
    /\ UNCHANGED <<pc, peers, complete, workers, list, caught>>

-----------------------------------------------------------------------------
Manager ==
    /\ status = "running"
    /\ \/ CannotConnect \/ ReceivesSeedlist \/ ReceivesNoIpv4Peer
       \/ AddsPeerToFile \/ CopiesLists
       \/ SkipsPeer \/ StartsWorker \/ AllPeersSeen
       \/ Checks \/ AsksFile \/ JoinsWorkers

WorkerThread(k) ==
    /\ status = "running"
    /\ WorkReturns(k) \/ WorkThrows(k)

Others ==
    /\ status = "running"
    /\ FileCompletes \/ CallerReturns

Next == Manager \/ (\E k \in 1 .. MaxPeers : WorkerThread(k)) \/ Others

Spec == Init /\ [][Next]_vars

\* Threads are scheduled, sleep and the requests return, and a worker ends
\* (SegmentDownload's WorkersFinish).
Fairness == WF_vars(Manager) /\ \A k \in 1 .. MaxPeers : WF_vars(WorkerThread(k))

FairSpec == Spec /\ Fairness

-----------------------------------------------------------------------------
(* Properties                                                               *)

\* Every variable has its type.
TypeOK ==
    /\ status \in {"running", "crashed", "terminated"}
    /\ pc \in PCs
    /\ peers \in Seq(Addresses)
    /\ Len(peers) + Len(response) <= MaxPeers
    /\ complete \in BOOLEAN
    /\ workers \in Seq(Worker)
    /\ response \in Seq(Addresses)
    /\ next \in 1 .. MaxPeers + 1
    /\ seen \in 0 .. Len(workers)
    /\ caught \in BOOLEAN

\* No poll starts a second worker for an entry of the File's list, although
\* polls compare addresses and not workers (checkIfWorkersWorkWithPeer).  (An address
\* that is in the list twice may get two, one for each entry.)
OneWorkerPerPeer ==
    \A k, l \in DOMAIN workers : workers[k].peer = workers[l].peer => k = l

\* A worker that has ended and counts as working for ever threw an exception,
\* or a later worker was pushed into a full vector: the last worker's end is
\* never lost (startWorkerThreadForPeer, checkIfWorkersWork).
Unnoticed(k) == workers[k].thread # "running" /\ ~workers[k].finished

UnnoticedForCause ==
    \A k \in DOMAIN workers :
        Unnoticed(k) => \/ workers[k].thread = "thrown"
                        \/ \E n \in k .. Len(workers) - 1 : Full(n)

\* A manager that ends as it should leaves no thread behind, also of workers
\* whose end it did not notice, and of those of a complete file (joinWorkers).
NoThreadLeft ==
    pc = "ended" /\ ~caught => Running = {}

\* The manager ends, unless the file stays incomplete and the end of some worker
\* goes unnoticed (manageWorkers).
ManagerEnds ==
    \/ <>(pc = "ended" \/ status # "running")
    \/ <>[](~complete /\ \E k \in DOMAIN workers : Unnoticed(k))

\* A worker is started for every peer that the tracker reports, unless the process
\* ends first: "Użytkownik łączy się z nimi i rozpoczyna pobieranie" (the user connects
\* to them and starts to download), projekt-koncowy.tex:150, of the list that the
\* tracker hands out.  It does not hold: addPeersToFile adds the addresses that the
\* File has already (DownloadManager.cpp:89).
ReportedPeerGetsWorker ==
    \A a \in Addresses :
        (pc = "add" /\ \E i \in DOMAIN response : response[i] = a)
            ~> \/ \E k \in DOMAIN workers : peers[workers[k].peer] = a
               \/ status # "running"
=============================================================================
