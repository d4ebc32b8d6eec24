------------------------ MODULE DownloadManagerProofs ------------------------
(***************************************************************************)
(* Theorems about DownloadManager, for every set of addresses and every    *)
(* bound.                                                                  *)
(***************************************************************************)
EXTENDS DownloadManager, TLAPS

(***************************************************************************)
(* Type correctness.                                                       *)
(***************************************************************************)

\* Pushing a worker (startWorkerThreadForPeer) changes no earlier worker but in
\* whether its object exists.
LEMMA PushedWorkers ==
    ASSUME workers \in Seq(Worker), NEW p \in 1 .. MaxPeers
    PROVE  /\ Pushed(NewWorker(p)) \in Seq(Worker)
           /\ Len(Pushed(NewWorker(p))) = Len(workers) + 1
           /\ Pushed(NewWorker(p))[Len(workers) + 1] = NewWorker(p)
           /\ \A k \in DOMAIN workers :
                /\ Pushed(NewWorker(p))[k].peer = workers[k].peer
                /\ Pushed(NewWorker(p))[k].finished = workers[k].finished
                /\ Pushed(NewWorker(p))[k].thread = workers[k].thread
                /\ Pushed(NewWorker(p))[k].object =
                     IF Full(Len(workers)) THEN "gone" ELSE workers[k].object
<1> DEFINE moved == [k \in DOMAIN workers |->
                        IF Full(Len(workers))
                        THEN [workers[k] EXCEPT !.object = "gone"]
                        ELSE workers[k]]
<1>1. NewWorker(p) \in Worker
  BY DEF NewWorker, Worker
<1>2. \A k \in DOMAIN workers : workers[k] \in Worker
  OBVIOUS
<1>3. \A k \in DOMAIN workers : moved[k] \in Worker
  BY <1>2 DEF Worker
<1>4. moved \in Seq(Worker) /\ Len(moved) = Len(workers)
  BY <1>3
<1>5. \A k \in DOMAIN workers :
        /\ moved[k].peer = workers[k].peer
        /\ moved[k].finished = workers[k].finished
        /\ moved[k].thread = workers[k].thread
        /\ moved[k].object = IF Full(Len(workers)) THEN "gone" ELSE workers[k].object
  BY <1>2 DEF Worker
<1>6. Pushed(NewWorker(p)) = Append(moved, NewWorker(p))
  BY DEF Pushed
<1> HIDE DEF moved
<1>7. DOMAIN workers = 1 .. Len(workers)
  OBVIOUS
<1>8. \A k \in DOMAIN workers : Append(moved, NewWorker(p))[k] = moved[k]
  BY <1>1, <1>4, <1>7
<1> QED
  BY <1>1, <1>4, <1>5, <1>6, <1>8

\* The end of a worker's thread (WorkReturns, WorkThrows) changes no other worker, and
\* of its own neither its peer nor its object.
LEMMA EndedWorkers ==
    ASSUME workers \in Seq(Worker), NEW k \in Running,
           WorkReturns(k) \/ WorkThrows(k), ~Crash
    PROVE  /\ workers' \in Seq(Worker)
           /\ DOMAIN workers' = DOMAIN workers
           /\ workers'[k].peer = workers[k].peer
           /\ workers'[k].object = workers[k].object
           /\ \/ workers'[k].thread = "thrown"
              \/ /\ workers'[k].thread = "ended"
                 /\ workers'[k].finished = (workers[k].object = "live")
           /\ \A j \in DOMAIN workers : j # k => workers'[j] = workers[j]
<1>1. k \in DOMAIN workers /\ workers[k] \in Worker
  BY DEF Running
<1>2. CASE WorkReturns(k)
  <2>1. workers' = [workers EXCEPT ![k].thread = "ended",
                                   ![k].finished = (workers[k].object = "live")]
    BY <1>2 DEF WorkReturns
  <2>2. workers'[k] = [workers[k] EXCEPT !.thread = "ended",
                                         !.finished = (workers[k].object = "live")]
    BY <1>1, <2>1
  <2>3. workers'[k] \in Worker
    BY <1>1, <2>2 DEF Worker
  <2>4. /\ workers'[k].peer = workers[k].peer
        /\ workers'[k].object = workers[k].object
        /\ workers'[k].thread = "ended"
        /\ workers'[k].finished = (workers[k].object = "live")
    BY <1>1, <2>2 DEF Worker
  <2>5. workers' = [workers EXCEPT ![k] = workers'[k]]
    BY <1>1, <2>1, <2>2
  <2>6. /\ workers' \in Seq(Worker)
        /\ DOMAIN workers' = DOMAIN workers
        /\ \A j \in DOMAIN workers : j # k => workers'[j] = workers[j]
    BY <1>1, <2>3, <2>5
  <2> QED
    BY <2>4, <2>6
<1>3. CASE WorkThrows(k)
  <2>1. workers' = [workers EXCEPT ![k].thread = "thrown"]
    BY <1>3 DEF WorkThrows
  <2>2. workers'[k] \in Worker
    BY <1>1, <2>1 DEF Worker
  <2> QED
    BY <1>1, <2>1, <2>2 DEF Worker
<1> QED
  BY <1>2, <1>3

\* Every variable has its type at the start.
LEMMA InitType == Init => TypeOK
<1> SUFFICES ASSUME Init PROVE TypeOK
  OBVIOUS
<1>1. peers \in Seq(Addresses) /\ Len(peers) \in Nat /\ Len(peers) <= MaxPeers
  BY GivenPeersAssumption DEF Init
<1>2. /\ workers \in Seq(Worker) /\ Len(workers) = 0
      /\ response \in Seq(Addresses) /\ Len(response) = 0
  BY DEF Init
<1>3. /\ status = "running" /\ pc = "update" /\ complete \in BOOLEAN /\ next = 1
      /\ seen = 0 /\ caught \in BOOLEAN
  BY DEF Init
<1>4. /\ Len(peers) + Len(response) <= MaxPeers /\ next \in 1 .. MaxPeers + 1
      /\ seen \in 0 .. Len(workers)
  BY <1>1, <1>2, <1>3, MaxPeersAssumption
<1> QED
  BY <1>1, <1>2, <1>3, <1>4 DEF TypeOK, PCs

\* The lists that an answer may add to are sequences of addresses.
LEMMA ResponseType ==
    ASSUME NEW r \in Responses
    PROVE  r \in Seq(Addresses)
<1>1. CASE r = <<>>
  BY <1>1
<1>2. CASE r # <<>>
  <2>1. PICK n \in 1 .. MaxAnswer : r \in [1 .. n -> Addresses]
    BY <1>2 DEF Responses
  <2> QED
    BY <2>1, MaxAnswerAssumption
<1> QED
  BY <1>1, <1>2

\* Every step keeps the types, the indices of peers and workers included.
LEMMA NextType == TypeOK /\ [Next]_vars => TypeOK'
<1> SUFFICES ASSUME TypeOK, [Next]_vars PROVE TypeOK'
  OBVIOUS
<1> USE MaxPeersAssumption DEF TypeOK, PCs, list
<1>0. Len(peers) \in Nat /\ Len(response) \in Nat /\ Len(workers) \in Nat
  OBVIOUS
<1>1. CASE Crash
  BY <1>1 DEF Crash
<1>2. CASE ReceivesSeedlist
  BY <1>2, ResponseType DEF ReceivesSeedlist
<1>3. CASE AddsPeerToFile /\ ~Crash
  <2>1. /\ response # <<>> /\ response' = Tail(response)
        /\ peers' \in {peers, Append(peers, Head(response))}
        /\ UNCHANGED <<status, pc, complete, workers, next, seen, caught>>
    BY <1>3 DEF AddsPeerToFile
  <2>2. /\ Head(response) \in Addresses
        /\ Tail(response) \in Seq(Addresses)
        /\ Len(Tail(response)) = Len(response) - 1
    BY <2>1
  <2>3. /\ Append(peers, Head(response)) \in Seq(Addresses)
        /\ Len(Append(peers, Head(response))) = Len(peers) + 1
    BY <2>2
  <2>4. peers' \in Seq(Addresses) /\ Len(peers') \in {Len(peers), Len(peers) + 1}
    BY <2>1, <2>3
  <2> QED
    BY <1>0, <2>1, <2>2, <2>4
<1>4. CASE StartsWorker /\ ~Crash
  <2>1. /\ workers' = Pushed(NewWorker(next)) /\ next' = next + 1
        /\ next <= Len(peers)
        /\ UNCHANGED <<status, pc, peers, complete, response, seen, caught>>
    BY <1>4 DEF StartsWorker
  <2>2. next \in 1 .. MaxPeers
    BY <1>0, <2>1
  <2> QED
    BY <1>0, <2>1, <2>2, PushedWorkers
<1>5. CASE ReceivesNoIpv4Peer /\ ~Crash
  BY <1>5 DEF ReceivesNoIpv4Peer
<1>6. CASE CannotConnect \/ CopiesLists \/ AllPeersSeen \/ Checks \/ AsksFile
             \/ JoinsWorkers
  BY <1>0, <1>6 DEF CannotConnect, CopiesLists, AllPeersSeen, Checks, AsksFile,
                    JoinsWorkers
<1>7. CASE SkipsPeer
  BY <1>0, <1>7 DEF SkipsPeer
<1>8. ASSUME NEW k \in 1 .. MaxPeers, WorkReturns(k) \/ WorkThrows(k), ~Crash
      PROVE  TypeOK'
  <2>1. UNCHANGED <<status, pc, peers, complete, list, caught>> /\ k \in Running
    BY <1>8 DEF WorkReturns, WorkThrows
  <2>2. workers' \in Seq(Worker) /\ DOMAIN workers' = DOMAIN workers
    BY <1>8, <2>1, EndedWorkers
  <2>3. Len(workers') = Len(workers)
    BY <2>2
  <2> QED
    BY <2>1, <2>2, <2>3
<1>9. CASE FileCompletes \/ CallerReturns
  BY <1>9 DEF FileCompletes, CallerReturns
<1>10. CASE UNCHANGED vars
  BY <1>10 DEF vars
<1> QED
  BY <1>1, <1>2, <1>3, <1>4, <1>5, <1>6, <1>7, <1>8, <1>9, <1>10
     DEF Next, Manager, WorkerThread, Others

\* The steps that leave the vectors of workers as they are.
LEMMA OtherSteps ==
    ASSUME TypeOK, [Next]_vars
    PROVE  \/ UNCHANGED workers
           \/ pc = "start" /\ StartsWorker /\ UNCHANGED <<pc, peers, seen, caught>>
           \/ \E k \in Running : /\ WorkReturns(k) \/ WorkThrows(k)
                                 /\ ~Crash
                                 /\ UNCHANGED <<pc, peers, next, seen, caught>>
<1> USE DEF list
<1>1. CASE StartsWorker
  BY <1>1 DEF StartsWorker, Crash
<1>2. ASSUME NEW k \in 1 .. MaxPeers, WorkReturns(k) \/ WorkThrows(k)
      PROVE  \/ UNCHANGED workers
             \/ \E j \in Running : /\ WorkReturns(j) \/ WorkThrows(j)
                                   /\ ~Crash
                                   /\ UNCHANGED <<pc, peers, next, seen, caught>>
  <2>1. CASE Crash
    BY <2>1 DEF Crash
  <2>2. CASE ~Crash
    <3>1. k \in Running /\ UNCHANGED <<pc, peers, next, seen, caught>>
      BY <1>2, <2>2 DEF WorkReturns, WorkThrows
    <3> QED
      BY <1>2, <2>2, <3>1
  <2> QED
    BY <2>1, <2>2
<1>3. CASE \/ CannotConnect \/ ReceivesSeedlist \/ ReceivesNoIpv4Peer \/ AddsPeerToFile
           \/ CopiesLists \/ SkipsPeer \/ AllPeersSeen \/ Checks \/ AsksFile
           \/ JoinsWorkers \/ FileCompletes \/ CallerReturns \/ UNCHANGED vars
  BY <1>3 DEF CannotConnect, ReceivesSeedlist, ReceivesNoIpv4Peer, AddsPeerToFile,
              CopiesLists, SkipsPeer, AllPeersSeen, Checks, AsksFile, JoinsWorkers,
              FileCompletes, CallerReturns, vars, Crash
<1> QED
  BY <1>1, <1>2, <1>3 DEF Next, Manager, WorkerThread, Others

-----------------------------------------------------------------------------
(***************************************************************************)
(* One worker per entry of the list.  A poll compares with the workers it  *)
(* found when it began (the first seen ones), and gives those it starts    *)
(* itself the entries in their order.                                      *)
(***************************************************************************)

PeerInv ==
    /\ \A k \in DOMAIN workers : workers[k].peer <= Len(peers)
    /\ pc = "start" =>
         \A k \in DOMAIN workers : k > seen => workers[k].peer < next
    /\ OneWorkerPerPeer

\* There is no worker at the start.
LEMMA InitPeer == Init => PeerInv
BY DEF Init, PeerInv, OneWorkerPerPeer

\* The list only grows, and what is in it stays.
LEMMA PeersKept ==
    ASSUME TypeOK, [Next]_vars
    PROVE  Len(peers') >= Len(peers)
<1>1. Len(peers) \in Nat
  BY DEF TypeOK
<1>2. CASE AddsPeerToFile /\ ~Crash
  <2>1. response # <<>> /\ peers' \in {peers, Append(peers, Head(response))}
    BY <1>2 DEF AddsPeerToFile
  <2>2. Len(Append(peers, Head(response))) = Len(peers) + 1
    BY <2>1 DEF TypeOK
  <2> QED
    BY <1>1, <2>1, <2>2
<1>3. CASE UNCHANGED peers
  BY <1>1, <1>3
<1>4. UNCHANGED peers \/ (AddsPeerToFile /\ ~Crash)
  BY DEF Next, Manager, WorkerThread, Others, CannotConnect, ReceivesSeedlist,
         ReceivesNoIpv4Peer, CopiesLists, SkipsPeer, StartsWorker, AllPeersSeen, Checks,
         AsksFile, JoinsWorkers, FileCompletes, CallerReturns, WorkReturns, WorkThrows,
         vars, Crash
<1> QED
  BY <1>2, <1>3, <1>4

\* Every step keeps the workers' peers apart, a new worker's included.
LEMMA NextPeer == TypeOK /\ PeerInv /\ [Next]_vars => PeerInv'
<1> SUFFICES ASSUME TypeOK, PeerInv, [Next]_vars PROVE PeerInv'
  OBVIOUS
<1>0. /\ Len(workers) \in Nat /\ DOMAIN workers = 1 .. Len(workers)
      /\ Len(peers) \in Nat /\ Len(peers') >= Len(peers) /\ Len(peers') \in Nat
      /\ next \in Nat /\ seen \in Nat
      /\ \A k \in DOMAIN workers : workers[k].peer \in Nat
  <2>1. \A k \in DOMAIN workers : workers[k] \in Worker
    BY DEF TypeOK
  <2>2. \A k \in DOMAIN workers : workers[k].peer \in Nat
    BY <2>1 DEF Worker
  <2>3. Len(peers') \in Nat
    BY NextType DEF TypeOK
  <2> QED
    BY <2>2, <2>3, PeersKept, MaxPeersAssumption DEF TypeOK
<1>1. CASE UNCHANGED workers
  <2>1. /\ \A k \in DOMAIN workers' : workers'[k].peer <= Len(peers')
        /\ OneWorkerPerPeer'
    BY <1>0, <1>1 DEF PeerInv, OneWorkerPerPeer
  <2>2. ASSUME pc' = "start"
        PROVE  \/ pc = "start" /\ seen' = seen /\ next' >= next
               \/ seen' = Len(workers)
    <3> USE DEF list
    <3>1. CASE SkipsPeer \/ StartsWorker
      BY <1>0, <3>1 DEF SkipsPeer, StartsWorker, Crash
    <3>2. CASE CopiesLists
      BY <1>0, <3>2 DEF CopiesLists
    <3>3. CASE pc' = pc /\ seen' = seen /\ next' = next
      <4>1. next' >= next
        BY <1>0, <3>3
      <4> QED
        BY <2>2, <3>3, <4>1
    <3>4. \/ SkipsPeer \/ StartsWorker \/ CopiesLists
          \/ pc' = pc /\ seen' = seen /\ next' = next
      BY <2>2
         DEF Next, Manager, WorkerThread, Others, CannotConnect, ReceivesSeedlist,
             ReceivesNoIpv4Peer, AddsPeerToFile, AllPeersSeen, Checks,
             AsksFile, JoinsWorkers, FileCompletes, CallerReturns, WorkReturns,
             WorkThrows, vars, Crash
    <3> QED
      BY <3>1, <3>2, <3>3, <3>4
  <2>3. next' \in Nat
    BY NextType, MaxPeersAssumption DEF TypeOK
  <2> QED
    BY <1>0, <1>1, <2>1, <2>2, <2>3 DEF PeerInv
<1>2. CASE pc = "start" /\ StartsWorker /\ ~Crash /\ UNCHANGED <<pc, peers, seen, caught>>
  <2>1. /\ workers' = Pushed(NewWorker(next)) /\ next' = next + 1
        /\ next <= Len(peers) /\ ~HasWorker(peers[next])
    BY <1>2 DEF StartsWorker
  <2>2. next \in 1 .. MaxPeers
    BY <1>0, <2>1, MaxPeersAssumption DEF TypeOK
  <2>3. /\ DOMAIN workers' = 1 .. Len(workers) + 1
        /\ workers'[Len(workers) + 1].peer = next
        /\ \A k \in DOMAIN workers : workers'[k].peer = workers[k].peer
    BY <1>0, <2>1, <2>2, PushedWorkers DEF TypeOK, NewWorker
  <2>4. \A k \in DOMAIN workers : workers[k].peer # next
    <3> SUFFICES ASSUME NEW k \in DOMAIN workers, workers[k].peer = next PROVE FALSE
      OBVIOUS
    <3>1. CASE k > seen
      BY <1>0, <1>2, <3>1 DEF PeerInv
    <3>2. CASE k <= seen
      <4>1. k \in 1 .. seen
        BY <1>0, <3>2
      <4> QED
        BY <2>1, <4>1 DEF HasWorker, SamePeer
    <3> QED
      BY <1>0, <3>1, <3>2
  <2>5. OneWorkerPerPeer'
    BY <1>0, <2>3, <2>4 DEF PeerInv, OneWorkerPerPeer
  <2>6. \A k \in DOMAIN workers' : workers'[k].peer <= Len(peers')
    BY <1>0, <1>2, <2>1, <2>3 DEF PeerInv
  <2>7. \A k \in DOMAIN workers' : k > seen' => workers'[k].peer < next'
    BY <1>0, <1>2, <2>1, <2>3 DEF PeerInv
  <2> QED
    BY <2>5, <2>6, <2>7 DEF PeerInv
<1>3. ASSUME NEW k \in Running, WorkReturns(k) \/ WorkThrows(k), ~Crash,
             UNCHANGED <<pc, peers, next, seen, caught>>
      PROVE  PeerInv'
  <2>1. /\ DOMAIN workers' = DOMAIN workers
        /\ workers'[k].peer = workers[k].peer
        /\ \A j \in DOMAIN workers : j # k => workers'[j] = workers[j]
    BY <1>3, EndedWorkers DEF TypeOK
  <2>2. \A j \in DOMAIN workers : workers'[j].peer = workers[j].peer
    BY <2>1
  <2> QED
    BY <1>3, <2>1, <2>2 DEF PeerInv, OneWorkerPerPeer
<1>4. StartsWorker /\ Crash => UNCHANGED workers
  BY DEF Crash
<1> QED
  BY <1>1, <1>2, <1>3, <1>4, OtherSteps

-----------------------------------------------------------------------------
(***************************************************************************)
(* The ends that the manager does not notice.                              *)
(***************************************************************************)

\* Whose object is gone has been moved, and whose end is not in the vector has
\* thrown or had no object.
NoticeInv ==
    \A k \in DOMAIN workers :
        /\ workers[k].object = "gone" => \E n \in k .. Len(workers) - 1 : Full(n)
        /\ Unnoticed(k) => workers[k].thread = "thrown" \/ workers[k].object = "gone"

\* An object is only gone where the property allows it.
LEMMA NoticeCause == NoticeInv => UnnoticedForCause
BY DEF NoticeInv, UnnoticedForCause

\* There is no worker at the start.
LEMMA InitNotice == Init => NoticeInv
BY DEF Init, NoticeInv

\* Every step keeps the causes: a push moves only what is in a full vector, and only a
\* worker that has thrown, or whose object is gone, leaves finished as it was.
LEMMA NextNotice == TypeOK /\ NoticeInv /\ [Next]_vars => NoticeInv'
<1> SUFFICES ASSUME TypeOK, NoticeInv, [Next]_vars PROVE NoticeInv'
  OBVIOUS
<1>0. /\ Len(workers) \in Nat /\ DOMAIN workers = 1 .. Len(workers)
      /\ next \in Nat
  BY MaxPeersAssumption DEF TypeOK
<1>1. CASE UNCHANGED workers
  BY <1>1 DEF NoticeInv, Unnoticed
<1>2. CASE StartsWorker /\ ~Crash
  <2>1. /\ workers' = Pushed(NewWorker(next)) /\ next <= Len(peers)
    BY <1>2 DEF StartsWorker
  <2>2. next \in 1 .. MaxPeers
    BY <1>0, <2>1, MaxPeersAssumption DEF TypeOK
  <2>3. /\ Len(workers') = Len(workers) + 1
        /\ workers'[Len(workers) + 1] = NewWorker(next)
        /\ \A k \in DOMAIN workers :
             /\ workers'[k].finished = workers[k].finished
             /\ workers'[k].thread = workers[k].thread
             /\ workers'[k].object =
                  IF Full(Len(workers)) THEN "gone" ELSE workers[k].object
    BY <2>1, <2>2, PushedWorkers DEF TypeOK
  <2>4. ASSUME NEW k \in DOMAIN workers
        PROVE  /\ workers'[k].object = "gone" => \E n \in k .. Len(workers') - 1 : Full(n)
               /\ Unnoticed(k)' => \/ workers'[k].thread = "thrown"
                                   \/ workers'[k].object = "gone"
    <3>1. \A n \in k .. Len(workers) - 1 : n \in k .. Len(workers') - 1
      BY <1>0, <2>3
    <3>2. Len(workers) \in k .. Len(workers') - 1
      BY <1>0, <2>3
    <3>3. workers'[k].object = "gone" => \E n \in k .. Len(workers') - 1 : Full(n)
      BY <2>3, <3>1, <3>2 DEF NoticeInv
    <3>4. Unnoticed(k)' => workers'[k].thread = "thrown" \/ workers'[k].object = "gone"
      BY <2>3 DEF NoticeInv, Unnoticed
    <3> QED
      BY <3>3, <3>4
  <2>5. /\ workers'[Len(workers) + 1].object = "live"
        /\ workers'[Len(workers) + 1].thread = "running"
    BY <2>3 DEF NewWorker
  <2>6. DOMAIN workers' = DOMAIN workers \cup {Len(workers) + 1}
    <3>1. workers' \in Seq(Worker)
      BY <2>1, <2>2, PushedWorkers DEF TypeOK
    <3>2. DOMAIN workers' = 1 .. Len(workers) + 1
      BY <2>3, <3>1
    <3> QED
      BY <1>0, <3>2
  <2> QED
    BY <2>4, <2>5, <2>6 DEF NoticeInv, Unnoticed
<1>3. ASSUME NEW k \in Running, WorkReturns(k) \/ WorkThrows(k), ~Crash
      PROVE  NoticeInv'
  <2>1. /\ DOMAIN workers' = DOMAIN workers
        /\ workers' \in Seq(Worker)
        /\ workers'[k].object = workers[k].object
        /\ \/ workers'[k].thread = "thrown"
           \/ /\ workers'[k].thread = "ended"
              /\ workers'[k].finished = (workers[k].object = "live")
        /\ \A j \in DOMAIN workers : j # k => workers'[j] = workers[j]
    BY <1>3, EndedWorkers DEF TypeOK
  <2>2. Len(workers') = Len(workers)
    BY <1>0, <2>1
  <2>3. k \in DOMAIN workers /\ workers[k].object \in {"live", "gone"}
    <3>1. k \in DOMAIN workers /\ workers[k] \in Worker
      BY DEF Running, TypeOK
    <3> QED
      BY <3>1 DEF Worker
  <2>4. Unnoticed(k)' => workers'[k].thread = "thrown" \/ workers'[k].object = "gone"
    BY <2>1, <2>3 DEF Unnoticed
  <2>5. \A j \in DOMAIN workers :
            workers'[j].object = "gone" => \E n \in j .. Len(workers') - 1 : Full(n)
    BY <2>1, <2>2, <2>3 DEF NoticeInv
  <2>6. \A j \in DOMAIN workers : j # k =>
            (Unnoticed(j)' => workers'[j].thread = "thrown" \/ workers'[j].object = "gone")
    BY <2>1 DEF NoticeInv, Unnoticed
  <2> QED
    BY <2>1, <2>4, <2>5, <2>6 DEF NoticeInv
<1>4. StartsWorker /\ Crash => UNCHANGED workers
  BY DEF Crash
<1> QED
  BY <1>1, <1>2, <1>3, <1>4, OtherSteps

-----------------------------------------------------------------------------
(* No thread is left behind: once the manager has ended, no worker is started.       *)

\* The manager has not ended at the start.
LEMMA InitLeft == Init => NoThreadLeft
BY DEF Init, NoThreadLeft

\* The manager ends only by joinWorkers or by its handler, and starts nothing after that.
LEMMA NextLeft == TypeOK /\ NoThreadLeft /\ [Next]_vars => NoThreadLeft'
<1> SUFFICES ASSUME TypeOK, NoThreadLeft, [Next]_vars, pc' = "ended", ~caught'
             PROVE  Running' = {}
  BY DEF NoThreadLeft
<1>1. CASE UNCHANGED workers
  <2>1. Running' = Running
    BY <1>1 DEF Running
  <2>2. JoinsWorkers \/ (pc = "ended" /\ ~caught)
    BY DEF Next, Manager, WorkerThread, Others, CannotConnect, ReceivesSeedlist,
           ReceivesNoIpv4Peer, AddsPeerToFile, CopiesLists, SkipsPeer, StartsWorker,
           AllPeersSeen, Checks, AsksFile, FileCompletes, CallerReturns, WorkReturns,
           WorkThrows, vars, Crash
  <2> QED
    BY <2>1, <2>2 DEF JoinsWorkers, NoThreadLeft
<1>2. ASSUME NEW k \in Running, UNCHANGED <<pc, caught>>
      PROVE  FALSE
  BY <1>2 DEF NoThreadLeft
<1> QED
  BY <1>1, <1>2, OtherSteps

-----------------------------------------------------------------------------
\* Every variable has its type in every reachable state, for all bounds.
THEOREM TypeCorrect == Spec => []TypeOK
BY InitType, NextType, PTL DEF Spec

\* No poll starts a second worker for an entry of the File's list
\* (checkIfWorkersWorkWithPeer), however often the tracker is asked.
THEOREM PeerCorrect == Spec => []OneWorkerPerPeer
<1>1. PeerInv => OneWorkerPerPeer
  BY DEF PeerInv
<1> QED
  BY InitPeer, NextPeer, TypeCorrect, <1>1, PTL DEF Spec

\* Only an exception or a push into a full vector makes the manager miss the
\* end of a worker (startWorkerThreadForPeer, checkIfWorkersWork).
THEOREM NoticeCorrect == Spec => []UnnoticedForCause
BY InitNotice, NextNotice, NoticeCause, TypeCorrect, PTL DEF Spec

\* A manager that ends without an exception has joined every worker (joinWorkers).
THEOREM JoinCorrect == Spec => []NoThreadLeft
BY InitLeft, NextLeft, TypeCorrect, PTL DEF Spec

\* What the run manager_tracker shows by one trace, in general: a download of a File
\* without peers starts no worker whatever the tracker reports, because addPeersToFile
\* leaves an empty list empty (DownloadManager.cpp:89).  It is not what the documentation
\* asks for (ReportedPeerGetsWorker).
THEOREM ReportedNeverAsked == Spec => (peers = <<>> => [](workers = <<>>))
<1> DEFINE Alone == peers = <<>> /\ workers = <<>>
<1>1. Init /\ peers = <<>> => Alone
  BY DEF Init
<1>2. TypeOK /\ Alone /\ [Next]_vars => Alone'
  <2> SUFFICES ASSUME TypeOK, Alone, [Next]_vars
               PROVE  Alone'
    OBVIOUS
  <2>1. workers' = <<>>
    <3>1. \A k : k \notin Running
      BY DEF Running
    <3>2. Len(peers) = 0 /\ ~(next <= Len(peers))
      BY DEF TypeOK
    <3>3. UNCHANGED workers \/ (StartsWorker /\ ~UNCHANGED workers)
      BY <3>1, OtherSteps
    <3> QED
      BY <3>2, <3>3 DEF StartsWorker
  <2>2. CASE AddsPeerToFile
    BY <2>1, <2>2 DEF AddsPeerToFile, Crash
  <2>3. CASE ~AddsPeerToFile
    <3>1. UNCHANGED peers
      BY <2>3
         DEF Next, Manager, WorkerThread, Others, CannotConnect, ReceivesSeedlist,
             ReceivesNoIpv4Peer, CopiesLists, SkipsPeer, StartsWorker, AllPeersSeen,
             Checks, AsksFile, JoinsWorkers, FileCompletes, CallerReturns, WorkReturns,
             WorkThrows, vars, Crash
    <3> QED
      BY <2>1, <3>1
  <2> QED
    BY <2>2, <2>3
<1>3. Alone => workers = <<>>
  OBVIOUS
<1> QED
  BY <1>1, <1>2, <1>3, TypeCorrect, PTL DEF Spec
=============================================================================
