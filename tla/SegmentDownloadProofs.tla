------------------------ MODULE SegmentDownloadProofs ------------------------
(***************************************************************************)
(* Theorems about SegmentDownload, for every number of workers and         *)
(* segments, and whatever lists the peers send.                            *)
(*                                                                         *)
(* TypeOK is not inductive alone: what a worker does with its claim is     *)
(* well-typed only because cur is a number of its list while it has one.   *)
(***************************************************************************)
EXTENDS SegmentDownload, TLAPS

\* While a worker has a claim, cur is what it claimed.
ClaimNamed == \A w \in Workers : pc[w] \in ClaimPcs => cur[w] \in Numbers

TInv == TypeOK /\ ClaimNamed

\* The types hold initially.
LEMMA InitType == Init => TInv
<1> SUFFICES ASSUME Init
             PROVE  TInv
  OBVIOUS
<1>1. disk \in [Segments -> Contents]
  <2>1. PICK c \in {"absent", "zero"} : disk = [s \in Segments |-> c]
    BY DEF Init
  <2> QED
    BY <2>1 DEF Contents
<1>2. /\ alive \in BOOLEAN
      /\ segState \in [Segments -> SegmentStates]
      /\ isCompleted \in BOOLEAN
      /\ tainted \subseteq Segments
  BY DEF Init, NewSegments, SegmentStates
<1>2a. EmptyList \in [Numbers -> Nat]
  BY DEF EmptyList
<1>3. /\ pc \in [Workers -> PCs]
      /\ todo \in [Workers -> [Numbers -> Nat]]
      /\ cur \in [Workers -> Numbers \cup {NoSegment}]
      /\ answer \in [Workers -> Answers]
      /\ announced \in [Workers -> SUBSET Segments]
      /\ failed \in [Workers -> SUBSET Numbers]
  BY <1>2a DEF Init, EachWorker, PCs, Answers
<1>4. ClaimNamed
  BY DEF Init, EachWorker, ClaimNamed, ClaimPcs
<1> QED
  BY <1>1, <1>2, <1>3, <1>4 DEF TypeOK, TInv

\* The loop of work() takes a number that is left in the list.
LEMMA TakesType ==
  ASSUME TypeOK, NEW w \in Workers, NEW n \in Numbers, Takes(w, n)
  PROVE  todo' \in [Workers -> [Numbers -> Nat]]
<1>1. todo[w] \in [Numbers -> Nat] /\ todo[w][n] - 1 \in Nat
  BY DEF TypeOK, Takes
<1>2. todo' = [todo EXCEPT ![w] = [todo[w] EXCEPT ![n] = todo[w][n] - 1]]
  BY DEF Takes
<1> QED
  BY <1>1, <1>2 DEF TypeOK

\* What a store leaves of the local file, wherever its bytes land.
LEMMA StoresType ==
  ASSUME TypeOK, NEW w \in Workers, Stores(w)
  PROVE  disk' \in [Segments -> Contents] /\ tainted' \subseteq Segments
<1>1. PICK opened \in BOOLEAN, hit \in SUBSET Segments :
        LET good == IF opened /\ answer[w] = "bytes" THEN {cur[w]} ELSE {}
        IN  /\ disk' = [s \in Segments |->
                          IF ~opened \/ s \notin hit THEN disk[s]
                          ELSE IF s \in good THEN "data" ELSE "junk"]
            /\ tainted' = (tainted \cup hit) \ good
  BY DEF Stores
<1> QED
  BY <1>1 DEF TypeOK, Contents

\* Every step of a worker keeps the types.
LEMMA StepType ==
  ASSUME TInv, NEW w \in Workers, Step(w)
  PROVE  TInv'
<1> USE DEF TInv, TypeOK, ClaimNamed, SegmentStates, PCs, ClaimPcs, Answers,
            Goto, file, history
<1>1. CASE ConnectFails(w)
  BY <1>1 DEF ConnectFails
<1>2. CASE Connects(w)
  BY <1>2 DEF Connects
<1>3. CASE \E list \in Lists \cup {EmptyList} : ReceivesList(w, list)
  <2>1. PICK list \in [Numbers -> Nat] : ReceivesList(w, list)
    BY <1>3, ListsAssumption DEF EmptyList
  <2> QED
    BY <2>1 DEF ReceivesList
<1>4. CASE \E n \in Numbers : Claims(w, n) \/ Skips(w, n) \/ Faults(w, n)
  <2>1. PICK n \in Numbers : Claims(w, n) \/ Skips(w, n) \/ Faults(w, n)
    BY <1>4
  <2>2. todo' \in [Workers -> [Numbers -> Nat]]
    BY <2>1, TakesType DEF Claims, Skips, Faults
  <2>3. CASE Claims(w, n)
    BY <2>2, <2>3 DEF Claims, TryToSetToDownload, Writes
  <2>4. CASE Skips(w, n) \/ Faults(w, n)
    BY <2>2, <2>4 DEF Skips, Faults
  <2> QED
    BY <2>1, <2>3, <2>4
<1>6. CASE \E a \in Answers : ReceivesFragment(w, a)
  BY <1>6 DEF ReceivesFragment
<1>7. CASE Releases(w)
  BY <1>7 DEF Releases, SetSegmentState, Writes
<1>8. CASE Stores(w)
  <2>1. disk' \in [Segments -> Contents] /\ tainted' \subseteq Segments
    BY <1>8, StoresType
  <2> QED
    BY <1>8, <2>1 DEF Stores
<1>9. CASE Completes(w)
  BY <1>9 DEF Completes, SetSegmentState, Writes
<1>10. CASE Finishes(w)
  BY <1>10 DEF Finishes
<1> QED
  BY <1>1, <1>2, <1>3, <1>4, <1>6, <1>7, <1>8, <1>9, <1>10 DEF Step

\* Every step keeps the types.
LEMMA NextType == TInv /\ [Next]_vars => TInv'
<1> SUFFICES ASSUME TInv, [Next]_vars
             PROVE  TInv'
  OBVIOUS
<1>1. CASE \E w \in Workers : StartWorker(w)
  BY <1>1 DEF StartWorker, Goto, TInv, TypeOK, ClaimNamed, PCs, ClaimPcs, file,
              history
<1>2. CASE \E w \in Workers : Step(w)
  BY <1>2, StepType
<1>3. CASE IsComplete
  BY <1>3 DEF IsComplete, TInv, TypeOK, ClaimNamed, workers, history
<1>4. CASE CreateLocalFile
  BY <1>4 DEF CreateLocalFile, TInv, TypeOK, ClaimNamed, Contents, file, workers
<1>6. CASE UNCHANGED vars
  BY <1>6 DEF vars, file, workers, history, TInv, TypeOK, ClaimNamed
<1> QED
  BY <1>1, <1>2, <1>3, <1>4, <1>6 DEF Next

\* Every variable keeps its type, whatever lists the peers send: work() looks at no number
\* more often than it is in the list, and a number that is no segment's (File.cpp:12, 21)
\* gets into no set of segments.
THEOREM TypeCorrect == Spec => []TypeOK
<1>1. TInv => TypeOK
  BY DEF TInv
<1> QED
  BY InitType, NextType, <1>1, PTL DEF Spec

-----------------------------------------------------------------------------
(***************************************************************************)
(* The claim protocol.  ClaimsMatch ties the state of a segment to the     *)
(* place of a worker, so a worker that finds a segment FREE knows that     *)
(* nobody else holds it; that is what makes ExclusiveClaim inductive.      *)
(***************************************************************************)

ClaimInv == TInv /\ ExclusiveClaim /\ ClaimsMatch

\* A step that moves no worker into or out of a claim and changes no segment.
LEMMA ClaimsUnchanged ==
  ASSUME ClaimInv, segState' = segState,
         \A w \in Workers, s \in Segments : Holds(w, s)' <=> Holds(w, s)
  PROVE  ExclusiveClaim' /\ ClaimsMatch'
  BY DEF ClaimInv, ExclusiveClaim, ClaimsMatch

\* A claimed segment is DOWNLOADING.
LEMMA HeldIsDownloading ==
  ASSUME ClaimInv, NEW w \in Workers, pc[w] \in ClaimPcs
  PROVE  /\ cur[w] \in Numbers
         /\ cur[w] \in Segments => segState[cur[w]] = "DOWNLOADING"
  BY DEF ClaimInv, TInv, ClaimNamed, ClaimsMatch, Holds

\* A worker that gives its claim up, for either outcome.
LEMMA ClaimResolved ==
  ASSUME ClaimInv, NEW w \in Workers, pc[w] \in ClaimPcs,
         NEW outcome \in {"FREE", "COMPLETE"},
         segState' = [s \in Segments |-> IF s = cur[w] THEN outcome ELSE segState[s]],
         cur' = [cur EXCEPT ![w] = NoSegment],
         pc' = [pc EXCEPT ![w] = "loop"]
  PROVE  ExclusiveClaim' /\ ClaimsMatch'
<1>2. \A s \in Segments : ~Holds(w, s)'
  BY DEF ClaimInv, TInv, TypeOK, Holds, ClaimPcs
<1>3. \A v \in Workers \ {w}, s \in Segments : Holds(v, s)' <=> Holds(v, s)
  BY DEF ClaimInv, TInv, TypeOK, Holds
<1>4. cur[w] \in Segments => \A v \in Workers \ {w} : ~Holds(v, cur[w])
  BY DEF ClaimInv, ExclusiveClaim, Holds
<1>5. ExclusiveClaim'
  BY <1>2, <1>3 DEF ClaimInv, ExclusiveClaim
<1>6. ASSUME NEW s \in Segments
      PROVE  (segState[s] = "DOWNLOADING" <=> \E v \in Workers : Holds(v, s))'
  <2>1. CASE s = cur[w]
    <3>1. segState'[s] = outcome
      BY <2>1
    <3>2. \A v \in Workers : ~Holds(v, s)'
      BY <1>2, <1>3, <1>4, <2>1
    <3> QED
      BY <3>1, <3>2
  <2>2. CASE s # cur[w]
    <3>1. segState'[s] = segState[s]
      BY <2>2
    <3>2. ~Holds(w, s)
      BY <2>2 DEF Holds
    <3>3. segState[s] = "DOWNLOADING" <=> \E v \in Workers : Holds(v, s)
      BY DEF ClaimInv, ClaimsMatch
    <3>4. (\E v \in Workers : Holds(v, s)') <=> (\E v \in Workers : Holds(v, s))
      BY <1>2, <1>3, <3>2
    <3> QED
      BY <3>1, <3>3, <3>4
  <2> QED
    BY <2>1, <2>2
<1> QED
  BY <1>5, <1>6 DEF ClaimsMatch

\* A worker that claims a FREE segment, or a number that is no segment's.
LEMMA ClaimMade ==
  ASSUME ClaimInv, NEW w \in Workers, NEW n \in Numbers, Claims(w, n)
  PROVE  ExclusiveClaim' /\ ClaimsMatch'
<1>1. /\ n \in Segments => segState[n] = "FREE"
      /\ segState' = [s \in Segments |-> IF s = n THEN "DOWNLOADING" ELSE segState[s]]
      /\ pc[w] = "loop"
      /\ pc' = [pc EXCEPT ![w] = "request"]
      /\ cur' = [cur EXCEPT ![w] = n]
  BY DEF Claims, Takes, TryToSetToDownload, Writes, Goto
<1>2. \A r \in Segments : Holds(w, r)' <=> r = n
  BY <1>1 DEF ClaimInv, TInv, TypeOK, Holds, ClaimPcs
<1>3. \A v \in Workers \ {w}, r \in Segments : Holds(v, r)' <=> Holds(v, r)
  BY <1>1 DEF ClaimInv, TInv, TypeOK, Holds
<1>4. n \in Segments => \A v \in Workers : ~Holds(v, n)
  BY <1>1 DEF ClaimInv, ClaimsMatch
<1>5. \A r \in Segments : ~Holds(w, r)
  BY <1>1 DEF Holds, ClaimPcs
<1>6. ExclusiveClaim'
  BY <1>2, <1>3, <1>4 DEF ClaimInv, ExclusiveClaim
<1>7. ASSUME NEW r \in Segments
      PROVE  (segState[r] = "DOWNLOADING" <=> \E v \in Workers : Holds(v, r))'
  <2>1. CASE r = n
    <3>1. segState'[r] = "DOWNLOADING"
      BY <1>1, <2>1
    <3> QED
      BY <3>1, <1>2, <2>1
  <2>2. CASE r # n
    <3>1. segState'[r] = segState[r]
      BY <1>1, <2>2
    <3>2. (\E v \in Workers : Holds(v, r)') <=> (\E v \in Workers : Holds(v, r))
      BY <1>2, <1>3, <1>5, <2>2
    <3>3. segState[r] = "DOWNLOADING" <=> \E v \in Workers : Holds(v, r)
      BY DEF ClaimInv, ClaimsMatch
    <3> QED
      BY <3>1, <3>2, <3>3
  <2> QED
    BY <2>1, <2>2
<1> QED
  BY <1>6, <1>7 DEF ClaimsMatch

\* Every step keeps the claim protocol.
LEMMA NextClaims == ClaimInv /\ [Next]_vars => ClaimInv'
<1> SUFFICES ASSUME ClaimInv, [Next]_vars
             PROVE  ExclusiveClaim' /\ ClaimsMatch'
  BY NextType DEF ClaimInv
<1> USE DEF Goto, file, workers, history
<1>1. ASSUME NEW w \in Workers, StartWorker(w) \/ ConnectFails(w) \/ Connects(w)
      PROVE  ExclusiveClaim' /\ ClaimsMatch'
  BY <1>1, ClaimsUnchanged
     DEF ClaimInv, TInv, TypeOK, Holds, ClaimPcs, StartWorker, ConnectFails,
         Connects
<1>2. ASSUME NEW w \in Workers, NEW list, ReceivesList(w, list)
      PROVE  ExclusiveClaim' /\ ClaimsMatch'
  BY <1>2, ClaimsUnchanged
     DEF ClaimInv, TInv, TypeOK, Holds, ClaimPcs, ReceivesList
<1>3. ASSUME NEW w \in Workers, NEW n \in Numbers, Skips(w, n) \/ Faults(w, n)
      PROVE  ExclusiveClaim' /\ ClaimsMatch'
  BY <1>3, ClaimsUnchanged DEF Holds, Skips, Faults
<1>4. ASSUME NEW w \in Workers, NEW a \in Answers, ReceivesFragment(w, a)
      PROVE  ExclusiveClaim' /\ ClaimsMatch'
  BY <1>4, ClaimsUnchanged
     DEF ClaimInv, TInv, TypeOK, Holds, ClaimPcs, ReceivesFragment
<1>5. ASSUME NEW w \in Workers, Stores(w)
      PROVE  ExclusiveClaim' /\ ClaimsMatch'
  BY <1>5, ClaimsUnchanged
     DEF ClaimInv, TInv, TypeOK, Holds, ClaimPcs, Stores
<1>6. ASSUME NEW w \in Workers, Finishes(w)
      PROVE  ExclusiveClaim' /\ ClaimsMatch'
  BY <1>6, ClaimsUnchanged
     DEF ClaimInv, TInv, TypeOK, Holds, ClaimPcs, Finishes
<1>7. ASSUME NEW w \in Workers, Releases(w) \/ Completes(w)
      PROVE  ExclusiveClaim' /\ ClaimsMatch'
  BY <1>7, ClaimResolved DEF Releases, Completes, SetSegmentState, Writes, ClaimPcs
<1>8. CASE IsComplete \/ CreateLocalFile \/ UNCHANGED vars
  BY <1>8, ClaimsUnchanged DEF IsComplete, CreateLocalFile, vars, Holds
<1> QED
  BY <1>1, <1>2, <1>3, <1>4, <1>5, <1>6, <1>7, <1>8, ClaimMade
     DEF Next, Step

\* The claim protocol holds initially.
LEMMA InitClaims == Init => ClaimInv
<1>1. Init => ExclusiveClaim /\ ClaimsMatch
  BY DEF Init, NewSegments, EachWorker, ExclusiveClaim, ClaimsMatch, Holds,
         ClaimPcs
<1> QED
  BY <1>1, InitType DEF ClaimInv

\* No segment is ever downloaded by two workers at a time.
THEOREM ClaimsCorrect == Spec => []ExclusiveClaim
<1>1. ClaimInv => ExclusiveClaim
  BY DEF ClaimInv
<1> QED
  BY InitClaims, NextClaims, <1>1, PTL DEF Spec

\* A segment is DOWNLOADING exactly while a worker is at it.
THEOREM NoClaimLost == Spec => []ClaimsMatch
<1>1. ClaimInv => ClaimsMatch
  BY DEF ClaimInv
<1> QED
  BY InitClaims, NextClaims, <1>1, PTL DEF Spec

-----------------------------------------------------------------------------
(* The refinement of SegmentLedger: its safety part.                        *)

\* Every step of the workers, the manager and the menu is a step of the ledger or
\* leaves it as it is.
LEMMA StepsOfLedger ==
  ASSUME ClaimInv, [Next]_vars
  PROVE  [Ledger!LedgerNext]_(Ledger!ledger)
<1> USE DEF Ledger!ledger
<1>0. CASE UNCHANGED vars
  BY <1>0 DEF vars, file
<1> SUFFICES ASSUME Next
             PROVE  [Ledger!LedgerNext]_(Ledger!ledger)
  BY <1>0
<1>a. alive /\ segState \in [Segments -> SegmentStates]
  BY DEF Next, ClaimInv, TInv, TypeOK
<1>1. ASSUME NEW w \in Workers, NEW n \in Numbers, Claims(w, n)
      PROVE  [Ledger!LedgerNext]_(Ledger!ledger)
  <2>1. CASE n \in Segments
    <3>1. segState' = [segState EXCEPT ![n] = "DOWNLOADING"]
      BY <1>1, <1>a DEF Claims, TryToSetToDownload, Writes
    <3>2. Ledger!Claim(n)
      BY <1>1, <2>1, <3>1 DEF Claims, TryToSetToDownload, Writes, Ledger!Claim
    <3> QED
      BY <1>a, <2>1, <3>2 DEF Ledger!LedgerNext
  <2>2. CASE n \notin Segments
    BY <1>1, <1>a, <2>2 DEF Claims, TryToSetToDownload, Writes
  <2> QED
    BY <2>1, <2>2
<1>2. ASSUME NEW w \in Workers, NEW outcome \in {"FREE", "COMPLETE"},
             pc[w] \in ClaimPcs, SetSegmentState(cur[w], outcome), UNCHANGED alive
      PROVE  [Ledger!LedgerNext]_(Ledger!ledger)
  <2>1. CASE cur[w] \in Segments
    <3>1. segState[cur[w]] = "DOWNLOADING"
      BY <1>2, <2>1, HeldIsDownloading
    <3>2. segState' = [segState EXCEPT ![cur[w]] = outcome]
      BY <1>2, <1>a DEF SetSegmentState, Writes
    <3>3. Ledger!Resolve(cur[w])
      BY <1>2, <3>1, <3>2 DEF SetSegmentState, Writes, Ledger!Resolve
    <3> QED
      BY <1>a, <2>1, <3>3 DEF Ledger!LedgerNext
  <2>2. CASE cur[w] \notin Segments
    BY <1>2, <1>a, <2>2 DEF SetSegmentState, Writes
  <2> QED
    BY <2>1, <2>2
<1>3. ASSUME NEW w \in Workers, Releases(w) \/ Completes(w)
      PROVE  [Ledger!LedgerNext]_(Ledger!ledger)
  BY <1>3, <1>2 DEF Releases, Completes, ClaimPcs
<1>4. CASE IsComplete
  <2>1. isCompleted \in BOOLEAN
    BY DEF ClaimInv, TInv, TypeOK
  <2>2. CASE isCompleted \/ ~(\A s \in Segments : segState[s] = "COMPLETE")
    <3>1. isCompleted' = isCompleted
      BY <1>4, <2>1, <2>2, Zenon DEF IsComplete
    <3> QED
      BY <1>4, <3>1 DEF IsComplete
  <2>3. CASE \A s \in Segments : segState[s] = "COMPLETE"
    <3>1. isCompleted' = TRUE
      BY <1>4, <2>3, Zenon DEF IsComplete
    <3>2. Ledger!Announce
      BY <1>4, <2>3, <3>1 DEF IsComplete, Ledger!Announce
    <3> QED
      BY <1>a, <3>2 DEF Ledger!LedgerNext
  <2> QED
    BY <2>2, <2>3
<1>5. CASE CreateLocalFile
  BY <1>5 DEF CreateLocalFile, file
<1>6. ASSUME NEW w \in Workers, NEW n \in Numbers, Faults(w, n)
      PROVE  [Ledger!LedgerNext]_(Ledger!ledger)
  <2>1. Ledger!End
    BY <1>6 DEF Faults, file, Ledger!End
  <2> QED
    BY <1>a, <2>1 DEF Ledger!LedgerNext
<1>7. ASSUME NEW w \in Workers,
             \/ StartWorker(w) \/ ConnectFails(w) \/ Connects(w)
             \/ \E list \in Lists \cup {EmptyList} : ReceivesList(w, list)
             \/ \E n \in Numbers : Skips(w, n)
             \/ \E a \in Answers : ReceivesFragment(w, a)
             \/ Stores(w) \/ Finishes(w)
      PROVE  UNCHANGED Ledger!ledger
  BY <1>7 DEF StartWorker, ConnectFails, Connects, ReceivesList, Skips,
              ReceivesFragment, Stores, Finishes, file
<1> QED
  BY <1>1, <1>3, <1>4, <1>5, <1>6, <1>7 DEF Next, Step

\* The File that the workers share is a SegmentLedger.
THEOREM LedgerImplemented == Spec => Ledger!LedgerSafety
<1>1. Init => Ledger!LedgerInit
  BY DEF Init, NewSegments, Ledger!LedgerInit
<1> QED
  BY <1>1, InitClaims, NextClaims, StepsOfLedger, PTL
     DEF Spec, Ledger!LedgerSafety

-----------------------------------------------------------------------------
(***************************************************************************)
(* What COMPLETE means for the disk.  Between the store and the completion *)
(* of a segment the same must hold of the worker's claim, and it can be    *)
(* relied on because nobody else stores that segment in between.           *)
(***************************************************************************)

\* A segment that was just stored, and not in a wrong way, is on the disk.
StoredIsData ==
    \A w \in Workers :
        pc[w] = "stored" /\ cur[w] \in Segments \ tainted => disk[cur[w]] = "data"

DataInv == ClaimInv /\ CompletedIsFinal /\ StoredIsData /\ CompleteIsStored

\* A store leaves every segment but the worker's own alone, or taints it: only a
\* number that is no segment's can do that.
LEMMA StoresOwnSegment ==
  ASSUME TypeOK, NEW w \in Workers, Stores(w), NEW s \in Segments, s # cur[w]
  PROVE  \/ disk'[s] = disk[s] /\ (s \in tainted' <=> s \in tainted)
         \/ /\ disk'[s] \in {disk[s], "junk"}
            /\ s \in tainted'
            /\ cur[w] \notin Segments
<1>1. PICK opened \in BOOLEAN, hit \in SUBSET Segments :
        /\ cur[w] \in Segments => hit = {cur[w]}
        /\ LET good == IF opened /\ answer[w] = "bytes" THEN {cur[w]} ELSE {}
           IN  /\ disk' = [r \in Segments |->
                             IF ~opened \/ r \notin hit THEN disk[r]
                             ELSE IF r \in good THEN "data" ELSE "junk"]
               /\ tainted' = (tainted \cup hit) \ good
  BY DEF Stores
<1>2. CASE s \in hit
  BY <1>1, <1>2
<1>3. CASE s \notin hit
  BY <1>1, <1>3
<1> QED
  BY <1>2, <1>3

\* What a store that is not counted as tainted has done.
LEMMA StoreWrites ==
  ASSUME TypeOK, NEW w \in Workers, Stores(w), cur[w] \in Segments \ tainted'
  PROVE  disk'[cur[w]] = "data"
<1>1. PICK opened \in BOOLEAN, hit \in SUBSET Segments :
        /\ hit = {cur[w]}
        /\ LET good == IF opened /\ answer[w] = "bytes" THEN {cur[w]} ELSE {}
           IN  /\ disk' = [r \in Segments |->
                             IF ~opened \/ r \notin hit THEN disk[r]
                             ELSE IF r \in good THEN "data" ELSE "junk"]
               /\ tainted' = (tainted \cup hit) \ good
  BY DEF Stores
<1>2. opened /\ answer[w] = "bytes"
  BY <1>1
<1> QED
  BY <1>1, <1>2

\* A store keeps the invariant.
LEMMA StoresData ==
  ASSUME DataInv, NEW w \in Workers, Stores(w)
  PROVE  StoredIsData' /\ CompleteIsStored'
<1>1. cur[w] \in Segments => segState[cur[w]] = "DOWNLOADING"
  BY HeldIsDownloading DEF DataInv, Stores, ClaimPcs
<1>2. UNCHANGED <<segState, cur>> /\ pc' = [pc EXCEPT ![w] = "stored"] /\ TypeOK
  BY DEF Stores, file, Goto, DataInv, ClaimInv, TInv
<1>3. ASSUME NEW v \in Workers, pc'[v] = "stored", cur'[v] \in Segments \ tainted'
      PROVE  disk'[cur'[v]] = "data"
  <2>1. CASE v = w
    BY <1>2, <1>3, <2>1, StoreWrites
  <2>2. CASE v # w
    <3>1. pc[v] = "stored" /\ cur'[v] = cur[v] /\ cur[v] \in Segments
      BY <1>2, <1>3, <2>2 DEF TypeOK
    <3>2. cur[v] # cur[w]
      BY <2>2, <3>1 DEF DataInv, ClaimInv, ExclusiveClaim, Holds, ClaimPcs, Stores
    <3> QED
      BY <1>2, <1>3, <3>1, <3>2, StoresOwnSegment DEF DataInv, StoredIsData
  <2> QED
    BY <2>1, <2>2
<1>4. ASSUME NEW s \in Segments, segState'[s] = "COMPLETE", s \notin tainted'
      PROVE  disk'[s] = "data"
  <2>1. segState[s] = "COMPLETE" /\ s # cur[w]
    BY <1>1, <1>2, <1>4
  <2> QED
    BY <1>2, <1>4, <2>1, StoresOwnSegment DEF DataInv, CompleteIsStored
<1> QED
  BY <1>3, <1>4 DEF StoredIsData, CompleteIsStored

\* A step that neither stores, nor completes a segment, nor moves a worker to
\* "stored".
LEMMA DataUnchanged ==
  ASSUME DataInv, UNCHANGED <<disk, tainted>>,
         \A s \in Segments : segState'[s] = "COMPLETE" => segState[s] = "COMPLETE",
         \A w \in Workers :
            pc'[w] = "stored" => pc[w] = "stored" /\ cur'[w] = cur[w]
  PROVE  StoredIsData' /\ CompleteIsStored'
  BY DEF DataInv, StoredIsData, CompleteIsStored

\* Completing a claim keeps the invariant: the claim's segment was stored.
LEMMA CompletesData ==
  ASSUME DataInv, NEW w \in Workers, Completes(w)
  PROVE  StoredIsData' /\ CompleteIsStored'
<1>1. /\ pc[w] = "stored"
      /\ segState' = [s \in Segments |-> IF s = cur[w] THEN "COMPLETE" ELSE segState[s]]
      /\ cur' = [cur EXCEPT ![w] = NoSegment]
      /\ pc' = [pc EXCEPT ![w] = "loop"]
      /\ UNCHANGED <<disk, tainted>>
  BY DEF Completes, SetSegmentState, Writes, Goto, history
<1>2. StoredIsData'
  BY <1>1 DEF DataInv, ClaimInv, TInv, TypeOK, StoredIsData
<1>3. CompleteIsStored'
  BY <1>1 DEF DataInv, StoredIsData, CompleteIsStored
<1> QED
  BY <1>2, <1>3

\* A file that was complete stays complete.
LEMMA NextFinal == ClaimInv /\ CompletedIsFinal /\ [Next]_vars => CompletedIsFinal'
<1> SUFFICES ASSUME ClaimInv, CompletedIsFinal, [Next]_vars
             PROVE  CompletedIsFinal'
  OBVIOUS
<1>1. [Ledger!LedgerNext]_(Ledger!ledger)
  BY StepsOfLedger
<1>2. CASE \E s \in Segments : Ledger!Claim(s) \/ Ledger!Resolve(s)
  <2>1. PICK s \in Segments : Ledger!Claim(s) \/ Ledger!Resolve(s)
    BY <1>2
  <2>2. ~isCompleted /\ isCompleted' = isCompleted
    BY <2>1 DEF Ledger!Claim, Ledger!Resolve, CompletedIsFinal
  <2> QED
    BY <2>2 DEF CompletedIsFinal
<1>3. CASE Ledger!Announce
  BY <1>3 DEF Ledger!Announce, CompletedIsFinal
<1>4. CASE Ledger!End
  BY <1>4 DEF Ledger!End, CompletedIsFinal
<1>5. CASE UNCHANGED Ledger!ledger
  BY <1>5 DEF Ledger!ledger, CompletedIsFinal
<1> QED
  BY <1>1, <1>2, <1>3, <1>4, <1>5 DEF Ledger!LedgerNext

\* Every step keeps the invariant.
LEMMA NextData == DataInv /\ [Next]_vars => DataInv'
<1> SUFFICES ASSUME DataInv, [Next]_vars
             PROVE  StoredIsData' /\ CompleteIsStored'
  BY NextClaims, NextFinal DEF DataInv
<1> USE DEF Goto, file, workers, history
<1>1. ASSUME NEW w \in Workers,
             \/ StartWorker(w) \/ ConnectFails(w) \/ Connects(w)
             \/ \E list \in Lists \cup {EmptyList} : ReceivesList(w, list)
             \/ \E n \in Numbers : Skips(w, n) \/ Faults(w, n)
             \/ \E a \in Answers : ReceivesFragment(w, a)
             \/ Finishes(w)
      PROVE  StoredIsData' /\ CompleteIsStored'
  <2>1. UNCHANGED <<disk, tainted, segState, cur>>
    BY <1>1 DEF StartWorker, ConnectFails, Connects, ReceivesList, Skips, Faults,
                ReceivesFragment, Finishes
  <2>2. \A v \in Workers : pc'[v] = "stored" => pc[v] = "stored"
    BY <1>1 DEF StartWorker, ConnectFails, Connects, ReceivesList, Skips, Faults,
                ReceivesFragment, Finishes, DataInv, ClaimInv, TInv, TypeOK
  <2> QED
    BY <2>1, <2>2, DataUnchanged
<1>2. ASSUME NEW w \in Workers, NEW n \in Numbers, Claims(w, n)
      PROVE  StoredIsData' /\ CompleteIsStored'
  <2>1. \A r \in Segments : segState'[r] = "COMPLETE" => segState[r] = "COMPLETE"
    BY <1>2 DEF Claims, TryToSetToDownload, Writes, DataInv, ClaimInv, TInv, TypeOK
  <2>2. \A v \in Workers :
            pc'[v] = "stored" => pc[v] = "stored" /\ cur'[v] = cur[v]
    BY <1>2 DEF Claims, DataInv, ClaimInv, TInv, TypeOK
  <2> QED
    BY <1>2, <2>1, <2>2, DataUnchanged DEF Claims
<1>3. ASSUME NEW w \in Workers, Releases(w)
      PROVE  StoredIsData' /\ CompleteIsStored'
  <2>1. \A r \in Segments : segState'[r] = "COMPLETE" => segState[r] = "COMPLETE"
    BY <1>3 DEF Releases, SetSegmentState, Writes, DataInv, ClaimInv, TInv, TypeOK
  <2>2. \A v \in Workers :
            pc'[v] = "stored" => pc[v] = "stored" /\ cur'[v] = cur[v]
    BY <1>3 DEF Releases, DataInv, ClaimInv, TInv, TypeOK
  <2> QED
    BY <1>3, <2>1, <2>2, DataUnchanged DEF Releases
<1>4. CASE IsComplete \/ UNCHANGED vars
  BY <1>4, DataUnchanged DEF IsComplete, vars
<1>5. CASE CreateLocalFile
  <2>1. tainted' = Segments /\ UNCHANGED <<pc, cur, segState>>
    BY <1>5 DEF CreateLocalFile
  <2> QED
    BY <2>1 DEF StoredIsData, CompleteIsStored
<1> QED
  BY <1>1, <1>2, <1>3, <1>4, <1>5, StoresData, CompletesData DEF Next, Step

\* The invariant holds initially.
LEMMA InitData == Init => DataInv
<1>1. Init => CompletedIsFinal /\ StoredIsData /\ CompleteIsStored
  BY DEF Init, NewSegments, EachWorker, CompletedIsFinal, StoredIsData,
         CompleteIsStored
<1> QED
  BY <1>1, InitClaims DEF DataInv

\* The cached answer of isComplete is final.
THEOREM CompleteCorrect == Spec => []CompletedIsFinal
<1>1. DataInv => CompletedIsFinal
  BY DEF DataInv
<1> QED
  BY InitData, NextData, <1>1, PTL DEF Spec

\* A COMPLETE segment holds the peer's bytes unless its store went wrong in a way
\* that work() overlooks.
THEOREM CompleteHasBytes == Spec => []CompleteIsStored
<1>1. DataInv => CompleteIsStored
  BY DEF DataInv
<1> QED
  BY InitData, NextData, <1>1, PTL DEF Spec

-----------------------------------------------------------------------------
(***************************************************************************)
(* What happens to bytes that are on the disk.  A segment has bytes only   *)
(* once it is COMPLETE, or between its store and its completion; no other  *)
(* worker can claim it then.                                               *)
(***************************************************************************)

DataWasStored ==
    \A s \in Segments :
        disk[s] = "data" => \/ segState[s] = "COMPLETE"
                            \/ \E w \in Workers : pc[w] = "stored" /\ cur[w] = s

KeptInv == ClaimInv /\ DataWasStored

\* A step that changes no bytes, undoes no COMPLETE and moves no worker on that
\* has just stored.
LEMMA KeptUnchanged ==
  ASSUME DataWasStored, UNCHANGED disk,
         \A s \in Segments : segState[s] = "COMPLETE" => segState'[s] = "COMPLETE",
         \A w \in Workers :
            pc[w] = "stored" => pc'[w] = "stored" /\ cur'[w] = cur[w]
  PROVE  DataWasStored'
  BY DEF DataWasStored

\* A store puts its own segment between store and completion.
LEMMA StoresKept ==
  ASSUME KeptInv, NEW w \in Workers, Stores(w)
  PROVE  DataWasStored'
<1>1. /\ pc[w] = "answered"
      /\ UNCHANGED <<segState, cur>>
      /\ pc' = [pc EXCEPT ![w] = "stored"]
  BY DEF Stores, file, Goto
<1>2. ASSUME NEW s \in Segments, disk'[s] = "data"
      PROVE  \/ segState'[s] = "COMPLETE"
             \/ \E v \in Workers : pc'[v] = "stored" /\ cur'[v] = s
  <2>1. CASE s = cur[w]
    BY <1>1, <2>1 DEF KeptInv, ClaimInv, TInv, TypeOK
  <2>2. CASE s # cur[w]
    <3>1. disk[s] = "data"
      BY <1>2, <2>2, StoresOwnSegment DEF KeptInv, ClaimInv, TInv
    <3>2. CASE segState[s] = "COMPLETE"
      BY <1>1, <3>2
    <3>3. CASE \E v \in Workers : pc[v] = "stored" /\ cur[v] = s
      BY <1>1, <3>3 DEF KeptInv, ClaimInv, TInv, TypeOK
    <3> QED
      BY <1>1, <1>2, <3>1, <3>2, <3>3 DEF KeptInv, DataWasStored
  <2> QED
    BY <2>1, <2>2
<1> QED
  BY <1>2 DEF DataWasStored

\* Completing makes the segment that was stored COMPLETE.
LEMMA CompletesKept ==
  ASSUME KeptInv, NEW w \in Workers, Completes(w)
  PROVE  DataWasStored'
<1>1. /\ segState' = [s \in Segments |-> IF s = cur[w] THEN "COMPLETE" ELSE segState[s]]
      /\ \A v \in Workers \ {w} : pc'[v] = pc[v] /\ cur'[v] = cur[v]
      /\ UNCHANGED disk
  BY DEF KeptInv, ClaimInv, TInv, TypeOK, Completes, SetSegmentState, Writes, Goto,
         history
<1>2. ASSUME NEW s \in Segments, disk'[s] = "data"
      PROVE  \/ segState'[s] = "COMPLETE"
             \/ \E v \in Workers : pc'[v] = "stored" /\ cur'[v] = s
  <2>1. CASE segState[s] = "COMPLETE" \/ s = cur[w]
    BY <1>1, <2>1
  <2>2. CASE segState[s] # "COMPLETE" /\ s # cur[w]
    <3>1. PICK v \in Workers : pc[v] = "stored" /\ cur[v] = s
      BY <1>1, <1>2, <2>2 DEF KeptInv, DataWasStored
    <3> QED
      BY <1>1, <2>2, <3>1
  <2> QED
    BY <2>1, <2>2
<1> QED
  BY <1>2 DEF DataWasStored

\* Every step keeps the invariant.
LEMMA NextKept == KeptInv /\ [Next]_vars => KeptInv'
<1> SUFFICES ASSUME KeptInv, [Next]_vars
             PROVE  DataWasStored'
  BY NextClaims DEF KeptInv
<1> USE DEF Goto, file, workers, history
<1>1. ASSUME NEW w \in Workers,
             \/ StartWorker(w) \/ ConnectFails(w) \/ Connects(w)
             \/ \E list \in Lists \cup {EmptyList} : ReceivesList(w, list)
             \/ \E n \in Numbers : Skips(w, n) \/ Faults(w, n)
             \/ \E a \in Answers : ReceivesFragment(w, a)
             \/ Finishes(w)
      PROVE  DataWasStored'
  <2>1. UNCHANGED <<disk, segState, cur>>
    BY <1>1 DEF StartWorker, ConnectFails, Connects, ReceivesList, Skips, Faults,
                ReceivesFragment, Finishes
  <2>2. \A v \in Workers : pc[v] = "stored" => pc'[v] = "stored"
    BY <1>1 DEF StartWorker, ConnectFails, Connects, ReceivesList, Skips, Faults,
                ReceivesFragment, Finishes, KeptInv, ClaimInv, TInv, TypeOK
  <2> QED
    BY <2>1, <2>2, KeptUnchanged DEF KeptInv
<1>2. ASSUME NEW w \in Workers, NEW n \in Numbers, Claims(w, n)
      PROVE  DataWasStored'
  <2>1. \A r \in Segments : segState[r] = "COMPLETE" => segState'[r] = "COMPLETE"
    BY <1>2 DEF Claims, TryToSetToDownload, Writes, KeptInv, ClaimInv, TInv, TypeOK
  <2>2. \A v \in Workers :
            pc[v] = "stored" => pc'[v] = "stored" /\ cur'[v] = cur[v]
    BY <1>2 DEF Claims, Takes, KeptInv, ClaimInv, TInv, TypeOK
  <2> QED
    BY <1>2, <2>1, <2>2, KeptUnchanged DEF Claims, KeptInv
<1>3. ASSUME NEW w \in Workers, Releases(w)
      PROVE  DataWasStored'
  <2>1. cur[w] \in Segments => segState[cur[w]] = "DOWNLOADING"
    BY <1>3, HeldIsDownloading DEF KeptInv, Releases, ClaimPcs
  <2>2. \A r \in Segments : segState[r] = "COMPLETE" => segState'[r] = "COMPLETE"
    BY <1>3, <2>1 DEF Releases, SetSegmentState, Writes, KeptInv, ClaimInv, TInv, TypeOK
  <2>3. \A v \in Workers :
            pc[v] = "stored" => pc'[v] = "stored" /\ cur'[v] = cur[v]
    BY <1>3 DEF Releases, KeptInv, ClaimInv, TInv, TypeOK
  <2> QED
    BY <1>3, <2>2, <2>3, KeptUnchanged DEF Releases, KeptInv
<1>4. CASE IsComplete \/ UNCHANGED vars
  BY <1>4, KeptUnchanged DEF IsComplete, vars, KeptInv
<1>5. CASE CreateLocalFile
  BY <1>5 DEF CreateLocalFile, DataWasStored
<1> QED
  BY <1>1, <1>2, <1>3, <1>4, <1>5, StoresKept, CompletesKept DEF Next, Step

\* The invariant holds initially.
LEMMA InitKept == Init => KeptInv
<1>1. Init => DataWasStored
  <2> SUFFICES ASSUME Init, NEW s \in Segments
               PROVE  disk[s] # "data"
    BY DEF DataWasStored
  <2>1. PICK c \in {"absent", "zero"} : disk = [r \in Segments |-> c]
    BY DEF Init
  <2> QED
    BY <2>1
<1> QED
  BY <1>1, InitClaims DEF KeptInv

\* Bytes on the disk are lost only to createLocalFile, or to the store of a number
\* that is no segment's.
THEOREM StoredKept == Spec => StoredBytesKept
<1>1. ASSUME KeptInv, [Next]_vars, NEW s \in Segments,
             disk[s] = "data", disk'[s] # "data", ~CreateLocalFile
      PROVE  \E w \in Workers : Stores(w) /\ cur[w] \in Others
  <2>1. \E w \in Workers : Stores(w)
    BY <1>1 DEF Next, Step, StartWorker, ConnectFails, Connects, ReceivesList,
       Claims, Skips, Faults, ReceivesFragment, Releases, Completes, Finishes,
       IsComplete, vars
  <2>2. PICK w \in Workers : Stores(w)
    BY <2>1
  <2>3. cur[w] \in Numbers
    BY <1>1, <2>2, HeldIsDownloading DEF KeptInv, Stores, ClaimPcs
  <2>4. ASSUME cur[w] \in Segments
        PROVE  FALSE
    <3>1. cur[w] = s
      BY <1>1, <2>2, <2>4, StoresOwnSegment DEF KeptInv, ClaimInv, TInv
    <3>2. segState[s] = "DOWNLOADING"
      BY <1>1, <2>2, <3>1, HeldIsDownloading DEF KeptInv, Stores, ClaimPcs
    <3>3. \A v \in Workers : ~(pc[v] = "stored" /\ cur[v] = s)
      BY <1>1, <2>2, <3>1
         DEF KeptInv, ClaimInv, ExclusiveClaim, Holds, ClaimPcs, Stores
    <3> QED
      BY <1>1, <3>2, <3>3 DEF KeptInv, DataWasStored
  <2> QED
    BY <2>2, <2>3, <2>4 DEF Numbers
<1>2. KeptInv /\ [Next]_vars =>
        [\A s \in Segments :
            disk[s] = "data" /\ disk'[s] # "data" =>
              \/ CreateLocalFile
              \/ \E w \in Workers : Stores(w) /\ cur[w] \in Others]_vars
  BY <1>1
<1> QED
  BY <1>2, InitKept, NextKept, PTL DEF Spec, StoredBytesKept

-----------------------------------------------------------------------------
(***************************************************************************)
(* Why workers end (the safety part of WorkersFinish): nothing that        *)
(* anybody does makes a worker's way longer, once it has its list.         *)
(***************************************************************************)

\* Steps to the end of work(), not counting further fragments.
StepsLeft(w) ==
    CASE pc[w] = "connect"  -> 6
      [] pc[w] = "list"     -> 5
      [] pc[w] = "request"  -> 4
      [] pc[w] = "answered" -> 3
      [] pc[w] = "stored"   -> 2
      [] pc[w] = "loop"     -> 1
      [] OTHER              -> 0

\* A worker has taken one number off its list.
OneTaken(w) ==
    \E n \in Numbers :
        todo[w][n] > 0 /\ todo'[w] = [todo[w] EXCEPT ![n] = @ - 1]

\* Every step of a worker leaves it one number fewer, or as many and fewer steps;
\* a list is received once.
WorkersAdvance ==
    \A w \in Workers :
        pc[w] # "idle" =>
            \/ pc'[w] = pc[w] /\ todo'[w] = todo[w]
            \/ OneTaken(w)
            \/ StepsLeft(w)' < StepsLeft(w) /\ (todo'[w] = todo[w] \/ pc[w] = "list")

LEMMA StepAdvances ==
  ASSUME TypeOK, NEW w \in Workers, Step(w)
  PROVE  \/ OneTaken(w)
         \/ StepsLeft(w)' < StepsLeft(w) /\ (todo'[w] = todo[w] \/ pc[w] = "list")
<1> USE DEF TypeOK, StepsLeft, Goto
<1>1. CASE ConnectFails(w) \/ Connects(w)
  BY <1>1 DEF ConnectFails, Connects
<1>2. CASE \E list \in Lists \cup {EmptyList} : ReceivesList(w, list)
  BY <1>2 DEF ReceivesList
<1>3. CASE \E n \in Numbers : Claims(w, n) \/ Skips(w, n) \/ Faults(w, n)
  <2>1. PICK n \in Numbers : Takes(w, n)
    BY <1>3 DEF Claims, Skips, Faults
  <2> QED
    BY <2>1 DEF Takes, OneTaken
<1>4. CASE \E a \in Answers : ReceivesFragment(w, a)
  BY <1>4 DEF ReceivesFragment
<1>5. CASE Releases(w) \/ Stores(w) \/ Completes(w)
  BY <1>5 DEF Releases, Stores, Completes
<1>6. CASE Finishes(w)
  BY <1>6 DEF Finishes
<1> QED
  BY <1>1, <1>2, <1>3, <1>4, <1>5, <1>6 DEF Step

\* A worker's step leaves the others where they are.
LEMMA OthersStay ==
  ASSUME TypeOK, NEW w \in Workers, Step(w) \/ StartWorker(w), NEW v \in Workers \ {w}
  PROVE  pc'[v] = pc[v] /\ todo'[v] = todo[v]
BY DEF TypeOK, Goto, Step, StartWorker, ConnectFails, Connects, ReceivesList, Takes,
       Claims, Skips, Faults, ReceivesFragment, Releases, Stores, Completes, Finishes

\* However long its list, a started worker has finitely many steps to take, whatever
\* other workers, the menu and isComplete do.
THEOREM WorkersGoOn == Spec => [][WorkersAdvance]_vars
<1>1. TypeOK /\ [Next]_vars => [WorkersAdvance]_vars
  <2> SUFFICES ASSUME TypeOK, Next, NEW v \in Workers, pc[v] # "idle"
               PROVE  \/ pc'[v] = pc[v] /\ todo'[v] = todo[v]
                      \/ OneTaken(v)
                      \/ /\ StepsLeft(v)' < StepsLeft(v)
                         /\ todo'[v] = todo[v] \/ pc[v] = "list"
    BY DEF WorkersAdvance
  <2>1. ASSUME NEW w \in Workers, StartWorker(w) \/ Step(w)
        PROVE  (v = w /\ Step(w)) \/ UNCHANGED <<pc[v], todo[v]>>
    <3>1. CASE v = w
      <4>1. ~StartWorker(w)
        BY <3>1 DEF StartWorker
      <4> QED
        BY <2>1, <3>1, <4>1
    <3>2. CASE v # w
      BY <2>1, <3>2, OthersStay
    <3> QED
      BY <3>1, <3>2
  <2>2. CASE IsComplete \/ CreateLocalFile
    BY <2>2 DEF IsComplete, CreateLocalFile, workers
  <2> QED
    BY <2>1, <2>2, StepAdvances DEF Next
<1> QED
  BY <1>1, TypeCorrect, PTL DEF Spec

-----------------------------------------------------------------------------
(***************************************************************************)
(* What is still missing was tried.  A fragment leaves a worker's list     *)
(* when it is claimed or when it is not FREE, and becomes FREE again only  *)
(* after a request that failed.                                            *)
(***************************************************************************)

\* An announced fragment is still to be looked at, or taken, or was tried.
MissingTracked ==
    \A w \in Workers : \A s \in announced[w] :
        todo[w][s] > 0 \/ segState[s] # "FREE" \/ \E v \in Workers : s \in failed[v]

\* A worker that is about to give a claim back has a failed request behind it.
FailureNoted ==
    \A w \in Workers :
        pc[w] = "answered" /\ answer[w] = "error" => cur[w] \in failed[w]

\* Before it has its list, and when it has ended, a worker has nothing to do.
NothingToDo ==
    \A w \in Workers :
        pc[w] \in {"idle", "connect", "list", "finished"} => todo[w] = EmptyList

MissingInv == TInv /\ MissingTracked /\ FailureNoted /\ NothingToDo

\* Every step keeps the invariant.
LEMMA NextMissing == MissingInv /\ [Next]_vars => MissingInv'
<1> SUFFICES ASSUME MissingInv, [Next]_vars
             PROVE  MissingTracked' /\ FailureNoted' /\ NothingToDo'
  BY NextType DEF MissingInv
<1> USE DEF Goto, file, workers, history, MissingInv, TInv, TypeOK
<1>1. ASSUME NEW w \in Workers,
             StartWorker(w) \/ ConnectFails(w) \/ Connects(w) \/ Finishes(w)
      PROVE  MissingTracked' /\ FailureNoted' /\ NothingToDo'
  <2>1. UNCHANGED <<segState, todo, cur, answer, announced, failed>>
    BY <1>1 DEF StartWorker, ConnectFails, Connects, Finishes
  <2>2. NothingToDo'
    BY <1>1 DEF StartWorker, ConnectFails, Connects, Finishes, NothingToDo
  <2>3. FailureNoted'
    BY <1>1 DEF StartWorker, ConnectFails, Connects, Finishes, FailureNoted
  <2> QED
    BY <2>1, <2>2, <2>3 DEF MissingTracked
<1>2. ASSUME NEW w \in Workers, NEW list \in Lists \cup {EmptyList},
             ReceivesList(w, list)
      PROVE  MissingTracked' /\ FailureNoted' /\ NothingToDo'
  <2>1. list \in [Numbers -> Nat]
    BY ListsAssumption DEF EmptyList
  <2> QED
    BY <1>2, <2>1 DEF ReceivesList, MissingTracked, FailureNoted, NothingToDo
<1>3. ASSUME NEW w \in Workers, NEW n \in Numbers, Takes(w, n),
             UNCHANGED <<announced, failed>>,
             n \in Segments => segState'[n] # "FREE",
             \A s \in Segments : segState'[s] = "FREE" => segState[s] = "FREE"
      PROVE  MissingTracked'
  <2> SUFFICES ASSUME NEW v \in Workers, NEW s \in announced[v],
                      segState'[s] = "FREE"
               PROVE  todo'[v][s] > 0 \/ \E u \in Workers : s \in failed[u]
    BY <1>3 DEF MissingTracked
  <2>1. s \in Segments /\ segState[s] = "FREE" /\ s # n
    BY <1>3
  <2>2. todo[v][s] > 0 \/ \E u \in Workers : s \in failed[u]
    BY <2>1 DEF MissingTracked
  <2>3. s \in Numbers
    BY <2>1 DEF Numbers
  <2>4. todo' = [todo EXCEPT ![w] = [todo[w] EXCEPT ![n] = todo[w][n] - 1]]
    BY <1>3 DEF Takes
  <2>5. todo[w] \in [Numbers -> Nat] /\ todo \in [Workers -> [Numbers -> Nat]]
    OBVIOUS
  <2>6. todo'[v][s] = todo[v][s]
    BY <2>1, <2>3, <2>4, <2>5
  <2> QED
    BY <2>2, <2>6
<1>4. ASSUME NEW w \in Workers, NEW n \in Numbers,
             Claims(w, n) \/ Skips(w, n) \/ Faults(w, n)
      PROVE  MissingTracked' /\ FailureNoted' /\ NothingToDo'
  <2>1. Takes(w, n) /\ UNCHANGED <<announced, failed, answer>>
    BY <1>4 DEF Claims, Skips, Faults
  <2>2. NothingToDo'
    <3> SUFFICES ASSUME NEW v \in Workers,
                        pc'[v] \in {"idle", "connect", "list", "finished"}
                 PROVE  todo'[v] = EmptyList
      BY DEF NothingToDo
    <3>1. v # w /\ pc'[v] = pc[v]
      BY <1>4, <2>1 DEF Claims, Skips, Faults, Takes
    <3> QED
      BY <2>1, <3>1 DEF Takes, NothingToDo
  <2>3. FailureNoted'
    <3> SUFFICES ASSUME NEW v \in Workers, pc'[v] = "answered", answer'[v] = "error"
                 PROVE  cur'[v] \in failed'[v]
      BY DEF FailureNoted
    <3>1. pc'[v] = pc[v] /\ cur'[v] = cur[v]
      BY <1>4 DEF Claims, Skips, Faults, Takes
    <3> QED
      BY <2>1, <3>1 DEF FailureNoted
  <2>4. CASE Claims(w, n)
    BY <1>3, <2>1, <2>2, <2>3, <2>4 DEF Claims, TryToSetToDownload, Writes
  <2>5. CASE Skips(w, n)
    BY <1>3, <2>1, <2>2, <2>3, <2>5 DEF Skips
  <2>6. CASE Faults(w, n)
    <3>1. n \notin Segments
      BY <2>6, OthersAssumption DEF Faults
    <3> QED
      BY <1>3, <2>1, <2>2, <2>3, <2>6, <3>1 DEF Faults
  <2> QED
    BY <1>4, <2>4, <2>5, <2>6
<1>5. ASSUME NEW w \in Workers, NEW a \in Answers, ReceivesFragment(w, a)
      PROVE  MissingTracked' /\ FailureNoted' /\ NothingToDo'
  <2>1. \A v \in Workers : failed[v] \subseteq failed'[v]
    BY <1>5 DEF ReceivesFragment
  <2>2. MissingTracked'
    BY <1>5, <2>1 DEF ReceivesFragment, MissingTracked
  <2>3. FailureNoted'
    BY <1>5 DEF ReceivesFragment, FailureNoted
  <2> QED
    BY <1>5, <2>2, <2>3 DEF ReceivesFragment, NothingToDo
<1>6. ASSUME NEW w \in Workers, Releases(w)
      PROVE  MissingTracked' /\ FailureNoted' /\ NothingToDo'
  <2>1. cur[w] \in failed[w]
    BY <1>6 DEF Releases, FailureNoted
  <2>2. MissingTracked'
    BY <1>6, <2>1 DEF Releases, SetSegmentState, Writes, MissingTracked
  <2> QED
    BY <1>6, <2>2 DEF Releases, FailureNoted, NothingToDo
<1>7. ASSUME NEW w \in Workers, Stores(w)
      PROVE  MissingTracked' /\ FailureNoted' /\ NothingToDo'
  BY <1>7 DEF Stores, MissingTracked, FailureNoted, NothingToDo
<1>8. ASSUME NEW w \in Workers, Completes(w)
      PROVE  MissingTracked' /\ FailureNoted' /\ NothingToDo'
  BY <1>8 DEF Completes, SetSegmentState, Writes, MissingTracked, FailureNoted, NothingToDo
<1>9. CASE IsComplete \/ CreateLocalFile \/ UNCHANGED vars
  BY <1>9 DEF IsComplete, CreateLocalFile, vars, MissingTracked, FailureNoted,
              NothingToDo
<1> QED
  BY <1>1, <1>2, <1>4, <1>5, <1>6, <1>7, <1>8, <1>9 DEF Next, Step

\* A fragment that is missing when a worker ends that could have asked for it was
\* asked of some peer in vain.
THEOREM MissingTried == Spec => []MissingWasTried
<1>1. Init => MissingInv
  BY InitType DEF Init, EachWorker, MissingInv, MissingTracked, FailureNoted,
                  NothingToDo
<1>2. ASSUME MissingInv, NEW w \in Workers, NEW s \in announced[w],
             pc[w] = "finished", segState[s] = "FREE"
      PROVE  \E v \in Workers : s \in failed[v]
  <2>1. s \in Numbers
    BY <1>2 DEF MissingInv, TInv, TypeOK, Numbers
  <2>2. todo[w][s] = 0
    BY <1>2, <2>1 DEF MissingInv, NothingToDo, EmptyList
  <2> QED
    BY <1>2, <2>2 DEF MissingInv, MissingTracked
<1>3. MissingInv => MissingWasTried
  BY <1>2 DEF MissingWasTried
<1> QED
  BY <1>1, <1>3, NextMissing, PTL DEF Spec

=============================================================================
