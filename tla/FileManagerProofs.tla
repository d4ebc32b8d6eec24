-------------------------- MODULE FileManagerProofs --------------------------
(***************************************************************************)
(* Theorems about FileManager, for any number of threads, files, segments  *)
(* and calls.                                                              *)
(***************************************************************************)
EXTENDS FileManager, FiniteSetTheorems, SequenceTheorems, TLAPS

-----------------------------------------------------------------------------
(* Lemmas about vector::erase and about the entries of a file.              *)

\* Erasing position i moves the later elements up by one.
LEMMA RemoveAtProperties ==
  ASSUME NEW S, NEW s \in Seq(S), NEW i \in 1 .. Len(s)
  PROVE  /\ RemoveAt(s, i) \in Seq(S)
         /\ Len(RemoveAt(s, i)) = Len(s) - 1
         /\ \A j \in 1 .. Len(s) - 1 :
                RemoveAt(s, i)[j] = IF j < i THEN s[j] ELSE s[j + 1]
<1> DEFINE front == SubSeq(s, 1, i - 1)
           back  == SubSeq(s, i + 1, Len(s))
<1>1. Len(s) \in Nat /\ \A j \in 1 .. Len(s) : s[j] \in S
  BY ElementOfSeq
<1>2. /\ front \in Seq(S)
      /\ Len(front) = i - 1
      /\ \A j \in 1 .. i - 1 : front[j] = s[j]
  <2>1. \A j \in 1 .. i - 1 : s[j] \in S
    BY <1>1
  <2> QED
    BY <2>1, <1>1, SubSeqProperties
<1>3. /\ back \in Seq(S)
      /\ Len(back) = Len(s) - i
      /\ \A j \in 1 .. Len(s) - i : back[j] = s[i + j]
  <2>1. \A j \in i + 1 .. Len(s) : s[j] \in S
    BY <1>1
  <2>2. /\ back \in Seq(S)
        /\ Len(back) = IF i + 1 <= Len(s) THEN Len(s) - (i + 1) + 1 ELSE 0
        /\ \A j \in 1 .. Len(s) - (i + 1) + 1 : back[j] = s[(i + 1) + j - 1]
    BY <2>1, <1>1, SubSeqProperties
  <2> QED
    BY <2>2, <1>1
<1>4. RemoveAt(s, i) = front \o back
  BY DEF RemoveAt
<1> HIDE DEF front, back
<1>5. /\ front \o back \in Seq(S)
      /\ Len(front \o back) = Len(front) + Len(back)
      /\ \A j \in 1 .. Len(front) + Len(back) :
            (front \o back)[j] =
                IF j <= Len(front) THEN front[j] ELSE back[j - Len(front)]
  BY <1>2, <1>3, ConcatProperties
<1>6. ASSUME NEW j \in 1 .. Len(s) - 1
      PROVE  (front \o back)[j] = IF j < i THEN s[j] ELSE s[j + 1]
  <2>1. CASE j < i
    BY <1>1, <1>2, <1>3, <1>5, <2>1
  <2>2. CASE ~(j < i)
    <3>1. /\ j - (i - 1) \in 1 .. Len(s) - i
          /\ i + (j - (i - 1)) = j + 1
      BY <1>1, <2>2
    <3>2. (front \o back)[j] = back[j - (i - 1)]
      BY <1>1, <1>2, <1>3, <1>5, <2>2
    <3> QED
      BY <1>3, <2>2, <3>1, <3>2
  <2> QED
    BY <2>1, <2>2
<1> QED
  BY <1>1, <1>2, <1>3, <1>4, <1>5, <1>6

EntryType == [file : Files, pos : Nat]

-----------------------------------------------------------------------------
(* Types.  TypeOK is inductive together with PointerLive: getSegment moves  *)
(* the position of a stream it still has in the vector.                     *)

\* getSegment's pointer is "valid" only while the file has an entry.
PointerLive ==
    \A t \in Threads :
        pc[t] \in {"seek", "tell", "fetch"} /\ of[t] = "valid" => ReadLocked(arg[t])

TInv == TypeOK /\ PointerLive

\* The position of an existing entry is a number.
LEMMA StreamPosType ==
  ASSUME TypeOK, NEW f \in Files, ReadLocked(f)
  PROVE  StreamPos(f) \in Nat
<1>1. (CHOOSE i \in EntriesOf(f) : TRUE) \in DOMAIN readLockedFiles
  BY DEF ReadLocked, EntriesOf
<1>2. \A i \in DOMAIN readLockedFiles : readLockedFiles[i] \in EntryType
  BY ElementOfSeq, LenProperties DEF TypeOK, EntryType
<1> QED
  BY <1>1, <1>2 DEF StreamPos, EntryType

\* Moving a position keeps the vector's type and the file names in it.
LEMMA SetStreamPosType ==
  ASSUME TypeOK, NEW f \in Files, NEW p \in Nat, SetStreamPos(f, p)
  PROVE  /\ readLockedFiles' \in Seq(EntryType)
         /\ Len(readLockedFiles') = Len(readLockedFiles)
         /\ DOMAIN readLockedFiles' = DOMAIN readLockedFiles
         /\ \A i \in DOMAIN readLockedFiles :
                readLockedFiles'[i].file = readLockedFiles[i].file
<1>1. /\ Len(readLockedFiles) \in Nat
      /\ DOMAIN readLockedFiles = 1 .. Len(readLockedFiles)
      /\ \A i \in DOMAIN readLockedFiles : readLockedFiles[i] \in EntryType
  BY ElementOfSeq, LenProperties DEF TypeOK, EntryType
<1>2. /\ readLockedFiles' = [i \in 1 .. Len(readLockedFiles) |->
            IF readLockedFiles[i].file = f THEN Entry(f, p) ELSE readLockedFiles[i]]
  BY <1>1 DEF SetStreamPos
<1>3. \A i \in 1 .. Len(readLockedFiles) : readLockedFiles'[i] \in EntryType
  BY <1>1, <1>2 DEF Entry, EntryType
<1>4. readLockedFiles' \in Seq(EntryType)
  BY <1>1, <1>2, <1>3, IsASeq
<1>5. DOMAIN readLockedFiles' = 1 .. Len(readLockedFiles)
  BY <1>2
<1>6. Len(readLockedFiles') = Len(readLockedFiles)
  BY <1>1, <1>4, <1>5, LenProperties
<1> QED
  BY <1>1, <1>2, <1>4, <1>5, <1>6 DEF Entry

\* The types hold initially.
LEMMA InitType == Init => TInv
<1> SUFFICES ASSUME Init
             PROVE  TInv
  OBVIOUS
<1>1. /\ (CHOOSE f \in Files : TRUE) \in Files
      /\ (CHOOSE s \in Segments : TRUE) \in Segments
  BY FilesAssumption, SegmentsAssumption
<1>2. /\ arg \in [Threads -> Files]
      /\ seg \in [Threads -> Segments]
  BY <1>1 DEF Init
<1>3. /\ readLockedFiles \in Seq([file : Files, pos : Nat])
      /\ writeLockedFiles \in [Files -> Nat]
      /\ leaked \in [Files -> Nat]
      /\ calls \in [Threads -> 0 .. MaxCalls]
  BY MaxCallsAssumption DEF Init
<1>4. /\ alive \in BOOLEAN
      /\ writeLockMutex \in Threads \cup {NoThread}
      /\ readLockMutex \in Threads \cup {NoThread}
      /\ waiters \subseteq Threads
      /\ exists \subseteq Files
      /\ pc \in [Threads -> PCs]
      /\ of \in [Threads -> {"unset", "valid", "deleted"}]
  BY DEF Init, PCs
<1>5. PointerLive
  BY DEF Init, PointerLive
<1> QED
  BY <1>2, <1>3, <1>4, <1>5 DEF TInv, TypeOK

\* A step that keeps readLockedFiles and turns no pointer valid keeps PointerLive.
LEMMA PointerKept ==
  ASSUME TInv, UNCHANGED readLockedFiles,
         \A t \in Threads :
            pc'[t] \in {"seek", "tell", "fetch"} /\ of'[t] = "valid" =>
                /\ pc[t] \in {"seek", "tell", "fetch"}
                /\ of[t] = "valid"
                /\ arg'[t] = arg[t]
  PROVE  PointerLive'
  BY DEF TInv, PointerLive, ReadLocked, EntriesOf

\* A call starts.
LEMMA CallType ==
  ASSUME TInv, NEW t \in Threads, NEW f \in Files, NEW label \in PCs,
         label \notin {"seek", "tell", "fetch"}, Call(t, f, label)
  PROVE  TInv'
<1>1. calls' \in [Threads -> 0 .. MaxCalls]
  BY MaxCallsAssumption DEF Call, TInv, TypeOK
<1>2. arg' \in [Threads -> Files] /\ pc' \in [Threads -> PCs]
  BY DEF Call, Goto, TInv, TypeOK
<1>3. TypeOK'
  BY <1>1, <1>2 DEF Call, TInv, TypeOK, mutexes, locks
<1>4. PointerLive'
  BY PointerKept DEF Call, Goto, TInv, TypeOK, locks
<1> QED
  BY <1>3, <1>4 DEF TInv

\* Steps of writeLock.
LEMMA WriteLockType ==
  ASSUME TInv, NEW t \in Threads,
         \/ WriteLockTakeWrite(t) \/ WriteLockTakeRead(t)
         \/ WriteLockRefused(t) \/ WriteLockGranted(t) \/ WriteLockPush(t)
  PROVE  TInv'
<1> USE DEF WriteLockTakeWrite, WriteLockTakeRead, WriteLockRefused,
            WriteLockGranted, WriteLockPush, Goto
<1>1. /\ pc' \in [Threads -> PCs]
      /\ writeLockMutex' \in Threads \cup {NoThread}
      /\ readLockMutex' \in Threads \cup {NoThread}
  BY DEF TInv, TypeOK, PCs, WriteLockPcs, StorePcs
<1>2. writeLockedFiles' \in [Files -> Nat]
  <2>1. arg[t] \in Files /\ writeLockedFiles \in [Files -> Nat]
    BY DEF TInv, TypeOK
  <2>2. CASE WriteLockPush(t)
    BY <2>1, <2>2
  <2>3. CASE UNCHANGED locks
    BY <2>1, <2>3 DEF locks
  <2> QED
    BY <2>2, <2>3
<1>3. TypeOK'
  BY <1>1, <1>2 DEF TInv, TypeOK, locks, callVars
<1>4. PointerLive'
  BY PointerKept DEF TInv, TypeOK, locks, callVars
<1> QED
  BY <1>3, <1>4 DEF TInv

\* Steps of the condition variable.
LEMMA WaitType ==
  ASSUME TInv, NEW t \in Threads,
         EnterWait(t) \/ LeaveWait(t) \/ SpuriousWakeup(t)
  PROVE  TInv'
<1> USE DEF EnterWait, LeaveWait, SpuriousWakeup, Goto
<1>1. pc' \in [Threads -> PCs] /\ waiters' \subseteq Threads
  BY DEF TInv, TypeOK, PCs, WriteLockPcs, ReadLockPcs, locks
<1>2. TypeOK'
  BY <1>1 DEF TInv, TypeOK, mutexes, locks, callVars
<1>3. PointerLive'
  BY PointerKept DEF TInv, TypeOK, locks, callVars
<1> QED
  BY <1>2, <1>3 DEF TInv

\* Steps of storeSegmentToFile and writeUnlock.
LEMMA StoreType ==
  ASSUME TInv, NEW t \in Threads,
         \/ StoreFailsToOpen(t) \/ StoreWrites(t)
         \/ WriteUnlockErases(t) \/ WriteUnlockNotifies(t)
  PROVE  TInv'
<1> USE DEF StoreFailsToOpen, StoreWrites, WriteUnlockErases,
            WriteUnlockNotifies, Goto
<1>1. pc' \in [Threads -> PCs] /\ waiters' \subseteq Threads
  BY DEF TInv, TypeOK, PCs, StorePcs, locks
<1>2. writeLockedFiles' \in [Files -> Nat] /\ leaked' \in [Files -> Nat]
  <2>1. /\ arg[t] \in Files
        /\ writeLockedFiles \in [Files -> Nat]
        /\ leaked \in [Files -> Nat]
    BY DEF TInv, TypeOK
  <2>2. CASE WriteUnlockErases(t)
    <3>1. CASE writeLockedFiles[arg[t]] > 0
      BY <2>1, <2>2, <3>1
    <3>2. CASE ~(writeLockedFiles[arg[t]] > 0)
      BY <2>1, <2>2, <3>2
    <3> QED
      BY <3>1, <3>2
  <2>3. CASE StoreFailsToOpen(t)
    BY <2>1, <2>3 DEF locks
  <2>4. CASE StoreWrites(t) \/ WriteUnlockNotifies(t)
    BY <2>1, <2>4 DEF locks
  <2> QED
    BY <2>2, <2>3, <2>4
<1>3. TypeOK'
  BY <1>1, <1>2 DEF TInv, TypeOK, mutexes, locks, callVars
<1>4. PointerLive'
  BY PointerKept DEF TInv, TypeOK, locks, callVars
<1> QED
  BY <1>3, <1>4 DEF TInv

\* Steps of readLock.
LEMMA ReadLockType ==
  ASSUME TInv, NEW t \in Threads,
         \/ ReadLockRefused(t) \/ ReadLockPasses(t) \/ ReadLockTakeRead(t)
         \/ ReadLockJoins(t) \/ ReadLockFindsNone(t) \/ ReadLockFailsToOpen(t)
  PROVE  TInv'
<1> USE DEF ReadLockRefused, ReadLockPasses, ReadLockTakeRead, ReadLockJoins,
            ReadLockFindsNone, ReadLockFailsToOpen, Goto
<1>1. pc' \in [Threads -> PCs] /\ readLockMutex' \in Threads \cup {NoThread}
  BY DEF TInv, TypeOK, PCs, ReadLockPcs, SessionPcs, mutexes
<1>2. TypeOK'
  BY <1>1 DEF TInv, TypeOK, mutexes, locks, callVars
<1>3. PointerLive'
  BY PointerKept DEF TInv, TypeOK, locks, callVars
<1> QED
  BY <1>2, <1>3 DEF TInv

\* What opening a file appends, and to what.
LEMMA OpensAppends ==
  ASSUME TypeOK, NEW t \in Threads, ReadLockOpens(t)
  PROVE  /\ readLockedFiles' \in Seq(EntryType)
         /\ Len(readLockedFiles) \in Nat
         /\ DOMAIN readLockedFiles = 1 .. Len(readLockedFiles)
         /\ DOMAIN readLockedFiles' = 1 .. Len(readLockedFiles) + 1
         /\ \A i \in 1 .. Len(readLockedFiles) :
                readLockedFiles'[i] = readLockedFiles[i]
         /\ readLockedFiles'[Len(readLockedFiles) + 1].file = arg[t]
<1>1. Entry(arg[t], 0) \in EntryType
  BY DEF TypeOK, Entry, EntryType
<1>2. readLockedFiles \in Seq(EntryType)
  BY DEF TypeOK, EntryType
<1>3. readLockedFiles' = Append(readLockedFiles, Entry(arg[t], 0))
  BY DEF ReadLockOpens
<1>4. Entry(arg[t], 0).file = arg[t]
  BY DEF Entry
<1> HIDE DEF EntryType
<1> QED
  BY <1>1, <1>2, <1>3, <1>4, AppendProperties, LenProperties

LEMMA OpensType ==
  ASSUME TInv, NEW t \in Threads, ReadLockOpens(t)
  PROVE  TInv'
<1>1. pc' \in [Threads -> PCs] /\ readLockMutex' \in Threads \cup {NoThread}
  BY DEF ReadLockOpens, Goto, TInv, TypeOK, PCs, SessionPcs
<1>2. readLockedFiles' \in Seq(EntryType)
  BY OpensAppends DEF TInv
<1>3. TypeOK'
  BY <1>1, <1>2 DEF ReadLockOpens, TInv, TypeOK, EntryType, callVars
<1>4. ASSUME NEW u \in Threads, pc'[u] \in {"seek", "tell", "fetch"},
             of'[u] = "valid"
      PROVE  ReadLocked(arg[u])'
  <2>1. ReadLocked(arg[u]) /\ arg'[u] = arg[u]
    BY <1>4 DEF ReadLockOpens, Goto, TInv, TypeOK, PointerLive, callVars
  <2>2. PICK i \in DOMAIN readLockedFiles : readLockedFiles[i].file = arg[u]
    BY <2>1 DEF ReadLocked, EntriesOf
  <2>3. i \in DOMAIN readLockedFiles' /\ readLockedFiles'[i].file = arg[u]
    BY <2>2, OpensAppends DEF TInv
  <2> QED
    BY <2>1, <2>3 DEF ReadLocked, EntriesOf
<1> QED
  BY <1>3, <1>4 DEF TInv, PointerLive

\* Steps of getSegment that leave the vector alone.
LEMMA GetSegmentType ==
  ASSUME TInv, NEW t \in Threads,
         \/ \E s \in Segments : GetSegmentFinds(t, s)
         \/ GetSegmentTells(t) \/ GetSegmentUsesDeleted(t)
  PROVE  TInv'
<1> USE DEF GetSegmentFinds, GetSegmentTells, GetSegmentUsesDeleted, Undefined,
            Goto
<1>1. pc' \in [Threads -> PCs]
  BY DEF TInv, TypeOK, PCs, SessionPcs
<1>2. /\ of' \in [Threads -> {"unset", "valid", "deleted"}]
      /\ seg' \in [Threads -> Segments]
      /\ arg' = arg
  <2>1. ASSUME NEW s \in Segments, GetSegmentFinds(t, s)
        PROVE  /\ of' \in [Threads -> {"unset", "valid", "deleted"}]
               /\ seg' \in [Threads -> Segments]
               /\ arg' = arg
    <3>1. /\ seg' = [seg EXCEPT ![t] = s] /\ arg' = arg
          /\ of' = of \/ of' = [of EXCEPT ![t] = "valid"]
      BY <2>1
    <3> HIDE DEF GetSegmentFinds
    <3> QED
      BY <3>1 DEF TInv, TypeOK
  <2>2. CASE GetSegmentTells(t)
    BY <2>2 DEF TInv, TypeOK
  <2>3. CASE GetSegmentUsesDeleted(t)
    BY <2>3 DEF TInv, TypeOK
  <2> QED
    BY <2>1, <2>2, <2>3
<1>3. calls' \in [Threads -> 0 .. MaxCalls]
  <2>1. CASE \E s \in Segments : GetSegmentFinds(t, s)
    BY <2>1, MaxCallsAssumption DEF TInv, TypeOK
  <2>2. CASE GetSegmentTells(t) \/ GetSegmentUsesDeleted(t)
    BY <2>2 DEF TInv, TypeOK
  <2> QED
    BY <2>1, <2>2
<1>4. alive' \in BOOLEAN /\ UNCHANGED <<mutexes, locks, exists, leaked>>
  BY DEF TInv, TypeOK
<1>5. TypeOK'
  BY <1>1, <1>2, <1>3, <1>4 DEF TInv, TypeOK, mutexes, locks
<1>6. PointerLive'
  <2>1. CASE \E s \in Segments : GetSegmentFinds(t, s)
    <3>1. UNCHANGED <<arg, readLockedFiles>>
      BY <1>2, <1>4 DEF locks
    <3>2. CASE ReadLocked(arg[t])
      <4>1. /\ pc' = [pc EXCEPT ![t] = "seek"]
            /\ of' = [of EXCEPT ![t] = "valid"]
        BY <2>1, <3>2
      <4>2. \A u \in Threads : ReadLocked(arg[u])' <=> ReadLocked(arg[u])
        BY <3>1 DEF ReadLocked, EntriesOf
      <4>3. \A u \in Threads \ {t} : pc'[u] = pc[u] /\ of'[u] = of[u]
        BY <4>1 DEF TInv, TypeOK
      <4> QED
        BY <3>2, <4>2, <4>3 DEF TInv, PointerLive
    <3>3. CASE ~ReadLocked(arg[t])
      <4>1. of' = of /\ (pc' = pc \/ pc' = [pc EXCEPT ![t] = "reading"])
        BY <2>1, <3>3
      <4> QED
        BY <3>1, <4>1, PointerKept DEF TInv, TypeOK
    <3> QED
      BY <3>2, <3>3
  <2>2. CASE GetSegmentTells(t) \/ GetSegmentUsesDeleted(t)
    BY <1>4, <2>2, PointerKept DEF TInv, TypeOK, locks
  <2> QED
    BY <2>1, <2>2
<1> QED
  BY <1>5, <1>6 DEF TInv

\* What moving a stream's position leaves as it was.
LEMMA MovesStream ==
  ASSUME TInv, NEW t \in Threads, GetSegmentSeeks(t) \/ GetSegmentReads(t)
  PROVE  /\ readLockedFiles' \in Seq(EntryType)
         /\ DOMAIN readLockedFiles' = DOMAIN readLockedFiles
         /\ \A i \in DOMAIN readLockedFiles :
                readLockedFiles'[i].file = readLockedFiles[i].file
<1>1. arg[t] \in Files /\ seg[t] \in Nat
  BY SegmentsAssumption DEF TInv, TypeOK
<1>2. CASE GetSegmentSeeks(t)
  BY <1>1, <1>2, SetStreamPosType DEF GetSegmentSeeks, TInv
<1>3. CASE GetSegmentReads(t)
  <2>1. StreamPos(arg[t]) \in Nat
    BY <1>1, <1>3, StreamPosType DEF GetSegmentReads, TInv, PointerLive
  <2>2. StreamPos(arg[t]) + 1 \in Nat
    BY <2>1
  <2> QED
    BY <1>1, <1>3, <2>2, SetStreamPosType DEF GetSegmentReads, TInv
<1> QED
  BY <1>2, <1>3

LEMMA MovesType ==
  ASSUME TInv, NEW t \in Threads, GetSegmentSeeks(t) \/ GetSegmentReads(t)
  PROVE  TInv'
<1> USE DEF GetSegmentSeeks, GetSegmentReads, Goto
<1>1. /\ pc' \in [Threads -> PCs]
      /\ of' \in [Threads -> {"unset", "valid", "deleted"}]
  BY DEF TInv, TypeOK, PCs, SessionPcs, callVars
<1>2. readLockedFiles' \in Seq(EntryType)
  BY MovesStream
<1>3. TypeOK'
  BY <1>1, <1>2 DEF TInv, TypeOK, EntryType, mutexes, callVars
<1>4. ASSUME NEW u \in Threads, pc'[u] \in {"seek", "tell", "fetch"},
             of'[u] = "valid"
      PROVE  ReadLocked(arg[u])'
  <2>1. pc[u] \in {"seek", "tell", "fetch"} /\ of[u] = "valid" /\ arg' = arg
    BY <1>4 DEF TInv, TypeOK, callVars
  <2>2. ReadLocked(arg[u])
    BY <2>1 DEF TInv, PointerLive
  <2> QED
    BY <2>1, <2>2, MovesStream DEF ReadLocked, EntriesOf
<1> QED
  BY <1>3, <1>4 DEF TInv, PointerLive

\* readUnlock: the entry i of the file is taken out of the middle of the vector.
Erases(t, i) ==
    /\ pc[t] = "reading"
    /\ i \in EntriesOf(arg[t])
    /\ i # Len(readLockedFiles)
    /\ readLockedFiles' = RemoveAt(readLockedFiles, i)
    /\ of' = [u \in Threads |->
                IF arg[u] = arg[t] /\ of[u] = "valid" THEN "deleted" ELSE of[u]]
    /\ pc' = [pc EXCEPT ![t] = "idle"]
    /\ UNCHANGED <<alive, arg>>

\* The three outcomes of readUnlock.
LEMMA ReadUnlockCases ==
  ASSUME NEW t \in Threads, ReadUnlock(t)
  PROVE  /\ UNCHANGED <<mutexes, writeLockedFiles, waiters, exists, arg, seg,
                        calls, leaked>>
         /\ pc[t] = "reading"
         /\ \/ \E i \in DOMAIN readLockedFiles : Erases(t, i)
            \/ alive' = FALSE /\ UNCHANGED <<readLockedFiles, of, pc>>
            \/ /\ ~ReadLocked(arg[t])
               /\ pc' = [pc EXCEPT ![t] = "idle"]
               /\ UNCHANGED <<alive, readLockedFiles, of>>
  BY DEF ReadUnlock, Erases, EntriesOf, Goto

\* What is left of the vector.
LEMMA ErasesOne ==
  ASSUME TypeOK, NEW t \in Threads, NEW i \in DOMAIN readLockedFiles, Erases(t, i)
  PROVE  /\ readLockedFiles' \in Seq(EntryType)
         /\ Len(readLockedFiles) \in Nat
         /\ i \in 1 .. Len(readLockedFiles) - 1
         /\ readLockedFiles[i].file = arg[t]
         /\ DOMAIN readLockedFiles = 1 .. Len(readLockedFiles)
         /\ DOMAIN readLockedFiles' = 1 .. Len(readLockedFiles) - 1
         /\ \A j \in 1 .. Len(readLockedFiles) - 1 :
                readLockedFiles'[j] =
                    IF j < i THEN readLockedFiles[j] ELSE readLockedFiles[j + 1]
<1>1. readLockedFiles \in Seq(EntryType)
  BY DEF TypeOK, EntryType
<1>2. /\ Len(readLockedFiles) \in Nat
      /\ DOMAIN readLockedFiles = 1 .. Len(readLockedFiles)
  BY <1>1, LenProperties
<1>3. i \in 1 .. Len(readLockedFiles)
  BY <1>2
<1>4. /\ RemoveAt(readLockedFiles, i) \in Seq(EntryType)
      /\ Len(RemoveAt(readLockedFiles, i)) = Len(readLockedFiles) - 1
      /\ \A j \in 1 .. Len(readLockedFiles) - 1 :
            RemoveAt(readLockedFiles, i)[j] =
                IF j < i THEN readLockedFiles[j] ELSE readLockedFiles[j + 1]
  <2> HIDE DEF EntryType
  <2> QED
    BY <1>1, <1>3, RemoveAtProperties
<1>5. DOMAIN RemoveAt(readLockedFiles, i) = 1 .. Len(readLockedFiles) - 1
  BY <1>4, LenProperties
<1>6. i # Len(readLockedFiles) /\ readLockedFiles' = RemoveAt(readLockedFiles, i)
  BY DEF Erases
<1>7. readLockedFiles[i].file = arg[t]
  BY DEF Erases, EntriesOf
<1> QED
  BY <1>2, <1>3, <1>4, <1>5, <1>6, <1>7

\* The entries of other files stay.
LEMMA ErasesKeepsOthers ==
  ASSUME TypeOK, NEW t \in Threads, NEW i \in DOMAIN readLockedFiles, Erases(t, i),
         NEW f, f # arg[t], ReadLocked(f)
  PROVE  ReadLocked(f)'
<1>1. PICK k \in DOMAIN readLockedFiles : readLockedFiles[k].file = f
  BY DEF ReadLocked, EntriesOf
<1>2. k # i
  BY <1>1, ErasesOne
<1>3. CASE k < i
  <2>1. k \in DOMAIN readLockedFiles' /\ readLockedFiles'[k] = readLockedFiles[k]
    BY <1>1, <1>3, ErasesOne
  <2> QED
    BY <1>1, <2>1 DEF ReadLocked, EntriesOf
<1>4. CASE k > i
  <2>1. /\ k - 1 \in DOMAIN readLockedFiles'
        /\ readLockedFiles'[k - 1] = readLockedFiles[k]
    <3> DEFINE j == k - 1
    <3>1. j \in 1 .. Len(readLockedFiles) - 1 /\ ~(j < i) /\ j + 1 = k
      BY <1>1, <1>4, ErasesOne
    <3>2. j \in DOMAIN readLockedFiles' /\ readLockedFiles'[j] = readLockedFiles[j + 1]
      <4> HIDE DEF j
      <4> QED
        BY <3>1, ErasesOne
    <3> QED
      BY <3>1, <3>2
  <2> QED
    BY <1>1, <2>1 DEF ReadLocked, EntriesOf
<1> QED
  BY <1>1, <1>2, <1>3, <1>4, ErasesOne

LEMMA ReadUnlockType ==
  ASSUME TInv, NEW t \in Threads, ReadUnlock(t)
  PROVE  TInv'
<1>1. CASE \E i \in DOMAIN readLockedFiles : Erases(t, i)
  <2>1. PICK i \in DOMAIN readLockedFiles : Erases(t, i)
    BY <1>1
  <2>2. readLockedFiles' \in Seq(EntryType)
    BY <2>1, ErasesOne DEF TInv
  <2>3. pc' \in [Threads -> PCs]
    BY <2>1 DEF Erases, TInv, TypeOK, PCs
  <2>4. of' \in [Threads -> {"unset", "valid", "deleted"}]
    BY <2>1 DEF Erases, TInv, TypeOK
  <2>5. TypeOK'
    BY <2>1, <2>2, <2>3, <2>4, ReadUnlockCases
       DEF Erases, TInv, TypeOK, EntryType, mutexes
  <2>6. ASSUME NEW u \in Threads, pc'[u] \in {"seek", "tell", "fetch"},
               of'[u] = "valid"
        PROVE  ReadLocked(arg[u])'
    <3>1. arg'[u] = arg[u] /\ arg[u] # arg[t] /\ of[u] = "valid" /\ pc'[u] = pc[u]
      BY <2>1, <2>6 DEF Erases, TInv, TypeOK
    <3>2. ReadLocked(arg[u])
      BY <2>6, <3>1 DEF TInv, PointerLive
    <3>3. \E j \in DOMAIN readLockedFiles' : readLockedFiles'[j].file = arg[u]
      BY <2>1, <3>1, <3>2, ErasesKeepsOthers DEF TInv, ReadLocked, EntriesOf
    <3> QED
      BY <3>1, <3>3 DEF ReadLocked, EntriesOf
  <2> QED
    BY <2>5, <2>6 DEF TInv, PointerLive
<1>2. CASE alive' = FALSE /\ UNCHANGED <<readLockedFiles, of, pc>>
  <2>1. TypeOK'
    BY <1>2, ReadUnlockCases DEF TInv, TypeOK, mutexes
  <2> QED
    BY <1>2, <2>1, ReadUnlockCases, PointerKept DEF TInv
<1>3. CASE /\ pc' = [pc EXCEPT ![t] = "idle"]
           /\ UNCHANGED <<alive, readLockedFiles, of>>
  <2>1. pc' \in [Threads -> PCs]
    BY <1>3 DEF TInv, TypeOK, PCs
  <2>2. TypeOK'
    BY <1>3, <2>1, ReadUnlockCases DEF TInv, TypeOK, mutexes
  <2>3. PointerLive'
    BY <1>3, ReadUnlockCases, PointerKept DEF TInv, TypeOK
  <2> QED
    BY <2>2, <2>3 DEF TInv
<1> QED
  BY <1>1, <1>2, <1>3, ReadUnlockCases

\* Every step keeps the types.
LEMMA NextType == TInv /\ [Next]_vars => TInv'
<1> SUFFICES ASSUME TInv, [Next]_vars
             PROVE  TInv'
  OBVIOUS
<1>1. ASSUME NEW t \in Threads, Step(t)
      PROVE  TInv'
  BY <1>1, WriteLockType, WaitType, StoreType, ReadLockType, OpensType,
     GetSegmentType, MovesType DEF Step
<1>2. ASSUME NEW t \in Threads, Calls(t)
      PROVE  TInv'
  <2>1. CASE \E f \in Files : StoreSegmentToFile(t, f) \/ ReadLock(t, f)
    BY <2>1, CallType
       DEF StoreSegmentToFile, ReadLock, PCs, WriteLockPcs, ReadLockPcs
  <2> QED
    BY <1>2, <2>1, GetSegmentType, ReadUnlockType DEF Calls
<1>3. ASSUME NEW f \in Files, CreateLocalFile(f)
      PROVE  TInv'
  BY <1>3, PointerKept DEF CreateLocalFile, TInv, TypeOK, mutexes, locks, callVars
<1>4. CASE UNCHANGED vars
  BY <1>4, PointerKept DEF vars, TInv, TypeOK, mutexes, locks, callVars
<1> QED
  BY <1>1, <1>2, <1>3, <1>4, WaitType DEF Next

\* Every variable keeps its type.
THEOREM TypeCorrect == Spec => []TypeOK
<1>1. TInv => TypeOK
  BY DEF TInv
<1> QED
  BY InitType, NextType, <1>1, PTL DEF Spec

-----------------------------------------------------------------------------
(* The two mutexes: every path balances its lock() and unlock() calls.       *)

LockInv == TInv /\ MutexesBalanced

\* A step that keeps both mutexes and moves at most t, between places that own
\* the same of them.
LEMMA MutexesKept ==
  ASSUME LockInv, NEW t \in Threads, NEW label,
         UNCHANGED mutexes,
         pc' = pc \/ pc' = [pc EXCEPT ![t] = label],
         pc[t] \in OwnsWrite <=> label \in OwnsWrite,
         pc[t] \in OwnsRead <=> label \in OwnsRead
  PROVE  MutexesBalanced'
  BY DEF LockInv, TInv, TypeOK, MutexesBalanced, mutexes, OwnsWrite, OwnsRead

\* Steps that lock or unlock a mutex for later steps.
LEMMA LockSteps ==
  ASSUME LockInv, NEW t \in Threads,
         \/ WriteLockTakeWrite(t) \/ WriteLockTakeRead(t)
         \/ WriteLockRefused(t) \/ WriteLockGranted(t) \/ WriteLockPush(t)
         \/ ReadLockTakeRead(t) \/ ReadLockJoins(t)
         \/ ReadLockOpens(t) \/ ReadLockFailsToOpen(t)
  PROVE  MutexesBalanced'
<1> USE ThreadsAssumption
    DEF LockInv, TInv, TypeOK, MutexesBalanced, OwnsWrite, OwnsRead, Goto
<1>1. CASE WriteLockTakeWrite(t)
  BY <1>1 DEF WriteLockTakeWrite
<1>2. CASE WriteLockTakeRead(t)
  BY <1>2 DEF WriteLockTakeRead
<1>3. CASE WriteLockRefused(t)
  BY <1>3 DEF WriteLockRefused
<1>4. CASE WriteLockGranted(t)
  BY <1>4 DEF WriteLockGranted
<1>5. CASE WriteLockPush(t)
  BY <1>5 DEF WriteLockPush
<1>6. CASE ReadLockTakeRead(t)
  BY <1>6 DEF ReadLockTakeRead
<1>7. CASE ReadLockJoins(t)
  BY <1>7 DEF ReadLockJoins
<1>8. CASE ReadLockOpens(t)
  BY <1>8 DEF ReadLockOpens
<1>9. CASE ReadLockFailsToOpen(t)
  BY <1>9 DEF ReadLockFailsToOpen
<1> QED
  BY <1>1, <1>2, <1>3, <1>4, <1>5, <1>6, <1>7, <1>8, <1>9

\* Every step keeps the mutexes balanced.
LEMMA NextLocks == LockInv /\ [Next]_vars => LockInv'
<1> SUFFICES ASSUME LockInv, [Next]_vars
             PROVE  MutexesBalanced'
  BY NextType DEF LockInv
<1> USE DEF OwnsWrite, OwnsRead, Goto
<1>1. ASSUME NEW t \in Threads, EnterWait(t) \/ LeaveWait(t)
      PROVE  MutexesBalanced'
  BY <1>1, MutexesKept DEF EnterWait, LeaveWait
<1>2. ASSUME NEW t \in Threads, SpuriousWakeup(t)
      PROVE  MutexesBalanced'
  BY <1>2 DEF SpuriousWakeup, LockInv, MutexesBalanced, mutexes
<1>3. ASSUME NEW t \in Threads,
             \/ StoreFailsToOpen(t) \/ StoreWrites(t)
             \/ WriteUnlockErases(t) \/ WriteUnlockNotifies(t)
      PROVE  MutexesBalanced'
  BY <1>3, MutexesKept
     DEF StoreFailsToOpen, StoreWrites, WriteUnlockErases, WriteUnlockNotifies
<1>4. ASSUME NEW t \in Threads,
             \/ ReadLockRefused(t) \/ ReadLockPasses(t) \/ ReadLockFindsNone(t)
      PROVE  MutexesBalanced'
  BY <1>4, MutexesKept DEF ReadLockRefused, ReadLockPasses, ReadLockFindsNone
<1>5. ASSUME NEW t \in Threads,
             \/ \E s \in Segments : GetSegmentFinds(t, s)
             \/ GetSegmentSeeks(t) \/ GetSegmentTells(t) \/ GetSegmentReads(t)
             \/ GetSegmentUsesDeleted(t)
      PROVE  MutexesBalanced'
  <2>1. UNCHANGED mutexes /\ pc[t] \notin OwnsWrite \cup OwnsRead
    BY <1>5 DEF GetSegmentFinds, GetSegmentSeeks, GetSegmentTells,
                GetSegmentReads, GetSegmentUsesDeleted, Undefined
  <2>2. \E label \in {"reading", "seek", "tell", "fetch"} :
            pc' = pc \/ pc' = [pc EXCEPT ![t] = label]
    BY <1>5 DEF GetSegmentFinds, GetSegmentSeeks, GetSegmentTells,
                GetSegmentReads, GetSegmentUsesDeleted, Undefined
  <2> QED
    BY <2>1, <2>2, MutexesKept
<1>6. ASSUME NEW t \in Threads, ReadUnlock(t)
      PROVE  MutexesBalanced'
  <2>1. pc' = pc \/ pc' = [pc EXCEPT ![t] = "idle"]
    BY <1>6, ReadUnlockCases DEF Erases
  <2> QED
    BY <1>6, <2>1, ReadUnlockCases, MutexesKept
<1>7. ASSUME NEW t \in Threads,
             \E f \in Files : StoreSegmentToFile(t, f) \/ ReadLock(t, f)
      PROVE  MutexesBalanced'
  BY <1>7, MutexesKept DEF StoreSegmentToFile, ReadLock, Call
<1>8. CASE (\E f \in Files : CreateLocalFile(f)) \/ UNCHANGED vars
  BY <1>8 DEF CreateLocalFile, vars, LockInv, MutexesBalanced, mutexes
<1> QED
  BY <1>1, <1>2, <1>3, <1>4, <1>5, <1>6, <1>7, <1>8, LockSteps
     DEF Next, Step, Calls

\* The mutexes are balanced initially.
LEMMA InitLocks == Init => LockInv
<1>1. Init => MutexesBalanced
  BY ThreadsAssumption DEF Init, MutexesBalanced, OwnsWrite, OwnsRead
<1> QED
  BY <1>1, InitType DEF LockInv

\* A thread owns exactly the mutexes its place in the code says; in particular
\* each of them has at most one owner, and no thread sleeps with one.
THEOREM MutexesCorrect == Spec => []MutexesBalanced
<1>1. LockInv => MutexesBalanced
  BY DEF LockInv
<1> QED
  BY InitLocks, NextLocks, <1>1, PTL DEF Spec

-----------------------------------------------------------------------------
(***************************************************************************)
(* Why the mutexes are released (the safety part of MutexesReleased): of   *)
(* the threads that own one, at most one wants the other, and its owner    *)
(* wants none; and an owner has at most three steps to go.                 *)
(***************************************************************************)

Owns(t) == pc[t] \in OwnsWrite \cup OwnsRead

\* An owner whose next step has no guard but a mutex that is free: only writeLock
\* asks for a mutex while it owns one.
GoesOn(t) == Owns(t) /\ (pc[t] = "wlRead" => readLockMutex = NoThread)

\* Steps until a thread owns no mutex.
StepsLeft(t) ==
    CASE pc[t] = "wlRead"             -> 3
      [] pc[t] \in {"wlScan", "rlScan"} -> 2
      [] pc[t] \in {"wlPush", "rlOpen"} -> 1
      [] OTHER                        -> 0

\* Whoever waits for a mutex waits for a thread that goes on, or for one that waits
\* for a thread that goes on.
NoCircularWait ==
    \A m \in {writeLockMutex, readLockMutex} \ {NoThread} :
        GoesOn(m) \/ (readLockMutex \in Threads /\ GoesOn(readLockMutex))

\* No step of any thread takes an owner further from its release.
OwnersAdvance ==
    \A t \in Threads :
        Owns(t) => pc'[t] = pc[t] \/ StepsLeft(t)' < StepsLeft(t)

\* A call, or a step outside of the locks' critical sections, is made by a thread
\* that owns no mutex.
LEMMA OwnersStep ==
  ASSUME TypeOK, NEW t \in Threads, NEW u \in Threads, Owns(u),
         Step(t) \/ Calls(t)
  PROVE  pc'[u] = pc[u] \/ StepsLeft(u)' < StepsLeft(u)
<1> USE DEF TypeOK, Owns, OwnsWrite, OwnsRead, StepsLeft, Goto
<1>1. CASE WriteLockTakeWrite(t) \/ WriteLockTakeRead(t) \/ WriteLockRefused(t)
           \/ WriteLockGranted(t) \/ WriteLockPush(t)
  BY <1>1 DEF WriteLockTakeWrite, WriteLockTakeRead, WriteLockRefused,
              WriteLockGranted, WriteLockPush
<1>2. CASE EnterWait(t) \/ LeaveWait(t) \/ StoreFailsToOpen(t) \/ StoreWrites(t)
           \/ WriteUnlockErases(t) \/ WriteUnlockNotifies(t)
  BY <1>2 DEF EnterWait, LeaveWait, StoreFailsToOpen, StoreWrites,
              WriteUnlockErases, WriteUnlockNotifies
<1>3. CASE ReadLockRefused(t) \/ ReadLockPasses(t) \/ ReadLockTakeRead(t)
           \/ ReadLockJoins(t) \/ ReadLockFindsNone(t) \/ ReadLockOpens(t)
           \/ ReadLockFailsToOpen(t)
  BY <1>3 DEF ReadLockRefused, ReadLockPasses, ReadLockTakeRead, ReadLockJoins,
              ReadLockFindsNone, ReadLockOpens, ReadLockFailsToOpen
<1>4. CASE GetSegmentSeeks(t) \/ GetSegmentTells(t) \/ GetSegmentReads(t)
           \/ GetSegmentUsesDeleted(t) \/ \E s \in Segments : GetSegmentFinds(t, s)
  BY <1>4 DEF GetSegmentSeeks, GetSegmentTells, GetSegmentReads,
              GetSegmentUsesDeleted, GetSegmentFinds, Undefined
<1>5. CASE ReadUnlock(t)
  BY <1>5, ReadUnlockCases DEF Erases
<1>6. CASE \E f \in Files : StoreSegmentToFile(t, f) \/ ReadLock(t, f)
  BY <1>6 DEF StoreSegmentToFile, ReadLock, Call
<1> QED
  BY <1>1, <1>2, <1>3, <1>4, <1>5, <1>6 DEF Step, Calls

\* Nested locking of the two mutexes never ends in a circular wait, and an owner's
\* way to its release only gets shorter, for any number of threads.
THEOREM OwnersGoOn == Spec => []NoCircularWait /\ [][OwnersAdvance]_vars
<1>1. LockInv => NoCircularWait
  <2> SUFFICES ASSUME LockInv, NEW m \in {writeLockMutex, readLockMutex} \ {NoThread}
               PROVE  GoesOn(m) \/ (readLockMutex \in Threads /\ GoesOn(readLockMutex))
    BY DEF NoCircularWait
  <2> USE DEF LockInv, TInv, TypeOK
  <2>1. Owns(m)
    BY DEF MutexesBalanced, Owns
  <2>2. readLockMutex \in Threads => Owns(readLockMutex) /\ pc[readLockMutex] # "wlRead"
    BY DEF MutexesBalanced, Owns, OwnsRead
  <2> QED
    BY <2>1, <2>2 DEF GoesOn
<1>2. LockInv /\ [Next]_vars => [OwnersAdvance]_vars
  <2> SUFFICES ASSUME LockInv, Next, NEW u \in Threads, Owns(u)
               PROVE  pc'[u] = pc[u] \/ StepsLeft(u)' < StepsLeft(u)
    BY DEF OwnersAdvance
  <2>1. CASE \E t \in Threads : Step(t) \/ Calls(t)
    BY <2>1, OwnersStep DEF LockInv, TInv
  <2>2. CASE (\E t \in Threads : SpuriousWakeup(t)) \/ \E f \in Files : CreateLocalFile(f)
    BY <2>2 DEF SpuriousWakeup, CreateLocalFile
  <2> QED
    BY <2>1, <2>2 DEF Next
<1> QED
  BY <1>1, <1>2, InitLocks, NextLocks, PTL DEF Spec

-----------------------------------------------------------------------------
(***************************************************************************)
(* The entries of the vector.  A readLock appends only while it still owns *)
(* the mutex under which it saw that the file has no entry (ScanHolds);    *)
(* and since a file has at most one entry, the readUnlock of any of its    *)
(* sessions leaves none behind.                                            *)
(***************************************************************************)

\* The result of readLock's search is still true when it opens the file.
ScanHolds == \A t \in Threads : pc[t] = "rlOpen" => ~ReadLocked(arg[t])

EntryInv == LockInv /\ OneEntryPerFile /\ ScanHolds /\ EntryHasSession

\* A step that keeps the file names in the vector, ends no session, and does not
\* bring a thread to the place where it opens a file.
LEMMA EntriesKept ==
  ASSUME EntryInv,
         DOMAIN readLockedFiles' = DOMAIN readLockedFiles,
         \A i \in DOMAIN readLockedFiles :
            readLockedFiles'[i].file = readLockedFiles[i].file,
         \A t \in Threads :
            /\ pc[t] \in SessionPcs => pc'[t] \in SessionPcs /\ arg'[t] = arg[t]
            /\ pc'[t] = "rlOpen" => pc[t] = "rlOpen" /\ arg'[t] = arg[t]
  PROVE  OneEntryPerFile' /\ ScanHolds' /\ EntryHasSession'
<1>1. OneEntryPerFile'
  BY DEF EntryInv, OneEntryPerFile
<1>2. ScanHolds'
  BY DEF EntryInv, ScanHolds, ReadLocked, EntriesOf
<1>3. EntryHasSession'
  BY DEF EntryInv, EntryHasSession
<1> QED
  BY <1>1, <1>2, <1>3

\* readLock opens the file.
LEMMA OpensEntry ==
  ASSUME EntryInv, NEW t \in Threads, ReadLockOpens(t)
  PROVE  OneEntryPerFile' /\ ScanHolds' /\ EntryHasSession'
<1> DEFINE n == Len(readLockedFiles)
<1>1. /\ n \in Nat
      /\ DOMAIN readLockedFiles = 1 .. n
      /\ DOMAIN readLockedFiles' = 1 .. n + 1
      /\ \A i \in 1 .. n : readLockedFiles'[i] = readLockedFiles[i]
      /\ readLockedFiles'[n + 1].file = arg[t]
  BY OpensAppends DEF EntryInv, LockInv, TInv
<1>2. /\ pc[t] = "rlOpen"
      /\ pc' = [pc EXCEPT ![t] = "reading"]
      /\ arg' = arg
  BY DEF ReadLockOpens, Goto, callVars
<1> HIDE DEF n
<1>3. \A i \in 1 .. n : readLockedFiles[i].file # arg[t]
  BY <1>1, <1>2 DEF EntryInv, ScanHolds, ReadLocked, EntriesOf
<1>4. OneEntryPerFile'
  BY <1>1, <1>3 DEF EntryInv, OneEntryPerFile
<1>5. ScanHolds'
  <2>1. \A u \in Threads : pc'[u] # "rlOpen"
    BY <1>2 DEF EntryInv, LockInv, TInv, TypeOK, MutexesBalanced, OwnsRead
  <2> QED
    BY <2>1 DEF ScanHolds
<1>6. EntryHasSession'
  <2>1. \A u \in Threads : pc[u] \in SessionPcs => pc'[u] \in SessionPcs
    BY <1>2 DEF EntryInv, LockInv, TInv, TypeOK, SessionPcs
  <2>2. pc'[t] \in SessionPcs
    BY <1>2 DEF EntryInv, LockInv, TInv, TypeOK, SessionPcs
  <2>3. ASSUME NEW i \in 1 .. n + 1
        PROVE  \E u \in Threads : /\ arg'[u] = readLockedFiles'[i].file
                                  /\ pc'[u] \in SessionPcs
    <3>1. CASE i = n + 1
      BY <1>1, <1>2, <2>2, <3>1
    <3>2. CASE i \in 1 .. n
      BY <1>1, <1>2, <2>1, <3>2 DEF EntryInv, EntryHasSession
    <3> QED
      BY <1>1, <3>1, <3>2
  <2> QED
    BY <1>1, <2>3 DEF EntryHasSession
<1> QED
  BY <1>4, <1>5, <1>6

\* readUnlock takes an entry out.
LEMMA ErasesEntry ==
  ASSUME EntryInv, NEW t \in Threads, NEW k \in DOMAIN readLockedFiles, Erases(t, k)
  PROVE  OneEntryPerFile' /\ ScanHolds' /\ EntryHasSession'
<1> DEFINE old(j) == IF j < k THEN j ELSE j + 1
<1>1. /\ k \in Nat
      /\ \A j \in DOMAIN readLockedFiles' :
            /\ old(j) \in DOMAIN readLockedFiles
            /\ old(j) # k
            /\ readLockedFiles'[j] = readLockedFiles[old(j)]
      /\ DOMAIN readLockedFiles' \subseteq Nat
  BY ErasesOne DEF EntryInv, LockInv, TInv
<1>2. \A i, j \in DOMAIN readLockedFiles' : old(i) = old(j) => i = j
  BY <1>1
<1>3. /\ readLockedFiles[k].file = arg[t]
      /\ pc' = [pc EXCEPT ![t] = "idle"]
      /\ arg' = arg
  BY ErasesOne DEF Erases, EntryInv, LockInv, TInv
<1> HIDE DEF old
<1>4. OneEntryPerFile'
  BY <1>1, <1>2 DEF EntryInv, OneEntryPerFile
<1>5. ScanHolds'
  <2>1. \A u \in Threads : pc'[u] = "rlOpen" => pc[u] = "rlOpen"
    BY <1>3 DEF EntryInv, LockInv, TInv, TypeOK
  <2> QED
    BY <1>1, <1>3, <2>1 DEF EntryInv, ScanHolds, ReadLocked, EntriesOf
<1>6. ASSUME NEW j \in DOMAIN readLockedFiles'
      PROVE  \E u \in Threads : /\ arg'[u] = readLockedFiles'[j].file
                                /\ pc'[u] \in SessionPcs
  <2>1. PICK u \in Threads : /\ arg[u] = readLockedFiles[old(j)].file
                            /\ pc[u] \in SessionPcs
    BY <1>1 DEF EntryInv, EntryHasSession
  <2>2. readLockedFiles[old(j)].file # readLockedFiles[k].file
    BY <1>1 DEF EntryInv, OneEntryPerFile
  <2>3. u # t
    BY <1>3, <2>1, <2>2
  <2> QED
    BY <1>1, <1>3, <2>1, <2>3 DEF EntryInv, LockInv, TInv, TypeOK
<1> QED
  BY <1>4, <1>5, <1>6 DEF EntryHasSession

\* Every step keeps the invariant of the entries.
LEMMA NextEntries == EntryInv /\ [Next]_vars => EntryInv'
<1> SUFFICES ASSUME EntryInv, [Next]_vars
             PROVE  OneEntryPerFile' /\ ScanHolds' /\ EntryHasSession'
  BY NextLocks DEF EntryInv
<1> USE DEF SessionPcs, Goto
<1>1. ASSUME NEW t \in Threads,
             \/ WriteLockTakeWrite(t) \/ WriteLockTakeRead(t)
             \/ WriteLockRefused(t) \/ WriteLockGranted(t) \/ WriteLockPush(t)
      PROVE  OneEntryPerFile' /\ ScanHolds' /\ EntryHasSession'
  BY <1>1, EntriesKept
     DEF WriteLockTakeWrite, WriteLockTakeRead, WriteLockRefused,
         WriteLockGranted, WriteLockPush, EntryInv, LockInv, TInv, TypeOK, locks,
         callVars
<1>2. ASSUME NEW t \in Threads, EnterWait(t) \/ LeaveWait(t) \/ SpuriousWakeup(t)
      PROVE  OneEntryPerFile' /\ ScanHolds' /\ EntryHasSession'
  BY <1>2, EntriesKept
     DEF EnterWait, LeaveWait, SpuriousWakeup, EntryInv, LockInv, TInv, TypeOK,
         locks, callVars
<1>3. ASSUME NEW t \in Threads,
             \/ StoreFailsToOpen(t) \/ StoreWrites(t)
             \/ WriteUnlockErases(t) \/ WriteUnlockNotifies(t)
      PROVE  OneEntryPerFile' /\ ScanHolds' /\ EntryHasSession'
  BY <1>3, EntriesKept
     DEF StoreFailsToOpen, StoreWrites, WriteUnlockErases, WriteUnlockNotifies,
         EntryInv, LockInv, TInv, TypeOK, locks, callVars
<1>4. ASSUME NEW t \in Threads,
             \/ ReadLockRefused(t) \/ ReadLockPasses(t) \/ ReadLockTakeRead(t)
             \/ ReadLockJoins(t) \/ ReadLockFailsToOpen(t)
      PROVE  OneEntryPerFile' /\ ScanHolds' /\ EntryHasSession'
  BY <1>4, EntriesKept
     DEF ReadLockRefused, ReadLockPasses, ReadLockTakeRead, ReadLockJoins,
         ReadLockFailsToOpen, EntryInv, LockInv, TInv, TypeOK, locks, callVars
<1>5. ASSUME NEW t \in Threads, ReadLockFindsNone(t)
      PROVE  OneEntryPerFile' /\ ScanHolds' /\ EntryHasSession'
  <2>1. /\ ~ReadLocked(arg[t])
        /\ pc[t] = "rlScan"
        /\ pc' = [pc EXCEPT ![t] = "rlOpen"]
        /\ UNCHANGED <<readLockedFiles, arg>>
    BY <1>5 DEF ReadLockFindsNone, locks, callVars
  <2>2. OneEntryPerFile'
    BY <2>1 DEF EntryInv, OneEntryPerFile
  <2>3. ScanHolds'
    <3>1. \A u \in Threads : ReadLocked(arg[u])' <=> ReadLocked(arg[u])
      BY <2>1 DEF ReadLocked, EntriesOf
    <3> QED
      BY <2>1, <3>1 DEF EntryInv, LockInv, TInv, TypeOK, ScanHolds
  <2>4. EntryHasSession'
    BY <2>1 DEF EntryInv, LockInv, TInv, TypeOK, EntryHasSession
  <2> QED
    BY <2>2, <2>3, <2>4
<1>6. ASSUME NEW t \in Threads,
             \/ \E s \in Segments : GetSegmentFinds(t, s)
             \/ GetSegmentTells(t) \/ GetSegmentUsesDeleted(t)
      PROVE  OneEntryPerFile' /\ ScanHolds' /\ EntryHasSession'
  <2>1. UNCHANGED <<readLockedFiles, arg>>
    BY <1>6 DEF GetSegmentFinds, GetSegmentTells, GetSegmentUsesDeleted,
                Undefined, locks, callVars
  <2>2. \E label \in {"reading", "seek", "fetch"} :
            pc' = pc \/ pc' = [pc EXCEPT ![t] = label]
    BY <1>6 DEF GetSegmentFinds, GetSegmentTells, GetSegmentUsesDeleted,
                Undefined
  <2> QED
    BY <2>1, <2>2, EntriesKept DEF EntryInv, LockInv, TInv, TypeOK
<1>7. ASSUME NEW t \in Threads, GetSegmentSeeks(t) \/ GetSegmentReads(t)
      PROVE  OneEntryPerFile' /\ ScanHolds' /\ EntryHasSession'
  <2>1. \A u \in Threads :
            /\ pc[u] \in SessionPcs => pc'[u] \in SessionPcs /\ arg'[u] = arg[u]
            /\ pc'[u] = "rlOpen" => pc[u] = "rlOpen" /\ arg'[u] = arg[u]
    BY <1>7 DEF GetSegmentSeeks, GetSegmentReads, EntryInv, LockInv, TInv, TypeOK,
                callVars
  <2> QED
    BY <1>7, <2>1, MovesStream, EntriesKept DEF EntryInv, LockInv
<1>8. ASSUME NEW t \in Threads, ReadUnlock(t)
      PROVE  OneEntryPerFile' /\ ScanHolds' /\ EntryHasSession'
  <2>1. CASE alive' = FALSE /\ UNCHANGED <<readLockedFiles, of, pc>>
    BY <1>8, <2>1, ReadUnlockCases, EntriesKept
  <2>2. CASE /\ ~ReadLocked(arg[t])
             /\ pc' = [pc EXCEPT ![t] = "idle"]
             /\ UNCHANGED <<alive, readLockedFiles, of>>
    <3>1. UNCHANGED arg
      BY <1>8, ReadUnlockCases
    <3>2. OneEntryPerFile' /\ ScanHolds'
      BY <2>2, <3>1 DEF EntryInv, LockInv, TInv, TypeOK, OneEntryPerFile,
                        ScanHolds, ReadLocked, EntriesOf
    <3>3. EntryHasSession'
      BY <2>2, <3>1 DEF EntryInv, LockInv, TInv, TypeOK, EntryHasSession,
                        ReadLocked, EntriesOf
    <3> QED
      BY <3>2, <3>3
  <2> QED
    BY <1>8, <2>1, <2>2, ReadUnlockCases, ErasesEntry
<1>9. ASSUME NEW t \in Threads,
             \E f \in Files : StoreSegmentToFile(t, f) \/ ReadLock(t, f)
      PROVE  OneEntryPerFile' /\ ScanHolds' /\ EntryHasSession'
  BY <1>9, EntriesKept
     DEF StoreSegmentToFile, ReadLock, Call, EntryInv, LockInv, TInv, TypeOK, locks
<1>10. CASE (\E f \in Files : CreateLocalFile(f)) \/ UNCHANGED vars
  BY <1>10, EntriesKept DEF CreateLocalFile, vars, locks, callVars
<1> QED
  BY <1>1, <1>2, <1>3, <1>4, <1>5, <1>6, <1>7, <1>8, <1>9, <1>10, OpensEntry
     DEF Next, Step, Calls

\* The invariant of the entries holds initially.
LEMMA InitEntries == Init => EntryInv
<1>1. Init => OneEntryPerFile /\ ScanHolds /\ EntryHasSession
  BY DEF Init, OneEntryPerFile, ScanHolds, EntryHasSession
<1> QED
  BY <1>1, InitLocks DEF EntryInv

\* No file is opened twice by concurrent readLocks.
THEOREM EntriesCorrect == Spec => []OneEntryPerFile
<1>1. EntryInv => OneEntryPerFile
  BY DEF EntryInv
<1> QED
  BY InitEntries, NextEntries, <1>1, PTL DEF Spec

\* No file stays read-locked after its last read session.
THEOREM NoEntryLeft == Spec => []EntryHasSession
<1>1. EntryInv => EntryHasSession
  BY DEF EntryInv
<1> QED
  BY InitEntries, NextEntries, <1>1, PTL DEF Spec

-----------------------------------------------------------------------------
(***************************************************************************)
(* The position of a shared stream.  Whoever moves it from under a reader  *)
(* that is about to read has a session of the file, and cannot end it      *)
(* without closing the stream.                                             *)
(***************************************************************************)

\* The stream is where the reader put it, or some other reader uses it.
StreamHeld ==
    \A t \in Threads :
        pc[t] = "fetch" /\ of[t] = "valid" =>
            \/ \A i \in EntriesOf(arg[t]) : readLockedFiles[i].pos = seg[t]
            \/ \E u \in Readers \ {t} : arg[u] = arg[t] /\ pc[u] \in SessionPcs

\* Only readers have read sessions.
ReadersOnly ==
    \A t \in Threads : pc[t] \in ReadLockPcs \cup SessionPcs => t \in Readers

StreamInv == EntryInv /\ ReadersOnly /\ StreamHeld

\* A step that moves no stream, brings no thread to the read, and ends no session.
LEMMA StreamKept ==
  ASSUME StreamInv, UNCHANGED readLockedFiles,
         \A t \in Threads :
            /\ pc'[t] = "fetch" /\ of'[t] = "valid" =>
                  /\ pc[t] = "fetch" /\ of[t] = "valid"
                  /\ arg'[t] = arg[t] /\ seg'[t] = seg[t]
            /\ pc[t] \in SessionPcs => pc'[t] \in SessionPcs /\ arg'[t] = arg[t]
  PROVE  StreamHeld'
<1> SUFFICES ASSUME NEW t \in Threads, pc'[t] = "fetch", of'[t] = "valid",
                    ~\A i \in EntriesOf(arg[t])' : readLockedFiles'[i].pos = seg'[t]
             PROVE  \E u \in Readers \ {t} : arg'[u] = arg'[t] /\ pc'[u] \in SessionPcs
  BY DEF StreamHeld
<1>1. ~\A i \in EntriesOf(arg[t]) : readLockedFiles[i].pos = seg[t]
  BY DEF EntriesOf
<1>2. PICK u \in Readers \ {t} : arg[u] = arg[t] /\ pc[u] \in SessionPcs
  BY <1>1 DEF StreamInv, StreamHeld
<1> QED
  BY <1>2 DEF Threads

\* seekg or read: the reader that moves the stream has a session.
LEMMA MovesHeld ==
  ASSUME StreamInv, NEW t \in Threads, GetSegmentSeeks(t) \/ GetSegmentReads(t)
  PROVE  StreamHeld'
<1>1. /\ UNCHANGED <<arg, seg>>
      /\ pc[t] \in {"seek", "fetch"}
      /\ \/ pc' = [pc EXCEPT ![t] = "tell"] /\ of' = of
         \/ pc' = [pc EXCEPT ![t] = "reading"] /\ of' = [of EXCEPT ![t] = "unset"]
  BY DEF GetSegmentSeeks, GetSegmentReads, Goto, callVars
<1>2. t \in Readers /\ pc'[t] \in SessionPcs \ {"fetch"}
  BY <1>1 DEF StreamInv, ReadersOnly, SessionPcs, EntryInv, LockInv, TInv, TypeOK
<1>3. \A u \in Threads \ {t} : pc'[u] = pc[u] /\ of'[u] = of[u]
  BY <1>1 DEF StreamInv, EntryInv, LockInv, TInv, TypeOK
<1>4. /\ DOMAIN readLockedFiles' = DOMAIN readLockedFiles
      /\ \A i \in DOMAIN readLockedFiles :
            /\ readLockedFiles'[i].file = readLockedFiles[i].file
            /\ readLockedFiles[i].file # arg[t] =>
                  readLockedFiles'[i] = readLockedFiles[i]
  <2>1. \E p : SetStreamPos(arg[t], p)
    BY DEF GetSegmentSeeks, GetSegmentReads
  <2> QED
    BY <2>1, MovesStream DEF SetStreamPos, StreamInv, EntryInv, LockInv
<1> SUFFICES ASSUME NEW v \in Threads, pc'[v] = "fetch", of'[v] = "valid"
             PROVE  \/ \A i \in EntriesOf(arg[v])' : readLockedFiles'[i].pos = seg'[v]
                    \/ \E u \in Readers \ {v} :
                          arg'[u] = arg'[v] /\ pc'[u] \in SessionPcs
  BY DEF StreamHeld
<1>5. v # t /\ pc[v] = "fetch" /\ of[v] = "valid"
  BY <1>2, <1>3
<1>6. CASE arg[v] = arg[t]
  BY <1>1, <1>2, <1>5, <1>6
<1>7. CASE arg[v] # arg[t]
  <2>1. CASE \A i \in EntriesOf(arg[v]) : readLockedFiles[i].pos = seg[v]
    BY <1>1, <1>4, <1>7, <2>1 DEF EntriesOf
  <2>2. CASE \E u \in Readers \ {v} : arg[u] = arg[v] /\ pc[u] \in SessionPcs
    <3>1. PICK u \in Readers \ {v} : arg[u] = arg[v] /\ pc[u] \in SessionPcs
      BY <2>2
    <3>2. u # t
      BY <1>7, <3>1
    <3> QED
      BY <1>1, <1>3, <3>1, <3>2 DEF Threads
  <2> QED
    BY <1>5, <2>1, <2>2 DEF StreamInv, StreamHeld
<1> QED
  BY <1>6, <1>7

\* tellg: the reader goes on only if the stream is where it should be.
LEMMA TellsHeld ==
  ASSUME StreamInv, NEW t \in Threads, GetSegmentTells(t)
  PROVE  StreamHeld'
<1>1. CASE StreamPos(arg[t]) = seg[t]
  <2>1. /\ UNCHANGED <<readLockedFiles, arg, seg, of>>
        /\ pc[t] = "tell" /\ of[t] = "valid"
        /\ pc' = [pc EXCEPT ![t] = "fetch"]
    BY <1>1 DEF GetSegmentTells, Goto, locks
  <2>2. \A i \in EntriesOf(arg[t]) : readLockedFiles[i].pos = seg[t]
    <3> SUFFICES ASSUME NEW i \in EntriesOf(arg[t])
                 PROVE  readLockedFiles[i].pos = seg[t]
      OBVIOUS
    <3>1. (CHOOSE j \in EntriesOf(arg[t]) : TRUE) \in EntriesOf(arg[t])
      OBVIOUS
    <3>2. (CHOOSE j \in EntriesOf(arg[t]) : TRUE) = i
      BY <3>1 DEF EntriesOf, StreamInv, EntryInv, OneEntryPerFile
    <3> QED
      BY <1>1, <3>2 DEF StreamPos
  <2>3. \A u \in Threads : pc[u] \in SessionPcs => pc'[u] \in SessionPcs
    BY <2>1 DEF SessionPcs, StreamInv, EntryInv, LockInv, TInv, TypeOK
  <2> SUFFICES ASSUME NEW v \in Threads, pc'[v] = "fetch", of'[v] = "valid"
               PROVE  \/ \A i \in EntriesOf(arg[v])' :
                            readLockedFiles'[i].pos = seg'[v]
                      \/ \E u \in Readers \ {v} :
                            arg'[u] = arg'[v] /\ pc'[u] \in SessionPcs
    BY DEF StreamHeld
  <2>4. CASE v = t
    BY <2>1, <2>2, <2>4 DEF EntriesOf
  <2>5. CASE v # t
    <3>1. pc[v] = "fetch" /\ of[v] = "valid"
      BY <2>1, <2>5 DEF StreamInv, EntryInv, LockInv, TInv, TypeOK
    <3>2. CASE \A i \in EntriesOf(arg[v]) : readLockedFiles[i].pos = seg[v]
      BY <2>1, <3>2 DEF EntriesOf
    <3>3. CASE \E u \in Readers \ {v} : arg[u] = arg[v] /\ pc[u] \in SessionPcs
      BY <2>1, <2>3, <3>3 DEF Threads
    <3> QED
      BY <3>1, <3>2, <3>3 DEF StreamInv, StreamHeld
  <2> QED
    BY <2>4, <2>5
<1>2. CASE StreamPos(arg[t]) # seg[t]
  BY <1>2, StreamKept
     DEF GetSegmentTells, Goto, locks, SessionPcs, StreamInv, EntryInv, LockInv, TInv,
         TypeOK
<1> QED
  BY <1>1, <1>2

\* A file is opened: nobody has a pointer to it yet.
LEMMA OpensHeld ==
  ASSUME StreamInv, NEW t \in Threads, ReadLockOpens(t)
  PROVE  StreamHeld'
<1> DEFINE n == Len(readLockedFiles)
<1>1. /\ n \in Nat
      /\ DOMAIN readLockedFiles = 1 .. n
      /\ DOMAIN readLockedFiles' = 1 .. n + 1
      /\ \A i \in 1 .. n : readLockedFiles'[i] = readLockedFiles[i]
      /\ readLockedFiles'[n + 1].file = arg[t]
  BY OpensAppends DEF StreamInv, EntryInv, LockInv, TInv
<1>2. /\ pc[t] = "rlOpen"
      /\ pc' = [pc EXCEPT ![t] = "reading"]
      /\ UNCHANGED <<arg, of, seg>>
  BY DEF ReadLockOpens, Goto, callVars
<1> HIDE DEF n
<1> SUFFICES ASSUME NEW v \in Threads, pc'[v] = "fetch", of'[v] = "valid"
             PROVE  \/ \A i \in EntriesOf(arg[v])' : readLockedFiles'[i].pos = seg'[v]
                    \/ \E u \in Readers \ {v} :
                          arg'[u] = arg'[v] /\ pc'[u] \in SessionPcs
  BY DEF StreamHeld
<1>3. v # t /\ pc[v] = "fetch" /\ of[v] = "valid"
  BY <1>2 DEF StreamInv, EntryInv, LockInv, TInv, TypeOK
<1>4. arg[v] # arg[t]
  BY <1>2, <1>3 DEF StreamInv, EntryInv, ScanHolds, LockInv, TInv, PointerLive
<1>5. CASE \A i \in EntriesOf(arg[v]) : readLockedFiles[i].pos = seg[v]
  BY <1>1, <1>2, <1>4, <1>5 DEF EntriesOf
<1>6. CASE \E u \in Readers \ {v} : arg[u] = arg[v] /\ pc[u] \in SessionPcs
  BY <1>2, <1>6 DEF Threads, SessionPcs, StreamInv, EntryInv, LockInv, TInv, TypeOK
<1> QED
  BY <1>3, <1>5, <1>6 DEF StreamInv, StreamHeld

\* A session ends: if there is an entry it closes the stream for all of them.
LEMMA UnlocksHeld ==
  ASSUME StreamInv, NEW t \in Threads, ReadUnlock(t)
  PROVE  StreamHeld'
<1>1. CASE alive' = FALSE /\ UNCHANGED <<readLockedFiles, of, pc>>
  BY <1>1, ReadUnlockCases, StreamKept
<1>2. ASSUME pc' = [pc EXCEPT ![t] = "idle"], UNCHANGED <<arg, seg>>,
             NEW v \in Threads, pc'[v] = "fetch", of[v] = "valid", arg[v] # arg[t],
             \A i \in EntriesOf(arg[v])' : \E j \in EntriesOf(arg[v]) :
                readLockedFiles'[i].pos = readLockedFiles[j].pos
      PROVE  \/ \A i \in EntriesOf(arg[v])' : readLockedFiles'[i].pos = seg'[v]
             \/ \E u \in Readers \ {v} : arg'[u] = arg'[v] /\ pc'[u] \in SessionPcs
  <2>1. pc[v] = "fetch"
    BY <1>2 DEF StreamInv, EntryInv, LockInv, TInv, TypeOK
  <2>2. CASE \A i \in EntriesOf(arg[v]) : readLockedFiles[i].pos = seg[v]
    BY <1>2, <2>2
  <2>3. CASE \E u \in Readers \ {v} : arg[u] = arg[v] /\ pc[u] \in SessionPcs
    <3>1. PICK u \in Readers \ {v} : arg[u] = arg[v] /\ pc[u] \in SessionPcs
      BY <2>3
    <3>2. u # t
      BY <1>2, <3>1
    <3> QED
      BY <1>2, <3>1, <3>2 DEF Threads, StreamInv, EntryInv, LockInv, TInv, TypeOK
  <2> QED
    BY <1>2, <2>1, <2>2, <2>3 DEF StreamInv, StreamHeld
<1>3. CASE /\ ~ReadLocked(arg[t])
           /\ pc' = [pc EXCEPT ![t] = "idle"]
           /\ UNCHANGED <<alive, readLockedFiles, of>>
  <2> SUFFICES ASSUME NEW v \in Threads, pc'[v] = "fetch", of'[v] = "valid"
               PROVE  \/ \A i \in EntriesOf(arg[v])' :
                            readLockedFiles'[i].pos = seg'[v]
                      \/ \E u \in Readers \ {v} :
                            arg'[u] = arg'[v] /\ pc'[u] \in SessionPcs
    BY DEF StreamHeld
  <2>1. UNCHANGED <<arg, seg>>
    BY ReadUnlockCases
  <2>2. pc[v] = "fetch" /\ of[v] = "valid"
    BY <1>3 DEF StreamInv, EntryInv, LockInv, TInv, TypeOK
  <2>3. arg[v] # arg[t]
    BY <1>3, <2>2 DEF StreamInv, EntryInv, LockInv, TInv, PointerLive
  <2>4. \A i \in EntriesOf(arg[v])' : \E j \in EntriesOf(arg[v]) :
            readLockedFiles'[i].pos = readLockedFiles[j].pos
    BY <1>3, <2>1 DEF EntriesOf
  <2> QED
    BY <1>2, <1>3, <2>1, <2>2, <2>3, <2>4
<1>4. ASSUME NEW k \in DOMAIN readLockedFiles, Erases(t, k)
      PROVE  StreamHeld'
  <2> SUFFICES ASSUME NEW v \in Threads, pc'[v] = "fetch", of'[v] = "valid"
               PROVE  \/ \A i \in EntriesOf(arg[v])' :
                            readLockedFiles'[i].pos = seg'[v]
                      \/ \E u \in Readers \ {v} :
                            arg'[u] = arg'[v] /\ pc'[u] \in SessionPcs
    BY DEF StreamHeld
  <2>1. pc' = [pc EXCEPT ![t] = "idle"] /\ UNCHANGED <<arg, seg>>
    BY <1>4, ReadUnlockCases DEF Erases
  <2>2. of[v] = "valid" /\ arg[v] # arg[t]
    BY <1>4 DEF Erases
  <2>3. \A i \in EntriesOf(arg[v])' : \E j \in EntriesOf(arg[v]) :
            readLockedFiles'[i].pos = readLockedFiles[j].pos
    <3>1. /\ Len(readLockedFiles) \in Nat
          /\ DOMAIN readLockedFiles = 1 .. Len(readLockedFiles)
          /\ DOMAIN readLockedFiles' = 1 .. Len(readLockedFiles) - 1
          /\ \A j \in 1 .. Len(readLockedFiles) - 1 :
                readLockedFiles'[j] =
                    IF j < k THEN readLockedFiles[j] ELSE readLockedFiles[j + 1]
      BY <1>4, ErasesOne DEF StreamInv, EntryInv, LockInv, TInv
    <3> DEFINE n == Len(readLockedFiles)
    <3>2. ASSUME NEW i \in EntriesOf(arg[v])'
          PROVE  \E j \in EntriesOf(arg[v]) :
                    readLockedFiles'[i].pos = readLockedFiles[j].pos
      <4>1. i \in 1 .. n - 1 /\ readLockedFiles'[i].file = arg[v]
        BY <2>1, <3>1, <3>2 DEF EntriesOf
      <4>2. PICK j \in {i, i + 1} : readLockedFiles'[i] = readLockedFiles[j]
        BY <3>1, <4>1
      <4>3. j \in DOMAIN readLockedFiles
        BY <3>1, <4>1
      <4> QED
        BY <4>1, <4>2, <4>3 DEF EntriesOf
    <3> QED
      BY <3>2
  <2> QED
    BY <1>2, <2>1, <2>2, <2>3
<1> QED
  BY <1>1, <1>3, <1>4, ReadUnlockCases

\* Every step keeps read sessions to the readers.
LEMMA NextReadersOnly ==
  ASSUME StreamInv, [Next]_vars
  PROVE  ReadersOnly'
<1> USE DEF StreamInv, EntryInv, LockInv, TInv, TypeOK, ReadersOnly, ReadLockPcs,
            SessionPcs, Goto
<1>1. ASSUME NEW t \in Threads,
             \/ WriteLockTakeWrite(t) \/ WriteLockTakeRead(t)
             \/ WriteLockRefused(t) \/ WriteLockGranted(t) \/ WriteLockPush(t)
             \/ EnterWait(t) \/ LeaveWait(t) \/ SpuriousWakeup(t)
      PROVE  ReadersOnly'
  BY <1>1 DEF WriteLockTakeWrite, WriteLockTakeRead, WriteLockRefused,
              WriteLockGranted, WriteLockPush, EnterWait, LeaveWait, SpuriousWakeup
<1>2. ASSUME NEW t \in Threads,
             \/ StoreFailsToOpen(t) \/ StoreWrites(t)
             \/ WriteUnlockErases(t) \/ WriteUnlockNotifies(t)
      PROVE  ReadersOnly'
  BY <1>2 DEF StoreFailsToOpen, StoreWrites, WriteUnlockErases, WriteUnlockNotifies
<1>3. ASSUME NEW t \in Threads,
             \/ ReadLockRefused(t) \/ ReadLockPasses(t) \/ ReadLockTakeRead(t)
             \/ ReadLockJoins(t) \/ ReadLockFindsNone(t)
             \/ ReadLockOpens(t) \/ ReadLockFailsToOpen(t)
      PROVE  ReadersOnly'
  BY <1>3 DEF ReadLockRefused, ReadLockPasses, ReadLockTakeRead, ReadLockJoins,
              ReadLockFindsNone, ReadLockOpens, ReadLockFailsToOpen
<1>4. ASSUME NEW t \in Threads,
             \/ \E s \in Segments : GetSegmentFinds(t, s)
             \/ GetSegmentSeeks(t) \/ GetSegmentTells(t) \/ GetSegmentReads(t)
             \/ GetSegmentUsesDeleted(t)
      PROVE  ReadersOnly'
  BY <1>4 DEF GetSegmentFinds, GetSegmentSeeks, GetSegmentTells,
              GetSegmentReads, GetSegmentUsesDeleted, Undefined
<1>5. ASSUME NEW t \in Threads, ReadUnlock(t)
      PROVE  ReadersOnly'
  <2>1. pc' = pc \/ pc' = [pc EXCEPT ![t] = "idle"]
    BY <1>5, ReadUnlockCases DEF Erases
  <2> QED
    BY <2>1
<1>6. ASSUME NEW t \in Threads,
             \E f \in Files : StoreSegmentToFile(t, f) \/ ReadLock(t, f)
      PROVE  ReadersOnly'
  BY <1>6 DEF StoreSegmentToFile, ReadLock, Call
<1>7. CASE (\E f \in Files : CreateLocalFile(f)) \/ UNCHANGED vars
  BY <1>7 DEF CreateLocalFile, vars
<1> QED
  BY <1>1, <1>2, <1>3, <1>4, <1>5, <1>6, <1>7 DEF Next, Step, Calls

\* Every step keeps the invariant of the stream.
LEMMA NextStream == StreamInv /\ [Next]_vars => StreamInv'
<1> SUFFICES ASSUME StreamInv, [Next]_vars
             PROVE  StreamHeld'
  BY NextEntries, NextReadersOnly DEF StreamInv
<1> USE DEF SessionPcs, Goto
<1>1. ASSUME NEW t \in Threads,
             \/ WriteLockTakeWrite(t) \/ WriteLockTakeRead(t)
             \/ WriteLockRefused(t) \/ WriteLockGranted(t) \/ WriteLockPush(t)
             \/ EnterWait(t) \/ LeaveWait(t) \/ SpuriousWakeup(t)
      PROVE  StreamHeld'
  BY <1>1, StreamKept
     DEF WriteLockTakeWrite, WriteLockTakeRead, WriteLockRefused,
         WriteLockGranted, WriteLockPush, EnterWait, LeaveWait, SpuriousWakeup,
         StreamInv, EntryInv, LockInv, TInv, TypeOK, locks, callVars
<1>2. ASSUME NEW t \in Threads,
             \/ StoreFailsToOpen(t) \/ StoreWrites(t)
             \/ WriteUnlockErases(t) \/ WriteUnlockNotifies(t)
      PROVE  StreamHeld'
  BY <1>2, StreamKept
     DEF StoreFailsToOpen, StoreWrites, WriteUnlockErases, WriteUnlockNotifies,
         StreamInv, EntryInv, LockInv, TInv, TypeOK, locks, callVars
<1>3. ASSUME NEW t \in Threads,
             \/ ReadLockRefused(t) \/ ReadLockPasses(t) \/ ReadLockTakeRead(t)
             \/ ReadLockJoins(t) \/ ReadLockFindsNone(t) \/ ReadLockFailsToOpen(t)
      PROVE  StreamHeld'
  BY <1>3, StreamKept
     DEF ReadLockRefused, ReadLockPasses, ReadLockTakeRead, ReadLockJoins,
         ReadLockFindsNone, ReadLockFailsToOpen, StreamInv, EntryInv, LockInv, TInv,
         TypeOK, locks, callVars
<1>4. ASSUME NEW t \in Threads,
             (\E s \in Segments : GetSegmentFinds(t, s)) \/ GetSegmentUsesDeleted(t)
      PROVE  StreamHeld'
  <2>1. /\ UNCHANGED <<readLockedFiles, arg>>
        /\ \A u \in Threads \ {t} : seg'[u] = seg[u] /\ of'[u] = of[u]
    BY <1>4 DEF GetSegmentFinds, GetSegmentUsesDeleted, Undefined, locks, StreamInv,
                EntryInv, LockInv, TInv, TypeOK
  <2>2. /\ pc[t] = "reading" \/ of'[t] = "unset"
        /\ \E label \in {"reading", "seek"} : pc' = pc \/ pc' = [pc EXCEPT ![t] = label]
    BY <1>4 DEF GetSegmentFinds, GetSegmentUsesDeleted, Undefined, StreamInv,
                EntryInv, LockInv, TInv, TypeOK
  <2>3. pc[t] \in SessionPcs
    BY <1>4 DEF GetSegmentFinds, GetSegmentUsesDeleted
  <2> QED
    BY <2>1, <2>2, <2>3, StreamKept DEF StreamInv, EntryInv, LockInv, TInv, TypeOK
<1>5. ASSUME NEW t \in Threads,
             \E f \in Files : StoreSegmentToFile(t, f) \/ ReadLock(t, f)
      PROVE  StreamHeld'
  BY <1>5, StreamKept
     DEF StoreSegmentToFile, ReadLock, Call, StreamInv, EntryInv, LockInv, TInv,
         TypeOK, locks
<1>6. CASE (\E f \in Files : CreateLocalFile(f)) \/ UNCHANGED vars
  BY <1>6, StreamKept DEF CreateLocalFile, vars, locks, callVars
<1> QED
  BY <1>1, <1>2, <1>3, <1>4, <1>5, <1>6, MovesHeld, TellsHeld, OpensHeld, UnlocksHeld
     DEF Next, Step, Calls

\* A reader that has the file to itself reads where it sought.
THEOREM ReadsCorrect == Spec => []ReadsOwnSegment
<1>1. Init => StreamInv
  BY InitEntries DEF Init, StreamInv, StreamHeld, ReadersOnly, ReadLockPcs, SessionPcs
<1>2. StreamInv => ReadsOwnSegment
  <2> SUFFICES ASSUME StreamInv, NEW t \in Readers, pc[t] = "fetch", of[t] = "valid",
                      \A u \in Readers \ {t} : arg[u] = arg[t] => pc[u] \notin SessionPcs
               PROVE  StreamPos(arg[t]) = seg[t]
    BY DEF ReadsOwnSegment
  <2>1. \A i \in EntriesOf(arg[t]) : readLockedFiles[i].pos = seg[t]
    BY DEF StreamInv, StreamHeld, Threads
  <2>2. EntriesOf(arg[t]) # {}
    BY DEF StreamInv, EntryInv, LockInv, TInv, PointerLive, ReadLocked, Threads
  <2> QED
    BY <2>1, <2>2 DEF StreamPos
<1> QED
  BY <1>1, <1>2, NextStream, PTL DEF Spec

-----------------------------------------------------------------------------
(* The account of the write locks.                                          *)

AccountInv == TInv /\ WriteLocksAccounted

\* The threads that store to a file are finitely many.
LEMMA StoringFinite ==
  ASSUME NEW f
  PROVE  IsFiniteSet(Storing(f)) /\ Cardinality(Storing(f)) \in Nat
<1>1. Storing(f) \in SUBSET Threads
  BY DEF Storing
<1> QED
  BY <1>1, ThreadsAssumption, FS_Subset, FS_CardinalityType

\* A step in which nobody starts or ends a store.
LEMMA AccountKept ==
  ASSUME AccountInv, UNCHANGED <<writeLockedFiles, leaked>>,
         \A t \in Threads :
            /\ pc'[t] \in StorePcs <=> pc[t] \in StorePcs
            /\ pc[t] \in StorePcs => arg'[t] = arg[t]
  PROVE  WriteLocksAccounted'
<1>1. \A f \in Files : Storing(f)' = Storing(f)
  BY DEF Storing
<1> QED
  BY <1>1 DEF AccountInv, WriteLocksAccounted

\* A write lock is recorded.
LEMMA PushAccount ==
  ASSUME AccountInv, NEW t \in Threads, WriteLockPush(t)
  PROVE  WriteLocksAccounted'
<1>1. /\ arg[t] \in Files
      /\ pc[t] = "wlPush"
      /\ pc' = [pc EXCEPT ![t] = "storing"]
      /\ writeLockedFiles' = [writeLockedFiles EXCEPT ![arg[t]] = @ + 1]
      /\ UNCHANGED <<arg, leaked>>
  BY DEF WriteLockPush, Goto, AccountInv, TInv, TypeOK, callVars
<1>2. ASSUME NEW f \in Files
      PROVE  (writeLockedFiles[f] = Cardinality(Storing(f)) + leaked[f])'
  <2>1. writeLockedFiles[f] = Cardinality(Storing(f)) + leaked[f] /\ leaked[f] \in Nat
    BY DEF AccountInv, TInv, TypeOK, WriteLocksAccounted
  <2>2. CASE f = arg[t]
    <3>1. Storing(f)' = Storing(f) \cup {t} /\ t \notin Storing(f)
      BY <1>1, <2>2 DEF AccountInv, TInv, TypeOK, Storing, StorePcs
    <3>2. Cardinality(Storing(f)') = Cardinality(Storing(f)) + 1
      BY <3>1, StoringFinite, FS_AddElement
    <3>3. writeLockedFiles'[f] = writeLockedFiles[f] + 1
      BY <1>1, <2>2 DEF AccountInv, TInv, TypeOK
    <3> QED
      BY <1>1, <2>1, <3>2, <3>3, StoringFinite
  <2>3. CASE f # arg[t]
    <3>1. Storing(f)' = Storing(f)
      BY <1>1, <2>3 DEF AccountInv, TInv, TypeOK, Storing
    <3>2. writeLockedFiles'[f] = writeLockedFiles[f]
      BY <1>1, <2>3 DEF AccountInv, TInv, TypeOK
    <3> QED
      BY <1>1, <2>1, <3>1, <3>2
  <2> QED
    BY <2>2, <2>3
<1> QED
  BY <1>2 DEF WriteLocksAccounted

\* A store ends: its write lock is erased, or it leaks.
LEMMA EndAccount ==
  ASSUME AccountInv, NEW t \in Threads, WriteUnlockErases(t) \/ StoreFailsToOpen(t)
  PROVE  WriteLocksAccounted'
<1>1. /\ arg[t] \in Files
      /\ pc[t] \in StorePcs
      /\ t \in Storing(arg[t])
      /\ UNCHANGED arg
  BY DEF WriteUnlockErases, StoreFailsToOpen, AccountInv, TInv, TypeOK, callVars,
         Storing, StorePcs
<1>2. \A f \in Files :
        /\ writeLockedFiles[f] = Cardinality(Storing(f)) + leaked[f]
        /\ writeLockedFiles[f] \in Nat
        /\ leaked[f] \in Nat
  BY DEF AccountInv, TInv, TypeOK, WriteLocksAccounted
<1>3. Cardinality(Storing(arg[t])) > 0
  BY <1>1, StoringFinite, FS_EmptySet
<1>4. writeLockedFiles[arg[t]] > 0
  BY <1>1, <1>2, <1>3, StoringFinite
<1>5. pc' = [pc EXCEPT ![t] = "notify"] \/ pc' = [pc EXCEPT ![t] = "idle"]
  BY DEF WriteUnlockErases, StoreFailsToOpen, Goto
<1>6. ASSUME NEW f \in Files
      PROVE  (writeLockedFiles[f] = Cardinality(Storing(f)) + leaked[f])'
  <2>1. CASE f = arg[t]
    <3>1. Storing(f)' = Storing(f) \ {t} /\ t \in Storing(f)
      BY <1>1, <1>5, <2>1 DEF AccountInv, TInv, TypeOK, Storing, StorePcs
    <3>2. Cardinality(Storing(f)') = Cardinality(Storing(f)) - 1
      BY <3>1, StoringFinite, FS_RemoveElement
    <3>3. CASE WriteUnlockErases(t)
      <4>1. writeLockedFiles'[f] = writeLockedFiles[f] - 1 /\ leaked' = leaked
        BY <1>4, <2>1, <3>3 DEF WriteUnlockErases, AccountInv, TInv, TypeOK
      <4> QED
        BY <1>2, <3>2, <4>1, StoringFinite
    <3>4. CASE StoreFailsToOpen(t)
      <4>1. leaked'[f] = leaked[f] + 1 /\ writeLockedFiles' = writeLockedFiles
        BY <2>1, <3>4 DEF StoreFailsToOpen, AccountInv, TInv, TypeOK, locks
      <4> QED
        BY <1>2, <3>2, <4>1, StoringFinite
    <3> QED
      BY <3>3, <3>4
  <2>2. CASE f # arg[t]
    <3>1. Storing(f)' = Storing(f)
      BY <1>1, <1>5, <2>2 DEF AccountInv, TInv, TypeOK, Storing
    <3>2. writeLockedFiles'[f] = writeLockedFiles[f] /\ leaked'[f] = leaked[f]
      <4>1. CASE WriteUnlockErases(t)
        BY <1>4, <2>2, <4>1 DEF WriteUnlockErases, AccountInv, TInv, TypeOK
      <4>2. CASE StoreFailsToOpen(t)
        BY <2>2, <4>2 DEF StoreFailsToOpen, AccountInv, TInv, TypeOK, locks
      <4> QED
        BY <4>1, <4>2
    <3> QED
      BY <1>2, <3>1, <3>2
  <2> QED
    BY <2>1, <2>2
<1> QED
  BY <1>6 DEF WriteLocksAccounted

\* Every step keeps the account.
LEMMA NextAccount == AccountInv /\ [Next]_vars => AccountInv'
<1> SUFFICES ASSUME AccountInv, [Next]_vars
             PROVE  WriteLocksAccounted'
  BY NextType DEF AccountInv
<1> USE DEF StorePcs, Goto
<1>1. ASSUME NEW t \in Threads,
             \/ WriteLockTakeWrite(t) \/ WriteLockTakeRead(t)
             \/ WriteLockRefused(t) \/ WriteLockGranted(t)
      PROVE  WriteLocksAccounted'
  BY <1>1, AccountKept
     DEF WriteLockTakeWrite, WriteLockTakeRead, WriteLockRefused,
         WriteLockGranted, AccountInv, TInv, TypeOK, locks, callVars
<1>2. ASSUME NEW t \in Threads, EnterWait(t) \/ LeaveWait(t) \/ SpuriousWakeup(t)
      PROVE  WriteLocksAccounted'
  BY <1>2, AccountKept
     DEF EnterWait, LeaveWait, SpuriousWakeup, AccountInv, TInv, TypeOK, locks,
         callVars
<1>3. ASSUME NEW t \in Threads, StoreWrites(t) \/ WriteUnlockNotifies(t)
      PROVE  WriteLocksAccounted'
  BY <1>3, AccountKept
     DEF StoreWrites, WriteUnlockNotifies, AccountInv, TInv, TypeOK, locks,
         callVars
<1>4. ASSUME NEW t \in Threads,
             \/ ReadLockRefused(t) \/ ReadLockPasses(t) \/ ReadLockTakeRead(t)
             \/ ReadLockJoins(t) \/ ReadLockFindsNone(t)
             \/ ReadLockOpens(t) \/ ReadLockFailsToOpen(t)
      PROVE  WriteLocksAccounted'
  BY <1>4, AccountKept
     DEF ReadLockRefused, ReadLockPasses, ReadLockTakeRead, ReadLockJoins,
         ReadLockFindsNone, ReadLockOpens, ReadLockFailsToOpen, AccountInv, TInv,
         TypeOK, locks, callVars
<1>5. ASSUME NEW t \in Threads,
             \/ \E s \in Segments : GetSegmentFinds(t, s)
             \/ GetSegmentSeeks(t) \/ GetSegmentTells(t) \/ GetSegmentReads(t)
             \/ GetSegmentUsesDeleted(t)
      PROVE  WriteLocksAccounted'
  <2>1. UNCHANGED <<writeLockedFiles, leaked, arg>>
    BY <1>5 DEF GetSegmentFinds, GetSegmentSeeks, GetSegmentTells,
                GetSegmentReads, GetSegmentUsesDeleted, Undefined, locks, callVars
  <2>2. \E label \in {"reading", "seek", "tell", "fetch"} :
            pc' = pc \/ pc' = [pc EXCEPT ![t] = label]
    BY <1>5 DEF GetSegmentFinds, GetSegmentSeeks, GetSegmentTells,
                GetSegmentReads, GetSegmentUsesDeleted, Undefined
  <2>3. pc[t] \in SessionPcs
    BY <1>5 DEF GetSegmentFinds, GetSegmentSeeks, GetSegmentTells,
                GetSegmentReads, GetSegmentUsesDeleted, SessionPcs
  <2> QED
    BY <2>1, <2>2, <2>3, AccountKept DEF AccountInv, TInv, TypeOK, SessionPcs
<1>6. ASSUME NEW t \in Threads, ReadUnlock(t)
      PROVE  WriteLocksAccounted'
  <2>1. pc[t] = "reading" /\ (pc' = pc \/ pc' = [pc EXCEPT ![t] = "idle"])
    BY <1>6, ReadUnlockCases DEF Erases
  <2> QED
    BY <1>6, <2>1, ReadUnlockCases, AccountKept DEF AccountInv, TInv, TypeOK
<1>7. ASSUME NEW t \in Threads,
             \E f \in Files : StoreSegmentToFile(t, f) \/ ReadLock(t, f)
      PROVE  WriteLocksAccounted'
  BY <1>7, AccountKept
     DEF StoreSegmentToFile, ReadLock, Call, AccountInv, TInv, TypeOK, locks
<1>8. CASE (\E f \in Files : CreateLocalFile(f)) \/ UNCHANGED vars
  BY <1>8, AccountKept DEF CreateLocalFile, vars, locks, callVars
<1> QED
  BY <1>1, <1>2, <1>3, <1>4, <1>5, <1>6, <1>7, <1>8, PushAccount, EndAccount
     DEF Next, Step, Calls

\* The account holds initially.
LEMMA InitAccount == Init => AccountInv
<1>1. ASSUME Init, NEW f \in Files
      PROVE  writeLockedFiles[f] = Cardinality(Storing(f)) + leaked[f]
  <2>1. Storing(f) = {}
    BY <1>1 DEF Init, Storing, StorePcs
  <2> QED
    BY <1>1, <2>1, FS_EmptySet DEF Init
<1> QED
  BY <1>1, InitType DEF AccountInv, WriteLocksAccounted

\* writeLockedFiles holds exactly the locks of the stores in progress and of those
\* that failed to open their file.
THEOREM AccountCorrect == Spec => []WriteLocksAccounted
<1>1. AccountInv => WriteLocksAccounted
  BY DEF AccountInv
<1> QED
  BY InitAccount, NextAccount, <1>1, PTL DEF Spec


-----------------------------------------------------------------------------
(***************************************************************************)
(* The refinement of FileLocks.  A store begins where WriteLockGranted has *)
(* looked at readLockedFiles, one step before its name is in the vector: a *)
(* reader that is admitted in between would contradict MutexesBalanced,    *)
(* for the writer still owns writeLockMutex.  That a readUnlock closes its *)
(* file needs OneEntryPerFile.                                             *)
(***************************************************************************)

\* What the mapping shows of the vectors and of the threads, when it stays.
LEMMA LocksKept ==
  ASSUME \A f \in Files : ReadLocked(f)' <=> ReadLocked(f),
         \A f \in Files : StoresBegun(f)' = StoresBegun(f),
         \A t \in Threads : /\ AdmittedTo(t)' = AdmittedTo(t)
                            /\ SessionOn(t)' = SessionOn(t)
  PROVE  UNCHANGED Locks!fileLocks
BY DEF Locks!fileLocks

LEMMA StoresBegunKept ==
  ASSUME writeLockedFiles' = writeLockedFiles,
         \A t \in Threads : /\ pc'[t] = "wlPush" <=> pc[t] = "wlPush"
                            /\ pc[t] = "wlPush" => arg'[t] = arg[t]
  PROVE  \A f \in Files : StoresBegun(f)' = StoresBegun(f)
<1> SUFFICES ASSUME NEW f \in Files
             PROVE  StoresBegun(f)' = StoresBegun(f)
  OBVIOUS
<1>1. (\E t \in Threads : pc'[t] = "wlPush" /\ arg'[t] = f)
        <=> (\E t \in Threads : pc[t] = "wlPush" /\ arg[t] = f)
  OBVIOUS
<1> QED
  BY <1>1 DEF StoresBegun

\* A thread that moves takes no other with it.
LEMMA OthersShown ==
  ASSUME TInv, NEW t \in Threads, NEW label, pc' = [pc EXCEPT ![t] = label],
         arg' = arg
  PROVE  /\ \A u \in Threads \ {t} : /\ AdmittedTo(u)' = AdmittedTo(u)
                                     /\ SessionOn(u)' = SessionOn(u)
         /\ pc'[t] = label
         /\ \A u \in Threads \ {t} : pc'[u] = pc[u]
BY DEF TInv, TypeOK, AdmittedTo, SessionOn

\* Only the owner of writeLockMutex can be about to enter a name.
LEMMA OnePushes ==
  ASSUME LockInv, NEW t \in Threads, pc[t] = "wlPush"
  PROVE  /\ writeLockMutex = t
         /\ \A u \in Threads : pc[u] = "wlPush" => u = t
BY DEF LockInv, MutexesBalanced, OwnsWrite

\* Most steps change nothing of what a FileLocks shows.
LEMMA StepsUnseen ==
  ASSUME LockInv, NEW t \in Threads, NEW label,
         pc' = pc \/ pc' = [pc EXCEPT ![t] = label],
         pc[t] \in SessionPcs <=> label \in SessionPcs,
         pc[t] \in {"rlRead", "rlScan", "rlOpen"}
            <=> label \in {"rlRead", "rlScan", "rlOpen"},
         pc[t] # "wlPush", label # "wlPush",
         UNCHANGED <<readLockedFiles, writeLockedFiles, arg>>
  PROVE  UNCHANGED Locks!fileLocks
<1> USE DEF LockInv, TInv, TypeOK
<1>1. \A f \in Files : ReadLocked(f)' <=> ReadLocked(f)
  BY DEF ReadLocked, EntriesOf
<1>2. \A f \in Files : StoresBegun(f)' = StoresBegun(f)
  BY StoresBegunKept
<1>3. \A u \in Threads : AdmittedTo(u)' = AdmittedTo(u) /\ SessionOn(u)' = SessionOn(u)
  BY DEF AdmittedTo, SessionOn
<1> QED
  BY <1>1, <1>2, <1>3, LocksKept

\* writeLock.
LEMMA GrantBegins ==
  ASSUME LockInv, NEW t \in Threads, WriteLockGranted(t)
  PROVE  Locks!BeginStore(arg[t])
<1> USE DEF LockInv, TInv, TypeOK
<1>1. /\ pc[t] = "wlScan" /\ arg[t] \in Files /\ ~ReadLocked(arg[t])
      /\ pc' = [pc EXCEPT ![t] = "wlPush"]
      /\ UNCHANGED <<readLockedFiles, writeLockedFiles, arg>>
  BY DEF WriteLockGranted, Goto, locks, callVars
<1>2. \A u \in Threads : pc[u] # "wlPush"
  BY <1>1 DEF MutexesBalanced, OwnsWrite
<1>3. ASSUME NEW f \in Files
      PROVE  StoresBegun(f)' = IF f = arg[t] THEN StoresBegun(f) + 1 ELSE StoresBegun(f)
  <2>1. (\E u \in Threads : pc'[u] = "wlPush" /\ arg'[u] = f) <=> f = arg[t]
    BY <1>1, <1>2
  <2>2. ~ \E u \in Threads : pc[u] = "wlPush" /\ arg[u] = f
    BY <1>2
  <2>3. writeLockedFiles[f] \in Nat
    OBVIOUS
  <2> QED
    BY <1>1, <2>1, <2>2, <2>3 DEF StoresBegun
<1>4. \A f \in Files : ReadLocked(f)' <=> ReadLocked(f)
  BY <1>1 DEF ReadLocked, EntriesOf
<1>5. \A u \in Threads : AdmittedTo(u)' = AdmittedTo(u) /\ SessionOn(u)' = SessionOn(u)
  BY <1>1 DEF AdmittedTo, SessionOn, SessionPcs
<1> QED
  BY <1>1, <1>3, <1>4, <1>5 DEF Locks!BeginStore

LEMMA PushUnseen ==
  ASSUME LockInv, NEW t \in Threads, WriteLockPush(t)
  PROVE  UNCHANGED Locks!fileLocks
<1> USE DEF LockInv, TInv, TypeOK
<1>1. /\ pc[t] = "wlPush" /\ arg[t] \in Files
      /\ pc' = [pc EXCEPT ![t] = "storing"]
      /\ writeLockedFiles' = [writeLockedFiles EXCEPT ![arg[t]] = @ + 1]
      /\ UNCHANGED <<readLockedFiles, arg>>
  BY DEF WriteLockPush, Goto, callVars
<1>2. \A u \in Threads : pc[u] = "wlPush" <=> u = t
  BY <1>1, OnePushes
<1>3. ASSUME NEW f \in Files
      PROVE  StoresBegun(f)' = StoresBegun(f)
  <2>1. ~ \E u \in Threads : pc'[u] = "wlPush" /\ arg'[u] = f
    BY <1>1, <1>2
  <2>2. (\E u \in Threads : pc[u] = "wlPush" /\ arg[u] = f) <=> f = arg[t]
    BY <1>2
  <2>3. writeLockedFiles[f] \in Nat
    OBVIOUS
  <2> QED
    BY <1>1, <2>1, <2>2, <2>3 DEF StoresBegun
<1>4. \A f \in Files : ReadLocked(f)' <=> ReadLocked(f)
  BY <1>1 DEF ReadLocked, EntriesOf
<1>5. \A u \in Threads : AdmittedTo(u)' = AdmittedTo(u) /\ SessionOn(u)' = SessionOn(u)
  BY <1>1 DEF AdmittedTo, SessionOn, SessionPcs
<1> QED
  BY <1>3, <1>4, <1>5, LocksKept

\* writeUnlock.
LEMMA UnlockEnds ==
  ASSUME LockInv, NEW t \in Threads, WriteUnlockErases(t)
  PROVE  Locks!EndStore(arg[t]) \/ UNCHANGED Locks!fileLocks
<1> USE DEF LockInv, TInv, TypeOK
<1>1. CASE writeLockedFiles[arg[t]] > 0
  <2>1. /\ pc[t] = "writeUnlock" /\ arg[t] \in Files
        /\ pc' = [pc EXCEPT ![t] = "notify"]
        /\ writeLockedFiles' = [writeLockedFiles EXCEPT ![arg[t]] = @ - 1]
        /\ UNCHANGED <<readLockedFiles, arg>>
    BY <1>1 DEF WriteUnlockErases, Goto, callVars
  <2>2. \A u \in Threads : pc[u] # "wlPush" /\ pc'[u] # "wlPush"
    BY <2>1, ThreadsAssumption DEF WriteUnlockErases, MutexesBalanced, OwnsWrite
  <2>3. ASSUME NEW f \in Files
        PROVE  /\ StoresBegun(f) = writeLockedFiles[f]
               /\ StoresBegun(f)' = writeLockedFiles'[f]
    <3>1. writeLockedFiles[f] \in Int /\ writeLockedFiles'[f] \in Int
      BY <2>1
    <3>2. StoresBegun(f) = writeLockedFiles[f] + 0
      BY <2>2 DEF StoresBegun
    <3>3. StoresBegun(f)' = writeLockedFiles'[f] + 0
      BY <2>2 DEF StoresBegun
    <3> QED
      BY <3>1, <3>2, <3>3
  <2>4. \A f \in Files : ReadLocked(f)' <=> ReadLocked(f)
    BY <2>1 DEF ReadLocked, EntriesOf
  <2>5. \A u \in Threads : AdmittedTo(u)' = AdmittedTo(u) /\ SessionOn(u)' = SessionOn(u)
    BY <2>1 DEF AdmittedTo, SessionOn, SessionPcs
  <2> QED
    BY <1>1, <2>1, <2>3, <2>4, <2>5 DEF Locks!EndStore
<1>2. CASE ~(writeLockedFiles[arg[t]] > 0)
  <2>1. /\ pc[t] = "writeUnlock"
        /\ pc' = [pc EXCEPT ![t] = "idle"]
        /\ UNCHANGED <<readLockedFiles, writeLockedFiles, arg>>
    BY <1>2 DEF WriteUnlockErases, Goto, callVars
  <2> QED
    BY <2>1, StepsUnseen DEF SessionPcs
<1> QED
  BY <1>1, <1>2

\* readLock.
LEMMA PassAdmits ==
  ASSUME LockInv, NEW t \in Threads, ReadLockPasses(t)
  PROVE  Locks!Admit(t, arg[t])
<1> USE DEF LockInv, TInv, TypeOK
<1>1. /\ pc[t] = "readLock" /\ arg[t] \in Files
      /\ writeLockMutex = NoThread /\ writeLockedFiles[arg[t]] = 0
      /\ pc' = [pc EXCEPT ![t] = "rlRead"]
      /\ UNCHANGED <<readLockedFiles, writeLockedFiles, arg>>
  BY DEF ReadLockPasses, Goto, locks, callVars
<1>2. \A u \in Threads : pc[u] # "wlPush"
  BY <1>1, ThreadsAssumption DEF MutexesBalanced, OwnsWrite
<1>3. StoresBegun(arg[t]) = 0
  BY <1>1, <1>2 DEF StoresBegun
<1>4. \A f \in Files : StoresBegun(f)' = StoresBegun(f)
  BY <1>1, StoresBegunKept
<1>5. \A f \in Files : ReadLocked(f)' <=> ReadLocked(f)
  BY <1>1 DEF ReadLocked, EntriesOf
<1>6. /\ AdmittedTo(t) = {} /\ SessionOn(t) = {}
      /\ AdmittedTo(t)' = {arg[t]} /\ SessionOn(t)' = {}
  BY <1>1 DEF AdmittedTo, SessionOn, SessionPcs
<1>7. \A u \in Threads \ {t} : AdmittedTo(u)' = AdmittedTo(u) /\ SessionOn(u)' = SessionOn(u)
  BY <1>1, OthersShown
<1> QED
  BY <1>1, <1>3, <1>4, <1>5, <1>6, <1>7 DEF Locks!Admit

LEMMA SessionBegins ==
  ASSUME LockInv, NEW t \in Threads, ReadLockJoins(t) \/ ReadLockOpens(t)
  PROVE  Locks!OpenForReading(t, arg[t])
<1> USE DEF LockInv, TInv, TypeOK
<1>1. /\ pc[t] \in {"rlScan", "rlOpen"} /\ arg[t] \in Files
      /\ pc' = [pc EXCEPT ![t] = "reading"]
      /\ UNCHANGED <<writeLockedFiles, arg>>
  BY DEF ReadLockJoins, ReadLockOpens, Goto, locks, callVars
<1>2. \A f \in Files : ReadLocked(f)' <=> ReadLocked(f) \/ f = arg[t]
  <2>1. CASE ReadLockJoins(t)
    BY <2>1 DEF ReadLockJoins, locks, ReadLocked, EntriesOf
  <2>2. CASE ReadLockOpens(t)
    <3>1. /\ DOMAIN readLockedFiles = 1 .. Len(readLockedFiles)
          /\ DOMAIN readLockedFiles' = 1 .. Len(readLockedFiles) + 1
          /\ \A i \in 1 .. Len(readLockedFiles) :
                readLockedFiles'[i] = readLockedFiles[i]
          /\ readLockedFiles'[Len(readLockedFiles) + 1].file = arg[t]
          /\ Len(readLockedFiles) \in Nat
      BY <2>2, OpensAppends
    <3>2. \A i \in DOMAIN readLockedFiles' :
             i \in DOMAIN readLockedFiles \/ i = Len(readLockedFiles) + 1
      BY <3>1
    <3>3. /\ DOMAIN readLockedFiles \subseteq DOMAIN readLockedFiles'
          /\ Len(readLockedFiles) + 1 \in DOMAIN readLockedFiles'
      BY <3>1
    <3> QED
      BY <3>1, <3>2, <3>3 DEF ReadLocked, EntriesOf
  <2> QED
    BY <2>1, <2>2
<1>3. \A f \in Files : StoresBegun(f)' = StoresBegun(f)
  BY <1>1, StoresBegunKept
<1>4. /\ AdmittedTo(t) = {arg[t]} /\ SessionOn(t) = {}
      /\ AdmittedTo(t)' = {} /\ SessionOn(t)' = {arg[t]}
  BY <1>1 DEF AdmittedTo, SessionOn, SessionPcs
<1>5. \A u \in Threads \ {t} : AdmittedTo(u)' = AdmittedTo(u) /\ SessionOn(u)' = SessionOn(u)
  BY <1>1, OthersShown
<1> QED
  BY <1>1, <1>2, <1>3, <1>4, <1>5 DEF Locks!OpenForReading

LEMMA OpenFails ==
  ASSUME LockInv, NEW t \in Threads, ReadLockFailsToOpen(t)
  PROVE  Locks!FailToOpen(t)
<1> USE DEF LockInv, TInv, TypeOK
<1>1. /\ pc[t] = "rlOpen"
      /\ pc' = [pc EXCEPT ![t] = "idle"]
      /\ UNCHANGED <<readLockedFiles, writeLockedFiles, arg>>
  BY DEF ReadLockFailsToOpen, Goto, locks, callVars
<1>2. \A f \in Files : ReadLocked(f)' <=> ReadLocked(f)
  BY <1>1 DEF ReadLocked, EntriesOf
<1>3. \A f \in Files : StoresBegun(f)' = StoresBegun(f)
  BY <1>1, StoresBegunKept
<1>4. /\ AdmittedTo(t) = {arg[t]} /\ SessionOn(t) = {}
      /\ AdmittedTo(t)' = {} /\ SessionOn(t)' = {}
  BY <1>1 DEF AdmittedTo, SessionOn, SessionPcs
<1>5. \A u \in Threads \ {t} : AdmittedTo(u)' = AdmittedTo(u) /\ SessionOn(u)' = SessionOn(u)
  BY <1>1, OthersShown
<1> QED
  BY <1>2, <1>3, <1>4, <1>5 DEF Locks!FailToOpen

\* Every entry that is left was there before, at another place than the erased one.
LEMMA ErasesNoOther ==
  ASSUME TypeOK, NEW t \in Threads, NEW i \in DOMAIN readLockedFiles, Erases(t, i),
         NEW j \in DOMAIN readLockedFiles'
  PROVE  \E k \in DOMAIN readLockedFiles :
            k # i /\ readLockedFiles'[j] = readLockedFiles[k]
<1>1. /\ Len(readLockedFiles) \in Nat
      /\ DOMAIN readLockedFiles = 1 .. Len(readLockedFiles)
      /\ j \in 1 .. Len(readLockedFiles) - 1
      /\ i \in 1 .. Len(readLockedFiles) - 1
      /\ readLockedFiles'[j] =
            IF j < i THEN readLockedFiles[j] ELSE readLockedFiles[j + 1]
  BY ErasesOne
<1>2. CASE j < i
  BY <1>1, <1>2
<1>3. CASE ~(j < i)
  <2>1. /\ j + 1 \in DOMAIN readLockedFiles /\ j + 1 # i
        /\ readLockedFiles'[j] = readLockedFiles[j + 1]
    BY <1>1, <1>3
  <2> QED
    BY <2>1
<1> QED
  BY <1>2, <1>3

\* readUnlock.
LEMMA UnlockCloses ==
  ASSUME EntryInv, NEW t \in Threads, ReadUnlock(t)
  PROVE  Locks!Close(t, arg[t]) \/ UNCHANGED Locks!fileLocks
<1> USE DEF EntryInv, LockInv, TInv, TypeOK
<1>1. CASE alive' = FALSE /\ UNCHANGED <<readLockedFiles, of, pc>>
  BY <1>1, ReadUnlockCases, StepsUnseen DEF SessionPcs
<1>2. ASSUME pc' = [pc EXCEPT ![t] = "idle"],
             \A f \in Files : ReadLocked(f)' <=> ReadLocked(f) /\ f # arg[t]
      PROVE  Locks!Close(t, arg[t])
  <2>1. pc[t] = "reading" /\ arg[t] \in Files /\ UNCHANGED <<writeLockedFiles, arg>>
    BY ReadUnlockCases
  <2>2. \A f \in Files : StoresBegun(f)' = StoresBegun(f)
    BY <1>2, <2>1, StoresBegunKept
  <2>3. /\ SessionOn(t) = {arg[t]} /\ SessionOn(t)' = {}
        /\ AdmittedTo(t) = {} /\ AdmittedTo(t)' = {}
    BY <1>2, <2>1 DEF AdmittedTo, SessionOn, SessionPcs
  <2>4. \A u \in Threads \ {t} : AdmittedTo(u)' = AdmittedTo(u) /\ SessionOn(u)' = SessionOn(u)
    BY <1>2, <2>1, OthersShown
  <2> QED
    BY <1>2, <2>1, <2>2, <2>3, <2>4 DEF Locks!Close
<1>3. CASE \E i \in DOMAIN readLockedFiles : Erases(t, i)
  <2>1. PICK i \in DOMAIN readLockedFiles : Erases(t, i)
    BY <1>3
  <2>2. \A f \in Files : f # arg[t] /\ ReadLocked(f) => ReadLocked(f)'
    BY <2>1, ErasesKeepsOthers
  <2>3. \A f \in Files : ReadLocked(f)' => ReadLocked(f) /\ f # arg[t]
    <3> SUFFICES ASSUME NEW f \in Files, NEW j \in DOMAIN readLockedFiles',
                        readLockedFiles'[j].file = f
                 PROVE  ReadLocked(f) /\ f # arg[t]
      BY DEF ReadLocked, EntriesOf
    <3>1. \E k \in DOMAIN readLockedFiles :
             k # i /\ readLockedFiles'[j] = readLockedFiles[k]
      BY <2>1, ErasesNoOther
    <3>2. readLockedFiles[i].file = arg[t]
      BY <2>1, ErasesOne
    <3> QED
      BY <3>1, <3>2 DEF ReadLocked, EntriesOf, OneEntryPerFile
  <2> QED
    BY <1>2, <2>1, <2>2, <2>3 DEF Erases
<1>4. CASE ~ReadLocked(arg[t]) /\ pc' = [pc EXCEPT ![t] = "idle"]
           /\ UNCHANGED <<alive, readLockedFiles, of>>
  <2>1. \A f \in Files : ReadLocked(f)' <=> ReadLocked(f) /\ f # arg[t]
    BY <1>4 DEF ReadLocked, EntriesOf
  <2> QED
    BY <1>2, <1>4, <2>1
<1> QED
  BY <1>1, <1>3, <1>4, ReadUnlockCases

\* The other steps of a thread.
LEMMA OtherStepsUnseen ==
  ASSUME EntryInv, NEW t \in Threads,
         \/ WriteLockTakeWrite(t) \/ WriteLockTakeRead(t) \/ WriteLockRefused(t)
         \/ EnterWait(t) \/ LeaveWait(t) \/ SpuriousWakeup(t)
         \/ StoreFailsToOpen(t) \/ StoreWrites(t) \/ WriteUnlockNotifies(t)
         \/ ReadLockRefused(t) \/ ReadLockTakeRead(t) \/ ReadLockFindsNone(t)
         \/ GetSegmentTells(t) \/ GetSegmentUsesDeleted(t)
         \/ \E s \in Segments : GetSegmentFinds(t, s)
  PROVE  UNCHANGED Locks!fileLocks
<1> USE DEF EntryInv, LockInv, TInv, TypeOK
<1>1. UNCHANGED <<readLockedFiles, writeLockedFiles, arg>>
  BY DEF WriteLockTakeWrite, WriteLockTakeRead, WriteLockRefused, EnterWait,
         LeaveWait, SpuriousWakeup, StoreFailsToOpen, StoreWrites,
         WriteUnlockNotifies, ReadLockRefused, ReadLockTakeRead,
         ReadLockFindsNone, GetSegmentTells, GetSegmentUsesDeleted,
         GetSegmentFinds, Undefined, locks, callVars
<1>2. CASE WriteLockTakeWrite(t) \/ WriteLockTakeRead(t) \/ WriteLockRefused(t)
           \/ EnterWait(t) \/ LeaveWait(t) \/ StoreFailsToOpen(t)
           \/ StoreWrites(t) \/ WriteUnlockNotifies(t) \/ ReadLockRefused(t)
  <2>1. PICK label \in {"wlRead", "wlScan", "writeGap", "writeWait", "readWait",
                        "writeLock", "readLock", "idle", "writeUnlock", "readGap"} :
          /\ pc' = [pc EXCEPT ![t] = label]
          /\ pc[t] \in {"writeLock", "wlRead", "wlScan", "writeGap", "readGap",
                        "writeWait", "readWait", "storing", "notify", "readLock"}
    BY <1>2 DEF WriteLockTakeWrite, WriteLockTakeRead, WriteLockRefused, EnterWait,
                LeaveWait, StoreFailsToOpen, StoreWrites, WriteUnlockNotifies,
                ReadLockRefused, Goto
  <2> QED
    BY <1>1, <2>1, StepsUnseen DEF SessionPcs
<1>3. CASE ReadLockTakeRead(t) \/ ReadLockFindsNone(t)
  <2>1. PICK label \in {"rlScan", "rlOpen"} :
          pc' = [pc EXCEPT ![t] = label] /\ pc[t] \in {"rlRead", "rlScan"}
    BY <1>3 DEF ReadLockTakeRead, ReadLockFindsNone, Goto
  <2> QED
    BY <1>1, <2>1, StepsUnseen DEF SessionPcs
<1>4. CASE GetSegmentTells(t) \/ GetSegmentUsesDeleted(t)
           \/ \E s \in Segments : GetSegmentFinds(t, s)
  <2>1. PICK label \in SessionPcs :
          (pc' = pc \/ pc' = [pc EXCEPT ![t] = label]) /\ pc[t] \in SessionPcs
    BY <1>4 DEF GetSegmentTells, GetSegmentUsesDeleted, GetSegmentFinds, Undefined,
                Goto, SessionPcs
  <2> QED
    BY <1>1, <2>1, StepsUnseen DEF SessionPcs
<1>5. CASE SpuriousWakeup(t)
  <2>1. pc' = pc
    BY <1>5 DEF SpuriousWakeup
  <2> QED
    BY <1>1, <2>1 DEF Locks!fileLocks, ReadLocked, EntriesOf, StoresBegun, AdmittedTo,
                      SessionOn
<1> QED
  BY <1>2, <1>3, <1>4, <1>5

\* A seek or a read moves a stream; a call finds its thread outside of everything.
LEMMA MovesUnseen ==
  ASSUME EntryInv, NEW t \in Threads, GetSegmentSeeks(t) \/ GetSegmentReads(t)
  PROVE  UNCHANGED Locks!fileLocks
<1> USE DEF EntryInv, LockInv, TInv
<1>1. \A f \in Files : ReadLocked(f)' <=> ReadLocked(f)
  BY MovesStream DEF ReadLocked, EntriesOf
<1>2. /\ pc[t] \in SessionPcs
      /\ \E label \in SessionPcs : pc' = [pc EXCEPT ![t] = label]
      /\ UNCHANGED <<writeLockedFiles, arg>>
  BY DEF GetSegmentSeeks, GetSegmentReads, Goto, SessionPcs, callVars
<1>3. \A f \in Files : StoresBegun(f)' = StoresBegun(f)
  BY <1>2, StoresBegunKept DEF TypeOK, SessionPcs
<1>4. \A u \in Threads : AdmittedTo(u)' = AdmittedTo(u) /\ SessionOn(u)' = SessionOn(u)
  BY <1>2 DEF TypeOK, AdmittedTo, SessionOn, SessionPcs
<1> QED
  BY <1>1, <1>3, <1>4, LocksKept

LEMMA CallUnseen ==
  ASSUME EntryInv, NEW t \in Threads, NEW f \in Files,
         StoreSegmentToFile(t, f) \/ ReadLock(t, f)
  PROVE  UNCHANGED Locks!fileLocks
<1> USE DEF EntryInv, LockInv, TInv
<1>1. /\ pc[t] = "idle"
      /\ \E label \in {"writeLock", "readLock"} : pc' = [pc EXCEPT ![t] = label]
      /\ arg' = [arg EXCEPT ![t] = f]
      /\ UNCHANGED <<readLockedFiles, writeLockedFiles>>
  BY DEF StoreSegmentToFile, ReadLock, Call, Goto, locks
<1>2. \A g \in Files : ReadLocked(g)' <=> ReadLocked(g)
  BY <1>1 DEF ReadLocked, EntriesOf
<1>3. \A g \in Files : StoresBegun(g)' = StoresBegun(g)
  BY <1>1, StoresBegunKept DEF TypeOK
<1>4. \A u \in Threads : AdmittedTo(u)' = AdmittedTo(u) /\ SessionOn(u)' = SessionOn(u)
  BY <1>1 DEF TypeOK, AdmittedTo, SessionOn, SessionPcs
<1> QED
  BY <1>2, <1>3, <1>4, LocksKept

\* Every step is one of FileLocks or a stutter.
LEMMA StepsOfLocks ==
  ASSUME EntryInv, [Next]_vars
  PROVE  [Locks!LocksNext]_(Locks!fileLocks)
<1> USE DEF EntryInv, LockInv, TInv
<1>1. ASSUME NEW t \in Threads, Step(t)
      PROVE  [Locks!LocksNext]_(Locks!fileLocks)
  <2>1. arg[t] \in Files
    BY DEF TypeOK
  <2>2. CASE WriteLockGranted(t) \/ WriteUnlockErases(t)
    BY <2>1, <2>2, GrantBegins, UnlockEnds DEF Locks!LocksNext
  <2>3. CASE ReadLockPasses(t) \/ ReadLockJoins(t) \/ ReadLockOpens(t)
             \/ ReadLockFailsToOpen(t)
    BY <2>1, <2>3, PassAdmits, SessionBegins, OpenFails DEF Locks!LocksNext
  <2>4. CASE GetSegmentSeeks(t) \/ GetSegmentReads(t)
    BY <2>4, MovesUnseen
  <2>5. CASE WriteLockPush(t)
    BY <2>5, PushUnseen
  <2> QED
    BY <1>1, <2>2, <2>3, <2>4, <2>5, OtherStepsUnseen DEF Step
<1>2. ASSUME NEW t \in Threads, Calls(t)
      PROVE  [Locks!LocksNext]_(Locks!fileLocks)
  <2>1. arg[t] \in Files
    BY DEF TypeOK
  <2>2. CASE \E f \in Files : StoreSegmentToFile(t, f) \/ ReadLock(t, f)
    BY <2>2, CallUnseen
  <2>3. CASE ReadUnlock(t)
    BY <2>1, <2>3, UnlockCloses DEF Locks!LocksNext
  <2> QED
    BY <1>2, <2>2, <2>3, OtherStepsUnseen DEF Calls
<1>3. ASSUME NEW t \in Threads, SpuriousWakeup(t)
      PROVE  UNCHANGED Locks!fileLocks
  BY <1>3, OtherStepsUnseen
<1>4. CASE UNCHANGED vars \/ \E f \in Files : CreateLocalFile(f)
  <2>1. UNCHANGED <<readLockedFiles, writeLockedFiles, pc, arg>>
    BY <1>4 DEF vars, CreateLocalFile, locks, callVars
  <2> QED
    BY <2>1 DEF Locks!fileLocks, ReadLocked, EntriesOf, StoresBegun, AdmittedTo,
                SessionOn
<1> QED
  BY <1>1, <1>2, <1>3, <1>4 DEF Next

\* The FileManager's hand-made lock is a FileLocks, for any number of threads and
\* files: see ImplementsFileLocks.
THEOREM FileLocksImplemented == Spec => ImplementsFileLocks
<1>1. Init => Locks!LocksInit
  BY DEF Init, Locks!LocksInit, ReadLocked, EntriesOf, StoresBegun, AdmittedTo,
         SessionOn, SessionPcs
<1>2. EntryInv /\ [Next]_vars => [Locks!LocksNext]_(Locks!fileLocks)
  BY StepsOfLocks
<1> QED
  BY <1>1, <1>2, InitEntries, NextEntries, PTL
     DEF Spec, ImplementsFileLocks, Locks!LocksSpec
=============================================================================
