------------------------------ MODULE FileLocks ------------------------------
(***************************************************************************)
(* What the locks of a FileManager (src/src/client/file/FileManager.cpp)   *)
(* promise its callers, the mutexes, the vectors and the waiting left out. *)
(*                                                                         *)
(* Each kind of lock looks at the other kind once and in one step: a       *)
(* reader is admitted while nobody stores to the file, a store begins      *)
(* while the file is not open.  The two are not one step: an admitted      *)
(* reader opens the file later, whatever has begun since.  A file is open  *)
(* once for all its readers, and whoever ends a session closes it for all. *)
(***************************************************************************)
EXTENDS Naturals

CONSTANTS Threads, Files

VARIABLES
    open,       \* the files that are read-locked
    stores,     \* how many write locks each file has
    admitted,   \* what each thread may open for reading (at most one file)
    reading     \* what each thread has a read session on (at most one file)

fileLocks == <<open, stores, admitted, reading>>

LocksInit ==
    /\ open = {}
    /\ stores = [f \in Files |-> 0]
    /\ admitted = [t \in Threads |-> {}]
    /\ reading = [t \in Threads |-> {}]

BeginStore(f) ==
    /\ f \notin open
    /\ stores' = [stores EXCEPT ![f] = @ + 1]
    /\ UNCHANGED <<open, admitted, reading>>

EndStore(f) ==
    /\ stores[f] > 0
    /\ stores' = [stores EXCEPT ![f] = @ - 1]
    /\ UNCHANGED <<open, admitted, reading>>

Admit(t, f) ==
    /\ admitted[t] = {} /\ reading[t] = {}
    /\ stores[f] = 0
    /\ admitted' = [admitted EXCEPT ![t] = {f}]
    /\ UNCHANGED <<open, stores, reading>>

OpenForReading(t, f) ==
    /\ f \in admitted[t]
    /\ open' = open \cup {f}
    /\ admitted' = [admitted EXCEPT ![t] = {}]
    /\ reading' = [reading EXCEPT ![t] = {f}]
    /\ UNCHANGED stores

FailToOpen(t) ==
    /\ admitted[t] # {}
    /\ admitted' = [admitted EXCEPT ![t] = {}]
    /\ UNCHANGED <<open, stores, reading>>

Close(t, f) ==
    /\ f \in reading[t]
    /\ open' = open \ {f}
    /\ reading' = [reading EXCEPT ![t] = {}]
    /\ UNCHANGED <<stores, admitted>>

LocksNext ==
    \/ \E f \in Files : BeginStore(f) \/ EndStore(f)
    \/ \E t \in Threads, f \in Files : Admit(t, f) \/ OpenForReading(t, f) \/ Close(t, f)
    \/ \E t \in Threads : FailToOpen(t)

LocksSpec == LocksInit /\ [][LocksNext]_fileLocks
=============================================================================
