---------------------------- MODULE SegmentLedger ----------------------------
(***************************************************************************)
(* What a File promises the threads that download it                       *)
(* (src/src/client/file/File.cpp): every segment is claimed by at most one *)
(* of them at a time, a claim ends in FREE or in COMPLETE, a COMPLETE      *)
(* segment stays so as long as the process runs, and the file is announced *)
(* as complete only when every segment is.                                 *)
(***************************************************************************)
CONSTANT Segments

VARIABLES segState, isCompleted, running

ledger == <<segState, isCompleted, running>>

SegmentStates == {"FREE", "DOWNLOADING", "COMPLETE"}

LedgerInit ==
    /\ segState = [s \in Segments |-> "FREE"]
    /\ isCompleted = FALSE
    /\ running = TRUE

Claim(s) ==
    /\ segState[s] = "FREE"
    /\ segState' = [segState EXCEPT ![s] = "DOWNLOADING"]
    /\ UNCHANGED <<isCompleted, running>>

\* A claim is given back or made good.
Resolve(s) ==
    /\ segState[s] = "DOWNLOADING"
    /\ \E outcome \in {"FREE", "COMPLETE"} :
            segState' = [segState EXCEPT ![s] = outcome]
    /\ UNCHANGED <<isCompleted, running>>

Announce ==
    /\ \A s \in Segments : segState[s] = "COMPLETE"
    /\ isCompleted' = TRUE
    /\ UNCHANGED <<segState, running>>

\* The process ends, and nothing happens any more.
End ==
    /\ running' = FALSE
    /\ UNCHANGED <<segState, isCompleted>>

LedgerNext ==
    /\ running
    /\ \/ \E s \in Segments : Claim(s) \/ Resolve(s)
       \/ Announce
       \/ End

LedgerSafety == LedgerInit /\ [][LedgerNext]_ledger

\* No claim lasts as long as the process runs for ever.
LedgerSpec ==
    LedgerSafety /\ \A s \in Segments : WF_ledger(running /\ Resolve(s))
=============================================================================
