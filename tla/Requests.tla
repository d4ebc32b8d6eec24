------------------------------- MODULE Requests -------------------------------
(***************************************************************************)
(* What a connection to another peer promises the DownloadWorker that asks *)
(* for fragments on it (CSocket::requestFragmentsList, requestFragment):   *)
(* the requests are made one at a time, each returns the answer to itself  *)
(* or nothing, and one that times out makes every later one return nothing.*)
(* The messages, the peer and the time are left out.                       *)
(***************************************************************************)
EXTENDS Naturals

CONSTANT MaxRequests

VARIABLES
    asked,      \* number of the last request
    waiting,    \* whether it has not returned yet
    answers,    \* whose answer each request returned, 0 for none
    usable      \* no request has timed out

requests == <<asked, waiting, answers, usable>>

RequestsInit ==
    /\ asked = 0
    /\ waiting = FALSE
    /\ answers = [k \in 1 .. MaxRequests |-> 0]
    /\ usable = TRUE

\* (The process may end in the attempt.)
Ask ==
    /\ ~waiting
    /\ asked < MaxRequests
    /\ asked' = asked + 1
    /\ waiting' \in BOOLEAN
    /\ UNCHANGED <<answers, usable>>

ReturnAnswer ==
    /\ waiting
    /\ usable
    /\ answers' = [answers EXCEPT ![asked] = asked]
    /\ waiting' = FALSE
    /\ UNCHANGED <<asked, usable>>

ReturnNothing ==
    /\ waiting
    /\ waiting' = FALSE
    /\ usable' \in {usable, FALSE}
    /\ UNCHANGED <<asked, answers>>

RequestsNext == Ask \/ ReturnAnswer \/ ReturnNothing

RequestsSpec == RequestsInit /\ [][RequestsNext]_requests
=============================================================================
