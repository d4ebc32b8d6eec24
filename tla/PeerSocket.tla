------------------------------ MODULE PeerSocket ------------------------------
(***************************************************************************)
(* One connection from a client to another peer: the requests of CSocket   *)
(* (src/src/client/networking/CSocket.cpp) over BaseSocket::send and       *)
(* receive (BaseSocket.cpp), the byte stream between them and the peer's   *)
(* ResponderThread (ResponderThread.cpp).                                  *)
(*                                                                         *)
(* Request 1 asks for the list of fragments, the others for one fragment   *)
(* each, as DownloadWorker::work does.  TCP loses and reorders nothing,    *)
(* but an answer may arrive late, in pieces, or never; the peer may close. *)
(* Select's behaviour is Linux': it clears the set when it times out and   *)
(* writes the time that is left back into recvTimeout.                     *)
(***************************************************************************)
EXTENDS Integers, Sequences

CONSTANTS
    MaxRequests,    \* bound: requests made on the connection
    Timeout,        \* DEFAULT_RECV_TIMEOUT, in ticks
    Parts           \* pieces in which TCP may deliver an answer

ASSUME MaxRequestsAssumption == MaxRequests \in Nat
ASSUME TimeoutAssumption == Timeout \in Nat
ASSUME PartsAssumption == Parts \in Nat \ {0}

VARIABLES
    pc,             \* "ready" for the next request, "waiting" in select, or
                    \* ended: "killed" by SIGPIPE, or "aborted"
    req,            \* number of the last request
    state,          \* BaseSocket::state
    armed,          \* whether sockFd is in sockSelectSet
    budget,         \* what is left in recvTimeout
    results,        \* what each request returned (Blank: F_ERROR, or not yet)
    arrived,        \* answers in the socket's receive buffer
    conn,           \* how the client's kernel sees the connection
    toPeer,         \* requests on their way to the peer
    toClient,       \* what is on its way to the client
    peerOpen,       \* the peer has not closed
    waited,         \* history: ticks spent waiting for each request
    timedOut        \* history: the requests that timed out

socket  == <<state, armed, budget>>
network == <<arrived, conn, toPeer, toClient, peerOpen>>
history == <<waited, timedOut>>
vars == <<pc, req, socket, results, network, history>>

RequestNumbers == 1 .. MaxRequests

\* lastMsg, by the request it answers; Blank is a message without a code, and
\* stands for the F_ERROR that the request methods make of it.
Blank == [req |-> 0, whole |-> FALSE]
Messages == {Blank} \cup [req : RequestNumbers, whole : BOOLEAN]

Piece(k, p) == [kind |-> "data", req |-> k, part |-> p]
Fin == [kind |-> "fin", req |-> 0, part |-> 0]
Rst == [kind |-> "rst", req |-> 0, part |-> 0]

Pieces == [kind : {"data"}, req : RequestNumbers, part : 1 .. Parts]

\* "open"; "fin": the peer closed; "reset": it reset the connection, which the
\* next send or read reports; "down": reported, or reset after "fin".
ConnStates == {"open", "fin", "reset", "down"}

\* The code of a request, and of its answer.
Code(k) == IF k = 1 THEN "list" ELSE "fragment"

Init ==
    /\ pc = "ready"
    /\ req = 0
    /\ state = "OPEN"
    /\ armed = TRUE
    /\ budget = Timeout
    /\ results = [k \in RequestNumbers |-> Blank]
    /\ arrived = <<>>
    /\ conn = "open"
    /\ toPeer = <<>>
    /\ toClient = <<>>
    /\ peerOpen = TRUE
    /\ waited = [k \in RequestNumbers |-> 0]
    /\ timedOut = {}

-----------------------------------------------------------------------------
(* The client                                                               *)

\* Mutant: the request is sent once more, to be sure.
Mut_SendsTwice ==
    /\ pc = "ready"
    /\ req < MaxRequests
    /\ req' = req + 1
    /\ IF conn = "down"
       THEN /\ pc' = "killed"
            /\ UNCHANGED <<state, conn, toPeer>>
       ELSE /\ state' = "SENT"
            /\ pc' = "waiting"
            /\ conn' = IF conn = "reset" THEN "down" ELSE conn
            /\ toPeer' = IF conn = "reset" THEN toPeer ELSE toPeer \o <<req', req'>>
    /\ UNCHANGED <<armed, budget, results, arrived, toClient, peerOpen, history>>

\* send: an error is logged and overlooked, but a connection that is down
\* raises SIGPIPE, which nobody handles.
Send ==
    /\ pc = "ready"
    /\ req < MaxRequests
    /\ req' = req + 1
    /\ IF conn = "down"
       THEN /\ pc' = "killed"
            /\ UNCHANGED <<state, conn, toPeer>>
       ELSE /\ state' = "SENT"
            /\ pc' = "waiting"
            /\ conn' = IF conn = "reset" THEN "down" ELSE conn
            /\ toPeer' = IF conn = "reset" THEN toPeer ELSE Append(toPeer, req')
    /\ UNCHANGED <<armed, budget, results, arrived, toClient, peerOpen, history>>

Readable == arrived # <<>> \/ conn # "open"

\* Mutant: the time that is left is not looked at.
Mut_WaitsPastZero ==
    /\ pc = "waiting"
    /\ ~Readable \/ ~armed
    /\ budget' = budget - 1
    /\ waited' = [waited EXCEPT ![req] = @ + 1]
    /\ UNCHANGED <<pc, req, state, armed, results, network, timedOut>>

\* Time passes in select.
Tick ==
    /\ pc = "waiting"
    /\ ~Readable \/ ~armed
    /\ budget > 0
    /\ budget' = budget - 1
    /\ waited' = [waited EXCEPT ![req] = @ + 1]
    /\ UNCHANGED <<pc, req, state, armed, results, network, timedOut>>

\* Mutant: the set and the time-out are set again for the next receive.
Mut_Rearms ==
    /\ pc = "waiting"
    /\ ~Readable \/ ~armed
    /\ budget = 0
    /\ state' = "TIMED_OUT"
    /\ armed' = TRUE
    /\ budget' = Timeout
    /\ timedOut' = timedOut \cup {req}
    /\ pc' = "ready"
    /\ UNCHANGED <<req, results, network, waited>>

\* Mutant: select is called without a time-out.
Mut_NoTimeout ==
    /\ pc = "waiting"
    /\ ~armed
    /\ budget = 0
    /\ state' = "TIMED_OUT"
    /\ timedOut' = timedOut \cup {req}
    /\ pc' = "ready"
    /\ UNCHANGED <<req, armed, budget, results, network, waited>>

\* select returns 0: the set is empty now, and the time is used up.
SelectTimesOut ==
    /\ pc = "waiting"
    /\ ~Readable \/ ~armed
    /\ budget = 0
    /\ state' = "TIMED_OUT"
    /\ armed' = FALSE
    /\ timedOut' = timedOut \cup {req}
    /\ pc' = "ready"
    /\ UNCHANGED <<req, budget, results, network, waited>>

\* ParseFromArray of what one read returned.  The first bytes decide: without
\* the beginning of a message there is no code (the bytes of a fragment are
\* taken not to look like a message).  Of several messages the last one
\* prevails, and that its end is missing goes unnoticed.
Parse(pieces) ==
    IF Head(pieces).part # 1 THEN Blank
    ELSE LET last == pieces[Len(pieces)]
         IN  [req |-> last.req, whole |-> last.part = Parts]

\* The answer is returned if its code is the one expected, whatever its fragnum.
Accept(msg) ==
    IF msg.req # 0 /\ Code(msg.req) = Code(req) THEN msg ELSE Blank

\* select says that the socket is readable, and read returns bytes.
Receives ==
    /\ pc = "waiting"
    /\ armed
    /\ arrived # <<>>
    /\ results' = [results EXCEPT ![req] = Accept(Parse(arrived))]
    /\ arrived' = <<>>
    /\ state' = "RECVD"
    /\ pc' = "ready"
    /\ UNCHANGED <<req, armed, budget, conn, toPeer, toClient, peerOpen,
                   history>>

\* read returns 0: an empty message is parsed, and RECVD all the same.
ReceivesEnd ==
    /\ pc = "waiting"
    /\ armed
    /\ arrived = <<>>
    /\ conn \in {"fin", "down"}
    /\ results' = [results EXCEPT ![req] = Accept(Blank)]
    /\ state' = "RECVD"
    /\ pc' = "ready"
    /\ UNCHANGED <<req, armed, budget, network, history>>

\* read returns -1, which ParseFromArray gets as the size: depending on the
\* protobuf version it aborts or finds an empty message.
ReceivesError ==
    /\ pc = "waiting"
    /\ armed
    /\ arrived = <<>>
    /\ conn = "reset"
    /\ conn' = "down"
    /\ \/ /\ pc' = "aborted"
          /\ UNCHANGED <<state, results>>
       \/ /\ results' = [results EXCEPT ![req] = Accept(Blank)]
          /\ state' = "RECVD"
          /\ pc' = "ready"
    /\ UNCHANGED <<req, armed, budget, arrived, toPeer, toClient, peerOpen,
                   history>>

-----------------------------------------------------------------------------
(* The network and the peer                                                 *)

\* The next piece, or the end of the connection, reaches the client's kernel.
Deliver ==
    /\ toClient # <<>>
    /\ toClient' = Tail(toClient)
    /\ LET x == Head(toClient) IN
        /\ arrived' = IF x.kind = "data" THEN Append(arrived, x) ELSE arrived
        /\ conn' = CASE x.kind = "data" -> conn
                     [] x.kind = "fin"  -> IF conn = "open" THEN "fin" ELSE conn
                     [] x.kind = "rst"  -> IF conn \in {"open", "reset"} THEN "reset"
                                              ELSE "down"
    /\ UNCHANGED <<pc, req, socket, results, toPeer, peerOpen, history>>

\* The peer's recv returns some of the requests; taken together they parse as
\* the last of them, which is answered.
PeerAnswers ==
    /\ peerOpen
    /\ \E n \in 1 .. Len(toPeer) :
        /\ toPeer' = SubSeq(toPeer, n + 1, Len(toPeer))
        /\ toClient' = toClient \o [p \in 1 .. Parts |-> Piece(toPeer[n], p)]
    /\ UNCHANGED <<pc, req, socket, results, arrived, conn, peerOpen,
                   history>>

\* The peer closes; unread requests make it a reset.
PeerCloses ==
    /\ peerOpen
    /\ peerOpen' = FALSE
    /\ toClient' = Append(toClient, IF toPeer = <<>> THEN Fin ELSE Rst)
    /\ toPeer' = <<>>
    /\ UNCHANGED <<pc, req, socket, results, arrived, conn, history>>

\* A request reaches a peer that has closed.
PeerResets ==
    /\ ~peerOpen
    /\ toPeer # <<>>
    /\ toPeer' = <<>>
    /\ toClient' = Append(toClient, Rst)
    /\ UNCHANGED <<pc, req, socket, results, arrived, conn, peerOpen,
                   history>>

-----------------------------------------------------------------------------
Client == Send \/ Tick \/ SelectTimesOut \/ Receives \/ ReceivesEnd \/ ReceivesError

Network == Deliver \/ PeerAnswers \/ PeerCloses \/ PeerResets

Next == Client \/ Network

Spec == Init /\ [][Next]_vars

\* Time passes and the client runs; nothing is assumed of the peer.
Fairness == WF_vars(Client)

FairSpec == Spec /\ Fairness

-----------------------------------------------------------------------------
(* Properties                                                               *)

\* Every variable has its type.
TypeOK ==
    /\ pc \in {"ready", "waiting", "killed", "aborted"}
    /\ req \in 0 .. MaxRequests
    /\ pc = "waiting" => req > 0
    /\ state \in {"OPEN", "SENT", "TIMED_OUT", "RECVD"}
    /\ armed \in BOOLEAN
    /\ budget \in 0 .. Timeout
    /\ results \in [RequestNumbers -> Messages]
    /\ arrived \in Seq(Pieces)
    /\ conn \in ConnStates
    /\ toPeer \in Seq(RequestNumbers)
    /\ toClient \in Seq(Pieces \cup {Fin, Rst})
    /\ peerOpen \in BOOLEAN
    /\ waited \in [RequestNumbers -> 0 .. Timeout]
    /\ timedOut \subseteq RequestNumbers

\* The answer that a request returns is the answer to that request, although an
\* answer carries nothing that is compared with it: an answer that comes after
\* its time-out is never read, because the connection then times out for good.
\* (It needs answers that arrive in one piece.)
AnswerMatchesRequest ==
    \A k \in RequestNumbers : results[k].req \in {0, k}

\* Seen from the worker, the connection is a Requests: although an answer carries
\* nothing that tells whose it is, and may come when nobody waits for it any more,
\* none is returned twice, late, or after a time-out.  (It needs answers that arrive
\* in one piece.)
Asked == INSTANCE Requests WITH
    asked <- req,
    waiting <- pc = "waiting",
    answers <- [k \in RequestNumbers |-> results[k].req],
    usable <- armed

ImplementsRequests == Asked!RequestsSpec

\* Every request returns, whatever the peer does.
RequestsReturn ==
    pc = "waiting" ~> pc # "waiting"
=============================================================================
