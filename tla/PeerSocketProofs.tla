--------------------------- MODULE PeerSocketProofs ---------------------------
(***************************************************************************)
(* Theorems about PeerSocket, for every number of requests and every       *)
(* time-out.                                                               *)
(*                                                                         *)
(* That an answer is the answer to its request is not inductive: it holds  *)
(* because, as long as the socket can be read at all, at most one answer   *)
(* exists anywhere, and only while its request waits.  PipeInv says where  *)
(* it can be.  A time-out ends that, and with it every later read.         *)
(*                                                                         *)
(* How long requests have waited is a sum over them, a recursive function: *)
(* what it is for every number of requests is shown by least               *)
(* counterexample, from the well-foundedness of < on the numbers.          *)
(***************************************************************************)
EXTENDS PeerSocket, SequenceTheorems, WellFoundedInduction, TLAPS

\* A request has at most used up what the connection had left.
WaitedBudget == \A k \in RequestNumbers : waited[k] + budget <= Timeout

TInv == TypeOK /\ WaitedBudget

NoData(queue) == \A i \in DOMAIN queue : queue[i].kind # "data"

\* Nothing that could be taken for an answer is left.
Quiet ==
    /\ peerOpen => toPeer = <<>>
    /\ NoData(toClient)
    /\ arrived = <<>>

RequestUnread ==
    peerOpen /\ toPeer = <<req>> /\ toClient = <<>> /\ arrived = <<>>

AnswerOnItsWay ==
    /\ peerOpen => toPeer = <<>>
    /\ arrived = <<>>
    /\ toClient # <<>>
    /\ Head(toClient) = Piece(req, 1)
    /\ NoData(Tail(toClient))

AnswerArrived ==
    /\ peerOpen => toPeer = <<>>
    /\ arrived = <<Piece(req, 1)>>
    /\ NoData(toClient)

\* A connection that has ended for the client carries no more data, and one that
\* the peer has not closed carries nothing else.
EndIsLast ==
    /\ conn # "open" => NoData(toClient) /\ ~peerOpen
    /\ peerOpen => \A i \in DOMAIN toClient : toClient[i].kind = "data"

PipeInv ==
    armed => /\ EndIsLast
             /\ IF pc = "waiting"
                THEN \/ RequestUnread \/ AnswerOnItsWay \/ AnswerArrived
                     \/ Quiet /\ ~peerOpen
                ELSE Quiet

MatchInv == TInv /\ PipeInv /\ AnswerMatchesRequest

-----------------------------------------------------------------------------
(* Types                                                                    *)

\* What Parse and Accept make of received pieces is a message.
LEMMA ParseType ==
  ASSUME NEW pieces \in Seq(Pieces), pieces # <<>>, req \in Nat
  PROVE  Accept(Parse(pieces)) \in Messages
<1>1. Head(pieces) \in Pieces /\ pieces[Len(pieces)] \in Pieces
  OBVIOUS
<1>2. Parse(pieces) \in Messages
  BY <1>1 DEF Parse, Messages, Pieces, Blank
<1> QED
  BY <1>2 DEF Accept, Messages

LEMMA InitType == Init => TInv
BY TimeoutAssumption, MaxRequestsAssumption
   DEF Init, TInv, TypeOK, WaitedBudget, ConnStates, Messages, RequestNumbers

\* The client's steps keep the types.
LEMMA ClientType == TInv /\ Client => TInv'
<1> SUFFICES ASSUME TInv, Client
             PROVE  TInv'
  OBVIOUS
<1> USE MaxRequestsAssumption, TimeoutAssumption
    DEF TInv, TypeOK, WaitedBudget, ConnStates, RequestNumbers
<1>1. CASE Send
  <2>1. req' \in RequestNumbers
    BY <1>1 DEF Send
  <2>2. Append(toPeer, req') \in Seq(RequestNumbers)
    BY <2>1, AppendProperties
  <2>3. toPeer' \in Seq(RequestNumbers)
    BY <1>1, <2>2 DEF Send
  <2>4. /\ pc' \in {"waiting", "killed"}
        /\ state' \in {"OPEN", "SENT", "TIMED_OUT", "RECVD"}
        /\ conn' \in ConnStates
    BY <1>1 DEF Send
  <2> QED
    BY <1>1, <2>1, <2>3, <2>4 DEF Send, history
<1>2. CASE Tick
  <2>1. /\ req \in RequestNumbers /\ budget \in 1 .. Timeout
        /\ waited[req] \in 0 .. Timeout /\ waited[req] + budget <= Timeout
    BY <1>2 DEF Tick
  <2>2. /\ budget' = budget - 1
        /\ waited' = [waited EXCEPT ![req] = @ + 1]
        /\ UNCHANGED <<pc, req, state, armed, results, network, timedOut>>
    BY <1>2 DEF Tick
  <2>3. /\ budget' \in 0 .. Timeout
        /\ waited' \in [RequestNumbers -> 0 .. Timeout]
        /\ \A k \in RequestNumbers : waited'[k] + budget' <= Timeout
    <3>1. /\ waited[req] + 1 \in 0 .. Timeout
          /\ waited[req] + 1 + (budget - 1) <= Timeout
      BY <2>1
    <3>2. \A k \in RequestNumbers :
            waited'[k] = IF k = req THEN waited[req] + 1 ELSE waited[k]
      BY <2>2
    <3>3. waited' \in [RequestNumbers -> 0 .. Timeout]
      BY <2>2, <3>1
    <3>4. ASSUME NEW k \in RequestNumbers
          PROVE  waited'[k] + budget' <= Timeout
      <4>1. CASE k = req
        BY <2>2, <3>1, <3>2, <4>1
      <4>2. CASE k # req
        BY <2>1, <2>2, <3>2, <4>2
      <4> QED
        BY <4>1, <4>2
    <3> QED
      BY <2>1, <2>2, <3>3, <3>4
  <2> QED
    BY <2>2, <2>3 DEF network
<1>3. CASE SelectTimesOut
  <2>1. req \in RequestNumbers
    BY <1>3 DEF SelectTimesOut
  <2> QED
    BY <1>3, <2>1 DEF SelectTimesOut, network
<1>4. CASE Receives
  <2>1. Accept(Parse(arrived)) \in Messages
    BY <1>4, ParseType DEF Receives
  <2> QED
    BY <1>4, <2>1 DEF Receives, history
<1>5. CASE ReceivesEnd
  BY <1>5 DEF ReceivesEnd, Accept, Blank, Messages, network, history
<1>6. CASE ReceivesError
  BY <1>6 DEF ReceivesError, Accept, Blank, Messages, history
<1> QED
  BY <1>1, <1>2, <1>3, <1>4, <1>5, <1>6 DEF Client

\* The steps of the network and the peer keep the types.
LEMMA NetworkType == TInv /\ Network => TInv'
<1> SUFFICES ASSUME TInv, Network
             PROVE  TInv'
  OBVIOUS
<1> USE MaxRequestsAssumption, TimeoutAssumption, PartsAssumption
    DEF TInv, TypeOK, WaitedBudget, RequestNumbers
<1>1. CASE Deliver
  <2>1. /\ Head(toClient) \in Pieces \cup {Fin, Rst}
        /\ Tail(toClient) \in Seq(Pieces \cup {Fin, Rst})
    BY <1>1 DEF Deliver
  <2>2. Head(toClient).kind = "data" => Head(toClient) \in Pieces
    BY <2>1 DEF Fin, Rst
  <2>3. arrived' \in Seq(Pieces)
    BY <1>1, <2>2 DEF Deliver
  <2>4. conn' \in ConnStates
    BY <1>1, <2>1 DEF Deliver, ConnStates, Pieces, Fin, Rst
  <2> QED
    BY <1>1, <2>1, <2>3, <2>4 DEF Deliver, socket, history
<1>2. CASE PeerAnswers
  <2> PICK n \in 1 .. Len(toPeer) :
        /\ toPeer' = SubSeq(toPeer, n + 1, Len(toPeer))
        /\ toClient' = toClient \o [p \in 1 .. Parts |-> Piece(toPeer[n], p)]
    BY <1>2 DEF PeerAnswers
  <2>1. toPeer[n] \in RequestNumbers
    BY ElementOfSeq
  <2>2. [p \in 1 .. Parts |-> Piece(toPeer[n], p)] \in Seq(Pieces \cup {Fin, Rst})
    BY <2>1 DEF Piece, Pieces
  <2>3. toClient' \in Seq(Pieces \cup {Fin, Rst})
    BY <2>2
  <2>4. toPeer' \in Seq(RequestNumbers)
    <3> HIDE DEF RequestNumbers
    <3>0. toPeer \in Seq(RequestNumbers) /\ Len(toPeer) \in Nat
      OBVIOUS
    <3>1. \A i \in n + 1 .. Len(toPeer) : toPeer[i] \in RequestNumbers
      BY <3>0, ElementOfSeq
    <3>2. SubSeq(toPeer, n + 1, Len(toPeer)) \in Seq(RequestNumbers)
      BY <3>1, SubSeqProperties
    <3> QED
      BY <3>2
  <2> QED
    BY <1>2, <2>3, <2>4 DEF PeerAnswers, socket, history
<1>3. CASE PeerCloses
  <2>1. /\ Append(toClient, Fin) \in Seq(Pieces \cup {Fin, Rst})
        /\ Append(toClient, Rst) \in Seq(Pieces \cup {Fin, Rst})
    BY AppendProperties
  <2>2. toClient' \in Seq(Pieces \cup {Fin, Rst})
    BY <1>3, <2>1 DEF PeerCloses
  <2>3. toPeer' \in Seq(RequestNumbers)
    BY <1>3, EmptySeq DEF PeerCloses
  <2> QED
    BY <1>3, <2>2, <2>3 DEF PeerCloses, socket, history
<1>4. CASE PeerResets
  <2>1. /\ Append(toClient, Fin) \in Seq(Pieces \cup {Fin, Rst})
        /\ Append(toClient, Rst) \in Seq(Pieces \cup {Fin, Rst})
    BY AppendProperties
  <2>2. toClient' \in Seq(Pieces \cup {Fin, Rst})
    BY <1>4, <2>1 DEF PeerResets
  <2>3. toPeer' \in Seq(RequestNumbers)
    BY <1>4, EmptySeq DEF PeerResets
  <2> QED
    BY <1>4, <2>2, <2>3 DEF PeerResets, socket, history
<1> QED
  BY <1>1, <1>2, <1>3, <1>4 DEF Network

LEMMA NextType == TInv /\ [Next]_vars => TInv'
<1>1. TInv /\ UNCHANGED vars => TInv'
  BY DEF vars, socket, network, history, TInv, TypeOK, WaitedBudget
<1> QED
  BY <1>1, ClientType, NetworkType DEF Next

\* Every reachable state is well-typed, whatever the bounds; in particular the
\* time left never becomes negative and no request waits longer than Timeout.
THEOREM TypeCorrect == Spec => []TypeOK
<1>1. Spec => []TInv
  BY InitType, NextType, PTL DEF Spec
<1>2. TInv => TypeOK
  BY DEF TInv
<1> QED
  BY <1>1, <1>2, PTL

-----------------------------------------------------------------------------
(* Sums                                                                     *)

\* A set of numbers has a least one, which stands in for induction.
LEMMA LeastNumber ==
  ASSUME NEW T \in SUBSET Nat, T # {}
  PROVE  \E n \in T : \A m \in T : n <= m
<1> DEFINE Less == {p \in Nat \X Nat : p[1] < p[2]}
<1>1. IsWellFoundedOn(Less, Nat)
  BY NatLessThanWellFounded DEF OpToRel
<1>2. \E n \in T : \A m \in T : <<m, n>> \notin Less
  <2> HIDE DEF Less
  <2> QED
    BY <1>1, WFMin
<1>3. \A m, n \in Nat : <<m, n>> \notin Less => n <= m
  OBVIOUS
<1> HIDE DEF Less
<1> QED
  BY <1>2, <1>3

\* total[k] is the sum of the first k of w's n values.
IsSum(total, w, n) ==
    total = [k \in 0 .. n |-> IF k = 0 THEN 0 ELSE total[k - 1] + w[k]]

\* The equation has a solution, so that WaitedFor satisfies its own.
LEMMA SumExists ==
  ASSUME NEW w, NEW n \in Nat
  PROVE  \E total : IsSum(total, w, n)
<1> DEFINE T == {k \in Nat : ~ \E total : IsSum(total, w, k)}
<1> SUFFICES ASSUME T # {}
             PROVE  FALSE
  OBVIOUS
<1>1. PICK k \in T : \A m \in T : k <= m
  BY LeastNumber
<1>2. CASE k = 0
  <2>1. IsSum([j \in 0 .. 0 |-> 0], w, 0)
    BY DEF IsSum
  <2> QED
    BY <1>1, <1>2, <2>1
<1>3. CASE k # 0
  <2>1. PICK total : IsSum(total, w, k - 1)
    BY <1>1, <1>3
  <2>2. IsSum([j \in 0 .. k |-> IF j = k THEN total[k - 1] + w[k] ELSE total[j]],
              w, k)
    BY <1>1, <1>3, <2>1 DEF IsSum
  <2> QED
    BY <1>1, <2>2
<1> QED
  BY <1>2, <1>3

\* How long the client has waited for the first k requests together.
WaitedFor[k \in 0 .. MaxRequests] == IF k = 0 THEN 0 ELSE WaitedFor[k - 1] + waited[k]

LEMMA WaitedForSum ==
    IsSum(WaitedFor, waited, MaxRequests) /\ IsSum(WaitedFor, waited, MaxRequests)'
<1>1. IsSum(WaitedFor, waited, MaxRequests)
  BY SumExists, MaxRequestsAssumption DEF WaitedFor, IsSum
<1>2. IsSum(WaitedFor, waited, MaxRequests)'
  BY SumExists, MaxRequestsAssumption DEF WaitedFor, IsSum
<1> QED
  BY <1>1, <1>2

\* A sum of numbers is one; it does not change over entries that are 0.
LEMMA SumNat ==
  ASSUME NEW n \in Nat, NEW w \in [1 .. n -> Nat], NEW total, IsSum(total, w, n)
  PROVE  \A k \in 0 .. n : total[k] \in Nat
<1> DEFINE T == {k \in 0 .. n : total[k] \notin Nat}
<1> SUFFICES ASSUME T # {}
             PROVE  FALSE
  OBVIOUS
<1>1. PICK k \in T : \A m \in T : k <= m
  <2>1. T \in SUBSET Nat
    OBVIOUS
  <2> HIDE DEF T
  <2> QED
    BY <2>1, LeastNumber
<1> QED
  BY <1>1 DEF IsSum

LEMMA SumFlat ==
  ASSUME NEW n \in Nat, NEW w \in [1 .. n -> Nat], NEW total, IsSum(total, w, n),
         NEW r \in 0 .. n, \A k \in r + 1 .. n : w[k] = 0
  PROVE  \A k \in r .. n : total[k] = total[r]
<1>0. \A j \in 1 .. n : total[j] = total[j - 1] + w[j]
  BY DEF IsSum
<1> DEFINE T == {k \in r .. n : total[k] # total[r]}
<1> SUFFICES ASSUME T # {}
             PROVE  FALSE
  OBVIOUS
<1>1. PICK k \in T : \A m \in T : k <= m
  <2>1. T \in SUBSET Nat
    OBVIOUS
  <2> HIDE DEF T
  <2> QED
    BY <2>1, LeastNumber
<1>2. k # r /\ k \in r .. n /\ k \in Nat
  BY <1>1
<1>3. k - 1 \in r .. n /\ total[k - 1] = total[r]
  BY <1>1, <1>2
<1>4. total[r] \in Nat
  BY SumNat
<1>5. k \in r + 1 .. n /\ w[k] = 0
  BY <1>2
<1>6. total[k] = total[k - 1] + w[k]
  BY <1>0, <1>5
<1> QED
  BY <1>1, <1>3, <1>4, <1>5, <1>6

\* When one entry grows by 1, so does the sum.
LEMMA SumGrows ==
  ASSUME NEW n \in Nat, NEW w \in [1 .. n -> Nat], NEW r \in 1 .. n,
         NEW total, IsSum(total, w, n),
         NEW v \in [1 .. n -> Nat],
         v[r] = w[r] + 1, \A k \in 1 .. n : k # r => v[k] = w[k],
         NEW after, IsSum(after, v, n)
  PROVE  after[n] = total[n] + 1
<1>0. /\ total[0] = 0 /\ after[0] = 0
      /\ \A j \in 1 .. n : /\ total[j] = total[j - 1] + w[j]
                           /\ after[j] = after[j - 1] + v[j]
  BY DEF IsSum
<1> DEFINE Grown(k) == /\ k < r => after[k] = total[k]
                       /\ k >= r => after[k] = total[k] + 1
           T == {k \in 0 .. n : ~Grown(k)}
<1> SUFFICES ASSUME T # {}
             PROVE  FALSE
  OBVIOUS
<1>1. PICK k \in T : \A m \in T : k <= m
  <2>1. T \in SUBSET Nat
    OBVIOUS
  <2> HIDE DEF T
  <2> QED
    BY <2>1, LeastNumber
<1>2. \A j \in 0 .. n : total[j] \in Nat
  BY SumNat
<1>3. k # 0
  BY <1>0, <1>1
<1>4. /\ k - 1 < r => after[k - 1] = total[k - 1]
      /\ k - 1 >= r => after[k - 1] = total[k - 1] + 1
  BY <1>1, <1>3
<1>5. /\ total[k] = total[k - 1] + w[k]
      /\ after[k] = after[k - 1] + v[k]
  BY <1>0, <1>1, <1>3
<1>6. /\ k \in 1 .. n /\ w[k] \in Nat /\ total[k - 1] \in Nat
      /\ k # r => v[k] = w[k]
  BY <1>1, <1>2, <1>3
<1>7. Grown(k)
  <2>1. CASE k < r
    BY <1>4, <1>5, <1>6, <2>1
  <2>2. CASE k = r
    <3>1. v[k] = w[k] + 1 /\ after[k - 1] = total[k - 1]
      BY <1>4, <1>6, <2>2
    <3>2. after[k] = total[k] + 1
      BY <1>5, <1>6, <3>1
    <3> QED
      BY <1>6, <2>2, <3>2
  <2>3. CASE k > r
    <3>1. v[k] = w[k] /\ after[k - 1] = total[k - 1] + 1
      BY <1>4, <1>6, <2>3
    <3>2. after[k] = total[k] + 1
      BY <1>5, <1>6, <3>1
    <3> QED
      BY <1>6, <2>3, <3>2
  <2> QED
    BY <1>6, <2>1, <2>2, <2>3
<1> QED
  BY <1>7

-----------------------------------------------------------------------------
(* Waiting                                                                  *)

\* What the requests have waited and what is left make up the time-out; a request
\* not made yet has not waited, and one that timed out left nothing.
ShareInv ==
    /\ WaitedFor[MaxRequests] + budget = Timeout
    /\ \A k \in RequestNumbers : k > req => waited[k] = 0
    /\ \A k \in timedOut : budget = 0 /\ WaitedFor[k] = Timeout

WaitInv == TInv /\ ShareInv

LEMMA WaitedType ==
  ASSUME TInv
  PROVE  /\ waited \in [1 .. MaxRequests -> Nat]
         /\ \A k \in 0 .. MaxRequests : WaitedFor[k] \in Nat
<1>1. waited \in [1 .. MaxRequests -> Nat]
  BY TimeoutAssumption DEF TInv, TypeOK, RequestNumbers
<1> QED
  BY <1>1, WaitedForSum, SumNat, MaxRequestsAssumption

LEMMA InitShare == Init => ShareInv
<1> SUFFICES ASSUME Init
             PROVE  ShareInv
  OBVIOUS
<1>1. waited \in [1 .. MaxRequests -> Nat] /\ \A k \in 1 .. MaxRequests : waited[k] = 0
  BY DEF Init, RequestNumbers
<1>2. WaitedFor[MaxRequests] = WaitedFor[0]
  BY <1>1, WaitedForSum, SumFlat, MaxRequestsAssumption
<1>3. WaitedFor[0] = 0
  BY WaitedForSum, MaxRequestsAssumption DEF IsSum
<1> QED
  BY <1>1, <1>2, <1>3, TimeoutAssumption DEF Init, ShareInv, RequestNumbers

\* A tick moves one unit from what is left to the sum, for no request has timed out
\* yet; a time-out finds nothing left; nothing else touches either.
LEMMA NextShare ==
  ASSUME WaitInv, [Next]_vars
  PROVE  ShareInv'
<1> USE MaxRequestsAssumption, TimeoutAssumption DEF WaitInv
<1>1. CASE Tick
  <2>1. /\ req \in 1 .. MaxRequests /\ budget \in Nat
        /\ waited \in [1 .. MaxRequests -> Nat]
    BY <1>1, WaitedType DEF Tick, TInv, TypeOK
  <2>2. /\ budget > 0 /\ budget' = budget - 1 /\ req' = req
        /\ waited' = [waited EXCEPT ![req] = @ + 1] /\ timedOut' = timedOut
    BY <1>1 DEF Tick
  <2>3. WaitedFor'[MaxRequests] = WaitedFor[MaxRequests] + 1
    <3>1. /\ IsSum(WaitedFor, waited, MaxRequests)
          /\ IsSum(WaitedFor', waited', MaxRequests)
      BY WaitedForSum
    <3>2. /\ waited' \in [1 .. MaxRequests -> Nat]
          /\ waited'[req] = waited[req] + 1
          /\ \A k \in 1 .. MaxRequests : k # req => waited'[k] = waited[k]
      BY <2>1, <2>2
    <3> QED
      BY <2>1, <3>1, <3>2, SumGrows
  <2>4. timedOut = {}
    BY <2>1, <2>2 DEF ShareInv
  <2>5. WaitedFor[MaxRequests] \in Nat
    BY WaitedType
  <2>6. \A k \in RequestNumbers : k > req => waited'[k] = 0
    BY <2>1, <2>2 DEF ShareInv, RequestNumbers
  <2> QED
    BY <2>1, <2>2, <2>3, <2>4, <2>5, <2>6 DEF ShareInv
<1>2. CASE SelectTimesOut
  <2>1. /\ req \in 1 .. MaxRequests /\ waited \in [1 .. MaxRequests -> Nat]
        /\ WaitedFor[MaxRequests] \in Nat
    BY <1>2, WaitedType DEF SelectTimesOut, TInv, TypeOK
  <2>2. /\ budget = 0 /\ budget' = budget /\ waited' = waited /\ req' = req
        /\ timedOut' = timedOut \cup {req}
    BY <1>2 DEF SelectTimesOut, history
  <2>3. WaitedFor' = WaitedFor
    BY <2>2 DEF WaitedFor
  <2>4. WaitedFor[MaxRequests] = WaitedFor[req]
    <3>1. \A k \in req + 1 .. MaxRequests : waited[k] = 0
      BY <2>1 DEF ShareInv, RequestNumbers
    <3> QED
      BY <2>1, <3>1, WaitedForSum, SumFlat
  <2> QED
    BY <2>1, <2>2, <2>3, <2>4 DEF ShareInv
<1>3. CASE ~Tick /\ ~SelectTimesOut
  <2>1. /\ budget' = budget /\ waited' = waited /\ timedOut' = timedOut
        /\ req' = req \/ (req' = req + 1 /\ req \in Nat)
    BY <1>3 DEF TInv, TypeOK, Next, Client, Network, Send, Receives, ReceivesEnd,
                ReceivesError, Deliver, PeerAnswers, PeerCloses, PeerResets, vars,
                socket, network, history
  <2>2. WaitedFor' = WaitedFor
    BY <2>1 DEF WaitedFor
  <2> QED
    BY <2>1, <2>2 DEF ShareInv, RequestNumbers, TInv, TypeOK
<1> QED
  BY <1>1, <1>2, <1>3

\* The requests of a connection share one time-out, whatever the peer does and in
\* however many pieces its answers come: select writes what is left of it back and
\* receive does not set it again (BaseSocket.cpp:44), so a request that times out has
\* used up what there was for all of them.  It is not what the documentation describes,
\* a bound for every wait of its own (projekt-koncowy.tex:258-261).
THEOREM TimeoutShared ==
  Spec => [](/\ WaitedFor[MaxRequests] <= Timeout
             /\ \A k \in timedOut : WaitedFor[k] = Timeout)
<1>1. Init => WaitInv
  BY InitType, InitShare DEF WaitInv
<1>2. WaitInv /\ [Next]_vars => WaitInv'
  BY NextType, NextShare DEF WaitInv
<1>3. WaitInv => /\ WaitedFor[MaxRequests] <= Timeout
                 /\ \A k \in timedOut : WaitedFor[k] = Timeout
  BY WaitedType, MaxRequestsAssumption, TimeoutAssumption
     DEF WaitInv, ShareInv, TInv, TypeOK
<1> QED
  BY <1>1, <1>2, <1>3, PTL DEF Spec

-----------------------------------------------------------------------------
(* Answers                                                                  *)

\* What becomes of a queue without data, or with nothing else, at its ends.
LEMMA TailKinds ==
  ASSUME NEW S, NEW queue \in Seq(S), queue # <<>>
  PROVE  /\ NoData(queue) => NoData(Tail(queue)) /\ Head(queue).kind # "data"
         /\ (\A i \in DOMAIN queue : queue[i].kind = "data")
              => /\ \A i \in DOMAIN Tail(queue) : Tail(queue)[i].kind = "data"
                 /\ Head(queue).kind = "data"
<1>1. /\ Len(Tail(queue)) = Len(queue) - 1
      /\ \A i \in 1 .. Len(queue) - 1 : Tail(queue)[i] = queue[i + 1]
      /\ Head(queue) = queue[1]
      /\ Len(queue) \in Nat \ {0}
      /\ Tail(queue) \in Seq(S)
  BY EmptySeq, LenProperties
<1>2. DOMAIN Tail(queue) = 1 .. Len(queue) - 1 /\ DOMAIN queue = 1 .. Len(queue)
  BY <1>1, LenProperties
<1>3. \A i \in DOMAIN Tail(queue) : i + 1 \in DOMAIN queue
  BY <1>1, <1>2
<1> QED
  BY <1>1, <1>2, <1>3 DEF NoData

LEMMA AppendKinds ==
  ASSUME NEW S, NEW queue \in Seq(S), NEW x \in S, x.kind # "data"
  PROVE  /\ NoData(queue) => NoData(Append(queue, x))
         /\ queue # <<>> => /\ Tail(Append(queue, x)) = Append(Tail(queue), x)
                            /\ Head(Append(queue, x)) = Head(queue)
                            /\ Tail(queue) \in Seq(S)
         /\ Append(queue, x) # <<>>
<1>1. NoData(queue) => NoData(Append(queue, x))
  BY AppendProperties, LenProperties DEF NoData
<1>2. queue # <<>> => /\ Tail(Append(queue, x)) = Append(Tail(queue), x)
                      /\ Head(Append(queue, x)) = Head(queue)
                      /\ Tail(queue) \in Seq(S)
  OBVIOUS
<1> QED
  BY <1>1, <1>2, AppendProperties

LEMMA InitMatch == Init => PipeInv /\ AnswerMatchesRequest
BY DEF Init, PipeInv, EndIsLast, Quiet, NoData, AnswerMatchesRequest, Blank

\* The client's steps: it reads the socket only while the one answer there is
\* for its present request, and a time-out keeps it from reading ever again.
LEMMA ClientMatch ==
  ASSUME Parts = 1, MatchInv, Client
  PROVE  PipeInv' /\ AnswerMatchesRequest'
<1> USE DEF MatchInv, TInv, TypeOK
<1>1. CASE Send
  <2>1. AnswerMatchesRequest'
    BY <1>1 DEF Send, AnswerMatchesRequest
  <2>2. ASSUME armed
        PROVE  PipeInv'
    <3>1. Quiet /\ EndIsLast
      BY <1>1, <2>2 DEF Send, PipeInv
    <3>2. CASE peerOpen
      <4>1. conn = "open" /\ toPeer = <<>>
        BY <3>1, <3>2 DEF Quiet, EndIsLast
      <4>2. toClient = <<>>
        <5>1. DOMAIN toClient = {}
          BY <3>1, <3>2 DEF Quiet, EndIsLast, NoData
        <5> QED
          BY <5>1, EmptySeq, LenProperties
      <4>3. RequestUnread' /\ pc' = "waiting"
        BY <1>1, <3>1, <3>2, <4>1, <4>2 DEF Send, RequestUnread, Quiet
      <4>4. EndIsLast'
        BY <1>1, <3>1, <4>1, <4>2 DEF Send, EndIsLast, NoData
      <4> QED
        BY <4>3, <4>4 DEF PipeInv
    <3>3. CASE ~peerOpen
      <4>1. Quiet' /\ ~peerOpen'
        BY <1>1, <3>1, <3>3 DEF Send, Quiet, NoData
      <4>2. EndIsLast'
        BY <1>1, <3>1, <3>3 DEF Send, EndIsLast, Quiet, NoData
      <4> QED
        BY <4>1, <4>2 DEF PipeInv
    <3> QED
      BY <3>2, <3>3
  <2>3. ASSUME ~armed
        PROVE  PipeInv'
    BY <1>1, <2>3 DEF Send, PipeInv
  <2> QED
    BY <2>1, <2>2, <2>3
<1>2. CASE Tick
  BY <1>2 DEF Tick, network, PipeInv, EndIsLast, Quiet, NoData, RequestUnread,
              AnswerOnItsWay, AnswerArrived, AnswerMatchesRequest
<1>3. CASE SelectTimesOut
  BY <1>3 DEF SelectTimesOut, PipeInv, AnswerMatchesRequest
<1>4. CASE Receives
  <2>1. /\ arrived = <<Piece(req, 1)>> /\ NoData(toClient) /\ EndIsLast
        /\ peerOpen => toPeer = <<>>
    BY <1>4 DEF Receives, PipeInv, RequestUnread, AnswerOnItsWay, AnswerArrived,
                Quiet
  <2>2. Accept(Parse(arrived)).req \in {0, req}
    BY <2>1 DEF Accept, Parse, Piece, Blank
  <2>3. AnswerMatchesRequest'
    BY <1>4, <2>2 DEF Receives, AnswerMatchesRequest, RequestNumbers
  <2>4. PipeInv'
    BY <1>4, <2>1 DEF Receives, PipeInv, EndIsLast, Quiet, NoData
  <2> QED
    BY <2>3, <2>4
<1>5. CASE ReceivesEnd
  <2>1. AnswerMatchesRequest'
    BY <1>5 DEF ReceivesEnd, AnswerMatchesRequest, Accept, Blank
  <2>2. Quiet /\ EndIsLast
    BY <1>5 DEF ReceivesEnd, PipeInv, EndIsLast, Quiet, RequestUnread,
                AnswerOnItsWay, AnswerArrived
  <2>3. PipeInv'
    BY <1>5, <2>2 DEF ReceivesEnd, network, PipeInv, EndIsLast, Quiet, NoData
  <2> QED
    BY <2>1, <2>3
<1>6. CASE ReceivesError
  <2>1. AnswerMatchesRequest'
    <3>1. Accept(Blank) = Blank /\ Blank.req = 0
      BY DEF Accept, Blank
    <3>2. results' = results \/ results' = [results EXCEPT ![req] = Blank]
      BY <1>6, <3>1 DEF ReceivesError
    <3> QED
      BY <3>1, <3>2 DEF AnswerMatchesRequest
  <2>2. Quiet /\ ~peerOpen /\ NoData(toClient)
    BY <1>6 DEF ReceivesError, PipeInv, EndIsLast, Quiet, RequestUnread,
                AnswerOnItsWay, AnswerArrived
  <2>3. PipeInv'
    BY <1>6, <2>2 DEF ReceivesError, PipeInv, EndIsLast, Quiet, NoData
  <2> QED
    BY <2>1, <2>3
<1> QED
  BY <1>1, <1>2, <1>3, <1>4, <1>5, <1>6 DEF Client

\* The steps of the network and the peer: the request turns into its one answer,
\* which moves on to the client; after the peer's end there is none.
LEMMA NetworkMatch ==
  ASSUME Parts = 1, MatchInv, Network
  PROVE  PipeInv' /\ AnswerMatchesRequest'
<1> USE DEF MatchInv, TInv, TypeOK
<1>a. AnswerMatchesRequest' /\ armed' = armed /\ pc' = pc /\ req' = req
  BY DEF Network, Deliver, PeerAnswers, PeerCloses, PeerResets,
         AnswerMatchesRequest, socket
<1>b. Fin.kind # "data" /\ Rst.kind # "data"
  BY DEF Fin, Rst
<1> SUFFICES ASSUME armed
             PROVE  PipeInv'
  BY <1>a DEF PipeInv
<1>c. /\ EndIsLast
      /\ IF pc = "waiting"
         THEN RequestUnread \/ AnswerOnItsWay \/ AnswerArrived \/ (Quiet /\ ~peerOpen)
         ELSE Quiet
  BY DEF PipeInv
<1>1. CASE Deliver
  <2>1. /\ NoData(toClient) => NoData(Tail(toClient)) /\ Head(toClient).kind # "data"
        /\ (\A i \in DOMAIN toClient : toClient[i].kind = "data")
             => /\ \A i \in DOMAIN Tail(toClient) : Tail(toClient)[i].kind = "data"
                /\ Head(toClient).kind = "data"
    BY <1>1, TailKinds DEF Deliver
  <2>2. /\ toClient # <<>>
        /\ toClient' = Tail(toClient)
        /\ peerOpen' = peerOpen /\ toPeer' = toPeer
        /\ Head(toClient).kind = "data"
             => conn' = conn /\ arrived' = Append(arrived, Head(toClient))
        /\ Head(toClient).kind # "data" => arrived' = arrived
    BY <1>1 DEF Deliver
  <2>3. CASE Head(toClient).kind = "data"
    <3>1. ~NoData(toClient)
      BY <2>1, <2>3
    <3>2. pc = "waiting" /\ AnswerOnItsWay
      BY <1>c, <2>2, <3>1 DEF Quiet, RequestUnread, AnswerArrived
    <3>3. AnswerArrived'
      BY <1>a, <2>2, <2>3, <3>2 DEF AnswerOnItsWay, AnswerArrived, NoData
    <3>4. EndIsLast'
      BY <1>c, <2>1, <2>2, <2>3, <3>1 DEF EndIsLast
    <3> QED
      BY <1>a, <3>2, <3>3, <3>4 DEF PipeInv
  <2>4. CASE Head(toClient).kind # "data"
    <3>1. ~peerOpen
      BY <1>c, <2>1, <2>4 DEF EndIsLast
    <3>2. /\ NoData(toClient)
          /\ IF pc = "waiting" THEN AnswerArrived \/ Quiet ELSE Quiet
      BY <1>c, <2>2, <2>4, <3>1 DEF RequestUnread, AnswerOnItsWay, AnswerArrived,
                                    Quiet, Piece
    <3>3. NoData(toClient)'
      BY <2>1, <2>2, <3>2 DEF NoData
    <3>4. EndIsLast'
      BY <2>2, <3>1, <3>3 DEF EndIsLast
    <3>5. AnswerArrived => AnswerArrived'
      BY <1>a, <2>2, <2>4, <3>3 DEF AnswerArrived
    <3>6. Quiet => Quiet'
      BY <2>2, <2>4, <3>3 DEF Quiet
    <3> QED
      BY <1>a, <2>2, <3>1, <3>2, <3>4, <3>5, <3>6 DEF PipeInv
  <2> QED
    BY <2>3, <2>4
<1>2. CASE PeerAnswers
  <2>1. PICK n \in 1 .. Len(toPeer) :
          /\ toPeer' = SubSeq(toPeer, n + 1, Len(toPeer))
          /\ toClient' = toClient \o [p \in 1 .. Parts |-> Piece(toPeer[n], p)]
    BY <1>2 DEF PeerAnswers
  <2>2. peerOpen /\ peerOpen' /\ conn' = conn /\ arrived' = arrived
    BY <1>2 DEF PeerAnswers
  <2>3. toPeer # <<>>
    BY <2>1
  <2>4. pc = "waiting" /\ RequestUnread
    BY <1>c, <2>2, <2>3 DEF Quiet, AnswerOnItsWay, AnswerArrived
  <2>5. toPeer = <<req>> /\ toClient = <<>> /\ arrived = <<>>
    BY <2>4 DEF RequestUnread
  <2>6. n = 1 /\ toPeer' = <<>>
    BY <2>1, <2>5
  <2>7. toClient' = <<Piece(req, 1)>>
    <3>1. [p \in 1 .. Parts |-> Piece(toPeer[n], p)] = <<Piece(req, 1)>>
      BY <2>5, <2>6
    <3> QED
      BY <2>1, <2>5, <3>1
  <2>8. AnswerOnItsWay'
    BY <1>a, <2>2, <2>5, <2>6, <2>7 DEF AnswerOnItsWay, NoData
  <2>9. EndIsLast'
    BY <1>c, <2>2, <2>7 DEF EndIsLast, Piece
  <2> QED
    BY <1>a, <2>4, <2>8, <2>9 DEF PipeInv
<1>3. CASE PeerCloses
  <2>1. PICK x \in {Fin, Rst} : toClient' = Append(toClient, x)
    BY <1>3 DEF PeerCloses
  <2>2. /\ peerOpen /\ ~peerOpen' /\ toPeer' = <<>>
        /\ conn' = conn /\ arrived' = arrived
    BY <1>3 DEF PeerCloses
  <2>3. /\ NoData(toClient) => NoData(toClient')
        /\ toClient # <<>> => /\ Tail(toClient') = Append(Tail(toClient), x)
                              /\ Head(toClient') = Head(toClient)
                              /\ Tail(toClient) \in Seq(Pieces \cup {Fin, Rst})
        /\ toClient' # <<>>
    BY <1>b, <2>1, AppendKinds
  <2>4. EndIsLast'
    BY <1>c, <2>2 DEF EndIsLast
  <2>5. Quiet => Quiet'
    BY <2>2, <2>3 DEF Quiet, NoData
  <2>6. RequestUnread => Quiet'
    <3>1. NoData(<<>>)
      BY DEF NoData
    <3> QED
      BY <2>2, <2>3, <3>1 DEF Quiet, NoData, RequestUnread
  <2>7. AnswerOnItsWay => AnswerOnItsWay'
    <3> SUFFICES ASSUME AnswerOnItsWay
                 PROVE  AnswerOnItsWay'
      OBVIOUS
    <3>1. NoData(Tail(toClient))
      BY DEF AnswerOnItsWay
    <3>2. NoData(Append(Tail(toClient), x))
      <4>1. x \in Pieces \cup {Fin, Rst} /\ x.kind # "data"
        BY <1>b, <2>1
      <4>2. Tail(toClient) \in Seq(Pieces \cup {Fin, Rst})
        BY <2>3 DEF AnswerOnItsWay
      <4> QED
        BY <3>1, <4>1, <4>2, AppendKinds
    <3>3. NoData(Tail(toClient'))
      BY <2>3, <3>2 DEF AnswerOnItsWay
    <3> QED
      BY <1>a, <2>2, <2>3, <3>3 DEF AnswerOnItsWay, NoData
  <2>8. AnswerArrived => AnswerArrived'
    BY <1>a, <2>2, <2>3 DEF AnswerArrived, NoData
  <2> QED
    BY <1>a, <1>c, <2>2, <2>4, <2>5, <2>6, <2>7, <2>8 DEF PipeInv
<1>4. CASE PeerResets
  <2>1. toClient' = Append(toClient, Rst)
    BY <1>4 DEF PeerResets
  <2>2. /\ ~peerOpen /\ ~peerOpen' /\ conn' = conn /\ arrived' = arrived
    BY <1>4 DEF PeerResets
  <2>3. /\ NoData(toClient) => NoData(toClient')
        /\ toClient # <<>> => /\ Tail(toClient') = Append(Tail(toClient), Rst)
                              /\ Head(toClient') = Head(toClient)
                              /\ Tail(toClient) \in Seq(Pieces \cup {Fin, Rst})
        /\ toClient' # <<>>
    BY <1>b, <2>1, AppendKinds
  <2>4. EndIsLast'
    BY <1>c, <2>2, <2>3 DEF EndIsLast, NoData
  <2>5. Quiet => Quiet'
    BY <2>2, <2>3 DEF Quiet, NoData
  <2>6. AnswerOnItsWay => AnswerOnItsWay'
    <3> SUFFICES ASSUME AnswerOnItsWay
                 PROVE  AnswerOnItsWay'
      OBVIOUS
    <3>1. NoData(Tail(toClient))
      BY DEF AnswerOnItsWay
    <3>2. NoData(Append(Tail(toClient), Rst))
      <4>1. Rst \in Pieces \cup {Fin, Rst} /\ Rst.kind # "data"
        BY <1>b
      <4>2. Tail(toClient) \in Seq(Pieces \cup {Fin, Rst})
        BY <2>3 DEF AnswerOnItsWay
      <4> QED
        BY <3>1, <4>1, <4>2, AppendKinds
    <3>3. NoData(Tail(toClient'))
      BY <2>3, <3>2 DEF AnswerOnItsWay
    <3> QED
      BY <1>a, <2>2, <2>3, <3>3 DEF AnswerOnItsWay, NoData
  <2>7. AnswerArrived => AnswerArrived'
    BY <1>a, <2>2, <2>3 DEF AnswerArrived, NoData
  <2>8. ~RequestUnread
    BY <2>2 DEF RequestUnread
  <2> QED
    BY <1>a, <1>c, <2>2, <2>4, <2>5, <2>6, <2>7, <2>8 DEF PipeInv
<1> QED
  BY <1>1, <1>2, <1>3, <1>4 DEF Network

LEMMA NextMatch ==
  ASSUME Parts = 1, MatchInv, [Next]_vars
  PROVE  MatchInv'
<1>1. Next => MatchInv'
  BY NextType, ClientMatch, NetworkMatch DEF Next, MatchInv
<1>2. UNCHANGED vars => PipeInv' /\ AnswerMatchesRequest'
  BY DEF vars, socket, network, history, MatchInv, PipeInv, EndIsLast, Quiet, NoData,
         RequestUnread, AnswerOnItsWay, AnswerArrived, AnswerMatchesRequest
<1> QED
  BY <1>1, <1>2, NextType DEF MatchInv

\* When answers arrive in one piece, a request never returns the answer to
\* another one, however late answers are and whatever the peer does.
THEOREM AnswersCorrect ==
  ASSUME Parts = 1
  PROVE  Spec => []AnswerMatchesRequest
<1>1. Init => MatchInv
  BY InitType, InitMatch DEF MatchInv
<1>2. MatchInv /\ [Next]_vars => MatchInv'
  BY NextMatch
<1>3. MatchInv => AnswerMatchesRequest
  BY DEF MatchInv
<1> QED
  BY <1>1, <1>2, <1>3, PTL DEF Spec

-----------------------------------------------------------------------------
(* The connection seen from the worker                                      *)

\* A request that has not returned has no answer yet.
FreshInv ==
    \A k \in RequestNumbers :
        k > req \/ (k = req /\ pc = "waiting") => results[k].req = 0

AskInv == MatchInv /\ FreshInv

LEMMA InitAsk == Init => AskInv
BY InitType, InitMatch DEF Init, AskInv, MatchInv, FreshInv, Blank

\* A request that returns, with or without an answer, after any of the three reads.
Returns ==
    /\ pc = "waiting"
    /\ pc' \in {"ready", "aborted"}
    /\ req' = req
    /\ armed' = armed
    /\ armed
    /\ \/ results' = results
       \/ \E msg \in Messages : results' = [results EXCEPT ![req] = msg]

LEMMA ReadsReturn ==
  ASSUME TypeOK, Receives \/ ReceivesEnd \/ ReceivesError
  PROVE  Returns
<1> USE DEF TypeOK
<1>1. CASE Receives
  <2>1. Accept(Parse(arrived)) \in Messages
    BY <1>1, ParseType, MaxRequestsAssumption DEF Receives
  <2> QED
    BY <1>1, <2>1 DEF Receives, Returns
<1>2. Accept(Blank) \in Messages
  BY DEF Accept, Blank, Messages
<1>3. CASE ReceivesEnd
  BY <1>2, <1>3 DEF ReceivesEnd, Returns
<1>4. CASE ReceivesError
  BY <1>2, <1>4 DEF ReceivesError, Returns
<1> QED
  BY <1>1, <1>3, <1>4

\* Every step of the client, as FreshInv and Requests see it.
LEMMA ClientCases ==
  ASSUME TypeOK, Next
  PROVE  \/ /\ Send
            /\ pc # "waiting" /\ req < MaxRequests /\ req' = req + 1
            /\ results' = results /\ armed' = armed
         \/ /\ SelectTimesOut
            /\ pc = "waiting" /\ pc' = "ready" /\ req' = req
            /\ results' = results /\ armed' = FALSE
         \/ Returns
         \/ UNCHANGED <<pc, req, results, armed>>
<1>1. CASE Receives \/ ReceivesEnd \/ ReceivesError
  BY <1>1, ReadsReturn
<1>2. CASE Send
  BY <1>2 DEF Send
<1>3. CASE SelectTimesOut
  BY <1>3 DEF SelectTimesOut
<1>4. CASE Tick \/ Network
  BY <1>4 DEF Tick, Network, Deliver, PeerAnswers, PeerCloses, PeerResets, socket
<1> QED
  BY <1>1, <1>2, <1>3, <1>4 DEF Next, Client

LEMMA NextFresh ==
  ASSUME AskInv, [Next]_vars
  PROVE  FreshInv'
<1> USE DEF AskInv, MatchInv, TInv
<1>0. /\ results \in [RequestNumbers -> Messages] /\ req \in 0 .. MaxRequests
      /\ RequestNumbers = 1 .. MaxRequests
  BY DEF TypeOK, RequestNumbers
<1>1. CASE Send
  BY <1>0, <1>1, MaxRequestsAssumption DEF Send, FreshInv
<1>2. CASE SelectTimesOut
  BY <1>0, <1>2 DEF SelectTimesOut, FreshInv
<1>3. CASE Returns
  <2>1. \A k \in RequestNumbers : k # req => results'[k] = results[k]
    BY <1>0, <1>3 DEF Returns
  <2>2. req' = req /\ pc' # "waiting"
    BY <1>3 DEF Returns
  <2> QED
    BY <1>0, <2>1, <2>2 DEF FreshInv
<1>4. CASE UNCHANGED <<pc, req, results, armed>>
  BY <1>4 DEF FreshInv
<1>5. CASE UNCHANGED vars
  BY <1>4, <1>5 DEF vars, socket
<1> QED
  BY <1>1, <1>2, <1>3, <1>4, <1>5, ClientCases

\* Every step is one of Requests or a stutter.
LEMMA StepsOfRequests ==
  ASSUME Parts = 1, AskInv, [Next]_vars
  PROVE  [Asked!RequestsNext]_(Asked!requests)
<1> USE DEF AskInv, MatchInv, TInv
<1>a. AnswerMatchesRequest'
  BY NextMatch
<1>1. CASE Send
  BY <1>1 DEF Send, Asked!RequestsNext, Asked!Ask
<1>2. CASE SelectTimesOut
  BY <1>2 DEF SelectTimesOut, Asked!RequestsNext, Asked!ReturnNothing
<1>3. CASE Returns
  <2> DEFINE answers == [k \in RequestNumbers |-> results[k].req]
  <2>1. /\ pc = "waiting" /\ pc' # "waiting" /\ req' = req /\ armed' = armed /\ armed
        /\ req \in RequestNumbers
    BY <1>3 DEF Returns, TypeOK, RequestNumbers
  <2>2. results[req].req = 0
    BY <2>1 DEF FreshInv
  <2>3. CASE results' = results
    BY <2>1, <2>3 DEF Asked!RequestsNext, Asked!ReturnNothing
  <2>4. ASSUME NEW msg \in Messages, results' = [results EXCEPT ![req] = msg]
        PROVE  Asked!RequestsNext
    <3>1. results \in [RequestNumbers -> Messages]
      BY DEF TypeOK
    <3>2. results'[req] = msg
      BY <2>1, <2>4, <3>1
    <3>3. msg.req \in {0, req}
      BY <1>a, <2>1, <3>2 DEF AnswerMatchesRequest
    <3>4. answers' = [answers EXCEPT ![req] = msg.req]
      BY <2>1, <2>4, <3>1
    <3>5. CASE msg.req = req
      BY <2>1, <3>4, <3>5 DEF Asked!RequestsNext, Asked!ReturnAnswer
    <3>6. CASE msg.req = 0
      <4>1. answers' = answers
        BY <2>1, <2>2, <3>4, <3>6
      <4> QED
        BY <2>1, <4>1 DEF Asked!RequestsNext, Asked!ReturnNothing
    <3> QED
      BY <3>3, <3>5, <3>6
  <2> QED
    BY <1>3, <2>3, <2>4 DEF Returns
<1>4. CASE UNCHANGED <<pc, req, results, armed>>
  BY <1>4 DEF Asked!requests
<1>5. CASE UNCHANGED vars
  BY <1>4, <1>5 DEF vars, socket
<1> QED
  BY <1>1, <1>2, <1>3, <1>4, <1>5, ClientCases

\* When answers arrive in one piece, the connection is a Requests, for any number
\* of requests and any time-out: see ImplementsRequests.
THEOREM RequestsImplemented ==
  ASSUME Parts = 1
  PROVE  Spec => ImplementsRequests
<1>1. AskInv /\ [Next]_vars => AskInv'
  BY NextMatch, NextFresh DEF AskInv
<1>2. Init => Asked!RequestsInit
  BY DEF Init, Blank, RequestNumbers, Asked!RequestsInit
<1>3. AskInv /\ [Next]_vars => [Asked!RequestsNext]_(Asked!requests)
  BY StepsOfRequests
<1> QED
  BY <1>1, <1>2, <1>3, InitAsk, PTL
     DEF Spec, ImplementsRequests, Asked!RequestsSpec
=============================================================================
