----------------------------- MODULE TrackerProofs -----------------------------
(***************************************************************************)
(* Theorems about Tracker, for any limits and any number of messages.      *)
(*                                                                         *)
(* That the tracker ends only for a cause rests on OwnInv: while every     *)
(* thread has found its own argument, the descriptor a thread works with   *)
(* is open and is that of its own connection, so two threads never have    *)
(* the same one and none is closed or given out again while it is in use.  *)
(***************************************************************************)
EXTENDS Tracker, TLAPS

\* A thread that has read its argument and has not ended.
Active(t) == pc[t] \notin {"none", "start", "done"}

\* A thread that has entered recv with its present connection.
Bound(t) == pc[t] \in PCs \ {"none", "start", "recv", "close", "done"}

\* What keeps the look-ups in fds and inbox inside their domains.
InRange ==
    /\ accepted > 0 => args \in Fds
    /\ \A t \in Threads : /\ t > accepted <=> pc[t] = "none"
                          /\ Active(t) => fd[t] \in Fds
                          /\ Bound(t) => sock[t] \in Connections

TInv == TypeOK /\ InRange

\* While every thread has found its own argument.
OwnInv ==
    OwnArguments =>
        \A t \in Threads : /\ Active(t) => fds[fd[t]] = t
                           /\ Bound(t) => sock[t] = t

TrackerInv == TInv /\ OwnInv /\ ExitsForCause /\ AnswersReachAsker

-----------------------------------------------------------------------------
(* Types                                                                    *)

LEMMA InitType == Init => TInv
BY ThreadLimitAssumption, FdLimitAssumption, MaxMessagesAssumption,
   NoThreadAssumption
   DEF Init, TInv, TypeOK, InRange, Active, Bound, PCs, Codes, Threads,
       Connections, Fds

\* The accept loop keeps the types.
LEMMA MainType ==
  ASSUME TInv, Main
  PROVE  TInv'
<1> USE ThreadLimitAssumption, FdLimitAssumption, MaxMessagesAssumption,
        NoThreadAssumption
    DEF TInv, TypeOK, InRange, Threads, mutex, clients
<1>1. CASE Accept
  <2>1. PICK f \in Fds : fds' = [fds EXCEPT ![f] = accepted'] /\ args' = f
    BY <1>1 DEF Accept
  <2>2. /\ accepted' \in Connections /\ accepted' = accepted + 1
        /\ pc' = [pc EXCEPT ![accepted'] = "start"]
        /\ UNCHANGED <<up, fd, got, sock, writer, readers, inbox, sent, peer, strayed>>
    BY <1>1 DEF Accept, Goto, Connections
  <2> DEFINE new == accepted'
  <2>3. pc' \in [Threads -> PCs] /\ fds' \in [Fds -> Connections \cup {0}]
    <3>1. new \in Threads /\ new \in Connections
      BY <2>2
    <3>2. pc' = [pc EXCEPT ![new] = "start"] /\ fds' = [fds EXCEPT ![f] = new]
      BY <2>1, <2>2
    <3> HIDE DEF new
    <3> QED
      BY <3>1, <3>2 DEF PCs
  <2>4. TypeOK'
    <3>1. accepted' \in 0 .. ThreadLimit /\ args' \in Fds \cup {0}
      BY <2>1, <2>2 DEF Connections
    <3> QED
      BY <2>2, <2>3, <3>1
  <2>5. ASSUME NEW t \in Threads
        PROVE  /\ t > accepted' <=> pc'[t] = "none"
               /\ Active(t)' => fd'[t] \in Fds
               /\ Bound(t)' => sock'[t] \in Connections
    <3>1. CASE t = new
      <4>1. pc'[t] = "start"
        BY <2>2, <3>1
      <4> QED
        BY <2>2, <3>1, <4>1 DEF Active, Bound
    <3>2. CASE t # new
      <4>1. pc'[t] = pc[t]
        BY <2>2, <3>2
      <4> QED
        BY <2>2, <3>2, <4>1 DEF Active, Bound
    <3> QED
      BY <3>1, <3>2
  <2>6. InRange'
    BY <2>1, <2>2, <2>5
  <2> QED
    BY <2>4, <2>6
<1>2. CASE AcceptFails
  BY <1>2 DEF AcceptFails, Active, Bound
<1>3. CASE CreateFails
  BY <1>3 DEF CreateFails, Active, Bound
<1> QED
  BY <1>1, <1>2, <1>3 DEF Main

\* run keeps the types.
LEMMA RunType ==
  ASSUME TInv, NEW t \in Threads,
         Start(t) \/ EnterRecv(t) \/ RecvMessage(t) \/ RecvEnd(t) \/ Close(t)
  PROVE  TInv'
<1> USE ThreadLimitAssumption, FdLimitAssumption, MaxMessagesAssumption,
        NoThreadAssumption
    DEF TInv, TypeOK, InRange, Threads, mutex, clients
<1>1. CASE Start(t)
  <2>1. args \in Fds
    BY <1>1 DEF Start, Connections
  <2>2. fds[args] \in Connections \cup {0}
    BY <2>1
  <2>3. TypeOK'
    BY <1>1, <2>1, <2>2 DEF Start, Goto, PCs
  <2>4. InRange'
    BY <1>1, <2>1 DEF Start, Goto, Active, Bound, PCs
  <2> QED
    BY <2>3, <2>4
<1>2. CASE EnterRecv(t)
  <2>1. fd[t] \in Fds
    BY <1>2 DEF EnterRecv, Active
  <2>2. CASE Free(fd[t])
    BY <1>2, <2>1, <2>2 DEF EnterRecv, Goto, Active, Bound, PCs
  <2>3. CASE ~Free(fd[t])
    <3>1. fds[fd[t]] \in Connections
      BY <2>1, <2>3 DEF Free
    <3> DEFINE c == fds[fd[t]]
    <3>2. /\ pc' = [pc EXCEPT ![t] = "inRecv"] /\ sock' = [sock EXCEPT ![t] = c]
          /\ UNCHANGED <<up, accepted, args, fds, fd, got, writer, readers, inbox,
                         sent, peer, strayed>>
      BY <1>2, <2>3 DEF EnterRecv, Goto
    <3> HIDE DEF c
    <3>3. TypeOK'
      BY <3>1, <3>2 DEF c, PCs
    <3>4. InRange'
      <4> SUFFICES ASSUME NEW u \in Threads
                   PROVE  /\ u > accepted' <=> pc'[u] = "none"
                          /\ Active(u)' => fd'[u] \in Fds
                          /\ Bound(u)' => sock'[u] \in Connections
        BY <3>2
      <4>1. CASE u = t
        BY <1>2, <2>1, <3>1, <3>2, <4>1 DEF c, EnterRecv, Active, Bound
      <4>2. CASE u # t
        BY <3>2, <4>2 DEF Active, Bound
      <4> QED
        BY <4>1, <4>2
    <3> QED
      BY <3>3, <3>4
  <2> QED
    BY <2>2, <2>3
<1>3. CASE RecvMessage(t)
  <2>1. inbox[sock[t]] \in Codes
    BY <1>3 DEF RecvMessage, Bound, PCs
  <2>2. Handler(inbox[sock[t]])
          \in {"answer", "getClientsWith", "addTorrent", "recv"}
    BY <2>1 DEF Handler, Codes
  <2>3. TypeOK'
    BY <1>3, <2>2 DEF RecvMessage, Goto, PCs
  <2>4. InRange'
    BY <1>3, <2>2 DEF RecvMessage, Goto, Active, Bound, PCs
  <2> QED
    BY <2>3, <2>4
<1>4. CASE RecvEnd(t)
  BY <1>4 DEF RecvEnd, Goto, Active, Bound, PCs
<1>5. CASE Close(t)
  <2>1. CASE Free(fd[t])
    BY <1>5, <2>1 DEF Close, Active, Bound
  <2>2. CASE ~Free(fd[t])
    <3>1. TypeOK'
      BY <1>5, <2>2 DEF Close, Goto, PCs
    <3>2. InRange'
      BY <1>5, <2>2 DEF Close, Goto, Active, Bound, PCs
    <3> QED
      BY <3>1, <3>2
  <2> QED
    BY <2>1, <2>2
<1> QED
  BY <1>1, <1>2, <1>3, <1>4, <1>5

\* respond keeps the types.
LEMMA RespondType ==
  ASSUME TInv, NEW t \in Threads,
         GetClientsWith(t) \/ Search(t) \/ AddTorrent(t) \/ IsHashUnique(t)
           \/ Answer(t)
  PROVE  TInv'
<1> USE ThreadLimitAssumption, FdLimitAssumption, MaxMessagesAssumption,
        NoThreadAssumption
    DEF TInv, TypeOK, InRange, Threads, mutex, clients
<1>1. CASE GetClientsWith(t)
  BY <1>1 DEF GetClientsWith, Goto, Active, Bound, PCs
<1>2. CASE Search(t)
  BY <1>2 DEF Search, Goto, Active, Bound, PCs
<1>3. CASE AddTorrent(t)
  BY <1>3 DEF AddTorrent, Goto, Active, Bound, PCs
<1>4. CASE IsHashUnique(t)
  BY <1>4 DEF IsHashUnique, Goto, Active, Bound, PCs
<1>5. CASE Answer(t)
  <2>1. fd[t] \in Fds
    BY <1>5 DEF Answer, Active
  <2>2. fds[fd[t]] \in Connections \cup {0}
    BY <2>1
  <2>3. strayed' \subseteq Connections
    <3> DEFINE c == fds[fd[t]]
    <3>1. strayed' = strayed \cup ({c} \ {0, sock[t]})
      BY <1>5 DEF Answer
    <3>2. c \in Connections \cup {0}
      BY <2>2
    <3> HIDE DEF c
    <3> QED
      BY <3>1, <3>2
  <2>4. peer' \in [Connections -> {"open", "closed", "reset"}]
    BY <1>5 DEF Answer
  <2>5. up' \in {"running", "exited", "aborted", "killed"}
    BY <1>5 DEF Answer
  <2>6. TypeOK'
    BY <1>5, <2>3, <2>4, <2>5 DEF Answer, Goto, PCs
  <2>7. InRange'
    BY <1>5 DEF Answer, Goto, Active, Bound, PCs
  <2> QED
    BY <2>6, <2>7
<1> QED
  BY <1>1, <1>2, <1>3, <1>4, <1>5

\* The clients keep the types.
LEMMA ClientType ==
  ASSUME TInv, NEW c \in Connections, ClientSends(c) \/ ClientCloses(c)
  PROVE  TInv'
<1> USE ThreadLimitAssumption, FdLimitAssumption, MaxMessagesAssumption,
        NoThreadAssumption
    DEF TInv, TypeOK, InRange, Threads, mutex, clients
<1>1. CASE ClientSends(c)
  <2>1. PICK code \in Codes : inbox' = [inbox EXCEPT ![c] = code]
    BY <1>1 DEF ClientSends
  <2>2. /\ inbox' \in [Connections -> Codes \cup {"none"}]
        /\ sent' \in 0 .. MaxMessages
    BY <1>1, <2>1 DEF ClientSends
  <2>3. UNCHANGED <<up, accepted, args, fds, pc, fd, got, sock, writer, readers,
                    peer, strayed>>
    BY <1>1 DEF ClientSends
  <2>4. TypeOK'
    BY <2>2, <2>3
  <2>5. InRange'
    BY <2>3 DEF Active, Bound
  <2> QED
    BY <2>4, <2>5
<1>2. CASE ClientCloses(c)
  BY <1>2 DEF ClientCloses, Active, Bound
<1> QED
  BY <1>1, <1>2

LEMMA NextType == TInv /\ [Next]_vars => TInv'
<1>1. TInv /\ UNCHANGED vars => TInv'
  BY DEF vars, mutex, clients, TInv, TypeOK, InRange, Active, Bound
<1> QED
  BY <1>1, MainType, RunType, RespondType, ClientType DEF Next, Step

\* Every reachable state is well-typed, whatever the limits: no look-up of a
\* descriptor, of a connection or of a message ever leaves its table.
THEOREM TypeCorrect == Spec => []TypeOK
<1>1. Spec => []TInv
  BY InitType, NextType, PTL DEF Spec
<1>2. TInv => TypeOK
  BY DEF TInv
<1> QED
  BY <1>1, <1>2, PTL

-----------------------------------------------------------------------------
(* What depends on the arguments                                            *)

LEMMA InitOwn == Init => OwnInv /\ ExitsForCause /\ AnswersReachAsker
BY DEF Init, OwnInv, ExitsForCause, AnswersReachAsker, Active, Bound, PCs

\* A new connection gets a descriptor that nobody works with.
LEMMA MainOwn ==
  ASSUME TrackerInv, up = "running", Main
  PROVE  OwnInv' /\ ExitsForCause' /\ AnswersReachAsker'
<1> USE DEF TrackerInv, TInv, TypeOK, InRange, Threads
<1>1. CASE Accept
  <2>1. PICK f \in Fds : Free(f) /\ fds' = [fds EXCEPT ![f] = accepted']
    BY <1>1 DEF Accept
  <2>2. /\ accepted' \in Threads /\ accepted' > accepted
        /\ pc' = [pc EXCEPT ![accepted'] = "start"]
        /\ UNCHANGED <<up, fd, got, sock, strayed>>
    BY <1>1, ThreadLimitAssumption DEF Accept, Goto, Connections
  <2>3. pc[accepted'] = "none"
    BY <2>2
  <2> DEFINE new == accepted'
  <2>4. OwnArguments' <=> OwnArguments
    <3>1. new \in Threads /\ pc[new] = "none" /\ pc' = [pc EXCEPT ![new] = "start"]
      BY <2>2, <2>3
    <3> HIDE DEF new
    <3> QED
      BY <2>2, <3>1 DEF OwnArguments
  <2>5. OwnInv'
    <3> SUFFICES ASSUME OwnArguments, NEW t \in Threads
                 PROVE  /\ Active(t)' => fds'[fd'[t]] = t
                        /\ Bound(t)' => sock'[t] = t
      BY <2>4 DEF OwnInv
    <3>1. CASE t = new
      <4>1. pc'[t] = "start"
        BY <2>2, <3>1
      <4> QED
        BY <4>1 DEF Active, Bound
    <3>2. CASE t # new
      <4>1. pc'[t] = pc[t] /\ fd'[t] = fd[t] /\ sock'[t] = sock[t]
        BY <2>2, <3>2
      <4>2. Active(t) => fd[t] \in Fds /\ fds[fd[t]] = t /\ t # 0
        BY DEF OwnInv, Connections
      <4>3. Active(t) => fd[t] # f
        BY <2>1, <4>2 DEF Free
      <4>4. Active(t) => fds'[fd[t]] = t
        BY <2>1, <4>2, <4>3
      <4> QED
        BY <4>1, <4>4 DEF OwnInv, Active, Bound
    <3> QED
      BY <3>1, <3>2
  <2> QED
    BY <2>2, <2>4, <2>5 DEF ExitsForCause, AnswersReachAsker
<1>2. CASE AcceptFails
  BY <1>2 DEF AcceptFails, OwnInv, OwnArguments, ExitsForCause, AnswersReachAsker,
              Free, Active, Bound
<1>3. CASE CreateFails
  BY <1>3 DEF CreateFails, OwnInv, OwnArguments, ExitsForCause, AnswersReachAsker,
              Active, Bound
<1> QED
  BY <1>1, <1>2, <1>3 DEF Main

\* While each thread finds its own argument, it closes its own descriptor and
\* leaves those of the others alone.
LEMMA RunOwn ==
  ASSUME TrackerInv, up = "running", NEW t \in Threads,
         Start(t) \/ EnterRecv(t) \/ RecvMessage(t) \/ RecvEnd(t) \/ Close(t)
  PROVE  OwnInv' /\ ExitsForCause' /\ AnswersReachAsker'
<1> USE DEF TrackerInv, TInv, TypeOK, InRange, Threads
<1>0. OwnArguments' => OwnArguments
  <2>1. CASE Start(t)
    BY <2>1 DEF OwnArguments, Start, Goto
  <2>2. CASE EnterRecv(t)
    BY <2>2 DEF OwnArguments, EnterRecv, Goto
  <2>3. CASE RecvMessage(t)
    <3>1. inbox[sock[t]] \in Codes
      BY <2>3 DEF RecvMessage, Bound, PCs
    <3>2. Handler(inbox[sock[t]]) \notin {"none", "start"}
      BY <3>1 DEF Handler, Codes
    <3> QED
      BY <2>3, <3>2 DEF OwnArguments, RecvMessage, Goto
  <2>4. CASE RecvEnd(t)
    BY <2>4 DEF OwnArguments, RecvEnd, Goto
  <2>5. CASE Close(t)
    BY <2>5 DEF OwnArguments, Close, Goto
  <2> QED
    BY <2>1, <2>2, <2>3, <2>4, <2>5
<1>1. CASE Start(t)
  <2>1. /\ pc' = [pc EXCEPT ![t] = "recv"] /\ fd' = [fd EXCEPT ![t] = args]
        /\ got' = [got EXCEPT ![t] = fds[args]]
        /\ UNCHANGED <<up, fds, sock, strayed>>
    BY <1>1 DEF Start, Goto
  <2>2. OwnArguments' => fds[args] = t
    BY <2>1 DEF OwnArguments
  <2>3. OwnInv'
    BY <1>0, <2>1, <2>2 DEF OwnInv, Active, Bound, PCs
  <2> QED
    BY <1>0, <2>1, <2>3 DEF ExitsForCause, AnswersReachAsker
<1>2. CASE EnterRecv(t)
  <2>1. UNCHANGED <<up, fds, fd, strayed>>
    BY <1>2 DEF EnterRecv
  <2>2. \/ pc' = [pc EXCEPT ![t] = "close"] /\ sock' = sock
        \/ pc' = [pc EXCEPT ![t] = "inRecv"] /\ sock' = [sock EXCEPT ![t] = fds[fd[t]]]
    BY <1>2 DEF EnterRecv, Goto
  <2>3. Active(t)
    BY <1>2 DEF EnterRecv, Active
  <2>4. OwnInv'
    <3> SUFFICES ASSUME OwnArguments, NEW u \in Threads
                 PROVE  /\ Active(u)' => fds'[fd'[u]] = u
                        /\ Bound(u)' => sock'[u] = u
      BY <1>0 DEF OwnInv
    <3>1. CASE u = t
      <4>1. fds[fd[t]] = t
        BY <2>3 DEF OwnInv
      <4>2. Bound(t)' => sock'[t] = t
        BY <2>2, <4>1 DEF Bound
      <4> QED
        BY <2>1, <3>1, <4>1, <4>2
    <3>2. CASE u # t
      <4>1. pc'[u] = pc[u] /\ sock'[u] = sock[u]
        BY <2>2, <3>2
      <4> QED
        BY <2>1, <4>1 DEF OwnInv, Active, Bound
    <3> QED
      BY <3>1, <3>2
  <2> QED
    BY <1>0, <2>1, <2>4 DEF ExitsForCause, AnswersReachAsker
<1>3. CASE RecvMessage(t)
  <2>1. UNCHANGED <<up, fds, fd, sock, strayed>> /\ Active(t) /\ Bound(t)
    BY <1>3 DEF RecvMessage, Active, Bound, PCs
  <2>2. pc' = [pc EXCEPT ![t] = Handler(inbox[sock[t]])]
    BY <1>3 DEF RecvMessage, Goto
  <2>3. OwnInv'
    BY <1>0, <2>1, <2>2 DEF OwnInv, Active, Bound
  <2> QED
    BY <1>0, <2>1, <2>3 DEF ExitsForCause, AnswersReachAsker
<1>4. CASE RecvEnd(t)
  <2>1. UNCHANGED <<up, fds, fd, sock, strayed>> /\ pc' = [pc EXCEPT ![t] = "close"]
        /\ Active(t)
    BY <1>4 DEF RecvEnd, Goto, Active
  <2>2. OwnInv'
    BY <1>0, <2>1 DEF OwnInv, Active, Bound
  <2> QED
    BY <1>0, <2>1, <2>2 DEF ExitsForCause, AnswersReachAsker
<1>5. CASE Close(t)
  <2>1. UNCHANGED <<fd, sock, strayed, got, accepted>> /\ Active(t) /\ fd[t] \in Fds
    BY <1>5 DEF Close, Active
  <2>2. CASE Free(fd[t])
    <3>1. UNCHANGED <<fds, pc>>
      BY <1>5, <2>2 DEF Close
    <3>2. ~OwnArguments
      BY <2>1, <2>2 DEF OwnInv, Free, Connections
    <3> QED
      BY <1>0, <2>1, <3>1, <3>2 DEF OwnInv, ExitsForCause, AnswersReachAsker
  <2>3. CASE ~Free(fd[t])
    <3>1. /\ pc' = [pc EXCEPT ![t] = "done"] /\ fds' = [fds EXCEPT ![fd[t]] = 0]
          /\ up' = up
      BY <1>5, <2>3 DEF Close, Goto
    <3>2. OwnInv'
      <4> SUFFICES ASSUME OwnArguments, NEW u \in Threads
                   PROVE  /\ Active(u)' => fds'[fd'[u]] = u
                          /\ Bound(u)' => sock'[u] = u
        BY <1>0 DEF OwnInv
      <4>1. CASE u = t
        BY <3>1, <4>1 DEF Active, Bound
      <4>2. CASE u # t
        <5>1. fds[fd[t]] = t /\ (Active(u) => fds[fd[u]] = u /\ fd[u] \in Fds)
          BY <2>1 DEF OwnInv
        <5>2. Active(u) => fds'[fd[u]] = u
          BY <2>1, <3>1, <4>2, <5>1
        <5> QED
          BY <2>1, <3>1, <4>2, <5>2 DEF OwnInv, Active, Bound
      <4> QED
        BY <4>1, <4>2
    <3> QED
      BY <1>0, <2>1, <3>1, <3>2 DEF ExitsForCause, AnswersReachAsker
  <2> QED
    BY <2>2, <2>3
<1> QED
  BY <1>1, <1>2, <1>3, <1>4, <1>5

\* respond sends to the descriptor of its own connection.
LEMMA RespondOwn ==
  ASSUME TrackerInv, up = "running", NEW t \in Threads,
         GetClientsWith(t) \/ Search(t) \/ AddTorrent(t) \/ IsHashUnique(t)
           \/ Answer(t)
  PROVE  OwnInv' /\ ExitsForCause' /\ AnswersReachAsker'
<1> USE DEF TrackerInv, TInv, TypeOK, InRange, Threads
<1>1. /\ UNCHANGED <<fds, fd, got, sock, accepted>>
      /\ Active(t) /\ Bound(t)
      /\ \/ pc' = pc
         \/ pc' = [pc EXCEPT ![t] = "search"] \/ pc' = [pc EXCEPT ![t] = "answer"]
         \/ pc' = [pc EXCEPT ![t] = "isHashUnique"]
         \/ pc' = [pc EXCEPT ![t] = "stuck"] \/ pc' = [pc EXCEPT ![t] = "recv"]
  <2>1. CASE GetClientsWith(t)
    BY <2>1 DEF GetClientsWith, Goto, Active, Bound, PCs
  <2>2. CASE Search(t)
    BY <2>2 DEF Search, Goto, Active, Bound, PCs
  <2>3. CASE AddTorrent(t)
    BY <2>3 DEF AddTorrent, Goto, Active, Bound, PCs
  <2>4. CASE IsHashUnique(t)
    BY <2>4 DEF IsHashUnique, Goto, Active, Bound, PCs
  <2>5. CASE Answer(t)
    BY <2>5 DEF Answer, Goto, Active, Bound, PCs
  <2> QED
    BY <2>1, <2>2, <2>3, <2>4, <2>5
<1>2. OwnArguments' <=> OwnArguments
  BY <1>1 DEF OwnArguments, Active
<1>3. OwnInv'
  BY <1>1, <1>2 DEF OwnInv, Active, Bound
<1>4. up' # "exited"
  BY DEF GetClientsWith, Search, AddTorrent, IsHashUnique, Answer
<1>5. AnswersReachAsker'
  <2>1. CASE Answer(t)
    <3>1. OwnArguments => fds[fd[t]] = sock[t]
      BY <1>1 DEF OwnInv
    <3>2. OwnArguments => strayed' = strayed
      BY <2>1, <3>1 DEF Answer
    <3> QED
      BY <1>2, <3>2 DEF AnswersReachAsker
  <2>2. CASE strayed' = strayed
    BY <1>2, <2>2 DEF AnswersReachAsker
  <2> QED
    BY <2>1, <2>2 DEF GetClientsWith, Search, AddTorrent, IsHashUnique
<1> QED
  BY <1>3, <1>4, <1>5 DEF ExitsForCause

LEMMA ClientOwn ==
  ASSUME TrackerInv, up = "running",
         NEW c \in Connections, ClientSends(c) \/ ClientCloses(c)
  PROVE  OwnInv' /\ ExitsForCause' /\ AnswersReachAsker'
<1>1. UNCHANGED <<up, accepted, fds, pc, fd, got, sock, strayed>>
  BY DEF ClientSends, ClientCloses
<1> QED
  BY <1>1 DEF TrackerInv, OwnInv, OwnArguments, ExitsForCause, AnswersReachAsker,
              Active, Bound, Free

\* TrackerInv is inductive.
LEMMA Inductive == Spec => []TrackerInv
<1>1. Init => TrackerInv
  BY InitType, InitOwn DEF TrackerInv
<1>2. TrackerInv /\ [Next]_vars => TrackerInv'
  <2>1. TrackerInv /\ Next => TrackerInv'
    BY NextType, MainOwn, RunOwn, RespondOwn, ClientOwn DEF Next, Step, TrackerInv
  <2>2. TrackerInv /\ UNCHANGED vars => TrackerInv'
    BY NextType DEF vars, TrackerInv, OwnInv, OwnArguments, ExitsForCause,
                    AnswersReachAsker, Active, Bound, Free
  <2> QED
    BY <2>1, <2>2
<1> QED
  BY <1>1, <1>2, PTL DEF Spec

\* guard ends the tracker only when descriptors or threads have run out or some
\* thread found the argument of another: no other interleaving of any number of
\* threads closes a descriptor twice.
THEOREM ExitsCorrect == Spec => []ExitsForCause
<1>1. TrackerInv => ExitsForCause
  BY DEF TrackerInv
<1> QED
  BY <1>1, Inductive, PTL

\* Under the same condition every answer goes to the client that asked.
THEOREM AnswersCorrect == Spec => []AnswersReachAsker
<1>1. TrackerInv => AnswersReachAsker
  BY DEF TrackerInv
<1> QED
  BY <1>1, Inductive, PTL

-----------------------------------------------------------------------------
(***************************************************************************)
(* No descriptor is lost.  The property alone is not inductive: when a     *)
(* descriptor is closed, its thread must have no other one.                *)
(***************************************************************************)

\* A connection has been accepted, and has one descriptor at most.
OneFdEach ==
    /\ \A f \in Fds : fds[f] <= accepted
    /\ \A f, g \in Fds : fds[f] = fds[g] /\ ~Free(f) => f = g

LostInv == TrackerInv /\ OneFdEach /\ NoDescriptorLost

\* Whose descriptor f is, and that its thread has not ended.
Kept(f) ==
    \/ pc[fds[f]] = "start"
    \/ pc[fds[f]] \notin {"none", "done"} /\ fd[fds[f]] = f

LEMMA InitLost == Init => OneFdEach /\ NoDescriptorLost
BY DEF Init, OneFdEach, NoDescriptorLost, Free

LEMMA MainLost ==
  ASSUME LostInv, Main
  PROVE  OneFdEach' /\ NoDescriptorLost'
<1> USE DEF LostInv, TrackerInv, TInv, TypeOK, Threads
<1>1. CASE Accept
  <2>1. PICK f \in Fds : Free(f) /\ fds' = [fds EXCEPT ![f] = accepted']
    BY <1>1 DEF Accept
  <2> DEFINE new == accepted'
  <2>2. /\ new \in Threads /\ new = accepted + 1 /\ accepted \in Nat
        /\ pc' = [pc EXCEPT ![new] = "start"]
        /\ UNCHANGED <<fd, got>>
    BY <1>1, ThreadLimitAssumption DEF Accept, Goto, Connections
  <2>3. accepted' = new /\ fds' = [fds EXCEPT ![f] = new]
    BY <2>1
  <2> HIDE DEF new
  <2>4. \A g \in Fds : fds'[g] = IF g = f THEN new ELSE fds[g]
    BY <2>3
  <2>5. \A g \in Fds : fds[g] \in Nat /\ fds[g] <= accepted /\ fds[g] # new
    BY <2>2 DEF OneFdEach, Connections
  <2>6. OneFdEach'
    <3>1. \A g \in Fds : fds'[g] <= accepted'
      BY <2>2, <2>3, <2>4, <2>5
    <3>2. \A g, h \in Fds : fds'[g] = fds'[h] /\ fds'[g] # 0 => g = h
      BY <2>1, <2>4, <2>5 DEF OneFdEach, Free
    <3> QED
      BY <3>1, <3>2 DEF OneFdEach, Free
  <2>7. OwnArguments' => OwnArguments
    <3>1. pc[new] = "none"
      BY <2>2 DEF InRange
    <3> QED
      BY <2>2, <3>1 DEF OwnArguments
  <2>8. ASSUME OwnArguments, NEW g \in Fds, fds'[g] # 0
        PROVE  Kept(g)'
    <3>1. CASE g = f
      BY <2>2, <2>4, <3>1 DEF Kept
    <3>2. CASE g # f
      <4>1. fds'[g] = fds[g] /\ fds[g] \in Threads /\ fds[g] # new
        BY <2>4, <2>5, <2>8, <3>2 DEF Connections
      <4>2. Kept(g)
        BY <2>8, <4>1 DEF NoDescriptorLost, Free, Kept
      <4>3. pc'[fds[g]] = pc[fds[g]] /\ fd'[fds[g]] = fd[fds[g]]
        BY <2>2, <4>1
      <4> QED
        BY <4>1, <4>2, <4>3 DEF Kept
    <3> QED
      BY <3>1, <3>2
  <2> QED
    BY <2>6, <2>7, <2>8 DEF NoDescriptorLost, Free, Kept
<1>2. CASE AcceptFails \/ CreateFails
  BY <1>2 DEF AcceptFails, CreateFails, OneFdEach, NoDescriptorLost, OwnArguments,
              Free
<1> QED
  BY <1>1, <1>2 DEF Main

\* A thread that goes on, neither starting nor ending.
LEMMA GoesOnLost ==
  ASSUME LostInv, NEW t \in Threads, Active(t), NEW label,
         pc' = pc \/ (pc' = [pc EXCEPT ![t] = label]
                        /\ label \notin {"none", "start", "done"}),
         UNCHANGED <<accepted, fds, fd, got>>
  PROVE  OneFdEach' /\ NoDescriptorLost'
<1> USE DEF LostInv, TrackerInv, TInv, TypeOK, Threads
<1>1. OneFdEach'
  BY DEF OneFdEach, Free
<1>2. OwnArguments' => OwnArguments
  BY DEF OwnArguments, Active
<1>3. ASSUME OwnArguments, NEW f \in Fds, fds[f] # 0
      PROVE  Kept(f)'
  <2>1. fds[f] \in Threads
    BY <1>3 DEF Connections
  <2>2. Kept(f)
    BY <1>3 DEF NoDescriptorLost, Free, Kept
  <2> QED
    BY <2>1, <2>2 DEF Kept, Active
<1> QED
  BY <1>1, <1>2, <1>3 DEF NoDescriptorLost, Free, Kept

LEMMA StepLost ==
  ASSUME LostInv, NEW t \in Threads, Step(t)
  PROVE  OneFdEach' /\ NoDescriptorLost'
<1> USE DEF LostInv, TrackerInv, TInv, TypeOK, Threads
<1>1. CASE Start(t)
  <2>1. /\ pc[t] = "start" /\ pc' = [pc EXCEPT ![t] = "recv"]
        /\ fd' = [fd EXCEPT ![t] = args] /\ got' = [got EXCEPT ![t] = fds[args]]
        /\ UNCHANGED <<accepted, fds>>
    BY <1>1 DEF Start, Goto
  <2>2. OneFdEach'
    BY <2>1 DEF OneFdEach, Free
  <2>3. OwnArguments' => OwnArguments /\ fds[args] = t
    BY <2>1 DEF OwnArguments
  <2>4. ASSUME OwnArguments, fds[args] = t, NEW f \in Fds, fds[f] # 0
        PROVE  Kept(f)'
    <3>1. fds[f] \in Threads
      BY <2>4 DEF Connections
    <3>2. args \in Fds
      BY <2>1 DEF InRange, Connections
    <3>3. CASE fds[f] = t
      <4>1. f = args
        BY <2>4, <3>2, <3>3 DEF OneFdEach, Free
      <4> QED
        BY <2>1, <3>3, <4>1 DEF Kept
    <3>4. CASE fds[f] # t
      <4>1. Kept(f)
        BY <2>4 DEF NoDescriptorLost, Free, Kept
      <4> QED
        BY <2>1, <3>1, <3>4, <4>1 DEF Kept
    <3> QED
      BY <3>3, <3>4
  <2> QED
    BY <2>1, <2>2, <2>3, <2>4 DEF NoDescriptorLost, Free, Kept
<1>2. CASE Close(t) /\ ~Free(fd[t])
  <2>1. /\ pc[t] = "close" /\ pc' = [pc EXCEPT ![t] = "done"]
        /\ fds' = [fds EXCEPT ![fd[t]] = 0] /\ fd[t] \in Fds
        /\ UNCHANGED <<accepted, fd, got>>
    BY <1>2 DEF Close, Goto, InRange, Active
  <2>2. \A f \in Fds : fds'[f] = IF f = fd[t] THEN 0 ELSE fds[f]
    BY <2>1
  <2>3. OneFdEach'
    BY <2>1, <2>2, ThreadLimitAssumption DEF OneFdEach, Free
  <2>4. OwnArguments' => OwnArguments
    BY <2>1 DEF OwnArguments
  <2>5. ASSUME OwnArguments, NEW f \in Fds, fds'[f] # 0
        PROVE  Kept(f)'
    <3>1. fds'[f] = fds[f] /\ fds[f] \in Threads /\ f # fd[t]
      BY <2>2, <2>5 DEF Connections
    <3>2. Kept(f)
      BY <2>5, <3>1 DEF NoDescriptorLost, Free, Kept
    <3>3. fds[f] # t
      BY <2>1, <3>1, <3>2 DEF Kept
    <3> QED
      BY <2>1, <3>1, <3>2, <3>3 DEF Kept
  <2> QED
    BY <2>3, <2>4, <2>5 DEF NoDescriptorLost, Free, Kept
<1>3. CASE Close(t) /\ Free(fd[t])
  <2>1. UNCHANGED <<accepted, fds, pc, fd, got>> /\ Active(t)
    BY <1>3 DEF Close, Active
  <2> QED
    BY <2>1, GoesOnLost
<1>4. CASE RecvMessage(t)
  <2>1. inbox[sock[t]] \in Codes
    BY <1>4 DEF RecvMessage, InRange, Bound, PCs
  <2>2. Handler(inbox[sock[t]]) \notin {"none", "start", "done"}
    BY <2>1 DEF Handler, Codes
  <2>3. Active(t) /\ UNCHANGED <<accepted, fds, fd, got>>
        /\ pc' = [pc EXCEPT ![t] = Handler(inbox[sock[t]])]
    BY <1>4 DEF RecvMessage, Goto, Active
  <2> QED
    BY <2>2, <2>3, GoesOnLost
<1>5. CASE \/ EnterRecv(t) \/ RecvEnd(t) \/ GetClientsWith(t) \/ Search(t)
           \/ AddTorrent(t) \/ IsHashUnique(t) \/ Answer(t)
  <2>1. Active(t) /\ UNCHANGED <<accepted, fds, fd, got>>
    BY <1>5 DEF EnterRecv, RecvEnd, GetClientsWith, Search, AddTorrent,
                IsHashUnique, Answer, Active
  <2>2. \E label \in {"close", "inRecv", "search", "answer", "isHashUnique",
                      "stuck", "recv"} :
          pc' = pc \/ pc' = [pc EXCEPT ![t] = label]
    BY <1>5 DEF EnterRecv, RecvEnd, GetClientsWith, Search, AddTorrent,
                IsHashUnique, Answer, Goto
  <2> QED
    BY <2>1, <2>2, GoesOnLost
<1> QED
  BY <1>1, <1>2, <1>3, <1>4, <1>5 DEF Step

\* While every thread has found its own argument, each open descriptor is that of a
\* thread which will close it, whatever the limits and however numbers are reused.
THEOREM DescriptorsKept == Spec => []NoDescriptorLost
<1>1. Init => LostInv
  BY InitType, InitOwn, InitLost DEF LostInv, TrackerInv
<1>2. LostInv /\ [Next]_vars => OneFdEach' /\ NoDescriptorLost'
  <2> SUFFICES ASSUME LostInv, [Next]_vars
               PROVE  OneFdEach' /\ NoDescriptorLost'
    OBVIOUS
  <2>1. CASE \/ \E c \in Connections : ClientSends(c) \/ ClientCloses(c)
             \/ UNCHANGED vars
    <3>1. UNCHANGED <<accepted, fds, pc, fd, got>>
      BY <2>1 DEF ClientSends, ClientCloses, vars
    <3> QED
      BY <3>1 DEF LostInv, OneFdEach, NoDescriptorLost, OwnArguments, Free
  <2> QED
    BY <2>1, MainLost, StepLost DEF Next
<1>3. LostInv => NoDescriptorLost /\ TrackerInv
  BY DEF LostInv
<1>4. TrackerInv /\ OneFdEach /\ NoDescriptorLost => LostInv
  BY DEF LostInv
<1> QED
  BY <1>1, <1>2, <1>3, <1>4, Inductive, PTL DEF Spec

-----------------------------------------------------------------------------
(* The Database's mutex                                                     *)

\* A thread that searches is among its readers; one that holds it exclusively is
\* within addTorrent, and never leaves it.
LockInv ==
    /\ \A t \in Threads : /\ t \in readers <=> pc[t] = "search"
                          /\ writer = t <=> pc[t] \in {"isHashUnique", "stuck"}
    /\ writer # NoThread => readers = {}

LEMMA InitLock == Init => LockInv
BY NoThreadAssumption DEF Init, LockInv

LEMMA NextLock == TInv /\ LockInv /\ [Next]_vars => LockInv'
<1> SUFFICES ASSUME TInv, LockInv, [Next]_vars
             PROVE  LockInv'
  OBVIOUS
<1> USE NoThreadAssumption DEF TInv, TypeOK, LockInv, Threads
\* Steps that leave the mutex alone and move no thread that holds it.
<1>1. ASSUME UNCHANGED mutex, NEW t \in Threads, NEW label,
             pc' = pc \/ pc' = [pc EXCEPT ![t] = label],
             pc[t] # "search", label # "search",
             pc[t] \in {"isHashUnique", "stuck"} <=> label \in {"isHashUnique", "stuck"}
      PROVE  LockInv'
  BY <1>1 DEF mutex
<1>2. CASE Accept
  <2>1. PICK t \in Threads : t = accepted' /\ t > accepted
    BY <1>2, ThreadLimitAssumption DEF Accept, Connections
  <2>2. pc[t] = "none" /\ pc' = [pc EXCEPT ![t] = "start"] /\ UNCHANGED mutex
    BY <1>2, <2>1 DEF Accept, Goto, InRange
  <2> QED
    BY <1>1, <2>2
<1>3. ASSUME NEW t \in Threads, GetClientsWith(t) \/ Search(t) \/ AddTorrent(t)
      PROVE  LockInv'
  <2>1. CASE GetClientsWith(t)
    BY <2>1 DEF GetClientsWith, Goto
  <2>2. CASE Search(t)
    BY <2>2 DEF Search, Goto
  <2>3. CASE AddTorrent(t)
    BY <2>3 DEF AddTorrent, Goto
  <2> QED
    BY <1>3, <2>1, <2>2, <2>3
<1>4. ASSUME NEW t \in Threads, RecvMessage(t)
      PROVE  LockInv'
  <2>1. inbox[sock[t]] \in Codes
    BY <1>4 DEF RecvMessage, InRange, Bound, PCs
  <2>2. Handler(inbox[sock[t]]) \notin {"search", "isHashUnique", "stuck"}
    BY <2>1 DEF Handler, Codes
  <2>3. /\ UNCHANGED mutex /\ pc[t] = "inRecv"
        /\ pc' = [pc EXCEPT ![t] = Handler(inbox[sock[t]])]
    BY <1>4 DEF RecvMessage, Goto
  <2> QED
    BY <1>1, <2>2, <2>3
<1>5. ASSUME NEW t \in Threads,
             Start(t) \/ EnterRecv(t) \/ RecvEnd(t) \/ Close(t) \/ Answer(t)
      PROVE  LockInv'
  <2>1. UNCHANGED mutex /\ pc[t] \in {"start", "recv", "inRecv", "close", "answer"}
    BY <1>5 DEF Start, EnterRecv, RecvEnd, Close, Answer
  <2>2. \E label \in {"recv", "inRecv", "close", "done"} :
           pc' = pc \/ pc' = [pc EXCEPT ![t] = label]
    BY <1>5 DEF Start, EnterRecv, RecvEnd, Close, Answer, Goto
  <2> QED
    BY <1>1, <2>1, <2>2
<1>6. ASSUME NEW t \in Threads, IsHashUnique(t)
      PROVE  LockInv'
  BY <1>1, <1>6 DEF IsHashUnique, Goto
<1>7. CASE AcceptFails \/ CreateFails \/ UNCHANGED vars
           \/ \E c \in Connections : ClientSends(c) \/ ClientCloses(c)
  BY <1>7 DEF AcceptFails, CreateFails, ClientSends, ClientCloses, vars, mutex
<1> QED
  BY <1>2, <1>3, <1>4, <1>5, <1>6, <1>7 DEF Next, Main, Step

\* The shared mutex of the Database: a search never overlaps an addTorrent, and the
\* lock is held exactly within the two.
THEOREM DatabaseLock == Spec => []LockInv
<1>1. Spec => []TInv
  BY InitType, NextType, PTL DEF Spec
<1> QED
  BY <1>1, InitLock, NextLock, PTL DEF Spec

\* From the first addTorrent on nobody, not even its own thread, ever obtains the
\* mutex again: each thread keeps exactly what it holds of it.
THEOREM AddTorrentBlocksAll == Spec => [][writer # NoThread => UNCHANGED mutex]_vars
<1>1. TInv /\ LockInv /\ [Next]_vars => [writer # NoThread => UNCHANGED mutex]_vars
  <2> SUFFICES ASSUME LockInv, Next, writer # NoThread
               PROVE  UNCHANGED mutex
    BY DEF vars
  <2>1. ASSUME NEW t \in Threads, Step(t)
        PROVE  UNCHANGED mutex
    <3>1. CASE Search(t)
      <4>1. readers = {}
        BY DEF LockInv
      <4> QED
        BY <3>1, <4>1 DEF Search, mutex
    <3> QED
      BY <2>1, <3>1 DEF Step, Start, EnterRecv, RecvMessage, RecvEnd, Close,
                        GetClientsWith, AddTorrent, IsHashUnique, Answer, mutex
  <2> QED
    BY <2>1 DEF Next, Main, Accept, AcceptFails, CreateFails, ClientSends,
                ClientCloses, mutex
<1>2. Spec => []TInv
  BY InitType, NextType, PTL DEF Spec
<1> QED
  BY <1>1, <1>2, DatabaseLock, PTL DEF Spec
=============================================================================
