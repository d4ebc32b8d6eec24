-------------------------------- MODULE Tracker --------------------------------
(***************************************************************************)
(* The tracker process: the accept loop of src/src/server/main.cpp, the    *)
(* TrackerThread that it starts for every connection (TrackerThread.cpp)   *)
(* and the lock of the Database they share (database/Database.cpp).        *)
(*                                                                         *)
(* Connections and threads are numbered in the order of accept: thread t   *)
(* is started for connection t.  It gets its descriptor through args, one  *)
(* block on the stack of main that the next turn of the loop writes again. *)
(*                                                                         *)
(* addTorrent asks for its own exclusive lock once more (isHashUnique), so *)
(* no torrent is ever filed and the vectors of the database stay empty:    *)
(* only its lock is state, and what addTorrent would do next is left out.  *)
(***************************************************************************)
EXTENDS Integers, FiniteSets

CONSTANTS
    ThreadLimit,    \* threads the system has room for; none is ever joined
    FdLimit,        \* descriptors the process may have open
    MaxMessages,    \* bound: messages that the clients send, in all
    NoThread        \* "the mutex is not held exclusively"

Connections == 1 .. ThreadLimit
Threads == Connections
Fds == 1 .. FdLimit

ASSUME ThreadLimitAssumption == ThreadLimit \in Nat
ASSUME FdLimitAssumption == FdLimit \in Nat
ASSUME MaxMessagesAssumption == MaxMessages \in Nat
ASSUME NoThreadAssumption == NoThread \notin Threads

VARIABLES
    up,          \* "running", or how the process ended
    accepted,    \* connections accepted so far
    args,        \* args.connFd
    fds,         \* the connection behind each descriptor, 0 when it is free
    pc,          \* where each thread is
    fd,          \* run's connFd
    got,         \* history: the connection behind connFd when it was read
    sock,        \* the connection that recv reads from
    writer, readers,    \* who holds the Database's mutex
    inbox,       \* the message that waits to be received
    sent,        \* how many messages they have sent
    peer,        \* "open"; "closed" by the client; "reset" by its kernel
    strayed      \* history: clients that got an answer not meant for them

mutex == <<writer, readers>>
clients == <<inbox, sent, peer>>
vars == <<up, accepted, args, fds, pc, fd, got, sock, mutex, clients, strayed>>

Codes == {"OK", "CS_SEEDLIST_REQUEST", "CS_NEW_REQUEST", "CS_IM_A_SEED"}

PCs == {"none", "start", "recv", "inRecv", "getClientsWith", "search",
        "addTorrent", "isHashUnique", "stuck", "answer", "close", "done"}

Init ==
    /\ up = "running"
    /\ accepted = 0
    /\ args = 0
    /\ fds = [f \in Fds |-> 0]
    /\ pc = [t \in Threads |-> "none"]
    /\ fd = [t \in Threads |-> 0]
    /\ got = [t \in Threads |-> 0]
    /\ sock = [t \in Threads |-> 0]
    /\ writer = NoThread
    /\ readers = {}
    /\ inbox = [c \in Connections |-> "none"]
    /\ sent = 0
    /\ peer = [c \in Connections |-> "open"]
    /\ strayed = {}

Goto(t, label) == pc' = [pc EXCEPT ![t] = label]

-----------------------------------------------------------------------------
(* main                                                                     *)

Free(f) == fds[f] = 0

\* accept returns the lowest free descriptor, args is written and a thread
\* is created.
Accept ==
    /\ accepted < ThreadLimit
    /\ accepted' = accepted + 1
    /\ \E f \in Fds :
        /\ Free(f)
        /\ \A g \in Fds : Free(g) => f <= g
        /\ fds' = [fds EXCEPT ![f] = accepted']
        /\ args' = f
    /\ Goto(accepted', "start")
    /\ UNCHANGED <<up, fd, got, sock, mutex, clients, strayed>>

\* Mutant: without the guard a thread is given the descriptor -1.
Mut_AcceptUnchecked ==
    /\ \A f \in Fds : ~Free(f)
    /\ accepted < ThreadLimit
    /\ accepted' = accepted + 1
    /\ args' = -1
    /\ Goto(accepted', "start")
    /\ UNCHANGED <<up, fds, fd, got, sock, mutex, clients, strayed>>

\* guard: there is no descriptor left.
AcceptFails ==
    /\ \A f \in Fds : ~Free(f)
    /\ up' = "exited"
    /\ UNCHANGED <<accepted, args, fds, pc, fd, got, sock, mutex, clients,
                   strayed>>

\* pthread_create fails: the threads that have ended still take up their room.
CreateFails ==
    /\ accepted = ThreadLimit
    /\ up' = "exited"
    /\ UNCHANGED <<accepted, args, fds, pc, fd, got, sock, mutex, clients,
                   strayed>>

-----------------------------------------------------------------------------
(* TrackerThread::run                                                       *)

\* The thread gets to run and reads args as it is now.
Start(t) ==
    /\ pc[t] = "start"
    /\ fd' = [fd EXCEPT ![t] = args]
    /\ got' = [got EXCEPT ![t] = fds[args]]
    /\ Goto(t, "recv")
    /\ UNCHANGED <<up, accepted, args, fds, sock, mutex, clients, strayed>>

\* recv on a closed descriptor fails; else it keeps to its connection until it
\* returns, whatever becomes of the descriptor.
EnterRecv(t) ==
    /\ pc[t] = "recv"
    /\ IF Free(fd[t])
       THEN Goto(t, "close") /\ UNCHANGED sock
       ELSE Goto(t, "inRecv") /\ sock' = [sock EXCEPT ![t] = fds[fd[t]]]
    /\ UNCHANGED <<up, accepted, args, fds, fd, got, mutex, clients, strayed>>

\* Mutant: a message without a response ends the connection.
Mut_SeedEnds(code) ==
    CASE code = "OK" -> "answer"
      [] code = "CS_SEEDLIST_REQUEST" -> "getClientsWith"
      [] code = "CS_NEW_REQUEST" -> "addTorrent"
      [] code = "CS_IM_A_SEED" -> "close"

\* What respond does with a message.  CS_IM_A_SEED looks for its torrent in an
\* empty vector.
Handler(code) ==
    CASE code = "OK" -> "answer"
      [] code = "CS_SEEDLIST_REQUEST" -> "getClientsWith"
      [] code = "CS_NEW_REQUEST" -> "addTorrent"
      [] code = "CS_IM_A_SEED" -> "recv"

RecvMessage(t) ==
    /\ pc[t] = "inRecv"
    /\ inbox[sock[t]] # "none"
    /\ Goto(t, Handler(inbox[sock[t]]))
    /\ inbox' = [inbox EXCEPT ![sock[t]] = "none"]
    /\ UNCHANGED <<up, accepted, args, fds, fd, got, sock, mutex, sent, peer,
                   strayed>>

\* Mutant: run returns when recv fails, and only the other way out closes.
Mut_EndsUnclosed(t) ==
    /\ pc[t] = "inRecv"
    /\ inbox[sock[t]] = "none"
    /\ peer[sock[t]] # "open"
    /\ Goto(t, "done")
    /\ UNCHANGED <<up, accepted, args, fds, fd, got, sock, mutex, clients,
                   strayed>>

RecvEnd(t) ==
    /\ pc[t] = "inRecv"
    /\ inbox[sock[t]] = "none"
    /\ peer[sock[t]] # "open"
    /\ Goto(t, "close")
    /\ UNCHANGED <<up, accepted, args, fds, fd, got, sock, mutex, clients,
                   strayed>>

\* Mutant: the descriptor is closed in respond's error path as well.
Mut_ClosesTwice(t) ==
    /\ pc[t] = "close"
    /\ IF Free(fd[t]) THEN up' = "exited" ELSE UNCHANGED up
    /\ fds' = [fds EXCEPT ![fd[t]] = 0]
    /\ \E label \in {"close", "done"} : Goto(t, label)
    /\ UNCHANGED <<accepted, args, fd, got, sock, mutex, clients, strayed>>

\* guard(close(connFd)): a descriptor that is closed already ends the tracker.
Close(t) ==
    /\ pc[t] = "close"
    /\ IF Free(fd[t])
       THEN up' = "exited" /\ UNCHANGED <<fds, pc>>
       ELSE fds' = [fds EXCEPT ![fd[t]] = 0] /\ Goto(t, "done") /\ UNCHANGED up
    /\ UNCHANGED <<accepted, args, fd, got, sock, mutex, clients, strayed>>

-----------------------------------------------------------------------------
(* TrackerThread::respond                                                   *)

GetClientsWith(t) ==
    /\ pc[t] = "getClientsWith"
    /\ writer = NoThread
    /\ readers' = readers \cup {t}
    /\ Goto(t, "search")
    /\ UNCHANGED <<up, accepted, args, fds, fd, got, sock, writer, clients,
                   strayed>>

\* Mutant: the loop returns without unlock_shared.
Mut_KeepsShared(t) ==
    /\ pc[t] = "search"
    /\ Goto(t, "answer")
    /\ UNCHANGED <<up, accepted, args, fds, fd, got, sock, mutex, clients,
                   strayed>>

\* The search finds nobody; the mutex is released.
Search(t) ==
    /\ pc[t] = "search"
    /\ readers' = readers \ {t}
    /\ Goto(t, "answer")
    /\ UNCHANGED <<up, accepted, args, fds, fd, got, sock, writer, clients,
                   strayed>>

AddTorrent(t) ==
    /\ pc[t] = "addTorrent"
    /\ writer = NoThread
    /\ readers = {}
    /\ writer' = t
    /\ Goto(t, "isHashUnique")
    /\ UNCHANGED <<up, accepted, args, fds, fd, got, sock, readers, clients,
                   strayed>>

\* lock_shared on a mutex that the thread holds exclusively is undefined: it
\* throws (resource_deadlock_would_occur), which nobody catches, or never returns.
IsHashUnique(t) ==
    /\ pc[t] = "isHashUnique"
    /\ \/ up' = "aborted" /\ UNCHANGED pc
       \/ Goto(t, "stuck") /\ UNCHANGED up
    /\ UNCHANGED <<accepted, args, fds, fd, got, sock, mutex, clients, strayed>>

\* Mutant: the answer goes to the descriptor that was accepted last.
Mut_AnswersArgs(t) ==
    /\ pc[t] = "answer"
    /\ strayed' = strayed \cup ({fds[args]} \ {0, sock[t]})
    /\ Goto(t, "recv")
    /\ UNCHANGED <<up, accepted, args, fds, fd, got, sock, mutex, clients>>

\* The answer goes to whoever is behind the descriptor now.  One to a client that has
\* closed makes its kernel reset the connection, sooner or later, and one on a
\* connection that has been reset raises SIGPIPE.
Answer(t) ==
    /\ pc[t] = "answer"
    /\ LET c == fds[fd[t]] IN
        /\ up' = IF c # 0 /\ peer[c] = "reset" THEN "killed" ELSE up
        /\ peer' \in IF c # 0 /\ peer[c] = "closed"
                     THEN {peer, [peer EXCEPT ![c] = "reset"]} ELSE {peer}
        /\ strayed' = strayed \cup ({c} \ {0, sock[t]})
    /\ Goto(t, "recv")
    /\ UNCHANGED <<accepted, args, fds, fd, got, sock, mutex, inbox, sent>>

-----------------------------------------------------------------------------
(* The clients                                                              *)

\* Messages that arrive together are parsed as one.
ClientSends(c) ==
    /\ c <= accepted
    /\ peer[c] = "open"
    /\ inbox[c] = "none"
    /\ sent < MaxMessages
    /\ sent' = sent + 1
    /\ \E code \in Codes : inbox' = [inbox EXCEPT ![c] = code]
    /\ UNCHANGED <<up, accepted, args, fds, pc, fd, got, sock, mutex, peer,
                   strayed>>

ClientCloses(c) ==
    /\ c <= accepted
    /\ peer[c] = "open"
    /\ peer' = [peer EXCEPT ![c] = "closed"]
    /\ UNCHANGED <<up, accepted, args, fds, pc, fd, got, sock, mutex, inbox,
                   sent, strayed>>

-----------------------------------------------------------------------------
Main == Accept \/ AcceptFails \/ CreateFails

Step(t) ==
    \/ Start(t) \/ EnterRecv(t) \/ RecvMessage(t) \/ RecvEnd(t) \/ Close(t)
    \/ GetClientsWith(t) \/ Search(t) \/ AddTorrent(t) \/ IsHashUnique(t)
    \/ Answer(t)

Next ==
    /\ up = "running"
    /\ \/ Main
       \/ \E t \in Threads : Step(t)
       \/ \E c \in Connections : ClientSends(c) \/ ClientCloses(c)

Spec == Init /\ [][Next]_vars

\* The scheduler runs every thread that can run; nothing is assumed of the
\* clients, nor that new ones come.
Fairness == \A t \in Threads : WF_vars(up = "running" /\ Step(t))

FairSpec == Spec /\ Fairness

-----------------------------------------------------------------------------
(* Properties                                                               *)

\* Every variable has its type.
TypeOK ==
    /\ up \in {"running", "exited", "aborted", "killed"}
    /\ accepted \in 0 .. ThreadLimit
    /\ args \in Fds \cup {0}
    /\ fds \in [Fds -> Connections \cup {0}]
    /\ pc \in [Threads -> PCs]
    /\ fd \in [Threads -> Fds \cup {0}]
    /\ got \in [Threads -> Connections \cup {0}]
    /\ sock \in [Threads -> Connections \cup {0}]
    /\ writer \in Threads \cup {NoThread}
    /\ readers \subseteq Threads
    /\ inbox \in [Connections -> Codes \cup {"none"}]
    /\ sent \in 0 .. MaxMessages
    /\ peer \in [Connections -> {"open", "closed", "reset"}]
    /\ strayed \subseteq Connections

\* No thread was overtaken by the next turn of the accept loop.
OwnArguments ==
    \A t \in Threads : pc[t] \notin {"none", "start"} => got[t] = t

\* guard ends the tracker only when the system is out of descriptors or threads,
\* or when some thread found the argument of another: as long as each one finds
\* its own, every descriptor is closed exactly once, by its own thread.
ExitsForCause ==
    up = "exited" =>
        \/ accepted = ThreadLimit
        \/ \A f \in Fds : ~Free(f)
        \/ ~OwnArguments

\* Under the same condition an answer goes to the client that asked, although it
\* is sent to a number, and numbers are given out again.
AnswersReachAsker == strayed = {} \/ ~OwnArguments

\* Under the same condition no descriptor is lost, however often numbers have been
\* given out again: each one that is open is that of exactly one thread, which has
\* not ended and will close it.  (What is behind a descriptor without a thread
\* would stay open as long as the tracker runs.)
NoDescriptorLost ==
    OwnArguments =>
        \A f \in Fds : ~Free(f) => \/ pc[fds[f]] = "start"
                                   \/ pc[fds[f]] \notin {"none", "done"} /\ fd[fds[f]] = f

\* Nothing that ends the tracker, or its service, has happened.
Healthy ==
    /\ up = "running"
    /\ OwnArguments
    /\ \A t \in Threads : pc[t] # "stuck"

\* Every message is received, whatever the other clients are doing.
MessagesReceived ==
    \A c \in Connections :
        inbox[c] # "none" ~> (inbox[c] = "none" \/ ~Healthy)

\* The descriptor of a client that has gone is given back.
DescriptorsReturned ==
    \A c \in Connections :
        peer[c] # "open" ~> ((\A f \in Fds : fds[f] # c) \/ ~Healthy)

\* doc/projekt-koncowy.tex:220: the tracker creates a separate TrackerThread for
\* every client.
OneThreadPerClient ==
    \A t, u \in Threads :
        got[t] = got[u] /\ got[t] # 0 => t = u
=============================================================================
