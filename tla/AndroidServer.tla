--------------------------- MODULE AndroidServer ---------------------------
(***************************************************************************)
(* The android server: runServer, startServer and the two threads that     *)
(* share the globals sockfd, connfd, connfd2 and connected without a lock. *)
(* The first connection startServer accepts carries lines typed at the     *)
(* server to the app; serverRead then accepts a connection per message of  *)
(* the app.  On the message EXIT the read thread closes both sockets and   *)
(* runs startServer again, while the send thread may hold the old connfd.  *)
(*                                                                         *)
(* A descriptor is a number: the kernel gives out the lowest free one, so  *)
(* a closed number comes back as something else.  Each system call and     *)
(* each access to "connected" is a step.  The app is external.             *)
(***************************************************************************)
EXTENDS Integers, Sequences, FiniteSets

CONSTANTS
  MaxFd,        \* descriptors the process may open
  Backlog,      \* connections a listening socket queues (5)
  MaxSessions,  \* bound: times the app is started
  MaxFailures   \* bound: system calls that fail

\* The server needs three.
ASSUME FdAssumption == MaxFd \in Nat /\ MaxFd >= 3
ASSUME BoundsAssumption ==
  Backlog \in Nat \ {0} /\ MaxSessions \in Nat /\ MaxFailures \in Nat

VARIABLES
  fd,           \* what each descriptor is: Free, Listener or a connection
  queue,        \* connections waiting to be accepted, oldest first
  sockfd, connfd, connfd2, connected,   \* the globals
  rpc,          \* the read thread; at first the main thread in startServer
  spc,          \* the send thread
  target,       \* serverSendFunc's parameter connfd
  session,      \* the app: the number of its runs so far
  running,      \* the app: it runs now
  atListen,     \* history: session when startServer listened last
  failures      \* system calls that failed

globals == <<sockfd, connfd, connfd2, connected>>
app == <<session, running, atListen>>
vars == <<fd, queue, globals, rpc, spc, target, app, failures>>

Fds == 1 .. MaxFd
NoFd == -1   \* the result of a call that failed

\* Connections: the run of the app that opened them, what it wrote to them,
\* who accepted them, and whether the server wrote after the app had closed.
\* "SPLIT" is an EXIT of which read returns only a part.
Bodies == {"NOTHING", "TEXT", "EXIT", "SPLIT"}
Connection == [session : 1 .. MaxSessions, body : Bodies,
               by : {"queue", "startServer", "serverRead"}, reset : BOOLEAN]
Free == [by |-> "free"]
Listener == [by |-> "listener"]

\* The app has closed its end.
Gone(c) == c.session < session \/ ~running

FreeFds == {f \in Fds : fd[f] = Free}
Lowest(fds) == CHOOSE f \in fds : \A g \in fds : f <= g

\* close, on a number that may be no open descriptor.
Close(f) == fd' = [g \in Fds |-> IF g = f THEN Free ELSE fd[g]]

Fails == failures < MaxFailures /\ failures' = failures + 1

ReadThread(from, to) == rpc = from /\ rpc' = to

-----------------------------------------------------------------------------
(* startServer, in runServer or in the read thread.                         *)

\* socket, setsockopt, bind and listen; if one fails the program exits.
Listen ==
  /\ \/ /\ ReadThread("socket", "accept_send")
        /\ sockfd' = Lowest(FreeFds)
        /\ fd' = [fd EXCEPT ![sockfd'] = Listener]
        /\ UNCHANGED <<spc, failures>>
     \/ /\ ReadThread("socket", "exited")
        /\ Fails
        /\ spc' = "exited"
        /\ UNCHANGED <<fd, sockfd>>
  /\ queue' = <<>>
  /\ atListen' = session
  /\ UNCHANGED <<connfd, connfd2, connected, target, session, running>>

\* accept: the oldest connection of the queue gets the lowest descriptor, or
\* the call fails.
Accept(by, result) ==
  \/ /\ queue /= <<>> /\ FreeFds /= {}
     /\ result = Lowest(FreeFds)
     /\ fd' = [fd EXCEPT ![result] = [Head(queue) EXCEPT !.by = by]]
     /\ queue' = Tail(queue)
     /\ UNCHANGED failures
  \/ Fails /\ result = NoFd /\ UNCHANGED <<fd, queue>>

\* Mutant of AcceptSend: runServer starts only one thread.
AcceptSendOneThread ==
  /\ rpc = "accept_send"
  /\ Accept("startServer", connfd')
  /\ connected' = TRUE
  /\ rpc' = IF spc = "not started" THEN "loop" ELSE "close_msg"
  /\ UNCHANGED <<sockfd, connfd2, spc, target, app>>

\* connected is set whatever accept returned.  runServer then starts the
\* threads; in the read thread serverReadFunc returns.
AcceptSend ==
  /\ rpc = "accept_send"
  /\ Accept("startServer", connfd')
  /\ connected' = TRUE
  /\ IF spc = "not started"
     THEN rpc' = "loop" /\ spc' = "loop"
     ELSE rpc' = "close_msg" /\ UNCHANGED spc
  /\ UNCHANGED <<sockfd, connfd2, target, app>>

-----------------------------------------------------------------------------
(* The read thread: serverRead and serverReadFunc.                          *)

TestConnected ==
  /\ ReadThread("loop", "accept_msg")
  /\ connected
  /\ UNCHANGED <<fd, queue, globals, spc, target, app, failures>>

AcceptMessage ==
  /\ ReadThread("accept_msg", "read")
  /\ Accept("serverRead", connfd2')
  /\ UNCHANGED <<sockfd, connfd, connected, spc, target, app>>

\* Mutant of IsExit: the sense of strcmp is mistaken.
IsExitInverted(body) == body \in {"TEXT", "SPLIT"}

\* strcmp("EXIT", buff).
IsExit(body) == body = "EXIT"

\* read returns at once when the app wrote something, otherwise when it closes;
\* it fails if accept did.
Read ==
  /\ \/ /\ ReadThread("read", "close_msg")
        /\ connfd2 /= NoFd =>
             LET c == fd[connfd2]
             IN  ~IsExit(c.body) /\ (c.body = "NOTHING" => Gone(c))
     \/ /\ ReadThread("read", "close_sock")
        /\ connfd2 /= NoFd /\ IsExit(fd[connfd2].body)
  /\ UNCHANGED <<fd, queue, globals, spc, target, app, failures>>

\* Mutant of CloseListener: the listening socket is kept.
CloseListenerNot ==
  /\ ReadThread("close_sock", "close_conn")
  /\ UNCHANGED <<fd, queue, globals, spc, target, app, failures>>

\* On EXIT: the listening socket first, with all that waits in its queue, ...
CloseListener ==
  /\ ReadThread("close_sock", "close_conn")
  /\ Close(sockfd)
  /\ queue' = <<>>
  /\ UNCHANGED <<globals, spc, target, app, failures>>

\* Mutant of CloseConnection: connfd is left open.
CloseConnectionNot ==
  /\ ReadThread("close_conn", "clear")
  /\ UNCHANGED <<fd, queue, globals, spc, target, app, failures>>

\* ... then the connection the send thread uses, ...
CloseConnection ==
  /\ ReadThread("close_conn", "clear")
  /\ Close(connfd)
  /\ UNCHANGED <<queue, globals, spc, target, app, failures>>

\* ... and only now connected; startServer follows.
ClearConnected ==
  /\ ReadThread("clear", "socket")
  /\ connected' = FALSE
  /\ UNCHANGED <<fd, queue, sockfd, connfd, connfd2, spc, target, app, failures>>

CloseMessage ==
  /\ ReadThread("close_msg", "loop")
  /\ Close(connfd2)
  /\ UNCHANGED <<queue, globals, spc, target, app, failures>>

Reading ==
  \/ Listen \/ AcceptSend \/ TestConnected \/ AcceptMessage \/ Read
  \/ CloseListener \/ CloseConnection \/ ClearConnected \/ CloseMessage

-----------------------------------------------------------------------------
(* The send thread: serverSend and serverSendFunc.                          *)

\* The test of connected, then the load of connfd for the parameter.
SendLoop ==
  /\ \/ spc = "loop" /\ connected /\ spc' = "call" /\ UNCHANGED target
     \/ spc = "call" /\ spc' = "getchar" /\ target' = connfd
  /\ UNCHANGED <<fd, queue, globals, rpc, app, failures>>

Designated == IF target \in Fds THEN fd[target] ELSE Free

\* A line is typed, and write is called with the parameter of long ago.  On
\* what is no open descriptor it fails.  The first write after the app closed
\* its end is lost, a later one, or one to a listening socket, raises SIGPIPE,
\* which nothing handles.
Write ==
  /\ spc = "getchar"
  /\ \/ /\ Designated /= Listener
        /\ spc' = "loop"
        /\ fd' = IF Designated /= Free /\ Gone(Designated)
                 THEN [fd EXCEPT ![target].reset = TRUE] ELSE fd
        /\ UNCHANGED rpc
     \/ /\ Designated /= Free
        /\ Designated /= Listener => Gone(Designated) /\ Designated.reset
        /\ spc' = "exited" /\ rpc' = "exited"
        /\ UNCHANGED fd
  /\ UNCHANGED <<queue, globals, target, app, failures>>

-----------------------------------------------------------------------------
(* The app.                                                                 *)

Connect(run, body) ==
  /\ Listener \in {fd[f] : f \in Fds} /\ Len(queue) < Backlog /\ rpc /= "exited"
  /\ queue' = Append(queue, [session |-> run, body |-> body,
                             by |-> "queue", reset |-> FALSE])
  /\ UNCHANGED <<atListen, fd, globals, rpc, spc, target, failures>>

\* It opens the connection on which it listens to the server.
StartApp ==
  /\ ~running /\ session < MaxSessions
  /\ session' = session + 1 /\ running' = TRUE
  /\ Connect(session', "NOTHING")

\* It sends a message over a connection of its own; the last one is EXIT.
SendMessage ==
  /\ running
  /\ \/ Connect(session, "TEXT") /\ UNCHANGED running
     \/ (Connect(session, "EXIT") \/ Connect(session, "SPLIT")) /\ running' = FALSE
  /\ UNCHANGED session

\* It goes away without a word.
StopApp ==
  /\ running /\ running' = FALSE
  /\ UNCHANGED <<session, atListen, fd, queue, globals, rpc, spc, target, failures>>

-----------------------------------------------------------------------------
\* runServer; globals are zero, which is a descriptor the server never opens.
Init ==
  /\ fd = [f \in Fds |-> Free] /\ queue = <<>>
  /\ sockfd = 0 /\ connfd = 0 /\ connfd2 = 0 /\ connected = FALSE
  /\ rpc = "socket" /\ spc = "not started" /\ target = 0
  /\ session = 0 /\ running = FALSE /\ atListen = 0 /\ failures = 0

Next == Reading \/ SendLoop \/ Write \/ StartApp \/ SendMessage \/ StopApp

Spec == Init /\ [][Next]_vars

\* The threads run, and no app stays for ever.  Nobody has to type a line, to
\* start the app or to send a message.
FairSpec == Spec /\ WF_vars(Reading) /\ WF_vars(SendLoop) /\ WF_vars(StopApp)

-----------------------------------------------------------------------------
(* Properties.                                                              *)

RPcs == {"socket", "accept_send", "loop", "accept_msg", "read", "close_sock",
         "close_conn", "clear", "close_msg", "exited"}

Numbers == Fds \cup {0, NoFd}

\* Every variable has its type; both threads run once startServer returned.
TypeOK ==
  /\ fd \in [Fds -> Connection \cup {Free, Listener}]
  /\ queue \in Seq(Connection) /\ Len(queue) <= Backlog
  /\ sockfd \in Numbers /\ connfd \in Numbers /\ connfd2 \in Numbers
  /\ connected \in BOOLEAN
  /\ rpc \in RPcs /\ spc \in {"not started", "loop", "call", "getchar", "exited"}
  /\ spc = "not started" => rpc \in {"socket", "accept_send"}
  /\ target \in Numbers
  /\ session \in 0 .. MaxSessions /\ running \in BOOLEAN
  /\ atListen \in 0 .. MaxSessions
  /\ failures \in 0 .. MaxFailures

\* Over any number of reconnects and failed calls no descriptor is lost, and
\* every close of the read thread closes what it was meant for, although the
\* kernel hands out the same numbers again while the message that said EXIT is
\* still open.
ClosesWhatItOpened ==
  rpc /= "exited" =>
    /\ \A f \in Fds :
         /\ fd[f] = Listener => f = sockfd
         /\ fd[f].by = "startServer" => f = connfd
         /\ fd[f].by = "serverRead" => f = connfd2
    /\ rpc = "close_sock" => fd[sockfd] = Listener
    /\ rpc = "close_conn" /\ connfd /= NoFd => fd[connfd].by = "startServer"
    /\ rpc = "close_msg" /\ connfd2 /= NoFd => fd[connfd2].by = "serverRead"

\* The app opened this connection to listen on, or it was running already when
\* the server listened again: then close(sockfd) dropped the one it listens on.
OwnLine(c) == c.body = "NOTHING" \/ c.session <= atListen

\* A line typed at the server, however long ago serverSendFunc was given its
\* descriptor and whatever the read thread closed and opened since, is lost or
\* goes to a connection startServer accepted: not to the listening socket, nor to
\* one serverRead reads.  An app that was started since the server listens gets
\* it on the connection on which it listens; of one that is older, the first
\* message may be taken for that connection.  (When a call failed, less is true.)
LinesGoToTheApp ==
  (spc = "getchar" /\ failures = 0) =>
    \/ Designated.by = "free"
    \/ Designated.by = "startServer" /\ OwnLine(Designated)

\* "Match it, and close all connects and restart server": an EXIT that reaches
\* the queue of a serving server in one piece restarts it, behind whatever
\* other messages and silent connections of other apps.
ExitRestarts ==
  (/\ rpc \in {"loop", "accept_msg", "read", "close_msg"}
   /\ \E i \in DOMAIN queue : queue[i].body = "EXIT")
    ~> rpc \in {"socket", "exited"}
=============================================================================
