------------------------ MODULE AndroidServerProofs ------------------------
(***************************************************************************)
(* The android server's descriptors for any number of them, any backlog    *)
(* and any number of runs of the app and of failing calls.                 *)
(***************************************************************************)
EXTENDS AndroidServer, LeastNumber

-----------------------------------------------------------------------------
(* The inductive invariant.                                                 *)

\* Where startServer's listening socket is open, and where it is not.
Listening == {"accept_send", "loop", "accept_msg", "read", "close_msg", "close_sock"}
NotListening == {"socket", "close_conn", "clear"}

\* Where connfd is the connection of the send thread, if accept gave one.
Connected == {"loop", "accept_msg", "read", "close_msg", "close_sock", "close_conn"}
NotConnected == {"socket", "accept_send", "clear"}

\* Where serverRead has accepted a message, and where it holds one: the one
\* that said EXIT stays open until startServer has returned.
Accepted == {"read", "close_msg"}
Exiting == {"close_sock", "close_conn", "clear"}
Restarting == {"socket", "accept_send"}

\* A connection was begun by an app that runs or has run.
RunsCount == running => session >= 1

\* What is open is what the globals name, and nothing else.
Named ==
  \A f \in Fds :
    /\ fd[f] = Listener => f = sockfd
    /\ fd[f].by = "startServer" => f = connfd
    /\ fd[f].by = "serverRead" => f = connfd2
    /\ fd[f].by /= "queue"

ListenerOpen ==
  /\ rpc \in Listening => sockfd \in Fds /\ fd[sockfd] = Listener
  /\ rpc \in NotListening => \A f \in Fds : fd[f] /= Listener

SenderOpen ==
  /\ rpc \in Connected => connfd = NoFd \/ (connfd \in Fds /\ fd[connfd].by = "startServer")
  /\ rpc \in NotConnected => \A f \in Fds : fd[f].by /= "startServer"

\* Before the threads are started no message was accepted.
MessageOpen ==
  LET open == connfd2 \in Fds /\ fd[connfd2].by = "serverRead"
      none == \A f \in Fds : fd[f].by /= "serverRead"
  IN  /\ rpc \in Accepted => connfd2 = NoFd \/ open
      /\ rpc \in Exiting => open
      /\ rpc \in Restarting => IF spc = "not started" THEN none ELSE open
      /\ rpc \in {"loop", "accept_msg"} => none

Opened == Named /\ ListenerOpen /\ SenderOpen /\ MessageOpen

\* As long as no call fails the kernel gives the three sockets the same three
\* numbers in every run of startServer; target is then the one of connfd.
SameNumbers ==
  failures = 0 =>
    sockfd \in {0, 1} /\ connfd \in {0, 2} /\ connfd2 \in {0, 3} /\ target \in {0, 2}

\* What startServer finds in front of its queue, if anything, is the connection
\* on which an app started since listens, unless it is of an older app; and so is
\* what it has accepted.
OwnFirst ==
  /\ rpc = "accept_send" =>
       IF queue = <<>> THEN session <= atListen ELSE OwnLine(Head(queue))
  /\ \A f \in Fds : fd[f].by = "startServer" => OwnLine(fd[f])

\* exit and SIGPIPE end both threads.
ExitTogether == rpc = "exited" => spc = "exited"

IInv ==
  TypeOK /\ RunsCount /\ ExitTogether /\ (rpc /= "exited" => Opened /\ SameNumbers /\ OwnFirst)

-----------------------------------------------------------------------------
(* The kernel's choice of a descriptor.                                     *)

\* Of some free numbers one is the lowest.
LEMMA LowestIsLeast ==
  ASSUME NEW fds \in SUBSET Nat, fds /= {}
  PROVE  Lowest(fds) \in fds /\ \A g \in fds : Lowest(fds) <= g
  BY LeastNumber DEF Lowest

\* There are at least three numbers.
LEMMA FdsType == Fds \in SUBSET Nat /\ {1, 2, 3} \subseteq Fds /\ NoFd \notin Fds /\ 0 \notin Fds
  BY FdAssumption DEF Fds, NoFd

\* The number given out is the lowest of the free ones.
LEMMA LowestFree ==
  ASSUME FreeFds /= {}
  PROVE  Lowest(FreeFds) \in FreeFds /\ \A g \in FreeFds : Lowest(FreeFds) <= g
<1>1. FreeFds \in SUBSET Nat
  BY FdsType DEF FreeFds
<1>2. QED BY <1>1, LowestIsLeast

Kinds == Connection \cup {Free, Listener}

\* A descriptor is free, a listener or a connection, and which is told by "by".
LEMMA KindsDiffer ==
  /\ Free.by = "free" /\ Listener.by = "listener"
  /\ Free /= Listener /\ Free \notin Connection /\ Listener \notin Connection
  /\ \A c \in Connection : c.by \in {"queue", "startServer", "serverRead"}
  BY DEF Free, Listener, Connection

\* accept takes a connection from the queue to the lowest free number and
\* changes no other, or fails and changes nothing.
LEMMA AcceptEither ==
  ASSUME TypeOK, NEW by \in {"queue", "startServer", "serverRead"}, NEW result, Accept(by, result)
  PROVE  \/ /\ result = Lowest(FreeFds) /\ result \in FreeFds
            /\ fd' \in [Fds -> Kinds] /\ fd'[result].by = by /\ fd'[result] /= Listener
            /\ queue /= <<>> /\ fd'[result].session = Head(queue).session
            /\ fd'[result].body = Head(queue).body
            /\ \A g \in Fds \ {result} : fd'[g] = fd[g]
            /\ queue' \in Seq(Connection) /\ Len(queue') <= Backlog
            /\ failures' = failures
         \/ /\ result = NoFd
            /\ UNCHANGED <<fd, queue>>
            /\ failures' = failures + 1 /\ failures < MaxFailures
<1>1. CASE Fails /\ result = NoFd /\ UNCHANGED <<fd, queue>>
  BY <1>1 DEF Fails
<1>2. ASSUME queue /= <<>>, FreeFds /= {}, result = Lowest(FreeFds),
             fd' = [fd EXCEPT ![result] = [Head(queue) EXCEPT !.by = by]],
             queue' = Tail(queue), failures' = failures
      PROVE  /\ result = Lowest(FreeFds) /\ result \in FreeFds
             /\ fd' \in [Fds -> Kinds] /\ fd'[result].by = by /\ fd'[result] /= Listener
             /\ queue /= <<>> /\ fd'[result].session = Head(queue).session
             /\ fd'[result].body = Head(queue).body
             /\ \A g \in Fds \ {result} : fd'[g] = fd[g]
             /\ queue' \in Seq(Connection) /\ Len(queue') <= Backlog
             /\ failures' = failures
  <2> DEFINE c == [Head(queue) EXCEPT !.by = by]
  <2>1. result \in FreeFds /\ result \in Fds
    BY <1>2, LowestFree DEF FreeFds
  <2>0. queue \in Seq(Connection) /\ Len(queue) <= Backlog /\ Backlog \in Nat
    BY BoundsAssumption DEF TypeOK
  <2>2. Head(queue) \in Connection
    BY <1>2, <2>0
  <2>3. /\ c \in Connection /\ c.by = by
        /\ c.session = Head(queue).session /\ c.body = Head(queue).body
    BY <2>2 DEF Connection
  <2>4. c /= Listener
    BY <2>3, KindsDiffer
  <2>5. fd' \in [Fds -> Kinds] /\ fd'[result] = c /\ \A g \in Fds \ {result} : fd'[g] = fd[g]
    <3> HIDE DEF c
    <3>1. fd' = [fd EXCEPT ![result] = c] /\ fd \in [Fds -> Kinds]
      BY <1>2 DEF c, TypeOK, Kinds
    <3>2. c \in Kinds
      BY <2>3 DEF Kinds
    <3>3. QED BY <2>1, <3>1, <3>2
  <2>6. queue' \in Seq(Connection) /\ Len(queue') <= Backlog
    BY <1>2, <2>0
  <2>7. QED BY <1>2, <2>1, <2>3, <2>4, <2>5, <2>6
<1>3. QED BY <1>1, <1>2 DEF Accept

\* close frees one number at most.
LEMMA CloseFrees ==
  ASSUME TypeOK, NEW f, Close(f)
  PROVE  /\ fd' \in [Fds -> Kinds]
         /\ \A g \in Fds : IF g = f THEN fd'[g] = Free ELSE fd'[g] = fd[g]
  BY DEF Close, TypeOK, Kinds

\* An app that connects joins the queue.
LEMMA ConnectType ==
  ASSUME TypeOK, NEW run \in 1 .. MaxSessions, NEW body \in Bodies, Connect(run, body)
  PROVE  queue' \in Seq(Connection) /\ Len(queue') <= Backlog
<1> DEFINE c == [session |-> run, body |-> body, by |-> "queue", reset |-> FALSE]
<1>1. c \in Connection
  BY DEF Connection
<1>2. queue' = Append(queue, c) /\ Len(queue) < Backlog
  BY DEF Connect
<1>3. queue \in Seq(Connection) /\ Backlog \in Nat
  BY BoundsAssumption DEF TypeOK
<1>4. QED
  <2> HIDE DEF c
  <2>1. QED BY <1>1, <1>2, <1>3

\* What a write marks stays the same connection.
LEMMA WriteMarks ==
  ASSUME TypeOK, Write
  PROVE  /\ fd' \in [Fds -> Kinds]
         /\ \A g \in Fds : fd'[g].by = fd[g].by /\ (fd'[g] = Listener <=> fd[g] = Listener)
         /\ \A g \in Fds : fd'[g].session = fd[g].session /\ fd'[g].body = fd[g].body
<1>0. fd \in [Fds -> Kinds]
  BY DEF TypeOK, Kinds
<1>1. CASE UNCHANGED fd
  BY <1>0, <1>1
<1>2. ASSUME target \in Fds, fd[target] /= Free, fd[target] /= Listener,
             fd' = [fd EXCEPT ![target].reset = TRUE]
      PROVE  /\ fd' \in [Fds -> Kinds]
             /\ \A g \in Fds : fd'[g].by = fd[g].by /\ (fd'[g] = Listener <=> fd[g] = Listener)
             /\ \A g \in Fds : fd'[g].session = fd[g].session /\ fd'[g].body = fd[g].body
  <2> DEFINE c == [fd[target] EXCEPT !.reset = TRUE]
  <2>1. fd[target] \in Connection
    BY <1>0, <1>2 DEF Kinds
  <2>2. /\ c \in Connection /\ c.by = fd[target].by
        /\ c.session = fd[target].session /\ c.body = fd[target].body
    BY <2>1 DEF Connection
  <2>3. fd' = [fd EXCEPT ![target] = c]
    BY <1>2
  <2>4. c /= Listener /\ c \in Kinds
    BY <2>2, KindsDiffer DEF Kinds
  <2>5. QED
    <3> HIDE DEF c
    <3>1. QED BY <1>0, <1>2, <2>2, <2>3, <2>4
<1>3. QED BY <1>1, <1>2 DEF Write, Designated

-----------------------------------------------------------------------------
(* Types.                                                                   *)

\* What is neither the listener nor a connection is free.
LEMMA OthersAreFree ==
  ASSUME TypeOK, NEW f \in Fds, fd[f] /= Listener,
         fd[f].by \notin {"queue", "startServer", "serverRead"}
  PROVE  f \in FreeFds
  BY KindsDiffer DEF TypeOK, FreeFds

\* startServer finds a number for its socket: at most a message is open.
LEMMA ListenFindsFd ==
  ASSUME TypeOK, Opened, rpc = "socket", NEW f \in Fds, f /= connfd2
  PROVE  f \in FreeFds
<1>1. fd[f] /= Listener /\ fd[f].by \notin {"queue", "startServer", "serverRead"}
  BY DEF Opened, Named, ListenerOpen, SenderOpen, NotListening, NotConnected
<1>2. QED BY <1>1, OthersAreFree

\* So there is one.
LEMMA ListenHasFd ==
  ASSUME TypeOK, Opened, rpc = "socket"
  PROVE  FreeFds /= {}
<1>1. CASE connfd2 = 1
  <2>1. 2 \in Fds /\ 2 /= connfd2
    BY <1>1, FdsType
  <2>2. QED BY <2>1, ListenFindsFd
<1>2. CASE connfd2 /= 1
  BY <1>2, FdsType, ListenFindsFd
<1>3. QED BY <1>1, <1>2

\* The counters are numbers.
LEMMA CountersType ==
  ASSUME TypeOK
  PROVE  /\ failures \in Nat /\ failures <= MaxFailures
         /\ session \in Nat /\ session <= MaxSessions
         /\ MaxFailures \in Nat /\ MaxSessions \in Nat /\ Backlog \in Nat
<1>1. session \in 0 .. MaxSessions /\ failures \in 0 .. MaxFailures
  BY DEF TypeOK
<1>2. QED BY <1>1, BoundsAssumption

\* The app's runs are counted from one.
LEMMA RunsStep ==
  ASSUME TypeOK, RunsCount, [Next]_vars
  PROVE  RunsCount'
<1>0. session \in Nat
  BY CountersType
<1>1. CASE StartApp
  BY <1>0, <1>1 DEF StartApp, RunsCount
<1>2. CASE SendMessage \/ StopApp
  BY <1>0, <1>2 DEF SendMessage, StopApp, RunsCount
<1>3. CASE UNCHANGED <<session, running>>
  BY <1>3 DEF RunsCount
<1>4. CASE Reading \/ SendLoop \/ Write \/ UNCHANGED vars
  BY <1>3, <1>4 DEF Reading, Listen, AcceptSend, TestConnected, AcceptMessage, Read,
     CloseListener, CloseConnection, ClearConnected, CloseMessage, SendLoop, Write, vars, app
<1>5. QED BY <1>1, <1>2, <1>4 DEF Next

\* Every action keeps the types.
LEMMA TypeStep ==
  ASSUME TypeOK, RunsCount, rpc /= "exited" => Opened, [Next]_vars
  PROVE  TypeOK'
<1>0. /\ fd \in [Fds -> Kinds]
      /\ TypeOK' <=>
           /\ fd' \in [Fds -> Kinds]
           /\ queue' \in Seq(Connection) /\ Len(queue') <= Backlog
           /\ sockfd' \in Numbers /\ connfd' \in Numbers /\ connfd2' \in Numbers
           /\ connected' \in BOOLEAN
           /\ rpc' \in RPcs /\ spc' \in {"not started", "loop", "call", "getchar", "exited"}
           /\ spc' = "not started" => rpc' \in {"socket", "accept_send"}
           /\ target' \in Numbers
           /\ session' \in 0 .. MaxSessions /\ running' \in BOOLEAN
           /\ atListen' \in 0 .. MaxSessions
           /\ failures' \in 0 .. MaxFailures
  BY DEF TypeOK, Kinds
<1>b. /\ queue \in Seq(Connection) /\ Len(queue) <= Backlog
      /\ sockfd \in Numbers /\ connfd \in Numbers /\ connfd2 \in Numbers
      /\ connected \in BOOLEAN
      /\ rpc \in RPcs /\ spc \in {"not started", "loop", "call", "getchar", "exited"}
      /\ spc = "not started" => rpc \in {"socket", "accept_send"}
      /\ target \in Numbers
      /\ session \in 0 .. MaxSessions /\ running \in BOOLEAN
      /\ atListen \in 0 .. MaxSessions
      /\ failures \in 0 .. MaxFailures
  BY DEF TypeOK
<1>1. /\ failures \in Nat /\ failures <= MaxFailures
      /\ session \in Nat /\ session <= MaxSessions
      /\ MaxFailures \in Nat /\ MaxSessions \in Nat /\ Backlog \in Nat
  BY CountersType
<1>2. queue' = <<>> => queue' \in Seq(Connection) /\ Len(queue') <= Backlog
  BY <1>1
<1>3. CASE Listen
  <2>1. CASE ReadThread("socket", "exited") /\ Fails /\ spc' = "exited" /\ UNCHANGED <<fd, sockfd>>
    <3>1. failures' \in 0 .. MaxFailures
      BY <1>1, <2>1 DEF Fails
    <3>2. QED BY <1>0, <1>b, <1>2, <1>3, <2>1, <3>1 DEF Listen, ReadThread, RPcs, app
  <2>2. CASE /\ ReadThread("socket", "accept_send")
             /\ sockfd' = Lowest(FreeFds)
             /\ fd' = [fd EXCEPT ![sockfd'] = Listener]
             /\ UNCHANGED <<spc, failures>>
    <3>1. FreeFds /= {}
      BY <2>2, ListenHasFd DEF ReadThread
    <3>2. sockfd' \in Fds
      BY <2>2, <3>1, LowestFree DEF FreeFds
    <3>3. fd' \in [Fds -> Kinds] /\ sockfd' \in Numbers
      BY <1>0, <1>b, <2>2, <3>2 DEF Kinds, Numbers
    <3>4. QED BY <1>0, <1>b, <1>1, <1>2, <1>3, <2>2, <3>3 DEF Listen, ReadThread, RPcs, app
  <2>3. QED BY <1>3, <2>1, <2>2 DEF Listen
<1>4. ASSUME NEW by \in {"queue", "startServer", "serverRead"}, NEW result, Accept(by, result)
      PROVE  /\ fd' \in [Fds -> Kinds] /\ result \in Numbers
             /\ queue' \in Seq(Connection) /\ Len(queue') <= Backlog
             /\ failures' \in 0 .. MaxFailures
  <2>1. CASE result = NoFd /\ UNCHANGED <<fd, queue>> /\ failures' = failures + 1 /\ failures < MaxFailures
    <3>1. failures' \in 0 .. MaxFailures
      BY <1>1, <2>1
    <3>2. QED BY <1>0, <1>b, <2>1, <3>1 DEF Numbers
  <2>2. CASE /\ result \in FreeFds /\ fd' \in [Fds -> Kinds]
             /\ queue' \in Seq(Connection) /\ Len(queue') <= Backlog
             /\ failures' = failures
    BY <1>b, <2>2 DEF Numbers, FreeFds
  <2>3. QED BY <1>4, <2>1, <2>2, AcceptEither
<1>5. CASE AcceptSend
  BY <1>0, <1>b, <1>4, <1>5 DEF AcceptSend, RPcs, app
<1>6. CASE AcceptMessage
  BY <1>0, <1>b, <1>4, <1>6 DEF AcceptMessage, ReadThread, RPcs, app
<1>7. CASE TestConnected \/ Read \/ ClearConnected
  BY <1>0, <1>b, <1>7 DEF TestConnected, Read, ClearConnected, ReadThread, globals, RPcs, app
<1>8. CASE CloseListener
  BY <1>0, <1>b, <1>1, <1>2, <1>8, CloseFrees DEF CloseListener, ReadThread, globals, RPcs, app
<1>9. CASE CloseConnection
  BY <1>0, <1>b, <1>9, CloseFrees DEF CloseConnection, ReadThread, globals, RPcs, app
<1>10. CASE CloseMessage
  BY <1>0, <1>b, <1>10, CloseFrees DEF CloseMessage, ReadThread, globals, RPcs, app
<1>11. CASE SendLoop
  BY <1>0, <1>b, <1>11 DEF SendLoop, globals, app
<1>12. CASE Write
  BY <1>0, <1>b, <1>12, WriteMarks DEF Write, globals, app, RPcs
<1>13. CASE StartApp
  <2>1. session' \in 1 .. MaxSessions
    BY <1>1, <1>13 DEF StartApp
  <2>2. queue' \in Seq(Connection) /\ Len(queue') <= Backlog
    BY <1>13, <2>1, ConnectType DEF StartApp, Bodies
  <2>3. UNCHANGED <<fd, globals, rpc, spc, target, failures, atListen>> /\ running' \in BOOLEAN
    BY <1>13 DEF StartApp, Connect
  <2>4. session' \in 0 .. MaxSessions
    BY <1>1, <2>1
  <2>5. QED BY <1>0, <1>b, <2>2, <2>3, <2>4 DEF globals
<1>14. CASE SendMessage
  <2>0. session >= 1
    BY <1>14 DEF SendMessage, RunsCount
  <2>1. session \in 1 .. MaxSessions /\ {"TEXT", "EXIT", "SPLIT"} \subseteq Bodies
    BY <1>1, <2>0 DEF Bodies
  <2>2. queue' \in Seq(Connection) /\ Len(queue') <= Backlog
    BY <1>14, <2>1, ConnectType DEF SendMessage
  <2>3. QED BY <1>0, <1>b, <1>14, <2>2 DEF SendMessage, Connect, globals
<1>15. CASE StopApp
  BY <1>0, <1>b, <1>15 DEF StopApp, globals
<1>16. CASE UNCHANGED vars
  BY <1>0, <1>b, <1>16 DEF vars, globals, app
<1>17. QED
  BY <1>3, <1>5, <1>6, <1>7, <1>8, <1>9, <1>10, <1>11, <1>12, <1>13, <1>14, <1>15, <1>16
     DEF Next, Reading

-----------------------------------------------------------------------------
(* What is open.                                                            *)

\* Every system call keeps the account of what is open, whichever thread makes
\* it and whichever calls fail.
LEMMA OpenedStep ==
  ASSUME TypeOK, Opened, rpc /= "exited", rpc' /= "exited", [Next]_vars
  PROVE  Opened'
<1> USE DEF Opened, Named, ListenerOpen, SenderOpen, MessageOpen, Listening, NotListening,
        Connected, NotConnected, Accepted, Exiting, Restarting
<1>0. /\ spc = "not started" => rpc \in {"socket", "accept_send"}
      /\ Free.by = "free" /\ Listener.by = "listener" /\ Free /= Listener
      /\ NoFd \notin Fds
      /\ fd \in [Fds -> Kinds]
  BY KindsDiffer, FdsType DEF TypeOK, Kinds
<1>1. CASE Listen
  <2>0. /\ ReadThread("socket", "accept_send")
        /\ sockfd' = Lowest(FreeFds)
        /\ fd' = [fd EXCEPT ![sockfd'] = Listener]
        /\ UNCHANGED <<connfd, connfd2, spc>>
    BY <1>1 DEF Listen, ReadThread
  <2>1. sockfd' \in Fds /\ fd[sockfd'] = Free
    BY <2>0, ListenHasFd, LowestFree DEF ReadThread, FreeFds
  <2>2. /\ fd'[sockfd'] = Listener
        /\ \A g \in Fds \ {sockfd'} : fd'[g] = fd[g]
    BY <1>0, <2>0, <2>1
  <2>3. rpc = "socket" /\ rpc' = "accept_send"
    BY <2>0 DEF ReadThread
  <2>4. QED BY <1>0, <2>0, <2>1, <2>2, <2>3
<1>2. CASE AcceptSend
  <2>0. /\ rpc = "accept_send" /\ Accept("startServer", connfd')
        /\ UNCHANGED <<sockfd, connfd2>>
        /\ \/ spc = "not started" /\ rpc' = "loop"
           \/ spc /= "not started" /\ rpc' = "close_msg"
    BY <1>2 DEF AcceptSend
  <2>1. CASE connfd' = NoFd /\ UNCHANGED fd
    BY <1>0, <2>0, <2>1
  <2>2. CASE /\ connfd' \in FreeFds /\ fd'[connfd'].by = "startServer" /\ fd'[connfd'] /= Listener
             /\ \A g \in Fds \ {connfd'} : fd'[g] = fd[g]
    BY <1>0, <2>0, <2>2 DEF FreeFds
  <2>3. QED BY <2>0, <2>1, <2>2, AcceptEither
<1>3. CASE AcceptMessage
  <2>0. /\ rpc = "accept_msg" /\ rpc' = "read" /\ Accept("serverRead", connfd2')
        /\ UNCHANGED <<sockfd, connfd, spc>>
    BY <1>3 DEF AcceptMessage, ReadThread
  <2>1. CASE connfd2' = NoFd /\ UNCHANGED fd
    BY <1>0, <2>0, <2>1
  <2>2. CASE /\ connfd2' \in FreeFds /\ fd'[connfd2'].by = "serverRead" /\ fd'[connfd2'] /= Listener
             /\ \A g \in Fds \ {connfd2'} : fd'[g] = fd[g]
    BY <1>0, <2>0, <2>2 DEF FreeFds
  <2>3. QED BY <2>0, <2>1, <2>2, AcceptEither
<1>4. CASE CloseListener
  <2>0. /\ rpc = "close_sock" /\ rpc' = "close_conn" /\ UNCHANGED <<sockfd, connfd, connfd2, spc>>
        /\ \A g \in Fds : IF g = sockfd THEN fd'[g] = Free ELSE fd'[g] = fd[g]
    BY <1>4, CloseFrees DEF CloseListener, ReadThread, globals
  <2>1. QED BY <1>0, <2>0
<1>5. CASE CloseConnection
  <2>0. /\ rpc = "close_conn" /\ rpc' = "clear" /\ UNCHANGED <<sockfd, connfd, connfd2, spc>>
        /\ \A g \in Fds : IF g = connfd THEN fd'[g] = Free ELSE fd'[g] = fd[g]
    BY <1>5, CloseFrees DEF CloseConnection, ReadThread, globals
  <2>1. QED BY <1>0, <2>0
<1>6. CASE CloseMessage
  <2>0. /\ rpc = "close_msg" /\ rpc' = "loop" /\ UNCHANGED <<sockfd, connfd, connfd2, spc>>
        /\ \A g \in Fds : IF g = connfd2 THEN fd'[g] = Free ELSE fd'[g] = fd[g]
    BY <1>6, CloseFrees DEF CloseMessage, ReadThread, globals
  <2>1. QED BY <1>0, <2>0
<1>7. CASE TestConnected
  BY <1>0, <1>7 DEF TestConnected, ReadThread, globals
<1>8. CASE Read
  BY <1>0, <1>8 DEF Read, ReadThread, globals
<1>9. CASE ClearConnected
  BY <1>0, <1>9 DEF ClearConnected, ReadThread
<1>10. CASE SendLoop
  BY <1>0, <1>10 DEF SendLoop, globals
<1>11. CASE Write
  <2>1. UNCHANGED <<rpc, sockfd, connfd, connfd2>> /\ spc = "getchar" /\ spc' = "loop"
    BY <1>11 DEF Write, globals
  <2>2. QED BY <1>0, <1>11, <2>1, WriteMarks
<1>12. CASE StartApp \/ SendMessage \/ StopApp \/ UNCHANGED vars
  <2>1. UNCHANGED <<fd, rpc, spc, sockfd, connfd, connfd2>>
    BY <1>12 DEF StartApp, SendMessage, StopApp, Connect, vars, globals
  <2>2. QED BY <2>1
<1>13. QED
  BY <1>1, <1>2, <1>3, <1>4, <1>5, <1>6, <1>7, <1>8, <1>9, <1>10, <1>11, <1>12
     DEF Next, Reading

-----------------------------------------------------------------------------
(* Which numbers.                                                           *)

\* What startServer and serverRead get from the kernel, as long as no call
\* failed: 1 for the listening socket, 2 for the connection of the send thread
\* and 3 for a message, also when the message that said EXIT is still open.
LEMMA SameLowest ==
  ASSUME TypeOK, Opened, SameNumbers, failures = 0
  PROVE  /\ rpc = "socket" => FreeFds /= {} /\ Lowest(FreeFds) = 1
         /\ rpc = "accept_send" /\ FreeFds /= {} => Lowest(FreeFds) = 2
         /\ rpc = "accept_msg" /\ FreeFds /= {} => Lowest(FreeFds) = 3
<1>0. /\ Free.by = "free" /\ Listener.by = "listener" /\ Free /= Listener
      /\ \A f \in FreeFds : f \in Nat \ {0} /\ fd[f] = Free
      /\ {1, 2, 3} \subseteq Fds
  BY KindsDiffer, FdsType DEF FreeFds
<1>1. sockfd \in {0, 1} /\ connfd \in {0, 2} /\ connfd2 \in {0, 3}
  BY DEF SameNumbers
<1>2. ASSUME NEW n \in {1, 2, 3}, n \in FreeFds, \A m \in {1, 2, 3} : m < n => m \notin FreeFds
      PROVE  Lowest(FreeFds) = n
  <2>1. Lowest(FreeFds) \in FreeFds /\ Lowest(FreeFds) <= n
    BY <1>2, LowestFree
  <2>2. Lowest(FreeFds) \in Nat \ {0}
    BY <1>0, <2>1
  <2>3. Lowest(FreeFds) \in {1, 2, 3}
    BY <2>1, <2>2
  <2>4. ~ (Lowest(FreeFds) < n)
    BY <1>2, <2>1, <2>3
  <2>5. QED BY <2>1, <2>2, <2>4
<1>3. CASE rpc = "socket"
  <2>1. 1 /= connfd2
    BY <1>1
  <2>2. 1 \in FreeFds
    BY <1>0, <1>3, <2>1, ListenFindsFd
  <2>3. QED BY <1>2, <1>3, <2>2
<1>4. CASE rpc = "accept_send"
  <2>1. sockfd \in Fds /\ fd[sockfd] = Listener
    BY <1>4 DEF Opened, ListenerOpen, Listening
  <2>2. sockfd = 1
    BY <1>1, <2>1, FdsType
  <2>3. 1 \notin FreeFds
    BY <1>0, <2>1, <2>2
  <2>4. 2 \in FreeFds
    <3>1. 2 /= sockfd /\ 2 /= connfd2
      BY <1>1
    <3>2. fd[2] /= Listener /\ fd[2].by \notin {"queue", "startServer", "serverRead"}
      BY <1>0, <1>4, <3>1 DEF Opened, Named, SenderOpen, NotConnected
    <3>3. QED BY <1>0, <3>2, OthersAreFree
  <2>5. QED BY <1>2, <1>4, <2>3, <2>4
<1>5. CASE rpc = "accept_msg"
  <2>1. sockfd \in Fds /\ fd[sockfd] = Listener
    BY <1>5 DEF Opened, ListenerOpen, Listening
  <2>2. connfd \in Fds /\ fd[connfd].by = "startServer"
    <3>1. connfd /= NoFd
      BY <1>1 DEF NoFd
    <3>2. QED BY <1>5, <3>1 DEF Opened, SenderOpen, Connected
  <2>3. sockfd = 1 /\ connfd = 2
    BY <1>1, <2>1, <2>2, FdsType
  <2>4. 1 \notin FreeFds /\ 2 \notin FreeFds
    BY <1>0, <2>1, <2>2, <2>3
  <2>5. 3 \in FreeFds
    <3>1. 3 /= sockfd /\ 3 /= connfd
      BY <1>1
    <3>2. fd[3] /= Listener /\ fd[3].by \notin {"queue", "startServer", "serverRead"}
      BY <1>0, <1>5, <3>1 DEF Opened, Named, MessageOpen
    <3>3. QED BY <1>0, <3>2, OthersAreFree
  <2>6. QED BY <1>2, <1>5, <2>4, <2>5
<1>6. QED BY <1>3, <1>4, <1>5

\* So the globals, and what the send thread took from them, keep their numbers.
LEMMA NumbersStep ==
  ASSUME TypeOK, Opened, SameNumbers, rpc /= "exited", rpc' /= "exited", [Next]_vars
  PROVE  SameNumbers'
<1>1. SUFFICES ASSUME failures' = 0
               PROVE  /\ sockfd' \in {0, 1} /\ connfd' \in {0, 2}
                      /\ connfd2' \in {0, 3} /\ target' \in {0, 2}
  BY DEF SameNumbers
<1>2. failures' = failures + 1 \/ failures' = failures
  <2>1. ASSUME NEW by \in {"queue", "startServer", "serverRead"}, NEW result, Accept(by, result)
        PROVE  failures' = failures + 1 \/ failures' = failures
    BY <2>1, AcceptEither
  <2>2. QED
    BY <2>1 DEF Next, Reading, Listen, AcceptSend, TestConnected, AcceptMessage, Read,
       CloseListener, CloseConnection, ClearConnected, CloseMessage, SendLoop, Write,
       StartApp, SendMessage, StopApp, Connect, Fails, vars
<1>3. failures = 0
  BY <1>1, <1>2, CountersType
<1>4. sockfd \in {0, 1} /\ connfd \in {0, 2} /\ connfd2 \in {0, 3} /\ target \in {0, 2}
  BY <1>3 DEF SameNumbers
<1>5. CASE Listen
  <2>1. rpc = "socket" /\ sockfd' = Lowest(FreeFds) /\ UNCHANGED <<connfd, connfd2, target>>
    BY <1>5 DEF Listen, ReadThread
  <2>2. QED BY <1>3, <1>4, <2>1, SameLowest
<1>6. ASSUME NEW by \in {"queue", "startServer", "serverRead"}, NEW result, Accept(by, result)
      PROVE  FreeFds /= {} /\ result = Lowest(FreeFds)
  <2>1. failures' /= failures + 1
    BY <1>1, <1>3
  <2>2. QED BY <1>6, <2>1, AcceptEither
<1>7. CASE AcceptSend
  <2>1. rpc = "accept_send" /\ UNCHANGED <<sockfd, connfd2, target>> /\ connfd' = Lowest(FreeFds) /\ FreeFds /= {}
    BY <1>6, <1>7 DEF AcceptSend
  <2>2. QED BY <1>3, <1>4, <2>1, SameLowest
<1>8. CASE AcceptMessage
  <2>1. rpc = "accept_msg" /\ UNCHANGED <<sockfd, connfd, target>> /\ connfd2' = Lowest(FreeFds) /\ FreeFds /= {}
    BY <1>6, <1>8 DEF AcceptMessage, ReadThread
  <2>2. QED BY <1>3, <1>4, <2>1, SameLowest
<1>9. CASE SendLoop
  BY <1>4, <1>9 DEF SendLoop, globals
<1>10. CASE UNCHANGED <<sockfd, connfd, connfd2, target>>
  BY <1>4, <1>10
<1>11. CASE \/ TestConnected \/ Read \/ CloseListener \/ CloseConnection \/ ClearConnected
           \/ CloseMessage \/ Write \/ StartApp \/ SendMessage \/ StopApp \/ UNCHANGED vars
  BY <1>10, <1>11 DEF TestConnected, Read, CloseListener, CloseConnection, ClearConnected,
     CloseMessage, Write, StartApp, SendMessage, StopApp, Connect, vars, globals
<1>12. QED BY <1>5, <1>7, <1>8, <1>9, <1>11 DEF Next, Reading

-----------------------------------------------------------------------------
(* Which connection the send thread gets.                                   *)

\* The first to connect after startServer listens is an app that was started
\* since, or one that was there before.
LEMMA OwnFirstStep ==
  ASSUME TypeOK, Opened, OwnFirst, rpc /= "exited", rpc' /= "exited", [Next]_vars
  PROVE  OwnFirst'
<1>0. /\ session \in Nat /\ Free.by = "free" /\ Listener.by = "listener"
      /\ fd \in [Fds -> Kinds] /\ queue \in Seq(Connection)
  BY CountersType, KindsDiffer DEF TypeOK, Kinds
<1>1. CASE Listen
  <2>0. /\ ReadThread("socket", "accept_send")
        /\ sockfd' = Lowest(FreeFds)
        /\ fd' = [fd EXCEPT ![sockfd'] = Listener]
        /\ queue' = <<>> /\ atListen' = session /\ session' = session
    BY <1>1 DEF Listen, ReadThread
  <2>1. \A f \in Fds : fd[f].by /= "startServer"
    BY <2>0 DEF ReadThread, Opened, SenderOpen, NotConnected
  <2>2. \A f \in Fds : fd'[f].by /= "startServer"
    BY <1>0, <2>0, <2>1
  <2>3. QED BY <1>0, <2>0, <2>2 DEF OwnFirst
<1>2. ASSUME NEW by \in {"startServer", "serverRead"}, NEW result, Accept(by, result),
             by = "startServer" => rpc = "accept_send", atListen' = atListen
      PROVE  \A f \in Fds :
               fd'[f].by = "startServer" => fd'[f].body = "NOTHING" \/ fd'[f].session <= atListen'
  <2>1. CASE UNCHANGED fd
    BY <1>2, <2>1 DEF OwnFirst, OwnLine
  <2>2. CASE /\ fd'[result].by = by /\ queue /= <<>>
             /\ fd'[result].session = Head(queue).session
             /\ fd'[result].body = Head(queue).body
             /\ \A g \in Fds \ {result} : fd'[g] = fd[g]
    BY <1>2, <2>2 DEF OwnFirst, OwnLine
  <2>3. QED BY <1>2, <2>1, <2>2, AcceptEither
<1>3. CASE AcceptSend
  <2>1. /\ rpc = "accept_send" /\ Accept("startServer", connfd')
        /\ atListen' = atListen /\ rpc' /= "accept_send"
    BY <1>3 DEF AcceptSend, app
  <2>2. QED BY <1>2, <2>1 DEF OwnFirst, OwnLine
<1>4. CASE AcceptMessage
  <2>1. Accept("serverRead", connfd2') /\ atListen' = atListen /\ rpc' /= "accept_send"
    BY <1>4 DEF AcceptMessage, ReadThread, app
  <2>2. QED BY <1>2, <2>1 DEF OwnFirst, OwnLine
<1>5. ASSUME NEW f, Close(f), atListen' = atListen, rpc' /= "accept_send"
      PROVE  OwnFirst'
  <2>1. \A g \in Fds : fd'[g] = Free \/ fd'[g] = fd[g]
    BY <1>5, CloseFrees
  <2>2. QED BY <1>0, <1>5, <2>1 DEF OwnFirst, OwnLine
<1>6. CASE CloseListener \/ CloseConnection \/ CloseMessage
  BY <1>5, <1>6 DEF CloseListener, CloseConnection, CloseMessage, ReadThread, app
<1>7. CASE TestConnected \/ Read \/ ClearConnected
  <2>1. UNCHANGED <<fd, queue, app>> /\ rpc' /= "accept_send"
    BY <1>7 DEF TestConnected, Read, ClearConnected, ReadThread
  <2>2. QED BY <2>1 DEF OwnFirst, OwnLine, app
<1>8. CASE SendLoop \/ StopApp \/ UNCHANGED vars
  <2>1. UNCHANGED <<fd, queue, rpc, session, atListen>>
    BY <1>8 DEF SendLoop, StopApp, app, vars
  <2>2. QED BY <2>1 DEF OwnFirst, OwnLine
<1>9. CASE Write
  <2>1. UNCHANGED <<queue, rpc, session, atListen>>
    BY <1>9 DEF Write, app
  <2>2. QED BY <1>9, <2>1, WriteMarks DEF OwnFirst, OwnLine
<1>10. ASSUME NEW run, NEW body, Connect(run, body), body = "NOTHING" \/ run = session
       PROVE  OwnFirst'
  <2> DEFINE c == [session |-> run, body |-> body, by |-> "queue", reset |-> FALSE]
  <2>1. /\ queue' = Append(queue, c) /\ UNCHANGED <<fd, rpc, atListen>>
        /\ c.body = body /\ c.session = run
    BY <1>10 DEF Connect
  <2> HIDE DEF c
  <2>2. queue' /= <<>> /\ Head(queue') = IF queue = <<>> THEN c ELSE Head(queue)
    BY <1>0, <2>1
  <2>3. QED BY <1>10, <2>1, <2>2 DEF OwnFirst, OwnLine
<1>11. CASE StartApp \/ SendMessage
  BY <1>10, <1>11 DEF StartApp, SendMessage
<1>12. QED
  BY <1>1, <1>3, <1>4, <1>6, <1>7, <1>8, <1>9, <1>11 DEF Next, Reading

-----------------------------------------------------------------------------
(* The invariant and the theorems.                                          *)

\* A process that has ended does nothing more.
LEMMA ExitStep ==
  ASSUME TypeOK, ExitTogether, [Next]_vars
  PROVE  ExitTogether' /\ (rpc = "exited" => rpc' = "exited")
<1>1. CASE Reading
  BY <1>1 DEF Reading, Listen, AcceptSend, TestConnected, AcceptMessage, Read,
     CloseListener, CloseConnection, ClearConnected, CloseMessage, ReadThread, ExitTogether
<1>2. CASE SendLoop
  BY <1>2 DEF SendLoop, ExitTogether
<1>3. CASE Write
  BY <1>3 DEF Write, ExitTogether
<1>4. CASE StartApp \/ SendMessage \/ StopApp \/ UNCHANGED vars
  BY <1>4 DEF StartApp, SendMessage, StopApp, Connect, vars, ExitTogether
<1>5. QED BY <1>1, <1>2, <1>3, <1>4 DEF Next

\* The invariant holds at the start.
LEMMA IInvInit == Init => IInv
<1> SUFFICES ASSUME Init
             PROVE  IInv
  OBVIOUS
<1>1. TypeOK
  <2>1. <<>> \in Seq(Connection) /\ Len(<<>>) <= Backlog /\ 0 \in 0 .. MaxSessions /\ 0 \in 0 .. MaxFailures
    BY BoundsAssumption
  <2>2. QED BY <2>1 DEF Init, TypeOK, Numbers, RPcs
<1>2. \A f \in Fds : fd[f].by = "free" /\ fd[f] /= Listener
  BY KindsDiffer DEF Init
<1>3. Opened
  BY <1>2 DEF Init, Opened, Named, ListenerOpen, SenderOpen, MessageOpen, Listening,
     Connected, Accepted, Exiting, Restarting
<1>4. SameNumbers /\ RunsCount /\ ExitTogether /\ OwnFirst
  BY <1>2 DEF Init, SameNumbers, RunsCount, ExitTogether, OwnFirst
<1>5. QED BY <1>1, <1>3, <1>4 DEF IInv

\* Every step keeps the invariant.
LEMMA IInvStep == IInv /\ [Next]_vars => IInv'
<1> SUFFICES ASSUME IInv, [Next]_vars
             PROVE  IInv'
  OBVIOUS
<1>1. TypeOK' /\ RunsCount' /\ ExitTogether'
  BY TypeStep, RunsStep, ExitStep DEF IInv
<1>2. ASSUME rpc' /= "exited"
      PROVE  Opened' /\ SameNumbers' /\ OwnFirst'
  <2>1. rpc /= "exited"
    BY <1>2, ExitStep DEF IInv
  <2>2. QED BY <1>2, <2>1, OpenedStep, NumbersStep, OwnFirstStep DEF IInv
<1>3. QED BY <1>1, <1>2 DEF IInv

\* So it holds for ever.
LEMMA SpecIInv == Spec => []IInv
  BY IInvInit, IInvStep, PTL DEF Spec

\* Every variable has its type: no call is ever given a number that is none, and
\* the backlog is kept to.
THEOREM TypeCorrect == Spec => []TypeOK
<1>1. IInv => TypeOK
  BY DEF IInv
<1>2. QED BY <1>1, SpecIInv, PTL

\* Over any number of reconnects and failed calls no descriptor is lost, and
\* every close of the read thread closes what it was meant for.
THEOREM ClosesAreRight == Spec => []ClosesWhatItOpened
<1>1. IInv => ClosesWhatItOpened
  <2> SUFFICES ASSUME Opened
               PROVE  /\ \A f \in Fds :
                           /\ fd[f] = Listener => f = sockfd
                           /\ fd[f].by = "startServer" => f = connfd
                           /\ fd[f].by = "serverRead" => f = connfd2
                      /\ rpc = "close_sock" => fd[sockfd] = Listener
                      /\ rpc = "close_conn" /\ connfd /= NoFd => fd[connfd].by = "startServer"
                      /\ rpc = "close_msg" /\ connfd2 /= NoFd => fd[connfd2].by = "serverRead"
    BY DEF IInv, ClosesWhatItOpened
  <2>1. \A f \in Fds :
           /\ fd[f] = Listener => f = sockfd
           /\ fd[f].by = "startServer" => f = connfd
           /\ fd[f].by = "serverRead" => f = connfd2
    BY DEF Opened, Named
  <2>2. rpc = "close_sock" => fd[sockfd] = Listener
    BY DEF Opened, ListenerOpen, Listening
  <2>3. rpc = "close_conn" /\ connfd /= NoFd => fd[connfd].by = "startServer"
    BY DEF Opened, SenderOpen, Connected
  <2>4. rpc = "close_msg" /\ connfd2 /= NoFd => fd[connfd2].by = "serverRead"
    BY DEF Opened, MessageOpen, Accepted
  <2>5. QED BY <2>1, <2>2, <2>3, <2>4
<1>2. QED BY <1>1, SpecIInv, PTL

\* As long as no call fails a typed line, however long ago serverSendFunc was
\* given its descriptor, gets neither into the listening socket nor into what
\* serverRead accepted: its number is one the kernel never gives to those.  The
\* connection it gets into is the one its app listens on, unless that app ran
\* already when the server listened again.
THEOREM LinesAreForTheApp == Spec => []LinesGoToTheApp
<1>1. ASSUME IInv, spc = "getchar", failures = 0
      PROVE  \/ Designated.by = "free"
             \/ Designated.by = "startServer" /\ OwnLine(Designated)
  <2>1. Opened /\ OwnFirst /\ TypeOK /\ sockfd \in {0, 1} /\ connfd2 \in {0, 3} /\ target \in {0, 2}
    BY <1>1 DEF IInv, ExitTogether, SameNumbers
  <2>2. CASE target \notin Fds
    BY <2>2, KindsDiffer DEF Designated
  <2>3. CASE target \in Fds
    <3>1. target = 2
      BY <2>1, <2>3, FdsType
    <3>2. target /= sockfd /\ target /= connfd2
      BY <2>1, <3>1
    <3>3. fd[target] /= Listener /\ fd[target].by \notin {"serverRead", "queue"}
      BY <2>1, <2>3, <3>2 DEF Opened, Named
    <3>4. fd[target] \in Kinds
      BY <2>1, <2>3 DEF TypeOK, Kinds
    <3>5. fd[target].by \in {"free", "startServer"}
      BY <3>3, <3>4, KindsDiffer DEF Kinds
    <3>6. fd[target].by = "startServer" => OwnLine(fd[target])
      BY <2>1, <2>3 DEF OwnFirst
    <3>7. QED BY <2>3, <3>5, <3>6 DEF Designated
  <2>4. QED BY <2>2, <2>3
<1>2. IInv => LinesGoToTheApp
  BY <1>1 DEF LinesGoToTheApp
<1>3. QED BY <1>2, SpecIInv, PTL
=============================================================================
