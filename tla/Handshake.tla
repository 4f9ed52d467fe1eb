----------------------------- MODULE Handshake -----------------------------
(***************************************************************************)
(* The protocol between the video clients and the video server: run_server,*)
(* wait_init and recv_video on one side, run_client and run_test_client on *)
(* the other, UDP between them.  A client sends INIT until an INIT_ACK     *)
(* comes back and then streams for ever; the server answers the first INIT *)
(* and from then on puts whatever arrives into its buffer.                 *)
(*                                                                         *)
(* A datagram is known by what the code looks at: its addresses, its first *)
(* byte and whether it is empty.  The buffer behind recv_video is the      *)
(* subject of ServerThreads, and what a streaming client sends of Relay.   *)
(***************************************************************************)
EXTENDS Naturals, FiniteSets

CONSTANTS
  Clients,      \* addresses of the client programs
  Server,       \* the server's address
  Nobody,       \* an address no program has
  Testers,      \* the clients started with -d
  MaxInFlight,  \* bound: datagrams on their way to the server
  MaxLosses,    \* bound: datagrams the network loses
  MaxCrashes    \* bound: times the server stops

ASSUME ClientsAssumption == Testers \subseteq Clients
ASSUME AddressAssumption == Server \notin Clients /\ Nobody \notin Clients \cup {Server}
ASSUME BoundsAssumption ==
  MaxInFlight \in Nat \ {0} /\ MaxLosses \in Nat /\ MaxCrashes \in Nat

VARIABLES
  iperf,        \* SERVER_RUN_IPERF is set
  status,       \* connectionStatus, or "down"
  data,         \* data[0] of wait_init
  clientAddr,   \* the global of that name
  cpc,          \* where each client is
  srcAddr,      \* run_client's local of that name
  response,     \* run_client's response[0]
  net,          \* datagrams in flight or in a socket's queue
  losses, crashes,
  \* history
  asked,        \* clients that have sent INIT
  acks,         \* <<run of the server, address>> of every INIT_ACK
  heard         \* clients whose recv_data_timeout has returned a datagram

server == <<iperf, status, data, clientAddr, acks>>
clients == <<cpc, srcAddr, response, asked, heard>>
vars == <<server, clients, net, losses, crashes>>

\* The bodies that exist.  send_video_packet sends no header, so a video
\* datagram may begin with the byte of INIT, or be empty.
VideoBodies == {"VIDEO", "VIDEO_LIKE_INIT", "EMPTY"}
ControlBodies == {"INIT", "INIT_ACK", "TERMINATE"}
Bodies == VideoBodies \cup ControlBodies

Addresses == Clients \cup {Server, Nobody}

\* First bytes; a byte that is no packet type is "OTHER".
FirstBytes == ControlBodies \cup {"OTHER"}

First(body) ==
  CASE body \in ControlBodies -> body
    [] body = "VIDEO_LIKE_INIT" -> "INIT"
    [] OTHER -> "OTHER"

\* What recv_data leaves in a buffer's first byte: an empty datagram, nothing.
Received(body, old) == IF body = "EMPTY" THEN old ELSE First(body)

Datagram == [from : Addresses, to : Addresses, body : Bodies]
Packet(from, to, body) == [from |-> from, to |-> to, body |-> body]

ToServer == {d \in net : d.to = Server}
To(c) == {d \in net : d.to = c}

\* The network without the datagram just read, or with a duplicate of it.
Rest(d, copied) == IF copied THEN net ELSE net \ {d}

-----------------------------------------------------------------------------
(* The server.                                                              *)

\* Mutant of WaitInit: connectionStatus is not set, and the loop goes on.
WaitInitStays(d, copied) ==
  /\ status = "WAITING_INIT"
  /\ clientAddr' = d.from
  /\ data' = Received(d.body, data)
  /\ IF data' = "INIT"
     THEN /\ net' = Rest(d, copied) \cup {Packet(Server, d.from, "INIT_ACK")}
          /\ acks' = acks \cup {<<crashes, d.from>>}
     ELSE /\ net' = Rest(d, copied)
          /\ UNCHANGED acks
  /\ UNCHANGED <<iperf, status, clients, losses, crashes>>

\* Mutant of WaitInit: INIT_ACK goes to the server's own address (ownAddr),
\* where a later run of the server may find it.
WaitInitToItself(d, copied) ==
  /\ status = "WAITING_INIT"
  /\ clientAddr' = d.from
  /\ data' = Received(d.body, data)
  /\ IF data' = "INIT"
     THEN /\ net' = Rest(d, copied) \cup {Packet(Server, Server, "INIT_ACK")}
          /\ acks' = acks \cup {<<crashes, d.from>>}
          /\ status' = "RECV_VIDEO"
     ELSE /\ net' = Rest(d, copied)
          /\ UNCHANGED <<acks, status>>
  /\ UNCHANGED <<iperf, clients, losses, crashes>>

\* wait_init: every datagram, of whatever kind, overwrites clientAddr; if the
\* first byte is INIT its sender gets INIT_ACK and the server turns to
\* recv_video.
WaitInit(d, copied) ==
  /\ status = "WAITING_INIT"
  /\ clientAddr' = d.from
  /\ data' = Received(d.body, data)
  /\ IF data' = "INIT"
     THEN /\ net' = Rest(d, copied) \cup {Packet(Server, d.from, "INIT_ACK")}
          /\ acks' = acks \cup {<<crashes, d.from>>}
          /\ status' = "RECV_VIDEO"
     ELSE /\ net' = Rest(d, copied)
          /\ UNCHANGED <<acks, status>>
  /\ UNCHANGED <<iperf, clients, losses, crashes>>

\* recv_video: every datagram but an empty one is video, whoever sent it and
\* whatever its first byte is: an INIT or a TERMINATE goes into the buffer too
\* (ServerThreads), and nothing leads back to wait_init.
RecvVideo(d, copied) ==
  /\ status = "RECV_VIDEO"
  /\ net' = Rest(d, copied)
  /\ UNCHANGED <<iperf, status, data, clientAddr, acks, clients, losses, crashes>>

ServerReads(d, copied) == WaitInit(d, copied) \/ RecvVideo(d, copied)

\* recv_data calls exit when recvfrom fails, or the process is killed; what
\* its socket had queued is gone.
Crash ==
  /\ status /= "down" /\ crashes < MaxCrashes
  /\ status' = "down"
  /\ crashes' = crashes + 1
  /\ \E gone \in SUBSET ToServer : net' = net \ gone
  /\ UNCHANGED <<iperf, data, clientAddr, acks, clients, losses>>

\* run_server again: connectionStatus starts as WAITING_INIT, and data[0] of
\* wait_init is uninitialised.
Restart ==
  /\ status = "down"
  /\ status' = IF iperf THEN "RECV_VIDEO" ELSE "WAITING_INIT"
  /\ data' \in FirstBytes
  /\ clientAddr' = Nobody
  /\ UNCHANGED <<iperf, acks, clients, net, losses, crashes>>

ServerNext ==
  \/ \E d \in ToServer, copied \in BOOLEAN : ServerReads(d, copied)
  \/ Crash \/ Restart

-----------------------------------------------------------------------------
(* The clients.                                                             *)

Goto(c, pc) == cpc' = [cpc EXCEPT ![c] = pc]
Send(c, body) ==
  /\ Cardinality(ToServer) < MaxInFlight
  /\ net' = net \cup {Packet(c, Server, body)}

\* run_client: send INIT and wait for an answer.
SendInit(c) ==
  /\ cpc[c] = "init"
  /\ Send(c, "INIT")
  /\ asked' = asked \cup {c}
  /\ Goto(c, "wait")
  /\ UNCHANGED <<server, srcAddr, response, heard, losses, crashes>>

\* The condition on which run_client leaves the do-while loop.
LoopEnds(src, byte) == src = Server /\ byte = "INIT_ACK"

\* recv_data_timeout returns a datagram, which sets srcAddr and response.
Answered(c, d, copied) ==
  /\ cpc[c] = "wait"
  /\ srcAddr' = [srcAddr EXCEPT ![c] = d.from]
  /\ response' = [response EXCEPT ![c] = Received(d.body, @)]
  /\ heard' = heard \cup {c}
  /\ net' = Rest(d, copied)
  /\ Goto(c, IF LoopEnds(srcAddr'[c], response'[c]) THEN "stream" ELSE "init")
  /\ UNCHANGED <<server, asked, losses, crashes>>

\* Mutant of TimedOut: the loop waits again without sending INIT again.
TimedOutKeepsWaiting(c) ==
  /\ cpc[c] = "wait"
  /\ Goto(c, IF LoopEnds(srcAddr[c], response[c]) THEN "stream" ELSE "wait")
  /\ UNCHANGED <<server, srcAddr, response, asked, heard, net, losses, crashes>>

\* recv_data_timeout returns -1: srcAddr and response are tested as they are,
\* uninitialised if nothing was received before.
TimedOut(c) ==
  /\ cpc[c] = "wait"
  /\ Goto(c, IF LoopEnds(srcAddr[c], response[c]) THEN "stream" ELSE "init")
  /\ UNCHANGED <<server, srcAddr, response, asked, heard, net, losses, crashes>>

\* video_send_loop: a datagram of whatever the FIFO held.
SendVideo(c) ==
  /\ cpc[c] = "stream"
  /\ \E body \in VideoBodies : Send(c, body)
  /\ UNCHANGED <<server, clients, losses, crashes>>

\* run_test_client, choice 1: INIT, then one wait of at most three seconds
\* whose outcome is only printed.
TestInit(c) ==
  /\ cpc[c] = "menu"
  /\ Send(c, "INIT")
  /\ asked' = asked \cup {c}
  /\ Goto(c, "probe")
  /\ UNCHANGED <<server, srcAddr, response, heard, losses, crashes>>

TestAnswered(c, d, copied) ==
  /\ cpc[c] = "probe"
  /\ net' = Rest(d, copied)
  /\ Goto(c, "menu")
  /\ UNCHANGED <<server, srcAddr, response, asked, heard, losses, crashes>>

TestTimedOut(c) ==
  /\ cpc[c] = "probe"
  /\ Goto(c, "menu")
  /\ UNCHANGED <<server, srcAddr, response, asked, heard, net, losses, crashes>>

\* Choices 2 and 3: one datagram of dummy or FIFO data, without a handshake.
TestVideo(c) ==
  /\ cpc[c] = "menu"
  /\ \E body \in VideoBodies : Send(c, body)
  /\ UNCHANGED <<server, clients, losses, crashes>>

\* Choice 4: the send loop without a handshake.
TestStream(c) ==
  /\ cpc[c] = "menu"
  /\ Goto(c, "stream")
  /\ UNCHANGED <<server, srcAddr, response, asked, heard, net, losses, crashes>>

\* Choice 5: TERMINATE, and the program exits.
TestTerminate(c) ==
  /\ cpc[c] = "menu"
  /\ Send(c, "TERMINATE")
  /\ Goto(c, "exited")
  /\ UNCHANGED <<server, srcAddr, response, asked, heard, losses, crashes>>

ClientReads(c, d, copied) == Answered(c, d, copied) \/ TestAnswered(c, d, copied)
ClientGoesOn(c) ==
  SendInit(c) \/ TimedOut(c) \/ SendVideo(c) \/ TestTimedOut(c)
TesterChooses(c) == TestInit(c) \/ TestVideo(c) \/ TestStream(c) \/ TestTerminate(c)

ClientNext(c) ==
  \/ \E d \in To(c), copied \in BOOLEAN : ClientReads(c, d, copied)
  \/ ClientGoesOn(c)
  \/ TesterChooses(c)

\* UDP loses a datagram.
Lose ==
  /\ losses < MaxLosses
  /\ losses' = losses + 1
  /\ \E d \in net : net' = net \ {d}
  /\ UNCHANGED <<server, clients, crashes>>

-----------------------------------------------------------------------------
\* Locals of run_client and wait_init start as whatever the stack held; a
\* tester never uses those of run_client.
Init ==
  /\ iperf \in BOOLEAN
  /\ status = IF iperf THEN "RECV_VIDEO" ELSE "WAITING_INIT"
  /\ data \in FirstBytes
  /\ clientAddr = Nobody
  /\ cpc = [c \in Clients |-> IF c \in Testers THEN "menu" ELSE "init"]
  /\ srcAddr \in [Clients -> {Server, Nobody}]
  /\ response \in [Clients -> {"INIT_ACK", "OTHER"}]
  /\ \A c \in Testers : srcAddr[c] = Nobody /\ response[c] = "OTHER"
  /\ net = {} /\ losses = 0 /\ crashes = 0
  /\ asked = {} /\ acks = {} /\ heard = {}

Next == ServerNext \/ (\E c \in Clients : ClientNext(c)) \/ Lose

Spec == Init /\ [][Next]_vars

\* The programs run.  Every datagram that is not lost is in the end read by a
\* server that keeps reading, and reaches a client that keeps asking within one
\* of its timeouts.  MaxInFlight keeps no client from sending for ever.  Nobody
\* has to use the test menu.
FairSpec ==
  /\ Spec
  /\ WF_vars(Restart)
  /\ \A c \in Clients :
       /\ \A body \in Bodies :
            WF_vars(\E d \in ToServer : /\ d = Packet(c, Server, body)
                                       /\ ServerReads(d, FALSE))
       /\ SF_vars(ClientGoesOn(c))
       /\ SF_vars(\E d \in To(c) : ClientReads(c, d, FALSE))

-----------------------------------------------------------------------------
(* Properties.                                                              *)

CPcs == {"init", "wait", "stream", "menu", "probe", "exited"}

\* Every variable has its type.  In particular the address that recvfrom
\* leaves in srcAddr can only be the server's, and the one it leaves in
\* clientAddr, in whatever run of the server, only a client's.
TypeOK ==
  /\ iperf \in BOOLEAN
  /\ status \in {"WAITING_INIT", "RECV_VIDEO", "down"}
  /\ data \in FirstBytes
  /\ clientAddr \in Clients \cup {Nobody}
  /\ cpc \in [Clients -> CPcs]
  /\ srcAddr \in [Clients -> {Server, Nobody}]
  /\ response \in [Clients -> FirstBytes]
  /\ net \subseteq Datagram
  /\ losses \in 0 .. MaxLosses /\ crashes \in 0 .. MaxCrashes
  /\ asked \subseteq Clients
  /\ acks \subseteq (0 .. MaxCrashes) \X Clients
  /\ heard \subseteq Clients

\* Whoever run_client lets into video_send_loop after it heard from the network
\* was acknowledged, in whatever order INITs of several clients, late answers,
\* duplicates and restarts of the server come; and if that was by the server
\* still running, then the server is receiving and takes it for its client.
StreamerIsTheClient ==
  \A c \in heard \ Testers :
    cpc[c] = "stream" =>
      \E r \in 0 .. crashes :
        /\ <<r, c>> \in acks
        /\ r = crashes => status = "RECV_VIDEO" /\ clientAddr = c

\* Between two crashes at most one client is acknowledged, it is the one
\* clientAddr names, and no client is while the server is still waiting.
OneClientPerRun ==
  LET acked == {a \in acks : a[1] = crashes}
  IN  /\ status = "RECV_VIDEO" /\ ~iperf => acked = {<<crashes, clientAddr>>}
      /\ status = "WAITING_INIT" \/ iperf => acked = {}

\* Losing INITs and being restarted does not leave the server waiting as long
\* as a client keeps retrying.
RetriesReachServer ==
  \A c \in Clients \ Testers :
    (cpc[c] = "wait" /\ ~iperf) ~> (status = "RECV_VIDEO" \/ cpc[c] = "stream")

\* "Timed out while waiting for INIT_ACK, retrying...": a client that the
\* server has taken and that retries gets its INIT_ACK in the end.
RetrySucceeds ==
  \A c \in Clients \ Testers :
    (cpc[c] = "wait" /\ status = "RECV_VIDEO" /\ clientAddr = c)
      ~> (cpc[c] = "stream" \/ status = "down")

\* "if the packet is an INIT packet, respond with INIT_ACK": only a client
\* that sent INIT is acknowledged.
AcksOnlyInit == \A a \in acks : a[2] \in asked
=============================================================================
