-------------------------- MODULE HandshakeProofs --------------------------
(***************************************************************************)
(* The handshake for any number of clients and testers, and any number of  *)
(* losses and restarts of the server.                                      *)
(***************************************************************************)
EXTENDS Handshake, TLAPS

-----------------------------------------------------------------------------
(* The inductive invariant.                                                 *)

\* The server acknowledged c in one of its runs so far.
AckedOnce(c) == \E r \in 0 .. crashes : <<r, c>> \in acks

\* Clients send to the server only, and the server sends nothing but INIT_ACK,
\* to a client that it has acknowledged by then.
Routes ==
  \A d \in net :
    \/ d.to = Server /\ d.from \in Clients
    \/ d.from = Server /\ d.to \in Clients /\ d.body = "INIT_ACK" /\ AckedOnce(d.to)

\* What a client hears is such an answer.
HeardAcked == \A c \in heard : AckedOnce(c)

\* No acknowledgement belongs to a run to come, and none to a run that has not
\* begun yet.
AcksPast == \A a \in acks : a[1] <= crashes /\ (status = "down" => a[1] < crashes)

\* -iperf leaves wait_init out.
IperfNeverWaits == iperf => status /= "WAITING_INIT"

IInv == TypeOK /\ Routes /\ HeardAcked /\ AcksPast /\ IperfNeverWaits /\ OneClientPerRun

-----------------------------------------------------------------------------
(* What the network and the two bodies of a read do.                        *)

\* A datagram that is read stays, as a duplicate, or goes.
LEMMA RestKeeps ==
  ASSUME NEW d, NEW copied
  PROVE  Rest(d, copied) \subseteq net
  BY DEF Rest

\* A client's datagram has the client's address.
LEMMA PacketType ==
  ASSUME NEW from \in Addresses, NEW to \in Addresses, NEW body \in Bodies
  PROVE  /\ Packet(from, to, body) \in Datagram
         /\ Packet(from, to, body).from = from
         /\ Packet(from, to, body).to = to
         /\ Packet(from, to, body).body = body
  BY DEF Packet, Datagram

\* The first byte that a buffer holds after a read.
LEMMA ReceivedType ==
  ASSUME NEW body \in Bodies, NEW old \in FirstBytes
  PROVE  Received(body, old) \in FirstBytes
<1>1. CASE body \in ControlBodies
  BY <1>1 DEF Received, First, FirstBytes, ControlBodies
<1>2. CASE body \in VideoBodies
  BY <1>2 DEF Received, First, FirstBytes, VideoBodies, ControlBodies
<1>3. QED BY <1>1, <1>2 DEF Bodies

\* What a send adds to the network.
LEMMA SendAdds ==
  ASSUME TypeOK, NEW c \in Clients, NEW body \in Bodies, Send(c, body)
  PROVE  /\ net' \subseteq Datagram
         /\ \A d \in net' : d \in net \/ (d.to = Server /\ d.from = c)
<1>1. c \in Addresses /\ Server \in Addresses
  BY DEF Addresses
<1>2. net' = net \cup {Packet(c, Server, body)}
  BY DEF Send
<1>3. QED BY <1>1, <1>2, PacketType DEF TypeOK

-----------------------------------------------------------------------------
(* Types.                                                                   *)

\* Every action keeps the types; a read needs to know who may have sent.
LEMMA TypeStep ==
  ASSUME TypeOK, Routes, [Next]_vars
  PROVE  TypeOK'
<1> USE DEF TypeOK
<1>1. ASSUME NEW d \in ToServer, NEW copied \in BOOLEAN, WaitInit(d, copied)
      PROVE  TypeOK'
  <2>1. d \in Datagram /\ d.from \in Clients /\ d.body \in Bodies
    BY <1>1, AddressAssumption DEF ToServer, Routes, Datagram
  <2>2. data' \in FirstBytes
    BY <1>1, <2>1, ReceivedType DEF WaitInit
  <2>3. Packet(Server, d.from, "INIT_ACK") \in Datagram
    BY <2>1, PacketType DEF Addresses, Bodies, ControlBodies
  <2>4. net' \subseteq Datagram
    BY <1>1, <2>3, RestKeeps DEF WaitInit
  <2>5. <<crashes, d.from>> \in (0 .. MaxCrashes) \X Clients
    BY <2>1
  <2>6. acks' \subseteq (0 .. MaxCrashes) \X Clients /\ status' \in {"WAITING_INIT", "RECV_VIDEO", "down"}
    BY <1>1, <2>5 DEF WaitInit
  <2>7. QED BY <1>1, <2>1, <2>2, <2>4, <2>6 DEF WaitInit, clients
<1>2. ASSUME NEW d \in ToServer, NEW copied \in BOOLEAN, RecvVideo(d, copied)
      PROVE  TypeOK'
  BY <1>2, RestKeeps DEF RecvVideo, clients
<1>3. CASE Crash
  BY <1>3, BoundsAssumption DEF Crash, clients
<1>4. CASE Restart
  BY <1>4 DEF Restart, clients
<1>5. ASSUME NEW c \in Clients, ClientNext(c)
      PROVE  TypeOK'
  <2> USE DEF CPcs, Goto, server
  <2>1. CASE SendInit(c)
    <3>1. net' \subseteq Datagram
      BY <2>1, SendAdds DEF SendInit, Bodies, ControlBodies
    <3>2. QED BY <2>1, <3>1 DEF SendInit
  <2>2. ASSUME NEW d \in To(c), NEW copied \in BOOLEAN, Answered(c, d, copied)
        PROVE  TypeOK'
    <3>1. d \in Datagram /\ d.from = Server /\ d.body \in Bodies
      BY AddressAssumption DEF To, Routes, Datagram
    <3>2. Received(d.body, response[c]) \in FirstBytes
      BY <3>1, ReceivedType
    <3>3. net' \subseteq Datagram
      BY <2>2, RestKeeps DEF Answered
    <3>4. srcAddr' \in [Clients -> {Server, Nobody}] /\ response' \in [Clients -> FirstBytes]
      BY <2>2, <3>1, <3>2 DEF Answered
    <3>5. cpc' \in [Clients -> CPcs] /\ heard' \subseteq Clients
      BY <2>2 DEF Answered
    <3>6. QED BY <2>2, <3>3, <3>4, <3>5 DEF Answered
  <2>3. CASE TimedOut(c)
    BY <2>3 DEF TimedOut
  <2>4. CASE SendVideo(c) \/ TestVideo(c)
    <3>1. net' \subseteq Datagram
      BY <2>4, SendAdds DEF SendVideo, TestVideo, Bodies
    <3>2. QED BY <2>4, <3>1 DEF SendVideo, TestVideo, clients
  <2>5. CASE TestInit(c)
    <3>1. net' \subseteq Datagram
      BY <2>5, SendAdds DEF TestInit, Bodies, ControlBodies
    <3>2. QED BY <2>5, <3>1 DEF TestInit
  <2>6. ASSUME NEW d \in To(c), NEW copied \in BOOLEAN, TestAnswered(c, d, copied)
        PROVE  TypeOK'
    BY <2>6, RestKeeps DEF TestAnswered
  <2>7. CASE TestTimedOut(c)
    BY <2>7 DEF TestTimedOut
  <2>8. CASE TestStream(c)
    BY <2>8 DEF TestStream
  <2>9. CASE TestTerminate(c)
    <3>1. net' \subseteq Datagram
      BY <2>9, SendAdds DEF TestTerminate, Bodies, ControlBodies
    <3>2. QED BY <2>9, <3>1 DEF TestTerminate
  <2>10. QED
    BY <1>5, <2>1, <2>2, <2>3, <2>4, <2>5, <2>6, <2>7, <2>8, <2>9
       DEF ClientNext, ClientReads, ClientGoesOn, TesterChooses
<1>6. CASE Lose
  BY <1>6, BoundsAssumption DEF Lose, server, clients
<1>7. CASE UNCHANGED vars
  BY <1>7 DEF vars, server, clients
<1>8. QED
  BY <1>1, <1>2, <1>3, <1>4, <1>5, <1>6, <1>7 DEF Next, ServerNext, ServerReads

-----------------------------------------------------------------------------
(* The network and the history.                                             *)

\* The actions under which the server acknowledges nobody and does not stop.
Elsewhere ==
  \/ \E d \in ToServer, copied \in BOOLEAN : RecvVideo(d, copied)
  \/ \E c \in Clients : ClientNext(c)
  \/ Lose
  \/ UNCHANGED vars

\* A step is one of wait_init's reads, a stop, a start, or one of those.
LEMMA StepCases ==
  ASSUME [Next]_vars
  PROVE  \/ \E d \in ToServer, copied \in BOOLEAN : WaitInit(d, copied)
         \/ Crash \/ Restart \/ Elsewhere
  BY DEF Next, ServerNext, ServerReads, Elsewhere

\* Those leave the server's state alone.
LEMMA ServerStays ==
  ASSUME Elsewhere
  PROVE  UNCHANGED <<server, crashes>>
<1>1. ASSUME NEW c \in Clients, ClientNext(c)
      PROVE  UNCHANGED <<server, crashes>>
  BY <1>1 DEF ClientNext, ClientReads, ClientGoesOn, TesterChooses, SendInit, Answered,
     TimedOut, SendVideo, TestInit, TestAnswered, TestTimedOut, TestVideo, TestStream,
     TestTerminate
<1>2. QED BY <1>1 DEF Elsewhere, RecvVideo, Lose, vars, server

\* Acknowledgements and stops are never taken back.
LEMMA HistoryGrows ==
  ASSUME TypeOK, [Next]_vars
  PROVE  acks \subseteq acks' /\ crashes \in Nat /\ crashes' \in Nat /\ crashes <= crashes'
<1>0. crashes \in Nat
  BY BoundsAssumption DEF TypeOK
<1>1. CASE Elsewhere
  BY <1>0, <1>1, ServerStays DEF server
<1>2. CASE \E d \in ToServer, copied \in BOOLEAN : WaitInit(d, copied)
  BY <1>0, <1>2 DEF WaitInit
<1>3. CASE Crash \/ Restart
  BY <1>0, <1>3 DEF Crash, Restart
<1>4. QED BY <1>1, <1>2, <1>3, StepCases

\* So a client once acknowledged stays one.
LEMMA AckedStays ==
  ASSUME TypeOK, [Next]_vars, NEW c, AckedOnce(c)
  PROVE  AckedOnce(c)'
<1>1. PICK r \in 0 .. crashes : <<r, c>> \in acks
  BY DEF AckedOnce
<1>2. r \in 0 .. crashes' /\ <<r, c>> \in acks'
  BY <1>1, HistoryGrows
<1>3. QED BY <1>2 DEF AckedOnce

\* What is in the network after a step that it was not in before is a client's
\* datagram to the server or an INIT_ACK just entered in acks.
LEMMA NetStep ==
  ASSUME TypeOK, Routes, [Next]_vars, NEW d \in net'
  PROVE  \/ d \in net
         \/ d.to = Server /\ d.from \in Clients
         \/ /\ d.from = Server /\ d.to \in Clients /\ d.body = "INIT_ACK"
            /\ AckedOnce(d.to)'
<1>1. ASSUME NEW e \in ToServer, NEW copied \in BOOLEAN, WaitInit(e, copied), d \notin net
      PROVE  /\ d.from = Server /\ d.to \in Clients /\ d.body = "INIT_ACK"
             /\ AckedOnce(d.to)'
  <2>1. e.from \in Clients
    BY AddressAssumption DEF ToServer, Routes
  <2>2. d = Packet(Server, e.from, "INIT_ACK") /\ <<crashes, e.from>> \in acks' /\ crashes' = crashes
    BY <1>1, RestKeeps DEF WaitInit
  <2>3. crashes \in 0 .. crashes'
    BY <2>2, BoundsAssumption DEF TypeOK
  <2>4. d.from = Server /\ d.to = e.from /\ d.body = "INIT_ACK"
    BY <2>2 DEF Packet
  <2>5. QED BY <2>1, <2>2, <2>3, <2>4 DEF AckedOnce
<1>2. ASSUME NEW c \in Clients, ClientNext(c)
      PROVE  d \in net \/ (d.to = Server /\ d.from \in Clients)
  <2>1. CASE \/ TimedOut(c) \/ TestTimedOut(c) \/ TestStream(c)
             \/ \E e \in To(c), copied \in BOOLEAN : ClientReads(c, e, copied)
    BY <2>1, RestKeeps DEF TimedOut, TestTimedOut, TestStream, ClientReads, Answered, TestAnswered
  <2>2. ASSUME NEW body \in Bodies, Send(c, body)
        PROVE  d \in net \/ (d.to = Server /\ d.from \in Clients)
    BY <2>2, SendAdds
  <2>3. CASE SendInit(c) \/ TestInit(c) \/ TestTerminate(c)
    BY <2>2, <2>3 DEF SendInit, TestInit, TestTerminate, Bodies, ControlBodies
  <2>4. CASE SendVideo(c) \/ TestVideo(c)
    BY <2>2, <2>4 DEF SendVideo, TestVideo, Bodies
  <2>5. QED
    BY <1>2, <2>1, <2>3, <2>4 DEF ClientNext, ClientGoesOn, TesterChooses
<1>3. CASE Elsewhere
  BY <1>2, <1>3, RestKeeps DEF Elsewhere, RecvVideo, Lose, vars
<1>4. CASE Crash \/ Restart
  BY <1>4 DEF Crash, Restart
<1>5. QED BY <1>1, <1>3, <1>4, StepCases

\* So the network keeps to its routes.
LEMMA RoutesStep ==
  ASSUME TypeOK, Routes, [Next]_vars
  PROVE  Routes'
<1> SUFFICES ASSUME NEW d \in net'
             PROVE  \/ d.to = Server /\ d.from \in Clients
                    \/ /\ d.from = Server /\ d.to \in Clients /\ d.body = "INIT_ACK"
                       /\ AckedOnce(d.to)'
  BY DEF Routes
<1>1. CASE d \in net
  BY <1>1, AckedStays DEF Routes
<1>2. CASE d \notin net
  BY <1>2, NetStep
<1>3. QED BY <1>1, <1>2

\* What a client reads in run_client comes from the network as Routes has it.
LEMMA HeardStep ==
  ASSUME TypeOK, Routes, HeardAcked, [Next]_vars
  PROVE  HeardAcked'
<1>1. ASSUME NEW c \in heard'
      PROVE  AckedOnce(c)
  <2>1. CASE c \in heard
    BY <2>1 DEF HeardAcked
  <2>2. CASE c \notin heard
    <3>1. \E b \in Clients : ClientNext(b)
      BY <1>1, <2>2 DEF Next, ServerNext, ServerReads, WaitInit, RecvVideo, Crash, Restart, Lose,
         vars, clients
    <3>2. PICK b \in Clients : ClientNext(b)
      BY <3>1
    <3>3. \E d \in To(b), copied \in BOOLEAN : Answered(b, d, copied)
      BY <1>1, <2>2, <3>2 DEF ClientNext, ClientReads, ClientGoesOn, TesterChooses, SendInit,
         TimedOut, SendVideo, TestInit, TestAnswered, TestTimedOut, TestVideo, TestStream,
         TestTerminate, clients
    <3>4. c = b /\ To(b) /= {}
      BY <1>1, <2>2, <3>3 DEF Answered
    <3>5. QED BY <3>4, AddressAssumption DEF To, Routes
  <2>3. QED BY <2>1, <2>2
<1>2. QED BY <1>1, AckedStays DEF HeardAcked

-----------------------------------------------------------------------------
(* Acknowledgements and the server's state.                                 *)

\* Only wait_init acknowledges, and only in the present run.
LEMMA AcksPastStep ==
  ASSUME TypeOK, AcksPast, [Next]_vars
  PROVE  AcksPast'
<1>0. crashes \in Nat /\ \A a \in acks : a[1] \in Nat
  BY BoundsAssumption DEF TypeOK
<1>1. CASE Elsewhere
  BY <1>1, ServerStays DEF server, AcksPast
<1>2. ASSUME NEW d \in ToServer, NEW copied \in BOOLEAN, WaitInit(d, copied)
      PROVE  AcksPast'
  BY <1>0, <1>2 DEF WaitInit, AcksPast
<1>3. CASE Crash
  BY <1>0, <1>3 DEF Crash, AcksPast
<1>4. CASE Restart
  BY <1>0, <1>4 DEF Restart, AcksPast
<1>5. QED BY <1>1, <1>2, <1>3, <1>4, StepCases

\* run_server chooses its first state by SERVER_RUN_IPERF, which never changes.
LEMMA IperfStep ==
  ASSUME IperfNeverWaits, [Next]_vars
  PROVE  IperfNeverWaits'
<1>1. CASE Elsewhere
  BY <1>1, ServerStays DEF server, IperfNeverWaits
<1>2. ASSUME NEW d \in ToServer, NEW copied \in BOOLEAN, WaitInit(d, copied)
      PROVE  IperfNeverWaits'
  BY <1>2 DEF WaitInit, IperfNeverWaits
<1>3. CASE Crash \/ Restart
  BY <1>3 DEF Crash, Restart, IperfNeverWaits
<1>4. QED BY <1>1, <1>2, <1>3, StepCases

\* wait_init answers one INIT and is left for good; a stop makes every
\* acknowledgement one of the past.
LEMMA OneClientStep ==
  ASSUME TypeOK, AcksPast, IperfNeverWaits, OneClientPerRun, [Next]_vars
  PROVE  OneClientPerRun'
<1>0. crashes \in Nat /\ \A a \in acks : a[1] \in Nat
  BY BoundsAssumption DEF TypeOK
<1>1. CASE Elsewhere
  BY <1>1, ServerStays DEF server, OneClientPerRun
<1>2. ASSUME NEW d \in ToServer, NEW copied \in BOOLEAN, WaitInit(d, copied)
      PROVE  OneClientPerRun'
  <2>1. ~iperf /\ {a \in acks : a[1] = crashes} = {}
    BY <1>2 DEF WaitInit, IperfNeverWaits, OneClientPerRun
  <2>2. iperf' = iperf /\ crashes' = crashes
    BY <1>2 DEF WaitInit
  <2>3. CASE data' = "INIT"
    <3>1. /\ acks' = acks \cup {<<crashes, d.from>>}
          /\ status' = "RECV_VIDEO" /\ clientAddr' = d.from
      BY <1>2, <2>3 DEF WaitInit
    <3>2. {a \in acks' : a[1] = crashes'} = {<<crashes', clientAddr'>>}
      BY <2>1, <2>2, <3>1
    <3>3. QED BY <2>1, <2>2, <3>1, <3>2 DEF OneClientPerRun
  <2>4. CASE data' /= "INIT"
    <3>1. acks' = acks /\ status' = "WAITING_INIT"
      BY <1>2, <2>4 DEF WaitInit
    <3>2. QED BY <2>1, <2>2, <3>1 DEF OneClientPerRun
  <2>5. QED BY <2>3, <2>4
<1>3. CASE Crash
  <2>1. {a \in acks' : a[1] = crashes'} = {}
    BY <1>0, <1>3 DEF Crash, AcksPast
  <2>2. QED BY <1>3, <2>1 DEF Crash, OneClientPerRun
<1>4. CASE Restart
  <2>1. {a \in acks' : a[1] = crashes'} = {}
    BY <1>0, <1>4 DEF Restart, AcksPast
  <2>2. status' = "RECV_VIDEO" => iperf'
    BY <1>4 DEF Restart
  <2>3. QED BY <2>1, <2>2 DEF OneClientPerRun
<1>5. QED BY <1>1, <1>2, <1>3, <1>4, StepCases

-----------------------------------------------------------------------------
(* The invariant and the theorems.                                          *)

\* The invariant holds at the start.
LEMMA IInvInit == Init => IInv
<1> SUFFICES ASSUME Init
             PROVE  IInv
  OBVIOUS
<1>1. TypeOK
  BY BoundsAssumption, ClientsAssumption DEF Init, TypeOK, CPcs, FirstBytes, ControlBodies
<1>2. Routes /\ HeardAcked /\ AcksPast /\ IperfNeverWaits /\ OneClientPerRun
  BY <1>1 DEF Init, Routes, HeardAcked, AcksPast, IperfNeverWaits, OneClientPerRun
<1>3. QED BY <1>1, <1>2 DEF IInv

\* Every step keeps the invariant.
LEMMA IInvStep == IInv /\ [Next]_vars => IInv'
  BY TypeStep, RoutesStep, HeardStep, AcksPastStep, IperfStep, OneClientStep DEF IInv

\* So it holds for ever.
LEMMA SpecIInv == Spec => []IInv
  BY IInvInit, IInvStep, PTL DEF Spec

\* Every variable has its type, for any set of clients, any number of
\* datagrams, losses and restarts.
THEOREM TypeCorrect == Spec => []TypeOK
<1>1. IInv => TypeOK
  BY DEF IInv
<1>2. QED BY <1>1, SpecIInv, PTL

\* wait_init acknowledges one client per run of the server, the one that
\* clientAddr names.
THEOREM OneClientAcknowledged == Spec => []OneClientPerRun
<1>1. IInv => OneClientPerRun
  BY DEF IInv
<1>2. QED BY <1>1, SpecIInv, PTL

\* run_client lets nobody into video_send_loop after an answer but a client
\* that a run of the server acknowledged; if that run still lasts, the server
\* is in recv_video and takes it for its client.
THEOREM StreamersAreAcknowledged == Spec => []StreamerIsTheClient
<1>1. ASSUME IInv, NEW c \in heard \ Testers, cpc[c] = "stream"
      PROVE  \E r \in 0 .. crashes :
               /\ <<r, c>> \in acks
               /\ r = crashes => status = "RECV_VIDEO" /\ clientAddr = c
  <2>1. PICK r \in 0 .. crashes : <<r, c>> \in acks
    BY <1>1 DEF IInv, HeardAcked, AckedOnce
  <2>2. ASSUME r = crashes
        PROVE  status = "RECV_VIDEO" /\ clientAddr = c
    <3>1. <<crashes, c>> \in {a \in acks : a[1] = crashes}
      BY <2>1, <2>2
    <3>2. status /= "down"
      BY <1>1, <2>1, <2>2, BoundsAssumption DEF IInv, TypeOK, AcksPast
    <3>3. status = "RECV_VIDEO" /\ ~iperf
      BY <1>1, <3>1, <3>2 DEF IInv, TypeOK, OneClientPerRun
    <3>4. <<crashes, c>> = <<crashes, clientAddr>>
      BY <1>1, <3>1, <3>3 DEF IInv, OneClientPerRun
    <3>5. QED BY <3>3, <3>4
  <2>3. QED BY <2>1, <2>2
<1>2. IInv => StreamerIsTheClient
  BY <1>1 DEF StreamerIsTheClient
<1>3. QED BY <1>2, SpecIInv, PTL
=============================================================================
