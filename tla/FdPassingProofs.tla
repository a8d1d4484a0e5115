---------------------------- MODULE FdPassingProofs ----------------------------
(***************************************************************************)
(* For any set of clients, any size of the descriptor table and any        *)
(* clients that may be killed: types, that each descriptor has one owner,  *)
(* and that answers are delivered.  The garbage that ipc_unix_recvmsg      *)
(* reads past the control message is assumed not to name a descriptor of   *)
(* the table: where it does, the descriptors of other threads are closed,  *)
(* and answers get lost (FdPassingGarbage.cfg).                            *)
(***************************************************************************)
EXTENDS FdPassing, SequenceLemmas

HarmlessGarbage == Garbage \cap Fds = {}

Carries(c) == Contains(sock[c], "pass")
AnyKilled == \E d \in Clients : pc[d] = "killed"

(* A connection is in the backlog, with main, or with a thread, and in one *)
(* of these at a time; a thread stops reading when its client has gone.    *)
ConnInv ==
  /\ \A c \in Clients : AtMostOnce(backlog, c)
  /\ \A c, d \in accepted : c = d
  /\ \A c \in Clients :
       /\ pc[c] \in {"connect", "refused"} =>
            ~Contains(backlog, c) /\ c \notin accepted /\ thread[c] = "none"
       /\ Contains(backlog, c) => c \notin accepted /\ thread[c] = "none"
       /\ c \in accepted => thread[c] = "none"
       /\ up /\ pc[c] \in {"send", "pass", "drop", "read"} =>
            Contains(backlog, c) \/ c \in accepted \/ thread[c] # "none"
       /\ thread[c] \in {"end", "ended"} => Gone(c)
       /\ thread[c] = "recv" => file[c] = Conn(c)

(* The table: the listener, and descriptors that have an owner.            *)
TableInv ==
  up => /\ \A fd \in Fds : open[fd] = Listen <=> fd = Listener
        /\ \A t \in Clients : /\ HasConn(t) => connFd[t] \in Fds
                              /\ HasPipe(t) => pipeFd[t] \in Fds

(* The write end of a pipe is in one message, then with one thread, until  *)
(* there is an answer; or the kernel has dropped it.                       *)
NotPassed == {"connect", "refused", "send", "pass", "piped"}

PassInv ==
  \A c \in Clients :
    /\ AtMostOnce(sock[c], "pass")
    /\ pc[c] \in NotPassed => ~Carries(c) /\ ~HasPipe(c) /\ c \notin lost /\ data[c] = 0
    /\ Carries(c) => ~HasPipe(c) /\ c \notin lost /\ data[c] = 0
    /\ HasPipe(c) => c \notin lost
    /\ thread[c] \in {"scan", "reply"} => data[c] = 0

(* A client that waits has its answer, or an excuse, or a thread that will *)
(* answer; and the server ends for a reason.                               *)
WaitInv ==
  /\ exhausted => ~up
  /\ ~up => exhausted \/ AnyKilled
  /\ \A c \in Clients :
       /\ pc[c] \in {"drop", "read"} =>
            data[c] = 1 \/ Excused(c) \/ Carries(c) \/ thread[c] \in {"scan", "reply"}
       /\ pc[c] = "done" => data[c] = 1 \/ Excused(c)
       /\ pc[c] = "piped" => ~up

IInv == TypeOK /\ ConnInv /\ TableInv /\ OwnDescriptors /\ PassInv /\ WaitInv
        /\ AnswersDelivered

-------------------------------------------------------------------------------
(* What the entries of the table are is told by their kind and client.     *)
LEMMA Kinds ==
  /\ \A c : Conn(c)[1] = "conn" /\ Conn(c)[2] = c /\ Pipe(c)[1] = "pipe" /\ Pipe(c)[2] = c
  /\ Free[1] = "free" /\ Listen[1] = "listen"
  /\ \A c, d : Conn(c) # Pipe(d) /\ (Conn(c) = Conn(d) => c = d) /\ (Pipe(c) = Pipe(d) => c = d)
  /\ \A c : Free \notin {Conn(c), Pipe(c), Listen} /\ Listen \notin {Conn(c), Pipe(c)}
<1>1. \A c : Conn(c)[1] = "conn" /\ Conn(c)[2] = c /\ Pipe(c)[1] = "pipe" /\ Pipe(c)[2] = c
  BY DEF Conn, Pipe
<1>2. Free[1] = "free" /\ Listen[1] = "listen"
  BY DEF Free, Listen
<1>3. \A c, d : Conn(c) # Pipe(d) /\ (Conn(c) = Conn(d) => c = d) /\ (Pipe(c) = Pipe(d) => c = d)
  <2> TAKE c, d
  <2>1. Conn(c)[1] # Pipe(d)[1]
    BY <1>1
  <2>2. (Conn(c) = Conn(d) => c = d) /\ (Pipe(c) = Pipe(d) => c = d)
    BY <1>1
  <2> QED
    BY <2>1, <2>2
<1>4. \A c : Free \notin {Conn(c), Pipe(c), Listen} /\ Listen \notin {Conn(c), Pipe(c)}
  <2> TAKE c
  <2>1. /\ Free[1] # Conn(c)[1] /\ Free[1] # Pipe(c)[1] /\ Free[1] # Listen[1]
        /\ Listen[1] # Conn(c)[1] /\ Listen[1] # Pipe(c)[1]
    BY <1>1, <1>2
  <2> QED
    BY <2>1
<1> QED
  BY <1>1, <1>2, <1>3, <1>4

LEMMA LowestIsFree ==
  ASSUME FreeFds # {}
  PROVE  Min(FreeFds) \in Fds /\ open[Min(FreeFds)] = Free
<1>1. FreeFds \subseteq Nat
  BY FdAssumption DEF FreeFds, Fds, Listener
<1> QED
  BY <1>1, MinIsLowest DEF FreeFds

(* Nothing is open but the listener, nothing is sent. *)
LEMMA InitInv == Init => IInv
<1> SUFFICES ASSUME Init PROVE IInv
  OBVIOUS
<1> USE ContainsEmpty DEF Init
<1>1. TypeOK
  <2>1. open \in [Fds -> Objects] /\ file \in [Clients -> Objects]
    BY DEF Objects
  <2>2. backlog \in Seq(Clients) /\ sock \in [Clients -> Seq({"plain", "pass"})]
    OBVIOUS
  <2> QED
    BY <2>1, <2>2 DEF TypeOK
<1>2. ConnInv
  BY DEF ConnInv, AtMostOnce
<1>3. TableInv
  BY Kinds, FdAssumption DEF TableInv, HasConn, HasPipe, Fds, Listener
<1>4. OwnDescriptors
  BY DEF OwnDescriptors, HasConn, HasPipe
<1>5. PassInv
  BY DEF PassInv, AtMostOnce, Carries, HasPipe
<1>6. WaitInv
  BY DEF WaitInv
<1>7. AnswersDelivered
  BY DEF AnswersDelivered
<1> QED
  BY <1>1, <1>2, <1>3, <1>4, <1>5, <1>6, <1>7 DEF IInv

-------------------------------------------------------------------------------
(* What the steps come to in the states of the invariant: a descriptor is  *)
(* given out that was free, a thread has its own connection and its own    *)
(* pipe, and scanning the control message closes nothing.                  *)
Takes(c, fd) ==
  /\ up /\ accepted = {} /\ backlog # <<>> /\ c = Head(backlog) /\ open[fd] = Free
  /\ open' = [open EXCEPT ![fd] = Conn(c)] /\ connFd' = [connFd EXCEPT ![c] = fd]
  /\ accepted' = {c} /\ backlog' = Tail(backlog)
  /\ UNCHANGED <<up, exhausted, thread, pipeFd, file, client, sock, data, lost>>

LEMMA AcceptEffect ==
  ASSUME IInv, Accept
  PROVE  \E c \in Clients, fd \in Fds : Takes(c, fd)
<1>1. Head(backlog) \in Clients
  BY DEF Accept, IInv, TypeOK
<1> QED
  BY <1>1, LowestIsFree DEF Accept, Takes

LEMMA CallRecvmsgEffect ==
  ASSUME IInv, NEW t \in Clients, CallRecvmsg(t)
  PROVE  /\ At(t, "loop") /\ Goto(t, "recv") /\ file' = [file EXCEPT ![t] = Conn(t)]
         /\ UNCHANGED <<open, up, exhausted, backlog, accepted, connFd, pipeFd,
                        client, sock, data, lost>>
<1>1. connFd[t] \in Fds /\ open[connFd[t]] = Conn(t)
  BY DEF CallRecvmsg, At, IInv, TableInv, OwnDescriptors, HasConn
<1>2. Conn(t)[1] = "conn"
  BY Kinds
<1> QED
  BY <1>1, <1>2 DEF CallRecvmsg

Receives(t) ==
  /\ At(t, "recv") /\ sock[t] # <<>> /\ sock' = [sock EXCEPT ![t] = Tail(sock[t])]
  /\ UNCHANGED <<up, exhausted, backlog, accepted, connFd, file, client, data>>

Installs(t, fd) ==
  /\ Receives(t) /\ Head(sock[t]) = "pass" /\ open[fd] = Free
  /\ open' = [open EXCEPT ![fd] = Pipe(t)] /\ pipeFd' = [pipeFd EXCEPT ![t] = fd]
  /\ Goto(t, "scan") /\ UNCHANGED lost

InstallsNone(t) ==
  /\ Receives(t) /\ lost' = IF Head(sock[t]) = "pass" THEN lost \cup {t} ELSE lost
  /\ Goto(t, "loop") /\ UNCHANGED <<open, pipeFd>>

LEMMA RecvmsgEffect ==
  ASSUME IInv, NEW t \in Clients, Recvmsg(t)
  PROVE  InstallsNone(t) \/ \E fd \in Fds : Installs(t, fd)
<1>1. file[t] = Conn(t)
  BY DEF Recvmsg, At, IInv, ConnInv
<1>2. file[t][2] = t
  BY <1>1, Kinds
<1> QED
  BY <1>2, LowestIsFree DEF Recvmsg, Receives, Installs, InstallsNone

LEMMA RecvmsgEndEffect ==
  ASSUME IInv, NEW t \in Clients, RecvmsgEnd(t)
  PROVE  /\ At(t, "recv") /\ sock[t] = <<>> /\ Gone(t) /\ Goto(t, "end")
         /\ UNCHANGED <<open, up, exhausted, backlog, accepted, connFd, pipeFd, file,
                        client, sock, data, lost>>
<1>1. file[t] = Conn(t)
  BY DEF RecvmsgEnd, At, IInv, ConnInv
<1>2. file[t][2] = t
  BY <1>1, Kinds
<1> QED
  BY <1>2 DEF RecvmsgEnd

LEMMA ScanControlEffect ==
  ASSUME IInv, HarmlessGarbage, NEW t \in Clients, ScanControl(t)
  PROVE  /\ At(t, "scan") /\ Goto(t, "reply")
         /\ UNCHANGED <<open, up, exhausted, backlog, accepted, connFd, pipeFd, file,
                        client, sock, data, lost>>
<1>1. PICK g \in [1..3 -> Garbage] :
        open' = [fd \in Fds |-> IF \E k \in 1..3 : g[k] = fd THEN Free ELSE open[fd]]
  BY DEF ScanControl
<1>2. \A k \in 1..3 : g[k] \notin Fds
  BY DEF HarmlessGarbage
<1>3. open' = [fd \in Fds |-> open[fd]]
  BY <1>1, <1>2
<1>4. open' = open
  BY <1>3 DEF IInv, TypeOK
<1> QED
  BY <1>4 DEF ScanControl

Dies(t) ==
  /\ At(t, "reply") /\ data[t] = 0 /\ Gone(t) /\ Exit
  /\ UNCHANGED <<exhausted, backlog, accepted, thread, connFd, pipeFd, file,
                 client, sock, data, lost>>

Answers(t) ==
  /\ At(t, "reply") /\ data[t] = 0 /\ ~Gone(t)
  /\ data' = [data EXCEPT ![t] = 1] /\ Goto(t, "close")
  /\ UNCHANGED <<open, up, exhausted, backlog, accepted, connFd, pipeFd, file,
                 client, sock, lost>>

LEMMA ReplyEffect ==
  ASSUME IInv, NEW t \in Clients, Reply(t)
  PROVE  Dies(t) \/ Answers(t)
<1>1. At(t, "reply") /\ up /\ HasPipe(t)
  BY DEF Reply, At, HasPipe
<1>2. open[pipeFd[t]] = Pipe(t) /\ data[t] = 0
  BY <1>1 DEF At, IInv, OwnDescriptors, PassInv
<1>3. Pipe(t)[1] = "pipe" /\ Pipe(t)[2] = t
  BY Kinds
<1>4. [data EXCEPT ![t] = @ + 1] = [data EXCEPT ![t] = 1]
  BY <1>2
<1> QED
  BY <1>1, <1>2, <1>3, <1>4 DEF Reply, Dies, Answers

Effect(t) ==
  \/ CallRecvmsg(t) \/ InstallsNone(t) \/ (\E fd \in Fds : Installs(t, fd))
  \/ RecvmsgEnd(t) \/ ScanControl(t) \/ Dies(t) \/ Answers(t)
  \/ ClosePipe(t) \/ CloseConn(t)

LEMMA StepEffect ==
  ASSUME IInv, Next
  PROVE  \/ \E c \in Clients, fd \in Fds : Takes(c, fd)
         \/ AcceptFails \/ Spawn \/ SpawnFails
         \/ \E c \in Clients : Effect(c) \/ Client(c) \/ Kill(c)
  BY AcceptEffect, RecvmsgEffect, ReplyEffect DEF Next, MainThread, Handler, Effect

(* Types.  That a pipe gets one answer at most is from the rest of the     *)
(* invariant: the descriptor is in one message, and that with one thread.  *)
LEMMA StepTypes ==
  ASSUME IInv, HarmlessGarbage, Next
  PROVE  TypeOK'
<1> USE DEF IInv, TypeOK, server, client, Goto, Exit
<1>1. CASE Accept
  <2>1. PICK c \in Clients, fd \in Fds : Takes(c, fd)
    BY <1>1, AcceptEffect
  <2>2. Conn(c) \in Objects /\ Tail(backlog) \in Seq(Clients)
    BY <2>1 DEF Objects, Takes
  <2> QED
    BY <2>1, <2>2 DEF Takes
<1>2. CASE AcceptFails
  BY <1>2 DEF AcceptFails, Objects
<1>3. CASE Spawn
  BY <1>3 DEF Spawn
<1>4. CASE SpawnFails
  BY <1>4 DEF SpawnFails, Objects
<1>5. ASSUME NEW t \in Clients, CallRecvmsg(t) PROVE TypeOK'
  <2>1. Conn(t) \in Objects
    BY DEF Objects
  <2> QED
    BY <1>5, <2>1, CallRecvmsgEffect
<1>6. ASSUME NEW t \in Clients, Recvmsg(t) PROVE TypeOK'
  <2>1. ASSUME Receives(t) PROVE Tail(sock[t]) \in Seq({"plain", "pass"})
    BY <2>1 DEF Receives
  <2>2. CASE InstallsNone(t)
    BY <2>1, <2>2 DEF InstallsNone, Receives
  <2>3. ASSUME NEW fd \in Fds, Installs(t, fd) PROVE TypeOK'
    <3>1. Pipe(t) \in Objects
      BY DEF Objects
    <3> QED
      BY <2>1, <2>3, <3>1 DEF Installs, Receives
  <2> QED
    BY <1>6, <2>2, <2>3, RecvmsgEffect
<1>7. ASSUME NEW t \in Clients, RecvmsgEnd(t) PROVE TypeOK'
  BY <1>7 DEF RecvmsgEnd
<1>8. ASSUME NEW t \in Clients, ScanControl(t) PROVE TypeOK'
  BY <1>8, ScanControlEffect
<1>9. ASSUME NEW t \in Clients, Reply(t) PROVE TypeOK'
  BY <1>9, ReplyEffect DEF Dies, Answers, Objects
<1>10. ASSUME NEW t \in Clients, ClosePipe(t) PROVE TypeOK'
  BY <1>10 DEF ClosePipe, Objects
<1>11. ASSUME NEW t \in Clients, CloseConn(t) PROVE TypeOK'
  BY <1>11 DEF CloseConn, Objects
<1>12. ASSUME NEW c \in Clients, Connect(c) PROVE TypeOK'
  <2>1. Append(backlog, c) \in Seq(Clients)
    OBVIOUS
  <2> QED
    BY <1>12, <2>1 DEF Connect, Ended
<1>13. ASSUME NEW c \in Clients, Send(c) PROVE TypeOK'
  <2>1. Append(sock[c], "plain") \in Seq({"plain", "pass"})
    OBVIOUS
  <2>2. CASE Attached(c)
    BY <1>13, <2>1, <2>2 DEF Send
  <2>3. CASE ~Attached(c)
    BY <1>13, <2>3 DEF Send, Ended
  <2> QED
    BY <2>2, <2>3
<1>14. ASSUME NEW c \in Clients, Pass(c) PROVE TypeOK'
  <2>1. Append(sock[c], "pass") \in Seq({"plain", "pass"})
    OBVIOUS
  <2>2. CASE Attached(c)
    <3>1. sock' = [sock EXCEPT ![c] = Append(sock[c], "pass")]
      BY <1>14, <2>2 DEF Pass
    <3>2. sock' \in [Clients -> Seq({"plain", "pass"})]
      BY <2>1, <3>1
    <3> QED
      BY <1>14, <2>2, <3>2 DEF Pass
  <2>3. CASE ~Attached(c)
    BY <1>14, <2>3 DEF Pass, Ended
  <2> QED
    BY <2>2, <2>3
<1>15. ASSUME NEW c \in Clients, Drop(c) PROVE TypeOK'
  BY <1>15 DEF Drop
<1>16. ASSUME NEW c \in Clients, Read(c) PROVE TypeOK'
  BY <1>16 DEF Read, Ended
<1>17. ASSUME NEW c \in Clients, Kill(c) PROVE TypeOK'
  BY <1>17 DEF Kill, Ended
<1> QED
  BY <1>1, <1>2, <1>3, <1>4, <1>5, <1>6, <1>7, <1>8, <1>9, <1>10, <1>11, <1>12,
     <1>13, <1>14, <1>15, <1>16, <1>17 DEF Next, MainThread, Handler, Client

(* The way of a connection, from the client that makes it to its thread.   *)
LEMMA StepConn ==
  ASSUME IInv, HarmlessGarbage, Next
  PROVE  ConnInv'
<1> USE DEF IInv, TypeOK, ConnInv, server, client, Goto, At, Gone
<1>1. ASSUME NEW d \in Clients, NEW fd \in Fds, Takes(d, fd) PROVE ConnInv'
  <2>1. /\ Contains(backlog, d) /\ ~Contains(Tail(backlog), d)
        /\ \A c : AtMostOnce(backlog, c) => AtMostOnce(Tail(backlog), c)
        /\ \A c : c # d => (Contains(backlog, c) <=> Contains(Tail(backlog), c))
    BY <1>1, ContainsTail, OnceTail DEF Takes
  <2> QED
    BY <1>1, <2>1 DEF Takes
<1>2. CASE AcceptFails \/ SpawnFails
  BY <1>2 DEF AcceptFails, SpawnFails, Exit
<1>3. CASE Spawn
  BY <1>3 DEF Spawn
<1>4. ASSUME NEW t \in Clients, CallRecvmsg(t) PROVE ConnInv'
  <2>1. /\ thread[t] = "loop" /\ thread' = [thread EXCEPT ![t] = "recv"]
        /\ file' = [file EXCEPT ![t] = Conn(t)]
        /\ UNCHANGED <<up, backlog, accepted, pc>>
    BY <1>4, CallRecvmsgEffect
  <2> QED
    BY <2>1
<1>5. ASSUME NEW t \in Clients, InstallsNone(t) \/ \E fd \in Fds : Installs(t, fd)
      PROVE  ConnInv'
  BY <1>5 DEF InstallsNone, Installs, Receives
<1>6. ASSUME NEW t \in Clients, RecvmsgEnd(t) PROVE ConnInv'
  BY <1>6, RecvmsgEndEffect
<1>7. ASSUME NEW t \in Clients, ScanControl(t) PROVE ConnInv'
  BY <1>7, ScanControlEffect
<1>8. ASSUME NEW t \in Clients, Dies(t) \/ Answers(t) PROVE ConnInv'
  BY <1>8 DEF Dies, Answers, Exit
<1>9. ASSUME NEW t \in Clients, ClosePipe(t) \/ CloseConn(t) PROVE ConnInv'
  BY <1>9 DEF ClosePipe, CloseConn
<1>10. ASSUME NEW c \in Clients, Connect(c) PROVE ConnInv'
  <2>1. CASE up
    <3>1. /\ \A d \in Clients : AtMostOnce(Append(backlog, c), d)
          /\ \A d : Contains(Append(backlog, c), d) <=> Contains(backlog, d) \/ d = c
      BY <1>10, ContainsAppend, OnceAppend DEF Connect
    <3>2. /\ pc[c] = "connect" /\ pc' = [pc EXCEPT ![c] = "send"]
          /\ backlog' = Append(backlog, c) /\ UNCHANGED <<up, accepted, thread, file>>
      BY <1>10, <2>1 DEF Connect
    <3> QED
      BY <3>1, <3>2 DEF Ended
  <2>2. CASE ~up
    <3>1. /\ pc[c] = "connect" /\ pc' = [pc EXCEPT ![c] = "refused"]
          /\ UNCHANGED <<up, backlog, accepted, thread, file>>
      BY <1>10, <2>2 DEF Connect
    <3> QED
      BY <2>2, <3>1 DEF Ended
  <2> QED
    BY <2>1, <2>2
<1>11. ASSUME NEW c \in Clients, Send(c) \/ Pass(c) PROVE ConnInv'
  <2>1. PICK where \in {"pass", "drop", "piped"} :
          /\ pc[c] \in {"send", "pass"} /\ pc' = [pc EXCEPT ![c] = where]
          /\ UNCHANGED <<up, backlog, accepted, thread, file>>
    BY <1>11 DEF Send, Pass
  <2> QED
    BY <2>1 DEF Ended
<1>12. ASSUME NEW c \in Clients, Drop(c) \/ Read(c) \/ Kill(c) PROVE ConnInv'
  <2>1. PICK where \in {"read", "done", "killed"} :
          /\ pc' = [pc EXCEPT ![c] = where] /\ pc[c] \notin Ended
          /\ where = "read" => pc[c] = "drop"
          /\ UNCHANGED <<up, backlog, accepted, thread, file>>
    BY <1>12 DEF Drop, Read, Kill, Ended
  <2> QED
    BY <2>1 DEF Ended
<1> QED
  BY <1>1, <1>2, <1>3, <1>4, <1>5, <1>6, <1>7, <1>8, <1>9, <1>10, <1>11, <1>12,
     StepEffect DEF Effect, Client

(* A step that leaves the descriptors and their owners as they are.        *)
LEMMA SameOwners ==
  ASSUME IInv, UNCHANGED <<up, open, connFd, pipeFd>>,
         \A t \in Clients : (HasConn(t)' <=> HasConn(t)) /\ (HasPipe(t)' <=> HasPipe(t))
  PROVE  TableInv' /\ OwnDescriptors'
<1>1. TableInv'
  BY DEF IInv, TableInv
<1>2. OwnDescriptors'
  BY DEF IInv, OwnDescriptors
<1> QED
  BY <1>1, <1>2

(* The descriptors given out: the number is nobody's.                      *)
LEMMA StepOpens ==
  ASSUME IInv, NEW d \in Clients, NEW fd \in Fds, Takes(d, fd) \/ Installs(d, fd)
  PROVE  TableInv' /\ OwnDescriptors'
<1>1. up /\ up' /\ open[fd] = Free /\ open' \in [Fds -> Objects] /\ fd # Listener
  <2>1. up /\ up' /\ open[fd] = Free
    BY DEF Takes, Installs, Receives, At
  <2>2. open' = [open EXCEPT ![fd] = Conn(d)] \/ open' = [open EXCEPT ![fd] = Pipe(d)]
    BY DEF Takes, Installs
  <2>3. fd # Listener
    BY <2>1, Kinds DEF IInv, TableInv
  <2>4. Conn(d) \in Objects /\ Pipe(d) \in Objects
    BY DEF Objects
  <2> QED
    BY <2>1, <2>2, <2>3, <2>4 DEF IInv, TypeOK
<1>2. CASE Takes(d, fd)
  <2>1. ~HasConn(d)
    <3>1. Contains(backlog, d) /\ accepted = {}
      BY <1>2, ContainsTail DEF Takes, IInv, TypeOK
    <3> QED
      BY <3>1 DEF IInv, ConnInv, HasConn
  <2>2. \A t \in Clients : /\ HasConn(t)' <=> HasConn(t) \/ t = d
                           /\ HasPipe(t)' <=> HasPipe(t)
    BY <1>2 DEF Takes, HasConn, HasPipe
  <2>3. \A t \in Clients : /\ pipeFd'[t] = pipeFd[t]
                           /\ connFd'[t] = IF t = d THEN fd ELSE connFd[t]
    BY <1>2 DEF Takes, IInv, TypeOK
  <2>4. \A k \in Fds : open'[k] = IF k = fd THEN Conn(d) ELSE open[k]
    BY <1>2 DEF Takes, IInv, TypeOK
  <2>5. TableInv'
    BY <1>1, <2>1, <2>2, <2>3, <2>4, Kinds DEF IInv, TableInv
  <2>6. \A t \in Clients : /\ HasConn(t)' => open'[connFd'[t]] = Conn(t)
                           /\ HasPipe(t)' => open'[pipeFd'[t]] = Pipe(t)
    BY <1>1, <2>1, <2>2, <2>3, <2>4, Kinds DEF IInv, TableInv, OwnDescriptors
  <2>7. ASSUME NEW k \in Fds \ {Listener}, open'[k] # Free
        PROVE  \E t \in Clients : \/ HasConn(t)' /\ connFd'[t] = k
                                  \/ HasPipe(t)' /\ pipeFd'[t] = k
    BY <1>1, <2>1, <2>2, <2>3, <2>4, <2>7 DEF IInv, OwnDescriptors
  <2> QED
    BY <2>5, <2>6, <2>7 DEF OwnDescriptors
<1>3. CASE Installs(d, fd)
  <2>1. ~HasPipe(d)
    BY <1>3 DEF Installs, Receives, At, HasPipe
  <2>2. \A t \in Clients : /\ HasConn(t)' <=> HasConn(t)
                           /\ HasPipe(t)' <=> HasPipe(t) \/ t = d
    BY <1>3 DEF Installs, Receives, At, Goto, HasConn, HasPipe, IInv, TypeOK
  <2>3. \A t \in Clients : /\ connFd'[t] = connFd[t]
                           /\ pipeFd'[t] = IF t = d THEN fd ELSE pipeFd[t]
    BY <1>3 DEF Installs, Receives, IInv, TypeOK
  <2>4. \A k \in Fds : open'[k] = IF k = fd THEN Pipe(d) ELSE open[k]
    BY <1>3 DEF Installs, IInv, TypeOK
  <2>5. TableInv'
    BY <1>1, <2>1, <2>2, <2>3, <2>4, Kinds DEF IInv, TableInv
  <2>6. \A t \in Clients : /\ HasConn(t)' => open'[connFd'[t]] = Conn(t)
                           /\ HasPipe(t)' => open'[pipeFd'[t]] = Pipe(t)
    BY <1>1, <2>1, <2>2, <2>3, <2>4, Kinds DEF IInv, TableInv, OwnDescriptors
  <2>7. ASSUME NEW k \in Fds \ {Listener}, open'[k] # Free
        PROVE  \E t \in Clients : \/ HasConn(t)' /\ connFd'[t] = k
                                  \/ HasPipe(t)' /\ pipeFd'[t] = k
    BY <1>1, <2>1, <2>2, <2>3, <2>4, <2>7 DEF IInv, OwnDescriptors
  <2> QED
    BY <2>5, <2>6, <2>7 DEF OwnDescriptors
<1> QED
  BY <1>2, <1>3

(* The descriptors closed: the number is the thread's own.                 *)
LEMMA StepCloses ==
  ASSUME IInv, NEW d \in Clients, ClosePipe(d) \/ CloseConn(d)
  PROVE  TableInv' /\ OwnDescriptors'
<1>1. up /\ up'
  BY DEF ClosePipe, CloseConn, At
<1>2. PICK fd \in Fds :
        /\ open' = [open EXCEPT ![fd] = Free]
        /\ \/ /\ fd = pipeFd[d] /\ HasPipe(d) /\ open[fd] = Pipe(d) /\ ~HasPipe(d)'
              /\ \A t \in Clients : HasConn(t)' <=> HasConn(t)
              /\ \A t \in Clients \ {d} : HasPipe(t)' <=> HasPipe(t)
           \/ /\ fd = connFd[d] /\ HasConn(d) /\ open[fd] = Conn(d) /\ ~HasConn(d)'
              /\ \A t \in Clients : HasPipe(t)' <=> HasPipe(t)
              /\ \A t \in Clients \ {d} : HasConn(t)' <=> HasConn(t)
  <2> USE DEF HasConn, HasPipe, At, Goto
  <2>1. CASE ClosePipe(d)
    <3>1. thread[d] = "close" /\ thread' = [thread EXCEPT ![d] = "loop"]
          /\ open' = [open EXCEPT ![pipeFd[d]] = Free] /\ accepted' = accepted
      BY <2>1 DEF ClosePipe
    <3>2. pipeFd[d] \in Fds /\ open[pipeFd[d]] = Pipe(d)
      BY <1>1, <3>1 DEF IInv, TableInv, OwnDescriptors
    <3> QED
      BY <3>1, <3>2 DEF IInv, TypeOK
  <2>2. CASE CloseConn(d)
    <3>1. thread[d] = "end" /\ thread' = [thread EXCEPT ![d] = "ended"]
          /\ open' = [open EXCEPT ![connFd[d]] = Free] /\ accepted' = accepted
      BY <2>2 DEF CloseConn
    <3>2. connFd[d] \in Fds /\ open[connFd[d]] = Conn(d) /\ d \notin accepted
      BY <1>1, <3>1 DEF IInv, TableInv, OwnDescriptors, ConnInv
    <3> QED
      BY <3>1, <3>2 DEF IInv, TypeOK
  <2> QED
    BY <2>1, <2>2
<1>3. UNCHANGED <<connFd, pipeFd>>
  BY DEF ClosePipe, CloseConn
<1>4. \A k \in Fds : open'[k] = IF k = fd THEN Free ELSE open[k]
  BY <1>2 DEF IInv, TypeOK
<1>5. TableInv'
  BY <1>1, <1>2, <1>3, <1>4, Kinds DEF IInv, TableInv
<1>6. \A t \in Clients : /\ HasConn(t)' => open'[connFd'[t]] = Conn(t)
                         /\ HasPipe(t)' => open'[pipeFd'[t]] = Pipe(t)
  BY <1>1, <1>2, <1>3, <1>4, Kinds DEF IInv, TableInv, OwnDescriptors
<1>7. ASSUME NEW k \in Fds \ {Listener}, open'[k] # Free
      PROVE  \E t \in Clients : \/ HasConn(t)' /\ connFd'[t] = k
                                \/ HasPipe(t)' /\ pipeFd'[t] = k
  <2>1. k # fd /\ open[k] # Free
    BY <1>4, <1>7
  <2>2. PICK t \in Clients : \/ HasConn(t) /\ connFd[t] = k
                             \/ HasPipe(t) /\ pipeFd[t] = k
    BY <1>1, <2>1 DEF IInv, OwnDescriptors
  <2> QED
    BY <1>2, <1>3, <2>1, <2>2
<1> QED
  BY <1>5, <1>6, <1>7 DEF OwnDescriptors

(* The table and its owners.                                               *)
LEMMA StepTable ==
  ASSUME IInv, HarmlessGarbage, Next
  PROVE  TableInv' /\ OwnDescriptors'
<1>1. ASSUME NEW d \in Clients, NEW fd \in Fds, Takes(d, fd) \/ Installs(d, fd)
      PROVE  TableInv' /\ OwnDescriptors'
  BY <1>1, StepOpens
<1>2. ASSUME NEW d \in Clients, ClosePipe(d) \/ CloseConn(d)
      PROVE  TableInv' /\ OwnDescriptors'
  BY <1>2, StepCloses
<1>3. CASE up' = FALSE
  BY <1>3 DEF TableInv, OwnDescriptors
<1>4. CASE Spawn
  <2>1. UNCHANGED <<up, open, connFd, pipeFd>>
    BY <1>4 DEF Spawn
  <2>2. \A t \in Clients : (HasConn(t)' <=> HasConn(t)) /\ (HasPipe(t)' <=> HasPipe(t))
    <3>1. PICK c \in accepted : thread' = [thread EXCEPT ![c] = "loop"]
      BY <1>4 DEF Spawn
    <3>2. c \in Clients /\ accepted = {c} /\ thread[c] = "none" /\ accepted' = {}
      BY <1>4, <3>1 DEF Spawn, IInv, TypeOK, ConnInv
    <3> QED
      BY <3>1, <3>2 DEF HasConn, HasPipe, IInv, TypeOK
  <2> QED
    BY <2>1, <2>2, SameOwners
<1>5. ASSUME NEW d \in Clients,
             \/ CallRecvmsg(d) \/ InstallsNone(d) \/ RecvmsgEnd(d)
             \/ ScanControl(d) \/ Answers(d)
      PROVE  TableInv' /\ OwnDescriptors'
  <2>1. /\ UNCHANGED <<up, open, connFd, pipeFd, accepted>>
        /\ \/ thread[d] = "loop" /\ thread' = [thread EXCEPT ![d] = "recv"]
           \/ thread[d] = "recv" /\ thread' = [thread EXCEPT ![d] = "loop"]
           \/ thread[d] = "recv" /\ thread' = [thread EXCEPT ![d] = "end"]
           \/ thread[d] = "scan" /\ thread' = [thread EXCEPT ![d] = "reply"]
           \/ thread[d] = "reply" /\ thread' = [thread EXCEPT ![d] = "close"]
    <3> USE DEF At, Goto
    <3>1. CASE CallRecvmsg(d)
      BY <3>1, CallRecvmsgEffect
    <3>2. CASE InstallsNone(d)
      BY <3>2 DEF InstallsNone, Receives
    <3>3. CASE RecvmsgEnd(d)
      BY <3>3 DEF RecvmsgEnd
    <3>4. CASE ScanControl(d)
      BY <3>4, ScanControlEffect
    <3>5. CASE Answers(d)
      BY <3>5 DEF Answers
    <3> QED
      BY <1>5, <3>1, <3>2, <3>3, <3>4, <3>5
  <2>2. \A t \in Clients : (HasConn(t)' <=> HasConn(t)) /\ (HasPipe(t)' <=> HasPipe(t))
    BY <2>1 DEF HasConn, HasPipe, IInv, TypeOK
  <2> QED
    BY <2>1, <2>2, SameOwners
<1>6. ASSUME NEW c \in Clients, Client(c) \/ Kill(c) PROVE TableInv' /\ OwnDescriptors'
  <2>1. UNCHANGED <<up, open, connFd, pipeFd, accepted, thread>>
    BY <1>6 DEF Client, Connect, Send, Pass, Drop, Read, Kill, server
  <2> QED
    BY <2>1, SameOwners DEF HasConn, HasPipe
<1> QED
  BY <1>1, <1>2, <1>3, <1>4, <1>5, <1>6, StepEffect
  DEF Effect, AcceptFails, SpawnFails, Dies, Exit

(* What a message sent does to the messages not yet received.             *)
LEMMA SentOnce ==
  ASSUME TypeOK, NEW c \in Clients
  PROVE  /\ Contains(Append(sock[c], "plain"), "pass") <=> Contains(sock[c], "pass")
         /\ AtMostOnce(sock[c], "pass") => AtMostOnce(Append(sock[c], "plain"), "pass")
         /\ Contains(Append(sock[c], "pass"), "pass")
         /\ AtMostOnce(sock[c], "pass") /\ ~Contains(sock[c], "pass") =>
              AtMostOnce(Append(sock[c], "pass"), "pass")
<1> DEFINE M == {"plain", "pass"}
<1>1. sock[c] \in Seq(M) /\ "plain" \in M /\ "pass" \in M /\ "plain" # "pass"
  BY DEF TypeOK
<1> HIDE DEF M
<1>2. /\ Contains(Append(sock[c], "plain"), "pass") <=> Contains(sock[c], "pass")
      /\ Contains(Append(sock[c], "pass"), "pass")
  BY <1>1, ContainsAppend
<1>3. /\ AtMostOnce(sock[c], "pass") => AtMostOnce(Append(sock[c], "plain"), "pass")
      /\ AtMostOnce(sock[c], "pass") /\ ~Contains(sock[c], "pass") =>
           AtMostOnce(Append(sock[c], "pass"), "pass")
  BY <1>1, OnceAppend
<1> QED
  BY <1>2, <1>3

(* The way of a pipe.  A client sends one descriptor, which leaves the     *)
(* message when it is received.                                            *)
LEMMA StepPass ==
  ASSUME IInv, HarmlessGarbage, Next
  PROVE  PassInv'
<1> USE DEF IInv, TypeOK, PassInv, Carries, HasPipe, NotPassed, server, client, Goto, At
<1>1. ASSUME NEW d \in Clients, NEW fd \in Fds, Takes(d, fd) PROVE PassInv'
  BY <1>1 DEF Takes
<1>2. CASE AcceptFails \/ SpawnFails
  BY <1>2 DEF AcceptFails, SpawnFails
<1>3. CASE Spawn
  BY <1>3 DEF Spawn, ConnInv
<1>4. ASSUME NEW t \in Clients, InstallsNone(t) PROVE PassInv'
  <2>1. /\ sock[t] # <<>> /\ AtMostOnce(Tail(sock[t]), "pass")
        /\ Carries(t) <=> Head(sock[t]) = "pass" \/ Contains(Tail(sock[t]), "pass")
        /\ Head(sock[t]) = "pass" => ~Contains(Tail(sock[t]), "pass")
    BY <1>4, ContainsTail, OnceTail DEF InstallsNone, Receives
  <2> QED
    BY <1>4, <2>1 DEF InstallsNone, Receives
<1>5. ASSUME NEW t \in Clients, NEW fd \in Fds, Installs(t, fd) PROVE PassInv'
  <2>1. /\ sock[t] # <<>> /\ AtMostOnce(Tail(sock[t]), "pass")
        /\ Carries(t) /\ ~Contains(Tail(sock[t]), "pass")
    BY <1>5, ContainsTail, OnceTail DEF Installs, Receives
  <2> QED
    BY <1>5, <2>1 DEF Installs, Receives
<1>6. ASSUME NEW t \in Clients,
             \/ CallRecvmsg(t) \/ RecvmsgEnd(t) \/ ClosePipe(t) \/ CloseConn(t)
      PROVE  PassInv'
  BY <1>6 DEF CallRecvmsg, RecvmsgEnd, ClosePipe, CloseConn
<1>7. ASSUME NEW t \in Clients, ScanControl(t) PROVE PassInv'
  BY <1>7 DEF ScanControl
<1>8. ASSUME NEW t \in Clients, Dies(t) \/ Answers(t) PROVE PassInv'
  BY <1>8 DEF Dies, Answers
<1>9. ASSUME NEW c \in Clients, Connect(c) PROVE PassInv'
  BY <1>9 DEF Connect
<1>10. ASSUME NEW c \in Clients, Send(c) PROVE PassInv'
  <2>1. /\ AtMostOnce(Append(sock[c], "plain"), "pass")
        /\ Contains(Append(sock[c], "plain"), "pass") <=> Carries(c)
    BY SentOnce
  <2>2. CASE Attached(c)
    <3>1. /\ pc[c] = "send" /\ pc' = [pc EXCEPT ![c] = "pass"]
          /\ sock'[c] = Append(sock[c], "plain")
          /\ \A d \in Clients \ {c} : sock'[d] = sock[d]
          /\ UNCHANGED <<thread, data, lost>>
      BY <1>10, <2>2 DEF Send
    <3>2. AtMostOnce(sock'[c], "pass")
      BY <2>1, <3>1
    <3> QED
      BY <2>1, <3>1, <3>2
  <2>3. CASE ~Attached(c)
    BY <1>10, <2>3 DEF Send
  <2> QED
    BY <2>2, <2>3
<1>11. ASSUME NEW c \in Clients, Pass(c) PROVE PassInv'
  <2>1. ~Carries(c) => AtMostOnce(Append(sock[c], "pass"), "pass")
    BY SentOnce
  <2>2. CASE Attached(c)
    <3>1. /\ pc[c] = "pass" /\ pc' = [pc EXCEPT ![c] = "drop"]
          /\ sock'[c] = Append(sock[c], "pass")
          /\ \A d \in Clients \ {c} : sock'[d] = sock[d]
          /\ UNCHANGED <<thread, data, lost>>
      BY <1>11, <2>2 DEF Pass
    <3>2. AtMostOnce(sock'[c], "pass")
      BY <2>1, <3>1
    <3> QED
      BY <2>1, <3>1, <3>2
  <2>3. CASE ~Attached(c)
    BY <1>11, <2>3 DEF Pass
  <2> QED
    BY <2>2, <2>3
<1>12. ASSUME NEW c \in Clients, Drop(c) \/ Read(c) \/ Kill(c) PROVE PassInv'
  BY <1>12 DEF Drop, Read, Kill, Gone, Ended
<1> QED
  BY <1>1, <1>2, <1>3, <1>4, <1>5, <1>6, <1>7, <1>8, <1>9, <1>10, <1>11, <1>12,
     StepEffect DEF Effect, Client

(* A client whose pipe is under way to an answer is not left without one:  *)
(* the end of the server, a full table and the death of a client excuse.   *)
LEMMA StepWait ==
  ASSUME IInv, HarmlessGarbage, Next
  PROVE  WaitInv' /\ AnswersDelivered'
<1> DEFINE Inv == WaitInv /\ AnswersDelivered
<1> SUFFICES Inv'
  OBVIOUS
<1> USE DEF IInv, TypeOK, WaitInv, AnswersDelivered, Excused, Ruined, AnyKilled, Carries,
            server, client, Goto, At
<1>1. ASSUME NEW d \in Clients, NEW fd \in Fds, Takes(d, fd) PROVE Inv'
  BY <1>1 DEF Takes
<1>2. CASE AcceptFails \/ SpawnFails
  BY <1>2 DEF AcceptFails, SpawnFails, Exit
<1>3. CASE Spawn
  BY <1>3 DEF Spawn, ConnInv
<1>4. ASSUME NEW t \in Clients, InstallsNone(t) PROVE Inv'
  <2>1. Carries(t) <=> Head(sock[t]) = "pass" \/ Contains(Tail(sock[t]), "pass")
    BY <1>4, ContainsTail DEF InstallsNone, Receives
  <2> QED
    BY <1>4, <2>1 DEF InstallsNone, Receives
<1>5. ASSUME NEW t \in Clients, NEW fd \in Fds, Installs(t, fd) PROVE Inv'
  BY <1>5 DEF Installs, Receives
<1>6. ASSUME NEW t \in Clients,
             \/ CallRecvmsg(t) \/ RecvmsgEnd(t) \/ ClosePipe(t) \/ CloseConn(t)
      PROVE  Inv'
  <2>1. /\ thread[t] \notin {"scan", "reply"}
        /\ \E where \in {"recv", "end", "loop", "ended"} :
             thread' = [thread EXCEPT ![t] = where]
        /\ UNCHANGED <<up, exhausted, client, sock, data, lost>>
    BY <1>6 DEF CallRecvmsg, RecvmsgEnd, ClosePipe, CloseConn
  <2> QED
    BY <2>1
<1>7. ASSUME NEW t \in Clients, ScanControl(t) PROVE Inv'
  BY <1>7 DEF ScanControl
<1>8. ASSUME NEW t \in Clients, Answers(t) PROVE Inv'
  BY <1>8 DEF Answers
<1>9. ASSUME NEW t \in Clients, Dies(t) PROVE Inv'
  (* It is a killed client that the server has answered. *)
  <2>1. pc[t] \in {"done", "killed"} /\ t \notin lost /\ up
    BY <1>9 DEF Dies, PassInv, HasPipe, NotPassed, Gone, Ended
  <2>2. AnyKilled
    BY <1>9, <2>1 DEF Dies
  <2> QED
    BY <1>9, <2>2 DEF Dies, Exit
<1>10. ASSUME NEW c \in Clients, Connect(c) PROVE Inv'
  BY <1>10 DEF Connect
<1>11. ASSUME NEW c \in Clients, Send(c) \/ Pass(c) PROVE Inv'
  <2>1. ASSUME ~Attached(c) PROVE ~up
    <3>1. SUFFICES ASSUME up PROVE Attached(c)
      BY <2>1
    <3>2. Contains(backlog, c) \/ HasConn(c)
      BY <1>11, <3>1 DEF Send, Pass, ConnInv, HasConn, Gone, Ended
    <3>3. HasConn(c) => connFd[c] \in Fds /\ open[connFd[c]] = Conn(c)
      BY <3>1 DEF TableInv, OwnDescriptors
    <3> QED
      BY <3>1, <3>2, <3>3 DEF Attached
  <2>2. CASE ~Attached(c)
    <3>1. /\ pc' = [pc EXCEPT ![c] = "piped"] /\ ~up /\ pc[c] \in {"send", "pass"}
          /\ UNCHANGED <<server, wr, answer, sock, data, lost>>
      BY <1>11, <2>1, <2>2 DEF Send, Pass
    <3> QED
      BY <3>1
  <2>3. CASE Attached(c) /\ Send(c)
    <3>1. /\ pc' = [pc EXCEPT ![c] = "pass"] /\ pc[c] = "send"
          /\ sock' = [sock EXCEPT ![c] = Append(sock[c], "plain")]
          /\ UNCHANGED <<server, wr, answer, data, lost>>
      BY <2>3 DEF Send
    <3>2. \A d \in Clients : Carries(d)' <=> Carries(d)
      BY <3>1, SentOnce
    <3> QED
      BY <3>1, <3>2
  <2>4. CASE Attached(c) /\ Pass(c)
    <3>1. /\ pc' = [pc EXCEPT ![c] = "drop"] /\ pc[c] = "pass"
          /\ sock' = [sock EXCEPT ![c] = Append(sock[c], "pass")]
          /\ UNCHANGED <<server, answer, data, lost>>
      BY <2>4 DEF Pass
    <3>2. Carries(c)' /\ \A d \in Clients \ {c} : Carries(d)' <=> Carries(d)
      BY <3>1, SentOnce
    <3> QED
      BY <3>1, <3>2
  <2> QED
    BY <1>11, <2>2, <2>3, <2>4
<1>12. ASSUME NEW c \in Clients, Drop(c) \/ Kill(c) PROVE Inv'
  BY <1>12 DEF Drop, Kill, Gone, Ended
<1>13. ASSUME NEW c \in Clients, Read(c) PROVE Inv'
  <2>1. ASSUME data[c] = 0, ~Writable(c) PROVE Excused(c)
    <3>1. SUFFICES ASSUME ~Excused(c) PROVE FALSE
      OBVIOUS
    <3>2. up /\ (Carries(c) \/ HasPipe(c))
      BY <1>13, <2>1, <3>1 DEF Read, HasPipe
    <3>3. ~HasPipe(c)
      BY <2>1, <3>2 DEF OwnDescriptors, TableInv, Writable, Held
    <3>4. Contains(backlog, c) \/ HasConn(c)
      BY <1>13, <3>2 DEF Read, ConnInv, HasConn, Gone, Ended
    <3>5. HasConn(c) => connFd[c] \in Fds /\ open[connFd[c]] = Conn(c)
      BY <3>2 DEF TableInv, OwnDescriptors
    <3>6. Attached(c)
      BY <3>2, <3>4, <3>5 DEF Attached
    <3> QED
      BY <2>1, <3>2, <3>3, <3>6 DEF Writable, Held
  <2> QED
    BY <1>13, <2>1 DEF Read
<1> QED
  BY <1>1, <1>2, <1>3, <1>4, <1>5, <1>6, <1>7, <1>8, <1>9, <1>10, <1>11, <1>12,
     <1>13, StepEffect DEF Effect, Client

LEMMA StepInv ==
  ASSUME IInv, HarmlessGarbage, [Next]_vars
  PROVE  IInv'
<1>1. CASE Next
  BY <1>1, StepTypes, StepConn, StepTable, StepPass, StepWait DEF IInv
<1>2. CASE UNCHANGED vars
  BY <1>2 DEF vars, server, client, IInv, TypeOK, ConnInv, TableInv, OwnDescriptors, PassInv,
     WaitInv, AnswersDelivered, HasConn, HasPipe, Gone, Carries, Excused, Ruined, AnyKilled
<1> QED
  BY <1>1, <1>2

LEMMA InvHolds ==
  ASSUME HarmlessGarbage
  PROVE  Spec => []IInv
<1>1. Init => IInv
  BY InitInv
<1>2. IInv /\ [Next]_vars => IInv'
  BY StepInv
<1> QED
  BY <1>1, <1>2, PTL DEF Spec

-------------------------------------------------------------------------------
(* Types: a thread's descriptor is one of the table, and a pipe has one    *)
(* answer at most.                                                         *)
THEOREM FdTypes ==
  ASSUME HarmlessGarbage
  PROVE  Spec => []TypeOK
<1>1. IInv => TypeOK
  BY DEF IInv
<1> QED
  BY <1>1, InvHolds, PTL

(* Every descriptor of the server has one owner, and the number an owner   *)
(* is going to use names what it was given. (server.c:55-79, 110-121)      *)
THEOREM FdOwnDescriptors ==
  ASSUME HarmlessGarbage
  PROVE  Spec => []OwnDescriptors
<1>1. IInv => OwnDescriptors
  BY DEF IInv
<1> QED
  BY <1>1, InvHolds, PTL

(* A client reads an end without an answer only for want of a descriptor   *)
(* or a thread, or after a client was killed. (server.c:59-71, 110-121)    *)
THEOREM FdAnswersDelivered ==
  ASSUME HarmlessGarbage
  PROVE  Spec => []AnswersDelivered
<1>1. IInv => AnswersDelivered
  BY DEF IInv
<1> QED
  BY <1>1, InvHolds, PTL

-------------------------------------------------------------------------------
(* The refinement of Handover.  A client has a copy of the write end       *)
(* between Pass and Drop, when it has its message sent, and otherwise      *)
(* none.                                                                   *)
OwnInv == \A c \in Clients : wr[c] => pc[c] = "drop"

LEMMA OwnHolds ==
  ASSUME HarmlessGarbage
  PROVE  Spec => []OwnInv
<1>1. Init => OwnInv
  BY DEF Init, OwnInv
<1>2. ASSUME IInv, OwnInv, Next PROVE OwnInv'
  <2> USE <1>2 DEF OwnInv, IInv, TypeOK
  <2>1. ASSUME UNCHANGED client PROVE OwnInv'
    BY <2>1 DEF client
  <2>2. ASSUME NEW c \in Clients, Connect(c) \/ Send(c) \/ Pass(c) \/ Drop(c) \/ Read(c) \/ Kill(c)
        PROVE  OwnInv'
    BY <2>2 DEF Connect, Send, Pass, Drop, Read, Kill
  <2>3. CASE MainThread
    BY <2>1, <2>3 DEF MainThread, Accept, AcceptFails, Spawn, SpawnFails
  <2>4. ASSUME NEW t \in Clients, Handler(t) PROVE UNCHANGED client
    BY <2>4 DEF Handler, CallRecvmsg, Recvmsg, RecvmsgEnd, ScanControl, Reply, ClosePipe,
       CloseConn
  <2> QED
    BY <2>1, <2>2, <2>3, <2>4 DEF Next, Client
<1>3. ASSUME OwnInv, UNCHANGED vars PROVE OwnInv'
  BY <1>3 DEF OwnInv, vars, client
<1>4. IInv /\ OwnInv /\ [Next]_vars => OwnInv'
  BY <1>2, <1>3
<1> QED
  BY <1>1, <1>4, InvHolds, PTL DEF Spec

(* While the server runs a connection is one of the backlog, of main or of *)
(* a thread, and a pipe is held by a thread or by a message on a           *)
(* connection.                                                             *)
Reached(c) == Contains(backlog, c) \/ HasConn(c)

LEMMA HeldIs ==
  ASSUME IInv, up, NEW c \in Clients
  PROVE  Held(c) <=> HasPipe(c) \/ (Reached(c) /\ Carries(c))
<1> USE DEF IInv, OwnDescriptors, TableInv
<1>1. ASSUME NEW fd \in Fds, open[fd] \in {Conn(c), Pipe(c)}
      PROVE  \/ HasConn(c) /\ open[fd] = Conn(c)
             \/ HasPipe(c) /\ open[fd] = Pipe(c)
  <2>1. open[fd] # Free /\ fd # Listener
    BY <1>1, Kinds
  <2>2. PICK t \in Clients : \/ HasConn(t) /\ connFd[t] = fd
                             \/ HasPipe(t) /\ pipeFd[t] = fd
    BY <2>1
  <2>3. \/ HasConn(t) /\ open[fd] = Conn(t)
        \/ HasPipe(t) /\ open[fd] = Pipe(t)
    BY <2>2
  <2> QED
    BY <1>1, <2>3, Kinds
<1>2. (\E fd \in Fds : open[fd] = Pipe(c)) <=> HasPipe(c)
  BY <1>1, Kinds
<1>3. (\E fd \in Fds : open[fd] = Conn(c)) <=> HasConn(c)
  BY <1>1, Kinds
<1>4. ASSUME NEW t \in Clients, thread[t] = "recv", file[t] = Conn(c) PROVE HasConn(c)
  BY <1>4, Kinds DEF ConnInv, HasConn
<1>5. Attached(c) <=> Reached(c)
  BY <1>3, <1>4 DEF Attached, Reached
<1> QED
  BY <1>2, <1>5 DEF Held, Carries

AllHeld == \A c \in Clients : Held(c) <=> HasPipe(c) \/ (Reached(c) /\ Carries(c))

LEMMA HeldBefore == IInv /\ up => AllHeld
  BY HeldIs DEF AllHeld

LEMMA HeldAfter == IInv' /\ up' => AllHeld'
  BY HeldBefore, PTL

(* What a step has to come to for each client to be one of Handover.       *)
LEMMA CloseStep ==
  ASSUME UNCHANGED <<pc, wr, answer, data>>,
         \A c \in Clients :
           /\ Held(c)' => Held(c)
           /\ Excused(c) => Excused(c)'
           /\ Held(c) => Held(c)' \/ data[c] > 0 \/ Excused(c)' \/ Gone(c)
  PROVE  H!Close
<1>1. \A c \in Clients : Stage(c)' = Stage(c) /\ (Gone(c) => Stage(c) = "over")
  BY DEF Stage, Gone
<1>2. [c \in Clients |-> Stage(c)]' = [c \in Clients |-> Stage(c)]
  BY <1>1
<1>3. H!Fails
  BY DEF H!Fails
<1> QED
  BY <1>1, <1>2, <1>3 DEF H!Close

LEMMA LeaveStep ==
  ASSUME TypeOK, NEW c \in Clients, ~Gone(c),
         \E how \in Ended : pc' = [pc EXCEPT ![c] = how],
         \A d \in Clients :
           /\ wr'[d] <=> wr[d] /\ d # c
           /\ Held(d)' <=> Held(d)
           /\ Excused(d) => Excused(d)',
         UNCHANGED <<data, answer>>
  PROVE  H!Leave(c)
<1>1. \A d \in Clients : Stage(d)' = IF d = c THEN "over" ELSE Stage(d)
  BY DEF TypeOK, Stage, Gone
<1>2. Stage(c) # "over"
  BY DEF Stage
<1>3. H!Fails
  BY DEF H!Fails
<1>4. H!Enter(c, "over")
  BY <1>1 DEF H!Enter
<1> QED
  BY <1>2, <1>3, <1>4 DEF H!Leave

(* The server and the kernel.  A descriptor that is closed is that of an   *)
(* answered pipe, or its client has gone; one that is dropped, and the end *)
(* of the server, excuse.                                                  *)
LEMMA ServerHandover ==
  ASSUME IInv, IInv', HarmlessGarbage, Next,
         \/ \E c \in Clients, fd \in Fds : Takes(c, fd)
         \/ AcceptFails \/ Spawn \/ SpawnFails
         \/ \E t \in Clients : Effect(t)
  PROVE  H!Next
<1> DEFINE Frame == UNCHANGED <<pc, wr, answer, data, lost, exhausted>>
<1>1. ASSUME Exit, UNCHANGED <<pc, wr, answer, data, lost>>, exhausted => exhausted'
      PROVE  H!Close
  <2>1. ~up'
    BY <1>1 DEF Exit
  <2>2. \A c \in Clients : Excused(c)' /\ ~Held(c)'
    BY <1>1, <2>1, Kinds DEF IInv, WaitInv, Excused, Ruined, AnyKilled, Held, Attached, Exit
  <2> QED
    BY <1>1, <2>2, CloseStep
<1>2. ASSUME up, up', Frame,
             \A c \in Clients : /\ (HasPipe(c)' <=> HasPipe(c)) /\ (Reached(c)' <=> Reached(c))
                                /\ (Carries(c)' <=> Carries(c))
      PROVE  H!Close
  <2>1. \A c \in Clients : (Held(c)' <=> Held(c)) /\ (Excused(c)' <=> Excused(c))
    BY <1>2, HeldBefore, HeldAfter DEF AllHeld, Excused, Ruined
  <2> QED
    BY <1>2, <2>1, CloseStep
<1> USE DEF IInv, TypeOK, HasConn, HasPipe, Reached, Carries, At, Goto, client
<1>3. CASE AcceptFails \/ SpawnFails
  <2>1. H!Close
    BY <1>1, <1>3 DEF AcceptFails, SpawnFails
  <2> QED
    BY <2>1 DEF H!Next
<1>4. ASSUME NEW d \in Clients, NEW fd \in Fds, Takes(d, fd) PROVE H!Close
  <2>1. \A c \in Clients :
          /\ Contains(backlog, c) \/ HasConn(c) <=> Contains(backlog', c) \/ HasConn(c)'
          /\ HasPipe(c)' <=> HasPipe(c)
    <3>1. /\ Contains(backlog, d)
          /\ \A c : c # d => (Contains(backlog, c) <=> Contains(Tail(backlog), c))
      BY <1>4, ContainsTail DEF Takes
    <3> QED
      BY <1>4, <3>1 DEF Takes
  <2> QED
    BY <1>2, <1>4, <2>1 DEF Takes
<1>5. CASE Spawn
  <2>1. PICK c \in accepted : thread' = [thread EXCEPT ![c] = "loop"]
    BY <1>5 DEF Spawn
  <2>2. c \in Clients /\ accepted = {c} /\ thread[c] = "none" /\ accepted' = {}
    BY <1>5, <2>1 DEF Spawn, ConnInv
  <2>3. H!Close
    BY <1>2, <1>5, <2>1, <2>2 DEF Spawn
  <2> QED
    BY <2>3 DEF H!Next
<1>6. ASSUME NEW t \in Clients, Dies(t) PROVE H!Close
  BY <1>1, <1>6 DEF Dies
<1>7. ASSUME NEW t \in Clients, CallRecvmsg(t) \/ RecvmsgEnd(t) \/ ScanControl(t) PROVE H!Close
  <2>1. /\ UNCHANGED <<up, backlog, accepted, sock>> /\ Frame /\ up
        /\ \/ thread[t] = "loop" /\ thread' = [thread EXCEPT ![t] = "recv"]
           \/ thread[t] = "recv" /\ thread' = [thread EXCEPT ![t] = "end"]
           \/ thread[t] = "scan" /\ thread' = [thread EXCEPT ![t] = "reply"]
    BY <1>7, CallRecvmsgEffect, RecvmsgEndEffect, ScanControlEffect
  <2> QED
    BY <1>2, <2>1
<1>8. ASSUME NEW t \in Clients, InstallsNone(t) PROVE H!Close
  <2>1. /\ up /\ up' /\ UNCHANGED <<backlog, accepted, pc, wr, answer, data, exhausted>>
        /\ thread[t] = "recv" /\ thread' = [thread EXCEPT ![t] = "loop"]
        /\ sock' = [sock EXCEPT ![t] = Tail(sock[t])]
        /\ lost \subseteq lost' /\ (Head(sock[t]) = "pass" => t \in lost')
        /\ Carries(t) <=> Head(sock[t]) = "pass" \/ Contains(Tail(sock[t]), "pass")
    BY <1>8, ContainsTail DEF InstallsNone, Receives
  <2>2. \A c \in Clients :
          /\ (HasPipe(c)' <=> HasPipe(c)) /\ (Reached(c)' <=> Reached(c))
          /\ Carries(c)' => Carries(c)
          /\ Carries(c) => Carries(c)' \/ Excused(c)'
          /\ Excused(c) => Excused(c)'
    BY <2>1 DEF Excused, Ruined
  <2> QED
    BY <2>1, <2>2, HeldBefore, HeldAfter, CloseStep DEF AllHeld
<1>9. ASSUME NEW t \in Clients, NEW fd \in Fds, Installs(t, fd) PROVE H!Close
  <2>1. /\ up /\ up' /\ UNCHANGED <<backlog, accepted, pc, wr, answer, data, exhausted, lost>>
        /\ thread[t] = "recv" /\ thread' = [thread EXCEPT ![t] = "scan"]
        /\ sock' = [sock EXCEPT ![t] = Tail(sock[t])] /\ Carries(t)
    BY <1>9, ContainsTail DEF Installs, Receives
  <2>2. \A c \in Clients :
          /\ HasPipe(c) \/ (Reached(c) /\ Carries(c)) <=> 
               HasPipe(c)' \/ (Reached(c)' /\ Carries(c)')
          /\ Excused(c) <=> Excused(c)'
    BY <2>1 DEF Excused, Ruined
  <2> QED
    BY <2>1, <2>2, HeldBefore, HeldAfter, CloseStep DEF AllHeld
<1>10. ASSUME NEW t \in Clients, ClosePipe(t) PROVE H!Close
  <2>1. /\ up /\ up' /\ UNCHANGED <<backlog, accepted, sock>> /\ Frame
        /\ thread[t] = "close" /\ thread' = [thread EXCEPT ![t] = "loop"]
    BY <1>10 DEF ClosePipe
  <2>2. data[t] > 0 \/ Excused(t) \/ Gone(t)
    <3>1. ~Carries(t) /\ pc[t] \notin NotPassed
      BY <2>1 DEF PassInv
    <3>2. pc[t] \in {"drop", "read"} \/ Gone(t)
      BY <3>1 DEF NotPassed, Gone, Ended
    <3>3. pc[t] \in {"drop", "read"} => data[t] = 1 \/ Excused(t)
      BY <2>1, <3>1 DEF WaitInv
    <3> QED
      BY <3>2, <3>3
  <2>3. \A c \in Clients :
          /\ (HasPipe(c)' <=> HasPipe(c) /\ c # t) /\ (Reached(c)' <=> Reached(c))
          /\ (Carries(c)' <=> Carries(c)) /\ (Excused(c)' <=> Excused(c))
    BY <2>1 DEF Excused, Ruined
  <2> QED
    BY <2>1, <2>2, <2>3, HeldBefore, HeldAfter, CloseStep DEF AllHeld
<1>11. ASSUME NEW t \in Clients, CloseConn(t) PROVE H!Close
  <2>1. /\ up /\ up' /\ UNCHANGED <<backlog, accepted, sock>> /\ Frame
        /\ thread[t] = "end" /\ thread' = [thread EXCEPT ![t] = "ended"] /\ Gone(t)
    BY <1>11 DEF CloseConn, ConnInv
  <2>2. \A c \in Clients :
          /\ (HasPipe(c)' <=> HasPipe(c)) /\ (Carries(c)' <=> Carries(c))
          /\ (Reached(c)' => Reached(c)) /\ (Reached(c) => Reached(c)' \/ c = t)
          /\ Excused(c)' <=> Excused(c)
    BY <2>1 DEF Excused, Ruined
  <2> QED
    BY <2>1, <2>2, HeldBefore, HeldAfter, CloseStep DEF AllHeld
<1>12. ASSUME NEW t \in Clients, Answers(t) PROVE H!Answer(t)
  <2>1. /\ up /\ up' /\ UNCHANGED <<backlog, accepted, sock, client, lost, exhausted>>
        /\ thread[t] = "reply" /\ thread' = [thread EXCEPT ![t] = "close"]
        /\ data[t] = 0 /\ data' = [data EXCEPT ![t] = 1]
    BY <1>12 DEF Answers
  <2>2. \A c \in Clients :
          /\ Held(c)' <=> Held(c)
          /\ Excused(c)' <=> Excused(c)
          /\ Stage(c)' = Stage(c)
          /\ data'[c] > 0 <=> data[c] > 0 \/ c = t
    <3>1. \A c \in Clients : Held(c)' <=> Held(c)
      BY <2>1, HeldBefore, HeldAfter DEF AllHeld
    <3>2. \A c \in Clients : (Excused(c)' <=> Excused(c)) /\ Stage(c)' = Stage(c)
      BY <2>1 DEF Excused, Ruined, Stage, Gone
    <3>3. \A c \in Clients : data'[c] > 0 <=> data[c] > 0 \/ c = t
      BY <2>1
    <3> QED
      BY <3>1, <3>2, <3>3
  <2>3. Held(t) /\ ~(data[t] > 0)
    BY <2>1, HeldBefore DEF AllHeld
  <2> QED
    BY <2>1, <2>2, <2>3 DEF H!Answer
<1> QED
  BY <1>3, <1>4, <1>5, <1>6, <1>7, <1>8, <1>9, <1>10, <1>11, <1>12 DEF Effect, H!Next

(* The clients.  What a client's step does to its pipe is what its message *)
(* does; the others do not notice.                                         *)
LEMMA ClientHandover ==
  ASSUME IInv, IInv', OwnInv, NEW c \in Clients, Client(c) \/ Kill(c)
  PROVE  H!Next \/ UNCHANGED H!vars
<1> USE DEF IInv, TypeOK, OwnInv
<1>1. ASSUME UNCHANGED <<server, lost>> PROVE \A d \in Clients : sock'[d] = sock[d] =>
        (Held(d)' <=> Held(d))
  BY <1>1 DEF Held, Attached, server
<1>2. ASSUME ~Gone(c), NEW how, pc' = [pc EXCEPT ![c] = how],
             UNCHANGED <<up, lost, exhausted>>
      PROVE  \A d \in Clients : /\ Excused(d) => Excused(d)'
                                /\ how # "killed" => (Excused(d)' <=> Excused(d))
                                /\ d # c => Stage(d)' = Stage(d)
  BY <1>2 DEF Excused, Ruined, Gone, Ended, Stage
<1>3. ASSUME ~Gone(c), NEW how \in Ended, pc' = [pc EXCEPT ![c] = how],
             UNCHANGED <<server, lost, sock, data, answer>>,
             wr' = [wr EXCEPT ![c] = FALSE]
      PROVE  H!Leave(c)
  <2>1. \A d \in Clients : /\ Held(d)' <=> Held(d)
                           /\ Excused(d) => Excused(d)'
                           /\ wr'[d] <=> wr[d] /\ d # c
    BY <1>1, <1>2, <1>3 DEF server
  <2> QED
    BY <1>3, <2>1, LeaveStep
<1>4. CASE Kill(c)
  <2>1. H!Leave(c)
    BY <1>3, <1>4 DEF Kill, Ended
  <2> QED
    BY <2>1 DEF H!Next
<1>5. CASE Connect(c)
  <2>1. CASE up
    <3>1. /\ pc[c] = "connect" /\ pc' = [pc EXCEPT ![c] = "send"]
          /\ \A d \in Clients : Contains(backlog', d) <=> Contains(backlog, d) \/ d = c
          /\ UNCHANGED <<up, exhausted, accepted, thread, wr, answer, sock, data, lost>>
      <4>1. backlog' = Append(backlog, c)
        BY <1>5, <2>1 DEF Connect
      <4>2. \A d : Contains(Append(backlog, c), d) <=> Contains(backlog, d) \/ d = c
        BY ContainsAppend
      <4>3. \A d \in Clients : Contains(backlog', d) <=> Contains(backlog, d) \/ d = c
        BY <4>1, <4>2
      <4> QED
        BY <1>5, <2>1, <4>3 DEF Connect
    <3>2. \A d \in Clients : Held(d)' <=> Held(d)
      <4>1. ~Carries(c)
        BY <3>1 DEF PassInv, NotPassed
      <4>2. \A d \in Clients :
              /\ (HasPipe(d)' <=> HasPipe(d)) /\ (Carries(d)' <=> Carries(d))
              /\ d # c => (Reached(d)' <=> Reached(d))
        BY <3>1 DEF HasPipe, Carries, Reached, HasConn
      <4> QED
        BY <2>1, <3>1, <4>1, <4>2, HeldBefore, HeldAfter DEF AllHeld
    <3>3. \A d \in Clients : (Excused(d)' <=> Excused(d)) /\ Stage(d)' = Stage(d)
      BY <3>1 DEF Excused, Ruined, Stage, Gone, Ended
    <3>4. UNCHANGED H!vars
      BY <3>1, <3>2, <3>3 DEF H!vars
    <3> QED
      BY <3>4
  <2>2. CASE ~up
    <3>1. pc[c] = "connect" /\ pc' = [pc EXCEPT ![c] = "refused"]
          /\ UNCHANGED <<server, lost, sock, data, answer, wr>>
      BY <1>5, <2>2 DEF Connect, server
    <3>2. ~wr[c] /\ wr' = [wr EXCEPT ![c] = FALSE]
      BY <3>1
    <3>3. H!Leave(c)
      BY <1>3, <3>1, <3>2 DEF Gone, Ended
    <3> QED
      BY <3>3 DEF H!Next
  <2> QED
    BY <2>1, <2>2
<1>6. CASE (Send(c) \/ Pass(c)) /\ ~Attached(c)
  <2>1. pc[c] \in {"send", "pass"} /\ pc' = [pc EXCEPT ![c] = "piped"]
        /\ UNCHANGED <<server, lost, sock, data, answer, wr>>
    BY <1>6 DEF Send, Pass
  <2>2. ~wr[c] /\ wr' = [wr EXCEPT ![c] = FALSE]
    BY <2>1
  <2>3. H!Leave(c)
    BY <1>3, <2>1, <2>2 DEF Gone, Ended
  <2> QED
    BY <2>3 DEF H!Next
<1>7. CASE Send(c) /\ Attached(c)
  <2>1. /\ pc[c] = "send" /\ pc' = [pc EXCEPT ![c] = "pass"]
        /\ sock' = [sock EXCEPT ![c] = Append(sock[c], "plain")]
        /\ UNCHANGED <<server, wr, answer, data, lost>>
    BY <1>7 DEF Send
  <2>2. \A d \in Clients : Contains(sock'[d], "pass") <=> Contains(sock[d], "pass")
    BY <2>1, SentOnce
  <2>3. \A d \in Clients : Held(d)' <=> Held(d)
    BY <2>1, <2>2 DEF Held, Attached, server
  <2>4. \A d \in Clients : (Excused(d)' <=> Excused(d)) /\ Stage(d)' = Stage(d)
    BY <2>1 DEF Excused, Ruined, Stage, Gone, Ended, server
  <2>5. UNCHANGED H!vars
    BY <2>1, <2>3, <2>4 DEF H!vars
  <2> QED
    BY <2>5
<1>8. CASE Pass(c) /\ Attached(c)
  <2>1. /\ pc[c] = "pass" /\ pc' = [pc EXCEPT ![c] = "drop"]
        /\ sock' = [sock EXCEPT ![c] = Append(sock[c], "pass")]
        /\ wr' = [wr EXCEPT ![c] = TRUE]
        /\ UNCHANGED <<server, answer, data, lost>>
    BY <1>8 DEF Pass
  <2>2. \A d \in Clients : Held(d)' <=> Held(d) \/ d = c
    <3>1. Attached(c)' /\ Contains(sock'[c], "pass")
      BY <1>8, <2>1, SentOnce DEF Attached, server
    <3>2. \A d \in Clients \ {c} : sock'[d] = sock[d]
      BY <2>1
    <3> QED
      BY <1>1, <2>1, <3>1, <3>2 DEF Held
  <2>3. \A d \in Clients : /\ Excused(d)' <=> Excused(d)
                           /\ Stage(d)' = IF d = c THEN "after" ELSE Stage(d)
    BY <2>1 DEF Excused, Ruined, Stage, Gone, Ended, server
  <2>4. \A d \in Clients : wr'[d] <=> wr[d] \/ d = c
    BY <2>1
  <2>5. H!Enter(c, "after") /\ Stage(c) = "before"
    <3>1. H!Enter(c, "after")
      BY <2>3 DEF H!Enter
    <3>2. Stage(c) = "before"
      BY <2>1 DEF Stage, Gone, Ended
    <3> QED
      BY <3>1, <3>2
  <2>6. H!HandOver(c)
    BY <2>1, <2>2, <2>3, <2>4, <2>5 DEF H!HandOver
  <2> QED
    BY <2>6 DEF H!Next
<1>9. CASE Drop(c)
  <2>1. /\ pc[c] = "drop" /\ pc' = [pc EXCEPT ![c] = "read"]
        /\ wr' = [wr EXCEPT ![c] = FALSE]
        /\ UNCHANGED <<server, answer, sock, data, lost>>
    BY <1>9 DEF Drop
  <2>2. \A d \in Clients : /\ (Held(d)' <=> Held(d)) /\ (wr'[d] <=> wr[d] /\ d # c)
    BY <1>1, <2>1
  <2>3. \A d \in Clients : (Excused(d)' <=> Excused(d)) /\ Stage(d)' = Stage(d)
    BY <2>1 DEF Excused, Ruined, Stage, Gone, Ended, server
  <2>4. Stage(c) = "after"
    BY <2>1 DEF Stage, Gone, Ended
  <2>5. H!Drop(c)
    BY <2>1, <2>2, <2>3, <2>4 DEF H!Drop
  <2> QED
    BY <2>5 DEF H!Next
<1>10. CASE Read(c)
  <2>1. /\ pc[c] = "read" /\ pc' = [pc EXCEPT ![c] = "done"]
        /\ wr' = [wr EXCEPT ![c] = FALSE]
        /\ UNCHANGED <<server, sock, data, lost>>
    BY <1>10 DEF Read
  <2>2. \A d \in Clients : /\ (Held(d)' <=> Held(d)) /\ (wr'[d] <=> wr[d] /\ d # c)
    BY <1>1, <2>1
  <2>3. \A d \in Clients : /\ Excused(d)' <=> Excused(d)
                           /\ Stage(d)' = IF d = c THEN "over" ELSE Stage(d)
    BY <2>1 DEF Excused, Ruined, Stage, Gone, Ended, server
  <2>4. H!Enter(c, "over") /\ Stage(c) = "after"
    <3>1. H!Enter(c, "over")
      BY <2>3 DEF H!Enter
    <3>2. Stage(c) = "after"
      BY <2>1 DEF Stage, Gone, Ended
    <3> QED
      BY <3>1, <3>2
  <2>5. \/ data[c] > 0 /\ answer' = [answer EXCEPT ![c] = "answer"]
        \/ /\ ~(data[c] > 0) /\ ~wr[c] /\ ~Held(c)
           /\ answer' = [answer EXCEPT ![c] = "eof"]
    BY <1>10 DEF Read, Writable
  <2>6. H!Read(c)
    BY <2>1, <2>2, <2>3, <2>4, <2>5 DEF H!Read
  <2> QED
    BY <2>6 DEF H!Next
<1> QED
  BY <1>4, <1>5, <1>6, <1>7, <1>8, <1>9, <1>10 DEF Client

(* The way of a pipe from its client to the answer is that of Handover,    *)
(* whatever becomes of the other clients and of the server: its write end  *)
(* is never closed, lost or left behind too early without an excuse        *)
(* (server.c:59-79, client.c:76-80).                                       *)
THEOREM FdKeepsHandover ==
  ASSUME HarmlessGarbage
  PROVE  Spec => HandoverKept
<1>1. Init => H!Init
  <2> SUFFICES ASSUME Init PROVE H!Init
    OBVIOUS
  <2>1. \A c \in Clients : ~Held(c) /\ ~Excused(c) /\ Stage(c) = "before"
    BY Kinds, ContainsEmpty DEF Init, Held, Excused, Ruined, Stage, Gone, Ended
  <2> QED
    BY <2>1 DEF Init, H!Init
<1>2. IInv /\ IInv' /\ OwnInv /\ Next => H!Next \/ UNCHANGED H!vars
  BY StepEffect, ServerHandover, ClientHandover
<1>3. UNCHANGED vars => UNCHANGED H!vars
  BY DEF vars, server, client, H!vars, Held, Attached, Excused, Ruined, Stage, Gone
<1>4. IInv /\ IInv' /\ OwnInv /\ [Next]_vars => [H!Next]_H!vars
  BY <1>2, <1>3
<1> QED
  BY <1>1, <1>4, InvHolds, OwnHolds, PTL DEF Spec, HandoverKept, H!Spec

(* So what Handover promises holds of these programs too, and no answer    *)
(* comes into a pipe that has been read to its end.                        *)
COROLLARY FdEndExcused ==
  ASSUME HarmlessGarbage
  PROVE  Spec => []H!EndExcused
  BY FdKeepsHandover, H!HandoverEndExcused, PTL DEF HandoverKept
===============================================================================
