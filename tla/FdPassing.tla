------------------------------- MODULE FdPassing -------------------------------
(***************************************************************************)
(* The C server and its clients on Unix (cmd/c-server/server.c,            *)
(* cmd/c-client/client.c) over the calls of libsipc/ipc-unix.c.  Each      *)
(* client connects, sends a message, then a second one that carries the    *)
(* write end of a pipe, and reads from the pipe.  The server accepts in    *)
(* its main thread and runs one thread per connection, which answers on    *)
(* the pipe four seconds later.  All threads share one descriptor table.   *)
(*                                                                         *)
(* The kernel is modelled as far as these programs can tell: descriptor    *)
(* numbers are handed out lowest first and reused, a message carries a     *)
(* reference to the pipe, a pipe is at its end when its write end is open  *)
(* nowhere, a blocked recvmsg holds on to its socket, writing to what      *)
(* nobody can read kills the writer.                                       *)
(***************************************************************************)
EXTENDS Integers, Sequences, SequencesExt

CONSTANTS
  Clients,
  TopFd,     \* the last descriptor number of the server
  Garbage,   \* values of the three ints that ipc_unix_recvmsg reads past the
             \* end of the control message, which nobody has written
  MayDie     \* clients that may be killed at any time

Listener == 3              \* the first number after the standard ones
Fds == Listener..TopFd

ASSUME FdAssumption ==
  /\ TopFd \in Nat /\ TopFd > Listener
  /\ Garbage \subseteq Int \ {Listener} /\ Garbage # {}
  /\ MayDie \subseteq Clients

VARIABLES
  open,       \* the descriptor table of the server
  up,         \* the server runs
  exhausted,  \* its main thread left the loop: no descriptor or no thread
  backlog,    \* connections to be accepted
  accepted,   \* the connection accept has returned, until it has a thread
  thread,     \* where the thread of a connection is
  connFd,     \* its argument: the descriptor of the connection
  pipeFd,     \* its fds[0]
  file,       \* the socket its recvmsg has got hold of
  pc,         \* where a client is
  sock,       \* messages sent on its connection and not received
  wr,         \* it has the write end of its pipe open
  data,       \* answers in its pipe
  answer,     \* what it read from the pipe
  lost        \* clients whose pipe the kernel dropped, the table being full

server == <<open, up, exhausted, backlog, accepted, thread, connFd, pipeFd, file>>
client == <<pc, wr, answer>>
vars == <<server, client, sock, data, lost>>

-------------------------------------------------------------------------------
Free == <<"free">>
Listen == <<"listen">>
Conn(c) == <<"conn", c>>
Pipe(c) == <<"pipe", c>>
Objects == {Free, Listen} \cup {Conn(c) : c \in Clients} \cup {Pipe(c) : c \in Clients}

Ended == {"done", "refused", "piped", "killed"}
Gone(c) == pc[c] \in Ended
FreeFds == {fd \in Fds : open[fd] = Free}

(* The end of the connection that the server has, or will have.            *)
Attached(c) ==
  /\ up
  /\ \/ Contains(backlog, c)
     \/ \E fd \in Fds : open[fd] = Conn(c)
     \/ \E t \in Clients : thread[t] = "recv" /\ file[t] = Conn(c)

(* The write end of the pipe is open outside of the client, or anywhere.   *)
Held(c) ==
  \/ \E fd \in Fds : open[fd] = Pipe(c)
  \/ Attached(c) /\ Contains(sock[c], "pass")
Writable(c) == wr[c] \/ Held(c)

Init ==
  /\ open = [fd \in Fds |-> IF fd = Listener THEN Listen ELSE Free]
  /\ up = TRUE /\ exhausted = FALSE
  /\ backlog = <<>> /\ accepted = {}
  /\ thread = [c \in Clients |-> "none"]
  /\ connFd = [c \in Clients |-> 0] /\ pipeFd = [c \in Clients |-> 0]
  /\ file = [c \in Clients |-> Free]
  /\ pc = [c \in Clients |-> "connect"]
  /\ sock = [c \in Clients |-> <<>>]
  /\ wr = [c \in Clients |-> FALSE] /\ data = [c \in Clients |-> 0]
  /\ answer = [c \in Clients |-> "none"]
  /\ lost = {}

-------------------------------------------------------------------------------
(* The process ends, and with it every thread and every descriptor.        *)
Exit == up' = FALSE /\ open' = [fd \in Fds |-> Free]

(* main: accept. *)
Accept ==
  /\ up /\ accepted = {} /\ backlog # <<>> /\ FreeFds # {}
  /\ LET c == Head(backlog)
         fd == Min(FreeFds)
     IN  /\ open' = [open EXCEPT ![fd] = Conn(c)]
         /\ connFd' = [connFd EXCEPT ![c] = fd]
         /\ accepted' = {c}
  /\ backlog' = Tail(backlog)
  /\ UNCHANGED <<up, exhausted, thread, pipeFd, file, client, sock, data, lost>>

(* accept wants a descriptor before it waits for a connection; without one *)
(* main leaves its loop and returns.                                       *)
AcceptFails ==
  /\ up /\ accepted = {} /\ FreeFds = {}
  /\ Exit /\ exhausted' = TRUE
  /\ UNCHANGED <<backlog, accepted, thread, connFd, pipeFd, file,
                 client, sock, data, lost>>

Spawn ==
  /\ up
  /\ \E c \in accepted : thread' = [thread EXCEPT ![c] = "loop"]
  /\ accepted' = {}
  /\ UNCHANGED <<open, up, exhausted, backlog, connFd, pipeFd, file,
                 client, sock, data, lost>>

SpawnFails ==
  /\ up /\ accepted # {}
  /\ Exit /\ exhausted' = TRUE
  /\ UNCHANGED <<backlog, accepted, thread, connFd, pipeFd, file,
                 client, sock, data, lost>>

-------------------------------------------------------------------------------
(* handler_thread, of the connection of client t.                          *)
At(t, where) == up /\ thread[t] = where
Goto(t, where) == thread' = [thread EXCEPT ![t] = where]

(* The call of recvmsg: it fails unless the descriptor is a connection.    *)
CallRecvmsg(t) ==
  /\ At(t, "loop")
  /\ LET f == IF connFd[t] \in Fds THEN open[connFd[t]] ELSE Free
     IN  IF f[1] = "conn" THEN Goto(t, "recv") /\ file' = [file EXCEPT ![t] = f]
                          ELSE Goto(t, "end") /\ UNCHANGED file
  /\ UNCHANGED <<open, up, exhausted, backlog, accepted, connFd, pipeFd,
                 client, sock, data, lost>>

(* Mutant: handler_thread does not look at how many descriptors have come. *)
RecvmsgUnchecked(t) ==
  /\ At(t, "recv")
  /\ LET d == file[t][2]
     IN  /\ sock[d] # <<>>
         /\ sock' = [sock EXCEPT ![d] = Tail(@)]
         /\ IF Head(sock[d]) = "pass" /\ FreeFds # {}
            THEN /\ open' = [open EXCEPT ![Min(FreeFds)] = Pipe(d)]
                 /\ pipeFd' = [pipeFd EXCEPT ![t] = Min(FreeFds)]
                 /\ UNCHANGED lost
            ELSE /\ lost' = IF Head(sock[d]) = "pass" THEN lost \cup {d} ELSE lost
                 /\ pipeFd' = [pipeFd EXCEPT ![t] = -1] /\ UNCHANGED open
         /\ Goto(t, "scan")
  /\ UNCHANGED <<up, exhausted, backlog, accepted, connFd, file, client, data>>

(* recvmsg returns a message; a pipe in it is installed if there is room   *)
(* for it in the table and dropped otherwise.                              *)
Recvmsg(t) ==
  /\ At(t, "recv")
  /\ LET d == file[t][2]
     IN  /\ sock[d] # <<>>
         /\ sock' = [sock EXCEPT ![d] = Tail(@)]
         /\ IF Head(sock[d]) = "pass" /\ FreeFds # {}
            THEN /\ open' = [open EXCEPT ![Min(FreeFds)] = Pipe(d)]
                 /\ pipeFd' = [pipeFd EXCEPT ![t] = Min(FreeFds)]
                 /\ Goto(t, "scan") /\ UNCHANGED lost
            ELSE /\ lost' = IF Head(sock[d]) = "pass" THEN lost \cup {d} ELSE lost
                 /\ Goto(t, "loop") /\ UNCHANGED <<open, pipeFd>>
  /\ UNCHANGED <<up, exhausted, backlog, accepted, connFd, file, client, data>>

(* recvmsg returns 0: nothing is left and the client has closed.           *)
RecvmsgEnd(t) ==
  /\ At(t, "recv")
  /\ LET d == file[t][2] IN sock[d] = <<>> /\ Gone(d)
  /\ Goto(t, "end")
  /\ UNCHANGED <<open, up, exhausted, backlog, accepted, connFd, pipeFd, file,
                 client, sock, data, lost>>

(* ipc_unix_recvmsg keeps the first descriptor of the control message and  *)
(* closes the others; it takes the control message to be as much longer as *)
(* its header, and so goes on for three more ints.                         *)
ScanControl(t) ==
  /\ At(t, "scan")
  /\ \E g \in [1..3 -> Garbage] :
       open' = [fd \in Fds |-> IF \E k \in 1..3 : g[k] = fd THEN Free ELSE open[fd]]
  /\ Goto(t, "reply")
  /\ UNCHANGED <<up, exhausted, backlog, accepted, connFd, pipeFd, file,
                 client, sock, data, lost>>

(* Mutant: the descriptor is closed first.                                 *)
ReplyClosed(t) ==
  /\ At(t, "reply")
  /\ open' = [open EXCEPT ![pipeFd[t]] = Free]
  /\ Goto(t, "close")
  /\ UNCHANGED <<up, exhausted, backlog, accepted, connFd, pipeFd, file,
                 client, sock, data, lost>>

(* After the sleep: write, to a client that may have gone.                 *)
Reply(t) ==
  /\ At(t, "reply")
  /\ LET f == open[pipeFd[t]]
     IN  IF f[1] \in {"pipe", "conn"} /\ Gone(f[2])
         THEN Exit /\ UNCHANGED <<thread, data>>
         ELSE /\ data' = IF f[1] = "pipe" THEN [data EXCEPT ![f[2]] = @ + 1]
                                          ELSE data
              /\ Goto(t, "close") /\ UNCHANGED <<up, open>>
  /\ UNCHANGED <<exhausted, backlog, accepted, connFd, pipeFd, file,
                 client, sock, lost>>

(* Mutant: the descriptor is kept.                                         *)
ClosePipeNever(t) ==
  /\ At(t, "close")
  /\ Goto(t, "loop")
  /\ UNCHANGED <<open, up, exhausted, backlog, accepted, connFd, pipeFd, file,
                 client, sock, data, lost>>

(* close(fds[0]); then the message is parsed and printed, well-formed or   *)
(* not, and the loop goes on.                                              *)
ClosePipe(t) ==
  /\ At(t, "close")
  /\ open' = [open EXCEPT ![pipeFd[t]] = Free]
  /\ Goto(t, "loop")
  /\ UNCHANGED <<up, exhausted, backlog, accepted, connFd, pipeFd, file,
                 client, sock, data, lost>>

(* Mutant: the thread returns without closing its connection.              *)
CloseConnNever(t) ==
  /\ At(t, "end")
  /\ Goto(t, "ended")
  /\ UNCHANGED <<open, up, exhausted, backlog, accepted, connFd, pipeFd, file,
                 client, sock, data, lost>>

CloseConn(t) ==
  /\ At(t, "end")
  /\ open' = [open EXCEPT ![connFd[t]] = Free]
  /\ Goto(t, "ended")
  /\ UNCHANGED <<up, exhausted, backlog, accepted, connFd, pipeFd, file,
                 client, sock, data, lost>>

-------------------------------------------------------------------------------
(* main of the client c.                                                   *)
Connect(c) ==
  /\ pc[c] = "connect"
  /\ IF up THEN backlog' = Append(backlog, c) /\ pc' = [pc EXCEPT ![c] = "send"]
           ELSE pc' = [pc EXCEPT ![c] = "refused"] /\ UNCHANGED backlog
  /\ UNCHANGED <<open, up, exhausted, accepted, thread, connFd, pipeFd, file,
                 wr, answer, sock, data, lost>>

Send(c) ==
  /\ pc[c] = "send"
  /\ IF Attached(c)
     THEN sock' = [sock EXCEPT ![c] = Append(@, "plain")]
          /\ pc' = [pc EXCEPT ![c] = "pass"]
     ELSE pc' = [pc EXCEPT ![c] = "piped"] /\ UNCHANGED sock
  /\ UNCHANGED <<server, wr, answer, data, lost>>

(* pipe and ipc_unix_sendmsg.                                              *)
Pass(c) ==
  /\ pc[c] = "pass"
  /\ IF Attached(c)
     THEN /\ sock' = [sock EXCEPT ![c] = Append(@, "pass")]
          /\ wr' = [wr EXCEPT ![c] = TRUE]
          /\ pc' = [pc EXCEPT ![c] = "drop"]
     ELSE pc' = [pc EXCEPT ![c] = "piped"] /\ UNCHANGED <<sock, wr>>
  /\ UNCHANGED <<server, answer, data, lost>>

(* Mutant: the client keeps its own copy of the write end.                 *)
DropNever(c) ==
  /\ pc[c] = "drop"
  /\ pc' = [pc EXCEPT ![c] = "read"]
  /\ UNCHANGED <<server, wr, answer, sock, data, lost>>

Drop(c) ==
  /\ pc[c] = "drop"
  /\ wr' = [wr EXCEPT ![c] = FALSE]
  /\ pc' = [pc EXCEPT ![c] = "read"]
  /\ UNCHANGED <<server, answer, sock, data, lost>>

Read(c) ==
  /\ pc[c] = "read"
  /\ \/ data[c] > 0 /\ answer' = [answer EXCEPT ![c] = "answer"]
     \/ data[c] = 0 /\ ~Writable(c) /\ answer' = [answer EXCEPT ![c] = "eof"]
  /\ pc' = [pc EXCEPT ![c] = "done"] /\ wr' = [wr EXCEPT ![c] = FALSE]
  /\ UNCHANGED <<server, sock, data, lost>>

Kill(c) ==
  /\ c \in MayDie /\ ~Gone(c)
  /\ pc' = [pc EXCEPT ![c] = "killed"]
  /\ wr' = [wr EXCEPT ![c] = FALSE]
  /\ UNCHANGED <<server, answer, sock, data, lost>>

-------------------------------------------------------------------------------
MainThread == Accept \/ AcceptFails \/ Spawn \/ SpawnFails
Handler(t) == \/ CallRecvmsg(t) \/ Recvmsg(t) \/ RecvmsgEnd(t) \/ ScanControl(t)
              \/ Reply(t) \/ ClosePipe(t) \/ CloseConn(t)
Client(c) == Connect(c) \/ Send(c) \/ Pass(c) \/ Drop(c) \/ Read(c)

Next == \/ MainThread
        \/ \E c \in Clients : Handler(c) \/ Client(c) \/ Kill(c)

(* Every thread and every process is scheduled; nobody has to be killed.   *)
Spec == /\ Init /\ [][Next]_vars
        /\ WF_vars(MainThread)
        /\ \A c \in Clients : WF_vars(Handler(c)) /\ WF_vars(Client(c))

-------------------------------------------------------------------------------
TypeOK ==
  /\ open \in [Fds -> Objects]
  /\ up \in BOOLEAN /\ exhausted \in BOOLEAN
  /\ backlog \in Seq(Clients) /\ accepted \subseteq Clients
  /\ thread \in [Clients -> {"none", "loop", "recv", "scan", "reply", "close",
                             "end", "ended"}]
  /\ connFd \in [Clients -> {0} \cup Fds] /\ pipeFd \in [Clients -> {0} \cup Fds]
  /\ file \in [Clients -> Objects]
  /\ pc \in [Clients -> {"connect", "send", "pass", "drop", "read"} \cup Ended]
  /\ sock \in [Clients -> Seq({"plain", "pass"})]
  /\ wr \in [Clients -> BOOLEAN] /\ data \in [Clients -> {0, 1}]
  /\ answer \in [Clients -> {"none", "answer", "eof"}]
  /\ lost \subseteq Clients

(* Every descriptor of the server belongs to exactly one thread, and a     *)
(* number a thread is going to use still names what it was given: no       *)
(* thread closes, reads or answers what is another's although numbers are  *)
(* reused as soon as they are closed. (server.c:55-79, 110-121)            *)
HasConn(t) == t \in accepted \/ thread[t] \notin {"none", "ended"}
HasPipe(t) == thread[t] \in {"scan", "reply", "close"}

OwnDescriptors ==
  up => /\ \A t \in Clients : /\ HasConn(t) => open[connFd[t]] = Conn(t)
                              /\ HasPipe(t) => open[pipeFd[t]] = Pipe(t)
        /\ \A fd \in Fds \ {Listener} : open[fd] # Free =>
             \E t \in Clients : \/ HasConn(t) /\ connFd[t] = fd
                                \/ HasPipe(t) /\ pipeFd[t] = fd

(* ipc.md:179: "If you want to listen to a signal or stream data, you      *)
(* create a pipe or socket and send the file descriptor via ancillary data.*)
(* That pipe can then use this same protocol": a client that reads the end *)
(* of its pipe before an answer does so only because the server had no     *)
(* descriptor or no thread left, or because it has ended, which only the   *)
(* answer to a client that was killed makes it do: a client that is killed *)
(* at any other time costs no other its answer. (server.c:59-71, 110-121)  *)
Ruined == ~up /\ \E d \in Clients : pc[d] = "killed"
Excused(c) == c \in lost \/ exhausted \/ Ruined

AnswersDelivered == \A c \in Clients : answer[c] = "eof" => Excused(c)

(* The server, its clients and the kernel pass on the write end of a pipe  *)
(* as Handover says: a descriptor of the server or a message is what keeps *)
(* it open, and neither is closed, lost or left behind with its connection *)
(* before the answer, without an excuse, while its client waits.           *)
(* (server.c:59-79, client.c:76-80)                                        *)
Stage(c) ==
  IF Gone(c) THEN "over" ELSE IF pc[c] \in {"drop", "read"} THEN "after" ELSE "before"

H == INSTANCE Handover WITH
  stage <- [c \in Clients |-> Stage(c)],
  own <- {c \in Clients : wr[c]}, away <- {c \in Clients : Held(c)},
  answered <- {c \in Clients : data[c] > 0},
  excused <- {c \in Clients : Excused(c)}, read <- answer

HandoverKept == H!Spec

(* No client waits forever, whatever becomes of the server: at the latest  *)
(* the end of the last write end wakes it. (client.c:78-80)                *)
ClientsEnd == \A c \in Clients : <>Gone(c)

(* In the end the server has given back all its descriptors: each thread   *)
(* sees its client go, even one that went before it was accepted.          *)
(* (server.c:59-62, 69-70, 79)                                             *)
NothingLeft == <>[](\A fd \in Fds : open[fd] \in {Free, Listen})
===============================================================================
