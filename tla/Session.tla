-------------------------------- MODULE Session -------------------------------
(***************************************************************************)
(* The programs of the repository around one server, where FdPassing does  *)
(* not have them: the C server and the Go server on Windows, over named    *)
(* pipes (cmd/c-server, cmd/go-server, libsipc/ipc-windows.c,              *)
(* go-ipc/windows.go), the Go server on Unix, and as clients c-client,     *)
(* go-client and ipc-rc.  c-client and go-client send messages, the last   *)
(* of which hands over the write end of a pipe, and read the pipe; ipc-rc  *)
(* sends requests and reads one reply to each.                             *)
(*                                                                         *)
(* On Windows the sender puts a handle into the server's process before    *)
(* the message that says its number is sent, and a pipe can be connected   *)
(* to only while the server has an instance of it that nobody has taken.   *)
(* On Unix a message carries the pipe.  Handle numbers, which no two       *)
(* handles of these programs share, are left out; messages are well-formed.*)
(***************************************************************************)
EXTENDS Integers, Sequences, FiniteSets, SequencesExt

CONSTANTS
  CClients, GoClients, RcClients,
  Requests,  \* the number of requests of an ipc-rc
  MayDie,    \* clients that may be killed at any time
  AtMost     \* bound: how many of the clients are started

Clients  == CClients \cup GoClients \cup RcClients
Passing  == CClients \cup GoClients

ASSUME SessionAssumption ==
  /\ CClients \cap GoClients = {} /\ Passing \cap RcClients = {}
  /\ Requests \in Nat /\ MayDie \subseteq Clients /\ AtMost \in Nat

VARIABLES
  platform, lang,  \* what the server runs on and is written in
  up,        \* the server runs
  main,      \* its main thread, on Windows: "create" a pipe instance,
             \* "connect" or "wait" for a client, "spawn" a handler
  taken,     \* the clients that have connected and have no handler
  thread,    \* where the handler of a client's connection is
  closed,    \* the server has closed its end of it
  pc,        \* where a client is
  up2,       \* messages to the server that it has not received,
  down,      \*   and replies that the client has not received
  wr,        \* the client has the write end of its pipe open
  inServer,  \* it is open in the server's process
  data,      \* the pipe has an answer
  answer,    \* what the client has read from the pipe
  unsent,    \* clients whose message went without its handle
  refused,   \* clients whose connection the server has dropped
  done       \* requests an ipc-rc has had replies to

server == <<platform, lang, up, main, taken, thread, closed, refused>>
client == <<pc, wr, answer, done, unsent>>
vars == <<server, client, up2, down, inServer, data>>

-------------------------------------------------------------------------------
Windows == platform = "windows"
Ended == {"absent", "done", "failed", "killed", "turned away"}
Gone(c) == pc[c] \in Ended
Broken(c) == ~up \/ closed[c]

Init ==
  /\ platform \in {"windows", "unix"} /\ lang \in {"C", "Go"}
  /\ platform = "unix" => lang = "Go"
  /\ up = TRUE /\ main = "create" /\ taken = {}
  /\ thread = [c \in Clients |-> "none"]
  /\ closed = [c \in Clients |-> FALSE]
  /\ \E started \in SUBSET Clients :
       /\ Cardinality(started) <= AtMost
       /\ pc = [c \in Clients |-> IF c \in started THEN "connect" ELSE "absent"]
  /\ up2 = [c \in Clients |-> <<>>] /\ down = [c \in Clients |-> 0]
  /\ wr = [c \in Clients |-> FALSE] /\ inServer = [c \in Clients |-> FALSE]
  /\ data = [c \in Clients |-> FALSE] /\ answer = [c \in Clients |-> "none"]
  /\ unsent = {} /\ refused = {}
  /\ done = [c \in Clients |-> 0]

(* The server's process ends, and all that it had open is closed.          *)
Crash ==
  /\ up' = FALSE
  /\ closed' = [c \in Clients |-> TRUE]
  /\ inServer' = [c \in Clients |-> FALSE]

-------------------------------------------------------------------------------
(* The main thread on Windows: ipc_win_accept, or Accept of                *)
(* WinPipeListener.                                                        *)
CreatePipe ==
  /\ up /\ Windows /\ main = "create"
  /\ main' = "connect"
  /\ UNCHANGED <<platform, lang, up, taken, thread, closed, refused,
                 client, up2, down, inServer, data>>

ConnectPipeFatal ==  \* mutant: either server ends when the client has gone
  /\ up /\ Windows /\ main = "connect"
  /\ \/ taken = {} /\ main' = "wait" /\ UNCHANGED <<up, taken, closed, inServer>>
     \/ \E c \in taken :
          IF Gone(c) THEN taken' = {} /\ Crash /\ UNCHANGED main
          ELSE main' = "spawn" /\ UNCHANGED <<up, taken, closed, inServer>>
  /\ UNCHANGED <<platform, lang, thread, refused, client, up2, down, data>>

(* ConnectNamedPipe waits, finds that a client has connected already, or   *)
(* fails because that client has gone: then the C server starts over and   *)
(* the Go server panics.                                                   *)
ConnectPipe ==
  /\ up /\ Windows /\ main = "connect"
  /\ \/ taken = {} /\ main' = "wait" /\ UNCHANGED <<up, taken, closed, inServer>>
     \/ \E c \in taken :
          \/ ~Gone(c) /\ main' = "spawn" /\ UNCHANGED <<up, taken, closed, inServer>>
          \/ /\ Gone(c) /\ taken' = {}
             /\ IF lang = "Go" THEN Crash /\ UNCHANGED main
                ELSE /\ closed' = [closed EXCEPT ![c] = TRUE]
                     /\ main' = "create" /\ UNCHANGED <<up, inServer>>
  /\ UNCHANGED <<platform, lang, thread, refused, client, up2, down, data>>

(* The Go server asks for the client's process first, and panics when it   *)
(* is not told because the client has gone.                                *)
Spawn ==
  /\ up /\ Windows /\ main = "spawn"
  /\ \E c \in taken :
       \/ /\ thread' = [thread EXCEPT ![c] = "read"]
          /\ main' = "create" /\ UNCHANGED <<up, closed, inServer>>
       \/ lang = "Go" /\ Gone(c) /\ Crash /\ UNCHANGED <<thread, main>>
  /\ taken' = {}
  /\ UNCHANGED <<platform, lang, refused, client, up2, down, data>>

SpawnFailsStops ==  \* mutant: as on Unix, the loop is left
  /\ up /\ Windows /\ lang = "C" /\ main = "spawn"
  /\ \E c \in taken : closed' = [closed EXCEPT ![c] = TRUE] /\ refused' = refused \cup {c}
  /\ taken' = {} /\ UNCHANGED main
  /\ UNCHANGED <<platform, lang, up, thread, client, up2, down, inServer, data>>

(* thrd_create fails: the connection is closed and the loop goes on.       *)
SpawnFails ==
  /\ up /\ Windows /\ lang = "C" /\ main = "spawn"
  /\ \E c \in taken : closed' = [closed EXCEPT ![c] = TRUE] /\ refused' = refused \cup {c}
  /\ taken' = {} /\ main' = "create"
  /\ UNCHANGED <<platform, lang, up, thread, client, up2, down, inServer, data>>

(* The Go server on Unix; any of the clients that have connected is taken  *)
(* for the first one.                                                      *)
AcceptUnix ==
  /\ up /\ ~Windows
  /\ \E c \in taken : thread' = [thread EXCEPT ![c] = "read"] /\ taken' = taken \ {c}
  /\ UNCHANGED <<platform, lang, up, main, closed, refused, client, up2, down,
                 inServer, data>>

-------------------------------------------------------------------------------
(* A handler: handler_thread of c-server, handler of go-server.            *)
At(c, where) == up /\ thread[c] = where
Goto(c, where) == thread' = [thread EXCEPT ![c] = where]

(* On Unix the listener is one of package net: its connections are no      *)
(* FileConn, and the handler panics at the type assertion.                 *)
AssertFileConn(c) ==
  /\ At(c, "read") /\ ~Windows
  /\ Crash
  /\ UNCHANGED <<platform, lang, main, taken, thread, refused, client, up2, down, data>>

(* What ipc_parse_handles and ReadFiles find before the message itself.    *)
HasHandle(message) == message = "pass"

ReceiveCloses(c) ==  \* mutant: the handle is closed before it is used
  /\ At(c, "read") /\ Windows /\ up2[c] # <<>>
  /\ up2' = [up2 EXCEPT ![c] = Tail(@)]
  /\ Goto(c, IF HasHandle(Head(up2[c])) THEN "close"
             ELSE IF lang = "Go" THEN "echo" ELSE "read")
  /\ UNCHANGED <<platform, lang, up, main, taken, closed, refused, client, down,
                 inServer, data>>

(* A message is read, parsed and printed, and its handle taken out of it.  *)
Receive(c) ==
  /\ At(c, "read") /\ Windows /\ up2[c] # <<>>
  /\ up2' = [up2 EXCEPT ![c] = Tail(@)]
  /\ Goto(c, IF HasHandle(Head(up2[c])) THEN "answer"
             ELSE IF lang = "Go" THEN "echo" ELSE "read")
  /\ UNCHANGED <<platform, lang, up, main, taken, closed, refused, client, down,
                 inServer, data>>

(* Nothing is left and the client has closed: the C server closes its end, *)
(* in Go the handler returns.                                              *)
ReceiveEnd(c) ==
  /\ At(c, "read") /\ Windows /\ up2[c] = <<>> /\ Gone(c)
  /\ Goto(c, IF lang = "Go" THEN "abandoned" ELSE "end")
  /\ UNCHANGED <<platform, lang, up, main, taken, closed, refused, client, up2, down,
                 inServer, data>>

(* After the sleep.  Writing to a pipe that nobody reads is an error that  *)
(* is ignored.                                                             *)
Answer(c) ==
  /\ At(c, "answer")
  /\ data' = [data EXCEPT ![c] = inServer[c]]
  /\ Goto(c, "close")
  /\ UNCHANGED <<platform, lang, up, main, taken, closed, refused, client, up2, down,
                 inServer>>

CloseHandleNever(c) ==  \* mutant: the handle is kept
  /\ At(c, "close")
  /\ Goto(c, IF lang = "Go" THEN "echo" ELSE "read")
  /\ UNCHANGED <<platform, lang, up, main, taken, closed, refused, client, up2, down,
                 inServer, data>>

CloseHandle(c) ==
  /\ At(c, "close")
  /\ inServer' = [inServer EXCEPT ![c] = FALSE]
  /\ Goto(c, IF lang = "Go" THEN "echo" ELSE "read")
  /\ UNCHANGED <<platform, lang, up, main, taken, closed, refused, client, up2, down,
                 data>>

EchoAgain(c) ==  \* mutant: the handler does not wait for the next message
  /\ At(c, "echo")
  /\ IF Gone(c) THEN Goto(c, "abandoned") /\ UNCHANGED down
     ELSE down' = [down EXCEPT ![c] = @ + 1] /\ down[c] < 2 /\ UNCHANGED thread
  /\ UNCHANGED <<platform, lang, up, main, taken, closed, refused, client, up2,
                 inServer, data>>

(* The Go server sends the message back.                                   *)
Echo(c) ==
  /\ At(c, "echo")
  /\ IF Gone(c) THEN Goto(c, "abandoned") /\ UNCHANGED down
     ELSE Goto(c, "read") /\ down' = [down EXCEPT ![c] = @ + 1]
  /\ UNCHANGED <<platform, lang, up, main, taken, closed, refused, client, up2,
                 inServer, data>>

CloseConnNever(c) ==  \* mutant: the handler returns without it
  /\ At(c, "end")
  /\ Goto(c, "ended")
  /\ UNCHANGED <<platform, lang, up, main, taken, closed, refused, client, up2, down,
                 inServer, data>>

CloseConn(c) ==
  /\ At(c, "end")
  /\ closed' = [closed EXCEPT ![c] = TRUE]
  /\ Goto(c, "ended")
  /\ UNCHANGED <<platform, lang, up, main, taken, refused, client, up2, down,
                 inServer, data>>

(* No Go code closes the connection of a handler that has returned; the    *)
(* finalizer of its file does.                                             *)
Finalize(c) ==
  /\ At(c, "abandoned")
  /\ closed' = [closed EXCEPT ![c] = TRUE]
  /\ Goto(c, "ended")
  /\ UNCHANGED <<platform, lang, up, main, taken, refused, client, up2, down,
                 inServer, data>>

-------------------------------------------------------------------------------
Step(c, where) == pc' = [pc EXCEPT ![c] = where]

ConnectTaken(c) ==  \* mutant: an instance may be taken twice
  /\ pc[c] = "connect"
  /\ IF up /\ (Windows => main \in {"connect", "wait"})
     THEN /\ taken' = taken \cup {c}
          /\ main' = IF main = "wait" THEN "spawn" ELSE main
          /\ Step(c, IF c \in RcClients THEN "request" ELSE "hello")
     ELSE Step(c, "turned away") /\ UNCHANGED <<taken, main>>
  /\ UNCHANGED <<platform, lang, up, thread, closed, refused, wr, answer, done, unsent,
                 up2, down, inServer, data>>

(* ipc_win_connect, Dial: on Windows the instance must be there and free.  *)
Connect(c) ==
  /\ pc[c] = "connect"
  /\ IF up /\ (Windows => main \in {"connect", "wait"} /\ taken = {})
     THEN /\ taken' = taken \cup {c}
          /\ main' = IF main = "wait" THEN "spawn" ELSE main
          /\ Step(c, IF c \in RcClients THEN "request" ELSE "hello")
     ELSE Step(c, "turned away") /\ UNCHANGED <<taken, main>>
  /\ UNCHANGED <<platform, lang, up, thread, closed, refused, wr, answer, done, unsent,
                 up2, down, inServer, data>>

(* The end of the process closes what the client has open.                 *)
Leave(c, how) == Step(c, how) /\ wr' = [wr EXCEPT ![c] = FALSE]

(* What becomes of a write: c-client on Windows takes no notice of an      *)
(* error; on Unix it is killed by it, and go-client panics.                *)
Write(c, message, where) ==
  IF ~Broken(c)
  THEN up2' = [up2 EXCEPT ![c] = Append(@, message)] /\ Step(c, where) /\ UNCHANGED wr
  ELSE /\ IF c \in CClients /\ Windows THEN Step(c, where) /\ UNCHANGED wr
                                       ELSE Leave(c, "failed")
       /\ UNCHANGED up2

(* The first message, which c-client sends twice on Windows.               *)
Hello(c) ==
  /\ pc[c] \in {"hello", "again"}
  /\ Write(c, "plain",
           IF c \in CClients /\ Windows /\ pc[c] = "hello" THEN "again" ELSE "pipe")
  /\ UNCHANGED <<server, answer, done, unsent, down, inServer, data>>

Pipe(c) ==
  /\ pc[c] = "pipe"
  /\ wr' = [wr EXCEPT ![c] = TRUE]
  /\ Step(c, IF Windows THEN "duplicate" ELSE "pass")
  /\ UNCHANGED <<server, answer, done, unsent, up2, down, inServer, data>>

(* ipc_append_handle and the first half of WriteFiles: the handle is       *)
(* duplicated into the process at the other end of the pipe, if that is    *)
(* there.  Where that fails c-client gives up; go-client does so when it   *)
(* may not open the process, and else leaves out the handle.               *)
Duplicate(c) ==
  /\ pc[c] = "duplicate"
  /\ \/ /\ up
        /\ inServer' = [inServer EXCEPT ![c] = TRUE]
        /\ Step(c, IF c \in CClients THEN "drop" ELSE "pass")
        /\ UNCHANGED <<wr, unsent>>
     \/ /\ up /\ c \in GoClients
        /\ unsent' = unsent \cup {c} /\ Step(c, "pass")
        /\ UNCHANGED <<inServer, wr>>
     \/ Leave(c, "failed") /\ UNCHANGED <<inServer, unsent>>
  /\ UNCHANGED <<server, answer, done, up2, down, data>>

(* The last message.                                                       *)
Pass(c) ==
  /\ pc[c] = "pass"
  /\ Write(c, IF c \in unsent THEN "plain" ELSE "pass",
           IF c \in CClients /\ Windows THEN "answer" ELSE "drop")
  /\ UNCHANGED <<server, answer, done, unsent, down, inServer, data>>

DropNever(c) ==  \* mutant: the client keeps its own copy of the write end
  /\ pc[c] = "drop"
  /\ Step(c, IF c \in CClients /\ Windows THEN "pass" ELSE "answer")
  /\ UNCHANGED <<server, wr, answer, done, unsent, up2, down, inServer, data>>

(* The client closes its own copy of the write end; c-client on Windows    *)
(* has still to send its message.                                          *)
Drop(c) ==
  /\ pc[c] = "drop"
  /\ wr' = [wr EXCEPT ![c] = FALSE]
  /\ Step(c, IF c \in CClients /\ Windows THEN "pass" ELSE "answer")
  /\ UNCHANGED <<server, answer, done, unsent, up2, down, inServer, data>>

InTransit(c) == ~Windows /\ ~Broken(c) /\ Contains(up2[c], "pass")
Held(c) == inServer[c] \/ InTransit(c)
Writable(c) == wr[c] \/ Held(c)

ReadAnswer(c) ==
  /\ pc[c] = "answer"
  /\ \/ data[c] /\ answer' = [answer EXCEPT ![c] = "answer"]
     \/ ~data[c] /\ ~Writable(c) /\ answer' = [answer EXCEPT ![c] = "eof"]
  /\ Leave(c, "done")
  /\ UNCHANGED <<server, done, unsent, up2, down, inServer, data>>

(* executor of ipc-rc: whether the write succeeds is not looked at.        *)
Request(c) ==
  /\ pc[c] = "request"
  /\ IF done[c] = Requests THEN Step(c, "done") /\ UNCHANGED up2
     ELSE /\ up2' = IF Broken(c) THEN up2 ELSE [up2 EXCEPT ![c] = Append(@, "plain")]
          /\ Step(c, "reply")
  /\ UNCHANGED <<server, wr, answer, done, unsent, down, inServer, data>>

ReadReply(c) ==
  /\ pc[c] = "reply"
  /\ \/ /\ down[c] > 0
        /\ down' = [down EXCEPT ![c] = @ - 1]
        /\ done' = [done EXCEPT ![c] = @ + 1] /\ Step(c, "request")
     \/ down[c] = 0 /\ Broken(c) /\ Step(c, "failed") /\ UNCHANGED <<down, done>>
  /\ UNCHANGED <<server, wr, answer, unsent, up2, inServer, data>>

Kill(c) ==
  /\ c \in MayDie /\ ~Gone(c)
  /\ Leave(c, "killed")
  /\ UNCHANGED <<server, answer, done, unsent, up2, down, inServer, data>>

-------------------------------------------------------------------------------
Main == CreatePipe \/ ConnectPipe \/ Spawn \/ SpawnFails \/ AcceptUnix
Handler(c) == \/ AssertFileConn(c) \/ Receive(c) \/ ReceiveEnd(c) \/ Answer(c)
              \/ CloseHandle(c) \/ Echo(c) \/ CloseConn(c)
Client(c) == \/ Connect(c) \/ Hello(c) \/ Pipe(c) \/ Duplicate(c) \/ Pass(c) \/ Drop(c)
             \/ ReadAnswer(c) \/ Request(c) \/ ReadReply(c)

Next == \/ Main
        \/ \E c \in Clients : Handler(c) \/ Client(c) \/ Finalize(c) \/ Kill(c)

(* Every thread and process is scheduled, and the garbage collector of Go  *)
(* runs every other minute at the latest; nobody has to be killed.         *)
Spec == /\ Init /\ [][Next]_vars
        /\ WF_vars(Main)
        /\ \A c \in Clients :
             WF_vars(Handler(c)) /\ WF_vars(Client(c)) /\ WF_vars(Finalize(c))

-------------------------------------------------------------------------------
TypeOK ==
  /\ platform \in {"windows", "unix"} /\ lang \in {"C", "Go"}
  /\ up \in BOOLEAN /\ main \in {"create", "connect", "wait", "spawn"}
  /\ taken \subseteq Clients /\ (Windows => Cardinality(taken) <= 1)
  /\ thread \in [Clients -> {"none", "read", "answer", "close", "echo", "end",
                             "abandoned", "ended"}]
  /\ closed \in [Clients -> BOOLEAN]
  /\ pc \in [Clients -> Ended \cup {"connect", "hello", "again", "pipe", "duplicate",
                                    "drop", "pass", "answer", "request", "reply"}]
  /\ up2 \in [Clients -> Seq({"plain", "pass"})] /\ down \in [Clients -> Nat]
  /\ wr \in [Clients -> BOOLEAN] /\ inServer \in [Clients -> BOOLEAN]
  /\ data \in [Clients -> BOOLEAN] /\ answer \in [Clients -> {"none", "answer", "eof"}]
  /\ unsent \subseteq Clients /\ refused \subseteq Clients
  /\ done \in [Clients -> 0..Requests]

(* A handle that is in the server's process has one who knows of it: the   *)
(* client that is about to send its number, a message that says it and     *)
(* that will be read, or the handler that has read it.  It is lost there   *)
(* only when the client is killed in between, or when the server has       *)
(* dropped the connection. (ipc-windows.c:87-104, windows.go:198-213,      *)
(* server.c:36-51)                                                         *)
Known(c) ==
  \/ pc[c] \in {"drop", "pass"}
  \/ Contains(up2[c], "pass") /\ ~closed[c] /\ thread[c] # "abandoned"
  \/ thread[c] \in {"answer", "close"}

HandlesKnown ==
  \A c \in Clients : inServer[c] => Known(c) \/ pc[c] = "killed" \/ c \in refused

(* A client reads the end of its pipe instead of an answer only when the   *)
(* server has ended, or when WriteFiles has left out the handle and said   *)
(* nothing. (windows.go:198-214, server.c:43-51, server.go:46-53)          *)
Excused(c) == ~up \/ c \in unsent

AnswersDelivered == \A c \in Passing : answer[c] = "eof" => Excused(c)

(* On either platform and with either server the write end of a pipe is    *)
(* passed on as Handover says: a handle that is in the server before its   *)
(* message, or the message itself on Unix, keeps it open until the answer, *)
(* and only the end of the server or a handle left out lets go of it while *)
(* the client waits. (ipc-windows.c:73-105, windows.go:182-215,            *)
(* server.c:36-51, server.go:37-44)                                        *)
Stage(c) ==
  IF Gone(c) /\ pc[c] # "absent" THEN "over"
  ELSE IF pc[c] \in {"drop", "answer"} \/ (Windows /\ pc[c] = "pass") THEN "after"
  ELSE "before"

H == INSTANCE Handover WITH
  Clients <- Passing,
  stage <- [c \in Passing |-> Stage(c)],
  own <- {c \in Passing : wr[c]}, away <- {c \in Passing : Held(c)},
  answered <- {c \in Passing : data[c]},
  excused <- {c \in Passing : Excused(c)}, read <- [c \in Passing |-> answer[c]]

HandoverKept == H!Spec

(* No reply is left over when ipc-rc sends its next request, so that every *)
(* reply it reads is the one to the request before.                        *)
(* (rc.go:145-151, server.go:55)                                           *)
RepliesMatch == \A c \in RcClients : pc[c] = "request" => down[c] = 0

(* The server ends only in two cases: the Go server on Unix, which fails   *)
(* on every connection, and on Windows, when a client has gone before      *)
(* Accept has done with it and must takes the error for fatal.             *)
(* (server.c:86-102, server.go:22, 56-62, windows.go:99-110)               *)
ServerStays ==
  [][up /\ ~up' => lang = "Go" /\ (Windows => \E c \in taken : Gone(c))]_vars

(* A server that has not ended always comes back to waiting for a client.  *)
(* (server.c:86-102, server.go:54-62)                                      *)
ServerListens == <>[](~up \/ main = "wait" \/ ~Windows)

(* Every client comes to its end, but for ipc-rc when the server is the    *)
(* one in C, which sends no replies, and for a client whose handle is in   *)
(* the server and whose message about it has been lost with the            *)
(* connection: its pipe never ends. (rc.go:145-151, server.c:93-100,       *)
(* client.c:40-62)                                                         *)
Waits(c) ==
  \/ c \in RcClients /\ lang = "C" /\ pc[c] = "reply"
  \/ c \in refused /\ pc[c] = "answer" /\ inServer[c]

ClientsEnd == \A c \in Clients : <>[](Gone(c) \/ Waits(c))

(* In the end the server has closed the connection of every client that    *)
(* has ended, in Go by the finalizer only. (server.c:53, server.go:22-59)  *)
ConnectionsClosed ==
  \A c \in Clients : <>[](thread[c] # "none" /\ Gone(c) => closed[c])
===============================================================================
