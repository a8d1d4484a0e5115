----------------------------- MODULE SessionProofs -----------------------------
(***************************************************************************)
(* For any clients of the three kinds, any number of requests and any      *)
(* clients that may be killed: types, that a handle put into the server    *)
(* is known there or on its way, that answers are delivered, that replies  *)
(* match requests, and when a server ends.                                 *)
(***************************************************************************)
EXTENDS Session, SequenceLemmas, FiniteSetTheorems

NotConnected == {"absent", "connect", "turned away"}
Carries(c) == Contains(up2[c], "pass")

(* A server that has ended has closed everything; on Windows one client at *)
(* most has connected and has no handler.                                  *)
ServerInv ==
  /\ ~Windows => lang = "Go"
  /\ Windows => \A c, d \in taken : c = d
  /\ ~up => \A c \in Clients : closed[c] /\ ~inServer[c]

(* A connection has a handler after it was taken, and is closed when its   *)
(* client has gone, but for want of a handler.                             *)
ConnInv(c) ==
  /\ pc[c] \in NotConnected => c \notin taken /\ thread[c] = "none" /\ up2[c] = <<>>
  /\ c \in taken \/ pc[c] \in {"absent", "connect"} =>
       thread[c] = "none" /\ (up => ~closed[c])
  /\ thread[c] \in {"abandoned", "end", "ended"} => Gone(c)
  /\ up /\ closed[c] => Gone(c) \/ c \in refused
  /\ ~Windows => thread[c] \in {"none", "read"} /\ (up => ~closed[c])
  /\ pc[c] \in {"hello", "again", "pipe", "duplicate", "drop", "pass", "answer"} =>
       c \in Passing
  /\ pc[c] \in {"request", "reply"} => c \in RcClients
  /\ pc[c] = "duplicate" => Windows

(* The client has sent its handle, or is about to read.                    *)
Sent(c) ==
  \/ pc[c] = "answer"
  \/ pc[c] = "drop" /\ ~(c \in CClients /\ Windows)

(* The way of a handle: it is in one message, then with the handler, which *)
(* answers and closes it.                                                  *)
PassInv(c) ==
  /\ AtMostOnce(up2[c], "pass")
  /\ Carries(c) \/ thread[c] \in {"answer", "close"} \/ data[c] =>
       c \in Passing /\ (Sent(c) \/ pc[c] \in {"done", "failed", "killed"})
  /\ Carries(c) => thread[c] \notin {"answer", "close"} /\ ~data[c]
  /\ up /\ Windows /\ Carries(c) => inServer[c]
  /\ up /\ thread[c] = "answer" => inServer[c]
  /\ thread[c] = "close" => data[c]
  /\ data[c] /\ inServer[c] => thread[c] = "close"
  /\ inServer[c] =>
       c \notin unsent /\ pc[c] \in {"drop", "pass", "answer", "done", "failed", "killed"}
  /\ c \in unsent => pc[c] \in {"pass", "drop", "answer", "done", "failed", "killed"}

(* A handle in the server that its client has told of is in the message or *)
(* with the handler.                                                       *)
HandleInv(c) ==
  inServer[c] /\ c \notin refused =>
    /\ Sent(c) => Carries(c) \/ thread[c] \in {"answer", "close"}
    /\ pc[c] \in {"done", "failed"} => thread[c] \in {"answer", "close"}

(* While the server runs, the write end of a pipe that is going to be read *)
(* is open until there is an answer.                                       *)
AnswerInv(c) ==
  up /\ c \notin unsent =>
    /\ Windows /\ pc[c] \in {"drop", "pass", "answer"} => inServer[c] \/ data[c]
    /\ ~Windows /\ pc[c] \in {"drop", "answer"} => Carries(c)
    /\ c \in Passing => answer[c] # "eof"

(* An ipc-rc has one request under way at most, and none when it is about  *)
(* to send one.                                                            *)
Echoing(c) == IF thread[c] = "echo" THEN 1 ELSE 0

RequestInv(c) ==
  c \in RcClients =>
    /\ Len(up2[c]) + Echoing(c) + down[c] <= 1
    /\ pc[c] \in NotConnected \cup {"request"} =>
         Len(up2[c]) + Echoing(c) + down[c] = 0
    /\ pc[c] = "reply" => done[c] < Requests

ClientInv(c) == ConnInv(c) /\ PassInv(c) /\ HandleInv(c) /\ AnswerInv(c) /\ RequestInv(c)

IInv == TypeOK /\ ServerInv /\ \A c \in Clients : ClientInv(c)

-------------------------------------------------------------------------------
(* Every server runs, nobody has connected. *)
LEMMA InitInv == Init => IInv
<1> SUFFICES ASSUME Init PROVE IInv
  OBVIOUS
<1> USE ContainsEmpty DEF Init
<1>1. TypeOK
  <2>1. taken \subseteq Clients /\ Cardinality(taken) <= 1
    BY FS_EmptySet
  <2>2. pc \in [Clients -> {"connect", "absent"}]
    OBVIOUS
  <2>3. up2 \in [Clients -> Seq({"plain", "pass"})] /\ done \in [Clients -> 0..Requests]
    BY SessionAssumption
  <2> QED
    BY <2>1, <2>2, <2>3 DEF TypeOK, Ended
<1>2. ServerInv
  BY DEF ServerInv, Windows
<1>3. ASSUME NEW c \in Clients PROVE ClientInv(c)
  <2>1. up2[c] = <<>> /\ ~Carries(c) /\ pc[c] \in {"absent", "connect"} /\ thread[c] = "none"
    BY DEF Carries
  <2>2. ConnInv(c)
    BY <2>1 DEF ConnInv
  <2>3. PassInv(c)
    BY <2>1 DEF PassInv, AtMostOnce
  <2>4. HandleInv(c) /\ AnswerInv(c)
    BY <2>1 DEF HandleInv, AnswerInv
  <2>5. RequestInv(c)
    BY <2>1 DEF RequestInv, Echoing
  <2> QED
    BY <2>2, <2>3, <2>4, <2>5 DEF ClientInv
<1> QED
  BY <1>1, <1>2, <1>3 DEF IInv

-------------------------------------------------------------------------------
(* What the main thread does in the states of the invariant: it goes on,   *)
(* it starts a handler, it drops a client, or the server ends.             *)
Still == UNCHANGED <<platform, lang, client, up2, down, data>>

GoesOn ==
  /\ up /\ Windows /\ main' \in {"connect", "wait", "spawn"}
  /\ UNCHANGED <<up, taken, thread, closed, refused, inServer>> /\ Still

Starts(c) ==
  /\ up /\ taken' = taken \ {c} /\ thread' = [thread EXCEPT ![c] = "read"]
  /\ main' \in {main, "create"}
  /\ UNCHANGED <<up, closed, refused, inServer>> /\ Still

Drops(c) ==
  /\ up /\ Windows /\ taken' = taken \ {c} /\ closed' = [closed EXCEPT ![c] = TRUE]
  /\ \/ Gone(c) /\ UNCHANGED refused
     \/ refused' = refused \cup {c}
  /\ main' = "create"
  /\ UNCHANGED <<up, thread, inServer>> /\ Still

Panics(c) ==
  /\ up /\ lang = "Go" /\ Windows /\ Gone(c) /\ Crash /\ taken' = taken \ {c}
  /\ UNCHANGED <<main, thread, refused>> /\ Still

LEMMA MainEffect ==
  ASSUME IInv, Main
  PROVE  GoesOn \/ \E c \in taken : Starts(c) \/ Drops(c) \/ Panics(c)
<1> USE DEF Still, server
<1>1. Windows => \A c \in taken : taken \ {c} = {}
  BY DEF IInv, ServerInv
<1>2. CASE CreatePipe
  BY <1>2 DEF CreatePipe, GoesOn
<1>3. CASE ConnectPipe
  <2>1. CASE taken = {} /\ main' = "wait" /\ UNCHANGED <<up, taken, closed, inServer>>
    BY <1>3, <2>1 DEF ConnectPipe, GoesOn
  <2>2. ASSUME NEW c \in taken, main' = "spawn", UNCHANGED <<up, taken, closed, inServer>>
        PROVE  GoesOn
    BY <1>3, <2>2 DEF ConnectPipe, GoesOn
  <2>3. ASSUME NEW c \in taken, Gone(c), taken' = {},
               IF lang = "Go" THEN Crash /\ UNCHANGED main
               ELSE /\ closed' = [closed EXCEPT ![c] = TRUE]
                    /\ main' = "create" /\ UNCHANGED <<up, inServer>>
        PROVE  Drops(c) \/ Panics(c)
    BY <1>1, <1>3, <2>3 DEF ConnectPipe, Drops, Panics
  <2> QED
    BY <1>3, <2>1, <2>2, <2>3 DEF ConnectPipe
<1>4. CASE Spawn
  <2>1. ASSUME NEW c \in taken, thread' = [thread EXCEPT ![c] = "read"], main' = "create",
               UNCHANGED <<up, closed, inServer>>
        PROVE  Starts(c)
    BY <1>1, <1>4, <2>1 DEF Spawn, Starts
  <2>2. ASSUME NEW c \in taken, lang = "Go" /\ Gone(c) /\ Crash /\ UNCHANGED <<thread, main>>
        PROVE  Panics(c)
    BY <1>1, <1>4, <2>2 DEF Spawn, Panics
  <2> QED
    BY <1>4, <2>1, <2>2 DEF Spawn
<1>5. CASE SpawnFails
  <2>1. PICK c \in taken : closed' = [closed EXCEPT ![c] = TRUE] /\ refused' = refused \cup {c}
    BY <1>5 DEF SpawnFails
  <2>2. Drops(c)
    BY <1>1, <1>5, <2>1 DEF SpawnFails, Drops
  <2> QED
    BY <2>2
<1>6. CASE AcceptUnix
  BY <1>6 DEF AcceptUnix, Starts
<1> QED
  BY <1>2, <1>3, <1>4, <1>5, <1>6 DEF Main

LEMMA ConnectEffect ==
  ASSUME NEW c \in Clients, Connect(c)
  PROVE  /\ pc[c] = "connect" /\ main' \in {main, "spawn"}
         /\ \/ /\ up /\ (Windows => taken = {}) /\ taken' = taken \cup {c}
               /\ pc' = [pc EXCEPT ![c] = IF c \in RcClients THEN "request" ELSE "hello"]
            \/ taken' = taken /\ pc' = [pc EXCEPT ![c] = "turned away"]
         /\ UNCHANGED <<platform, lang, up, thread, closed, refused, wr, answer, done,
                        unsent, up2, down, inServer, data>>
  BY DEF Connect, Step

(* What becomes of the writes of Hello and Pass: a message is sent when    *)
(* the connection is there, and else the client may go on or fail.         *)
Sends(c, m, where) ==
  /\ ~Broken(c) /\ up2' = [up2 EXCEPT ![c] = Append(up2[c], m)]
  /\ pc' = [pc EXCEPT ![c] = where] /\ UNCHANGED wr
  /\ UNCHANGED <<server, answer, done, unsent, down, inServer, data>>

SendsNot(c, where) ==
  /\ Broken(c)
  /\ \/ c \in CClients /\ Windows /\ pc' = [pc EXCEPT ![c] = where] /\ UNCHANGED wr
     \/ pc' = [pc EXCEPT ![c] = "failed"] /\ wr' = [wr EXCEPT ![c] = FALSE]
  /\ UNCHANGED <<server, answer, done, unsent, up2, down, inServer, data>>

LEMMA HelloEffect ==
  ASSUME NEW c \in Clients, Hello(c)
  PROVE  /\ pc[c] \in {"hello", "again"}
         /\ \E where \in {"again", "pipe"} : Sends(c, "plain", where) \/ SendsNot(c, where)
<1> DEFINE where == IF c \in CClients /\ Windows /\ pc[c] = "hello" THEN "again" ELSE "pipe"
<1>1. where \in {"again", "pipe"}
  OBVIOUS
<1>2. /\ pc[c] \in {"hello", "again"} /\ Write(c, "plain", where)
      /\ UNCHANGED <<server, answer, done, unsent, down, inServer, data>>
  BY DEF Hello
<1> HIDE DEF where
<1>3. Sends(c, "plain", where) \/ SendsNot(c, where)
  BY <1>2 DEF Write, Sends, SendsNot, Step, Leave
<1> QED
  BY <1>1, <1>2, <1>3

After(c) == IF c \in CClients /\ Windows THEN "answer" ELSE "drop"

LEMMA PassEffect ==
  ASSUME NEW c \in Clients, Pass(c)
  PROVE  /\ pc[c] = "pass"
         /\ \/ c \in unsent /\ Sends(c, "plain", After(c))
            \/ c \notin unsent /\ Sends(c, "pass", After(c))
            \/ SendsNot(c, After(c))
<1>1. /\ pc[c] = "pass" /\ Write(c, IF c \in unsent THEN "plain" ELSE "pass", After(c))
      /\ UNCHANGED <<server, answer, done, unsent, down, inServer, data>>
  BY DEF Pass, After
<1> QED
  BY <1>1 DEF Write, Sends, SendsNot, Step, Leave

(* Types; on Windows one client at most is taken at a time.                *)
LEMMA StepTypes ==
  ASSUME IInv, Next
  PROVE  TypeOK'
<1> USE DEF IInv, TypeOK, server, client, Goto, Step, Leave
<1>1. CASE GoesOn
  BY <1>1 DEF GoesOn, Still, Windows
<1>2. ASSUME NEW c \in taken, Starts(c) \/ Drops(c) \/ Panics(c) PROVE TypeOK'
  <2>1. taken \ {c} \subseteq Clients /\ (Windows => Cardinality(taken \ {c}) <= 1)
    <3>1. Windows => taken \ {c} = {}
      BY DEF ServerInv
    <3> QED
      <4>1. Cardinality({}) = 0
        BY FS_EmptySet
      <4>2. Windows => Cardinality(taken \ {c}) = 0
        BY <3>1, <4>1, Zenon
      <4>3. taken \ {c} \subseteq Clients
        OBVIOUS
      <4> QED
        BY <4>2, <4>3
  <2>2. taken' = taken \ {c} /\ (Windows' <=> Windows)
    BY <1>2 DEF Starts, Drops, Panics, Still, Windows
  <2>3. CASE Starts(c)
    BY <2>1, <2>2, <2>3 DEF Starts, Still
  <2>4. CASE Drops(c)
    BY <2>1, <2>2, <2>4 DEF Drops, Still
  <2>5. CASE Panics(c)
    BY <2>1, <2>2, <2>5 DEF Panics, Still, Crash
  <2> QED
    BY <1>2, <2>3, <2>4, <2>5
<1>3. ASSUME NEW c \in Clients,
             AssertFileConn(c) \/ ReceiveEnd(c) \/ CloseHandle(c) \/ CloseConn(c) \/ Finalize(c)
      PROVE  TypeOK'
  BY <1>3 DEF AssertFileConn, ReceiveEnd, CloseHandle, CloseConn, Finalize, Crash, Windows
<1>4. ASSUME NEW c \in Clients, Receive(c) PROVE TypeOK'
  <2>1. Tail(up2[c]) \in Seq({"plain", "pass"})
    BY <1>4 DEF Receive
  <2> QED
    BY <1>4, <2>1 DEF Receive, Windows
<1>5. ASSUME NEW c \in Clients, Answer(c) \/ Echo(c) PROVE TypeOK'
  <2>1. CASE Answer(c)
    BY <2>1 DEF Answer, Windows
  <2>2. CASE Echo(c)
    <3>1. CASE Gone(c)
      BY <2>2, <3>1 DEF Echo, Windows
    <3>2. CASE ~Gone(c)
      <4>1. down[c] + 1 \in Nat
        OBVIOUS
      <4> QED
        BY <2>2, <3>2, <4>1 DEF Echo, Windows
    <3> QED
      BY <3>1, <3>2
  <2> QED
    BY <1>5, <2>1, <2>2
<1>6. ASSUME NEW c \in Clients, Connect(c) PROVE TypeOK'
  <2>1. Cardinality({c}) = 1
    BY FS_Singleton
  <2> QED
    <3>1. \E where \in {"request", "hello", "turned away"} : pc' = [pc EXCEPT ![c] = where]
      BY <1>6, ConnectEffect
    <3>2. /\ \/ taken' = taken
             \/ taken' = taken \cup {c} /\ (Windows => taken = {})
          /\ main' \in {main, "spawn"}
          /\ UNCHANGED <<platform, lang, up, thread, closed, refused, wr, answer, done,
                         unsent, up2, down, inServer, data>>
      BY <1>6, ConnectEffect
    <3>3. taken' \subseteq Clients /\ (Windows' => Cardinality(taken') <= 1)
      <4>1. taken = {} => taken \cup {c} = {c}
        OBVIOUS
      <4>2. taken = {} => Cardinality(taken \cup {c}) = 1
        BY <2>1, <4>1, Zenon
      <4>3. Windows' <=> Windows
        BY <3>2 DEF Windows
      <4>4. CASE taken' = taken
        BY <4>3, <4>4
      <4>5. CASE taken' = taken \cup {c} /\ (Windows => taken = {})
        <5>1. Windows => Cardinality(taken') = 1
          BY <4>2, <4>5, Zenon
        <5> QED
          BY <4>3, <4>5, <5>1
      <4> QED
        BY <3>2, <4>4, <4>5
    <3> QED
      <4>1. PICK where \in {"request", "hello", "turned away"} :
              pc' = [pc EXCEPT ![c] = where]
        BY <3>1
      <4>2. pc' \in [Clients -> Ended \cup {"connect", "hello", "again", "pipe", "duplicate",
                                            "drop", "pass", "answer", "request", "reply"}]
        BY <4>1 DEF Ended
      <4> QED
        BY <3>2, <3>3, <4>2
<1>7. ASSUME NEW c \in Clients, Hello(c) \/ Pass(c) PROVE TypeOK'
  <2>1. PICK m \in {"plain", "pass"}, where \in {"again", "pipe", "answer", "drop"} :
          Sends(c, m, where) \/ SendsNot(c, where)
    BY <1>7, HelloEffect, PassEffect DEF After
  <2>2. Append(up2[c], m) \in Seq({"plain", "pass"})
    OBVIOUS
  <2>3. CASE Sends(c, m, where)
    BY <2>2, <2>3 DEF Sends, Windows
  <2>4. CASE SendsNot(c, where)
    <3>1. PICK to \in {where, "failed"} : pc' = [pc EXCEPT ![c] = to]
      BY <2>4 DEF SendsNot
    <3>2. wr' \in [Clients -> BOOLEAN]
      BY <2>4 DEF SendsNot
    <3> QED
      BY <2>4, <3>1, <3>2 DEF SendsNot, Windows, Ended
  <2> QED
    BY <2>1, <2>3, <2>4
<1>8. ASSUME NEW c \in Clients, Pipe(c) \/ Duplicate(c) \/ Drop(c) PROVE TypeOK'
  BY <1>8 DEF Pipe, Duplicate, Drop, Windows, Ended
<1>9. ASSUME NEW c \in Clients, ReadAnswer(c) \/ Kill(c) PROVE TypeOK'
  BY <1>9 DEF ReadAnswer, Kill, Windows, Ended
<1>10. ASSUME NEW c \in Clients, Request(c) PROVE TypeOK'
  <2>1. Append(up2[c], "plain") \in Seq({"plain", "pass"})
    OBVIOUS
  <2>2. CASE done[c] = Requests
    BY <1>10, <2>2 DEF Request, Windows, Ended
  <2>3. CASE done[c] # Requests
    BY <1>10, <2>1, <2>3 DEF Request, Windows
  <2> QED
    BY <2>2, <2>3
<1>11. ASSUME NEW c \in Clients, ReadReply(c) PROVE TypeOK'
  <2>1. c \in RcClients /\ done[c] < Requests
    BY <1>11 DEF ReadReply, ClientInv, ConnInv, RequestInv
  <2>2. done[c] + 1 \in 0..Requests
    BY <2>1, SessionAssumption
  <2> QED
    <3>1. CASE down[c] > 0 /\ down' = [down EXCEPT ![c] = @ - 1]
               /\ done' = [done EXCEPT ![c] = @ + 1] /\ Step(c, "request")
      BY <1>11, <2>2, <3>1 DEF ReadReply, Windows
    <3>2. CASE Step(c, "failed") /\ UNCHANGED <<down, done>>
      BY <1>11, <3>2 DEF ReadReply, Windows, Ended
    <3> QED
      BY <1>11, <3>1, <3>2 DEF ReadReply
<1> QED
  BY <1>1, <1>2, <1>3, <1>4, <1>5, <1>6, <1>7, <1>8, <1>9, <1>10, <1>11, MainEffect
  DEF Next, Handler, Client

LEMMA PlatformFixed ==
  ASSUME IInv, Next
  PROVE  UNCHANGED <<platform, lang>> /\ (Windows' <=> Windows)
<1>1. UNCHANGED <<platform, lang>>
  <2> USE DEF server
  <2>1. CASE Main
    BY <2>1, MainEffect DEF GoesOn, Starts, Drops, Panics, Still
  <2>2. ASSUME NEW c \in Clients, Handler(c) \/ Finalize(c) PROVE UNCHANGED <<platform, lang>>
    BY <2>2 DEF Handler, AssertFileConn, Receive, ReceiveEnd, Answer, CloseHandle, Echo,
       CloseConn, Finalize
  <2>3. ASSUME NEW c \in Clients, Client(c) \/ Kill(c) PROVE UNCHANGED <<platform, lang>>
    BY <2>3 DEF Client, Connect, Hello, Pipe, Duplicate, Pass, Drop, ReadAnswer, Request,
       ReadReply, Kill
  <2> QED
    BY <2>1, <2>2, <2>3 DEF Next
<1> QED
  BY <1>1 DEF Windows

(* A server that has ended takes no handle any more.                       *)
LEMMA StepServer ==
  ASSUME IInv, Next
  PROVE  ServerInv'
<1> USE PlatformFixed DEF IInv, TypeOK, ServerInv, server, client
<1>1. CASE GoesOn
  BY <1>1 DEF GoesOn
<1>2. ASSUME NEW c \in taken, Starts(c) \/ Drops(c) \/ Panics(c) PROVE ServerInv'
  BY <1>2 DEF Starts, Drops, Panics, Crash
<1>3. ASSUME NEW c \in Clients, Handler(c) \/ Finalize(c) PROVE ServerInv'
  BY <1>3 DEF Handler, AssertFileConn, Receive, ReceiveEnd, Answer, CloseHandle, Echo,
     CloseConn, Finalize, At, Crash
<1>4. ASSUME NEW c \in Clients, Connect(c) PROVE ServerInv'
  BY <1>4 DEF Connect
<1>5. ASSUME NEW c \in Clients, Duplicate(c) PROVE ServerInv'
  BY <1>5 DEF Duplicate
<1>6. ASSUME NEW c \in Clients,
             \/ Hello(c) \/ Pipe(c) \/ Pass(c) \/ Drop(c) \/ ReadAnswer(c) \/ Request(c)
             \/ ReadReply(c) \/ Kill(c)
      PROVE  ServerInv'
  BY <1>6 DEF Hello, Pipe, Pass, Drop, ReadAnswer, Request, ReadReply, Kill
<1> QED
  BY <1>1, <1>2, <1>3, <1>4, <1>5, <1>6, MainEffect DEF Next, Client

-------------------------------------------------------------------------------
(* All that the invariant says of a client is about its own state and that *)
(* of the server, and a step of one client or its handler leaves the state *)
(* of the others alone.                                                    *)
Same(d) ==
  /\ pc'[d] = pc[d] /\ thread'[d] = thread[d] /\ closed'[d] = closed[d]
  /\ up2'[d] = up2[d] /\ down'[d] = down[d] /\ inServer'[d] = inServer[d]
  /\ data'[d] = data[d] /\ answer'[d] = answer[d] /\ done'[d] = done[d]
  /\ wr'[d] = wr[d]
  /\ d \in taken' <=> d \in taken
  /\ d \in unsent' <=> d \in unsent
  /\ d \in refused' <=> d \in refused

LEMMA SameInv ==
  ASSUME NEW d \in Clients, ClientInv(d), Same(d), up' = up, Windows' <=> Windows
  PROVE  ClientInv(d)'
<1> USE DEF ClientInv, Same
<1>1. Gone(d)' <=> Gone(d)
  BY DEF Gone
<1>2. (Sent(d)' <=> Sent(d)) /\ (Carries(d)' <=> Carries(d)) /\ Echoing(d)' = Echoing(d)
  BY DEF Sent, Carries, Echoing
<1>3. ConnInv(d)'
  BY <1>1 DEF ConnInv
<1>4. PassInv(d)'
  BY <1>2 DEF PassInv
<1>5. HandleInv(d)' /\ AnswerInv(d)'
  BY <1>2 DEF HandleInv, AnswerInv
<1>6. RequestInv(d)'
  BY <1>2 DEF RequestInv
<1> QED
  BY <1>3, <1>4, <1>5, <1>6

StepOf(c) ==
  \/ c \in taken /\ (Starts(c) \/ Drops(c))
  \/ Receive(c) \/ ReceiveEnd(c) \/ Answer(c) \/ CloseHandle(c) \/ Echo(c) \/ CloseConn(c)
  \/ Finalize(c) \/ Kill(c) \/ Client(c)

LEMMA OthersSame ==
  ASSUME IInv, NEW c \in Clients, StepOf(c), NEW d \in Clients, d # c
  PROVE  Same(d) /\ up' = up
<1> USE DEF IInv, TypeOK, Same, server, client, Goto, Step, Leave
<1>1. CASE Starts(c) \/ Drops(c)
  BY <1>1 DEF Starts, Drops, Still
<1>2. CASE Receive(c) \/ ReceiveEnd(c) \/ Answer(c)
  BY <1>2 DEF Receive, ReceiveEnd, Answer
<1>3. CASE CloseHandle(c) \/ Echo(c) \/ CloseConn(c) \/ Finalize(c)
  BY <1>3 DEF CloseHandle, Echo, CloseConn, Finalize
<1>4. CASE Connect(c)
  <2>1. \/ pc' = [pc EXCEPT ![c] = "request"] \/ pc' = [pc EXCEPT ![c] = "hello"]
        \/ pc' = [pc EXCEPT ![c] = "turned away"]
    BY <1>4, ConnectEffect
  <2>2. pc'[d] = pc[d]
    BY <2>1
  <2>3. d \in taken' <=> d \in taken
    <3>1. taken' = taken \cup {c} \/ taken' = taken
      BY <1>4, ConnectEffect
    <3> QED
      BY ONLY <3>1, d # c
  <2>4. UNCHANGED <<up, thread, closed, refused, wr, answer, done, unsent, up2, down,
                    inServer, data>>
    BY <1>4 DEF Connect
  <2> QED
    BY <2>2, <2>3, <2>4
<1>5. CASE Pipe(c) \/ Drop(c)
  BY <1>5 DEF Pipe, Drop
<1>6. CASE Hello(c)
  BY <1>6, HelloEffect DEF Sends, SendsNot
<1>7. CASE Pass(c)
  BY <1>7, PassEffect DEF Sends, SendsNot
<1>8. CASE Duplicate(c) \/ ReadAnswer(c)
  BY <1>8 DEF Duplicate, ReadAnswer
<1>9. CASE Request(c) \/ ReadReply(c) \/ Kill(c)
  BY <1>9 DEF Request, ReadReply, Kill
<1> QED
  BY <1>1, <1>2, <1>3, <1>4, <1>5, <1>6, <1>7, <1>8, <1>9 DEF StepOf, Client

(* The end of the server closes every connection and every handle.         *)
LEMMA CrashInv ==
  ASSUME IInv, NEW d \in Clients, Crash, taken' \subseteq taken, UNCHANGED <<thread, refused>>,
         Still
  PROVE  ClientInv(d)'
<1>1. /\ ClientInv(d) /\ ~up' /\ closed'[d] /\ ~inServer'[d]
      /\ UNCHANGED <<platform, pc, up2, down, data, answer, done, unsent>>
  BY DEF IInv, Crash, Still, client
<1> USE <1>1 DEF ClientInv
<1>2. ConnInv(d)'
  BY DEF ConnInv, Gone, Windows, Still
<1>3. PassInv(d)'
  BY DEF PassInv, Sent, Carries, Windows
<1>4. HandleInv(d)' /\ AnswerInv(d)'
  BY DEF HandleInv, AnswerInv
<1>5. RequestInv(d)'
  BY DEF RequestInv, Echoing
<1> QED
  BY <1>2, <1>3, <1>4, <1>5

-------------------------------------------------------------------------------
(* What each step does to the client it is about, first those of the       *)
(* server: its main thread and the handler.                                *)
LEMMA StartsInv ==
  ASSUME IInv, NEW c \in taken, Starts(c)
  PROVE  ClientInv(c)'
<1>1. /\ c \in Clients /\ ClientInv(c) /\ thread'[c] = "read" /\ c \notin taken'
      /\ UNCHANGED <<platform, up, closed, refused, inServer, pc, answer, done, unsent,
                     up2, down, data>>
  BY DEF IInv, TypeOK, Starts, Still, client
<1> USE <1>1 DEF ClientInv
<1>2. ConnInv(c)'
  BY DEF ConnInv, Gone, Windows, NotConnected
<1>3. PassInv(c)'
  BY DEF PassInv, ConnInv, Sent, Carries, Windows
<1>4. HandleInv(c)' /\ AnswerInv(c)'
  BY DEF HandleInv, AnswerInv, ConnInv, Sent, Carries, Windows
<1>5. RequestInv(c)'
  BY DEF RequestInv, ConnInv, Echoing
<1> QED
  BY <1>2, <1>3, <1>4, <1>5

LEMMA DropsInv ==
  ASSUME IInv, NEW c \in taken, Drops(c)
  PROVE  ClientInv(c)'
<1>1. /\ c \in Clients /\ ClientInv(c) /\ closed'[c] /\ c \notin taken'
      /\ (Gone(c) /\ refused' = refused) \/ c \in refused'
      /\ c \in refused => c \in refused'
      /\ up /\ Windows
      /\ UNCHANGED <<platform, up, thread, inServer, pc, answer, done, unsent, up2, down,
                     data>>
  BY DEF IInv, TypeOK, Drops, Still, client
<1> USE <1>1 DEF ClientInv
<1>2. ConnInv(c)'
  BY DEF ConnInv, Gone, Windows, NotConnected
<1>3. PassInv(c)'
  BY DEF PassInv, Sent, Carries, Windows
<1>4. HandleInv(c)' /\ AnswerInv(c)'
  BY DEF HandleInv, AnswerInv, Sent, Carries, Windows
<1>5. RequestInv(c)'
  BY DEF RequestInv, Echoing
<1> QED
  BY <1>2, <1>3, <1>4, <1>5

LEMMA ReceiveInv ==
  ASSUME IInv, NEW c \in Clients, Receive(c)
  PROVE  ClientInv(c)'
<1> DEFINE m == Head(up2[c])
<1>1. /\ ClientInv(c) /\ up /\ Windows /\ thread[c] = "read" /\ up2[c] # <<>>
      /\ up2'[c] = Tail(up2[c]) /\ up2[c] \in Seq({"plain", "pass"})
      /\ thread'[c] = IF m = "pass" THEN "answer" ELSE IF lang = "Go" THEN "echo" ELSE "read"
      /\ UNCHANGED <<platform, up, taken, closed, refused, pc, answer, done, unsent, down,
                     inServer, data>>
  BY DEF IInv, TypeOK, Receive, At, Goto, HasHandle, client
<1>2. Carries(c) <=> m = "pass" \/ Carries(c)'
  BY <1>1, ContainsTail DEF Carries
<1>3. AtMostOnce(up2'[c], "pass") /\ (m = "pass" => ~Carries(c)')
  BY <1>1, OnceTail DEF Carries, ClientInv, PassInv
<1>4. Len(up2'[c]) = Len(up2[c]) - 1 /\ Len(up2[c]) \in Nat
  BY <1>1
<1> HIDE DEF m
<1> USE <1>1 DEF ClientInv
<1>5. ConnInv(c)'
  BY DEF ConnInv, Gone, Windows, NotConnected
<1>6. PassInv(c)'
  BY <1>2, <1>3 DEF PassInv, Sent, Windows
<1>7. HandleInv(c)' /\ AnswerInv(c)'
  BY <1>2 DEF HandleInv, AnswerInv, Sent, Windows
<1>8. RequestInv(c)'
  <2>1. Len(up2'[c]) + Echoing(c)' <= Len(up2[c]) + Echoing(c)
    <3>1. Echoing(c) = 0 /\ Echoing(c)' \in 0..1
      BY DEF Echoing
    <3> QED
      BY <1>4, <3>1
  <2>2. down[c] \in Nat /\ Echoing(c) \in Nat /\ Echoing(c)' \in Nat
    BY DEF IInv, TypeOK, Echoing
  <2>3. c \in RcClients => pc[c] \notin NotConnected \cup {"request"}
    BY <1>4, <2>2 DEF RequestInv
  <2> QED
    BY <1>4, <2>1, <2>2, <2>3 DEF RequestInv
<1> QED
  BY <1>5, <1>6, <1>7, <1>8

LEMMA ReceiveEndInv ==
  ASSUME IInv, NEW c \in Clients, ReceiveEnd(c)
  PROVE  ClientInv(c)'
<1>1. /\ ClientInv(c) /\ up /\ Windows /\ thread[c] = "read" /\ up2[c] = <<>> /\ Gone(c)
      /\ thread'[c] \in {"abandoned", "end"}
      /\ UNCHANGED <<platform, up, taken, closed, refused, pc, answer, done, unsent, up2,
                     down, inServer, data>>
  BY DEF IInv, TypeOK, ReceiveEnd, At, Goto, client
<1> USE <1>1 DEF ClientInv
<1>2. ConnInv(c)'
  BY DEF ConnInv, Gone, Windows
<1>3. ~Carries(c)
  BY ContainsEmpty DEF Carries
<1>4. PassInv(c)'
  BY <1>3 DEF PassInv, Sent, Carries, Windows
<1>5. HandleInv(c)' /\ AnswerInv(c)'
  BY <1>3 DEF HandleInv, AnswerInv, Sent, Carries, Windows
<1>6. RequestInv(c)'
  BY DEF RequestInv, Echoing
<1> QED
  BY <1>2, <1>4, <1>5, <1>6

LEMMA AnswerStepInv ==
  ASSUME IInv, NEW c \in Clients, Answer(c)
  PROVE  ClientInv(c)'
<1>1. /\ ClientInv(c) /\ up /\ thread[c] = "answer" /\ thread'[c] = "close"
      /\ data'[c] = inServer[c]
      /\ UNCHANGED <<platform, up, taken, closed, refused, pc, answer, done, unsent, up2,
                     down, inServer>>
  BY DEF IInv, TypeOK, Answer, At, Goto, client
<1> USE <1>1 DEF ClientInv
<1>2. ConnInv(c)'
  BY DEF ConnInv, Gone, Windows
<1>3. PassInv(c)'
  BY DEF PassInv, Sent, Carries, Windows
<1>4. HandleInv(c)' /\ AnswerInv(c)'
  BY DEF HandleInv, AnswerInv, PassInv, Sent, Carries, Windows
<1>5. RequestInv(c)'
  BY DEF RequestInv, Echoing
<1> QED
  BY <1>2, <1>3, <1>4, <1>5

LEMMA CloseHandleInv ==
  ASSUME IInv, NEW c \in Clients, CloseHandle(c)
  PROVE  ClientInv(c)'
<1>1. /\ ClientInv(c) /\ up /\ thread[c] = "close" /\ thread'[c] \in {"echo", "read"}
      /\ ~inServer'[c]
      /\ UNCHANGED <<platform, up, taken, closed, refused, pc, answer, done, unsent, up2,
                     down, data>>
  BY DEF IInv, TypeOK, CloseHandle, At, Goto, client
<1> USE <1>1 DEF ClientInv
<1>2. ConnInv(c)'
  BY DEF ConnInv, Gone, Windows
<1>3. PassInv(c)'
  BY DEF PassInv, Sent, Carries, Windows
<1>4. HandleInv(c)' /\ AnswerInv(c)'
  BY DEF HandleInv, AnswerInv, PassInv, ConnInv, Sent, Carries, Windows
<1>5. RequestInv(c)'
  <2>1. c \notin RcClients
    BY SessionAssumption DEF PassInv, Passing
  <2> QED
    BY <2>1 DEF RequestInv
<1> QED
  BY <1>2, <1>3, <1>4, <1>5

LEMMA EchoInv ==
  ASSUME IInv, NEW c \in Clients, Echo(c)
  PROVE  ClientInv(c)'
<1>1. /\ ClientInv(c) /\ up /\ thread[c] = "echo"
      /\ \/ thread'[c] = "abandoned" /\ Gone(c) /\ UNCHANGED down
         \/ thread'[c] = "read" /\ ~Gone(c) /\ down'[c] = down[c] + 1
      /\ UNCHANGED <<platform, up, taken, closed, refused, pc, answer, done, unsent, up2,
                     inServer, data>>
  BY DEF IInv, TypeOK, Echo, At, Goto, client
<1> USE <1>1 DEF ClientInv
<1>2. ConnInv(c)'
  BY DEF ConnInv, Gone, Windows, NotConnected
<1>3. PassInv(c)'
  BY DEF PassInv, Sent, Carries, Windows
<1>4. HandleInv(c)' /\ AnswerInv(c)'
  BY DEF HandleInv, AnswerInv, Sent, Carries, Windows
<1>5. RequestInv(c)'
  <2>1. Echoing(c) = 1 /\ Echoing(c)' = 0
    BY DEF Echoing
  <2>2. Len(up2[c]) \in Nat /\ down[c] \in Nat
    BY DEF IInv, TypeOK
  <2>3. UNCHANGED <<pc, up2, done>>
    OBVIOUS
  <2> QED
    BY <2>1, <2>2, <2>3 DEF RequestInv
<1> QED
  BY <1>2, <1>3, <1>4, <1>5

(* The end of the connection, closed or left to the finalizer.             *)
LEMMA CloseConnInv ==
  ASSUME IInv, NEW c \in Clients, CloseConn(c) \/ Finalize(c)
  PROVE  ClientInv(c)'
<1>1. /\ ClientInv(c) /\ up /\ thread[c] \in {"end", "abandoned"} /\ thread'[c] = "ended"
      /\ closed'[c]
      /\ UNCHANGED <<platform, up, taken, refused, pc, answer, done, unsent, up2, down,
                     inServer, data>>
  BY DEF IInv, TypeOK, CloseConn, Finalize, At, Goto, client
<1> USE <1>1 DEF ClientInv
<1>2. ConnInv(c)'
  BY DEF ConnInv, Gone, Windows
<1>3. PassInv(c)'
  BY DEF PassInv, Sent, Carries, Windows
<1>4. HandleInv(c)' /\ AnswerInv(c)'
  BY DEF HandleInv, AnswerInv, Sent, Carries, Windows
<1>5. RequestInv(c)'
  BY DEF RequestInv, Echoing
<1> QED
  BY <1>2, <1>3, <1>4, <1>5

-------------------------------------------------------------------------------
(* The steps of the clients.                                               *)
LEMMA ConnectInv ==
  ASSUME IInv, NEW c \in Clients, Connect(c)
  PROVE  ClientInv(c)'
<1>1. /\ ClientInv(c) /\ pc[c] = "connect"
      /\ \/ up /\ pc'[c] = IF c \in RcClients THEN "request" ELSE "hello"
         \/ c \notin taken' /\ pc'[c] = "turned away"
      /\ UNCHANGED <<platform, up, thread, closed, refused, answer, done, unsent, up2, down,
                     inServer, data>>
  <2>1. pc[c] = "connect" => c \notin taken
    BY DEF IInv, ClientInv, ConnInv, NotConnected
  <2>2. DOMAIN pc = Clients
    BY DEF IInv, TypeOK
  <2>3. CASE up /\ pc' = [pc EXCEPT ![c] = IF c \in RcClients THEN "request" ELSE "hello"]
    BY <2>2, <2>3, ConnectEffect DEF IInv
  <2>4. CASE taken' = taken /\ pc' = [pc EXCEPT ![c] = "turned away"]
    BY <2>1, <2>2, <2>4, ConnectEffect DEF IInv
  <2> QED
    BY <2>3, <2>4, ConnectEffect
<1> USE <1>1 DEF ClientInv
<1>2. ConnInv(c)'
  BY DEF ConnInv, Gone, Windows, NotConnected, Passing, Clients
<1>3. ~Carries(c)
  BY ContainsEmpty DEF Carries, ConnInv, NotConnected
<1>4. PassInv(c)'
  BY <1>3 DEF PassInv, ConnInv, Sent, Carries, Windows, NotConnected
<1>5. HandleInv(c)' /\ AnswerInv(c)'
  BY <1>3 DEF HandleInv, AnswerInv, Sent, Carries, Windows
<1>6. RequestInv(c)'
  BY DEF RequestInv, Echoing, NotConnected
<1> QED
  BY <1>2, <1>4, <1>5, <1>6

LEMMA HelloInv ==
  ASSUME IInv, NEW c \in Clients, Hello(c)
  PROVE  ClientInv(c)'
<1>1. /\ ClientInv(c) /\ pc[c] \in {"hello", "again"} /\ pc'[c] \in {"again", "pipe", "failed"}
      /\ \/ up /\ ~closed[c] /\ up2'[c] = Append(up2[c], "plain")
         \/ up2'[c] = up2[c]
      /\ UNCHANGED <<platform, up, taken, thread, closed, refused, answer, done, unsent, down,
                     inServer, data>>
  BY HelloEffect DEF IInv, TypeOK, Sends, SendsNot, Broken, server
<1>2. (Carries(c)' <=> Carries(c)) /\ (AtMostOnce(up2[c], "pass") => AtMostOnce(up2'[c], "pass"))
  <2>1. up2[c] \in Seq({"plain", "pass"})
    BY DEF IInv, TypeOK
  <2> QED
    <3>1. CASE up2'[c] = Append(up2[c], "plain")
      BY <2>1, <3>1, ContainsAppend, OnceAppend DEF Carries
    <3>2. CASE up2'[c] = up2[c]
      BY <3>2 DEF Carries
    <3> QED
      BY <1>1, <3>1, <3>2
<1> USE <1>1 DEF ClientInv
<1>3. ConnInv(c)' /\ c \in Passing
  BY DEF ConnInv, Gone, Windows, NotConnected, Ended
<1>4. PassInv(c)'
  BY <1>2 DEF PassInv, Sent, Windows
<1>5. HandleInv(c)' /\ AnswerInv(c)'
  BY <1>2 DEF HandleInv, AnswerInv, PassInv, Sent, Windows
<1>6. RequestInv(c)'
  BY <1>3, SessionAssumption DEF RequestInv
<1> QED
  BY <1>3, <1>4, <1>5, <1>6

LEMMA PipeInv ==
  ASSUME IInv, NEW c \in Clients, Pipe(c)
  PROVE  ClientInv(c)'
<1>1. /\ ClientInv(c) /\ pc[c] = "pipe" /\ pc'[c] = IF Windows THEN "duplicate" ELSE "pass"
      /\ UNCHANGED <<platform, up, taken, thread, closed, refused, answer, done, unsent, up2,
                     down, inServer, data>>
  BY DEF IInv, TypeOK, Pipe, Step, server
<1> USE <1>1 DEF ClientInv
<1>2. ConnInv(c)' /\ c \in Passing
  BY DEF ConnInv, Gone, Windows, NotConnected, Ended
<1>3. PassInv(c)'
  BY DEF PassInv, Sent, Carries, Windows
<1>4. HandleInv(c)' /\ AnswerInv(c)'
  BY DEF HandleInv, AnswerInv, PassInv, Sent, Carries, Windows
<1>5. RequestInv(c)'
  BY <1>2, SessionAssumption DEF RequestInv
<1> QED
  BY <1>2, <1>3, <1>4, <1>5

LEMMA DuplicateInv ==
  ASSUME IInv, NEW c \in Clients, Duplicate(c)
  PROVE  ClientInv(c)'
<1>1. /\ ClientInv(c) /\ pc[c] = "duplicate"
      /\ \/ /\ up /\ inServer'[c] /\ unsent' = unsent /\ pc'[c] \in {"drop", "pass"}
            /\ (pc'[c] = "drop" => c \in CClients)
         \/ up /\ inServer' = inServer /\ c \in unsent' /\ pc'[c] = "pass"
         \/ inServer' = inServer /\ unsent' = unsent /\ pc'[c] = "failed"
      /\ UNCHANGED <<platform, up, taken, thread, closed, refused, answer, done, up2, down,
                     data>>
  BY DEF IInv, TypeOK, Duplicate, Step, Leave, server
<1> USE <1>1 DEF ClientInv
<1>2. ConnInv(c)' /\ c \in Passing /\ Windows
  BY DEF ConnInv, Gone, Windows, NotConnected, Ended
<1>3. PassInv(c)'
  BY <1>2 DEF PassInv, Sent, Carries, Windows
<1>4. HandleInv(c)' /\ AnswerInv(c)'
  BY <1>2 DEF HandleInv, AnswerInv, PassInv, Sent, Carries, Windows
<1>5. RequestInv(c)'
  BY <1>2, SessionAssumption DEF RequestInv
<1> QED
  BY <1>2, <1>3, <1>4, <1>5

LEMMA PassStepInv ==
  ASSUME IInv, NEW c \in Clients, Pass(c)
  PROVE  ClientInv(c)'
<1>1. /\ ClientInv(c) /\ pc[c] = "pass"
      /\ UNCHANGED <<platform, up, taken, thread, closed, refused, answer, done, unsent, down,
                     inServer, data>>
      /\ \/ /\ up /\ ~closed[c] /\ pc'[c] = After(c)
            /\ up2'[c] = Append(up2[c], IF c \in unsent THEN "plain" ELSE "pass")
         \/ /\ ~up \/ closed[c]
            /\ up2'[c] = up2[c]
            /\ \/ pc'[c] = "failed"
               \/ c \in CClients /\ Windows /\ pc'[c] = After(c)
  BY PassEffect DEF IInv, TypeOK, Sends, SendsNot, Broken, server
<1>2. PICK m \in {"plain", "pass"} : m = IF c \in unsent THEN "plain" ELSE "pass"
  OBVIOUS
<1>3. up2[c] \in Seq({"plain", "pass"})
  BY DEF IInv, TypeOK
<1>4. ~Carries(c) /\ thread[c] \notin {"answer", "close"} /\ ~data[c]
  BY <1>1 DEF ClientInv, PassInv, Sent
<1>5. CASE up2'[c] = Append(up2[c], m) /\ up /\ ~closed[c] /\ pc'[c] = After(c)
  <2> USE <1>1, <1>4, <1>5 DEF ClientInv
  <2>1. (Carries(c)' <=> m = "pass") /\ AtMostOnce(up2'[c], "pass")
    BY <1>3, ContainsAppend, OnceAppend DEF Carries, PassInv
  <2>2. ConnInv(c)' /\ c \in Passing
    BY DEF ConnInv, Gone, Windows, NotConnected, After, Ended
  <2>3. PassInv(c)'
    BY <1>2, <2>1, <2>2 DEF PassInv, AnswerInv, Sent, Windows, After
  <2>4. HandleInv(c)' /\ AnswerInv(c)'
    BY <1>2, <2>1, <2>2 DEF HandleInv, AnswerInv, PassInv, Sent, Windows, After
  <2>5. RequestInv(c)'
    BY <2>2, SessionAssumption DEF RequestInv
  <2> QED
    BY <2>2, <2>3, <2>4, <2>5
<1>6. CASE /\ up2'[c] = up2[c] /\ (~up \/ closed[c])
           /\ \/ pc'[c] = "failed"
              \/ c \in CClients /\ Windows /\ pc'[c] = After(c)
  <2> USE <1>1, <1>4, <1>6 DEF ClientInv
  <2>1. ConnInv(c)' /\ c \in Passing
    BY DEF ConnInv, Gone, Windows, NotConnected, After, Ended
  <2>2. PassInv(c)'
    BY <2>1 DEF PassInv, Sent, Carries, Windows, After
  <2>3. inServer[c] => c \in refused
    BY DEF IInv, ServerInv, ConnInv, Gone, Ended
  <2>4. HandleInv(c)' /\ AnswerInv(c)'
    BY <2>1, <2>3 DEF HandleInv, AnswerInv, PassInv, Sent, Carries, Windows, After
  <2>5. RequestInv(c)'
    BY <2>1, SessionAssumption DEF RequestInv
  <2> QED
    BY <2>1, <2>2, <2>4, <2>5
<1> QED
  BY <1>1, <1>2, <1>5, <1>6

LEMMA DropInv ==
  ASSUME IInv, NEW c \in Clients, Drop(c)
  PROVE  ClientInv(c)'
<1>1. /\ ClientInv(c) /\ pc[c] = "drop"
      /\ pc'[c] = IF c \in CClients /\ Windows THEN "pass" ELSE "answer"
      /\ UNCHANGED <<platform, up, taken, thread, closed, refused, answer, done, unsent, up2,
                     down, inServer, data>>
  BY DEF IInv, TypeOK, Drop, Step, server
<1> USE <1>1 DEF ClientInv
<1>2. ConnInv(c)' /\ c \in Passing
  BY DEF ConnInv, Gone, Windows, NotConnected, Ended
<1>3. PassInv(c)'
  BY DEF PassInv, Sent, Carries, Windows
<1>4. HandleInv(c)' /\ AnswerInv(c)'
  BY DEF HandleInv, AnswerInv, PassInv, Sent, Carries, Windows
<1>5. RequestInv(c)'
  BY <1>2, SessionAssumption DEF RequestInv
<1> QED
  BY <1>2, <1>3, <1>4, <1>5

(* A client that finds the end of its pipe finds no write end that is open *)
(* anywhere.                                                               *)
LEMMA ReadAnswerInv ==
  ASSUME IInv, NEW c \in Clients, ReadAnswer(c)
  PROVE  ClientInv(c)'
<1>1. /\ ClientInv(c) /\ pc[c] = "answer" /\ pc'[c] = "done"
      /\ \/ data[c] /\ answer'[c] = "answer"
         \/ ~data[c] /\ ~inServer[c] /\ ~InTransit(c) /\ answer'[c] = "eof"
      /\ UNCHANGED <<platform, up, taken, thread, closed, refused, done, unsent, up2,
                     down, inServer, data>>
  BY DEF IInv, TypeOK, ReadAnswer, Writable, Held, Step, Leave, server
<1> USE <1>1 DEF ClientInv
<1>2. ConnInv(c)' /\ c \in Passing
  BY DEF ConnInv, Gone, Windows, NotConnected, Ended
<1>3. PassInv(c)'
  BY DEF PassInv, Sent, Carries, Windows
<1>4. HandleInv(c)'
  BY DEF HandleInv, PassInv, Sent, Carries
<1>5. AnswerInv(c)'
  <2>1. up /\ ~Windows => ~closed[c]
    BY DEF ConnInv
  <2>2. up /\ c \notin unsent => data[c]
    BY <2>1 DEF AnswerInv, InTransit, Broken, Carries
  <2> QED
    BY <2>2 DEF AnswerInv, Windows
<1>6. RequestInv(c)'
  BY <1>2, SessionAssumption DEF RequestInv
<1> QED
  BY <1>2, <1>3, <1>4, <1>5, <1>6

LEMMA RequestStepInv ==
  ASSUME IInv, NEW c \in Clients, Request(c)
  PROVE  ClientInv(c)'
<1>1. /\ ClientInv(c) /\ pc[c] = "request" /\ up2[c] \in Seq({"plain", "pass"})
      /\ \/ pc'[c] = "done" /\ up2'[c] = up2[c]
         \/ /\ pc'[c] = "reply" /\ done[c] # Requests
            /\ up2'[c] = up2[c] \/ up2'[c] = Append(up2[c], "plain")
      /\ UNCHANGED <<platform, up, taken, thread, closed, refused, answer, done, unsent,
                     down, inServer, data>>
  BY DEF IInv, TypeOK, Request, Step, server
<1>2. /\ Carries(c)' <=> Carries(c)
      /\ AtMostOnce(up2[c], "pass") => AtMostOnce(up2'[c], "pass")
  <2>1. CASE up2'[c] = Append(up2[c], "plain")
    BY <1>1, <2>1, ContainsAppend, OnceAppend DEF Carries
  <2>2. CASE up2'[c] = up2[c]
    BY <2>2 DEF Carries
  <2> QED
    BY <1>1, <2>1, <2>2
<1> USE <1>1 DEF ClientInv
<1>3. ConnInv(c)' /\ c \in RcClients
  BY DEF ConnInv, Gone, Windows, NotConnected, Ended
<1>4. c \notin Passing
  BY <1>3, SessionAssumption
<1>5. PassInv(c)'
  BY <1>2, <1>4 DEF PassInv, Sent, Windows
<1>6. HandleInv(c)' /\ AnswerInv(c)'
  BY <1>2, <1>4 DEF HandleInv, AnswerInv, PassInv, Sent, Windows
<1>7. RequestInv(c)'
  <2>1. Len(up2'[c]) \in Len(up2[c])..Len(up2[c]) + 1 /\ Len(up2[c]) \in Nat
    BY <1>1
  <2>2. Echoing(c)' = Echoing(c) /\ Echoing(c) \in Nat
    BY DEF Echoing
  <2>3. Len(up2[c]) + Echoing(c) + down[c] = 0
    BY <1>3 DEF RequestInv
  <2>4. down[c] \in Nat /\ done[c] \in 0..Requests
    BY DEF IInv, TypeOK
  <2>5. pc'[c] = "reply" => done'[c] < Requests
    BY <2>4, SessionAssumption
  <2>6. Len(up2'[c]) + Echoing(c)' + down'[c] <= 1
    BY <2>1, <2>2, <2>3, <2>4
  <2> QED
    BY <2>5, <2>6 DEF RequestInv, NotConnected
<1> QED
  BY <1>3, <1>5, <1>6, <1>7

LEMMA ReadReplyInv ==
  ASSUME IInv, NEW c \in Clients, ReadReply(c)
  PROVE  ClientInv(c)'
<1>1. /\ ClientInv(c) /\ pc[c] = "reply"
      /\ \/ pc'[c] = "request" /\ down[c] > 0 /\ down'[c] = down[c] - 1
         \/ pc'[c] = "failed" /\ down'[c] = down[c] /\ done'[c] = done[c]
      /\ UNCHANGED <<platform, up, taken, thread, closed, refused, answer, unsent, up2,
                     inServer, data>>
  BY DEF IInv, TypeOK, ReadReply, Step, server
<1> USE <1>1 DEF ClientInv
<1>2. ConnInv(c)' /\ c \in RcClients
  BY DEF ConnInv, Gone, Windows, NotConnected, Ended
<1>3. c \notin Passing
  BY <1>2, SessionAssumption
<1>4. PassInv(c)'
  BY <1>3 DEF PassInv, Sent, Carries, Windows
<1>5. HandleInv(c)' /\ AnswerInv(c)'
  BY <1>3 DEF HandleInv, AnswerInv, PassInv, Sent, Carries, Windows
<1>6. RequestInv(c)'
  <2>1. Echoing(c)' = Echoing(c) /\ Echoing(c) \in Nat /\ Len(up2[c]) \in Nat
        /\ down[c] \in Nat
    BY DEF Echoing, IInv, TypeOK
  <2>2. Len(up2[c]) + Echoing(c) + down[c] <= 1
    BY <1>2 DEF RequestInv
  <2>3. Len(up2'[c]) = Len(up2[c]) /\ down'[c] \in Nat
    BY <2>1
  <2>4. /\ Len(up2'[c]) + Echoing(c)' + down'[c] <= 1
        /\ pc'[c] = "request" => Len(up2'[c]) + Echoing(c)' + down'[c] = 0
    BY <2>1, <2>2, <2>3
  <2>5. pc'[c] \notin NotConnected \cup {"reply"}
    BY DEF NotConnected
  <2> QED
    BY <2>4, <2>5 DEF RequestInv
<1> QED
  BY <1>2, <1>4, <1>5, <1>6

LEMMA KillInv ==
  ASSUME IInv, NEW c \in Clients, Kill(c)
  PROVE  ClientInv(c)'
<1>1. /\ ClientInv(c) /\ ~Gone(c) /\ pc'[c] = "killed"
      /\ UNCHANGED <<platform, up, taken, thread, closed, refused, answer, done, unsent, up2,
                     down, inServer, data>>
  BY DEF IInv, TypeOK, Kill, Step, Leave, server
<1> USE <1>1 DEF ClientInv
<1>2. ConnInv(c)'
  BY DEF ConnInv, Gone, Windows, NotConnected, Ended
<1>3. PassInv(c)'
  BY DEF PassInv, Sent, Carries, Windows, Gone, Ended
<1>4. HandleInv(c)' /\ AnswerInv(c)'
  BY DEF HandleInv, AnswerInv, Sent, Carries, Windows
<1>5. RequestInv(c)'
  BY DEF RequestInv, Echoing, NotConnected
<1> QED
  BY <1>2, <1>3, <1>4, <1>5

-------------------------------------------------------------------------------
(* A step of one client or of its handler, for that client.                *)
LEMMA OwnStep ==
  ASSUME IInv, NEW c \in Clients, StepOf(c)
  PROVE  ClientInv(c)'
  BY StartsInv, DropsInv, ReceiveInv, ReceiveEndInv, AnswerStepInv, CloseHandleInv, EchoInv,
     CloseConnInv, ConnectInv, HelloInv, PipeInv, DuplicateInv, PassStepInv, DropInv,
     ReadAnswerInv, RequestStepInv, ReadReplyInv, KillInv
  DEF StepOf, Client

LEMMA StepInv ==
  ASSUME IInv, Next
  PROVE  IInv'
<1>1. TypeOK' /\ ServerInv'
  BY StepTypes, StepServer
<1>2. ASSUME NEW d \in Clients PROVE ClientInv(d)'
  <2>1. CASE GoesOn
    <3>1. Same(d) /\ up' = up
      BY <2>1 DEF GoesOn, Still, Same, client
    <3> QED
      BY <3>1, SameInv, PlatformFixed DEF IInv
  <2>2. ASSUME NEW c \in Clients, StepOf(c)
        PROVE  ClientInv(d)'
    <3>1. CASE c = d
      BY <2>2, <3>1, OwnStep
    <3>2. CASE c # d
      BY <2>2, <3>2, OthersSame, SameInv, PlatformFixed DEF IInv
    <3> QED
      BY <3>1, <3>2
  <2>3. ASSUME NEW c \in taken, Panics(c) PROVE ClientInv(d)'
    BY <2>3, CrashInv DEF Panics
  <2>4. ASSUME NEW c \in Clients, AssertFileConn(c) PROVE ClientInv(d)'
    BY <2>4, CrashInv DEF AssertFileConn, Still
  <2>5. CASE Main
    <3>1. taken \subseteq Clients
      BY DEF IInv, TypeOK
    <3> QED
      BY <2>1, <2>2, <2>3, <2>5, <3>1, MainEffect DEF StepOf
  <2>6. ASSUME NEW c \in Clients, Handler(c) \/ Client(c) \/ Finalize(c) \/ Kill(c)
        PROVE  ClientInv(d)'
    BY <2>2, <2>4, <2>6 DEF StepOf, Handler
  <2> QED
    BY <2>5, <2>6 DEF Next
<1> QED
  BY <1>1, <1>2 DEF IInv

LEMMA InvHolds == Spec => []IInv
<1>1. ASSUME IInv, UNCHANGED vars PROVE IInv'
  <2> USE <1>1 DEF IInv, vars, server, client
  <2>1. TypeOK'
    BY DEF TypeOK, Windows
  <2>2. ServerInv'
    BY DEF ServerInv, Windows
  <2>3. ASSUME NEW d \in Clients PROVE ClientInv(d)'
    BY SameInv DEF Same, Windows
  <2> QED
    BY <2>1, <2>2, <2>3
<1>2. IInv /\ [Next]_vars => IInv'
  BY <1>1, StepInv
<1> QED
  BY <1>2, InitInv, PTL DEF Spec

-------------------------------------------------------------------------------
(* Every variable keeps its type: no ipc-rc counts more replies than it    *)
(* has requests, and on Windows no pipe instance is taken by two clients   *)
(* at a time (windows.go:99-110, rc.go:145-151).                           *)
THEOREM SessionTypes == Spec => []TypeOK
<1>1. IInv => TypeOK
  BY DEF IInv
<1> QED
  BY <1>1, InvHolds, PTL

(* A handle that is open in the server's process is known to the client    *)
(* that is about to send its number, is named by a message that will be    *)
(* read, or is with the handler, unless the client was killed or the       *)
(* connection dropped (ipc-windows.c:87-104, windows.go:198-213,           *)
(* server.c:36-51).                                                        *)
THEOREM SessionHandlesKnown == Spec => []HandlesKnown
<1>1. ASSUME IInv, NEW c \in Clients, inServer[c]
      PROVE  Known(c) \/ pc[c] = "killed" \/ c \in refused
  <2> USE <1>1 DEF IInv, ClientInv
  <2>1. up
    BY DEF ServerInv
  <2>2. CASE pc[c] \in {"done", "failed"} \/ (pc[c] = "answer" /\ ~Carries(c))
    BY <2>2 DEF HandleInv, Known, Sent
  <2>3. CASE pc[c] = "answer" /\ Carries(c)
    BY <2>1, <2>3 DEF Known, Carries, ConnInv, Gone, Ended
  <2> QED
    BY <2>2, <2>3 DEF PassInv, Known
<1>2. IInv => HandlesKnown
  BY <1>1 DEF HandlesKnown
<1> QED
  BY <1>2, InvHolds, PTL

(* While the server runs a client reads the end of its pipe only when the  *)
(* handle was left out of its message (windows.go:198-214,                 *)
(* server.c:43-51, server.go:46-53).                                       *)
THEOREM SessionAnswersDelivered == Spec => []AnswersDelivered
<1>1. IInv => AnswersDelivered
  BY DEF IInv, ClientInv, AnswerInv, AnswersDelivered, Excused, Clients, Passing
<1> QED
  BY <1>1, InvHolds, PTL

(* An ipc-rc that is about to send a request has no reply left over        *)
(* (rc.go:145-151, server.go:55).                                          *)
THEOREM SessionRepliesMatch == Spec => []RepliesMatch
<1>1. ASSUME IInv, NEW c \in RcClients, pc[c] = "request" PROVE down[c] = 0
  <2>1. c \in Clients
    BY DEF Clients
  <2>2. Len(up2[c]) \in Nat /\ Echoing(c) \in Nat /\ down[c] \in Nat
    BY <1>1, <2>1 DEF IInv, TypeOK, Echoing
  <2>3. Len(up2[c]) + Echoing(c) + down[c] = 0
    BY <1>1, <2>1 DEF IInv, ClientInv, RequestInv
  <2> QED
    BY <2>2, <2>3
<1>2. IInv => RepliesMatch
  BY <1>1 DEF RepliesMatch
<1> QED
  BY <1>2, InvHolds, PTL

(* No step ends the server but a handler of the Go server on Unix, and     *)
(* Accept on Windows for a client that has gone (server.c:86-102,          *)
(* server.go:22, 56-62, windows.go:99-110).                                *)
THEOREM SessionServerStays == Spec => ServerStays
<1> DEFINE Stays == up /\ ~up' => lang = "Go" /\ (Windows => \E c \in taken : Gone(c))
<1>1. ASSUME IInv, Next PROVE Stays
  <2>1. CASE Main
    BY <2>1, <1>1, MainEffect DEF GoesOn, Starts, Drops, Panics
  <2>2. ASSUME NEW c \in Clients, StepOf(c) PROVE up' = up
    BY <2>2 DEF StepOf, Starts, Drops, Receive, ReceiveEnd, Answer, CloseHandle, Echo,
       CloseConn, Finalize, Kill, Client, Connect, Hello, Pipe, Duplicate, Pass, Drop,
       ReadAnswer, Request, ReadReply, server
  <2>3. ASSUME NEW c \in Clients, AssertFileConn(c) PROVE lang = "Go" /\ ~Windows
    BY <1>1, <2>3 DEF AssertFileConn, IInv, ServerInv
  <2> QED
    BY <1>1, <2>1, <2>2, <2>3 DEF Next, Handler, StepOf
<1>2. IInv /\ [Next]_vars => [Stays]_vars
  BY <1>1
<1> QED
  BY <1>2, InvHolds, PTL DEF Spec, ServerStays

-------------------------------------------------------------------------------
(* The refinement of Handover.  A client that is about to hand over the    *)
(* write end of its pipe has it, and before it has made the pipe it has    *)
(* none.                                                                   *)
OwnInv ==
  \A c \in Clients :
    /\ pc[c] = "duplicate" \/ (pc[c] = "pass" /\ ~Windows) => wr[c]
    /\ pc[c] \in {"absent", "connect"} => ~wr[c]

LEMMA OwnHolds == Spec => []OwnInv
<1>1. Init => OwnInv
  BY DEF Init, OwnInv
<1>2. ASSUME IInv, OwnInv, Next PROVE OwnInv'
  <2> USE <1>2, PlatformFixed DEF OwnInv, IInv, TypeOK, Step, Leave
  <2>1. ASSUME UNCHANGED client PROVE OwnInv'
    BY <2>1 DEF client
  <2>2. CASE Main
    BY <2>1, <2>2, MainEffect DEF GoesOn, Starts, Drops, Panics, Still
  <2>3. ASSUME NEW c \in Clients, Handler(c) \/ Finalize(c) PROVE UNCHANGED client
    BY <2>3 DEF Handler, AssertFileConn, Receive, ReceiveEnd, Answer, CloseHandle, Echo,
       CloseConn, Finalize
  <2>4. ASSUME NEW c \in Clients, Connect(c) \/ Request(c) \/ ReadReply(c) PROVE OwnInv'
    <3>1. PICK where \in {"request", "hello", "turned away", "done", "reply", "failed"} :
            pc' = [pc EXCEPT ![c] = where]
      BY <2>4, ConnectEffect DEF Request, ReadReply
    <3>2. wr' = wr
      BY <2>4 DEF Connect, Request, ReadReply
    <3> QED
      BY <3>1, <3>2
  <2>5. ASSUME NEW c \in Clients, Hello(c) \/ Pass(c) PROVE OwnInv'
    <3>1. PICK m \in {"plain", "pass"}, where \in {"again", "pipe", "answer", "drop"} :
            Sends(c, m, where) \/ SendsNot(c, where)
      BY <2>5, HelloEffect, PassEffect DEF After
    <3> QED
      BY <3>1 DEF Sends, SendsNot
  <2>6. ASSUME NEW c \in Clients, Pipe(c) \/ Drop(c) \/ ReadAnswer(c) \/ Kill(c) PROVE OwnInv'
    <3>1. CASE Pipe(c)
      BY <3>1 DEF Pipe
    <3>2. CASE Drop(c)
      BY <3>2 DEF Drop
    <3>3. CASE ReadAnswer(c) \/ Kill(c)
      <4>1. PICK where \in {"done", "killed"} :
              pc' = [pc EXCEPT ![c] = where] /\ wr' = [wr EXCEPT ![c] = FALSE]
        BY <3>3 DEF ReadAnswer, Kill
      <4> QED
        BY <4>1
    <3> QED
      BY <2>6, <3>1, <3>2, <3>3
  <2>7. ASSUME NEW c \in Clients, Duplicate(c) PROVE OwnInv'
    <3>1. PICK where \in {"drop", "pass", "failed"} :
            /\ pc' = [pc EXCEPT ![c] = where]
            /\ wr' = IF where = "failed" THEN [wr EXCEPT ![c] = FALSE] ELSE wr
      <4>1. CASE Step(c, "drop") /\ UNCHANGED wr
        BY <4>1
      <4>2. CASE Step(c, "pass") /\ UNCHANGED wr
        BY <4>2
      <4>3. CASE Leave(c, "failed")
        BY <4>3
      <4> QED
        BY <2>7, <4>1, <4>2, <4>3 DEF Duplicate
    <3>2. wr[c]
      BY <2>7 DEF Duplicate
    <3> QED
      BY <3>1, <3>2
  <2> QED
    BY <2>1, <2>2, <2>3, <2>4, <2>5, <2>6, <2>7 DEF Next, Client
<1>3. ASSUME OwnInv, UNCHANGED vars PROVE OwnInv'
  BY <1>3 DEF OwnInv, vars, server, client, Windows
<1>4. IInv /\ OwnInv /\ [Next]_vars => OwnInv'
  BY <1>2, <1>3
<1> QED
  BY <1>1, <1>4, InvHolds, PTL DEF Spec

(* On Unix a connection is closed only with the server, so that a write    *)
(* end is held by the server or, while that runs, by a message.            *)
HeldIs ==
  \A c \in Clients : Held(c) <=> inServer[c] \/ (~Windows /\ up /\ Carries(c))

LEMMA HeldBefore == IInv => HeldIs
  BY DEF IInv, ClientInv, ConnInv, HeldIs, Held, InTransit, Broken, Carries

LEMMA HeldAfter == IInv' => HeldIs'
  BY HeldBefore, PTL

(* What Handover sees of a client, and what a step may do to it.           *)
Pipes(c) == (Held(c)' <=> Held(c)) /\ (Excused(c)' <=> Excused(c))
Reads(c) == (data'[c] <=> data[c]) /\ answer'[c] = answer[c]
Stays(c) == Stage(c)' = Stage(c) /\ (wr'[c] <=> wr[c])

SeesNone(c) == Pipes(c) /\ Reads(c) /\ Stays(c)

SeesMake(c) == Pipes(c) /\ Reads(c) /\ Stage(c) = "before" /\ Stage(c)' = "before" /\ wr'[c]

SeesHandOver(c) ==
  /\ Reads(c) /\ Stage(c) = "before" /\ Stage(c)' = "after" /\ wr'[c]
  /\ \/ Held(c)' /\ (Excused(c)' <=> Excused(c))
     \/ Excused(c)' /\ (Held(c)' <=> Held(c))

SeesDrop(c) ==
  Pipes(c) /\ Reads(c) /\ Stage(c) = "after" /\ Stage(c)' = "after" /\ ~wr'[c]

SeesAnswer(c) ==
  /\ Pipes(c) /\ Stays(c)
  /\ Held(c) /\ ~data[c] /\ data'[c] /\ answer'[c] = answer[c]

SeesClose(c) ==
  /\ Reads(c) /\ Stays(c)
  /\ Held(c)' => Held(c)
  /\ Excused(c) => Excused(c)'
  /\ Held(c) => Held(c)' \/ data[c] \/ Excused(c)' \/ Stage(c) = "over"

SeesRead(c) ==
  /\ Pipes(c) /\ (data'[c] <=> data[c])
  /\ Stage(c) = "after" /\ Stage(c)' = "over" /\ ~wr'[c]
  /\ \/ data[c] /\ answer'[c] = "answer"
     \/ ~data[c] /\ ~wr[c] /\ ~Held(c) /\ answer'[c] = "eof"

SeesLeave(c) == Pipes(c) /\ Reads(c) /\ Stage(c) # "over" /\ Stage(c)' = "over" /\ ~wr'[c]

Sees(c) ==
  \/ SeesNone(c) \/ SeesMake(c) \/ SeesHandOver(c) \/ SeesDrop(c) \/ SeesAnswer(c)
  \/ SeesClose(c) \/ SeesRead(c) \/ SeesLeave(c)

LEMMA SeesStep ==
  ASSUME NEW c, c \in Passing => Sees(c),
         \A d \in Passing \ {c} : SeesNone(d)
  PROVE  H!Next \/ UNCHANGED H!vars
<1> USE DEF Pipes, Reads, Stays
<1>1. CASE c \notin Passing \/ SeesNone(c)
  <2>1. \A d \in Passing : SeesNone(d)
    BY <1>1
  <2> QED
    BY <2>1 DEF SeesNone, H!vars
<1>2. ASSUME c \in Passing, NEW where, Stage(c)' = where
      PROVE  H!Enter(c, where)
  BY <1>2 DEF H!Enter, SeesNone
<1>3. ASSUME c \in Passing, \A d \in Passing : (Stage(d)' = Stage(d))
      PROVE  [d \in Passing |-> Stage(d)]' = [d \in Passing |-> Stage(d)]
  BY <1>3
<1>4. CASE c \in Passing /\ SeesMake(c)
  <2>1. H!Make(c)
    BY <1>3, <1>4 DEF SeesMake, SeesNone, H!Make
  <2> QED
    BY <1>4, <2>1 DEF H!Next
<1>5. CASE c \in Passing /\ SeesHandOver(c)
  <2>1. H!HandOver(c)
    BY <1>2, <1>5 DEF SeesHandOver, SeesNone, H!HandOver
  <2> QED
    BY <1>5, <2>1 DEF H!Next
<1>6. CASE c \in Passing /\ SeesDrop(c)
  <2>1. H!Drop(c)
    BY <1>3, <1>6 DEF SeesDrop, SeesNone, H!Drop
  <2> QED
    BY <1>6, <2>1 DEF H!Next
<1>7. CASE c \in Passing /\ SeesAnswer(c)
  <2>1. H!Answer(c)
    BY <1>3, <1>7 DEF SeesAnswer, SeesNone, H!Answer
  <2> QED
    BY <1>7, <2>1 DEF H!Next
<1>8. CASE c \in Passing /\ SeesClose(c)
  <2>1. H!Close
    BY <1>3, <1>8 DEF SeesClose, SeesNone, H!Close, H!Fails
  <2> QED
    BY <2>1 DEF H!Next
<1>9. CASE c \in Passing /\ SeesRead(c)
  <2>1. H!Read(c)
    BY <1>2, <1>9 DEF SeesRead, SeesNone, H!Read
  <2> QED
    BY <1>9, <2>1 DEF H!Next
<1>10. CASE c \in Passing /\ SeesLeave(c)
  <2>1. H!Leave(c)
    BY <1>2, <1>10 DEF SeesLeave, SeesNone, H!Leave, H!Fails
  <2> QED
    BY <1>10, <2>1 DEF H!Next
<1> QED
  BY <1>1, <1>4, <1>5, <1>6, <1>7, <1>8, <1>9, <1>10 DEF Sees

LEMMA OthersSee ==
  ASSUME NEW d \in Clients, Same(d), up' = up, Windows' <=> Windows
  PROVE  SeesNone(d)
<1>1. Held(d)' <=> Held(d)
  BY DEF Same, Held, InTransit, Broken
<1>2. (Excused(d)' <=> Excused(d)) /\ Stage(d)' = Stage(d)
  BY DEF Same, Excused, Stage, Gone
<1> QED
  BY <1>1, <1>2 DEF Same, SeesNone, Pipes, Reads, Stays

(* The server: the handle it closes has its answer.                        *)
LEMMA ServerSees ==
  ASSUME IInv, IInv', Next, NEW c \in Clients,
         \/ Starts(c) \/ Drops(c)
         \/ Receive(c) \/ ReceiveEnd(c) \/ Answer(c) \/ CloseHandle(c) \/ Echo(c)
         \/ CloseConn(c) \/ Finalize(c)
  PROVE  Sees(c)
<1>1. UNCHANGED <<up, pc, wr, answer, unsent>> /\ (Windows' <=> Windows)
  BY PlatformFixed DEF Starts, Drops, Still, Receive, ReceiveEnd, Answer, CloseHandle, Echo,
     CloseConn, Finalize, client
<1>2. Stays(c) /\ (Excused(c)' <=> Excused(c))
  BY <1>1 DEF Stays, Stage, Gone, Excused
<1>3. CASE Receive(c)
  <2>1. Windows /\ UNCHANGED <<inServer, data>>
    BY <1>3 DEF Receive
  <2>2. Held(c)' <=> Held(c)
    BY <1>1, <2>1, HeldBefore, HeldAfter DEF HeldIs
  <2> QED
    BY <1>1, <1>2, <2>1, <2>2 DEF Sees, SeesNone, Pipes, Reads
<1>4. CASE \/ Starts(c) \/ Drops(c) \/ ReceiveEnd(c) \/ Echo(c) \/ CloseConn(c) \/ Finalize(c)
  <2>1. UNCHANGED <<inServer, data, up2>>
    BY <1>4 DEF Starts, Drops, Still, ReceiveEnd, Echo, CloseConn, Finalize
  <2>2. Held(c)' <=> Held(c)
    BY <1>1, <2>1, HeldBefore, HeldAfter DEF HeldIs, Carries
  <2> QED
    BY <1>1, <1>2, <2>1, <2>2 DEF Sees, SeesNone, Pipes, Reads
<1>5. CASE Answer(c)
  <2>1. up /\ thread[c] = "answer" /\ data' = [data EXCEPT ![c] = inServer[c]]
        /\ UNCHANGED <<inServer, up2>>
    BY <1>5 DEF Answer, At
  <2>2. inServer[c] /\ ~data[c] /\ data'[c]
    BY <2>1 DEF IInv, TypeOK, ClientInv, PassInv
  <2>3. Held(c) /\ (Held(c)' <=> Held(c))
    BY <1>1, <2>1, <2>2, HeldBefore, HeldAfter DEF HeldIs, Carries
  <2> QED
    BY <1>1, <1>2, <2>2, <2>3 DEF Sees, SeesAnswer, Pipes
<1>6. CASE CloseHandle(c)
  <2>1. thread[c] = "close" /\ inServer' = [inServer EXCEPT ![c] = FALSE]
        /\ UNCHANGED <<data, up2>>
    BY <1>6 DEF CloseHandle, At
  <2>2. data[c] /\ (inServer'[c] => inServer[c])
    BY <2>1 DEF IInv, TypeOK, ClientInv, PassInv
  <2>3. Held(c)' => Held(c)
    BY <1>1, <2>1, <2>2, HeldBefore, HeldAfter DEF HeldIs, Carries
  <2> QED
    BY <1>1, <1>2, <2>1, <2>2, <2>3 DEF Sees, SeesClose, Reads
<1> QED
  BY <1>3, <1>4, <1>5, <1>6

(* What the client sends, or puts into the server.                         *)
LEMMA ClientSees ==
  ASSUME IInv, IInv', OwnInv, Next, NEW c \in Passing, c \in Clients, Client(c) \/ Kill(c)
  PROVE  Sees(c)
<1> USE DEF IInv, TypeOK, OwnInv
<1>1. /\ UNCHANGED up /\ (Windows' <=> Windows)
      /\ data' = data
  BY PlatformFixed DEF Client, Connect, Hello, Pipe, Duplicate, Pass, Drop, ReadAnswer,
     Request, ReadReply, Kill, server
<1>2. ASSUME NEW where, pc' = [pc EXCEPT ![c] = where] PROVE pc'[c] = where
  BY <1>2
<1>3. ASSUME UNCHANGED <<inServer, up2>> PROVE Held(c)' <=> Held(c)
  BY <1>1, <1>3, HeldBefore, HeldAfter DEF HeldIs, Carries
<1>4. ASSUME unsent' = unsent PROVE Excused(c)' <=> Excused(c)
  BY <1>1, <1>4 DEF Excused
<1>5. ASSUME NEW m \in {"plain", "pass"}, up2' = [up2 EXCEPT ![c] = Append(up2[c], m)]
       PROVE  Carries(c)' <=> Carries(c) \/ m = "pass"
  <2>1. up2[c] \in Seq({"plain", "pass"}) /\ up2'[c] = Append(up2[c], m)
    BY <1>5
  <2>2. Contains(Append(up2[c], m), "pass") <=> Contains(up2[c], "pass") \/ m = "pass"
    BY <2>1, ContainsAppend
  <2> QED
    BY <2>1, <2>2 DEF Carries
<1>6. ASSUME ~Gone(c), pc'[c] \in Ended \ {"absent"}, ~wr'[c],
             UNCHANGED <<inServer, up2, unsent, answer>>
      PROVE  Sees(c)
  <2>1. Stage(c) # "over" /\ Stage(c)' = "over"
    BY <1>6 DEF Stage, Gone
  <2> QED
    BY <1>1, <1>3, <1>4, <1>6, <2>1 DEF Sees, SeesLeave, Pipes, Reads
<1>7. CASE Kill(c)
  <2>1. ~Gone(c) /\ pc' = [pc EXCEPT ![c] = "killed"] /\ wr' = [wr EXCEPT ![c] = FALSE]
        /\ UNCHANGED <<inServer, up2, unsent, answer>>
    BY <1>7 DEF Kill, Leave, Step
  <2>2. pc'[c] = "killed" /\ ~wr'[c]
    BY <2>1
  <2> QED
    BY <1>6, <2>1, <2>2 DEF Ended
<1>8. CASE Connect(c)
  <2>1. /\ pc[c] = "connect" /\ UNCHANGED <<inServer, up2, unsent, answer, wr>>
        /\ pc'[c] \in {"request", "hello", "turned away"}
    <3>1. PICK where \in {"request", "hello", "turned away"} : pc' = [pc EXCEPT ![c] = where]
      BY <1>8, ConnectEffect
    <3> QED
      BY <1>8, <3>1 DEF Connect
  <2>2. CASE pc'[c] = "turned away"
    BY <1>6, <2>1, <2>2 DEF Gone, Ended
  <2>3. CASE pc'[c] # "turned away"
    <3>1. Stage(c)' = Stage(c)
      BY <2>1, <2>3 DEF Stage, Gone, Ended
    <3> QED
      BY <1>1, <1>3, <1>4, <2>1, <3>1 DEF Sees, SeesNone, Pipes, Reads, Stays
  <2> QED
    BY <2>2, <2>3
<1>9. CASE Hello(c)
  <2>1. PICK where \in {"again", "pipe"} : Sends(c, "plain", where) \/ SendsNot(c, where)
    BY <1>9, HelloEffect
  <2>2. pc[c] \in {"hello", "again"} /\ UNCHANGED <<inServer, unsent, answer>>
    BY <1>9, <2>1 DEF Hello
  <2>3. CASE SendsNot(c, where) /\ pc'[c] = "failed"
    <3>1. ~wr'[c] /\ up2' = up2
      BY <2>1, <2>3 DEF SendsNot
    <3> QED
      BY <1>6, <2>2, <2>3, <3>1 DEF Gone, Ended
  <2>4. CASE Sends(c, "plain", where) \/ (SendsNot(c, where) /\ pc'[c] # "failed")
    <3>1. pc'[c] = where /\ wr' = wr
      BY <2>4 DEF Sends, SendsNot
    <3>2. Stage(c)' = Stage(c)
      BY <2>1, <2>2, <3>1 DEF Stage, Gone, Ended
    <3>3. Carries(c)' <=> Carries(c)
      BY <1>5, <2>4 DEF Sends, SendsNot, Carries
    <3>4. Held(c)' <=> Held(c)
      BY <1>1, <2>2, <3>3, HeldBefore, HeldAfter DEF HeldIs
    <3> QED
      BY <1>1, <1>4, <2>2, <3>1, <3>2, <3>4 DEF Sees, SeesNone, Pipes, Reads, Stays
  <2> QED
    BY <2>1, <2>3, <2>4
<1>10. CASE Pipe(c)
  <2>1. /\ pc[c] = "pipe" /\ pc'[c] = (IF Windows THEN "duplicate" ELSE "pass") /\ wr'[c]
        /\ UNCHANGED <<inServer, up2, unsent, answer>>
    BY <1>10 DEF Pipe, Step
  <2>2. Stage(c) = "before" /\ Stage(c)' = "before"
    BY <1>1, <2>1 DEF Stage, Gone, Ended
  <2> QED
    BY <1>1, <1>3, <1>4, <2>1, <2>2 DEF Sees, SeesMake, Pipes, Reads
<1>11. CASE Duplicate(c)
  <2>1. pc[c] = "duplicate" /\ wr[c] /\ Windows /\ UNCHANGED <<up2, answer>>
    BY <1>11 DEF Duplicate, ClientInv, ConnInv
  <2>2. CASE Leave(c, "failed") /\ UNCHANGED <<inServer, unsent>>
    BY <1>6, <2>1, <2>2 DEF Leave, Step, Gone, Ended
  <2>3. CASE pc'[c] \in {"drop", "pass"} /\ wr' = wr
    <3>1. Stage(c) = "before" /\ Stage(c)' = "after"
      BY <1>1, <2>1, <2>3 DEF Stage, Gone, Ended
    <3>2. \/ inServer' = [inServer EXCEPT ![c] = TRUE] /\ unsent' = unsent
          \/ inServer' = inServer /\ unsent' = unsent \cup {c}
          \/ inServer' = inServer /\ unsent' = unsent /\ pc'[c] = "failed"
      BY <1>11 DEF Duplicate, Leave, Step
    <3>3. CASE inServer' = [inServer EXCEPT ![c] = TRUE] /\ unsent' = unsent
      <4>1. Held(c)'
        BY <3>3, HeldAfter DEF HeldIs
      <4> QED
        BY <1>1, <1>4, <2>1, <2>3, <3>1, <3>3, <4>1 DEF Sees, SeesHandOver, Reads
    <3>4. CASE inServer' = inServer /\ unsent' = unsent \cup {c}
      <4>1. Excused(c)'
        BY <3>4 DEF Excused
      <4> QED
        BY <1>1, <1>3, <2>1, <2>3, <3>1, <3>4, <4>1 DEF Sees, SeesHandOver, Reads
    <3> QED
      BY <2>3, <3>2, <3>3, <3>4
  <2> QED
    BY <1>11, <2>2, <2>3 DEF Duplicate, Step
<1>12. CASE Pass(c)
  <2>1. /\ pc[c] = "pass" /\ UNCHANGED <<inServer, unsent, answer>>
        /\ \/ c \in unsent /\ Sends(c, "plain", After(c))
           \/ c \notin unsent /\ Sends(c, "pass", After(c))
           \/ SendsNot(c, After(c))
    BY <1>12, PassEffect DEF Pass
  <2>2. CASE SendsNot(c, After(c)) /\ pc'[c] = "failed"
    <3>1. ~wr'[c] /\ up2' = up2
      BY <2>2 DEF SendsNot, After
    <3> QED
      BY <1>6, <2>1, <2>2, <3>1 DEF Gone, Ended
  <2>3. CASE SendsNot(c, After(c)) /\ pc'[c] # "failed"
    <3>1. Windows /\ pc'[c] = "answer" /\ UNCHANGED <<wr, up2>>
      BY <2>3 DEF SendsNot, After
    <3>2. Stage(c)' = Stage(c)
      BY <1>1, <2>1, <3>1 DEF Stage, Gone, Ended
    <3> QED
      BY <1>1, <1>3, <1>4, <2>1, <3>1, <3>2 DEF Sees, SeesNone, Pipes, Reads, Stays
  <2>4. CASE Windows /\ \E m : Sends(c, m, After(c))
    <3>1. pc'[c] \in {"answer", "drop"} /\ wr' = wr
      BY <2>4 DEF Sends, After
    <3>2. Stage(c)' = Stage(c)
      BY <1>1, <2>1, <2>4, <3>1 DEF Stage, Gone, Ended
    <3>3. Held(c)' <=> Held(c)
      BY <1>1, <2>1, <2>4, HeldBefore, HeldAfter DEF HeldIs
    <3> QED
      BY <1>1, <1>4, <2>1, <3>1, <3>2, <3>3 DEF Sees, SeesNone, Pipes, Reads, Stays
  <2>5. CASE ~Windows /\ \E m : Sends(c, m, After(c))
    <3>1. up /\ pc'[c] = "drop" /\ wr' = wr /\ wr[c]
      BY <2>1, <2>5 DEF Sends, After, Broken
    <3>2. Stage(c) = "before" /\ Stage(c)' = "after"
      BY <1>1, <2>1, <2>5, <3>1 DEF Stage, Gone, Ended
    <3>3. CASE c \notin unsent /\ Sends(c, "pass", After(c))
      <4>1. Carries(c)'
        BY <1>5, <3>3 DEF Sends
      <4>2. Held(c)'
        BY <1>1, <2>5, <3>1, <4>1, HeldAfter DEF HeldIs
      <4> QED
        BY <1>1, <1>4, <2>1, <3>1, <3>2, <4>2 DEF Sees, SeesHandOver, Reads
    <3>4. CASE c \in unsent /\ Sends(c, "plain", After(c))
      <4>1. Carries(c)' <=> Carries(c)
        BY <1>5, <3>4 DEF Sends
      <4>2. (Held(c)' <=> Held(c)) /\ Excused(c)'
        BY <1>1, <2>1, <3>4, <4>1, HeldBefore, HeldAfter DEF HeldIs, Excused
      <4> QED
        BY <1>1, <2>1, <3>1, <3>2, <4>2 DEF Sees, SeesHandOver, Reads
    <3> QED
      BY <2>1, <2>2, <2>5, <3>3, <3>4 DEF Sends, SendsNot
  <2> QED
    BY <2>1, <2>2, <2>3, <2>4, <2>5
<1>13. CASE Drop(c)
  <2>1. /\ pc[c] = "drop" /\ pc'[c] = (IF c \in CClients /\ Windows THEN "pass" ELSE "answer")
        /\ ~wr'[c] /\ UNCHANGED <<inServer, up2, unsent, answer>>
    BY <1>13 DEF Drop, Step
  <2>2. Stage(c) = "after" /\ Stage(c)' = "after"
    BY <1>1, <2>1 DEF Stage, Gone, Ended
  <2> QED
    BY <1>1, <1>3, <1>4, <2>1, <2>2 DEF Sees, SeesDrop, Pipes, Reads
<1>14. CASE ReadAnswer(c)
  <2>1. /\ pc[c] = "answer" /\ pc'[c] = "done" /\ ~wr'[c]
        /\ UNCHANGED <<inServer, up2, unsent>>
        /\ \/ data[c] /\ answer'[c] = "answer"
           \/ ~data[c] /\ ~wr[c] /\ ~Held(c) /\ answer'[c] = "eof"
    BY <1>14 DEF ReadAnswer, Leave, Step, Writable
  <2>2. Stage(c) = "after" /\ Stage(c)' = "over"
    BY <2>1 DEF Stage, Gone, Ended
  <2> QED
    BY <1>1, <1>3, <1>4, <2>1, <2>2 DEF Sees, SeesRead, Pipes
<1>15. ~Request(c) /\ ~ReadReply(c)
  BY SessionAssumption DEF Request, ReadReply, ClientInv, ConnInv
<1> QED
  BY <1>7, <1>8, <1>9, <1>10, <1>11, <1>12, <1>13, <1>14, <1>15 DEF Client

(* The end of the server closes what it holds, and excuses everybody.      *)
LEMMA CrashHandover ==
  ASSUME IInv', Crash, Still, ServerInv
  PROVE  H!Close
<1>1. \A c \in Passing : ~Held(c)' /\ Excused(c)'
  BY DEF Crash, Held, InTransit, Broken, Excused, Clients, Passing
<1>2. UNCHANGED <<pc, wr, answer, data>> /\ Windows' = Windows
  BY DEF Still, client, Windows
<1>3. [c \in Passing |-> Stage(c)]' = [c \in Passing |-> Stage(c)]
  BY <1>2 DEF Stage, Gone
<1> QED
  BY <1>1, <1>2, <1>3 DEF H!Close, H!Fails

(* On both platforms and with both servers the way of a pipe from its      *)
(* client to the answer is that of Handover: the handle in the server, or  *)
(* the message, keeps it open until the answer, and only the end of the    *)
(* server or a handle left out of its message excuses                      *)
(* (ipc-windows.c:73-105, windows.go:182-215, server.c:36-51,              *)
(* server.go:37-44).                                                       *)
THEOREM SessionKeepsHandover == Spec => HandoverKept
<1>1. Init => H!Init
  <2> SUFFICES ASSUME Init PROVE H!Init
    OBVIOUS
  <2>1. \A c \in Passing : c \in Clients /\ ~Held(c) /\ ~Excused(c) /\ Stage(c) = "before"
    BY ContainsEmpty DEF Init, Held, InTransit, Excused, Stage, Gone, Ended, Clients, Passing
  <2> QED
    BY <2>1 DEF Init, H!Init
<1>2. ASSUME IInv, IInv', OwnInv, Next PROVE H!Next \/ UNCHANGED H!vars
  <2>1. \A d \in Passing : d \in Clients
    BY DEF Clients, Passing
  <2>2. ASSUME NEW c \in Clients, StepOf(c) PROVE H!Next \/ UNCHANGED H!vars
    <3>1. \A d \in Passing \ {c} : SeesNone(d)
      BY <1>2, <2>1, <2>2, OthersSame, OthersSee, PlatformFixed
    <3>2. c \in Passing => Sees(c)
      BY <1>2, <2>2, ServerSees, ClientSees DEF StepOf
    <3> QED
      BY <3>1, <3>2, SeesStep
  <2>3. CASE GoesOn
    <3>1. \A d \in Passing : SeesNone(d)
      <4>1. ASSUME NEW d \in Passing PROVE SeesNone(d)
        <5>1. d \in Clients /\ Same(d) /\ up' = up
          BY <2>1, <2>3 DEF GoesOn, Still, Same, client
        <5> QED
          BY <1>2, <5>1, OthersSee, PlatformFixed
      <4> QED
        BY <4>1
    <3> QED
      BY <3>1 DEF SeesNone, Pipes, Reads, Stays, H!vars
  <2>4. ASSUME NEW c \in taken, Panics(c) PROVE H!Next
    <3>1. H!Close
      BY <1>2, <2>4, CrashHandover DEF Panics, IInv
    <3> QED
      BY <3>1 DEF H!Next
  <2>5. ASSUME NEW c \in Clients, AssertFileConn(c) PROVE H!Next
    <3>1. H!Close
      BY <1>2, <2>5, CrashHandover DEF AssertFileConn, Still, IInv
    <3> QED
      BY <3>1 DEF H!Next
  <2>6. CASE Main
    <3>1. taken \subseteq Clients
      BY <1>2 DEF IInv, TypeOK
    <3> QED
      BY <1>2, <2>2, <2>3, <2>4, <2>6, <3>1, MainEffect DEF StepOf
  <2> QED
    BY <1>2, <2>2, <2>5, <2>6 DEF Next, Handler, StepOf
<1>3. UNCHANGED vars => UNCHANGED H!vars
  BY DEF vars, server, client, H!vars, Held, InTransit, Broken, Windows, Excused, Stage, Gone
<1>4. IInv /\ IInv' /\ OwnInv /\ [Next]_vars => [H!Next]_H!vars
  BY <1>2, <1>3
<1> QED
  BY <1>1, <1>4, InvHolds, OwnHolds, PTL DEF Spec, HandoverKept, H!Spec

(* So what Handover promises holds of these programs too, and no answer    *)
(* comes into a pipe that has been read to its end.                        *)
COROLLARY SessionEndExcused == Spec => []H!EndExcused
  BY SessionKeepsHandover, H!HandoverEndExcused, PTL DEF HandoverKept
===============================================================================
