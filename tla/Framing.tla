-------------------------------- MODULE Framing -------------------------------
(***************************************************************************)
(* A stream of bytes that carries frames of libsipc/ipc.c: a writer puts   *)
(* messages into frames by sipc_frame, the transport cuts the stream       *)
(* anywhere, and a reader takes it apart by sipc_unframe.  Nothing in the  *)
(* repository calls these two; the writer and the reader do what           *)
(* ipc.h:99-112 tells their callers to do.                                 *)
(***************************************************************************)
EXTENDS SipcFrame

CONSTANTS
  Byte,      \* the bytes there are
  Sendable,  \* messages of the writer
  MaxStream  \* bound: no frame follows after so many bytes

ASSUME FramingAssumption ==
  /\ HexDigits \cup {"NL"} \subseteq Byte
  /\ Sendable \subseteq Seq(Byte) /\ MaxStream \in Nat

VARIABLES
  msgs,   \* the messages that were framed
  places, \* how many bytes of the stream are before the frame of each
  stream, \* the bytes that were sent
  got,    \* how many of them have been received
  off,    \* how many of them are before the current frame
  size,   \* the sz of the next call of sipc_unframe
  pc,     \* the reader may "wait" for data, "check" what it has got, "parse"
          \* a message; "failed" is final
  view,   \* what the parser is set up with: the bytes from at, n of them
  read,   \* messages read
  cut     \* sipc_unframe was called with a frame that was not all there

sending == <<msgs, places, stream>>
frames == <<sending, got, off, size, pc, view, read, cut>>

-------------------------------------------------------------------------------
FrameInit ==
  /\ msgs = <<>> /\ places = <<>> /\ stream = <<>>
  /\ got = 0 /\ off = 0 /\ size = 0 /\ pc = "wait" /\ read = 0
  /\ view = [at |-> 1, n |-> 0] /\ cut = FALSE

FrameLength(k) == HeaderSize + Len(msgs[k])

Send(m) ==
  /\ Frameable(m) /\ Len(stream) < MaxStream
  /\ msgs' = Append(msgs, m) /\ places' = Append(places, Len(stream))
  /\ stream' = stream \o Framed(m)
  /\ UNCHANGED <<got, off, size, pc, view, read, cut>>

(* More of the stream arrives, and the reader looks at all that it has got.*)
Receive(n) ==
  /\ pc = "wait"
  /\ got' = got + n /\ pc' = "check" /\ size' = got + n - off
  /\ UNCHANGED <<sending, off, view, read, cut>>

(* The reader calls sipc_unframe; when there is more than the one message, *)
(* once more with the size that it has returned.                           *)
Check ==
  /\ pc = "check"
  /\ cut' = (cut \/ /\ read < Len(msgs)
                    /\ got - off \in HeaderSize..(FrameLength(read + 1) - 1))
  /\ \E o \in Unframe(stream, off, size) :
       /\ pc' = IF o.ret = 0 THEN "wait"
                ELSE IF o.ret < 0 THEN "failed"
                ELSE IF o.set THEN "parse" ELSE "check"
       /\ size' = IF o.ret > 0 THEN o.ret ELSE size
       /\ view' = IF o.set THEN [at |-> off + HeaderSize + 1,
                                 n |-> o.ret - HeaderSize] ELSE view
  /\ UNCHANGED <<sending, got, off, read>>

(* The reader parses the message and goes on to the next one; it cannot if *)
(* the message was longer than what has arrived.                           *)
Parse ==
  /\ pc = "parse"
  /\ read' = read + 1 /\ off' = off + size
  /\ pc' = IF off + size > got THEN "failed"
           ELSE IF off + size = got THEN "wait" ELSE "check"
  /\ size' = got - (off + size)
  /\ UNCHANGED <<sending, got, view, cut>>

Reader == (\E n \in 1..(Len(stream) - got) : Receive(n)) \/ Check \/ Parse

FrameNext == (\E m \in Sendable : Send(m)) \/ Reader

FrameSpec == FrameInit /\ [][FrameNext]_frames

-------------------------------------------------------------------------------
(* The third digit of the size of a frame is not zero: it is lost.         *)
Garbled(k) == (FrameLength(k) \div 16) % 16 # 0
SomeGarbled == \E k \in 1..Len(msgs) : Garbled(k)

FrameTypes ==
  /\ msgs \in Seq(Sendable) /\ places \in Seq(Nat) /\ stream \in Seq(Byte)
  /\ got \in 0..Len(stream) /\ off \in Nat /\ size \in Int
  /\ pc \in {"wait", "check", "parse", "failed"}
  /\ view \in [at : Nat, n : Nat] /\ (pc = "parse" => view.n > 0)
  /\ read \in Nat /\ cut \in BOOLEAN

(* The parser that sipc_unframe sets up has the message that was framed,   *)
(* all of it received, and no byte of another one, unless the size of a    *)
(* frame was garbled or sipc_unframe was called too early: then it does    *)
(* not ask for more data, as ipc.h:109 says, but looks at a byte that has  *)
(* not arrived. (ipc.c:898-935)                                            *)
FramesExact ==
  pc = "parse" /\ ~cut /\ (\A k \in 1..Len(msgs) : k <= read + 1 => ~Garbled(k)) =>
    /\ read < Len(msgs) /\ view.at + view.n - 1 <= got
    /\ SubSeq(stream, view.at, view.at + view.n - 1) = msgs[read + 1]

(* In these cases only does the reader not catch up with the writer; a     *)
(* frame whose header has come in pieces, or that has come together with   *)
(* the next one, is read. (ipc.c:898-935)                                  *)
FramesRead == []<>(read = Len(msgs) \/ cut \/ SomeGarbled)
===============================================================================
