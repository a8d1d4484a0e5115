# Verification of simple-ipc

TLA+ modules, TLC configurations and TLAPS proofs about the code in `src/`:
the encoding library in C (`libsipc`), its Go counterpart (`go-ipc`) and the
programs that use them (`cmd`). The code is the reference; `src/ipc.md` and
the comments of the headers say what it is meant to do.

## The system

Processes exchange messages of one line: a type byte, arguments separated by
spaces, a newline. Arguments are booleans, hexadecimal reals `<sig>p<exp>`,
length-prefixed strings and bytes, lists and maps. On Unix they travel over
SOCK_SEQPACKET sockets, with file descriptors as ancillary data; on Windows
over message pipes, with handles duplicated into the peer and named in a `W`
message.

| component | state | operations | what makes it correct |
| --- | --- | --- | --- |
| formatter, `ipc.c:595-896` | position in the format, bytes so far, the `va_list` | `sipc_vformat`, `format_arg`; the caller grows its buffer and calls again | stays in two buffers although most writes are unchecked; results can be told apart; no byte of an item is lost; a retry makes progress |
| token reader, `ipc.c:40-514` | a cursor, an end | `parse_hex`, `parse_real`, `sipc_next`, typed getters | never looks outside the buffer; lengths are exact; both copies of the syntax agree |
| parser, `ipc.c:516-593, 937-945` | the cursor; depth and list/map bits during `sipc_any` | `sipc_init`, `sipc_start`, `sipc_any`, `sipc_end` | containers nest as on a stack of 16; views lie in the buffer; every loop ends |
| numbers, `ipc.c:281-339, 595-688` | none | `build_double`, `format_uint64`, `format_double` | a round trip, rounding to the nearest, limits |
| framing, `ipc.c:898-935` | none (the caller's buffer) | `sipc_frame`, `sipc_unframe` | a stream cut anywhere is taken apart into the same messages |
| Unix transport, `ipc-unix.c`, `go-ipc/unix.go` | descriptor table, socket path | connect, listen, sendmsg, recvmsg | descriptors arrive once and are closed once; a path leads to a live listener |
| Windows transport, `ipc-windows.c`, `go-ipc/windows.go` | handle tables of two processes | connect, accept, parse and append handles | a handle in the other process has somebody there who knows of it |
| C server, `server.c` | descriptor table shared by its threads | accept, thread per connection | threads do not disturb each other |
| C client, `client.c` | a connection, a pipe | send, pass the pipe, wait | an answer or the end of the pipe |
| Go parser and formatter, `parse.go`, `format.go` | the rest of the slice | recursive reader, append functions | agrees with the C reader; round trip; no read past the end |
| Go server, Go client, ipc-rc | a connection | answer and echo; request and wait for a reply | every request gets its own reply; the server outlives its clients |

They interact by calls within a process (server and client call the formatter
and the parser on their own buffers), by messages and descriptors between
processes, and through the descriptor table between threads of the server.

What is hard here: unchecked writes and reads whose safety is a global
argument (20 spare bytes, a final newline); a word left unwritten on overflow
and used; a stack kept in bits; descriptor numbers that are reused across
threads the moment they are closed; clients that die while a thread is about
to write to them; blocking reads that only the last close of a pipe ends; a
grammar that is written down five times (reader and getters in C, reader in Go,
two formatters) and has to mean the same each time; handles that arrive in a
process before it hears of them.

## Modules

| module | what it is |
| --- | --- |
| `SipcFormat` | `sipc_vformat` and its retrying caller, one action per branch of its two loops |
| `SipcLexer` | one call of `sipc_next` or of a getter, as the set of its outcomes |
| `SipcParser` | the parser object under any sequence of calls; EXTENDS `SipcLexer` |
| `Nesting` | what `sipc_any` promises about brackets: an explicit stack |
| `Readings` | what `sipc_any` makes of a text beside a parser set on its views and the Go parser; EXTENDS `SipcParser`, `GoParser` |
| `SipcReal` | numbers: `build_double` and the formatters of integers and doubles; EXTENDS `SipcLexer` |
| `GoParser` | the Parser of `parse.go` as operators; EXTENDS `SipcReal` |
| `GoFormat` | the Append functions of `format.go`; EXTENDS `SipcReal` |
| `SipcFrame` | `sipc_frame` and `sipc_unframe`; EXTENDS `SipcLexer` |
| `Framing` | a stream that carries frames; EXTENDS `SipcFrame` |
| `Wire` | values from a writer to a reader, in a datagram, perhaps written again by a program in between, or any messages in a stream; composes `Framing`, `GoFormat`, `GoParser` |
| `Handover` | the promise a server makes to a client that hands it a pipe; the abstract specification of the next two |
| `FdPassing` | C server, C clients and the part of the kernel they can see, on Unix |
| `Session` | C and Go servers on Windows, the Go server on Unix, and c-client, go-client and ipc-rc around them |
| `SocketPath` | servers in C and in Go that come up, die and come up again on one path |
| `MCSipcFormat`, `MCSipcParser`, `MCWire`, `MCFdPassing`, `MCSession`, `MCSocketPath` | inputs and bounds for TLC |
| `SipcFormatProofs`, `SipcParserProofs`, `SocketPathProofs`, `FramingProofs`, `FdPassingProofs`, `SessionProofs` | theorems |
| `SequenceLemmas` | lemmas about queues, for the last two, and about induction and recursion over numbers, for the parser's |

### SipcFormat

`pc = "fill"` is the loop at `ipc.c:841`, `"count"` the loop at 866; `Retry` is
the caller that follows `ipc.h:88`. Text is abstracted to its length: `ArgSize`
is what `format_arg` returns, `ArgWrites` how many bytes it writes into the
room it is told of, `ArgReads` how many arguments it takes. `hi` and `dummy`
are the extents of what has been written to the two buffers. `lag` counts the
arguments by which the `va_list` of `sipc_vformat` is behind the format: it
becomes positive when a raw copy does not fit (`ipc.c:822`) and, where
`va_list` is a pointer and is passed by value (`VaShared = FALSE`), after
every specifier. `%%` is an atom without an argument. An argument then read
from the place of another is undefined behaviour and ends the model in
`"wild"`. Lengths are naturals; that `int sz` may overflow is not modelled.

`gaps` are the items whose bytes are not all there. `NothingDropped` says that a
message reported as complete has none but the `negative` ones: for a
`SIPC_NEGATIVE_INT` given to `%p`, `format_arg` writes the minus sign, then the
digits over it, and counts both (`ipc.c:730-732`). The sign is lost and the last
byte counted is never written. What that does to a message is in `Wire`.

### SipcLexer and SipcParser

`SipcLexer` follows the cursor byte by byte where the code decides by bytes,
and is a set of outcomes because `parse_hex` returns without writing `*pv`
when a number does not fit (`ipc.c:112-120`): the outcome is then any member
of `Stale`. Every outcome has the indices it looked at, so that a read outside
the buffer is visible. Numbers have `W` bits, `INT_MAX` is `IntMax`. In a
double only the sign is kept; its value is in `SipcReal`.

`SipcParser` has one action for each call a client makes and one, `Scan`, for
each turn of the loop in `sipc_any`. The client is any caller that starts a
message, reads values by `sipc_any` or by getters in any order, may skip the
rest by `sipc_end`, and after an error or an end starts the next message where
the cursor is, as `print_message` does. `from`, `val`, `tok`, `res` and
`reads` record the last call for the properties.

`NestingKept` is the refinement: `Stack` reads `depth` and the bits of
`is_array` as a stack, and every step of the parser is a step of `Nesting`.

### Readings

After each call of `sipc_any` the same bytes are read twice more.
`WalkAgrees`: `ipc.h:48` declares the view of a container to be a parser, and a
program that uses it as one goes through it token by token and must come to the
closing bracket exactly where the view ends. (No program of the repository does;
`print_message` prints the bytes of a view.) Its `end` is another one than that of the
whole message, and the code has one exception, which the property names: a
string right before the bracket is refused, for `parse_szstring` wants one byte
to be left.

`GoAgrees`: the Go parser, on the same bytes, reads the same value up to the
same place, or refuses what C refuses. The property names what differs:

* `inf` (`ipc.c:431`) and numbers with more digits than a word: on overflow
  C goes on with a word it has not written, while Go keeps the first digits;
* exponents above `INT_MAX`, for which Go puts one of the opposite sign
  (`parse.go:138-142`), and those that come above it in `build_double` when the
  place of the highest bit is added (`ipc.c:291`). Up to there, 14 and 15
  included, numbers have to agree;
* Go refuses maps of odd length, equal keys (`ipc.md:146`), which C does not
  look for, and stray closing brackets, and counts an atom in the sixteenth container
  as one level more; a list or map as a key is a panic (`parse.go:238`);
* a newline inside a container is an error in C and the end of the message in
  Go, which drops the container (`parse.go:253, 362`).

`GoEnds`: going through a text as go-server does never reads past its end, but
for a text that ends in a space, which `NewParser` lets through
(`parse.go:342`), and for an empty line at the end.

### SipcReal, GoParser, GoFormat

A double is the record of the three fields of its encoding, `FracBits` of the
`W` bits being the fraction; texts are sequences of bytes. `BuildDouble` has two
outcomes for the shift by the whole width (`ipc.c:290`, undefined in C); in Go
such a shift gives zero. `GoParser` keeps no elements of slices and maps, only
the keys of the map that is being read; its errors are told apart where the code
returns different ones, and `"PANIC"` is an index out of range. `HexBuffer` is
the number of digits `appendHex` has room for: eight where a word has sixteen
(`format.go:24`). Slices and maps hold scalars, as deep as the formatter's own
recursion repeats itself. The narrowing of `sipc_float` is left out.

### SipcFrame, Framing and Wire

`Framing` is a stream of bytes: `Send` puts a message into a frame at its end,
`Receive` delivers any number of bytes, `Check` is a call of `sipc_unframe`,
`Parse` the use of its parser. Nothing in the repository calls `sipc_unframe`; the
reader does what `ipc.h:105-112` lets it: it waits for more when told so, and
calls again with the size returned when the parser has not been set up because
there was more than one message. The bytes are any set `Byte`.

`Wire` starts from what a program wants to send, formats it by either library
and lets it arrive as a datagram, handed to `sipc_init` whole; or it is a
`Framing`, with messages of the C formatter. Between writer and reader `Relay`
may come once: a program reads the value by `sipc_any` and writes it by `%p`,
into a buffer that has any byte of `Dirt` where nothing is written. No program of
the repository uses `%p`; it is what `ipc.h:80` offers it for. `any` remembers
the type it was read as.

`RoundTrip` and `DoublesNearest` hold but for: numbers longer than `appendHex`
has room for, rounding that carries into the next power of two (`ipc.c:296`:
half of the right value; `parse.go:177` the same), numbers of more than a word,
maps with keys that are written alike, such as subnormal doubles, which the Go
parser refuses as duplicates,
and subnormals, the sign of zero and all but one nan, which the format does not
have. After a `Relay` there are three more: a negative integer has become
another number or no message at all (`ipc.c:730-732`, the finding of the run
`WireAny`); `inf` is minus infinity (`ipc.c:431`); and a list or map that is not
empty is refused by both readers, because its view begins with the space before
the first item and ends before that of the closing bracket (`ipc.c:522, 557`),
while `format_array` writes a space behind the one that opens and none before the
one that closes (`ipc.c:703-715`). `FramesExact` and `FramesRead` hold but for two cases: the third digit of a size
is lost (`ipc.c:926`), and a frame whose header has arrived without its whole
body is not answered by the 0 of `ipc.h:109` but by a look at a byte that is not
there yet; the call returns its size or -1.

### Handover

What a server promises to a client that hands it the write end of a pipe,
whatever carries it there. A client is `before` the hand-over, `after` it, or
`over`; `own` are the clients that still have the write end open themselves,
`away` those whose write end is open elsewhere. An answer comes only into a pipe
that is `away`; nothing opens a pipe again; what is `away` is let go of only when
it is answered, when its client is over, or when something has failed that
excuses it; and a client reads the end of its pipe only if it is open nowhere.
`EndExcused` follows: no client reads the end instead of an answer without an
excuse.

`HandoverKept` in `FdPassing` and in `Session` says that their steps are its
steps or leave its state alone. The mapping takes `stage` from the client's
program counter, `answered` from the data in the pipe, `read` from what it read,
`excused` from the failures `Excused` names, and `away` from `Held`: on Unix a
descriptor of the server, or the message that carries the pipe while its
connection is one the server has or can still accept; on Windows the handle in
the server's process, from before the message that names it; with Go on Unix
the message or the handler. A message on a connection that nobody will read
holds nothing, and it is for the prover to see that it then has an excuse.

### FdPassing

The server's main thread has `Accept`, `AcceptFails`, `Spawn`, `SpawnFails`;
each connection has a thread with one action per system call of
`handler_thread` and one, `ScanControl`, for the loop over the control message
in `ipc_unix_recvmsg`; a client has one action per call of its `main`, and
`Kill`. The kernel is external and modelled as these programs use it: lowest
free number first, references to a pipe from descriptors and from messages in
flight, end of file when none is left, death by SIGPIPE. `ScanControl` reads
three ints past the control data (`ipc-unix.c:121-130` adds `cmsg_len`, header
included, to the start of the data), each any member of `Garbage`.
`AnswersDelivered` names the reasons for which a client gets no answer: its pipe
was dropped on the way because the table was full (`lost`), the main thread ended
the server because it got no descriptor or no thread (`exhausted`), or the server
is down and a client was killed, whose pipe then ended it by SIGPIPE (`Ruined`).
As long as the server is up the death of one client excuses no other. The
four seconds of sleep are not time in the model, just a point where anything
else may happen. `ipc_unix_sendmsg` returns the byte count and not the zero
that `ipc-unix.h:10` promises; no caller looks at it.

### Session

On Windows an instance of the pipe goes through `CreatePipe`, `ConnectPipe`,
`Spawn` in the main thread while clients try to connect; `taken` is the client
that has it. A handler reads, answers into the handle it was given, closes it
and, in Go, sends the message back. `Duplicate` puts the handle into the
server's process before `Pass` sends the message that names it: c-client closes
its own copy in between, go-client after. `up2` and `down` are messages on their
way; on Windows they carry a number, on Unix the pipe itself (`InTransit`).
`Finalize` is the garbage collector of Go, which alone closes what a handler
leaves behind. The exceptions the properties name are what the code does:

* the Go server on Unix ends at its first connection: `Listen` gives a
  `net.UnixListener`, whose connections are no `FileConn` (`server.go:22`);
* the Go server on Windows ends when a client has left before `Accept` is done
  with it (`windows.go:99-110`, `server.go:58`); the one in C goes on;
* `WriteFiles` leaves out a handle it cannot duplicate and reports it as sent
  (`windows.go:202, 214`): the client reads the end of its pipe;
* when `thrd_create` fails on Windows after c-client has put its handle into
  the server, the handle stays there and c-client waits for good;
* the C server sends no replies, and ipc-rc waits for one (`rc.go:147`).

`MayDie` are the clients that may be killed. Failures of the system other than
those (`CreateNamedPipe`, `CreatePipe`) are not modelled, nor is a buffer of the
pipe that is full: no client sends more than three messages.

### SocketPath

`names` says to which socket each name leads: `None` if it does not exist,
`Stale` if its process has died, for the name outlives the socket. A server in
C goes through `Unlink`, `Bind`, `Listen` (`ipc_unix_listen`), one in Go through
`Bind`, `Listen` and, when the path is taken, `TryTmp`, `ListenTmp`, `Rename`
(`ListenUnix`), one action per system call; `Die` may happen anywhere. Only the
errors that the order of these calls can cause, and a failing rename, are
modelled; a failure of `listen` or of `bind` for another reason is not. Which
temporary name is drawn is open, so that the draws of two servers may collide,
as they do when their generators start from the same seed. The programs never
close a listener that serves, so that what Go removes when one is closed is
followed only where `ListenUnix` itself closes it. Clients do not appear: they
try once (`client.c:65`; `ipc.md:183` asks them to retry), and `Reachable` is
what such a try finds.

## Runs

| run | question | bounds |
| --- | --- | --- |
| `SipcFormat` | types, both buffers, results, completeness, progress of retries | every format of up to 3 of 12 items whose sizes are below, at and above 20 bytes; buffers of 0, 20, 21, 24, 40, 46 |
| `SipcFormatSecondCall` | is the size reported enough? No: `ipc.c:873` reports the exact size, the loop wants 20 more | formats of scalars |
| `SipcFormatRawCopy` | does each specifier read its own arguments? Not after a `%.*s` that did not fit | formats with raw copies |
| `SipcParser` | types, reads, views, lengths; one meaning of a text for `sipc_any`, the getters, a parser set on the views and the Go parser; is `sipc_any` a stack of 16? end of all loops | every line of up to 3 of 13 bytes, and of 4 that begin with a space or a newline, every pair of 31 atoms or broken ones, maps of two pairs with 10 keys, every sequence of up to 5 brackets and bytes that look like one, 15 to 17 levels with every choice of kinds at the outer and inner levels, closed as they were opened or with one of those brackets exchanged |
| `SipcParserTooLarge` | is a number that does not fit refused? No | pairs of atoms |
| `SipcParserInf` | is `inf` positive? Not for `sipc_any` | pairs of atoms |
| `FdPassing` | types, who owns which descriptor, why answers are missed; do clients end, do descriptors come back? are pipes handed over as `Handover` says? | 2 clients, both of which may be killed, 3 free descriptors, harmless garbage |
| `FdPassingGarbage` | the same server when the garbage may be an open number: another thread's pipe is closed | 2 clients |
| `SocketPath` | do clients always reach a server, and is the take-over without a gap? | 2 servers in C, 2 in Go, 2 temporary names, 2 draws for the 5 of the code |
| `Wire` | does every value come back, in all four directions, and after a program has written it again by `%p`? are numbers the nearest double? is a stream taken apart into its frames? | 20-bit words, doubles with 10 of fraction and 9 of exponent, several thousand values around the limits, slices of up to 3 and maps of 2 pairs; streams of up to 3 frames of 10 to 21 bytes, and of 259, in pieces of any length, sent while the reader reads |
| `WireAny` | does `%p` write what `sipc_any` has read? Not a negative integer (`ipc.c:731`) | integers of both signs, four bytes that may be left in the buffer |
| `Session` | are handles accounted for, do answers and replies arrive, who ends, who waits? are pipes handed over as `Handover` says? | every pair of two c-clients, two go-clients and an ipc-rc with 2 requests; one of each kind may be killed; three servers |

Why the bounds are enough. *Formats*: an item interacts with the next only
through `sz`, `lag` and the kind of loop, and three items with these sizes put
every kind on either side of each limit. *Words*: `W = 12` keeps the shape of 64
bits: the shift by four of three digits can wrap to a smaller word, which the
code notices, and to a larger one, which it does not; lengths that wrap exist.
`IntMax = 15` makes exponents overflow. In `Wire`, `W = 20` leaves room for a
fraction, bits beyond it and an exponent field with both of its ends; `IntMax =
300` lies above every exponent a double has, as in the code. *Lines*: calls
share nothing but the cursor, so that pairs of atoms show every way one call
leaves it to the next; a space and three bytes are enough to end in the middle
of every look-ahead (`inf`, `nan`, `-`, `p-`). *Depth* has the value of the
code, 16, with 32 flag bits. *Relay*: one is enough, for the second would begin
with a message like the first, and of the big.Floats, which it leaves out, every
reader makes a double. *Descriptors*: two clients use up to four numbers, and
three are free, so that the table is full with two connections and one pipe:
`accept` fails, or the second pipe is dropped. A number closed by one thread
goes to the other or to `accept`. Of the safety properties, and of
`HandoverKept`, the proofs are for any clients and any table. `Garbage` leaves
out the listener's number: a server that closes its listening socket is not
followed. *Path*: two servers of each kind are enough for each of the four
mixtures of two starts with a third in between; with two names, both may be
taken at once, and two draws run out as five do. *Sessions*: connections share
the pipe instance, the life of the server and nothing else, so that pairs show
every interaction; `AtMost` is that bound. *Streams*: three frames are one that
is read, one that is cut and one that comes with it. The theorems hold for any
number of each.

Deadlock is not checked where the program ends or waits for good by design:
`sipc_vformat` returns, and servers wait for a client after the last one.
In `SipcParser` and `Wire` the end is a stuttering action (`Done`, `Stopped`),
and deadlock is checked.

Fairness. The formatter and the parser run in one thread: weak fairness of
the whole next-state relation says only that the thread is scheduled. In
`FdPassing` each thread of the server and each client is weakly fair, since
the scheduler is; every action of a thread stays enabled until the thread takes
it, or is a system call that stays ready. No fairness makes a client be killed.
In `Session` the main thread, each handler and each client are weakly fair for
the same reason, and so is `Finalize`: the Go runtime collects garbage at least
every two minutes, and the finalizer of `os.File` closes what nobody refers to.
In `Wire` weak fairness says that what was sent arrives and is looked at.
`SocketPath` has safety properties only and no fairness.

## Proofs

All theorems hold for all values of the constants under the assumptions the
modules name: `FormatAssumption` (the spare room is at least the nine bytes of
a length prefix, atoms fit in it), `LexerAssumption` (`INT_MAX` is below half
the range of a word and at least its width), `ParserAssumption` (at least as
many flag bits as levels, messages are finite sequences and none takes up more
than a sixteenth of the address space), `RealAssumption` (words are whole hex
digits, the exponent field has two bits at least, and `INT_MAX` lies above the
bias by more than the bits of a fraction), `PathAssumption`,
`FramingAssumption` (messages consist of bytes, digits and the newline are
bytes), `FdAssumption` and `SessionAssumption` (the kinds of client are disjoint).

* `SipcFormatProofs`: `FormatTypes`, `FormatWritesInBounds`,
  `FormatReturnContract`, `FormatNothingDropped`. The bounds are not inductive:
  what is needed is that in the first loop either the items that lack a byte are
  the negative integers so far, for what is counted and written fits in the room
  kept free, or a string was skipped and `sz` is already past
  the buffer, so that only the counting loop can follow.
* `SipcParserProofs`: `ParserTypes`, `ParserReadsInBounds`,
  `ParserViewsInBounds`. Every operator of `SipcLexer` leaves its cursor in
  `i..Len(b)+1` and looks only inside the buffer if the buffer ends in a newline
  and the cursor is in it: a run of digits, a word compared from left to right
  and a string that leaves one byte all stop at the newline. The invariant adds that a cursor inside a message is
  before the end, that no message is read from a buffer that failed
  `sipc_init`, and, during a scan, that the bit at the bottom of the word is the
  kind of the container whose view is being measured. `ParserKeepsNesting` is
  the refinement of `Nesting`: shifting the word of bits left pushes on the
  stack it stands for, and shifting it right pops from it.
  `ParserLengthsExact` is about the overflow that `parse_hex` misses. As long as
  no digit is lost the word is the number the digits stand for (`TrueNumber`);
  once one is, the word that passes the check `n < v` is at least `2^(W-4)` and
  stays so, which is more than the bytes any buffer has left, and the length
  check refuses it. That is where the bound on messages is needed: without it a
  length that wraps could fit. `ParserAnyAgreesWithGetters` goes through the
  syntax of `sipc_next` case by case (`NextCases`). For integers, the getter goes
  through `parse_real`: its `p0` and exponent may be left out, the shift by the
  exponent loses no bit (`FitsShift`), and the range check of `sipc_int64` is
  passed by what the property lets through (`SignedAgrees`).
  The last part is about the formatter and the getters together: `UnsignedComesBack`,
  `SignedComesBack`, `StringsComeBack` and `DoublesComeBack` say that what is
  written as an argument is read as the value it was, and can be read as nothing
  else, by the getter and, for the first three, by `sipc_any`. For words this
  takes that the digits are those of the number and add up to it
  (`LastDigitsAre`, `NumberBack`) and that shifting the zeros at its end into an
  exponent and back loses no bit (`TrailingZerosIs`, `ShiftBack`). A double is
  written with its odd part; `BuildBack` says that, aligned at the top of a word,
  it is the fraction again, with nothing to round, and that the exponent comes
  out as it was, whether it was written or shifted in. Besides the assumptions this needs
  `FracBits + 8 <= W`, so that a double written without an exponent fits in a
  word: 52 + 8 <= 64 in the code, 10 + 8 <= 20 in the run `Wire`, which checks
  the same on its instance as a part of `RoundTrip`.
* `SocketPathProofs`: `PathTypes`, `PathTmpNames`, `PathOneIsReached`,
  `PathNoGap`, from `PathAssumption` (the two kinds of server are disjoint, the
  path is no temporary name, `None` and `Stale` are not servers). The invariant
  says that a server that holds a temporary name owns it and that, while nobody
  has died, the path leads to a server that listens or is about to, or somebody
  is about to bind it, or nobody has bound anything. The last part is what the
  interleaving of unlink and bind needs: who removes the name has `bind` ahead.
* `FramingProofs`: `FramingTypes` and `FramingExact`, for messages of any bytes
  and every length a header can state. `Header` says that the digits of a size
  that `sipc_frame` writes, taken together by `sipc_unframe`, are that size if the
  third one is zero. The invariant has two halves: the stream consists of the
  frames, one after the other (`StreamInv`), and, as long as no size was garbled
  and `sipc_unframe` was not called too early, the reader is at the beginning of
  the next frame and its size is either all that it has or that of the frame
  (`InStep`). The second is what a call with the returned size relies on.
* `FdPassingProofs`: `FdTypes`, `FdOwnDescriptors`, `FdAnswersDelivered`, for any
  number of clients, any size of the table and whoever may be killed. The one
  hypothesis, `HarmlessGarbage`, says that the ints read past the control
  message name no number of the table. The code does not see to that, and the
  run `FdPassingGarbage` shows what happens without; the theorems say that
  nothing else goes wrong. `OwnDescriptors` needs to know where a connection is
  (in the backlog, with main or with a thread, once, `ConnInv`) and where the
  write end of a pipe is (in one message, with one thread, or dropped,
  `PassInv`): a number taken from the table was free, so it had no owner.
  `AnswersDelivered` adds `WaitInv`: a client that waits has its answer, an
  excuse, its message still in the socket, or a thread about to answer.
* `SessionProofs`: `SessionTypes`, `SessionHandlesKnown`,
  `SessionAnswersDelivered`, `SessionRepliesMatch` and the action property
  `SessionServerStays`, for any number of clients and requests, and for the three
  servers. The invariant follows each client (`ClientInv`): how far its connection
  is (`ConnInv`), that its handle is in one message, then with the handler, and is
  closed by the handler once the answer is written (`PassInv`, `HandleInv`), that
  the pipe it is going to read has a write end open somewhere or an answer
  (`AnswerInv`), and that an ipc-rc has one request, echo or reply under way
  (`RequestInv`). `ServerInv` says that a server that has ended holds nothing. A
  step of one client or its handler leaves the others as they are
  (`OthersSame`), so there is one lemma for each action and the client it is of.
* `Handover` has `HandoverEndExcused`: while a client waits, its pipe is away,
  answered or excused. `FdKeepsHandover` and `SessionKeepsHandover` are the
  refinements, with the inductive invariants above; their corollaries
  `FdEndExcused` and `SessionEndExcused` get the promise to the clients from the
  abstract specification alone. What had to be added is, for `FdPassing`, that
  a client has the write end itself only between `Pass` and `Drop` (`OwnInv`),
  and that a pipe is held exactly when a thread has it, or its message is on a
  connection in the backlog or with a thread (`HeldIs`).
* `SequenceLemmas`: what is contained in a queue, and how often, after an append
  at its end or a removal from its front; that `Min` of a set of naturals is its
  least member; and, from that, induction with a set for the property
  (`NatInductive`) and that a function may be defined by recursion over an
  interval (`Recursion`). The provers cannot use the library's theorems for
  these, which have an operator as their parameter; so the words of
  `parse_hex`, their true values and the powers of two are recursive functions
  (`Number`, `TrueNumber`, `TwoTo`), and the lemmas about them (`TwoToDef`,
  `HexWord`) are proved by these two.

Where an action has several branches, the proofs first state what it comes to
in the states of the invariant (`MainEffect`, `HelloEffect`, `AcceptEffect` and
the like) and go on from there. Each inductive invariant was checked by TLC on
the instance of its run before it was proved.

Only model-checked: liveness (`RetriesEnd`, `MessagesEnd`, `FramesRead`,
`ServerListens`, `ConnectionsClosed`, and `ClientsEnd` and `NothingLeft`), which
the prover does not reach; `WalkAgrees`, `GoAgrees`, `GoEnds` and `RoundTrip`,
whose readers are recursive operators, which the prover cannot take in (of
`RoundTrip` the conversions from C to C are proved one value at a time, as said
above; containers, floats, messages as a whole and everything from or to Go are only checked);
`DoublesNearest`, which is about the value of a double and belongs to the same
module; and the types of `Wire` beyond those of `Framing`, since that module
uses these readers.

## Not modelled, and why

* Messages with several descriptors or handles (`ipc-unix.c:114-136`,
  `ipc-windows.c:52-64`, where `n > hnum` lets one too many through,
  `windows.go:163-176`, `unix.go:53-66`), and the handle that is closed under its
  number in the other process (`ipc-windows.c:101`): no program of the repository
  sends more than one, and none comes to that branch.
* `int sz` of `sipc_vformat` beyond two gigabytes (`ipc.c:860`).
* Malformed messages between the programs: their clients send none. What the
  parsers make of them is in `SipcParser` and `Readings`.
* Slices and maps of slices and maps in `Wire`; the parsers' nesting is in
  `SipcParser`. The elements of a `[]interface{}`, which the Go parser returns
  for a list, cannot be written at all: `AppendValue` does not know their kind
  (`format.go:223, 247`).
* The prompt of ipc-rc and the printing of messages (terminal I/O), tinycthread
  (vendored), the build files, the unit tests (read for what they state).
