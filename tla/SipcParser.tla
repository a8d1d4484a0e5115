------------------------------ MODULE SipcParser ------------------------------
(***************************************************************************)
(* The parser object of libsipc/ipc.c and a client that drives it as       *)
(* print_message (cmd/c-client/common.c) and the tests do: sipc_init, then *)
(* for each message sipc_start and any mix of sipc_any and typed getters,  *)
(* possibly sipc_end to skip the rest; after an error or the end of a      *)
(* message the client calls sipc_start again.  Each call of sipc_next made *)
(* by sipc_any is a step of its own, so that the scan for the end of a     *)
(* container is visible.                                                   *)
(***************************************************************************)
EXTENDS SipcLexer

CONSTANTS
  Messages,  \* the byte strings handed to sipc_init
  MaxDepth,  \* 16 in sipc_any
  FlagBits   \* bits of is_array, 32 in the code

(* No buffer takes up more than a sixteenth of the address space.          *)
ASSUME ParserAssumption ==
  /\ \A m \in Messages : m \in Seq(STRING) /\ Len(m) <= TwoTo[W - 4]
  /\ MaxDepth \in Nat /\ MaxDepth >= 1
  /\ FlagBits \in Nat /\ FlagBits >= MaxDepth

VARIABLES
  buf,      \* the bytes
  next,     \* p->next
  pc,       \* "init", "between" messages, inside a "message", in the "scan"
            \* of a container; "done" and "refused" are final
  mode,     \* "skip" while sipc_end reads the rest of the message
  depth,    \* the locals of sipc_any: containers open,
  isArray,  \*   and the bits that tell lists from maps, bit 0 the innermost
  from,     \* p->next at the start of the last call
  val,      \* the value of the last call
  tok,      \* the type of the last token of sipc_any, for Nesting
  res,      \* the result of the last call, for Nesting
  reads     \* the indices the last call of sipc_next or a getter looked at

vars == <<buf, next, pc, mode, depth, isArray, from, val, tok, res, reads>>

-------------------------------------------------------------------------------
End == Len(buf) + 1  \* p->end
Openers == {"ARRAY", "MAP"}
Closers == {"ARRAY_END", "MAP_END"}
Atoms   == {"BOOL", "POSITIVE_INT", "NEGATIVE_INT", "DOUBLE", "STRING", "BYTES"}
NoValue == Value("NONE", 0, 0, 0)

Bit(type) == IF type \in {"ARRAY", "ARRAY_END"} THEN 1 ELSE 0
NoFlags == [k \in 0..(FlagBits - 1) |-> 0]
ShiftInFlag(flags, bit) ==
  [k \in 0..(FlagBits - 1) |-> IF k = 0 THEN bit ELSE flags[k - 1]]
ShiftOutFlag(flags) ==
  [k \in 0..(FlagBits - 1) |-> IF k = FlagBits - 1 THEN 0 ELSE flags[k + 1]]

Init ==
  /\ buf \in Messages
  /\ pc = "init" /\ next = 1 /\ mode = "read"
  /\ depth = 0 /\ isArray = NoFlags /\ from = 1 /\ val = NoValue
  /\ tok = "none" /\ res = "none" /\ reads = {}

(* Mutant: the last byte is not looked at.                                 *)
SipcInitUnchecked ==
  /\ pc = "init"
  /\ pc' = IF Len(buf) >= 1 THEN "between" ELSE "refused"
  /\ next' = 1
  /\ reads' = IF Len(buf) >= 1 THEN {Len(buf)} ELSE {}
  /\ UNCHANGED <<buf, mode, depth, isArray, from, val, tok, res>>

(* sipc_init refuses a buffer that is empty or does not end a line.        *)
SipcInit ==
  /\ pc = "init"
  /\ pc' = IF Len(buf) >= 1 /\ At(buf, Len(buf)) = "NL" THEN "between"
                                                         ELSE "refused"
  /\ next' = 1
  /\ reads' = IF Len(buf) >= 1 THEN {Len(buf)} ELSE {}
  /\ UNCHANGED <<buf, mode, depth, isArray, from, val, tok, res>>

(* Mutant: sipc_peek and sipc_start without the comparison with p->end.    *)
StartableNoEnd == At(buf, next) \notin {"SP", "NL"}

(* What sipc_peek and sipc_start take for the type of a message: any byte  *)
(* above the space.                                                        *)
Startable == next # End /\ At(buf, next) \notin {"SP", "NL"}

(* Mutant: the type is looked at and left in place.                        *)
SipcStartPeeks ==
  /\ pc = "between"
  /\ pc' = IF Startable THEN "message" ELSE "done"
  /\ reads' = IF next = End THEN {} ELSE {next}
  /\ from' = next /\ val' = NoValue /\ tok' = "none" /\ res' = "none"
  /\ UNCHANGED <<buf, next, mode, depth, isArray>>

SipcStart ==
  /\ pc = "between"
  /\ IF Startable THEN pc' = "message" /\ next' = next + 1
                  ELSE pc' = "done" /\ UNCHANGED next
  /\ reads' = IF next = End THEN {} ELSE {next}
  /\ from' = next /\ val' = NoValue /\ tok' = "none" /\ res' = "none"
  /\ UNCHANGED <<buf, mode, depth, isArray>>

(* sipc_end: sipc_any in a loop, until it fails or the message ends.       *)
SipcEnd ==
  /\ pc = "message" /\ mode = "read"
  /\ mode' = "skip"
  /\ from' = next /\ val' = NoValue /\ tok' = "none" /\ res' = "none"
  /\ UNCHANGED <<buf, next, pc, depth, isArray, reads>>

(* What every step that read a token or a value has in common.             *)
Took(o) == next' = o.next /\ reads' = o.reads /\ UNCHANGED buf
Leaves(result, value) ==
  /\ pc' = "between" /\ mode' = "read" /\ res' = result /\ val' = value
  /\ depth' = 0 /\ isArray' = NoFlags

(* The first sipc_next of sipc_any.                                        *)
AnyFails(o) ==
  /\ ~o.ok
  /\ tok' = "BAD" /\ Leaves("error", NoValue)

AnyEnds(o) ==
  /\ o.ok /\ o.value.type = "END"
  /\ tok' = "END" /\ Leaves("value", o.value)

AnyValue(o) ==
  /\ o.ok /\ o.value.type \notin Openers \cup {"END"}
  /\ tok' = o.value.type /\ val' = o.value /\ res' = "value"
  /\ UNCHANGED <<pc, mode, depth, isArray>>

AnyOpens(o) ==
  /\ o.ok /\ o.value.type \in Openers
  /\ pc' = "scan" /\ tok' = o.value.type /\ res' = "busy"
  /\ val' = [o.value EXCEPT !.at = o.next]
  /\ depth' = 1 /\ isArray' = ShiftInFlag(NoFlags, Bit(o.value.type))
  /\ UNCHANGED mode

SipcAny ==
  /\ pc = "message"
  /\ \E o \in SipcNext(buf, next, End) :
       /\ Took(o)
       /\ AnyFails(o) \/ AnyEnds(o) \/ AnyValue(o) \/ AnyOpens(o)
  /\ from' = next

(* One turn of the loop of sipc_any.                                       *)
MismatchNever(type) == FALSE  \* mutant: any bracket closes any container
Mismatch(type) == isArray[0] # Bit(type)

TooDeepLate == depth = MaxDepth + 1  \* mutant: depth++ after the comparison
TooDeep == depth = MaxDepth

ScanFails(o) ==
  /\ o.ok => \/ o.value.type = "END"
             \/ o.value.type \in Openers /\ TooDeep
             \/ o.value.type \in Closers /\ Mismatch(o.value.type)
  /\ tok' = IF o.ok THEN o.value.type ELSE "BAD"
  /\ Leaves("error", NoValue)

ScanOpens(o) ==
  /\ o.ok /\ o.value.type \in Openers /\ ~TooDeep
  /\ tok' = o.value.type
  /\ depth' = depth + 1 /\ isArray' = ShiftInFlag(isArray, Bit(o.value.type))
  /\ UNCHANGED <<pc, mode, val, res>>

(* Mutant: the view is cut off just before the bracket, space included.    *)
ScanClosesLong(o) ==
  /\ o.ok /\ o.value.type \in Closers /\ ~Mismatch(o.value.type)
  /\ tok' = o.value.type
  /\ depth' = depth - 1 /\ isArray' = ShiftOutFlag(isArray)
  /\ IF depth = 1
     THEN pc' = "message" /\ res' = "value"
          /\ val' = [val EXCEPT !.n = o.next - 1 - val.at]
     ELSE UNCHANGED <<pc, res, val>>
  /\ UNCHANGED mode

(* The last bracket ends the scan; the view stops two bytes before it.     *)
ScanCloses(o) ==
  /\ o.ok /\ o.value.type \in Closers /\ ~Mismatch(o.value.type)
  /\ tok' = o.value.type
  /\ depth' = depth - 1 /\ isArray' = ShiftOutFlag(isArray)
  /\ IF depth = 1
     THEN pc' = "message" /\ res' = "value"
          /\ val' = [val EXCEPT !.n = o.next - 2 - val.at]
     ELSE UNCHANGED <<pc, res, val>>
  /\ UNCHANGED mode

ScanSkips(o) ==
  /\ o.ok /\ o.value.type \notin Openers \cup Closers \cup {"END"}
  /\ tok' = o.value.type
  /\ UNCHANGED <<pc, mode, depth, isArray, val, res>>

Scan ==
  /\ pc = "scan"
  /\ \E o \in SipcNext(buf, next, End) :
       /\ Took(o)
       /\ ScanFails(o) \/ ScanOpens(o) \/ ScanCloses(o) \/ ScanSkips(o)
  /\ UNCHANGED from

(* A typed getter, called by a client that expects a value of that type.   *)
GetFails(o) == ~o.ok /\ Leaves("error", NoValue)

GetValue(o) ==
  /\ o.ok
  /\ val' = o.value /\ res' = "value"
  /\ UNCHANGED <<pc, mode, depth, isArray>>

SipcGet(kind) ==
  /\ pc = "message" /\ mode = "read"
  /\ \E o \in Get(kind, buf, next, End) : Took(o) /\ (GetFails(o) \/ GetValue(o))
  /\ from' = next /\ tok' = "none"

Done == pc \in {"done", "refused"} /\ UNCHANGED vars

Next == \/ SipcInit \/ SipcStart \/ SipcEnd \/ SipcAny \/ Scan
        \/ \E kind \in Getters : SipcGet(kind)
        \/ Done

(* A single thread: the client goes on as long as there is a call to make. *)
Spec == Init /\ [][Next]_vars /\ WF_vars(Next)

-------------------------------------------------------------------------------
TypeOK ==
  /\ buf \in Seq(STRING)
  /\ next \in 1..End
  /\ pc \in {"init", "between", "message", "scan", "done", "refused"}
  /\ mode \in {"read", "skip"}
  /\ depth \in 0..MaxDepth
  /\ isArray \in [0..(FlagBits - 1) -> {0, 1}]
  /\ from \in 1..End
  /\ tok \in Openers \cup Closers \cup Atoms \cup {"none", "BAD", "END"}
  /\ res \in {"none", "value", "error", "busy"}
  /\ pc = "scan" <=> depth > 0
  /\ pc = "scan" <=> res = "busy"

(* The newline sipc_init looks for stops every loop and every look-ahead:  *)
(* no call reads outside the buffer, whatever the bytes in it are.         *)
(* (ipc.c:360, 497: "the \n acts as a parsing terminator")                 *)
ReadsInBounds == reads \subseteq 1..Len(buf)

(* What a call hands out is inside the buffer and leaves its last newline  *)
(* out; a container ends just before the bracket that closes it, and that  *)
(* bracket is of the kind of the one that opened it. (ipc.c:360, 523, 557) *)
ViewsInBounds ==
  pc = "message" =>
    /\ val.type \in {"STRING", "BYTES"} =>
         val.n >= 0 /\ val.at > from /\ val.at + val.n < End
    /\ val.type \in Openers =>
         LET close == val.at + val.n
         IN  /\ val.at = from + 2 /\ val.n >= 0 /\ close + 2 < End
             /\ At(buf, close) = "SP"
             /\ <<At(buf, from + 1), At(buf, close + 1)>> \in
                  {<<"[", "]">>, <<"{", "}">>}

(* The number that the digits at i..j stand for, of any size.              *)
TrueNumber(i, j) ==
  LET value[k \in (i - 1)..j] ==
        IF k = i - 1 THEN 0 ELSE 16 * value[k - 1] + HexValue[buf[k]]
  IN  value[j]

(* A string is as long as its digits say: a length that wraps around in    *)
(* parse_hex without being noticed is refused by the check against the     *)
(* bytes left.  (ipc.c:112, 365, 500)                                      *)
LengthsExact ==
  pc = "message" /\ val.type \in {"STRING", "BYTES"} =>
    TrueNumber(from + 1, val.at - 2) = val.n

(* What sipc_any makes of a token is what the getter of its type returns,  *)
(* with the cursor at the same place: the two copies of each piece of      *)
(* syntax in ipc.c agree. (ipc.c:223-404 and 406-514)                      *)
Same(o, outcomes) ==
  \E g \in outcomes : g.ok /\ g.next = o.next /\ g.value = o.value

AnyAgreesWithGetters ==
  pc = "message" =>
    \A o \in SipcNext(buf, next, End) :
      LET Read(kind) == Same(o, Get(kind, buf, next, End))
      IN  o.ok =>
            CASE o.value.type = "BOOL"   -> Read("bool")
              [] o.value.type = "STRING" -> Read("string")
              [] o.value.type = "BYTES"  -> Read("bytes")
              [] o.value.type = "POSITIVE_INT" ->
                   Read("uint64") /\ (o.value.n < TwoTo[W - 1] => Read("int64"))
              [] o.value.type = "NEGATIVE_INT" ->
                   o.value.n <= TwoTo[W - 1] => Read("int64")
              [] OTHER -> TRUE

(* print_message comes to its end: every turn of its two loops and of the  *)
(* loop in sipc_any moves the cursor or leaves the loop.                   *)
MessagesEnd == <>(pc \in {"done", "refused"})

(* The brackets of a container, kept as a counter and a word of bits, are  *)
(* those of a stack.                                                       *)
Stack == IF pc = "scan"
         THEN [k \in 1..depth |-> IF isArray[depth - k] = 1 THEN "ARRAY"
                                                            ELSE "MAP"]
         ELSE <<>>

N == INSTANCE Nesting WITH stack <- Stack

NestingKept == N!Spec

(* ipc.md:109: an integer that is too large is rejected; so an integer     *)
(* written as its digits only is read as the number they stand for.        *)
TooLargeRejected ==
  /\ pc = "message" /\ val.type = "POSITIVE_INT"
  /\ \A k \in (from + 1)..(next - 1) : buf[k] \in HexDigits
  => TrueNumber(from + 1, next - 1) = val.n

(* ipc.md:87: "`inf` - positive infinity".                                 *)
InfIsPositive ==
  pc = "message" /\ val.type = "DOUBLE" /\ val.neg = 1 => buf[from + 1] = "-"
===============================================================================
