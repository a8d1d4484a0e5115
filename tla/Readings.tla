------------------------------- MODULE Readings -------------------------------
(***************************************************************************)
(* What sipc_any makes of a message beside two other readings of the same  *)
(* bytes: the one through the views of its containers, which ipc.h gives a *)
(* program as parsers of their own, and the one of the Go parser.          *)
(***************************************************************************)
EXTENDS SipcParser, GoParser

(* A program that uses val.array or val.map as the parser it is declared   *)
(* to be (none of the repository does): it goes token by token through the *)
(* view, which stops at e, and comes to an end at the bracket on its own   *)
(* level, or is refused.                                                   *)
RECURSIVE Walk(_, _, _, _)
Walk(b, i, e, open) ==
  LET Ends(how) == [how |-> how, at |-> i]
  IN  UNION {IF ~o.ok \/ o.value.type = "END" THEN {Ends("refused")}
             ELSE IF o.value.type \in Closers /\ open = 0 THEN {Ends("closed")}
             ELSE Walk(b, o.next, e,
                       IF o.value.type \in Openers THEN open + 1
                       ELSE IF o.value.type \in Closers THEN open - 1
                       ELSE open) :
             o \in SipcNext(b, i, e)}

AnyReturned == tok # "none" /\ res \in {"value", "error"}

(* A reader of a container's view comes to the closing bracket where the   *)
(* view ends, whatever the container holds; the exception is a string or a *)
(* byte string right before that bracket, which sipc_any has accepted and  *)
(* the reader of the view is refused: p->end is that of the view, and one  *)
(* byte must be left before it. (ipc.c:557 against 365 and 500)            *)
TouchesEnd(i, e) ==
  \E o \in SipcNext(buf, i, End) :
    o.ok /\ o.value.type \in {"STRING", "BYTES"} /\ o.next = e

WalkAgrees ==
  AnyReturned /\ res = "value" /\ val.type \in Openers =>
    LET e == val.at + val.n
    IN  \A w \in Walk(buf, val.at, e, 0) :
          \/ w.how = "closed" /\ w.at = e
          \/ w.how = "refused" /\ TouchesEnd(w.at, e)

-------------------------------------------------------------------------------
(* The C value v and the Go value g stand for the same thing.  -int64(sig) *)
(* of Go wraps around where C hands out the magnitude, and for an exponent *)
(* equal to the leading zeros Go has a float where C has an integer.       *)
SameAtom(v, g) ==
  CASE v.type = "BOOL"         -> g = GoBool(v.n)
    [] v.type = "POSITIVE_INT" -> g = GoUint(v.n)
    [] v.type = "NEGATIVE_INT" ->
         \/ g = GoInt(-v.n)
         \/ g.type = "float64" /\ g.float \in BuildDouble(1, v.n, 0)
    [] v.type = "DOUBLE"       ->
         g.type = "float64" /\ g.float \in AnyDouble(buf, from, v.neg)
    [] v.type \in {"STRING", "BYTES"} ->
         g = GoText(IF v.type = "STRING" THEN "string" ELSE "bytes",
                    SubSeq(buf, v.at, v.at + v.n - 1))
    [] v.type \in Openers ->
         g = Container(IF v.type = "ARRAY" THEN "slice" ELSE "map")
    [] OTHER -> FALSE

(* The first number at from has more digits than a word.                   *)
Digits(i) == IF At(buf, i) = "-" THEN i + 1 ELSE i
Overlong ==
  LET i == Digits(from + 1)
  IN  \E j \in RunEnds(buf, i) : j > i + W \div 4

(* Its exponent does not fit in an int, for which readExponent puts one of *)
(* the opposite sign; or it does, but no longer once build_double has added*)
(* the place of the highest bit. (parse.go:138-142, ipc.c:291)             *)
HugeExponent ==
  \E j \in RunEnds(buf, Digits(from + 1)) :
    /\ At(buf, j) = "p"
    /\ LET k   == Digits(j + 1)
           sig == Number(buf, Digits(from + 1), j).v
       IN  \E m \in RunEnds(buf, k) :
             \/ TrueNumber(k, m - 1) > IntMax
             \/ k = j + 1 /\ TrueNumber(k, m - 1) + W - 1 - LeadingZeros(sig) > IntMax

(* What Go has read, g, beside what the call of sipc_any has returned.     *)
Agrees(g) ==
  \/ /\ g.err = "none" /\ res = "value" /\ g.next = next
     /\ SameAtom(val, g.value)
  \/ g.err = "EOF" /\ val.type = "END" /\ g.next = next
  \/ g.err \notin {"none", "EOF"} /\ res = "error"
  \/ g = Read(next, GoFloat(Inf(0))) /\ val = Double(1)
  \/ Overlong \/ HugeExponent
  \/ g.err \in {"odd", "duplicate", "unhashable", "too deep"} /\ res = "value"
  \/ g.err = "invalid" /\ res = "value" /\ val.type \in Closers
  \/ g.err = "EOF" /\ res = "error" /\ tok = "END"

(* The two parsers read the same texts as the same values, up to the same  *)
(* place, and refuse the same ones, but for                                *)
(*  - inf, which sipc_any makes negative (ipc.c:431),                      *)
(*  - numbers and exponents beyond their words (see above),                *)
(*  - what Go refuses and C lets pass: odd maps, keys that are there twice *)
(*    or (by a panic) cannot be hashed, atoms in the sixteenth container,  *)
(*    and a closing bracket that nothing has opened,                       *)
(*  - a newline inside a container, an error in C, where Go ends the       *)
(*    message and reports nothing.                                         *)
(* (ipc.c:406-561, parse.go:207-339)                                       *)
GoAgrees == AnyReturned => Agrees(ReadNext(buf, from, 1))

(* The Go parser goes through a whole text, as the handler of go-server    *)
(* does, without reading past its end; the exceptions are a text that ends *)
(* in a space, which sipc_init refuses, and an empty line at the end, which*)
(* sipc_start does not take for a message. (parse.go:341-359)              *)
GoEnds ==
  pc \in {"between", "refused"} /\ next = 1 /\ NewParser(buf) =>
    \/ ReadEntries(buf, 1) # "PANIC"
    \/ buf[Len(buf)] = "SP"
    \/ buf[Len(buf)] = "NL" /\ (Len(buf) = 1 \/ buf[Len(buf) - 1] = "NL")
===============================================================================
