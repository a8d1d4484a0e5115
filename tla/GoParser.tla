------------------------------- MODULE GoParser -------------------------------
(***************************************************************************)
(* The Parser of go-ipc/parse.go, which reads the same texts as SipcLexer. *)
(* Its calls are functions of the bytes and the place they start at: they  *)
(* return an error (or "none"), the place after what was read, and the     *)
(* value.  A map or slice keeps nothing of its elements here.  A read      *)
(* beyond the bytes ("PANIC") and a key that cannot be hashed are panics,  *)
(* and the ErrInvalid of a map that ends after a key is called "odd".      *)
(***************************************************************************)
EXTENDS SipcReal

CONSTANT GoDepth  \* maxDepth, 16 in the code

GoValue(type, n, text, float) ==
  [type |-> type, n |-> n, text |-> text, float |-> float]
GoBool(n)         == GoValue("bool", n, <<>>, Zero)
GoUint(n)         == GoValue("uint64", n, <<>>, Zero)
GoText(type, s)   == GoValue(type, 0, s, Zero)
GoFloat(d)        == GoValue("float64", 0, <<>>, d)
Container(type)   == GoValue(type, 0, <<>>, Zero)

(* int64(u), for a word or the negation of one.                            *)
Signed(u) == IF u % 2^W >= 2^(W - 1) THEN (u % 2^W) - 2^W ELSE u % 2^W
GoInt(u)  == GoValue("int64", Signed(u), <<>>, Zero)

Read(next, value) == [err |-> "none", next |-> next, value |-> value]
Error(err, next)  == [err |-> err, next |-> next, value |-> Container("nil")]
Invalid(next)     == Error("invalid", next)

-------------------------------------------------------------------------------
(* What readHex returns.                                                   *)
HexRead(err, next, number) ==
  [err |-> err, next |-> next, v |-> number.v, over |-> number.over]

(* readHex with its first digit at i; a number that does not fit keeps its *)
(* first digits.                                                           *)
ReadHex(b, i) ==
  LET none == [v |-> 0, over |-> 0]
      j == CHOOSE j \in RunEnds(b, i + 1) : TRUE
  IN  IF At(b, i) \notin HexDigits THEN HexRead("invalid", i + 1, none)
      ELSE IF At(b, i) = "0" THEN HexRead("none", i + 1, none)
      ELSE HexRead("none", j, Number(b, i, j))

(* The exponent with the digits h, to which the excess bits of the         *)
(* significand are added: where the sum does not fit, the sign of its      *)
(* replacement is the opposite of the one written.                         *)
GoExponent(neg, h, overflow) ==
  LET uexp == (h.v + overflow) % 2^W
      exp  == IF h.over > 0 \/ uexp > IntMax
              THEN IF neg THEN IntMax ELSE -IntMax - 1
              ELSE IF neg THEN -uexp ELSE uexp
  IN  [err |-> h.err, next |-> h.next, exp |-> exp]

(* readExponent, i being the index of the 'p'.                             *)
ReadExponent(b, i, overflow) ==
  LET neg == At(b, i + 1) = "-"
  IN  GoExponent(neg, ReadHex(b, IF neg THEN i + 2 ELSE i + 1), overflow)

ReadBytesFull(b, at, overflow, sz, type) ==  \* mutant: the newline is taken
  IF overflow > 0 \/ sz > Len(b) + 1 - at
  THEN Error("insufficient", at)
  ELSE Read(at + sz, GoText(type, SubSeq(b, at, at + sz - 1)))

(* readBytes after the separator: one byte must be left after the string.  *)
ReadBytes(b, at, overflow, sz, type) ==
  IF overflow > 0 \/ sz >= Len(b) + 1 - at
  THEN Error("insufficient", at)
  ELSE Read(at + sz, GoText(type, SubSeq(b, at, at + sz - 1)))

(* Mutant: the exponent is not adjusted for the shift.                     *)
BuildFloat64Shifted(neg, sig, exp) ==
  IF sig = 0 THEN Zero
  ELSE Encode(neg, Round(ShiftLeft(sig, LeadingZeros(sig) + 1)), exp)

(* A shift by the whole width gives zero in Go, and an int is wide enough  *)
(* for every exponent.                                                     *)
BuildFloat64(neg, sig, exp) ==
  LET clz == LeadingZeros(sig)
  IN  IF sig = 0 THEN Zero
      ELSE Encode(neg, Round(ShiftLeft(sig, clz + 1)), exp + W - 1 - clz)

-------------------------------------------------------------------------------
(* A number with an odd significand and the exponent x.                   *)
NegativeReal(sig, x) ==
  IF x.err # "none" THEN Invalid(x.next)
  ELSE Read(x.next, IF x.exp < 0 \/ x.exp >= LeadingZeros(sig)
                    THEN GoFloat(BuildFloat64(1, sig, x.exp))
                    ELSE GoInt(-ShiftLeft(sig, x.exp)))

PositiveReal(sig, x) ==
  IF x.err # "none" THEN Invalid(x.next)
  ELSE Read(x.next, IF x.exp < 0 \/ x.exp > LeadingZeros(sig)
                    THEN GoFloat(BuildFloat64(0, sig, x.exp))
                    ELSE GoUint(ShiftLeft(sig, x.exp)))

(* The branch of readNext for '-', after the digits h.                     *)
ReadNegative(b, h) ==
  IF h.err # "none" THEN Invalid(h.next)
  ELSE IF At(b, h.next) # "p"
  THEN IF h.v % 256 = 0 THEN Invalid(h.next) ELSE Read(h.next, GoInt(-h.v))
  ELSE IF h.v % 2 = 0 THEN Invalid(h.next)
  ELSE NegativeReal(h.v, ReadExponent(b, h.next, h.over))

(* Its default branch, after the digits h.                                 *)
ReadNumber(b, h) ==
  LET c == At(b, h.next)
  IN  IF h.err # "none" THEN Invalid(h.next)
      ELSE IF c = "|" THEN ReadBytes(b, h.next + 1, h.over, h.v, "bytes")
      ELSE IF c = ":" THEN ReadBytes(b, h.next + 1, h.over, h.v, "string")
      ELSE IF c # "p"
      THEN IF h.v # 0 /\ h.v % 256 = 0 THEN Invalid(h.next)
                                       ELSE Read(h.next, GoUint(h.v))
      ELSE IF h.v % 2 = 0 THEN Invalid(h.next)
      ELSE PositiveReal(h.v, ReadExponent(b, h.next, h.over))

(* == on two keys: nan differs from itself and the two zeros are one.      *)
SameKey(k, l) ==
  \/ k = l /\ k.float # NaN
  \/ k.type = "float64" /\ l.type = "float64"
     /\ [k.float EXCEPT !.neg = 0] = Zero /\ [l.float EXCEPT !.neg = 0] = Zero

Hashable(k) == k.type \notin {"bytes", "slice", "map"}
AtPair(b, i, c) == At(b, i) = "SP" /\ At(b, i + 1) = c

RECURSIVE ReadNext(_, _, _), ReadSlice(_, _, _), ReadMap(_, _, _, _)

(* readNext at i.  The end of the message is io.EOF, at any depth.         *)
ReadNext(b, i, depth) ==
  LET c == At(b, i + 1)
  IN  IF depth > GoDepth THEN Error("too deep", i)
      ELSE IF At(b, i) = "past" THEN Error("PANIC", i)
      ELSE IF At(b, i) = "NL" THEN Error("EOF", i + 1)
      ELSE IF At(b, i) # "SP" THEN Invalid(i + 1)
      ELSE IF c = "past" THEN Error("PANIC", i)
      ELSE IF c \in {"T", "F"} THEN Read(i + 2, GoBool(IF c = "T" THEN 1 ELSE 0))
      ELSE IF c = "{" THEN ReadMap(b, i + 2, depth, {})
      ELSE IF c = "[" THEN ReadSlice(b, i + 2, depth)
      ELSE IF c = "n"
      THEN IF Spells(b, i, NanWord) THEN Read(i + 4, GoFloat(NaN)) ELSE Invalid(i + 2)
      ELSE IF c = "i"
      THEN IF Spells(b, i + 1, InfWord) THEN Read(i + 4, GoFloat(Inf(0)))
                                        ELSE Invalid(i + 2)
      ELSE IF c = "-"
      THEN IF Spells(b, i + 2, InfWord) THEN Read(i + 5, GoFloat(Inf(1)))
                                        ELSE ReadNegative(b, ReadHex(b, i + 2))
      ELSE ReadNumber(b, ReadHex(b, i + 1))

(* The loops of '[' and '{' look at two bytes before each turn.            *)
PairPanics(b, i) == At(b, i) = "past" \/ (At(b, i) = "SP" /\ At(b, i + 1) = "past")

AddElement(b, v, depth) ==
  IF v.err # "none" THEN v ELSE ReadSlice(b, v.next, depth)

ReadSlice(b, i, depth) ==
  IF PairPanics(b, i) THEN Error("PANIC", i)
  ELSE IF AtPair(b, i, "]") THEN Read(i + 2, Container("slice"))
  ELSE AddElement(b, ReadNext(b, i, depth + 1), depth)

(* keys are the keys that the map has so far, k and v the next pair.       *)
AddPair(b, k, v, depth, keys) ==
  IF v.err # "none"
  THEN IF AtPair(b, k.next, "}") /\ v.err = "invalid" THEN Error("odd", v.next) ELSE v
  ELSE IF ~Hashable(k.value) THEN Error("unhashable", v.next)
  ELSE IF \E l \in keys : SameKey(k.value, l) THEN Error("duplicate", v.next)
  ELSE ReadMap(b, v.next, depth, keys \cup {k.value})

AddKey(b, k, depth, keys) ==
  IF k.err # "none" THEN k
  ELSE AddPair(b, k, ReadNext(b, k.next, depth + 1), depth, keys)

ReadMap(b, i, depth, keys) ==
  IF PairPanics(b, i) THEN Error("PANIC", i)
  ELSE IF AtPair(b, i, "}") THEN Read(i + 2, Container("map"))
  ELSE AddKey(b, ReadNext(b, i, depth + 1), depth, keys)

(* NewParser also takes a text that ends in a space.                       *)
NewParser(b) == Len(b) > 0 => b[Len(b)] \in {"SP", "NL"}

RECURSIVE ReadValues(_, _, _)
AddValue(b, v, values) ==
  IF v.err = "EOF" THEN [err |-> "none", next |-> v.next, values |-> values]
  ELSE IF v.err # "none" THEN [err |-> v.err, next |-> v.next, values |-> <<>>]
  ELSE ReadValues(b, v.next, Append(values, v.value))

ReadValues(b, i, values) == AddValue(b, ReadNext(b, i, 1), values)

(* ParseEntry at i: the values of one message.  An io.EOF from inside a    *)
(* container ends the message like any other, without the container.       *)
ParseEntry(b, i) == ReadValues(b, i + 1, <<>>)

(* NextEntry and ParseEntry in a loop, as in handler of cmd/go-server: the *)
(* error that ends it.                                                     *)
RECURSIVE ReadEntries(_, _)
AfterEntry(b, e) == IF e.err = "none" THEN ReadEntries(b, e.next) ELSE e.err

ReadEntries(b, i) ==
  IF i > Len(b) THEN "none" ELSE AfterEntry(b, ParseEntry(b, i))
===============================================================================
