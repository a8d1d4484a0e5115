--------------------------------- MODULE Wire ---------------------------------
(***************************************************************************)
(* Messages on their way from a writer to a reader.  In a datagram a       *)
(* message is as it is, which is how the programs of the repository send   *)
(* them: here it has one value, formatted by libsipc/ipc.c or by           *)
(* go-ipc/format.go and read by either library; or a program that has read *)
(* it by sipc_any writes it once more, by %p.  In a stream of bytes        *)
(* messages are in frames (Framing).                                       *)
(***************************************************************************)
EXTENDS Framing, GoFormat, GoParser

CONSTANTS
  Values,  \* values that are sent in a datagram
  Dirt     \* bytes that may be in a buffer before a message is put there

(* A double that is written without an exponent fits in an int64, and every*)
(* exponent of a double in the buffer of appendHex.                        *)
ASSUME WireAssumption ==
  /\ FracBits + 8 < W - 1 /\ Bias + FracBits < 16^HexBuffer
  /\ Dirt \subseteq Byte /\ Dirt # {}

VARIABLES
  lang,      \* the library that formats, "C" or "Go"
  sent,      \* the value
  datagram,  \* the message that the library has made of it
  where,     \* where that is: "out", in the "parser" or "refused"; "none" if
             \* there is a stream
  any        \* the type as which a program has read it by sipc_any, to write
             \* it again; "none" before that

whole == <<lang, sent, datagram, where, any>>
vars == <<whole, frames>>

-------------------------------------------------------------------------------
(* A value by its kind: sig for unsigned ones, for booleans and for the    *)
(* length of strings; with neg for signed ones; (-1)^neg x sig x 2^exp for *)
(* big.Float (sig is odd); float for doubles.                              *)
Val(kind, neg, sig, exp, float) ==
  [kind |-> kind, neg |-> neg, sig |-> sig, exp |-> exp, float |-> float]
Whole(v) == IF v.neg = 1 THEN -v.sig ELSE v.sig

(* A slice, or a map with keys and values in turn.                         *)
Holding(kind, items) == [kind |-> kind, items |-> items]
Holds(v) == v.kind \in {"slice", "map"}

Characters(n) == [k \in 1..n |-> IF k % 2 = 0 THEN "NL" ELSE "x"]

(* The text of a value, with the space before it (format_arg, AppendValue);*)
(* C has the brackets in its format.                                       *)
ScalarText(writer, v) ==
  <<"SP">> \o
  CASE v.kind = "uint"   -> IF writer = "C" THEN FormatUint64(v.sig)
                                            ELSE AppendUint(v.sig)
    [] v.kind = "int"    -> IF writer = "C" THEN FormatInt64(Whole(v))
                                            ELSE AppendInt(Whole(v))
    [] v.kind = "double" -> IF writer = "C" THEN FormatDouble(v.float)
                                            ELSE AppendFloat(v.float)
    [] v.kind = "big"    -> AppendBigFloat(v.neg, v.sig, v.exp)
    [] v.kind = "bool"   -> AppendBool(v.sig = 1)
    [] v.kind = "string" -> IF writer = "C"
                            THEN FormatHex(v.sig) \o <<":">> \o Characters(v.sig)
                            ELSE AppendString(Characters(v.sig))
    [] v.kind = "bytes"  -> IF writer = "C"
                            THEN FormatHex(v.sig) \o <<"|">> \o Characters(v.sig)
                            ELSE AppendBytes(Characters(v.sig))

ItemTexts(writer, v) ==
  [k \in 1..Len(v.items) |-> ScalarText(writer, v.items[k])]

Text(writer, v) ==
  CASE v.kind = "slice" -> AppendArray(ItemTexts(writer, v))
    [] v.kind = "map"   -> AppendMap(ItemTexts(writer, v))
    [] OTHER            -> ScalarText(writer, v)

Message(writer, v) == <<"R">> \o Text(writer, v) \o <<"NL">>

-------------------------------------------------------------------------------
(* sipc_any after a bracket that opens, at i: the cursor when the container*)
(* is closed.  Containers hold scalars here (the stack is in SipcParser).  *)
RECURSIVE Closed(_, _)
Closed(b, i) ==
  UNION {IF ~o.ok \/ o.value.type = "END" THEN {}
         ELSE IF o.value.type \in {"ARRAY_END", "MAP_END"} THEN {o.next}
         ELSE Closed(b, o.next) : o \in SipcNext(b, i, Len(b) + 1)}

(* format_array: the view begins with the space before the first item and  *)
(* ends before the space of the closing bracket.                           *)
FormatArray(open, close, inner) == <<open, "SP">> \o inner \o <<close>>

(* %p of what sipc_any has made of the argument at byte 2: the texts that  *)
(* are then in the buffer.  A negative integer leaves its last byte as it  *)
(* was, having overwritten its sign.                                       *)
FormatAny(b, o) ==
  LET v == o.value
      Sized(delim) == FormatHex(v.n) \o <<delim>> \o SubSeq(b, v.at, v.at + v.n - 1)
      Listed(open, close) ==
        {FormatArray(open, close, SubSeq(b, o.next, e - 3)) : e \in Closed(b, o.next)}
  IN  CASE v.type = "BOOL"         -> {IF v.n = 1 THEN <<"T">> ELSE <<"F">>}
        [] v.type = "POSITIVE_INT" -> {FormatUint64(v.n)}
        [] v.type = "NEGATIVE_INT" -> {Append(FormatUint64(v.n), x) : x \in Dirt}
        [] v.type = "DOUBLE"       -> {FormatDouble(d) : d \in AnyDouble(b, 2, v.neg)}
        [] v.type = "STRING"       -> {Sized(":")}
        [] v.type = "BYTES"        -> {Sized("|")}
        [] v.type = "ARRAY"        -> Listed("[", "]")
        [] v.type = "MAP"          -> Listed("{", "}")

-------------------------------------------------------------------------------
NoValue == Val("none", 0, 0, 0, Zero)

Init ==
  /\ FrameInit /\ any = "none"
  /\ \/ where = "none" /\ lang = "C" /\ sent = NoValue /\ datagram = <<>>
     \/ /\ where = "out" /\ lang \in {"C", "Go"} /\ sent \in Values
        /\ sent.kind = "big" => lang = "Go"
        /\ datagram = Message(lang, sent)

(* The datagram arrives, and is handed to sipc_init.                       *)
SipcInit ==
  /\ where = "out"
  /\ where' = IF Last(datagram) = "NL" THEN "parser" ELSE "refused"
  /\ UNCHANGED <<lang, sent, datagram, any, frames>>

(* A program writes back the argument that it has read, which is what %p is*)
(* there for.  The bound: it does so once, and what a big.Float becomes is *)
(* one of the doubles.                                                     *)
Relay ==
  /\ where = "parser" /\ any = "none" /\ sent.kind # "big"
  /\ \E o \in SipcNext(datagram, 2, Len(datagram) + 1) :
       /\ o.ok /\ any' = o.value.type
       /\ \E text \in FormatAny(datagram, o) :
            datagram' = <<"R", "SP">> \o text \o <<"NL">>
  /\ where' = "out"
  /\ UNCHANGED <<lang, sent, frames>>

(* The frames of a stream.                                                 *)
Streams(action) == where = "none" /\ action /\ UNCHANGED whole

Stop ==
  \/ where \in {"parser", "refused"} \/ pc = "failed"
  \/ (where = "none" /\ pc = "wait" /\ got = Len(stream))
Stopped == Stop /\ UNCHANGED vars

Next == SipcInit \/ Relay \/ Streams(FrameNext) \/ Stopped

(* What was sent arrives, and the reader handles what it has got.  Nobody  *)
(* has to write it again.                                                  *)
Spec == Init /\ [][Next]_vars /\ WF_vars(SipcInit \/ Streams(Reader))

-------------------------------------------------------------------------------
TypeOK ==
  /\ FrameTypes
  /\ lang \in {"C", "Go"} /\ where \in {"none", "out", "parser", "refused"}
  /\ datagram \in Seq(Byte)
  /\ any \in {"none", "BOOL", "POSITIVE_INT", "NEGATIVE_INT", "DOUBLE", "STRING",
              "BYTES", "ARRAY", "MAP"}

(* What the two readers make of the value in the parser's view.            *)
Bytes == datagram
GoReads == ReadNext(Bytes, 2, 1)
CReads(kind) == Get(kind, Bytes, 2, Len(Bytes) + 1)

(* A Go value that is the double d, or the integer of the same value.      *)
IsDouble(g, d) ==
  CASE g.type = "float64" -> g.float = d
    [] g.type = "uint64"  -> d \in BuildDouble(0, g.n, 0)
    [] g.type = "int64"   -> d \in BuildDouble(1, -g.n, 0)
    [] OTHER -> FALSE
ReadsDouble(g, d) == g.err = "none" /\ IsDouble(g.value, d)

IsInt(g, i) ==
  \/ g = IF i < 0 THEN GoInt(i) ELSE GoUint(i)
  \/ g.type = "float64" /\ i < 0 /\ g.float \in BuildDouble(1, -i, 0)
ReadsInt(g, i) == g.err = "none" /\ IsInt(g.value, i)

(* The numbers that appendHex cuts off.                                    *)
Odd(n) == IF n = 0 THEN 0 ELSE n \div 2^TrailingZeros(n)
TooLong(n) == n >= 16^HexBuffer
ScalarHalved(v) ==
  /\ lang = "Go"
  /\ CASE v.kind \in {"uint", "int"} ->
            TooLong(IF v.sig % 256 = 0 THEN Odd(v.sig) ELSE v.sig)
       [] v.kind = "double" ->
            LET m == 2^FracBits + v.float.frac
                e == v.float.uexp - Bias - FracBits + TrailingZeros(m)
            IN  TooLong(IF e \in 0..7 THEN Odd(m) * 2^e ELSE Odd(m))
       [] v.kind \in {"string", "bytes"} -> TooLong(v.sig)
       [] OTHER -> FALSE

Halved(v) ==
  IF Holds(v) THEN \E k \in 1..Len(v.items) : ScalarHalved(v.items[k])
              ELSE ScalarHalved(v)

(* Two keys of a map, different in the program, have the same text, as two *)
(* subnormal doubles do.                                                   *)
Alike(v) ==
  v.kind = "map" /\ \E k, l \in 1..Len(v.items) :
    /\ k < l /\ k % 2 = 1 /\ l % 2 = 1
    /\ ScalarText(lang, v.items[k]) = ScalarText(lang, v.items[l])
    /\ v.items[k].kind # "double" \/ Kept(v.items[k].float) # NaN

(* Every item of a container is one token for the C reader, from where it  *)
(* was written to where the next one was.                                  *)
ItemsApart(v) ==
  LET Place(k) == 4 + Len(FlattenSeq(SubSeq(ItemTexts(lang, v), 1, k - 1)))
  IN  \A k \in 1..Len(v.items) : \A c \in SipcNext(Bytes, Place(k), Len(Bytes) + 1) :
        c.ok /\ c.next = Place(k + 1)

(* What %p writes of a list or a map with items: the space of the first one*)
(* is there twice and that of the closing bracket is not.                  *)
Malformed(v) == any \in {"ARRAY", "MAP"} /\ v.items # <<>>

(* sipc_any has inf for minus infinity.                                    *)
KeptBy(d) == IF any = "DOUBLE" /\ Kept(d) = Inf(0) THEN Inf(1) ELSE Kept(d)

(* Every value that is written comes back the same, whichever library has  *)
(* written and whichever reads it, at every width, and also after another  *)
(* program has read it by sipc_any and written it by %p: the conversions of*)
(* an integer to its one form and back, and of a double, undo each other.  *)
(* Only what appendHex has cut off does not.  A negative integer that      *)
(* fills its word is a float64 for Go.  A slice or map is taken apart into *)
(* the items it was made of; but a map with two keys that are written the  *)
(* same is refused by the Go parser as one that has a key twice.  Of what  *)
(* %p has written, negative integers are something else (ipc.c:730-732),   *)
(* lists and maps with items are refused by both readers (ipc.c:703-715),  *)
(* and inf has become -inf (ipc.c:431).                                    *)
(* (ipc.c:223-339, 406-557, 597-752; parse.go:86-339; format.go:23-250)    *)
RoundTrip ==
  LET v == sent
  IN  where = "parser" /\ ~Halved(v) /\ any # "NEGATIVE_INT" =>
        CASE Malformed(v) ->
               /\ \A c \in SipcNext(Bytes, 4, Len(Bytes) + 1) : ~c.ok
               /\ GoReads.err = "invalid"
          [] v.kind = "uint" ->
               /\ \A c \in CReads("uint64") : c.ok /\ c.value.n = v.sig
               /\ ReadsInt(GoReads, v.sig)
          [] v.kind = "int" ->
               /\ \A c \in CReads("int64") : c.ok /\ c.value.n = v.sig
                    /\ (v.sig # 0 => c.value.neg = v.neg)
               /\ ReadsInt(GoReads, Whole(v))
          [] v.kind = "double" ->
               /\ SipcDouble(Bytes, 2) = {KeptBy(v.float)}
               /\ ReadsDouble(GoReads, KeptBy(v.float))
          [] v.kind = "string" ->
               /\ \A c \in CReads("string") : c.ok /\ c.value.n = v.sig
               /\ GoReads = Read(Len(Bytes), GoText("string", Characters(v.sig)))
          [] v.kind = "bytes" ->
               /\ \A c \in CReads("bytes") : c.ok /\ c.value.n = v.sig
               /\ GoReads = Read(Len(Bytes), GoText("bytes", Characters(v.sig)))
          [] v.kind = "bool" ->
               /\ \A c \in CReads("bool") : c.ok /\ c.value.n = v.sig
               /\ GoReads = Read(Len(Bytes), GoBool(v.sig))
          [] Holds(v) /\ ~Malformed(v) ->
               /\ ItemsApart(v)
               /\ IF Alike(v) THEN GoReads.err = "duplicate"
                  ELSE GoReads = Read(Len(Bytes), Container(v.kind))
          [] OTHER -> TRUE

(* ipc.h:80 has %p for a sipc_any_t, and ipc.md:64 says that "All atom     *)
(* types are designed to have only a single encoding for a given value.    *)
(* This allows messages to be byte compared": what is read by sipc_any and *)
(* written by %p is the message again.                                     *)
AnyWrittenBack == any # "none" => datagram = Message(lang, sent)

(* The significant bits of n, and what is over a number of bits.           *)
Width(n) == CHOOSE k \in 0..30 : n < 2^k /\ (k > 0 => n >= 2^(k - 1))

(* d is a double next to (-1)^neg x sig x 2^exp: they differ by no more    *)
(* than half of the last place of d, within the range of normal doubles.   *)
Nearest(neg, sig, exp, d) ==
  LET top  == exp + Width(sig) - 1
      over == Width(sig) - (FracBits + 1)
      mant == 2^FracBits + d.frac
      Off(m) == 2 * Magnitude(m * 2^over - sig) <= 2^over
  IN  IF top < 1 - Bias THEN d = Float(neg, 0, 0)
      ELSE IF top > Bias THEN d = Inf(neg)
      ELSE IF over <= 0
      THEN d = Float(neg, Bias + top, sig * 2^(-over) - 2^FracBits)
      ELSE d.neg = neg /\ \/ d.uexp = Bias + top /\ Off(mant)
                          \/ d.uexp = Bias + top + 1 /\ Off(2 * mant)

(* All the bits that fit are set, and so is the next one.                  *)
RoundsUpToPower(sig) ==
  LET over == Width(sig) - (FracBits + 1)
  IN  over > 0 /\ sig \div 2^(over - 1) = 2^(FracBits + 2) - 1

Near(v, d) == Nearest(v.neg, v.sig, v.exp, d)
AllNear(v, doubles) == doubles # {} /\ \A d \in doubles : Near(v, d)
ReadsNear(v, g) ==
  /\ g.err = "none"
  /\ \/ g.value.type = "float64" /\ Near(v, g.value.float)
     \/ v.exp >= 0 /\ g.value = IF v.neg = 1 THEN GoInt(-v.sig * 2^v.exp)
                                            ELSE GoUint(v.sig * 2^v.exp)
Written(v) == IF v.exp \in 0..7 THEN v.sig * 2^v.exp ELSE v.sig

(* A number is read as the double next to it, or as zero or infinity where *)
(* that is out of range; but half of the right result comes out where      *)
(* rounding carries over into the next power of two, and a number with     *)
(* more digits than a word, or with an exponent near INT_MAX, may come out *)
(* as anything.  The Go parser does the same, or has it as an integer.     *)
(* (ipc.c:281-339, parse.go:163-203, format.go:45-74)                      *)
DoublesNearest ==
  LET v == sent
  IN  where = "parser" /\ v.kind = "big"
      /\ Written(v) < 2^W /\ Magnitude(v.exp) + W <= IntMax
      /\ ~RoundsUpToPower(v.sig) =>
        AllNear(v, SipcDouble(Bytes, 2)) /\ ReadsNear(v, GoReads)
===============================================================================
