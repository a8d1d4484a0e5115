------------------------------ MODULE SipcLexer -------------------------------
(***************************************************************************)
(* The token level of the parser of libsipc/ipc.c as operators: what one   *)
(* call of parse_hex, parse_exponent, parse_real, parse_szstring,          *)
(* sipc_next or a typed getter does with its cursor at byte i of the       *)
(* buffer b.                                                               *)
(*                                                                         *)
(* Every operator is the set of outcomes of the call, because parse_hex    *)
(* leaves its result unwritten when a number does not fit in W bits and    *)
(* its callers use it all the same.  An outcome has                        *)
(*   ok     the call reports success                                       *)
(*   next   the cursor it leaves behind                                    *)
(*   reads  the indices of the bytes it has looked at                      *)
(* and, on success, the value.  Bytes are one-character strings, with "SP" *)
(* and "NL" for the space and the newline; index 1 is the first byte.      *)
(* Only the sign of a double is kept: build_double is abstracted.          *)
(***************************************************************************)
EXTENDS Integers, Sequences, FiniteSets, SequencesExt

CONSTANTS
  W,       \* bits of a uint64_t, 64 in the code
  IntMax,  \* INT_MAX
  Stale    \* values an uninitialised uint64_t may be found to have

(* Powers of two, by doubling (the prover does not know ^).                *)
TwoTo[n \in 0..W] == IF n = 0 THEN 1 ELSE 2 * TwoTo[n - 1]

Word == 0..(TwoTo[W] - 1)

ASSUME LexerAssumption ==
  /\ W \in Nat /\ W >= 12
  /\ IntMax \in Nat /\ IntMax >= W /\ IntMax < TwoTo[W - 1]
  /\ Stale \subseteq Word /\ Stale # {}

-------------------------------------------------------------------------------
(* The byte at index j; what lies outside the buffer is not a byte of it.  *)
At(b, j) == IF j \in 1..Len(b) THEN b[j] ELSE "past"

HexChars == <<"0", "1", "2", "3", "4", "5", "6", "7",
              "8", "9", "a", "b", "c", "d", "e", "f">>
HexDigits == {"0", "1", "2", "3", "4", "5", "6", "7",
              "8", "9", "a", "b", "c", "d", "e", "f"}
HexValue == [c \in HexDigits |-> (CHOOSE k \in 1..16 : HexChars[k] = c) - 1]

(* The index after the run of digits that starts at i, as a singleton.     *)
RunEnds(b, i) ==
  {j \in i..(Len(b) + 1) : /\ \A k \in i..(j - 1) : At(b, k) \in HexDigits
                           /\ At(b, j) \notin HexDigits}

(* The indices that comparing b with the word w from i on looks at: it     *)
(* stops at the first byte that differs.                                   *)
Compared(b, i, w) ==
  {i + m - 1 : m \in {m \in 1..Len(w) :
                        \A q \in 1..(m - 1) : At(b, i + q - 1) = w[q]}}
Spells(b, i, w) == \A q \in 1..Len(w) : At(b, i + q - 1) = w[q]
InfWord == <<"i", "n", "f">>
NanWord == <<"SP", "n", "a", "n">>

LeadingZeros(v) == W - Cardinality({k \in 0..(W - 1) : v >= TwoTo[k]})
ShiftLeft(v, n) == (v * TwoTo[n]) % TwoTo[W]

Fail(next, reads) == [ok |-> FALSE, next |-> next, reads |-> reads]

(* The value of sipc_any_t: neg is 1 for a negative number, n the integer  *)
(* or the length, at the first byte of a string or of the contents of a    *)
(* container.                                                              *)
Value(type, neg, n, at) == [type |-> type, neg |-> neg, n |-> n, at |-> at]
Sign(neg) == IF neg THEN 1 ELSE 0
Found(next, reads, value) ==
  [ok |-> TRUE, next |-> next, reads |-> reads, value |-> value]

-------------------------------------------------------------------------------
(* Mutant: overflow goes unnoticed.                                        *)
ShiftInWraps(word, c) == [word EXCEPT !.v = ShiftLeft(@, 4) + HexValue[c]]

(* The loop of parse_hex: shift in one digit, unless the shifted word is   *)
(* smaller than the word, which the code takes for the sign of overflow;   *)
(* from there on the digits are only counted, four bits each.              *)
ShiftIn(word, c) ==
  LET n == ShiftLeft(word.v, 4)
  IN  IF word.over > 0 \/ n < word.v
      THEN [word EXCEPT !.over = @ + 4]
      ELSE [word EXCEPT !.v = n + HexValue[c]]

Number(b, i, j) ==
  LET word[k \in i..(j - 1)] ==
        IF k = i THEN [v |-> HexValue[b[k]], over |-> 0] ELSE ShiftIn(word[k - 1], b[k])
  IN  word[j - 1]

ParseHex(b, i) ==
  IF At(b, i) = "0"
  THEN {[ok |-> TRUE, next |-> i + 1, reads |-> {i}, sig |-> 0, over |-> 0]}
  ELSE IF At(b, i) \notin HexDigits
  THEN {Fail(i + 1, {i})}
  ELSE UNION {LET word == Number(b, i, j)
              IN  {[ok |-> TRUE, next |-> j, reads |-> i..j, sig |-> s,
                    over |-> word.over] :
                   s \in IF word.over = 0 THEN {word.v} ELSE Stale} :
              j \in RunEnds(b, i + 1)}

(* The exponent, in the arithmetic of a uint64_t until it is known to fit. *)
Exponent(neg, uexp, expover, overflow) ==
  LET sum == (uexp + overflow) % TwoTo[W]
  IN  IF expover > 0 \/ sum > IntMax
      THEN IF neg THEN -IntMax - 1 ELSE IntMax
      ELSE IF neg THEN -sum ELSE sum

(* i is the index of the 'p'. *)
ParseExponent(b, i, overflow) ==
  LET neg == At(b, i + 1) = "-"
      k   == IF neg THEN i + 2 ELSE i + 1
  IN  {IF h.ok
       THEN [ok |-> TRUE, next |-> h.next, reads |-> {i, i + 1} \cup h.reads,
             exp |-> Exponent(neg, h.sig, h.over, overflow)]
       ELSE Fail(h.next, {i, i + 1} \cup h.reads) : h \in ParseHex(b, k)}

(* What parse_real does after the significand h, the sign being neg.       *)
RealAfter(b, neg, h, seen) ==
  LET Real(next, reads, exp) == [ok |-> TRUE, next |-> next, reads |-> reads,
                                 neg |-> neg, sig |-> h.sig, exp |-> exp]
      refused == IF h.sig = 0 THEN neg ELSE h.sig % 256 = 0
  IN  IF At(b, h.next) = "p"
      THEN IF h.sig % 2 = 0
           THEN {Fail(h.next, seen)}
           ELSE {IF x.ok THEN Real(x.next, seen \cup x.reads, x.exp)
                         ELSE Fail(x.next, seen \cup x.reads) :
                 x \in ParseExponent(b, h.next, h.over)}
      ELSE {IF refused THEN Fail(h.next, seen) ELSE Real(h.next, seen, 0)}

ParseReal(b, i, signed) ==
  LET neg  == signed /\ At(b, i + 1) = "-"
      k    == IF neg THEN i + 2 ELSE i + 1
      seen == {i, i + 1} \cup Compared(b, k, InfWord)
  IN  IF At(b, i) # "SP"
      THEN {Fail(i, {i})}
      ELSE IF Spells(b, k, InfWord)
      THEN {[ok |-> TRUE, next |-> k + 3, reads |-> seen,
             neg |-> neg, sig |-> 1, exp |-> IntMax]}
      ELSE UNION {IF h.ok
                  THEN RealAfter(b, neg, h, seen \cup h.reads \cup {h.next})
                  ELSE {Fail(h.next, seen \cup h.reads)} : h \in ParseHex(b, k)}

(* A value a x 2^b fits in a word when no bit of it is shifted out.        *)
Fits(sig, exp) == exp >= 0 /\ exp <= LeadingZeros(sig)

-------------------------------------------------------------------------------
(* Mutant: the string may take the newline at the end.                     *)
SizedStringFull(type, j, sz, e, reads) ==
  IF sz <= e - j
  THEN {Found(j + n, reads, Value(type, 0, n, j)) :
        n \in {m \in 0..(e - j) : m = sz}}
  ELSE {Fail(j, reads)}

(* A string of sz bytes at j, when one byte is left after it before e; the *)
(* cursor is at j when it does not fit.  (The subtraction is exact: j <= e)*)
SizedString(type, j, sz, e, reads) ==
  IF sz < e - j
  THEN {Found(j + n, reads, Value(type, 0, n, j)) :
        n \in {m \in 0..(e - j - 1) : m = sz}}
  ELSE {Fail(j, reads)}

Atom(c) == CASE c = "T" -> Value("BOOL", 0, 1, 0)
             [] c = "F" -> Value("BOOL", 0, 0, 0)
             [] c = "[" -> Value("ARRAY", 0, 0, 0)
             [] c = "]" -> Value("ARRAY_END", 0, 0, 0)
             [] c = "{" -> Value("MAP", 0, 0, 0)
             [] c = "}" -> Value("MAP_END", 0, 0, 0)

Double(neg) == Value("DOUBLE", neg, 0, 0)

(* sipc_next on "-..." and on "inf": build_double gets 1 for its sign.     *)
NextSigned(b, i) ==
  {IF ~r.ok THEN Fail(r.next, r.reads)
   ELSE Found(r.next, r.reads,
              IF r.exp # 0 /\ ~Fits(r.sig, r.exp)
              THEN Double(1)
              ELSE Value("NEGATIVE_INT", 1, ShiftLeft(r.sig, r.exp), 0)) :
   r \in ParseReal(b, i, TRUE)}

(* sipc_next on a number followed by 'p', '|', ':' or anything else.       *)
NextNumber(b, h, e, seen) ==
  LET c == At(b, h.next)
  IN  IF c = "p"
      THEN IF h.sig % 2 = 0
           THEN {Fail(h.next, seen)}
           ELSE {IF ~x.ok THEN Fail(x.next, seen \cup x.reads)
                 ELSE Found(x.next, seen \cup x.reads,
                            IF Fits(h.sig, x.exp)
                            THEN Value("POSITIVE_INT", 0,
                                       ShiftLeft(h.sig, x.exp), 0)
                            ELSE Double(0)) :
                 x \in ParseExponent(b, h.next, h.over)}
      ELSE IF c \in {"|", ":"}
      THEN IF h.over > 0
           THEN {Fail(h.next + 1, seen)}
           ELSE SizedString(IF c = ":" THEN "STRING" ELSE "BYTES",
                            h.next + 1, h.sig, e, seen)
      ELSE IF h.sig # 0 /\ h.sig % 256 = 0
      THEN {Fail(h.next, seen)}
      ELSE {Found(h.next, seen, Value("POSITIVE_INT", 0, h.sig, 0))}

(* sipc_next with p->next at i and p->end at e.                            *)
SipcNext(b, i, e) ==
  LET c == At(b, i + 1)
  IN  IF At(b, i) = "NL"
      THEN {Found(i + 1, {i}, Value("END", 0, 0, 0))}
      ELSE IF At(b, i) # "SP"
      THEN {Fail(i, {i})}
      ELSE IF c \in {"-", "i"}
      THEN NextSigned(b, i)
      ELSE IF c \in {"T", "F", "[", "]", "{", "}"}
      THEN {Found(i + 2, {i, i + 1}, Atom(c))}
      ELSE IF c = "n"
      THEN LET seen == Compared(b, i, NanWord)
           IN  IF Spells(b, i, NanWord) THEN {Found(i + 4, seen, Double(0))}
                                        ELSE {Fail(i, seen)}
      ELSE UNION {IF h.ok
                  THEN NextNumber(b, h, e, {i} \cup h.reads \cup {h.next})
                  ELSE {Fail(h.next, {i} \cup h.reads)} :
                  h \in ParseHex(b, i + 1)}

-------------------------------------------------------------------------------
(* The typed getters.                                                      *)
GetBool(b, i) ==
  IF At(b, i) # "SP"
  THEN {Fail(i, {i})}
  ELSE IF At(b, i + 1) \in {"T", "F"}
  THEN {Found(i + 2, {i, i + 1}, Atom(At(b, i + 1)))}
  ELSE {Fail(i + 1, {i, i + 1})}

(* Mutant: the lowest negative number is refused.                          *)
GetSignedEven(b, i, limit) ==
  {IF ~r.ok THEN r
   ELSE LET n == ShiftLeft(r.sig, r.exp)
        IN  IF r.sig # 0 /\ (~Fits(r.sig, r.exp) \/ n > limit - 1)
            THEN Fail(r.next, r.reads)
            ELSE Found(r.next, r.reads,
                       Value(IF r.neg THEN "NEGATIVE_INT" ELSE "POSITIVE_INT",
                             Sign(r.neg), n, 0)) :
   r \in ParseReal(b, i, TRUE)}

(* sipc_int64 and sipc_int: limit is the largest magnitude of a negative.  *)
GetSigned(b, i, limit) ==
  {IF ~r.ok THEN r
   ELSE LET n == ShiftLeft(r.sig, r.exp)
        IN  IF r.sig # 0 /\ (~Fits(r.sig, r.exp)
                             \/ n > (IF r.neg THEN limit ELSE limit - 1))
            THEN Fail(r.next, r.reads)
            ELSE Found(r.next, r.reads,
                       Value(IF r.neg THEN "NEGATIVE_INT" ELSE "POSITIVE_INT",
                             Sign(r.neg), n, 0)) :
   r \in ParseReal(b, i, TRUE)}

(* sipc_uint64 and sipc_uint.                                              *)
GetUnsigned(b, i, limit) ==
  {IF ~r.ok THEN r
   ELSE IF r.exp < 0 \/ (r.sig # 0 /\ ~Fits(r.sig, r.exp))
           \/ ShiftLeft(r.sig, r.exp) > limit
   THEN Fail(r.next, r.reads)
   ELSE Found(r.next, r.reads,
              Value("POSITIVE_INT", 0, ShiftLeft(r.sig, r.exp), 0)) :
   r \in ParseReal(b, i, FALSE)}

(* sipc_double and sipc_float: the sign is the one of the text.            *)
GetDouble(b, i) ==
  LET seen == Compared(b, i, NanWord)
  IN  IF Spells(b, i, NanWord)
      THEN {Found(i + 4, seen, Double(0))}
      ELSE {IF r.ok THEN Found(r.next, seen \cup r.reads, Double(Sign(r.neg)))
                    ELSE Fail(r.next, seen \cup r.reads) :
            r \in ParseReal(b, i, TRUE)}

(* parse_szstring: sipc_string and sipc_bytes.                             *)
GetSized(b, i, e, type, delim) ==
  IF At(b, i) # "SP"
  THEN {Fail(i, {i})}
  ELSE UNION {IF ~h.ok THEN {Fail(h.next, {i} \cup h.reads)}
              ELSE IF h.over > 0 THEN {Fail(h.next, {i} \cup h.reads)}
              ELSE IF At(b, h.next) # delim
              THEN {Fail(h.next + 1, {i} \cup h.reads \cup {h.next})}
              ELSE SizedString(type, h.next + 1, h.sig, e,
                               {i} \cup h.reads \cup {h.next}) :
              h \in ParseHex(b, i + 1)}

Getters == {"bool", "int64", "int", "uint64", "uint", "double",
            "string", "bytes"}

Get(kind, b, i, e) ==
  CASE kind = "bool"   -> GetBool(b, i)
    [] kind = "int64"  -> GetSigned(b, i, TwoTo[W - 1])
    [] kind = "int"    -> GetSigned(b, i, IntMax + 1)
    [] kind = "uint64" -> GetUnsigned(b, i, TwoTo[W] - 1)
    [] kind = "uint"   -> GetUnsigned(b, i, 2 * IntMax + 1)
    [] kind = "double" -> GetDouble(b, i)
    [] kind = "string" -> GetSized(b, i, e, "STRING", ":")
    [] kind = "bytes"  -> GetSized(b, i, e, "BYTES", "|")
===============================================================================
