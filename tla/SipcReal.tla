------------------------------- MODULE SipcReal -------------------------------
(***************************************************************************)
(* The conversions between words, floating point numbers and text in       *)
(* libsipc/ipc.c: build_double, format_hex, format_uint64, format_int64,   *)
(* format_double.  A double is kept as the three fields of its encoding,   *)
(* in a word of W bits of which FracBits hold the fraction.  Texts are     *)
(* sequences of bytes as in SipcLexer, without the space before them.      *)
(***************************************************************************)
EXTENDS SipcLexer

CONSTANT FracBits  \* 52 in the code

ExpBits == W - 1 - FracBits
Bias    == TwoTo[ExpBits - 1] - 1
Special == TwoTo[ExpBits] - 1  \* the exponent field of infinities and nan

ASSUME RealAssumption ==
  /\ W % 4 = 0
  /\ FracBits \in Nat /\ FracBits >= 1 /\ ExpBits >= 2
  /\ IntMax > Bias + FracBits

Float(neg, uexp, frac) == [neg |-> neg, uexp |-> uexp, frac |-> frac]
Floats == [neg : {0, 1}, uexp : 0..Special, frac : 0..(TwoTo[FracBits] - 1)]
Zero   == Float(0, 0, 0)
Inf(neg) == Float(neg, Special, 0)
NaN    == Float(0, Special, 1)

(* The double as which a double comes back: the format has no subnormals,  *)
(* no sign of zero and one nan.                                            *)
Kept(d) == IF d.uexp = 0 THEN Zero
           ELSE IF d.uexp = Special /\ d.frac # 0 THEN NaN ELSE d

-------------------------------------------------------------------------------
(* An int that has grown beyond INT_MAX comes back from the other end.     *)
WrapInt(n) == IF n > IntMax THEN n - 2 * (IntMax + 1) ELSE n

RoundDown(s) == s  \* mutant: the bits that do not fit are dropped

(* Half of the last place is added when the bit after it is set; what is   *)
(* carried out of the word is lost.                                        *)
Round(s) ==
  LET half == TwoTo[W - FracBits - 1]
  IN  IF (s \div half) % 2 = 1 THEN (s + half) % TwoTo[W] ELSE s

Encode(neg, s, exp) ==
  IF exp < 1 - Bias THEN Float(neg, 0, 0)
  ELSE IF exp > Bias THEN Inf(neg)
  ELSE Float(neg, Bias + exp, s \div TwoTo[W - FracBits])

(* sig x 2^exp, nonzero, is 1.s x 2^(exp + W-1-clz).  For sig = 1 the      *)
(* shift is by the whole width, which is undefined; machines give 0 or     *)
(* leave the word alone.                                                   *)
BuildDouble(neg, sig, exp) ==
  LET clz     == LeadingZeros(sig)
      shifted == IF clz + 1 = W THEN {0, sig} ELSE {ShiftLeft(sig, clz + 1)}
  IN  IF sig = 0 THEN {Zero}
      ELSE {Encode(neg, Round(s), WrapInt(exp + W - 1 - clz)) : s \in shifted}

(* sipc_double on the text at i: the doubles it may return.                *)
SipcDouble(b, i) ==
  IF Spells(b, i, NanWord) THEN {NaN}
  ELSE UNION {IF r.ok THEN BuildDouble(Sign(r.neg), r.sig, r.exp) ELSE {} :
              r \in ParseReal(b, i, TRUE)}

(* The double that sipc_any puts in pv->d, with the sign it has settled on.*)
AnyDouble(b, i, neg) ==
  IF Spells(b, i, NanWord) THEN {NaN}
  ELSE UNION {IF r.ok THEN BuildDouble(neg, r.sig, r.exp) ELSE {} :
              r \in ParseReal(b, i, TRUE)}

-------------------------------------------------------------------------------
TrailingZeros(v) == CHOOSE k \in 0..(W - 1) : v % TwoTo[k] = 0 /\ v % TwoTo[k + 1] # 0

Magnitude(v) == IF v < 0 THEN -v ELSE v

(* The last count digits of v, the first one first.                        *)
LastDigits(v, count) ==
  [k \in 1..count |-> HexChars[((v \div TwoTo[4 * (count - k)]) % 16) + 1]]

(* Digits of v, no more than there is room for; C has room for a word.     *)
HexIn(room, v) ==
  LET n == IF v = 0 THEN 1 ELSE (W \div 4) - (LeadingZeros(v) \div 4)
  IN  LastDigits(v, IF n > room THEN room ELSE n)

WordRoom == W \div 4
FormatHex(v) == HexIn(WordRoom, v)

FormatWordBare(room, v) == HexIn(room, v)  \* mutant: no exponent

(* A word: format_uint64 in C, appendUint in Go.                           *)
FormatWord(room, v) ==
  LET ctz == IF v = 0 THEN 0 ELSE TrailingZeros(v)
  IN  IF ctz < 8 THEN HexIn(room, v)
      ELSE HexIn(room, v \div TwoTo[ctz]) \o <<"p">> \o HexIn(room, ctz)

FormatUint64(v) == FormatWord(WordRoom, v)

Minus(neg) == IF neg = 1 THEN <<"-">> ELSE <<>>

FormatInt64(v) == Minus(IF v < 0 THEN 1 ELSE 0) \o FormatUint64(Magnitude(v))

(* A nonzero whole number times a power of two in the one form that the    *)
(* protocol has for it.                                                    *)
Canonical(room, neg, sig, exp) ==
  Minus(neg) \o IF exp \in 0..7 THEN HexIn(room, ShiftLeft(sig, exp))
                ELSE HexIn(room, sig) \o <<"p">> \o Minus(IF exp < 0 THEN 1 ELSE 0)
                       \o HexIn(room, Magnitude(exp))

(* A double: format_double in C, AppendFloat in Go.                        *)
FormatFloat(room, d) ==
  IF d.uexp = 0 THEN <<"0">>
  ELSE IF d.uexp = Special
  THEN IF d.frac # 0 THEN <<"n", "a", "n">> ELSE Minus(d.neg) \o InfWord
  ELSE LET whole == TwoTo[FracBits] + d.frac
           ctz   == TrailingZeros(whole)
       IN  Canonical(room, d.neg, whole \div TwoTo[ctz],
                     d.uexp - Bias - (FracBits - ctz))

FormatDouble(d) == FormatFloat(WordRoom, d)
===============================================================================
