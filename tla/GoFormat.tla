------------------------------- MODULE GoFormat -------------------------------
(***************************************************************************)
(* The formatters of go-ipc/format.go, those of scalars without the space  *)
(* that they put first.                                                    *)
(***************************************************************************)
EXTENDS SipcReal

CONSTANT HexBuffer  \* digits that appendHex has room for, 8 in the code

ASSUME HexBufferAssumption == HexBuffer \in Nat \ {0}

(* appendHex keeps the last digits of a number that has more than that.    *)
AppendHex(v) == HexIn(HexBuffer, v)

AppendUint(u) == FormatWord(HexBuffer, u)
AppendInt(i)  == Minus(IF i < 0 THEN 1 ELSE 0) \o FormatWord(HexBuffer, Magnitude(i))
AppendFloat(d) == FormatFloat(HexBuffer, d)
AppendBool(v)   == IF v THEN <<"T">> ELSE <<"F">>
AppendString(s) == AppendHex(Len(s)) \o <<":">> \o s
AppendBytes(s)  == AppendHex(Len(s)) \o <<"|">> \o s

(* A slice of elements with these texts, or a map of keys and values in    *)
(* turn.                                                                   *)
AppendArray(texts) == <<"SP", "[">> \o FlattenSeq(texts) \o <<"SP", "]">>
AppendMap(texts)   == <<"SP", "{">> \o FlattenSeq(texts) \o <<"SP", "}">>

(* The digits of a number of up to two words, as big.Int writes them.      *)
BigHex(v) ==
  LET count == 1 + Cardinality({k \in 1..(W \div 2) : v \div 2^(2*k) >= 2^(2*k)})
  IN  [k \in 1..count |-> HexChars[((v \div 16^(count - k)) % 16) + 1]]

(* AppendBigFloat on (-1)^neg x sig x 2^exp, sig being odd: the significand*)
(* is written in full.                                                     *)
AppendBigFloat(neg, sig, exp) ==
  Minus(neg) \o IF exp \in 0..7 THEN BigHex(sig * 2^exp)
                ELSE BigHex(sig) \o <<"p">> \o Minus(IF exp < 0 THEN 1 ELSE 0)
                                 \o AppendHex(Magnitude(exp))
===============================================================================
