----------------------------- MODULE MCSipcParser -----------------------------
(* Instances of SipcParser.                                                *)
EXTENDS Readings

Line(type, body) == <<type>> \o body \o <<"NL">>
Strings(alphabet, n) == UNION {[1..m -> alphabet] : m \in 0..n}

(* Every line of up to three bytes after its type, those of four in which  *)
(* a token or another message follows the type, and short texts that are   *)
(* refused.                                                                *)
Bytes == {"SP", "NL", "0", "1", "8", "p", "-", ":", "|", "[", "i", "n", "T"}
ByteMessages ==
  {Line("R", s) : s \in Strings(Bytes, 3)}
    \cup {Line("R", <<c>> \o s) : c \in {"SP", "NL"}, s \in [1..3 -> Bytes]}
    \cup {<<>>, <<"R">>, <<"SP">>, <<"R", "SP">>, <<"R", "SP", "T", "SP">>}

(* Every sequence of up to two atoms or malformed ones.                    *)
AtomTexts ==
  { <<"SP", "1", ":", "f">>, <<"SP", "2", "|", "]", "NL">>,
    <<"SP", "[">>, <<"SP", "]">>, <<"SP", "{">>, <<"SP", "}">>,
    <<"SP", "i", "n", "f">>, <<"SP", "-", "i", "n", "f">>,
    <<"SP", "n", "a", "n">>, <<"SP", "T">>,
    <<"SP", "1", "p", "8">>, <<"SP", "1", "p", "3">>, <<"SP", "-", "1", "p", "b">>,
    <<"SP", "b", "p", "-", "2">>, <<"SP", "3", "p", "b">>,
    <<"SP", "3", "p", "6">>, <<"SP", "3", "p", "7">>, <<"SP", "-", "3", "p", "7">>,
    <<"SP", "3", "p", "e">>, <<"SP", "3", "p", "f">>, <<"SP", "-", "3", "p", "-", "f">>,
    <<"SP", "3", "p", "1", "0">>, <<"SP", "-", "3", "p", "-", "1", "0">>,
    <<"SP", "-", "7", "f", "f">>, <<"SP", "-", "f", "0", "1">>,
    <<"SP", "1", "8", "0", "1">>, <<"SP", "f", "0", "0", "1">>,
    <<"SP", "f", "0", "0", "1", "p", "1", "0">>,
    <<"SP", "1", "0", "0", "1", ":", "1">>, <<"SP", "1", "8", "0", "0", ":">>,
    <<"NL", "S">> }
AtomMessages == {Line("R", FlattenSeq(s)) : s \in Strings(AtomTexts, 2)}

LineMessages == ByteMessages \cup AtomMessages

(* Every sequence of up to five brackets and bytes that look like one.     *)
Brackets ==
  { <<"SP", "[">>, <<"SP", "]">>, <<"SP", "{">>, <<"SP", "}">>,
    <<"SP", "3", "|", "SP", "]", "NL">> }
BracketMessages == {Line("R", FlattenSeq(s)) : s \in Strings(Brackets, 5)}

(* Containers nested 15, 16 and 17 deep, of every kind at the three        *)
(* innermost levels and at the outermost, closed as they were opened or    *)
(* with one of the brackets exchanged.                                     *)
Opening(kind) == <<"SP", IF kind = 1 THEN "[" ELSE "{">>
Closing(kind) == <<"SP", IF kind = 1 THEN "]" ELSE "}">>
Nest(n, a, b) ==  \* kinds at the levels of a opening, of b closing
  LET Kind(f, k) == IF k <= 2 THEN f[k] ELSE IF k >= n - 1 THEN f[k - n + 4]
                    ELSE k % 2
  IN  FlattenSeq([k \in 1..n |-> Opening(Kind(a, k))])
      \o FlattenSeq([k \in 1..n |-> Closing(Kind(b, n + 1 - k))])
DeepMessages ==
  {Line("R", Nest(n, a, [k \in 1..4 |-> IF k = x THEN 1 - a[k] ELSE a[k]])) :
     n \in 15..17, a \in [1..4 -> {0, 1}], x \in 0..4}

NestedMessages == BracketMessages \cup DeepMessages

(* Maps of two pairs, with keys of every type.                             *)
Keys ==
  { <<"SP", "T">>, <<"SP", "1">>, <<"SP", "-", "1">>, <<"SP", "1", ":", "1">>,
    <<"SP", "1", "|", "1">>, <<"SP", "n", "a", "n">>, <<"SP", "[", "SP", "]">>,
    <<"SP", "1", "p", "-", "9">>, <<"SP", "-", "1", "p", "-", "9">>,
    <<"SP", "{", "SP", "}">> }
MapMessages ==
  {Line("R", Opening(0) \o k \o <<"SP", "0">> \o l \o <<"SP", "F">> \o Closing(0)) :
     k \in Keys, l \in Keys}

(* Containers around an atom, up to the last level and one beyond it.      *)
FullMessages ==
  {Line("R", FlattenSeq([k \in 1..n |-> Opening(1)]) \o <<"SP", "T">>
             \o FlattenSeq([k \in 1..n |-> Closing(1)])) : n \in 14..17}

AllMessages == LineMessages \cup NestedMessages \cup MapMessages \cup FullMessages

MCStale == {0, 1, 255}
===============================================================================
