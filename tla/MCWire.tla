-------------------------------- MODULE MCWire --------------------------------
(* An instance of Wire: words of 20 bits, doubles with 9 of exponent.      *)
EXTENDS Wire

Patterns == {0, 1, 3, 127, 129, 255, 257, 383, 1023, 2049, 4099, 32769, 65535,
             65537, 524287, 524289, 1048575}
Words == UNION {{p * 2^k : k \in {k \in 0..(W - 1) : p < 2^(W - k)}} : p \in Patterns}
Uints == {Val("uint", 0, w, 0, Zero) : w \in Words}
Ints  == {Val("int", neg, w, 0, Zero) : neg \in {0, 1},
                                        w \in {w \in Words : w < 2^(W - 1)}}
           \cup {Val("int", 1, 2^(W - 1), 0, Zero)}

Fractions == {0, 1, 2, 3, 511, 512, 513, 768, 1022, 1023}
Doubles == {Val("double", neg, 0, 0, Float(neg, uexp, frac)) :
              neg \in {0, 1},
              uexp \in 0..2 \cup (Bias - 12)..(Bias + 30) \cup (Special - 2)..Special,
              frac \in Fractions}

(* Significands of up to one bit more than a word, in particular those     *)
(* around the bits that a double has no room for.                          *)
Significands == {1, 3, 1023, 2047, 2049, 2051, 2053, 4095, 4097, 4099, 4101, 8189,
                 16375, 16383, 16385, 16389, 65521, 65535, 65537, 131071,
                 523775, 523777, 524287, 524289, 524543, 524545, 1048063, 1048065,
                 1048575, 1048577, 2097151}
Exponents == (-275)..(-245) \cup (-12)..20 \cup 235..260
BigFloats == {Val("big", neg, s, e, Zero) :
                neg \in {0, 1}, s \in Significands, e \in Exponents}

TextOf(n) == Val("string", 0, n, 0, Zero)
Texts == {TextOf(n) : n \in 0..40}

Blobs == {Val("bytes", 0, n, 0, Zero) : n \in 0..20}
Bools == {Val("bool", 0, n, 0, Zero) : n \in {0, 1}}

(* Slices of one element type, and maps of one key and one value type with *)
(* keys that differ in Go, two of which are subnormal doubles.             *)
Elements ==
  { {Val("uint", 0, n, 0, Zero) : n \in {0, 1, 256}},
    {Val("int", neg, n, 0, Zero) : neg \in {0, 1}, n \in {1, 768}},
    {Val("double", 0, 0, 0, d) : d \in {Zero, Float(0, 0, 1), Float(0, 0, 2), NaN,
                                        Inf(1), Float(1, Bias + 12, 512)}},
    {TextOf(n) : n \in 0..2}, {Val("bytes", 0, n, 0, Zero) : n \in 0..2}, Bools }
Slices == UNION {{Holding("slice", s) : s \in UNION {[1..n -> e] : n \in 0..3}} :
                 e \in Elements}
Hashed == Elements \ {{Val("bytes", 0, n, 0, Zero) : n \in 0..2}}
Maps == UNION {{Holding("map", <<k, v, l, v>>) : k \in e, l \in e, v \in Bools \cup Texts} :
               e \in Hashed}
DistinctMaps == {m \in Maps : m.items[1] # m.items[3] \/ m.items[1].float = NaN}

MCValues == Uints \cup Ints \cup Doubles \cup BigFloats \cup Texts \cup Blobs
              \cup Bools \cup Slices \cup DistinctMaps

MCByte == HexDigits \cup {"NL", "SP", "x", ":", "|", "[", "]", "{", "}", "T", "F", "R", "p",
                        "-", "i", "n"}

(* What an earlier message may have left: a digit, a character that is     *)
(* none, a space, the end of a line.                                       *)
MCDirt == {"0", "x", "SP", "NL"}

(* Values to be written back: integers by the library, of both signs.      *)
FewValues == {Val("int", neg, n, 0, Zero) : neg \in {0, 1}, n \in 1..15 \cup 256..400}

(* Frames of 10, 11, 15 and 259 bytes, whose third digit is zero, and of 16*)
(* and 21, which without it are no more than a header.                     *)
MCSendable == {Message("C", TextOf(n)) : n \in {0, 1, 5, 6, 11, 248}}
===============================================================================
