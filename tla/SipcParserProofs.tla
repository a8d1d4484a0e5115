--------------------------- MODULE SipcParserProofs ---------------------------
(* Proofs about the parser for every set of messages, every word width and *)
(* every depth limit that fits in the word of bits.  First, what one call  *)
(* of sipc_next or of a getter does to a buffer that ends with a newline:  *)
(* where it looked and where it leaves the cursor.                          *)
(* Then what follows for the parser's states, and at the end that the      *)
(* getters read back the numbers and strings that the formatter writes.    *)
EXTENDS SipcParser, SipcReal, SequenceLemmas, FiniteSetTheorems, TLAPS

(* What sipc_init has made sure of.                                        *)
Terminated(b) == b \in Seq(STRING) /\ Len(b) >= 1 /\ b[Len(b)] = "NL"

(* The outcome o of a call with the cursor at i: it looked inside the       *)
(* buffer, does not move the cursor back, leaves it inside the buffer when *)
(* it succeeds and at most just past it when it fails.                     *)
Inside(b, i, o) ==
  /\ o.ok \in BOOLEAN
  /\ o.reads \subseteq 1..Len(b)
  /\ o.next \in i..(Len(b) + 1)
  /\ o.ok => o.next \in (i + 1)..Len(b)

(* There is a byte after every byte that is not the last newline.          *)
LEMMA AtInside ==
  ASSUME NEW b, Terminated(b), NEW j \in 1..Len(b)
  PROVE  /\ At(b, j) = b[j] /\ Len(b) \in Nat
         /\ At(b, j) # "NL" => j + 1 \in 1..Len(b)
BY DEF Terminated, At

(* The two ways to show an outcome to be inside.                           *)
LEMMA OkInside ==
  ASSUME NEW b, Terminated(b), NEW i \in 1..Len(b), NEW o, o.ok = TRUE,
         o.next \in (i + 1)..Len(b), o.reads \subseteq 1..Len(b)
  PROVE  Inside(b, i, o)
<1>1. o.next \in i..(Len(b) + 1)
  BY DEF Terminated
<1>2. o.ok \in BOOLEAN
  BY Zenon
<1> QED
  BY <1>1, <1>2, Zenon DEF Inside

(* A failure is inside as soon as its cursor and its reads are.             *)
LEMMA FailInside ==
  ASSUME NEW b, NEW i, NEW cursor \in i..(Len(b) + 1),
         NEW looked, looked \subseteq 1..Len(b)
  PROVE  Inside(b, i, Fail(cursor, looked))
BY DEF Inside, Fail

(* A run of digits ends before the last newline or at it.                  *)
LEMMA RunInside ==
  ASSUME NEW b, Terminated(b), NEW i \in 1..Len(b), NEW j \in RunEnds(b, i)
  PROVE  j \in i..Len(b)
<1>1. j \in i..(Len(b) + 1) /\ \A k \in i..(j - 1) : At(b, k) \in HexDigits
  BY DEF RunEnds
<1>2. Len(b) \in Nat /\ At(b, Len(b)) \notin HexDigits
  BY DEF Terminated, At, HexDigits
<1>3. CASE j = Len(b) + 1
  <2>1. Len(b) \in i..(j - 1)
    BY <1>2, <1>3
  <2> QED
    BY <1>1, <1>2, <2>1
<1> QED
  BY <1>1, <1>2, <1>3

(* parse_hex stops at the newline at the latest.                           *)
LEMMA HexInside ==
  ASSUME NEW b, Terminated(b), NEW i \in 1..Len(b), NEW o \in ParseHex(b, i)
  PROVE  Inside(b, i, o)
<1>1. CASE At(b, i) = "0"
  <2>1. i + 1 \in 1..Len(b)
    BY <1>1, AtInside
  <2>2. o = [ok |-> TRUE, next |-> i + 1, reads |-> {i}, sig |-> 0, over |-> 0]
    BY <1>1 DEF ParseHex
  <2> QED
    BY <2>1, <2>2 DEF Inside
<1>2. CASE At(b, i) \notin HexDigits
  <2>1. At(b, i) # "0"
    BY <1>2 DEF HexDigits
  <2>2. o = Fail(i + 1, {i})
    BY <1>2, <2>1 DEF ParseHex
  <2>3. Len(b) \in Nat
    BY DEF Terminated
  <2> QED
    BY <2>2, <2>3 DEF Inside, Fail
<1>3. CASE At(b, i) \in HexDigits /\ At(b, i) # "0"
  <2>1. i + 1 \in 1..Len(b)
    BY <1>3, AtInside DEF HexDigits
  <2>2. PICK j \in RunEnds(b, i + 1) :
          o.ok = TRUE /\ o.next = j /\ o.reads = i..j
    BY <1>3 DEF ParseHex
  <2>3. j \in (i + 1)..Len(b)
    BY <2>1, RunInside
  <2>4. Len(b) \in Nat /\ o.reads \subseteq 1..Len(b)
    BY <2>2, <2>3 DEF Terminated
  <2>5. o.next \in (i + 1)..Len(b) /\ o.next \in i..(Len(b) + 1)
    BY <2>2, <2>3, <2>4
  <2>6. o.ok \in BOOLEAN
    BY <2>2, Zenon
  <2> QED
    BY <2>4, <2>5, <2>6, Zenon DEF Inside
<1> QED
  BY <1>1, <1>2, <1>3

(* parse_exponent, with the cursor at the 'p' before the digits.           *)
LEMMA ExponentInside ==
  ASSUME NEW b, Terminated(b), NEW i \in 1..Len(b), At(b, i) = "p",
         NEW over, NEW o \in ParseExponent(b, i, over)
  PROVE  Inside(b, i, o)
<1> DEFINE k == IF At(b, i + 1) = "-" THEN i + 2 ELSE i + 1
<1>1. i + 1 \in 1..Len(b)
  BY AtInside
<1>2. k \in (i + 1)..Len(b)
  BY <1>1, AtInside
<1> DEFINE seen(h) == {i, i + 1} \cup h.reads
<1>3. PICK h \in ParseHex(b, k) :
        \/ h.ok /\ o.ok = TRUE /\ o.next = h.next /\ o.reads = seen(h)
        \/ ~h.ok /\ o.ok = FALSE /\ o.next = h.next /\ o.reads = seen(h)
  BY DEF ParseExponent, Fail
<1>4. k \in 1..Len(b)
  BY <1>2
<1>5. Inside(b, k, h)
  BY <1>4, HexInside
<1> HIDE DEF k
<1>6. o.next = h.next /\ o.reads = {i, i + 1} \cup h.reads
  BY <1>3
<1>7. h.next \in k..(Len(b) + 1) /\ h.reads \subseteq 1..Len(b)
  BY <1>5 DEF Inside
<1>8. o.ok => h.next \in (k + 1)..Len(b)
  BY <1>3, <1>5 DEF Inside
<1>9. Len(b) \in Nat
  BY DEF Terminated
<1>10. o.ok \in BOOLEAN
  BY <1>3, Zenon
<1>11. o.reads \subseteq 1..Len(b) /\ o.next \in i..(Len(b) + 1)
  BY <1>1, <1>2, <1>6, <1>7, <1>9
<1>12. o.ok => o.next \in (i + 1)..Len(b)
  BY <1>2, <1>6, <1>8, <1>9
<1> QED
  BY <1>10, <1>11, <1>12, Zenon DEF Inside

(* Looking ahead for a word stops at the last newline at the latest.       *)
LEMMA ComparedInside ==
  ASSUME NEW b, Terminated(b), NEW i \in 1..Len(b),
         NEW w, Len(w) \in Nat, \A q \in 1..Len(w) : w[q] # "NL"
  PROVE  /\ Compared(b, i, w) \subseteq 1..Len(b)
         /\ Spells(b, i, w) => i + Len(w) \in 1..Len(b)
<1>1. Len(b) \in Nat /\ Len(w) \in Nat /\ At(b, Len(b)) = "NL"
  BY DEF Terminated, At
<1> DEFINE last == Len(b) - i + 1
<1>2. last \in Nat /\ last >= 1 /\ i + last - 1 = Len(b)
  BY <1>1
<1>3. last \in 1..Len(w) => At(b, i + last - 1) # w[last]
  BY <1>1, <1>2
<1> HIDE DEF last
<1>4. ASSUME NEW m \in 1..Len(w),
             \A q \in 1..(m - 1) : At(b, i + q - 1) = w[q]
      PROVE  i + m - 1 \in 1..Len(b)
  <2>1. last \notin 1..(m - 1)
    BY <1>1, <1>3, <1>4
  <2> QED
    BY <1>1, <1>2, <2>1
<1>5. ASSUME Spells(b, i, w) PROVE i + Len(w) \in 1..Len(b)
  <2>1. last \notin 1..Len(w)
    BY <1>3, <1>5 DEF Spells
  <2> QED
    BY <1>1, <1>2, <2>1
<1> QED
  BY <1>4, <1>5 DEF Compared

(* The comparisons with "inf" and " nan" stop at the newline too, and a    *)
(* word that is there leaves a byte after it.                              *)
LEMMA WordsInside ==
  ASSUME NEW b, Terminated(b), NEW i \in 1..Len(b)
  PROVE  /\ Compared(b, i, InfWord) \subseteq 1..Len(b)
         /\ Spells(b, i, InfWord) => i + 3 \in 1..Len(b)
         /\ Compared(b, i, NanWord) \subseteq 1..Len(b)
         /\ Spells(b, i, NanWord) => i + 4 \in 1..Len(b)
<1>1. Len(InfWord) = 3 /\ \A q \in 1..Len(InfWord) : InfWord[q] # "NL"
  <2>1. Len(InfWord) = 3
    BY DEF InfWord
  <2>2. InfWord[1] # "NL" /\ InfWord[2] # "NL" /\ InfWord[3] # "NL"
    BY DEF InfWord
  <2>3. \A q \in 1..3 : q = 1 \/ q = 2 \/ q = 3
    OBVIOUS
  <2> QED
    BY <2>1, <2>2, <2>3
<1>2. Len(NanWord) = 4 /\ \A q \in 1..Len(NanWord) : NanWord[q] # "NL"
  <2>1. Len(NanWord) = 4
    BY DEF NanWord
  <2>2. /\ NanWord[1] # "NL" /\ NanWord[2] # "NL"
        /\ NanWord[3] # "NL" /\ NanWord[4] # "NL"
    BY DEF NanWord
  <2>3. \A q \in 1..4 : q = 1 \/ q = 2 \/ q = 3 \/ q = 4
    OBVIOUS
  <2> QED
    BY <2>1, <2>2, <2>3
<1>3. /\ Compared(b, i, InfWord) \subseteq 1..Len(b)
      /\ Spells(b, i, InfWord) => i + Len(InfWord) \in 1..Len(b)
  BY <1>1, ComparedInside
<1>4. /\ Compared(b, i, NanWord) \subseteq 1..Len(b)
      /\ Spells(b, i, NanWord) => i + Len(NanWord) \in 1..Len(b)
  <2>1. Len(NanWord) \in Nat
    BY <1>2
  <2> QED
    BY <1>2, <2>1, ComparedInside
<1> QED
  BY <1>1, <1>2, <1>3, <1>4

(* parse_real: after the significand, and as a whole.                      *)
LEMMA RealAfterInside ==
  ASSUME NEW b, Terminated(b), NEW i \in 1..Len(b), NEW neg, NEW h,
         h.next \in (i + 1)..Len(b), NEW seen, seen \subseteq 1..Len(b),
         NEW o \in RealAfter(b, neg, h, seen)
  PROVE  Inside(b, i, o)
<1>1. Len(b) \in Nat /\ h.next \in 1..Len(b) /\ h.next \in i..(Len(b) + 1)
  BY DEF Terminated
<1>2. CASE o = Fail(h.next, seen)
  BY <1>1, <1>2, FailInside
<1>3. CASE o.ok = TRUE /\ o.next = h.next /\ o.reads = seen
  BY <1>3, OkInside
<1>4. ASSUME At(b, h.next) = "p", NEW x \in ParseExponent(b, h.next, h.over),
             \/ /\ x.ok /\ o.ok = TRUE
                /\ o.next = x.next /\ o.reads = seen \cup x.reads
             \/ ~x.ok /\ o = Fail(x.next, seen \cup x.reads)
      PROVE  Inside(b, i, o)
  <2>1. Inside(b, h.next, x)
    BY <1>1, <1>4, ExponentInside
  <2>a. x.reads \subseteq 1..Len(b) /\ x.next \in h.next..(Len(b) + 1)
    BY <2>1, Zenon DEF Inside
  <2>b. seen \cup x.reads \subseteq 1..Len(b)
    BY <2>a, Zenon
  <2>2. seen \cup x.reads \subseteq 1..Len(b) /\ x.next \in i..(Len(b) + 1)
    BY <1>1, <2>a, <2>b
  <2>3. CASE x.ok /\ o.ok = TRUE /\ o.next = x.next /\ o.reads = seen \cup x.reads
    <3>1. x.next \in (i + 1)..Len(b)
      BY <1>1, <2>1, <2>3 DEF Inside
    <3> QED
      BY <2>2, <2>3, <3>1, OkInside
  <2>4. CASE o = Fail(x.next, seen \cup x.reads)
    BY <2>2, <2>4, FailInside
  <2> QED
    BY <1>4, <2>3, <2>4
<1>5. CASE At(b, h.next) = "p" /\ h.sig % 2 # 0
  <2>1. PICK x \in ParseExponent(b, h.next, h.over) :
          \/ /\ x.ok /\ o.ok = TRUE
             /\ o.next = x.next /\ o.reads = seen \cup x.reads
          \/ ~x.ok /\ o = Fail(x.next, seen \cup x.reads)
    BY <1>5, SMTT(30) DEF RealAfter
  <2> QED
    BY <1>4, <1>5, <2>1
<1>6. CASE At(b, h.next) = "p" /\ h.sig % 2 = 0
  <2>1. o = Fail(h.next, seen)
    BY <1>6, Zenon DEF RealAfter
  <2> QED
    BY <1>2, <2>1
<1>7. CASE At(b, h.next) # "p"
  <2>1. \/ o = Fail(h.next, seen)
        \/ o = [ok |-> TRUE, next |-> h.next, reads |-> seen,
                neg |-> neg, sig |-> h.sig, exp |-> 0]
    BY <1>7, Zenon DEF RealAfter
  <2>2. CASE o = [ok |-> TRUE, next |-> h.next, reads |-> seen,
                  neg |-> neg, sig |-> h.sig, exp |-> 0]
    <3>1. o.ok = TRUE /\ o.next = h.next /\ o.reads = seen
      BY <2>2
    <3> QED
      BY <1>3, <3>1
  <2> QED
    BY <1>2, <2>1, <2>2
<1> QED
  BY <1>5, <1>6, <1>7

(* parse_real, with or without a sign.                                     *)
LEMMA RealInside ==
  ASSUME NEW b, Terminated(b), NEW i \in 1..Len(b), NEW signed,
         NEW o \in ParseReal(b, i, signed)
  PROVE  Inside(b, i, o)
<1> DEFINE neg  == signed /\ At(b, i + 1) = "-"
           k    == IF neg THEN i + 2 ELSE i + 1
           seen == {i, i + 1} \cup Compared(b, k, InfWord)
<1>1. CASE At(b, i) # "SP"
  <2>1. o = Fail(i, {i})
    BY <1>1, Zenon DEF ParseReal
  <2>2. i \in i..(Len(b) + 1) /\ {i} \subseteq 1..Len(b)
    BY DEF Terminated
  <2> QED
    BY <2>1, <2>2, FailInside
<1>2. CASE At(b, i) = "SP"
  <2>1. i + 1 \in 1..Len(b) /\ Len(b) \in Nat
    BY <1>2, AtInside
  <2>2. k \in (i + 1)..Len(b)
    BY <2>1, AtInside
  <2>3. k \in 1..Len(b)
    BY <2>2
  <2>4. \/ Spells(b, k, InfWord) /\ o.ok = TRUE /\ o.next = k + 3 /\ o.reads = seen
        \/ \E h \in ParseHex(b, k) :
             \/ h.ok /\ o \in RealAfter(b, neg, h, seen \cup h.reads \cup {h.next})
             \/ ~h.ok /\ o = Fail(h.next, seen \cup h.reads)
    <3>1. CASE Spells(b, k, InfWord)
      <4>1. o = [ok |-> TRUE, next |-> k + 3, reads |-> seen,
                 neg |-> neg, sig |-> 1, exp |-> IntMax]
        BY <1>2, <3>1, Zenon DEF ParseReal
      <4>2. o.ok = TRUE /\ o.next = k + 3 /\ o.reads = seen
        BY <4>1
      <4> QED
        BY <3>1, <4>2
    <3>2. CASE ~Spells(b, k, InfWord)
      BY <1>2, <3>2, Zenon DEF ParseReal
    <3> QED
      BY <3>1, <3>2
  <2> HIDE DEF k, neg
  <2>5. seen \subseteq 1..Len(b) /\ (Spells(b, k, InfWord) => k + 3 \in 1..Len(b))
    BY <2>1, <2>3, WordsInside
  <2> HIDE DEF seen
  <2>6. CASE Spells(b, k, InfWord) /\ o.ok = TRUE /\ o.next = k + 3 /\ o.reads = seen
    <3>1. k + 3 \in (i + 1)..Len(b)
      BY <2>2, <2>5, <2>6
    <3> QED
      BY <2>5, <2>6, <3>1, OkInside
  <2>7. ASSUME NEW h \in ParseHex(b, k), h.ok,
               o \in RealAfter(b, neg, h, seen \cup h.reads \cup {h.next})
        PROVE  Inside(b, i, o)
    <3>1. Inside(b, k, h)
      BY <2>3, HexInside
    <3>2. h.next \in (i + 1)..Len(b) /\ h.next \in 1..Len(b)
      BY <2>2, <2>7, <3>1 DEF Inside
    <3>3. seen \cup h.reads \cup {h.next} \subseteq 1..Len(b)
      BY <2>5, <3>1, <3>2 DEF Inside
    <3> QED
      BY <2>7, <3>2, <3>3, RealAfterInside
  <2>8. ASSUME NEW h \in ParseHex(b, k), o = Fail(h.next, seen \cup h.reads)
        PROVE  Inside(b, i, o)
    <3>1. Inside(b, k, h)
      BY <2>3, HexInside
    <3>2. h.reads \subseteq 1..Len(b) /\ h.next \in k..(Len(b) + 1)
      BY <3>1, Zenon DEF Inside
    <3>3. seen \cup h.reads \subseteq 1..Len(b)
      BY <2>5, <3>2, Zenon
    <3>4. h.next \in i..(Len(b) + 1)
      BY <2>1, <2>2, <3>2
    <3> QED
      BY <2>8, <3>3, <3>4, FailInside
  <2> QED
    BY <2>4, <2>6, <2>7, <2>8
<1> QED
  BY <1>1, <1>2

-------------------------------------------------------------------------------
Brackets == {"ARRAY", "MAP", "ARRAY_END", "MAP_END"}
Sized    == {"STRING", "BYTES"}
Scalars  == {"BOOL", "POSITIVE_INT", "NEGATIVE_INT", "DOUBLE"}

Bracket(type) == CASE type = "ARRAY" -> "["
                   [] type = "ARRAY_END" -> "]"
                   [] type = "MAP" -> "{"
                   [] type = "MAP_END" -> "}"

(* The value an outcome of a call at i carries: a string lies between the  *)
(* old and the new cursor, a bracket is the byte after a space.            *)
Sound(b, i, o) ==
  o.ok =>
    /\ o.value.type \in Scalars \cup Sized \cup Brackets
    /\ o.value.type \in Sized =>
         /\ o.value.n \in Nat /\ o.value.at \in (i + 1)..o.next
         /\ o.value.at + o.value.n = o.next
    /\ o.value.type \in Brackets =>
         /\ o.next = i + 2 /\ At(b, i) = "SP"
         /\ At(b, i + 1) = Bracket(o.value.type)
         /\ o.value = Value(o.value.type, 0, 0, 0)

(* No getter returns a bracket.                                            *)
Plain(o) == o.ok => o.value.type \notin Brackets

(* A failure carries no value.                                             *)
LEMMA FailSound ==
  ASSUME NEW b, NEW i, NEW cursor, NEW looked
  PROVE  Sound(b, i, Fail(cursor, looked)) /\ Plain(Fail(cursor, looked))
BY DEF Sound, Plain, Fail

(* A scalar is neither a string nor a bracket.                             *)
LEMMA ScalarSound ==
  ASSUME NEW b, NEW i, NEW cursor, NEW looked, NEW neg, NEW n,
         NEW at, NEW type \in Scalars
  PROVE  /\ Sound(b, i, Found(cursor, looked, Value(type, neg, n, at)))
         /\ Plain(Found(cursor, looked, Value(type, neg, n, at)))
<1>1. Found(cursor, looked, Value(type, neg, n, at)).value.type = type
  BY DEF Found, Value
<1>2. type \notin Sized /\ type \notin Brackets
  BY DEF Scalars, Sized, Brackets
<1> QED
  BY <1>1, <1>2, Zenon DEF Sound, Plain

(* A success is inside as soon as its cursor and its reads are.             *)
LEMMA FoundInside ==
  ASSUME NEW b, Terminated(b), NEW i \in 1..Len(b), NEW v,
         NEW cursor \in (i + 1)..Len(b), NEW looked, looked \subseteq 1..Len(b)
  PROVE  Inside(b, i, Found(cursor, looked, v))
<1>1. /\ Found(cursor, looked, v).ok = TRUE
      /\ Found(cursor, looked, v).next = cursor
      /\ Found(cursor, looked, v).reads = looked
  BY DEF Found
<1> QED
  BY <1>1, OkInside

(* A string leaves at least one byte of the buffer after it.               *)
LEMMA StringInside ==
  ASSUME NEW b, Terminated(b), NEW i \in 1..Len(b), NEW type \in Sized,
         NEW j \in (i + 1)..(Len(b) + 1), NEW sz,
         NEW looked, looked \subseteq 1..Len(b),
         NEW o \in SizedString(type, j, sz, Len(b) + 1, looked)
  PROVE  Inside(b, i, o) /\ Sound(b, i, o) /\ Plain(o)
<1> DEFINE e == Len(b) + 1
<1>0. e = Len(b) + 1 /\ o \in SizedString(type, j, sz, e, looked)
  OBVIOUS
<1> HIDE DEF e
<1>1. Len(b) \in Nat /\ j \in i..(Len(b) + 1)
  BY DEF Terminated
<1>2. CASE o = Fail(j, looked)
  BY <1>1, <1>2, FailInside, FailSound
<1>3. CASE \E n \in 0..(e - j - 1) :
             o = Found(j + n, looked, Value(type, 0, n, j))
  <2>1. PICK n \in 0..(e - j - 1) :
          o = Found(j + n, looked, Value(type, 0, n, j))
    BY <1>3
  <2>2. n \in Nat /\ j + n \in (i + 1)..Len(b) /\ j \in (i + 1)..(j + n)
    BY <1>0, <1>1
  <2>3. Inside(b, i, o)
    BY <2>1, <2>2, FoundInside
  <2>4. /\ o.value.type = type /\ o.value.n = n /\ o.value.at = j
        /\ o.next = j + n
    BY <2>1 DEF Found, Value
  <2>5. type \notin Brackets
    BY DEF Sized, Brackets
  <2>6. Sound(b, i, o) /\ Plain(o)
    BY <2>2, <2>4, <2>5, Zenon DEF Sound, Plain
  <2> QED
    BY <2>3, <2>6
<1>4. \/ o = Fail(j, looked)
      \/ \E n \in 0..(e - j - 1) :
           o = Found(j + n, looked, Value(type, 0, n, j))
  BY <1>0 DEF SizedString
<1> QED
  BY <1>2, <1>3, <1>4

(* sipc_next after a sign or an 'i'.                                       *)
LEMMA SignedSound ==
  ASSUME NEW b, Terminated(b), NEW i \in 1..Len(b), NEW o \in NextSigned(b, i)
  PROVE  Inside(b, i, o) /\ Sound(b, i, o)
<1>1. PICK r \in ParseReal(b, i, TRUE) :
        o = IF ~r.ok THEN Fail(r.next, r.reads)
            ELSE Found(r.next, r.reads,
                       IF r.exp # 0 /\ ~Fits(r.sig, r.exp)
                       THEN Double(1)
                       ELSE Value("NEGATIVE_INT", 1,
                                  ShiftLeft(r.sig, r.exp), 0))
  BY Zenon DEF NextSigned
<1>2. Inside(b, i, r)
  BY RealInside
<1>3. CASE ~r.ok
  <2>1. o = Fail(r.next, r.reads)
    BY <1>1, <1>3, Zenon
  <2>2. r.next \in i..(Len(b) + 1) /\ r.reads \subseteq 1..Len(b)
    BY <1>2, Zenon DEF Inside
  <2> QED
    BY <2>1, <2>2, FailInside, FailSound
<1>4. CASE r.ok
  <2>1. PICK type, neg, n :
         type \in Scalars /\ o = Found(r.next, r.reads, Value(type, neg, n, 0))
    <3>1. "DOUBLE" \in Scalars /\ "NEGATIVE_INT" \in Scalars
      BY DEF Scalars
    <3> QED
      BY <1>1, <1>4, <3>1, Zenon DEF Double
  <2>2. r.next \in (i + 1)..Len(b) /\ r.reads \subseteq 1..Len(b)
    BY <1>2, <1>4, Zenon DEF Inside
  <2> QED
    BY <2>1, <2>2, FoundInside, ScalarSound
<1> QED
  BY <1>3, <1>4

(* sipc_next after the digits h that follow the space at i.                *)
LEMMA NumberSound ==
  ASSUME NEW b, Terminated(b), NEW i \in 1..Len(b), NEW h,
         h.next \in (i + 1)..Len(b), NEW seen, seen \subseteq 1..Len(b),
         NEW o \in NextNumber(b, h, Len(b) + 1, seen)
  PROVE  Inside(b, i, o) /\ Sound(b, i, o)
<1>1. /\ Len(b) \in Nat /\ h.next \in 1..Len(b) /\ h.next \in i..(Len(b) + 1)
      /\ h.next + 1 \in (i + 1)..(Len(b) + 1) /\ h.next + 1 \in i..(Len(b) + 1)
  BY DEF Terminated
<1>2. ASSUME NEW cursor \in i..(Len(b) + 1), o = Fail(cursor, seen)
      PROVE  Inside(b, i, o) /\ Sound(b, i, o)
  BY <1>2, FailInside, FailSound
<1>3. CASE At(b, h.next) = "p"
  <2>1. CASE h.sig % 2 = 0
    <3>1. o = Fail(h.next, seen)
      BY <1>3, <2>1, Zenon DEF NextNumber
    <3> QED
      BY <1>1, <1>2, <3>1
  <2>2. CASE h.sig % 2 # 0
    <3>1. PICK x \in ParseExponent(b, h.next, h.over) :
            o = IF ~x.ok THEN Fail(x.next, seen \cup x.reads)
                ELSE Found(x.next, seen \cup x.reads,
                           IF Fits(h.sig, x.exp)
                           THEN Value("POSITIVE_INT", 0,
                                      ShiftLeft(h.sig, x.exp), 0)
                           ELSE Double(0))
      BY <1>3, <2>2, Zenon DEF NextNumber
    <3>2. Inside(b, h.next, x)
      BY <1>1, <1>3, ExponentInside
    <3>3. x.reads \subseteq 1..Len(b) /\ x.next \in h.next..(Len(b) + 1)
      BY <3>2, Zenon DEF Inside
    <3>4. seen \cup x.reads \subseteq 1..Len(b)
      BY <3>3, Zenon
    <3>5. CASE ~x.ok
      <4>1. o = Fail(x.next, seen \cup x.reads)
        BY <3>1, <3>5, Zenon
      <4>2. x.next \in i..(Len(b) + 1)
        BY <1>1, <3>3
      <4> QED
        BY <3>4, <4>1, <4>2, FailInside, FailSound
    <3>6. CASE x.ok
      <4>1. PICK type, neg, n :
              /\ type \in Scalars
              /\ o = Found(x.next, seen \cup x.reads, Value(type, neg, n, 0))
        <5>1. "DOUBLE" \in Scalars /\ "POSITIVE_INT" \in Scalars
          BY DEF Scalars
        <5> QED
          BY <3>1, <3>6, <5>1, Zenon DEF Double
      <4>2. x.next \in (h.next + 1)..Len(b)
        BY <3>2, <3>6, Zenon DEF Inside
      <4>3. x.next \in (i + 1)..Len(b)
        BY <1>1, <4>2
      <4> QED
        BY <3>4, <4>1, <4>3, FoundInside, ScalarSound
    <3> QED
      BY <3>5, <3>6
  <2> QED
    BY <2>1, <2>2
<1>4. CASE At(b, h.next) \in {"|", ":"}
  <2>1. At(b, h.next) # "p"
    BY <1>4
  <2>2. PICK type \in Sized :
          \/ o = Fail(h.next + 1, seen)
          \/ o \in SizedString(type, h.next + 1, h.sig, Len(b) + 1, seen)
    <3>1. "STRING" \in Sized /\ "BYTES" \in Sized
      BY DEF Sized
    <3> QED
      BY <1>4, <2>1, <3>1, Zenon DEF NextNumber
  <2> QED
    BY <1>1, <1>2, <2>2, StringInside
<1>5. CASE At(b, h.next) # "p" /\ At(b, h.next) \notin {"|", ":"}
  <2>1. \/ o = Fail(h.next, seen)
        \/ o = Found(h.next, seen, Value("POSITIVE_INT", 0, h.sig, 0))
    BY <1>5, Zenon DEF NextNumber
  <2>2. "POSITIVE_INT" \in Scalars
    BY DEF Scalars
  <2> QED
    BY <1>1, <1>2, <2>1, <2>2, FoundInside, ScalarSound
<1> QED
  BY <1>3, <1>4, <1>5

(* sipc_next: the newline ends the message; everything else is a value     *)
(* inside the buffer or an error.                                          *)
LEMMA NextSound ==
  ASSUME NEW b, Terminated(b), NEW i \in 1..Len(b),
         NEW o \in SipcNext(b, i, Len(b) + 1)
  PROVE  \/ o = Found(i + 1, {i}, Value("END", 0, 0, 0))
         \/ Inside(b, i, o) /\ Sound(b, i, o)
<1> DEFINE c == At(b, i + 1)
<1>1. CASE At(b, i) = "NL"
  BY <1>1, Zenon DEF SipcNext
<1>2. CASE At(b, i) \notin {"NL", "SP"}
  <2>1. o = Fail(i, {i})
    BY <1>2, Zenon DEF SipcNext
  <2>2. i \in i..(Len(b) + 1) /\ {i} \subseteq 1..Len(b)
    BY DEF Terminated
  <2> QED
    BY <2>1, <2>2, FailInside, FailSound
<1>3. CASE At(b, i) = "SP"
  <2>1. i + 1 \in 1..Len(b) /\ Len(b) \in Nat /\ At(b, i) # "NL"
    BY <1>3, AtInside
  <2>2. CASE c \in {"-", "i"}
    <3>1. o \in NextSigned(b, i)
      BY <1>3, <2>1, <2>2, Zenon DEF SipcNext
    <3> QED
      BY <3>1, SignedSound
  <2>3. CASE c \in {"T", "F", "[", "]", "{", "}"}
    <3>1. c \notin {"-", "i"} /\ c # "NL"
      BY <2>3
    <3>2. o = Found(i + 2, {i, i + 1}, Atom(c))
      BY <1>3, <2>1, <2>3, <3>1, Zenon DEF SipcNext
    <3>3. i + 2 \in (i + 1)..Len(b) /\ {i, i + 1} \subseteq 1..Len(b)
      BY <2>1, <3>1, AtInside
    <3>4. Inside(b, i, o)
      BY <3>2, <3>3, FoundInside
    <3>5. CASE c \in {"T", "F"}
      <4>1. PICK n : Atom(c) = Value("BOOL", 0, n, 0)
        BY <3>5 DEF Atom
      <4>2. "BOOL" \in Scalars
        BY DEF Scalars
      <4> QED
        BY <3>2, <3>4, <4>1, <4>2, ScalarSound
    <3>6. CASE c \in {"[", "]", "{", "}"}
      <4>1. /\ Atom(c).type \in Brackets /\ Bracket(Atom(c).type) = c
            /\ Atom(c).type \notin Sized
            /\ Atom(c) = Value(Atom(c).type, 0, 0, 0)
        BY <3>6 DEF Atom, Value, Brackets, Bracket, Sized
      <4>2. o.next = i + 2 /\ o.value = Atom(c)
        BY <3>2 DEF Found
      <4>3. Sound(b, i, o)
        BY <1>3, <4>1, <4>2, Zenon DEF Sound
      <4> QED
        BY <3>4, <4>3
    <3> QED
      BY <2>3, <3>5, <3>6
  <2>4. CASE c = "n"
    <3>1. c \notin {"-", "i"} /\ c \notin {"T", "F", "[", "]", "{", "}"}
      BY <2>4
    <3>2. \/ /\ Spells(b, i, NanWord)
             /\ o = Found(i + 4, Compared(b, i, NanWord), Double(0))
          \/ o = Fail(i, Compared(b, i, NanWord))
      BY <1>3, <2>1, <2>4, <3>1, Zenon DEF SipcNext
    <3>3. /\ Compared(b, i, NanWord) \subseteq 1..Len(b)
          /\ i \in i..(Len(b) + 1)
          /\ Spells(b, i, NanWord) => i + 4 \in (i + 1)..Len(b)
      BY <2>1, WordsInside
    <3>4. "DOUBLE" \in Scalars
      BY DEF Scalars
    <3> QED
      BY <3>2, <3>3, <3>4, FailInside, FailSound, FoundInside, ScalarSound
      DEF Double
  <2>5. CASE c \notin {"-", "i", "T", "F", "[", "]", "{", "}", "n"}
    <3>1. /\ c \notin {"-", "i"} /\ c \notin {"T", "F", "[", "]", "{", "}"}
          /\ c # "n"
      BY <2>5
    <3>2. PICK h \in ParseHex(b, i + 1) :
            \/ /\ h.ok
               /\ o \in NextNumber(b, h, Len(b) + 1,
                                   {i} \cup h.reads \cup {h.next})
            \/ ~h.ok /\ o = Fail(h.next, {i} \cup h.reads)
      BY <1>3, <2>1, <3>1, Zenon DEF SipcNext
    <3>3. Inside(b, i + 1, h)
      BY <2>1, HexInside
    <3>4. h.reads \subseteq 1..Len(b) /\ h.next \in (i + 1)..(Len(b) + 1)
      BY <3>3, Zenon DEF Inside
    <3>5. {i} \cup h.reads \subseteq 1..Len(b) /\ h.next \in i..(Len(b) + 1)
      BY <2>1, <3>4
    <3>6. CASE ~h.ok /\ o = Fail(h.next, {i} \cup h.reads)
      BY <3>5, <3>6, FailInside, FailSound
    <3>7. CASE h.ok /\ o \in NextNumber(b, h, Len(b) + 1,
                                        {i} \cup h.reads \cup {h.next})
      <4>1. h.next \in (i + 1 + 1)..Len(b)
        BY <3>3, <3>7, Zenon DEF Inside
      <4>2. h.next \in (i + 1)..Len(b) /\ h.next \in 1..Len(b)
        BY <2>1, <4>1
      <4>3. {i} \cup h.reads \cup {h.next} \subseteq 1..Len(b)
        BY <3>5, <4>2, Zenon
      <4> QED
        BY <3>7, <4>2, <4>3, NumberSound
    <3> QED
      BY <3>2, <3>6, <3>7
  <2> QED
    BY <2>2, <2>3, <2>4, <2>5
<1> QED
  BY <1>1, <1>2, <1>3

-------------------------------------------------------------------------------
(* The typed getters.                                                      *)
LEMMA GetBoolInside ==
  ASSUME NEW b, Terminated(b), NEW i \in 1..Len(b), NEW o \in GetBool(b, i)
  PROVE  Inside(b, i, o) /\ Sound(b, i, o) /\ Plain(o)
<1>0. Len(b) \in Nat /\ i \in i..(Len(b) + 1) /\ {i} \subseteq 1..Len(b)
  BY DEF Terminated
<1>1. CASE At(b, i) # "SP"
  <2>1. o = Fail(i, {i})
    BY <1>1, Zenon DEF GetBool
  <2> QED
    BY <1>0, <2>1, FailInside, FailSound
<1>2. CASE At(b, i) = "SP"
  <2>1. i + 1 \in 1..Len(b) /\ {i, i + 1} \subseteq 1..Len(b)
        /\ i + 1 \in i..(Len(b) + 1)
    BY <1>0, <1>2, AtInside
  <2>2. CASE At(b, i + 1) \in {"T", "F"}
    <3>1. o = Found(i + 2, {i, i + 1}, Atom(At(b, i + 1)))
      BY <1>2, <2>2, Zenon DEF GetBool
    <3>2. i + 2 \in (i + 1)..Len(b)
      BY <2>1, <2>2, AtInside
    <3>3. PICK n : Atom(At(b, i + 1)) = Value("BOOL", 0, n, 0)
      BY <2>2 DEF Atom
    <3>4. "BOOL" \in Scalars
      BY DEF Scalars
    <3> QED
      BY <2>1, <3>1, <3>2, <3>3, <3>4, FoundInside, ScalarSound
  <2>3. CASE At(b, i + 1) \notin {"T", "F"}
    <3>1. o = Fail(i + 1, {i, i + 1})
      BY <1>2, <2>3, Zenon DEF GetBool
    <3> QED
      BY <2>1, <3>1, FailInside, FailSound
  <2> QED
    BY <2>2, <2>3
<1> QED
  BY <1>1, <1>2

(* What the getters of numbers make of the outcome r of parse_real.        *)
LEMMA NumericInside ==
  ASSUME NEW b, Terminated(b), NEW i \in 1..Len(b),
         NEW r, Inside(b, i, r), NEW o,
         \/ ~r.ok /\ o = r
         \/ o = Fail(r.next, r.reads)
         \/ r.ok /\ \E type \in Scalars : \E neg, n :
                      o = Found(r.next, r.reads, Value(type, neg, n, 0))
  PROVE  Inside(b, i, o) /\ Sound(b, i, o) /\ Plain(o)
<1>1. r.next \in i..(Len(b) + 1) /\ r.reads \subseteq 1..Len(b)
  BY Zenon DEF Inside
<1>4. CASE ~r.ok /\ o = r
  BY <1>4, Zenon DEF Sound, Plain
<1>2. CASE o = Fail(r.next, r.reads)
  BY <1>1, <1>2, FailInside, FailSound
<1>3. ASSUME r.ok, NEW type \in Scalars, NEW neg, NEW n,
             o = Found(r.next, r.reads, Value(type, neg, n, 0))
      PROVE  Inside(b, i, o) /\ Sound(b, i, o) /\ Plain(o)
  <2>1. r.next \in (i + 1)..Len(b)
    BY <1>3, Zenon DEF Inside
  <2> QED
    BY <1>1, <1>3, <2>1, FoundInside, ScalarSound
<1> QED
  BY <1>2, <1>3, <1>4

(* sipc_int64, sipc_int, sipc_uint64 and sipc_uint.                        *)
LEMMA GetNumberInside ==
  ASSUME NEW b, Terminated(b), NEW i \in 1..Len(b), NEW limit,
         NEW o \in GetSigned(b, i, limit) \cup GetUnsigned(b, i, limit)
  PROVE  Inside(b, i, o) /\ Sound(b, i, o) /\ Plain(o)
<1>0. "NEGATIVE_INT" \in Scalars /\ "POSITIVE_INT" \in Scalars
  BY DEF Scalars
<1>1. CASE o \in GetSigned(b, i, limit)
  <2>1. PICK r \in ParseReal(b, i, TRUE) :
          \/ ~r.ok /\ o = r
          \/ o = Fail(r.next, r.reads)
          \/ r.ok /\ \E type \in Scalars : \E neg, n :
                       o = Found(r.next, r.reads, Value(type, neg, n, 0))
    BY <1>0, <1>1, Zenon DEF GetSigned
  <2> QED
    BY <2>1, RealInside, NumericInside
<1>2. CASE o \in GetUnsigned(b, i, limit)
  <2>1. PICK r \in ParseReal(b, i, FALSE) :
          \/ ~r.ok /\ o = r
          \/ o = Fail(r.next, r.reads)
          \/ r.ok /\ \E type \in Scalars : \E neg, n :
                       o = Found(r.next, r.reads, Value(type, neg, n, 0))
    BY <1>0, <1>2, Zenon DEF GetUnsigned
  <2> QED
    BY <2>1, RealInside, NumericInside
<1> QED
  BY <1>1, <1>2

(* sipc_double and sipc_float.                                             *)
LEMMA GetDoubleInside ==
  ASSUME NEW b, Terminated(b), NEW i \in 1..Len(b), NEW o \in GetDouble(b, i)
  PROVE  Inside(b, i, o) /\ Sound(b, i, o) /\ Plain(o)
<1> DEFINE seen == Compared(b, i, NanWord)
<1>0. "DOUBLE" \in Scalars
  BY DEF Scalars
<1>1. seen \subseteq 1..Len(b) /\ Len(b) \in Nat
      /\ (Spells(b, i, NanWord) => i + 4 \in (i + 1)..Len(b))
  BY WordsInside DEF Terminated
<1>2. CASE Spells(b, i, NanWord)
  <2>1. o = Found(i + 4, seen, Double(0))
    BY <1>2, Zenon DEF GetDouble
  <2> QED
    BY <1>0, <1>1, <1>2, <2>1, FoundInside, ScalarSound DEF Double
<1>3. CASE ~Spells(b, i, NanWord)
  <2>1. PICK r \in ParseReal(b, i, TRUE) :
          \/ r.ok /\ o = Found(r.next, seen \cup r.reads, Double(Sign(r.neg)))
          \/ ~r.ok /\ o = Fail(r.next, seen \cup r.reads)
    BY <1>3, Zenon DEF GetDouble
  <2> HIDE DEF seen
  <2>2. Inside(b, i, r)
    BY RealInside
  <2>3. r.next \in i..(Len(b) + 1) /\ r.reads \subseteq 1..Len(b)
        /\ (r.ok => r.next \in (i + 1)..Len(b))
    BY <2>2, Zenon DEF Inside
  <2>4. seen \cup r.reads \subseteq 1..Len(b)
    BY <1>1, <2>3, Zenon
  <2> QED
    BY <1>0, <2>1, <2>3, <2>4, FailInside, FailSound, FoundInside, ScalarSound
    DEF Double
<1> QED
  BY <1>2, <1>3

(* sipc_string and sipc_bytes.                                             *)
LEMMA GetSizedInside ==
  ASSUME NEW b, Terminated(b), NEW i \in 1..Len(b), NEW type \in Sized,
         NEW delim, NEW o \in GetSized(b, i, Len(b) + 1, type, delim)
  PROVE  Inside(b, i, o) /\ Sound(b, i, o) /\ Plain(o)
<1>1. CASE At(b, i) # "SP"
  <2>1. o = Fail(i, {i})
    BY <1>1, Zenon DEF GetSized
  <2>2. i \in i..(Len(b) + 1) /\ {i} \subseteq 1..Len(b)
    BY DEF Terminated
  <2> QED
    BY <2>1, <2>2, FailInside, FailSound
<1>2. CASE At(b, i) = "SP"
  <2>1. i + 1 \in 1..Len(b) /\ Len(b) \in Nat
    BY <1>2, AtInside
  <2>2. PICK h \in ParseHex(b, i + 1) :
          \/ o = Fail(h.next, {i} \cup h.reads)
          \/ h.ok /\ o = Fail(h.next + 1, {i} \cup h.reads \cup {h.next})
          \/ h.ok /\ o \in SizedString(type, h.next + 1, h.sig, Len(b) + 1,
                                      {i} \cup h.reads \cup {h.next})
    BY <1>2, Zenon DEF GetSized
  <2>3. Inside(b, i + 1, h)
    BY <2>1, HexInside
  <2>4. h.reads \subseteq 1..Len(b) /\ h.next \in (i + 1)..(Len(b) + 1)
    BY <2>3, Zenon DEF Inside
  <2>5. {i} \cup h.reads \subseteq 1..Len(b) /\ h.next \in i..(Len(b) + 1)
    BY <2>1, <2>4
  <2>6. CASE o = Fail(h.next, {i} \cup h.reads)
    BY <2>5, <2>6, FailInside, FailSound
  <2>7. ASSUME h.ok
        PROVE  /\ h.next + 1 \in (i + 1)..(Len(b) + 1)
               /\ h.next + 1 \in i..(Len(b) + 1)
               /\ {i} \cup h.reads \cup {h.next} \subseteq 1..Len(b)
    <3>1. h.next \in (i + 1 + 1)..Len(b)
      BY <2>3, <2>7, Zenon DEF Inside
    <3>2. h.next \in 1..Len(b)
      BY <2>1, <3>1
    <3>3. {i} \cup h.reads \cup {h.next} \subseteq 1..Len(b)
      BY <2>5, <3>2, Zenon
    <3> QED
      BY <2>1, <3>1, <3>3
  <2>8. CASE h.ok /\ o = Fail(h.next + 1, {i} \cup h.reads \cup {h.next})
    BY <2>7, <2>8, FailInside, FailSound
  <2>9. CASE h.ok /\ o \in SizedString(type, h.next + 1, h.sig, Len(b) + 1,
                                      {i} \cup h.reads \cup {h.next})
    BY <2>7, <2>9, StringInside
  <2> QED
    BY <2>2, <2>6, <2>8, <2>9
<1> QED
  BY <1>1, <1>2

(* Whichever getter is called.                                             *)
LEMMA GetSound ==
  ASSUME NEW b, Terminated(b), NEW i \in 1..Len(b), NEW kind \in Getters,
         NEW o \in Get(kind, b, i, Len(b) + 1)
  PROVE  Inside(b, i, o) /\ Sound(b, i, o) /\ Plain(o)
<1>1. "STRING" \in Sized /\ "BYTES" \in Sized
  BY DEF Sized
<1>2. CASE kind = "bool"
  <2>1. o \in GetBool(b, i)
    BY <1>2 DEF Get
  <2> QED
    BY <2>1, GetBoolInside
<1>3. CASE kind = "double"
  <2>1. o \in GetDouble(b, i)
    BY <1>3 DEF Get
  <2> QED
    BY <2>1, GetDoubleInside
<1>4. CASE kind \in {"int64", "int"}
  <2>1. \E limit : o \in GetSigned(b, i, limit)
    BY <1>4 DEF Get
  <2> QED
    BY <2>1, GetNumberInside
<1>5. CASE kind \in {"uint64", "uint"}
  <2>1. \E limit : o \in GetUnsigned(b, i, limit)
    BY <1>5 DEF Get
  <2> QED
    BY <2>1, GetNumberInside
<1>6. CASE kind = "string"
  <2>1. o \in GetSized(b, i, Len(b) + 1, "STRING", ":")
    BY <1>6 DEF Get
  <2> QED
    BY <1>1, <2>1, GetSizedInside
<1>7. CASE kind = "bytes"
  <2>1. o \in GetSized(b, i, Len(b) + 1, "BYTES", "|")
    BY <1>7 DEF Get
  <2> QED
    BY <1>1, <2>1, GetSizedInside
<1> QED
  BY <1>2, <1>3, <1>4, <1>5, <1>6, <1>7 DEF Getters

-------------------------------------------------------------------------------
(* The parser.                                                             *)
(* The bracket that opened the container being scanned is remembered twice,*)
(* in the value to be returned and in the highest bit in use.              *)
ScanView ==
  pc = "scan" =>
    /\ val = Value(val.type, 0, 0, val.at) /\ val.type \in Openers
    /\ val.at = from + 2 /\ val.at \in 1..next
    /\ At(buf, from + 1) = Bracket(val.type)
    /\ isArray[depth - 1] = Bit(val.type)

Toks == Openers \cup Closers \cup Atoms \cup {"none", "BAD", "END"}

(* The inductive invariant: the cursor of a parser that still has a call   *)
(* to make is at a byte of a buffer that ends with a newline.              *)
IInv ==
  /\ TypeOK
  /\ ReadsInBounds
  /\ ViewsInBounds
  /\ pc \in {"between", "message", "scan"} => Terminated(buf)
  /\ pc \in {"message", "scan"} => next \in 1..Len(buf)
  /\ ScanView

(* A parser that has not been set up has nothing to keep.                  *)
LEMMA InitInv == Init => IInv
<1> SUFFICES ASSUME Init PROVE IInv
  OBVIOUS
<1>1. buf \in Seq(STRING) /\ Len(buf) \in Nat /\ 1 \in 1..End
  BY ParserAssumption DEF Init, End
<1>2. NoFlags \in [0..(FlagBits - 1) -> {0, 1}]
  BY DEF NoFlags
<1>3. mode \in {"read", "skip"}
  BY DEF Init
<1>4. depth \in 0..MaxDepth /\ ~(depth > 0)
  BY ParserAssumption DEF Init
<1>5. /\ pc = "init" /\ next = 1 /\ from = 1 /\ isArray = NoFlags
      /\ tok \in Toks /\ res = "none"
  BY DEF Init, Toks
<1>6. TypeOK
  BY <1>1, <1>2, <1>3, <1>4, <1>5 DEF TypeOK, Toks
<1> QED
  BY <1>6 DEF Init, IInv, ReadsInBounds, ViewsInBounds, ScanView

(* What a call of sipc_next finds, in the state the parser calls it in.    *)
LEMMA StepSound ==
  ASSUME TypeOK, Terminated(buf), next \in 1..Len(buf),
         NEW o \in SipcNext(buf, next, End)
  PROVE  /\ o.ok \in BOOLEAN
         /\ o.reads \subseteq 1..Len(buf)
         /\ o.next \in 1..End
         /\ o.ok => o.value.type \in {"END"} \cup Scalars \cup Sized \cup Brackets
         /\ o.ok /\ o.value.type # "END" =>
              o.next \in (next + 1)..Len(buf) /\ Sound(buf, next, o)
<1>1. Len(buf) \in Nat /\ End = Len(buf) + 1
  BY DEF Terminated, End
<1>2. CASE o = Found(next + 1, {next}, Value("END", 0, 0, 0))
  <2>1. /\ o.ok = TRUE /\ o.reads = {next} /\ o.next = next + 1
        /\ o.value.type = "END"
    BY <1>2 DEF Found, Value
  <2>2. next + 1 \in 1..End /\ {next} \subseteq 1..Len(buf)
    BY <1>1
  <2>3. o.ok \in BOOLEAN
    BY <2>1, Zenon
  <2> QED
    BY <2>1, <2>2, <2>3
<1>3. CASE Inside(buf, next, o) /\ Sound(buf, next, o)
  <2>1. /\ o.ok \in BOOLEAN /\ o.reads \subseteq 1..Len(buf)
        /\ o.next \in next..(Len(buf) + 1)
        /\ o.ok => o.next \in (next + 1)..Len(buf)
    BY <1>3, Zenon DEF Inside
  <2>2. o.ok => o.value.type \in Scalars \cup Sized \cup Brackets
    BY <1>3, Zenon DEF Sound
  <2>3. o.next \in 1..End
    BY <1>1, <2>1
  <2> QED
    BY <1>3, <2>1, <2>2, <2>3
<1>4. \/ o = Found(next + 1, {next}, Value("END", 0, 0, 0))
      \/ Inside(buf, next, o) /\ Sound(buf, next, o)
  <2>1. o \in SipcNext(buf, next, Len(buf) + 1)
    BY DEF End
  <2> QED
    BY <2>1, NextSound
<1> QED
  BY <1>2, <1>3, <1>4

(* Leaving a message on an error or at its end.                            *)
LEMMA LeavesInv ==
  ASSUME IInv, pc \in {"message", "scan"}, NEW o, Took(o),
         o.reads \subseteq 1..Len(buf), o.next \in 1..End,
         from' \in 1..End, tok' \in Toks,
         NEW result \in {"none", "value", "error"}, NEW value,
         Leaves(result, value)
  PROVE  IInv'
<1>1. /\ buf' = buf /\ next' = o.next /\ reads' = o.reads
      /\ pc' = "between" /\ mode' = "read" /\ res' = result
      /\ depth' = 0 /\ isArray' = NoFlags
  BY DEF Took, Leaves
<1>2. NoFlags \in [0..(FlagBits - 1) -> {0, 1}]
  BY DEF NoFlags
<1>3. mode' \in {"read", "skip"}
  BY <1>1
<1>4. 0 \in 0..MaxDepth /\ ~(0 > 0) /\ result # "busy"
  BY ParserAssumption
<1>5. TypeOK'
  BY <1>1, <1>2, <1>3, <1>4 DEF TypeOK, Toks, IInv, End
<1>6. Terminated(buf)
  BY DEF IInv
<1> QED
  BY <1>1, <1>5, <1>6
  DEF IInv, ReadsInBounds, ViewsInBounds, ScanView, Terminated

(* sipc_any, sipc_init, sipc_start and the getters.                        *)
LEMMA AnyInv == IInv /\ SipcAny => IInv'
<1> SUFFICES ASSUME IInv, SipcAny PROVE IInv'
  OBVIOUS
<1>1. PICK o \in SipcNext(buf, next, End) :
        Took(o) /\ (AnyFails(o) \/ AnyEnds(o) \/ AnyValue(o) \/ AnyOpens(o))
  BY Zenon DEF SipcAny
<1>2. /\ pc = "message" /\ from' = next /\ next \in 1..Len(buf)
      /\ TypeOK /\ Terminated(buf) /\ Len(buf) \in Nat /\ End = Len(buf) + 1
  BY DEF SipcAny, IInv, Terminated, End
<1>3. /\ o.ok \in BOOLEAN /\ o.reads \subseteq 1..Len(buf) /\ o.next \in 1..End
      /\ o.ok => o.value.type \in {"END"} \cup Scalars \cup Sized \cup Brackets
      /\ o.ok /\ o.value.type # "END" =>
           o.next \in (next + 1)..Len(buf) /\ Sound(buf, next, o)
  BY <1>2, StepSound
<1>4. buf' = buf /\ next' = o.next /\ reads' = o.reads /\ from' \in 1..End
  BY <1>1, <1>2 DEF Took
<1>5. CASE AnyFails(o)
  BY <1>1, <1>2, <1>3, <1>4, <1>5, LeavesInv DEF AnyFails, Toks
<1>6. CASE AnyEnds(o)
  BY <1>1, <1>2, <1>3, <1>4, <1>6, LeavesInv DEF AnyEnds, Toks
<1>7. CASE AnyValue(o)
  <2>1. /\ o.ok /\ o.value.type # "END" /\ o.value.type \notin Openers
        /\ tok' = o.value.type /\ val' = o.value /\ res' = "value"
        /\ pc' = pc /\ mode' = mode /\ depth' = depth /\ isArray' = isArray
    BY <1>7, Zenon DEF AnyValue
  <2>2. o.next \in (next + 1)..Len(buf) /\ Sound(buf, next, o)
    BY <1>3, <2>1
  <2>3. o.value.type \in Toks /\ o.next \in 1..Len(buf)
    BY <1>2, <1>3, <2>1, <2>2 DEF Scalars, Sized, Brackets, Toks, Openers, Closers, Atoms
  <2>4. TypeOK'
    BY <1>2, <1>3, <1>4, <2>1, <2>3 DEF TypeOK, Toks, End
  <2>5. ViewsInBounds'
    <3>1. o.value.type \in Sized =>
            /\ o.value.n \in Nat /\ o.value.at \in (next + 1)..o.next
            /\ o.value.at + o.value.n = o.next
      BY <2>1, <2>2, Zenon DEF Sound
    <3>2. val'.type \in {"STRING", "BYTES"} =>
            /\ val'.n >= 0 /\ val'.at > from' /\ val'.at + val'.n < End'
      BY <1>2, <1>4, <2>1, <2>2, <3>1 DEF Sized, End
    <3>3. val'.type \notin Openers
      BY <2>1
    <3> QED
      BY <3>2, <3>3, Zenon DEF ViewsInBounds
  <2> QED
    BY <1>2, <1>3, <1>4, <2>1, <2>3, <2>4, <2>5
    DEF IInv, ReadsInBounds, ScanView, Terminated
<1>8. CASE AnyOpens(o)
  <2>1. /\ o.ok /\ o.value.type \in Openers /\ pc' = "scan"
        /\ tok' = o.value.type /\ res' = "busy"
        /\ val' = [o.value EXCEPT !.at = o.next]
        /\ depth' = 1 /\ isArray' = ShiftInFlag(NoFlags, Bit(o.value.type))
        /\ mode' = mode
    BY <1>8, Zenon DEF AnyOpens
  <2>2. /\ o.value.type \in Brackets /\ o.value.type # "END"
        /\ o.value.type \in Toks
    BY <2>1 DEF Openers, Brackets, Toks
  <2>3. /\ o.next \in (next + 1)..Len(buf) /\ o.next = next + 2
        /\ At(buf, next + 1) = Bracket(o.value.type)
        /\ o.value = Value(o.value.type, 0, 0, 0)
    BY <1>3, <2>1, <2>2, Zenon DEF Sound
  <2>4. Bit(o.value.type) \in {0, 1}
    BY DEF Bit
  <2>5. /\ isArray' \in [0..(FlagBits - 1) -> {0, 1}]
        /\ isArray'[1 - 1] = Bit(o.value.type)
    BY <2>1, <2>4, ParserAssumption DEF ShiftInFlag, NoFlags
  <2>6. val' = Value(o.value.type, 0, 0, o.next)
    BY <2>1, <2>3 DEF Value
  <2>7. TypeOK'
    BY <1>2, <1>3, <1>4, <2>1, <2>2, <2>3, <2>5, ParserAssumption
    DEF TypeOK, Toks, End
  <2>8. ScanView'
    <3>1. val'.type = o.value.type /\ val'.at = o.next
      BY <2>6 DEF Value
    <3> QED
      BY <1>2, <1>4, <2>1, <2>3, <2>5, <2>6, <3>1 DEF ScanView
  <2>9. ReadsInBounds' /\ ViewsInBounds' /\ Terminated(buf')
    BY <1>2, <1>3, <1>4, <2>1 DEF ReadsInBounds, ViewsInBounds
  <2>10. next' \in 1..Len(buf')
    BY <1>2, <1>4, <2>3
  <2> QED
    BY <2>7, <2>8, <2>9, <2>10 DEF IInv
<1> QED
  BY <1>1, <1>5, <1>6, <1>7, <1>8

(* The newline found by sipc_init, and sipc_start, which steps over a byte *)
(* that is not that newline.                                               *)
LEMMA OutsideInv ==
  IInv /\ (SipcInit \/ SipcStart \/ SipcEnd) => IInv'
<1> SUFFICES ASSUME IInv, SipcInit \/ SipcStart \/ SipcEnd PROVE IInv'
  OBVIOUS
<1>1. TypeOK /\ Len(buf) \in Nat /\ End = Len(buf) + 1 /\ mode \in {"read", "skip"}
  BY DEF IInv, TypeOK, End
<1>2. CASE SipcInit
  <2>1. At(buf, Len(buf)) = "NL" /\ Len(buf) >= 1 => Terminated(buf)
    BY <1>1 DEF At, Terminated, TypeOK
  <2>2. reads' \subseteq 1..Len(buf)
    BY <1>1, <1>2 DEF SipcInit
  <2>3. pc' \in {"between", "refused"} /\ (pc' = "between" => Terminated(buf))
    BY <1>2, <2>1 DEF SipcInit
  <2>4. TypeOK'
    BY <1>1, <1>2, <2>3 DEF SipcInit, TypeOK, Toks, End
  <2> QED
    BY <1>2, <2>2, <2>3, <2>4
    DEF SipcInit, IInv, ReadsInBounds, ViewsInBounds, ScanView, Terminated
<1>3. CASE SipcStart
  <2>1. /\ pc = "between" /\ buf' = buf /\ mode' = mode /\ depth' = depth
        /\ isArray' = isArray /\ from' = next /\ val' = NoValue
        /\ tok' = "none" /\ res' = "none"
        /\ reads' = IF next = End THEN {} ELSE {next}
    BY <1>3 DEF SipcStart
  <2>2. Terminated(buf)
    BY <2>1 DEF IInv
  <2>3. reads' \subseteq 1..Len(buf)
    BY <1>1, <2>1 DEF TypeOK
  <2>4. \/ pc' = "done" /\ next' = next
        \/ pc' = "message" /\ next' \in 1..Len(buf)
    <3>1. CASE Startable
      <4>1. next \in 1..Len(buf) /\ At(buf, next) # "NL"
        BY <1>1, <3>1 DEF Startable, TypeOK
      <4>2. next + 1 \in 1..Len(buf)
        BY <2>2, <4>1, AtInside
      <4> QED
        BY <1>3, <3>1, <4>2 DEF SipcStart
    <3>2. CASE ~Startable
      BY <1>3, <3>2 DEF SipcStart
    <3> QED
      BY <3>1, <3>2
  <2>5. TypeOK'
    BY <1>1, <2>1, <2>4 DEF TypeOK, Toks, End
  <2>6. ViewsInBounds'
    BY <2>1 DEF ViewsInBounds, NoValue, Value, Openers
  <2> QED
    BY <2>1, <2>2, <2>3, <2>4, <2>5, <2>6
    DEF IInv, ReadsInBounds, ScanView, Terminated
<1>4. CASE SipcEnd
  <2>1. /\ pc = "message" /\ buf' = buf /\ next' = next /\ pc' = pc
        /\ depth' = depth /\ isArray' = isArray /\ reads' = reads
        /\ from' = next /\ val' = NoValue /\ tok' = "none" /\ res' = "none"
        /\ mode' = "skip"
    BY <1>4 DEF SipcEnd
  <2>2. mode' \in {"read", "skip"}
    BY <2>1
  <2>3. TypeOK'
    BY <1>1, <2>1, <2>2 DEF TypeOK, Toks, End
  <2>4. ViewsInBounds'
    BY <2>1 DEF ViewsInBounds, NoValue, Value, Openers
  <2> QED
    BY <2>1, <2>3, <2>4 DEF IInv, ReadsInBounds, ScanView, Terminated
<1> QED
  BY <1>2, <1>3, <1>4

(* The typed getters return no bracket, so leave no view of a container.   *)
LEMMA GetInv == ASSUME IInv, NEW kind \in Getters, SipcGet(kind) PROVE IInv'
<1>1. PICK o \in Get(kind, buf, next, End) :
        Took(o) /\ (GetFails(o) \/ GetValue(o))
  BY Zenon DEF SipcGet
<1>2. /\ pc = "message" /\ from' = next /\ tok' = "none" /\ next \in 1..Len(buf)
      /\ TypeOK /\ Terminated(buf) /\ Len(buf) \in Nat /\ End = Len(buf) + 1
  BY DEF SipcGet, IInv, Terminated, End
<1>3. Inside(buf, next, o) /\ Sound(buf, next, o) /\ Plain(o)
  BY <1>2, GetSound
<1>4. /\ o.reads \subseteq 1..Len(buf) /\ o.next \in next..(Len(buf) + 1)
      /\ o.ok => o.next \in (next + 1)..Len(buf)
  BY <1>3, Zenon DEF Inside
<1>5. o.next \in 1..End /\ (o.ok => o.next \in 1..Len(buf))
  BY <1>2, <1>4
<1>6. buf' = buf /\ next' = o.next /\ reads' = o.reads /\ from' \in 1..End
  BY <1>1, <1>2 DEF Took
<1>7. CASE GetFails(o)
  BY <1>1, <1>2, <1>4, <1>5, <1>6, <1>7, LeavesInv DEF GetFails, Toks
<1>8. CASE GetValue(o)
  <2>1. /\ o.ok /\ val' = o.value /\ res' = "value" /\ pc' = pc
        /\ mode' = mode /\ depth' = depth /\ isArray' = isArray
    BY <1>8 DEF GetValue
  <2>2. TypeOK'
    BY <1>2, <1>5, <1>6, <2>1 DEF TypeOK, Toks, End
  <2>3. ViewsInBounds'
    <3>1. /\ o.value.type \in Sized =>
               /\ o.value.n \in Nat /\ o.value.at \in (next + 1)..o.next
               /\ o.value.at + o.value.n = o.next
          /\ o.value.type \notin Brackets
      BY <1>3, <2>1, Zenon DEF Sound, Plain
    <3>2. val'.type \in {"STRING", "BYTES"} =>
            /\ val'.n >= 0 /\ val'.at > from' /\ val'.at + val'.n < End'
      BY <1>2, <1>4, <1>6, <2>1, <3>1 DEF Sized, End
    <3>3. val'.type \notin Openers
      BY <2>1, <3>1 DEF Brackets, Openers
    <3> QED
      BY <3>2, <3>3, Zenon DEF ViewsInBounds
  <2> QED
    BY <1>2, <1>4, <1>5, <1>6, <2>1, <2>2, <2>3
    DEF IInv, ReadsInBounds, ScanView, Terminated
<1> QED
  BY <1>1, <1>7, <1>8

(* A turn of the loop of sipc_any.  Closing the outermost container is the *)
(* step that matters: its bit is the one set when the container was opened.*)
LEMMA ScanInv == IInv /\ Scan => IInv'
<1> SUFFICES ASSUME IInv, Scan PROVE IInv'
  OBVIOUS
<1>1. PICK o \in SipcNext(buf, next, End) :
        Took(o) /\ (ScanFails(o) \/ ScanOpens(o) \/ ScanCloses(o) \/ ScanSkips(o))
  BY Zenon DEF Scan
<1>2. /\ pc = "scan" /\ from' = from /\ next \in 1..Len(buf)
      /\ TypeOK /\ Terminated(buf) /\ Len(buf) \in Nat /\ End = Len(buf) + 1
  BY DEF Scan, IInv, Terminated, End
<1>3. /\ o.ok \in BOOLEAN /\ o.reads \subseteq 1..Len(buf) /\ o.next \in 1..End
      /\ o.ok => o.value.type \in {"END"} \cup Scalars \cup Sized \cup Brackets
      /\ o.ok /\ o.value.type # "END" =>
           o.next \in (next + 1)..Len(buf) /\ Sound(buf, next, o)
  BY <1>2, StepSound
<1>4. buf' = buf /\ next' = o.next /\ reads' = o.reads /\ from' \in 1..End
  BY <1>1, <1>2 DEF Took, TypeOK
<1>5. /\ depth \in 1..MaxDepth /\ res = "busy" /\ mode \in {"read", "skip"}
      /\ isArray \in [0..(FlagBits - 1) -> {0, 1}]
      /\ MaxDepth \in Nat /\ FlagBits \in Nat /\ FlagBits >= MaxDepth
  BY <1>2, ParserAssumption DEF TypeOK
<1>6. /\ val = Value(val.type, 0, 0, val.at) /\ val.type \in Openers
      /\ val.at = from + 2 /\ val.at \in 1..next
      /\ At(buf, from + 1) = Bracket(val.type)
      /\ isArray[depth - 1] = Bit(val.type)
  BY <1>2 DEF IInv, ScanView
<1>7. CASE ScanFails(o)
  <2>1. tok' \in Toks
    <3>1. CASE o.ok
      <4>1. tok' = o.value.type
        BY <1>7, <3>1, Zenon DEF ScanFails
      <4> QED
        BY <1>3, <3>1, <4>1 DEF Toks, Scalars, Sized, Brackets, Openers, Closers, Atoms
    <3>2. CASE ~o.ok
      <4>1. tok' = "BAD"
        BY <1>7, <3>2, Zenon DEF ScanFails
      <4> QED
        BY <4>1 DEF Toks
    <3> QED
      BY <3>1, <3>2
  <2>2. Leaves("error", NoValue)
    BY <1>7 DEF ScanFails
  <2> QED
    BY <1>1, <1>2, <1>3, <1>4, <2>1, <2>2, LeavesInv
<1>8. CASE ScanOpens(o)
  <2>1. /\ o.ok /\ o.value.type \in Openers /\ depth # MaxDepth
        /\ tok' = o.value.type /\ depth' = depth + 1
        /\ isArray' = ShiftInFlag(isArray, Bit(o.value.type))
        /\ pc' = pc /\ mode' = mode /\ val' = val /\ res' = res
    BY <1>8, Zenon DEF ScanOpens, TooDeep
  <2>2. /\ o.value.type \in Brackets /\ o.value.type # "END" /\ o.value.type \in Toks
    BY <2>1 DEF Openers, Brackets, Toks
  <2>3. o.next \in (next + 1)..Len(buf)
    BY <1>3, <2>1, <2>2
  <2>4. Bit(o.value.type) \in {0, 1}
    BY DEF Bit
  <2>5. /\ isArray' \in [0..(FlagBits - 1) -> {0, 1}]
        /\ isArray'[depth' - 1] = isArray[depth - 1]
    <3>1. depth \in 1..(FlagBits - 1)
      BY <1>5, <2>1
    <3>2. isArray' = [k \in 0..(FlagBits - 1) |->
                       IF k = 0 THEN Bit(o.value.type) ELSE isArray[k - 1]]
      BY <2>1 DEF ShiftInFlag
    <3>3. isArray'[depth] = isArray[depth - 1]
      BY <1>5, <3>1, <3>2
    <3>4. isArray' \in [0..(FlagBits - 1) -> {0, 1}]
      BY <1>5, <2>4, <3>2
    <3>5. depth' - 1 = depth
      BY <1>5, <2>1
    <3> QED
      BY <3>3, <3>4, <3>5
  <2>6. TypeOK'
    BY <1>2, <1>3, <1>4, <1>5, <2>1, <2>2, <2>3, <2>5 DEF TypeOK, Toks, End
  <2>7. ScanView'
    BY <1>2, <1>4, <1>6, <2>1, <2>3, <2>5 DEF ScanView
  <2> QED
    BY <1>2, <1>3, <1>4, <2>1, <2>3, <2>6, <2>7
    DEF IInv, ReadsInBounds, ViewsInBounds, Terminated
<1>9. CASE ScanCloses(o)
  <2>1. /\ o.ok /\ o.value.type \in Closers /\ isArray[0] = Bit(o.value.type)
        /\ tok' = o.value.type /\ depth' = depth - 1 /\ mode' = mode
        /\ isArray' = ShiftOutFlag(isArray)
        /\ depth = 1 => /\ pc' = "message" /\ res' = "value"
                        /\ val' = [val EXCEPT !.n = o.next - 2 - val.at]
        /\ depth # 1 => pc' = pc /\ res' = res /\ val' = val
    BY <1>9, Zenon DEF ScanCloses, Mismatch
  <2>2. /\ o.value.type \in Brackets /\ o.value.type # "END" /\ o.value.type \in Toks
    BY <2>1 DEF Closers, Brackets, Toks
  <2>3. /\ o.next \in (next + 1)..Len(buf) /\ o.next = next + 2
        /\ At(buf, next) = "SP"
        /\ At(buf, next + 1) = Bracket(o.value.type)
    BY <1>3, <2>1, <2>2, Zenon DEF Sound
  <2>4. isArray' = [k \in 0..(FlagBits - 1) |->
                     IF k = FlagBits - 1 THEN 0 ELSE isArray[k + 1]]
    BY <2>1 DEF ShiftOutFlag
  <2>5. isArray' \in [0..(FlagBits - 1) -> {0, 1}]
    BY <1>5, <2>4
  <2>6. CASE depth = 1
    <3>1. /\ pc' = "message" /\ res' = "value" /\ depth' = 0
          /\ val' = [val EXCEPT !.n = o.next - 2 - val.at]
      BY <2>1, <2>6
    <3>2. TypeOK'
      BY <1>2, <1>3, <1>4, <1>5, <2>1, <2>2, <2>5, <3>1 DEF TypeOK, Toks, End
    <3>3. val' = Value(val.type, 0, next - val.at, val.at)
      BY <1>2, <1>6, <2>3, <3>1 DEF Value
    <3>4. val'.type = val.type /\ val'.n = next - val.at /\ val'.at = val.at
      BY <3>3 DEF Value
    <3>5. Bit(val.type) = Bit(o.value.type)
      BY <1>6, <2>1, <2>6
    <3>6. <<At(buf, from + 1), At(buf, next + 1)>> \in
            {<<"[", "]">>, <<"{", "}">>}
      <4>1. \/ val.type = "ARRAY" /\ o.value.type = "ARRAY_END"
            \/ val.type = "MAP" /\ o.value.type = "MAP_END"
        BY <1>6, <2>1, <3>5 DEF Bit, Openers, Closers
      <4>2. /\ Bracket("ARRAY") = "[" /\ Bracket("ARRAY_END") = "]"
            /\ Bracket("MAP") = "{" /\ Bracket("MAP_END") = "}"
        BY DEF Bracket
      <4> QED
        BY <1>6, <2>3, <4>1, <4>2
    <3>7. ViewsInBounds'
      <4>1. val'.at + val'.n = next
        BY <1>2, <1>6, <3>4
      <4>2. val'.n >= 0 /\ next + 2 < End
        BY <1>2, <1>6, <2>3, <3>4
      <4>3. val'.type \notin {"STRING", "BYTES"}
        BY <1>6, <3>4 DEF Openers
      <4> QED
        BY <1>2, <1>4, <1>6, <2>3, <3>4, <3>6, <4>1, <4>2, <4>3
        DEF ViewsInBounds, End
    <3> QED
      BY <1>2, <1>3, <1>4, <2>3, <3>1, <3>2, <3>7
      DEF IInv, ReadsInBounds, ScanView, Terminated
  <2>7. CASE depth # 1
    <3>1. depth' \in 1..MaxDepth /\ depth' = depth - 1
      BY <1>5, <2>1, <2>7
    <3>2. isArray'[depth' - 1] = isArray[depth - 1]
      <4>1. depth - 2 \in 0..(FlagBits - 2)
        BY <1>5, <3>1
      <4>2. isArray'[depth - 2] = isArray[depth - 1]
        BY <1>5, <2>4, <4>1
      <4> QED
        BY <1>5, <3>1, <4>2
    <3>3. pc' = "scan" /\ res' = "busy" /\ val' = val
      BY <1>2, <1>5, <2>1, <2>7
    <3>4. TypeOK'
      BY <1>2, <1>3, <1>4, <1>5, <2>1, <2>2, <2>5, <3>1, <3>3 DEF TypeOK, Toks, End
    <3>5. ScanView'
      BY <1>2, <1>4, <1>6, <2>3, <3>2, <3>3 DEF ScanView
    <3> QED
      BY <1>2, <1>3, <1>4, <2>3, <3>3, <3>4, <3>5
      DEF IInv, ReadsInBounds, ViewsInBounds, Terminated
  <2> QED
    BY <2>6, <2>7
<1>10. CASE ScanSkips(o)
  <2>1. /\ o.ok /\ o.value.type # "END" /\ tok' = o.value.type
        /\ pc' = pc /\ mode' = mode /\ depth' = depth /\ isArray' = isArray
        /\ val' = val /\ res' = res
    BY <1>10, Zenon DEF ScanSkips
  <2>2. o.next \in (next + 1)..Len(buf) /\ o.value.type \in Toks
    BY <1>3, <2>1 DEF Toks, Scalars, Sized, Brackets, Openers, Closers, Atoms
  <2>3. TypeOK'
    BY <1>2, <1>3, <1>4, <1>5, <2>1, <2>2 DEF TypeOK, Toks, End
  <2>4. ScanView'
    BY <1>2, <1>4, <1>6, <2>1, <2>2 DEF ScanView
  <2> QED
    BY <1>2, <1>3, <1>4, <2>1, <2>2, <2>3, <2>4
    DEF IInv, ReadsInBounds, ViewsInBounds, Terminated
<1> QED
  BY <1>1, <1>7, <1>8, <1>9, <1>10

(* Every step, one action at a time.                                       *)
LEMMA NextInv == IInv /\ [Next]_vars => IInv'
<1> SUFFICES ASSUME IInv, [Next]_vars PROVE IInv'
  OBVIOUS
<1>1. CASE SipcInit \/ SipcStart \/ SipcEnd
  BY <1>1, OutsideInv
<1>2. CASE SipcAny
  BY <1>2, AnyInv
<1>3. CASE Scan
  BY <1>3, ScanInv
<1>4. CASE \E kind \in Getters : SipcGet(kind)
  BY <1>4, GetInv
<1>5. CASE UNCHANGED vars
  BY <1>5, ZenonT(30) DEF vars, IInv, TypeOK, ReadsInBounds, ViewsInBounds, ScanView,
                     Terminated, End
<1> QED
  BY <1>1, <1>2, <1>3, <1>4, <1>5 DEF Next, Done

(* The invariant holds of every reachable state.                           *)
LEMMA SpecInv == Spec => []IInv
<1>1. Init => IInv
  BY InitInv
<1>2. IInv /\ [Next]_vars => IInv'
  BY NextInv
<1> QED
  BY <1>1, <1>2, PTL DEF Spec

-------------------------------------------------------------------------------
(* The state of the parser has its types: in particular the cursor is never*)
(* further than one past the last byte (ipc.c:406-561).                    *)
THEOREM ParserTypes == Spec => []TypeOK
<1>1. IInv => TypeOK
  BY DEF IInv
<1> QED
  BY <1>1, SpecInv, PTL

(* No call reads outside the buffer, whatever the bytes in it are: the     *)
(* newline that sipc_init looks for ends every loop (ipc.c:360, 497, 937). *)
THEOREM ParserReadsInBounds == Spec => []ReadsInBounds
<1>1. IInv => ReadsInBounds
  BY DEF IInv
<1> QED
  BY <1>1, SpecInv, PTL

(* What a call hands out is inside the buffer, and a container is handed   *)
(* out with the bracket that opened it matched by the one that closed it   *)
(* (ipc.c:360, 523, 557).                                                  *)
THEOREM ParserViewsInBounds == Spec => []ViewsInBounds
<1>1. IInv => ViewsInBounds
  BY DEF IInv
<1> QED
  BY <1>1, SpecInv, PTL

-------------------------------------------------------------------------------
(* The counter and the word of bits of sipc_any implement the stack of     *)
(* Nesting, for every depth limit that fits in the word.                   *)
(* The stack that d bits of the word stand for.                            *)
Bracketed(d, flags) ==
  [k \in 1..d |-> IF flags[d - k] = 1 THEN "ARRAY" ELSE "MAP"]

Flags == [0..(FlagBits - 1) -> {0, 1}]

(* The stack is a sequence, whose last element is what bit 0 says.         *)
LEMMA BracketedSeq ==
  ASSUME NEW d \in Nat, NEW flags
  PROVE  /\ Bracketed(d, flags) \in Seq(Openers)
         /\ Len(Bracketed(d, flags)) = d
         /\ d > 0 => /\ Bracketed(d, flags) # <<>>
                     /\ Last(Bracketed(d, flags)) =
                          IF flags[0] = 1 THEN "ARRAY" ELSE "MAP"
<1> DEFINE s == Bracketed(d, flags)
<1>1. s \in [1..d -> Openers]
  BY DEF Bracketed, Openers
<1>2. s \in Seq(Openers) /\ Len(s) = d
  BY <1>1
<1>3. ASSUME d > 0 PROVE s # <<>> /\ s[d] = IF flags[0] = 1 THEN "ARRAY" ELSE "MAP"
  <2>1. d \in 1..d /\ d - d = 0
    BY <1>3
  <2>2. s[d] = IF flags[0] = 1 THEN "ARRAY" ELSE "MAP"
    BY <2>1 DEF Bracketed
  <2> QED
    BY <1>2, <1>3, <2>2
<1> QED
  BY <1>2, <1>3 DEF Last

(* Shifting a bit in is pushing.                                           *)
LEMMA ShiftInPushes ==
  ASSUME NEW d \in Nat, NEW flags \in Flags, NEW type \in Openers,
         d < FlagBits, FlagBits \in Nat
  PROVE  Bracketed(d + 1, ShiftInFlag(flags, Bit(type))) =
           Append(Bracketed(d, flags), type)
<1> DEFINE s == Bracketed(d, flags)
           g == ShiftInFlag(flags, Bit(type))
           t == Bracketed(d + 1, g)
<1>1. s \in Seq(Openers) /\ Len(s) = d /\ t \in Seq(Openers) /\ Len(t) = d + 1
  <2>1. d + 1 \in Nat
    OBVIOUS
  <2> QED
    BY <2>1, BracketedSeq
<1>2. Append(s, type) \in Seq(Openers) /\ Len(Append(s, type)) = d + 1
  BY <1>1
<1>3. g = [k \in 0..(FlagBits - 1) |-> IF k = 0 THEN Bit(type) ELSE flags[k - 1]]
  BY DEF ShiftInFlag
<1>4. ASSUME NEW k \in 1..(d + 1) PROVE t[k] = Append(s, type)[k]
  <2>1. t[k] = IF g[d + 1 - k] = 1 THEN "ARRAY" ELSE "MAP"
    BY DEF Bracketed
  <2>2. CASE k = d + 1
    <3>1. d + 1 - k = 0 /\ 0 \in 0..(FlagBits - 1)
      BY <2>2
    <3>2. g[d + 1 - k] = Bit(type)
      BY <1>3, <3>1
    <3>3. t[k] = type
      BY <2>1, <3>2 DEF Bit, Openers
    <3> QED
      BY <1>1, <2>2, <3>3
  <2>3. CASE k # d + 1
    <3>1. k \in 1..d /\ d + 1 - k \in 1..(FlagBits - 1) /\ (d + 1 - k) - 1 = d - k
      BY <2>3
    <3>2. g[d + 1 - k] = flags[d - k]
      BY <1>3, <3>1
    <3>3. s[k] = IF flags[d - k] = 1 THEN "ARRAY" ELSE "MAP"
      BY <3>1 DEF Bracketed
    <3> QED
      BY <1>1, <2>1, <3>1, <3>2, <3>3
  <2> QED
    BY <2>2, <2>3
<1> HIDE DEF s, g, t
<1>5. t = Append(s, type)
  BY <1>1, <1>2, <1>4
<1> QED
  BY <1>5 DEF s, g, t

(* Shifting a bit out is popping.                                          *)
LEMMA ShiftOutPops ==
  ASSUME NEW d \in Nat, NEW flags \in Flags, d >= 1, d <= FlagBits,
         FlagBits \in Nat
  PROVE  Bracketed(d - 1, ShiftOutFlag(flags)) = Front(Bracketed(d, flags))
<1> DEFINE s == Bracketed(d, flags)
           g == ShiftOutFlag(flags)
           t == Bracketed(d - 1, g)
<1>1. s \in Seq(Openers) /\ Len(s) = d /\ t \in Seq(Openers) /\ Len(t) = d - 1
  <2>1. d - 1 \in Nat
    OBVIOUS
  <2> QED
    BY <2>1, BracketedSeq
<1>2. /\ SubSeq(s, 1, d - 1) \in Seq(Openers)
      /\ Len(SubSeq(s, 1, d - 1)) = d - 1
      /\ \A k \in 1..(d - 1) : SubSeq(s, 1, d - 1)[k] = s[k]
  BY <1>1
<1>3. g = [k \in 0..(FlagBits - 1) |->
            IF k = FlagBits - 1 THEN 0 ELSE flags[k + 1]]
  BY DEF ShiftOutFlag
<1>4. ASSUME NEW k \in 1..(d - 1) PROVE t[k] = SubSeq(s, 1, d - 1)[k]
  <2>1. /\ d - 1 - k \in 0..(FlagBits - 2) /\ (d - 1 - k) + 1 = d - k
        /\ k \in 1..d
    OBVIOUS
  <2>2. g[d - 1 - k] = flags[d - k]
    BY <1>3, <2>1
  <2>3. t[k] = IF g[d - 1 - k] = 1 THEN "ARRAY" ELSE "MAP"
    BY DEF Bracketed
  <2>4. s[k] = IF flags[d - k] = 1 THEN "ARRAY" ELSE "MAP"
    BY <2>1 DEF Bracketed
  <2> QED
    BY <1>2, <2>2, <2>3, <2>4
<1> HIDE DEF s, g, t
<1>5. t = Front(s)
  BY <1>1, <1>2, <1>4 DEF Front
<1> QED
  BY <1>5 DEF s, g, t

(* The stack in the states before and after a step.                        *)
LEMMA StackOutside ==
  /\ pc # "scan" => Stack = <<>>
  /\ pc' # "scan" => Stack' = <<>>
  /\ pc = "scan" => Stack = Bracketed(depth, isArray)
  /\ pc' = "scan" => Stack' = Bracketed(depth', isArray')
BY Zenon DEF Stack, Bracketed

(* The first token of sipc_any is that of First.                           *)
LEMMA AnyNests == IInv /\ SipcAny => N!Next
<1> SUFFICES ASSUME IInv, SipcAny PROVE N!Next
  OBVIOUS
<1>1. PICK o \in SipcNext(buf, next, End) :
        Took(o) /\ (AnyFails(o) \/ AnyEnds(o) \/ AnyValue(o) \/ AnyOpens(o))
  BY Zenon DEF SipcAny
<1>2. pc = "message" /\ Stack = <<>>
  BY StackOutside DEF SipcAny
<1>3. o.ok => o.value.type \in {"END"} \cup Scalars \cup Sized \cup Brackets
  <2>1. TypeOK /\ Terminated(buf) /\ next \in 1..Len(buf)
    BY <1>2 DEF IInv
  <2> QED
    BY <2>1, StepSound
<1>4. CASE AnyFails(o) \/ AnyEnds(o)
  <2>1. \/ tok' = "BAD" /\ res' = "error"
        \/ tok' = "END" /\ res' = "value"
    BY <1>4 DEF AnyFails, AnyEnds, Leaves
  <2>2. Stack' = <<>>
    BY <1>4, StackOutside DEF AnyFails, AnyEnds, Leaves
  <2>3. tok' \in N!Tokens /\ N!First(tok')
    BY <1>2, <2>1, <2>2 DEF N!First, N!Tokens, N!Openers
  <2> QED
    BY <2>3 DEF N!Next
<1>5. CASE AnyValue(o)
  <2>1. /\ o.value.type \notin Openers /\ tok' = o.value.type
        /\ res' = "value" /\ pc' = pc
    BY <1>5, Zenon DEF AnyValue
  <2>2. o.value.type \in {"END"} \cup Scalars \cup Sized \cup Brackets
    BY <1>3, <1>5, Zenon DEF AnyValue
  <2>3. Stack' = <<>>
    BY <1>2, <2>1, StackOutside
  <2>4. /\ tok' \in N!Tokens /\ tok' \notin N!Openers /\ tok' # "BAD"
    BY <2>1, <2>2 DEF Scalars, Sized, Brackets, Openers,
         N!Tokens, N!Openers, N!Closers, N!Atoms
  <2>5. N!First(tok')
    BY <1>2, <2>1, <2>3, <2>4 DEF N!First
  <2> QED
    BY <2>4, <2>5 DEF N!Next
<1>6. CASE AnyOpens(o)
  <2>1. /\ o.value.type \in Openers /\ tok' = o.value.type /\ res' = "busy"
        /\ pc' = "scan" /\ depth' = 1
        /\ isArray' = ShiftInFlag(NoFlags, Bit(o.value.type))
    BY <1>6, Zenon DEF AnyOpens
  <2>2. NoFlags \in Flags /\ 0 < FlagBits /\ FlagBits \in Nat
    BY ParserAssumption DEF NoFlags, Flags
  <2>3. Bracketed(0 + 1, ShiftInFlag(NoFlags, Bit(o.value.type))) =
          Append(Bracketed(0, NoFlags), o.value.type)
    BY <2>1, <2>2, ShiftInPushes
  <2>4. Bracketed(0, NoFlags) = <<>>
    BY BracketedSeq
  <2>5. Stack' = <<tok'>>
    <3>1. Stack' = Bracketed(1, ShiftInFlag(NoFlags, Bit(o.value.type)))
      BY <2>1, StackOutside
    <3>2. 0 + 1 = 1 /\ Append(<<>>, o.value.type) = <<o.value.type>>
      OBVIOUS
    <3> QED
      BY <2>1, <2>3, <2>4, <3>1, <3>2
  <2>6. tok' \in N!Openers /\ tok' \in N!Tokens
    BY <2>1 DEF Openers, N!Openers, N!Tokens
  <2>7. N!First(tok')
    BY <1>2, <2>1, <2>5, <2>6 DEF N!First
  <2> QED
    BY <2>6, <2>7 DEF N!Next
<1> QED
  BY <1>1, <1>4, <1>5, <1>6

(* A turn of the loop is a Push, an Item, a Pop or a Reject.               *)
LEMMA ScanNests == IInv /\ Scan => N!Next
<1> SUFFICES ASSUME IInv, Scan PROVE N!Next
  OBVIOUS
<1>1. PICK o \in SipcNext(buf, next, End) :
        Took(o) /\ (ScanFails(o) \/ ScanOpens(o) \/ ScanCloses(o) \/ ScanSkips(o))
  BY Zenon DEF Scan
<1>2. pc = "scan" /\ Stack = Bracketed(depth, isArray)
  BY StackOutside DEF Scan
<1>3. /\ o.ok \in BOOLEAN
      /\ o.ok => o.value.type \in {"END"} \cup Scalars \cup Sized \cup Brackets
  <2>1. TypeOK /\ Terminated(buf) /\ next \in 1..Len(buf)
    BY <1>2 DEF IInv
  <2> QED
    BY <2>1, StepSound
<1>4. /\ depth \in 1..MaxDepth /\ res = "busy" /\ isArray \in Flags
      /\ MaxDepth \in Nat /\ FlagBits \in Nat /\ FlagBits >= MaxDepth
  BY <1>2, ParserAssumption DEF IInv, TypeOK, Flags
<1>5. /\ Stack \in Seq(Openers) /\ Len(Stack) = depth /\ Stack # <<>>
      /\ Last(Stack) = IF isArray[0] = 1 THEN "ARRAY" ELSE "MAP"
  <2>1. depth \in Nat /\ depth > 0
    BY <1>4
  <2> QED
    BY <1>2, <2>1, BracketedSeq
<1>6. isArray[0] \in {0, 1}
  BY <1>4 DEF Flags
<1>7. /\ Openers = N!Openers /\ Closers = N!Closers /\ Atoms = N!Atoms
      /\ N!Closer["ARRAY"] = "ARRAY_END" /\ N!Closer["MAP"] = "MAP_END"
      /\ N!Last(Stack) = Last(Stack) /\ N!Front(Stack) = Front(Stack)
  BY DEF Last, Front, N!Last, N!Front, Openers, Closers, Atoms, N!Openers, N!Closers, N!Atoms, N!Closer
<1>8. N!Closer[Last(Stack)] = IF isArray[0] = 1 THEN "ARRAY_END" ELSE "MAP_END"
  BY <1>5, <1>6, <1>7
<1>9. CASE ScanFails(o)
  <2>1. Stack' = <<>> /\ res' = "error"
    BY <1>9, StackOutside DEF ScanFails, Leaves
  <2>2. \/ tok' \in {"BAD", "END"}
        \/ tok' \in Openers /\ depth = MaxDepth
        \/ tok' \in Closers /\ isArray[0] # Bit(tok')
    BY <1>3, <1>9, Zenon DEF ScanFails, TooDeep, Mismatch
  <2>3. tok' \in Closers /\ isArray[0] # Bit(tok') => tok' # N!Closer[Last(Stack)]
    BY <1>6, <1>8 DEF Bit, Closers
  <2>4. N!Reject(tok')
    BY <1>5, <1>7, <2>1, <2>2, <2>3 DEF N!Reject
  <2>5. tok' \in N!Tokens
    BY <1>7, <2>2 DEF N!Tokens
  <2> QED
    BY <2>4, <2>5 DEF N!Next
<1>10. CASE ScanOpens(o)
  <2>1. /\ o.value.type \in Openers /\ depth # MaxDepth
        /\ tok' = o.value.type /\ depth' = depth + 1
        /\ isArray' = ShiftInFlag(isArray, Bit(o.value.type))
        /\ pc' = pc /\ res' = res
    BY <1>10, Zenon DEF ScanOpens, TooDeep
  <2>2. depth \in Nat /\ depth < FlagBits /\ depth < MaxDepth
    BY <1>4, <2>1
  <2>3. Stack' = Append(Stack, tok')
    BY <1>2, <1>4, <2>1, <2>2, ShiftInPushes, StackOutside
  <2>4. N!Push(tok')
    BY <1>4, <1>5, <1>7, <2>1, <2>2, <2>3 DEF N!Push
  <2>5. tok' \in N!Tokens
    BY <1>7, <2>1 DEF N!Tokens
  <2> QED
    BY <2>4, <2>5 DEF N!Next
<1>11. CASE ScanCloses(o)
  <2>1. /\ o.value.type \in Closers /\ isArray[0] = Bit(o.value.type)
        /\ tok' = o.value.type /\ depth' = depth - 1
        /\ isArray' = ShiftOutFlag(isArray)
        /\ depth = 1 => pc' = "message" /\ res' = "value"
        /\ depth # 1 => pc' = pc /\ res' = res
    BY <1>11, Zenon DEF ScanCloses, Mismatch
  <2>2. depth \in Nat /\ depth >= 1 /\ depth <= FlagBits
    BY <1>4
  <2>3. Bracketed(depth - 1, ShiftOutFlag(isArray)) = Front(Stack)
    BY <1>2, <1>4, <2>2, ShiftOutPops
  <2>4. Stack' = Front(Stack)
    <3>1. CASE depth = 1
      <4>1. Bracketed(depth - 1, ShiftOutFlag(isArray)) = <<>>
        BY <3>1, BracketedSeq
      <4> QED
        BY <2>1, <2>3, <3>1, <4>1, StackOutside
    <3>2. CASE depth # 1
      BY <1>2, <2>1, <2>3, <3>2, StackOutside
    <3> QED
      BY <3>1, <3>2
  <2>5. tok' = N!Closer[Last(Stack)]
    BY <1>6, <1>8, <2>1 DEF Bit, Closers
  <2>6. N!Pop(tok')
    <3>1. res' = IF Len(Stack) = 1 THEN "value" ELSE "busy"
      BY <1>4, <1>5, <2>1
    <3> QED
      BY <1>5, <1>7, <2>4, <2>5, <3>1 DEF N!Pop
  <2>7. tok' \in N!Tokens
    BY <1>7, <2>1 DEF N!Tokens
  <2> QED
    BY <2>6, <2>7 DEF N!Next
<1>12. CASE ScanSkips(o)
  <2>1. /\ o.value.type \notin Openers \cup Closers \cup {"END"}
        /\ tok' = o.value.type
        /\ pc' = pc /\ depth' = depth /\ isArray' = isArray /\ res' = res
    BY <1>12, Zenon DEF ScanSkips
  <2>2. o.value.type \in {"END"} \cup Scalars \cup Sized \cup Brackets
    BY <1>3, <1>12, Zenon DEF ScanSkips
  <2>3. tok' \in Atoms
    BY <2>1, <2>2 DEF Scalars, Sized, Brackets, Openers, Closers, Atoms
  <2>4. Stack' = Stack
    BY <1>2, <2>1, StackOutside
  <2>5. N!Item(tok')
    BY <1>5, <1>7, <2>1, <2>3, <2>4 DEF N!Item
  <2>6. tok' \in N!Tokens
    BY <1>7, <2>3 DEF N!Tokens
  <2> QED
    BY <2>5, <2>6 DEF N!Next
<1> QED
  BY <1>1, <1>9, <1>10, <1>11, <1>12

(* Everything else leaves the stack alone.                                 *)
LEMMA NextNests == IInv /\ [Next]_vars => [N!Next]_(N!vars)
<1> SUFFICES ASSUME IInv, [Next]_vars PROVE [N!Next]_(N!vars)
  OBVIOUS
<1>1. CASE SipcInit
  <2>1. pc # "scan" /\ pc' # "scan" /\ tok' = tok /\ res' = res
    BY <1>1 DEF SipcInit
  <2> QED
    BY <2>1, StackOutside DEF N!vars
<1>2. CASE SipcStart \/ SipcEnd
  <2>1. pc # "scan" /\ pc' # "scan" /\ tok' = "none" /\ res' = "none"
    BY <1>2 DEF SipcStart, SipcEnd
  <2> QED
    BY <2>1, StackOutside DEF N!Next, N!Outside
<1>3. CASE \E kind \in Getters : SipcGet(kind)
  <2>1. PICK kind \in Getters : SipcGet(kind)
    BY <1>3
  <2>2. /\ pc # "scan" /\ pc' # "scan" /\ tok' = "none"
        /\ res' \in {"value", "error"}
    BY <2>1 DEF SipcGet, GetFails, GetValue, Leaves
  <2> QED
    BY <2>2, StackOutside DEF N!Next, N!Outside
<1>4. CASE SipcAny
  BY <1>4, AnyNests
<1>5. CASE Scan
  BY <1>5, ScanNests
<1>6. CASE UNCHANGED vars
  <2>1. Stack' = Stack /\ tok' = tok /\ res' = res
    BY <1>6, Zenon DEF vars, Stack
  <2> QED
    BY <2>1 DEF N!vars
<1> QED
  BY <1>1, <1>2, <1>3, <1>4, <1>5, <1>6 DEF Next, Done

(* sipc_any reports a container exactly when a stack of its brackets comes *)
(* to be empty, and refuses what a stack of at most MaxDepth would         *)
(* (ipc.c:516-561).                                                        *)
THEOREM ParserKeepsNesting == Spec => NestingKept
<1>1. Init => N!Init
  BY StackOutside DEF Init, N!Init
<1>2. IInv /\ [Next]_vars => [N!Next]_(N!vars)
  BY NextNests
<1> QED
  BY <1>1, <1>2, SpecInv, PTL DEF Spec, NestingKept, N!Spec
-------------------------------------------------------------------------------
(* Numbers.  The powers of two are what their recursive definition says.   *)
LEMMA TwoToDef ==
  \A n \in 0..W : TwoTo[n] = IF n = 0 THEN 1 ELSE 2 * TwoTo[n - 1]
<1>1. W \in Nat
  BY LexerAssumption
<1> DEFINE step == [k \in 1..W |-> [v \in Nat |-> 2 * v]]
<1>2. step \in Steps(Nat, 0, W)
  BY DEF Steps
<1>3. PICK f : Recursive(f, Nat, 0, W, 1, step)
  <2> HIDE DEF step
  <2>1. 0 \in Int /\ W \in Int /\ 1 \in Nat
    BY <1>1
  <2> QED
    BY <1>2, <2>1, Recursion, Zenon
<1>4. f = [n \in 0..W |-> IF n = 0 THEN 1 ELSE 2 * f[n - 1]]
  <2>1. ASSUME NEW n \in 0..W, n # 0 PROVE step[n][f[n - 1]] = 2 * f[n - 1]
    BY <1>1, <1>3, <2>1 DEF Recursive
  <2> HIDE DEF step
  <2> QED
    BY <1>1, <1>3, <2>1 DEF Recursive
<1>5. TwoTo = [n \in 0..W |-> IF n = 0 THEN 1 ELSE 2 * TwoTo[n - 1]]
  BY <1>4 DEF TwoTo
<1> QED
  BY <1>5

(* They are numbers, all of them positive.                                 *)
LEMMA TwoToIs ==
  /\ TwoTo[0] = 1
  /\ \A n \in 0..W : TwoTo[n] \in Nat /\ TwoTo[n] > 0
  /\ \A n \in 1..W : TwoTo[n] = 2 * TwoTo[n - 1]
<1>1. W \in Nat
  BY LexerAssumption
<1>2. TwoTo[0] = 1 /\ \A n \in 1..W : TwoTo[n] = 2 * TwoTo[n - 1]
  BY <1>1, TwoToDef
<1> DEFINE T == {n \in Nat : n <= W => TwoTo[n] \in Nat /\ TwoTo[n] > 0}
<1>3. 0 \in T
  BY <1>2
<1>4. ASSUME NEW n \in Nat, n \in T PROVE n + 1 \in T
  <2> SUFFICES ASSUME n + 1 <= W PROVE TwoTo[n + 1] \in Nat /\ TwoTo[n + 1] > 0
    OBVIOUS
  <2>1. n + 1 \in 1..W /\ n + 1 - 1 = n
    BY <1>1
  <2>2. TwoTo[n + 1] = 2 * TwoTo[n]
    BY <1>2, <2>1
  <2>3. TwoTo[n] \in Nat /\ TwoTo[n] > 0
    BY <1>1, <1>4
  <2> QED
    BY <2>2, <2>3
<1>5. Nat \subseteq T
  <2> HIDE DEF T
  <2> QED
    BY <1>3, <1>4, NatInductive
<1> QED
  BY <1>1, <1>2, <1>5

(* A word is sixteen times as large as one of four bits less.              *)
LEMMA WordSize ==
  /\ W \in Nat /\ W >= 12
  /\ TwoTo[4] = 16
  /\ TwoTo[W - 4] \in Nat /\ TwoTo[W - 4] > 0
  /\ TwoTo[W - 1] = 8 * TwoTo[W - 4]
  /\ TwoTo[W] = 16 * TwoTo[W - 4]
<1>1. W \in Nat /\ W >= 12
  BY LexerAssumption
<1>2. /\ 1 \in 1..W /\ 2 \in 1..W /\ 3 \in 1..W /\ 4 \in 1..W
      /\ W - 4 \in 0..W
      /\ W - 3 \in 1..W /\ W - 2 \in 1..W /\ W - 1 \in 1..W /\ W \in 1..W
  BY <1>1
<1>3. /\ (W - 3) - 1 = W - 4 /\ (W - 2) - 1 = W - 3 /\ (W - 1) - 1 = W - 2
      /\ 1 - 1 = 0 /\ 2 - 1 = 1 /\ 3 - 1 = 2 /\ 4 - 1 = 3
  BY <1>1
<1>4. TwoTo[1] = 2 * TwoTo[0] /\ TwoTo[2] = 2 * TwoTo[1]
      /\ TwoTo[3] = 2 * TwoTo[2] /\ TwoTo[4] = 2 * TwoTo[3]
  BY <1>2, <1>3, TwoToIs
<1>5. /\ TwoTo[W - 3] = 2 * TwoTo[W - 4] /\ TwoTo[W - 2] = 2 * TwoTo[W - 3]
      /\ TwoTo[W - 1] = 2 * TwoTo[W - 2] /\ TwoTo[W] = 2 * TwoTo[W - 1]
  BY <1>2, <1>3, TwoToIs
<1>6. TwoTo[0] = 1 /\ TwoTo[W - 4] \in Nat /\ TwoTo[W - 4] > 0
  BY <1>2, TwoToIs
<1> QED
  BY <1>1, <1>4, <1>5, <1>6

(* What is shifted left stays in the word.                                 *)
LEMMA ShiftLeftWord ==
  ASSUME NEW v \in Nat, NEW n \in 0..W
  PROVE  ShiftLeft(v, n) \in Word
<1>1. TwoTo[n] \in Nat /\ TwoTo[W] \in Nat /\ TwoTo[W] > 0
  BY TwoToIs, LexerAssumption
<1> DEFINE x == v * TwoTo[n]
<1>2. x \in Nat
  BY <1>1
<1> HIDE DEF x
<1>3. x % TwoTo[W] \in 0..(TwoTo[W] - 1)
  BY <1>1, <1>2
<1> QED
  BY <1>3 DEF ShiftLeft, Word, x

(* A shift by nothing leaves the word alone.                               *)
LEMMA ShiftLeftZero ==
  ASSUME NEW v \in Word
  PROVE  ShiftLeft(v, 0) = v
<1>1. TwoTo[0] = 1 /\ TwoTo[W] \in Nat /\ v \in Nat /\ v < TwoTo[W]
  BY TwoToIs, LexerAssumption DEF Word
<1>2. v * 1 = v /\ v % TwoTo[W] = v
  BY <1>1
<1> QED
  BY <1>1, <1>2 DEF ShiftLeft

(* No word has more leading zeros than bits.                               *)
LEMMA LeadingZerosIs ==
  ASSUME NEW v
  PROVE  LeadingZeros(v) \in 0..W
<1> DEFINE K == {k \in 0..(W - 1) : v >= TwoTo[k]}
<1>1. W \in Nat
  BY LexerAssumption
<1>2. IsFiniteSet(0..(W - 1)) /\ Cardinality(0..(W - 1)) = W
  BY <1>1, FS_Interval
<1>3. K \subseteq 0..(W - 1)
  OBVIOUS
<1>4. Cardinality(K) \in Nat /\ Cardinality(K) <= W
  <2> HIDE DEF K
  <2>1. IsFiniteSet(K) /\ Cardinality(K) <= Cardinality(0..(W - 1))
    BY <1>2, <1>3, FS_Subset
  <2> QED
    BY <1>2, <2>1, FS_CardinalityType
<1> HIDE DEF K
<1>5. W - Cardinality(K) \in 0..W
  BY <1>1, <1>4
<1> QED
  BY <1>5 DEF LeadingZeros, K

(* Of 1 the last bit at least is not zero.                                 *)
LEMMA LeadingZerosOne == LeadingZeros(1) < W
<1> DEFINE K == {k \in 0..(W - 1) : 1 >= TwoTo[k]}
<1>1. W \in Nat /\ W >= 12
  BY LexerAssumption
<1>2. IsFiniteSet(K)
  <2>1. IsFiniteSet(0..(W - 1))
    BY <1>1, FS_Interval
  <2> QED
    BY <2>1, FS_Subset
<1>3. 0 \in K
  BY <1>1, TwoToIs
<1>4. Cardinality(K) \in Nat /\ Cardinality(K) # 0
  <2> HIDE DEF K
  <2> QED
    BY <1>2, <1>3, FS_CardinalityType, FS_EmptySet
<1> HIDE DEF K
<1>5. W - Cardinality(K) < W
  BY <1>1, <1>4
<1> QED
  BY <1>5 DEF LeadingZeros, K

(* What a digit stands for.                                                *)
LEMMA HexValueIs == ASSUME NEW c \in HexDigits PROVE HexValue[c] \in 0..15
<1>1. \E k \in 1..16 : HexChars[k] = c
  BY DEF HexChars, HexDigits
<1>2. (CHOOSE k \in 1..16 : HexChars[k] = c) \in 1..16
  BY <1>1
<1> QED
  BY <1>2 DEF HexValue

(* What parse_hex keeps while it reads: the word and the bits left out.    *)
ReadWords == [v : Word, over : Nat]

(* The shift by a digit leaves room for it; a word that has overflowed is  *)
(* noticed or not less than a sixteenth of the largest.                    *)
LEMMA ShiftLeftDigit ==
  ASSUME NEW v \in Word
  PROVE  /\ ShiftLeft(v, 4) \in Nat /\ ShiftLeft(v, 4) + 15 \in Word
         /\ v < TwoTo[W - 4] => ShiftLeft(v, 4) = 16 * v
<1> DEFINE P == TwoTo[W - 4]
           d == (v * 16) \div (16 * P)
           n == (v * 16) % (16 * P)
<1>1. P \in Nat /\ P > 0 /\ TwoTo[4] = 16 /\ TwoTo[W] = 16 * P
  BY WordSize
<1>2. ShiftLeft(v, 4) = n
  BY <1>1 DEF ShiftLeft
<1>3. Word = 0..(16 * P - 1) /\ v \in Nat /\ v < 16 * P
  BY <1>1 DEF Word
<1> HIDE DEF P
<1>4. d \in Int /\ n \in 0..(16 * P - 1) /\ v * 16 = (16 * P) * d + n
  <2>1. v * 16 \in Nat /\ 16 * P \in Nat /\ 16 * P > 0
    BY <1>1, <1>3
  <2>2. \A x, m \in Nat : m > 0 => /\ x \div m \in Int /\ x % m \in 0..(m - 1)
                                   /\ x = m * (x \div m) + (x % m)
    OBVIOUS
  <2> QED
    BY <2>1, <2>2, Zenon
<1>5. v < P => n = 16 * v
  <2> SUFFICES ASSUME v < P PROVE n = 16 * v
    OBVIOUS
  <2>1. /\ v * 16 \in Nat /\ 16 * P \in Nat /\ 16 * P > 0
        /\ v * 16 < 16 * P /\ v * 16 = 16 * v
    BY <1>1, <1>3
  <2>2. \A x, m \in Nat : m > 0 /\ x < m => x % m = x
    OBVIOUS
  <2> QED
    BY <2>1, <2>2
<1> HIDE DEF n, d
<1> DEFINE e == v - P * d
<1>6. e \in Int /\ n = 16 * e
  BY <1>1, <1>3, <1>4
<1> HIDE DEF e
<1>7. n + 15 \in 0..(16 * P - 1)
  BY <1>1, <1>4, <1>6
<1> QED
  BY <1>2, <1>3, <1>4, <1>5, <1>7 DEF P

(* One digit more: the new word is sixteen times the old one and the digit *)
(* or, when the top bits were lost unnoticed, still a large one.           *)
LEMMA ShiftInWord ==
  ASSUME NEW word \in ReadWords, NEW c \in HexDigits
  PROVE  /\ ShiftIn(word, c) \in ReadWords
         /\ ShiftIn(word, c).over = 0 =>
              /\ word.over = 0
              /\ \/ ShiftIn(word, c).v = 16 * word.v + HexValue[c]
                 \/ ShiftIn(word, c).v >= TwoTo[W - 4]
              /\ word.v >= TwoTo[W - 4] => ShiftIn(word, c).v >= TwoTo[W - 4]
<1> DEFINE n == ShiftLeft(word.v, 4)
<1>1. /\ word.v \in Word /\ word.over \in Nat
      /\ word = [v |-> word.v, over |-> word.over]
  BY DEF ReadWords
<1>2. n \in Nat /\ n + 15 \in Word /\ (word.v < TwoTo[W - 4] => n = 16 * word.v)
  BY <1>1, ShiftLeftDigit
<1>3. HexValue[c] \in 0..15 /\ TwoTo[W - 4] \in Nat
  BY HexValueIs, WordSize
<1>4. Word = 0..(TwoTo[W] - 1) /\ TwoTo[W] \in Nat
  BY WordSize DEF Word
<1> HIDE DEF n
<1>5. CASE word.over > 0 \/ n < word.v
  <2>1. ShiftIn(word, c) = [v |-> word.v, over |-> word.over + 4]
    BY <1>1, <1>5 DEF ShiftIn, n
  <2> QED
    BY <1>1, <2>1 DEF ReadWords
<1>6. CASE ~(word.over > 0 \/ n < word.v)
  <2>1. ShiftIn(word, c) = [v |-> n + HexValue[c], over |-> word.over]
    BY <1>1, <1>6 DEF ShiftIn, n
  <2>2. n + HexValue[c] \in Word /\ n + HexValue[c] \in Nat
    <3> DEFINE t == HexValue[c]
    <3>1. t \in 0..15
      BY <1>3
    <3> HIDE DEF t
    <3>2. n + t \in Word /\ n + t \in Nat
      BY <1>2, <1>4, <3>1
    <3> QED
      BY <3>2 DEF t
  <2>3. word.over = 0 /\ n >= word.v /\ word.v \in Nat
    BY <1>1, <1>2, <1>4, <1>6
  <2>4. /\ ShiftIn(word, c).v = n + HexValue[c]
        /\ ShiftIn(word, c).over = word.over
    BY <2>1
  <2>5. ShiftIn(word, c) \in ReadWords
    BY <1>1, <2>1, <2>2 DEF ReadWords
  <2>6. word.v >= TwoTo[W - 4] => n + HexValue[c] >= TwoTo[W - 4]
    BY <1>2, <1>3, <2>3
  <2> QED
    BY <1>2, <1>3, <2>3, <2>4, <2>5, <2>6
<1> QED
  BY <1>5, <1>6

(* The bytes i..j are digits.                                              *)
Digits(b, i, j) == \A k \in i..j : b[k] \in HexDigits

(* The loop of parse_hex, with the word after each digit.                  *)
WordRun(word, b, i, j) ==
  /\ word \in [i..(j - 1) -> ReadWords]
  /\ word[i] = [v |-> HexValue[b[i]], over |-> 0]
  /\ \A k \in (i + 1)..(j - 1) : word[k] = ShiftIn(word[k - 1], b[k])
  /\ Number(b, i, j) = word[j - 1]

(* There is such a run of the loop for every run of digits.                *)
LEMMA NumberRuns ==
  ASSUME NEW b, NEW i \in Int, NEW j \in Int, i < j, Digits(b, i, j - 1)
  PROVE  \E word : WordRun(word, b, i, j)
<1> DEFINE base == [v |-> HexValue[b[i]], over |-> 0]
           step == [k \in (i + 1)..(j - 1) |->
                      [w \in ReadWords |-> ShiftIn(w, b[k])]]
           Is(f) == f = [k \in i..(j - 1) |->
                           IF k = i THEN [v |-> HexValue[b[k]], over |-> 0]
                                    ELSE ShiftIn(f[k - 1], b[k])]
<1>1. base \in ReadWords
  <2>1. HexValue[b[i]] \in 0..15
    BY HexValueIs DEF Digits
  <2>2. HexValue[b[i]] \in Word
    BY <2>1, WordSize DEF Word
  <2> QED
    BY <2>2 DEF ReadWords
<1>2. step \in Steps(ReadWords, i, j - 1)
  <2>1. ASSUME NEW k \in (i + 1)..(j - 1), NEW w \in ReadWords
        PROVE  ShiftIn(w, b[k]) \in ReadWords
    BY ShiftInWord DEF Digits
  <2> QED
    BY <2>1 DEF Steps
<1>3. PICK f : Recursive(f, ReadWords, i, j - 1, base, step)
  <2> HIDE DEF base, step
  <2>1. j - 1 \in Int
    OBVIOUS
  <2> QED
    BY <1>1, <1>2, <2>1, Recursion, Zenon
<1>4. Is(f)
  <2>1. ASSUME NEW k \in i..(j - 1), k # i
        PROVE  k - 1 \in i..(j - 1) /\ step[k][f[k - 1]] = ShiftIn(f[k - 1], b[k])
    BY <1>3, <2>1 DEF Recursive
  <2> HIDE DEF step
  <2> QED
    BY <1>3, <2>1 DEF Recursive
<1> DEFINE word == CHOOSE g : Is(g)
<1>5. Is(word)
  BY <1>4
<1>6. Number(b, i, j) = word[j - 1]
  BY DEF Number
<1> HIDE DEF word
<1>7. /\ word[i] = base
      /\ \A k \in (i + 1)..(j - 1) : word[k] = ShiftIn(word[k - 1], b[k])
  BY <1>5
<1> DEFINE T == {n \in Nat : i + n < j => word[i + n] \in ReadWords}
<1>8. Nat \subseteq T
  <2>1. 0 \in T
    BY <1>1, <1>7
  <2>2. ASSUME NEW n \in Nat, n \in T PROVE n + 1 \in T
    <3> SUFFICES ASSUME i + (n + 1) < j PROVE word[i + (n + 1)] \in ReadWords
      OBVIOUS
    <3> DEFINE k == i + (n + 1)
    <3>1. k \in (i + 1)..(j - 1) /\ k \in i..(j - 1) /\ k - 1 = i + n
      OBVIOUS
    <3> HIDE DEF k
    <3>2. word[k] = ShiftIn(word[k - 1], b[k])
      BY <1>7, <3>1
    <3>3. word[k - 1] \in ReadWords /\ b[k] \in HexDigits
      BY <2>2, <3>1 DEF Digits, k
    <3>4. word[k] \in ReadWords
      BY <3>2, <3>3, ShiftInWord
    <3> QED
      BY <3>4 DEF k
  <2> HIDE DEF T
  <2> QED
    BY <2>1, <2>2, NatInductive
<1>9. ASSUME NEW k \in i..(j - 1) PROVE word[k] \in ReadWords
  <2>1. k - i \in Nat /\ i + (k - i) = k
    OBVIOUS
  <2> QED
    BY <1>8, <2>1
<1>10. word \in [i..(j - 1) -> ReadWords]
  BY <1>5, <1>9
<1> QED
  BY <1>6, <1>7, <1>10 DEF WordRun

(* The number its digits stand for, digit by digit.                        *)
TrueRun(t, i, j) ==
  /\ t \in [(i - 1)..j -> Nat]
  /\ t[i - 1] = 0
  /\ \A k \in i..j : t[k] = 16 * t[k - 1] + HexValue[buf[k]]
  /\ TrueNumber(i, j) = t[j]

(* The same for the number they stand for.                                 *)
LEMMA TrueRuns ==
  ASSUME NEW i \in Int, NEW j \in Int, i <= j, Digits(buf, i, j)
  PROVE  \E t : TrueRun(t, i, j)
<1> DEFINE lo == i - 1
           step == [k \in (lo + 1)..j |->
                      [v \in Nat |-> 16 * v + HexValue[buf[k]]]]
           Is(f) == f = [k \in (i - 1)..j |->
                           IF k = i - 1 THEN 0
                                        ELSE 16 * f[k - 1] + HexValue[buf[k]]]
<1>1. ASSUME NEW k \in i..j, NEW v \in Nat PROVE 16 * v + HexValue[buf[k]] \in Nat
  <2>1. HexValue[buf[k]] \in 0..15
    BY HexValueIs DEF Digits
  <2> QED
    BY <2>1
<1>2. step \in Steps(Nat, lo, j)
  <2>1. lo + 1 = i
    OBVIOUS
  <2> QED
    BY <1>1, <2>1 DEF Steps
<1>3. PICK f : Recursive(f, Nat, lo, j, 0, step)
  <2>1. lo \in Int /\ 0 \in Nat
    OBVIOUS
  <2> HIDE DEF lo, step
  <2> QED
    BY <1>2, <2>1, Recursion, Zenon
<1>4. Is(f)
  <2>1. ASSUME NEW k \in (i - 1)..j, k # i - 1
        PROVE  step[k][f[k - 1]] = 16 * f[k - 1] + HexValue[buf[k]]
    <3>1. k \in (lo + 1)..j /\ k - 1 \in lo..j
      BY <2>1
    <3>2. f[k - 1] \in Nat
      BY <1>3, <3>1 DEF Recursive
    <3> QED
      BY <3>1, <3>2
  <2> HIDE DEF step
  <2>2. /\ f \in [(i - 1)..j -> Nat]
        /\ \A k \in (i - 1)..j :
             f[k] = IF k = i - 1 THEN 0 ELSE step[k][f[k - 1]]
    BY <1>3 DEF Recursive
  <2>3. ASSUME NEW k \in (i - 1)..j
        PROVE  f[k] = IF k = i - 1 THEN 0 ELSE 16 * f[k - 1] + HexValue[buf[k]]
    BY <2>1, <2>2
  <2> QED
    BY <2>2, <2>3
<1> DEFINE t == CHOOSE g : Is(g)
<1>5. Is(t)
  BY <1>4
<1>6. TrueNumber(i, j) = t[j]
  BY DEF TrueNumber
<1> HIDE DEF t
<1>7. t[i - 1] = 0 /\ \A k \in i..j : t[k] = 16 * t[k - 1] + HexValue[buf[k]]
  BY <1>5
<1> DEFINE T == {n \in Nat : lo + n <= j => t[lo + n] \in Nat}
<1>8. Nat \subseteq T
  <2>1. 0 \in T
    BY <1>7
  <2>2. ASSUME NEW n \in Nat, n \in T PROVE n + 1 \in T
    <3> SUFFICES ASSUME lo + (n + 1) <= j PROVE t[lo + (n + 1)] \in Nat
      OBVIOUS
    <3> DEFINE k == lo + (n + 1)
    <3>1. k \in i..j /\ k - 1 = lo + n
      OBVIOUS
    <3> HIDE DEF k
    <3>2. t[k - 1] \in Nat
      BY <2>2, <3>1
    <3>3. t[k] \in Nat
      BY <1>1, <1>7, <3>1, <3>2
    <3> QED
      BY <3>3 DEF k
  <2> HIDE DEF T
  <2> QED
    BY <2>1, <2>2, NatInductive
<1>9. ASSUME NEW k \in (i - 1)..j PROVE t[k] \in Nat
  <2> DEFINE n == k - lo
  <2>1. n \in Nat /\ lo + n = k /\ lo + n <= j
    OBVIOUS
  <2>2. n \in T
    BY <1>8, <2>1
  <2> HIDE DEF n, lo
  <2> QED
    BY <2>1, <2>2
<1>10. t \in [(i - 1)..j -> Nat]
  BY <1>5, <1>9
<1> QED
  BY <1>6, <1>7, <1>10 DEF TrueRun

(* While no overflow has been noticed, the word is the number so far or, if*)
(* one went unnoticed, not less than a sixteenth of the largest.           *)
LEMMA NumberExact ==
  ASSUME NEW i \in Int, NEW j \in Int, i < j, Digits(buf, i, j - 1),
         Number(buf, i, j).over = 0
  PROVE  \/ Number(buf, i, j).v = TrueNumber(i, j - 1)
         \/ Number(buf, i, j).v >= TwoTo[W - 4]
<1>1. PICK word : WordRun(word, buf, i, j)
  BY NumberRuns, Zenon
<1>2. PICK t : TrueRun(t, i, j - 1)
  <2>1. j - 1 \in Int /\ i <= j - 1
    OBVIOUS
  <2> QED
    BY <2>1, TrueRuns, Zenon
<1> USE DEF WordRun, TrueRun
<1> DEFINE Exact(k) == word[k].over = 0 =>
                         word[k].v = t[k] \/ word[k].v >= TwoTo[W - 4]
           T == {n \in Nat : i + n < j => Exact(i + n)}
<1>3. 0 \in T
  <2>1. i + 0 = i /\ i \in i..(j - 1)
    OBVIOUS
  <2>2. HexValue[buf[i]] \in 0..15
    BY <2>1, HexValueIs DEF Digits
  <2>3. t[i] = HexValue[buf[i]]
    <3>1. t[i] = 16 * t[i - 1] + HexValue[buf[i]] /\ t[i - 1] = 0
      BY <1>2, <2>1
    <3>2. \A x \in 0..15 : 16 * 0 + x = x
      OBVIOUS
    <3> QED
      BY <2>2, <3>1, <3>2
  <2>4. word[i].v = t[i]
    BY <1>1, <2>3
  <2> QED
    BY <2>1, <2>4
<1>4. ASSUME NEW n \in Nat, n \in T PROVE n + 1 \in T
  <2> SUFFICES ASSUME i + (n + 1) < j PROVE Exact(i + (n + 1))
    OBVIOUS
  <2> DEFINE k == i + (n + 1)
  <2>1. /\ k \in (i + 1)..(j - 1) /\ k \in i..(j - 1)
        /\ k - 1 = i + n /\ k - 1 \in i..(j - 1)
    OBVIOUS
  <2> HIDE DEF k
  <2>2. Exact(k - 1) /\ buf[k] \in HexDigits /\ word[k - 1] \in ReadWords
    <3>1. i + n < j
      OBVIOUS
    <3>2. Exact(i + n)
      BY <1>4, <3>1
    <3>3. buf[k] \in HexDigits
      BY <2>1 DEF Digits
    <3>4. word[k - 1] \in ReadWords
      BY <1>1, <2>1
    <3> HIDE DEF Exact
    <3> QED
      BY <2>1, <3>2, <3>3, <3>4
  <2>3. word[k] = ShiftIn(word[k - 1], buf[k])
    BY <1>1, <2>1
  <2>4. t[k] = 16 * t[k - 1] + HexValue[buf[k]]
    BY <1>2, <2>1
  <2>5. ASSUME word[k].over = 0
        PROVE  /\ word[k - 1].over = 0
               /\ \/ word[k].v = 16 * word[k - 1].v + HexValue[buf[k]]
                  \/ word[k].v >= TwoTo[W - 4]
               /\ word[k - 1].v >= TwoTo[W - 4] => word[k].v >= TwoTo[W - 4]
    BY <2>2, <2>3, <2>5, ShiftInWord
  <2>6. Exact(k)
    BY <2>2, <2>4, <2>5
  <2> QED
    BY <2>6 DEF k
<1>5. Exact(j - 1)
  <2> HIDE DEF Exact
  <2> DEFINE n == j - 1 - i
  <2>1. Nat \subseteq T
    <3> HIDE DEF T
    <3> QED
      BY <1>3, <1>4, NatInductive
  <2>2. n \in Nat /\ i + n = j - 1 /\ i + n < j
    OBVIOUS
  <2>3. n \in T
    BY <2>1, <2>2
  <2> HIDE DEF n
  <2> QED
    BY <2>2, <2>3
<1> QED
  BY <1>1, <1>2, <1>5

(* What parse_hex reads is a word; it is the number its digits stand for,  *)
(* or larger than any buffer.                                              *)
LEMMA HexWord ==
  ASSUME NEW b, NEW i \in Nat, i > 0, NEW h \in ParseHex(b, i), h.ok
  PROVE  /\ h.sig \in Word /\ h.over \in Nat /\ h.next \in Int /\ h.next > i
         /\ h.over = 0 /\ b = buf =>
              h.sig = TrueNumber(i, h.next - 1) \/ h.sig >= TwoTo[W - 4]
<1>1. CASE At(b, i) = "0"
  <2>1. h = [ok |-> TRUE, next |-> i + 1, reads |-> {i}, sig |-> 0, over |-> 0]
    BY <1>1 DEF ParseHex
  <2>2. 0 \in Word
    BY WordSize DEF Word
  <2>3. ASSUME b = buf PROVE TrueNumber(i, i) = 0
    <3>1. buf[i] = "0" /\ Digits(buf, i, i)
      BY <1>1, <2>3 DEF At, Digits, HexDigits
    <3>2. HexValue["0"] = 0
      <4>1. \A k \in 1..16 : HexChars[k] = "0" => k = 1
        BY DEF HexChars
      <4>2. HexChars[1] = "0" /\ "0" \in HexDigits
        BY DEF HexChars, HexDigits
      <4>3. (CHOOSE k \in 1..16 : HexChars[k] = "0") = 1
        BY <4>1, <4>2
      <4> QED
        BY <4>2, <4>3 DEF HexValue
    <3>3. PICK t : TrueRun(t, i, i)
      BY <3>1, TrueRuns
    <3> QED
      BY <3>1, <3>2, <3>3 DEF TrueRun
  <2>4. h.next - 1 = i
    BY <2>1
  <2> QED
    BY <2>1, <2>2, <2>3, <2>4
<1>2. CASE At(b, i) # "0"
  <2>1. At(b, i) \in HexDigits
    BY <1>2 DEF ParseHex, Fail
  <2>2. PICK j \in RunEnds(b, i + 1) :
          \E s \in IF Number(b, i, j).over = 0 THEN {Number(b, i, j).v} ELSE Stale :
            h = [ok |-> TRUE, next |-> j, reads |-> i..j, sig |-> s,
                 over |-> Number(b, i, j).over]
    BY <1>2, <2>1 DEF ParseHex
  <2>3. j \in Int /\ j > i /\ \A k \in (i + 1)..(j - 1) : At(b, k) \in HexDigits
    BY DEF RunEnds
  <2>4. Digits(b, i, j - 1)
    <3>1. ASSUME NEW k \in i..(j - 1) PROVE At(b, k) \in HexDigits
      BY <2>1, <2>3
    <3> QED
      BY <3>1 DEF Digits, At, HexDigits
  <2>5. PICK word : WordRun(word, b, i, j)
    BY <2>3, <2>4, NumberRuns
  <2>6. Number(b, i, j) \in ReadWords
    BY <2>3, <2>5 DEF WordRun
  <2>7. h.sig \in Word /\ h.over \in Nat /\ h.next = j
    BY <2>2, <2>6, LexerAssumption DEF ReadWords
  <2>8. h.over = 0 => h.sig = Number(b, i, j).v /\ Number(b, i, j).over = 0
    BY <2>2
  <2> QED
    BY <2>3, <2>4, <2>7, <2>8, NumberExact
<1> QED
  BY <1>1, <1>2

-------------------------------------------------------------------------------
(* What a success of sipc_next may be, syntax by syntax.                   *)
LEMMA NextCases ==
  ASSUME NEW b, NEW i, NEW e, NEW o \in SipcNext(b, i, e), o.ok
  PROVE  \/ At(b, i) = "NL" /\ o = Found(i + 1, {i}, Value("END", 0, 0, 0))
         \/ /\ At(b, i) = "SP"
            /\ \/ At(b, i + 1) \in {"-", "i"} /\ o \in NextSigned(b, i)
               \/ /\ At(b, i + 1) \in {"T", "F", "[", "]", "{", "}"}
                  /\ o = Found(i + 2, {i, i + 1}, Atom(At(b, i + 1)))
               \/ o = Found(i + 4, Compared(b, i, NanWord), Double(0))
               \/ /\ At(b, i + 1) \notin {"-", "i"}
                  /\ \E h \in ParseHex(b, i + 1) :
                       /\ h.ok
                       /\ o \in NextNumber(b, h, e, {i} \cup h.reads \cup {h.next})
<1>1. \A cursor, looked : Fail(cursor, looked).ok = FALSE
  BY DEF Fail
<1>2. CASE At(b, i) = "NL"
  BY <1>2, Zenon DEF SipcNext
<1>3. CASE At(b, i) \notin {"NL", "SP"}
  <2>1. o = Fail(i, {i})
    BY <1>3, Zenon DEF SipcNext
  <2> QED
    BY <1>1, <2>1
<1>4. CASE At(b, i) = "SP"
  <2>1. At(b, i) # "NL"
    BY <1>4
  <2>2. CASE At(b, i + 1) \in {"-", "i"}
    BY <1>4, <2>1, <2>2, Zenon DEF SipcNext
  <2>3. CASE At(b, i + 1) \in {"T", "F", "[", "]", "{", "}"}
    <3>1. At(b, i + 1) \notin {"-", "i"}
      BY <2>3
    <3> QED
      BY <1>4, <2>1, <2>3, <3>1, Zenon DEF SipcNext
  <2>4. CASE /\ At(b, i + 1) \notin {"-", "i"}
             /\ At(b, i + 1) \notin {"T", "F", "[", "]", "{", "}"}
    BY <1>1, <1>4, <2>1, <2>4, Zenon DEF SipcNext
  <2> QED
    BY <2>2, <2>3, <2>4
<1> QED
  BY <1>2, <1>3, <1>4

(* What it may be after the digits h: a number with an exponent, a string, *)
(* bytes, or the number alone.                                             *)
LEMMA NumberCases ==
  ASSUME NEW b, NEW h, NEW e, NEW seen, NEW o \in NextNumber(b, h, e, seen), o.ok
  PROVE  \/ /\ At(b, h.next) = "p" /\ h.sig % 2 # 0
            /\ \E x \in ParseExponent(b, h.next, h.over) :
                 /\ x.ok
                 /\ o = Found(x.next, seen \cup x.reads,
                              IF Fits(h.sig, x.exp)
                              THEN Value("POSITIVE_INT", 0,
                                         ShiftLeft(h.sig, x.exp), 0)
                              ELSE Double(0))
         \/ /\ At(b, h.next) = ":" /\ ~(h.over > 0)
            /\ o \in SizedString("STRING", h.next + 1, h.sig, e, seen)
         \/ /\ At(b, h.next) = "|" /\ ~(h.over > 0)
            /\ o \in SizedString("BYTES", h.next + 1, h.sig, e, seen)
         \/ /\ At(b, h.next) # "p" /\ ~(h.sig # 0 /\ h.sig % 256 = 0)
            /\ o = Found(h.next, seen, Value("POSITIVE_INT", 0, h.sig, 0))
<1>1. \A cursor, looked : Fail(cursor, looked).ok = FALSE
  BY DEF Fail
<1>2. CASE At(b, h.next) = "p"
  BY <1>1, <1>2, Zenon DEF NextNumber
<1>3. CASE At(b, h.next) = ":"
  <2>1. At(b, h.next) # "p" /\ At(b, h.next) \in {"|", ":"}
    BY <1>3
  <2> QED
    BY <1>1, <1>3, <2>1, Zenon DEF NextNumber
<1>4. CASE At(b, h.next) = "|"
  <2>1. /\ At(b, h.next) # "p" /\ At(b, h.next) \in {"|", ":"}
        /\ At(b, h.next) # ":"
    BY <1>4
  <2> QED
    BY <1>1, <1>4, <2>1, Zenon DEF NextNumber
<1>5. CASE At(b, h.next) # "p" /\ At(b, h.next) \notin {"|", ":"}
  BY <1>1, <1>5, Zenon DEF NextNumber
<1> QED
  BY <1>2, <1>3, <1>4, <1>5

(* No buffer takes up a sixteenth of the address space.                    *)
Short == Terminated(buf) /\ Len(buf) <= TwoTo[W - 4]

(* A word that has overflowed without being noticed is larger than the     *)
(* bytes that are left.                                                    *)
LEMMA SizedExact ==
  ASSUME Short, NEW i \in 1..Len(buf), NEW h \in ParseHex(buf, i), h.ok,
         ~(h.over > 0), NEW type, NEW looked,
         NEW o \in SizedString(type, h.next + 1, h.sig, Len(buf) + 1, looked),
         o.ok
  PROVE  TrueNumber(i, o.value.at - 2) = o.value.n
<1>1. Len(buf) \in Nat /\ i \in Nat /\ i > 0 /\ TwoTo[W - 4] \in Nat
  BY WordSize DEF Short, Terminated
<1>2. /\ h.sig \in Nat /\ h.next \in Int /\ h.next > i
      /\ h.sig = TrueNumber(i, h.next - 1) \/ h.sig >= TwoTo[W - 4]
  BY <1>1, HexWord DEF Word
<1>3. o # Fail(h.next + 1, looked)
  BY DEF Fail
<1>4. /\ h.sig < (Len(buf) + 1) - (h.next + 1)
      /\ o = Found(h.next + 1 + h.sig, looked, Value(type, 0, h.sig, h.next + 1))
  <2> DEFINE j == h.next + 1
             e == Len(buf) + 1
  <2>1. /\ h.sig < e - j
        /\ \E n \in {m \in 0..(e - j - 1) : m = h.sig} :
             o = Found(j + n, looked, Value(type, 0, n, j))
    BY <1>3, Zenon DEF SizedString
  <2>2. PICK n \in {m \in 0..(e - j - 1) : m = h.sig} :
          o = Found(j + n, looked, Value(type, 0, n, j))
    BY <2>1
  <2>3. n = h.sig
    BY <2>2
  <2> QED
    BY <2>1, <2>2, <2>3
<1>5. o.value.n = h.sig /\ o.value.at = h.next + 1
  BY <1>4 DEF Found, Value
<1>6. h.sig < TwoTo[W - 4]
  <2>1. /\ Len(buf) <= TwoTo[W - 4] /\ h.next \in Int /\ h.next > i
        /\ h.sig < (Len(buf) + 1) - (h.next + 1)
    BY <1>2, <1>4 DEF Short
  <2> DEFINE far == h.next
             n == h.sig
             most == TwoTo[W - 4]
  <2>2. /\ most \in Nat /\ n \in Nat /\ far \in Int /\ far > i
        /\ Len(buf) <= most /\ n < (Len(buf) + 1) - (far + 1)
    BY <1>1, <1>2, <2>1, Zenon
  <2> HIDE DEF far, n, most
  <2>3. n < most
    BY <1>1, <2>2
  <2> QED
    BY <2>3 DEF n, most
<1>7. o.value.at - 2 = h.next - 1
  BY <1>2, <1>5
<1>8. h.sig = TrueNumber(i, h.next - 1)
  BY <1>1, <1>2, <1>6
<1> QED
  BY <1>5, <1>7, <1>8

(* The digits of a string that was read at i stand for its length.         *)
LengthIs(i, o) ==
  o.ok /\ o.value.type \in Sized =>
    TrueNumber(i + 1, o.value.at - 2) = o.value.n

(* Of anything but a string there is nothing to show.                      *)
LEMMA ScalarExact ==
  ASSUME NEW i, NEW cursor, NEW looked, NEW type, type \notin Sized,
         NEW neg, NEW n, NEW at
  PROVE  LengthIs(i, Found(cursor, looked, Value(type, neg, n, at)))
BY DEF LengthIs, Found, Value

(* sipc_next.                                                              *)
LEMMA NextExact ==
  ASSUME Short, NEW i \in 1..Len(buf), NEW o \in SipcNext(buf, i, Len(buf) + 1)
  PROVE  LengthIs(i, o)
<1> SUFFICES ASSUME o.ok PROVE LengthIs(i, o)
  BY DEF LengthIs
<1>0. \A type \in {"END", "BOOL", "DOUBLE", "POSITIVE_INT", "NEGATIVE_INT"} :
        type \notin Sized
  BY DEF Sized
<1>1. CASE o = Found(i + 1, {i}, Value("END", 0, 0, 0))
  BY <1>0, <1>1, ScalarExact
<1>2. CASE o \in NextSigned(buf, i)
  <2>1. PICK r : \/ o = Fail(r.next, r.reads)
                 \/ o = Found(r.next, r.reads, Value("DOUBLE", 1, 0, 0))
                 \/ o = Found(r.next, r.reads, Value("NEGATIVE_INT", 1,
                                                   ShiftLeft(r.sig, r.exp), 0))
    BY <1>2, Zenon DEF NextSigned, Double
  <2>2. Fail(r.next, r.reads).ok = FALSE
    BY DEF Fail
  <2> QED
    BY <1>0, <2>1, <2>2, ScalarExact
<1>3. CASE /\ At(buf, i + 1) \in {"T", "F", "[", "]", "{", "}"}
           /\ o = Found(i + 2, {i, i + 1}, Atom(At(buf, i + 1)))
  <2>1. Atom(At(buf, i + 1)).type \notin Sized
    BY <1>3 DEF Atom, Value, Sized
  <2>2. o.value = Atom(At(buf, i + 1))
    BY <1>3 DEF Found
  <2> QED
    BY <2>1, <2>2, Zenon DEF LengthIs
<1>4. CASE o = Found(i + 4, Compared(buf, i, NanWord), Double(0))
  BY <1>0, <1>4, ScalarExact DEF Double
<1>5. ASSUME At(buf, i) = "SP", NEW h \in ParseHex(buf, i + 1), h.ok,
             o \in NextNumber(buf, h, Len(buf) + 1, {i} \cup h.reads \cup {h.next})
      PROVE  LengthIs(i, o)
  <2>1. i + 1 \in 1..Len(buf)
    BY <1>5, AtInside DEF Short
  <2> DEFINE seen == {i} \cup h.reads \cup {h.next}
  <2>2. \/ \E x : \/ o = Found(x.next, seen \cup x.reads,
                               Value("POSITIVE_INT", 0, ShiftLeft(h.sig, x.exp), 0))
                  \/ o = Found(x.next, seen \cup x.reads, Value("DOUBLE", 0, 0, 0))
        \/ o = Found(h.next, seen, Value("POSITIVE_INT", 0, h.sig, 0))
        \/ /\ ~(h.over > 0)
           /\ \E type : o \in SizedString(type, h.next + 1, h.sig,
                                         Len(buf) + 1, seen)
    BY <1>5, NumberCases, ZenonT(30) DEF Double
  <2> HIDE DEF seen
  <2>3. CASE /\ ~(h.over > 0)
             /\ \E type : o \in SizedString(type, h.next + 1, h.sig,
                                         Len(buf) + 1, seen)
    <3>1. TrueNumber(i + 1, o.value.at - 2) = o.value.n
      BY <1>5, <2>1, <2>3, SizedExact
    <3> QED
      BY <3>1, Zenon DEF LengthIs
  <2> QED
    BY <1>0, <2>2, <2>3, ScalarExact, Zenon
<1> QED
  BY <1>1, <1>2, <1>3, <1>4, <1>5, NextCases, Zenon

(* The getters.                                                            *)
LEMMA GetSizedExact ==
  ASSUME Short, NEW i \in 1..Len(buf), NEW type, NEW delim,
         NEW o \in GetSized(buf, i, Len(buf) + 1, type, delim)
  PROVE  LengthIs(i, o)
<1> SUFFICES ASSUME o.ok PROVE LengthIs(i, o)
  BY DEF LengthIs
<1>1. \A cursor, looked : Fail(cursor, looked).ok = FALSE
  BY DEF Fail
<1>2. At(buf, i) = "SP"
  BY <1>1, Zenon DEF GetSized
<1>3. PICK h \in ParseHex(buf, i + 1) :
        /\ h.ok /\ ~(h.over > 0)
        /\ o \in SizedString(type, h.next + 1, h.sig, Len(buf) + 1,
                            {i} \cup h.reads \cup {h.next})
  <2>1. PICK h \in ParseHex(buf, i + 1) :
          o \in IF ~h.ok THEN {Fail(h.next, {i} \cup h.reads)}
                ELSE IF h.over > 0 THEN {Fail(h.next, {i} \cup h.reads)}
                ELSE IF At(buf, h.next) # delim
                THEN {Fail(h.next + 1, {i} \cup h.reads \cup {h.next})}
                ELSE SizedString(type, h.next + 1, h.sig, Len(buf) + 1,
                                 {i} \cup h.reads \cup {h.next})
    BY <1>2, Zenon DEF GetSized
  <2> QED
    BY <1>1, <2>1, Zenon
<1>4. i + 1 \in 1..Len(buf)
  BY <1>2, AtInside DEF Short
<1>5. TrueNumber(i + 1, o.value.at - 2) = o.value.n
  BY <1>3, <1>4, SizedExact
<1> QED
  BY <1>5, Zenon DEF LengthIs

(* Whichever getter is called.                                             *)
LEMMA GetExact ==
  ASSUME Short, NEW i \in 1..Len(buf), NEW kind \in Getters,
         NEW o \in Get(kind, buf, i, Len(buf) + 1)
  PROVE  LengthIs(i, o)
<1>0. /\ \A cursor, looked : Fail(cursor, looked).ok = FALSE
      /\ \A type \in Scalars : type \notin Sized
      /\ "BOOL" \in Scalars /\ "DOUBLE" \in Scalars
      /\ "POSITIVE_INT" \in Scalars /\ "NEGATIVE_INT" \in Scalars
  BY DEF Fail, Sized, Scalars
<1>1. CASE kind \in {"string", "bytes"}
  <2>1. PICK type, delim : o \in GetSized(buf, i, Len(buf) + 1, type, delim)
    BY <1>1 DEF Get
  <2> QED
    BY <2>1, GetSizedExact
<1>2. ASSUME NEW r, \/ ~o.ok
                    \/ o = Fail(r.next, r.reads)
                    \/ \E type \in Scalars : \E neg, n :
                         o = Found(r.next, r.reads, Value(type, neg, n, 0))
      PROVE  LengthIs(i, o)
  <2>1. CASE ~o.ok
    BY <2>1, Zenon DEF LengthIs
  <2>2. CASE o = Fail(r.next, r.reads)
    BY <1>0, <2>1, <2>2, Zenon
  <2>3. ASSUME NEW type \in Scalars, NEW neg, NEW n,
               o = Found(r.next, r.reads, Value(type, neg, n, 0))
        PROVE  LengthIs(i, o)
    BY <1>0, <2>3, ScalarExact
  <2> QED
    BY <1>2, <2>1, <2>2, <2>3
<1>3. CASE kind = "bool"
  <2>1. o \in GetBool(buf, i)
    BY <1>3 DEF Get
  <2>2. \/ \E cursor, looked : o = Fail(cursor, looked)
        \/ /\ At(buf, i + 1) \in {"T", "F"}
           /\ o = Found(i + 2, {i, i + 1}, Atom(At(buf, i + 1)))
    BY <2>1, Zenon DEF GetBool
  <2>3. CASE \E cursor, looked : o = Fail(cursor, looked)
    BY <1>0, <2>3, Zenon DEF LengthIs
  <2>4. CASE /\ At(buf, i + 1) \in {"T", "F"}
             /\ o = Found(i + 2, {i, i + 1}, Atom(At(buf, i + 1)))
    <3>1. Atom(At(buf, i + 1)).type \notin Sized
      BY <2>4 DEF Atom, Value, Sized
    <3>2. o.value = Atom(At(buf, i + 1))
      BY <2>4 DEF Found
    <3> QED
      BY <3>1, <3>2, Zenon DEF LengthIs
  <2> QED
    BY <2>2, <2>3, <2>4
<1>4. CASE kind \in {"int64", "int"}
  <2>1. PICK limit : o \in GetSigned(buf, i, limit)
    BY <1>4 DEF Get
  <2>2. PICK r \in ParseReal(buf, i, TRUE) :
          \/ ~r.ok /\ o = r
          \/ o = Fail(r.next, r.reads)
          \/ \E type \in Scalars : \E neg, n :
               o = Found(r.next, r.reads, Value(type, neg, n, 0))
    BY <1>0, <2>1, Zenon DEF GetSigned
  <2> QED
    BY <1>2, <2>2
<1>5. CASE kind \in {"uint64", "uint"}
  <2>1. PICK limit : o \in GetUnsigned(buf, i, limit)
    BY <1>5 DEF Get
  <2>2. PICK r \in ParseReal(buf, i, FALSE) :
          \/ ~r.ok /\ o = r
          \/ o = Fail(r.next, r.reads)
          \/ \E type \in Scalars : \E neg, n :
               o = Found(r.next, r.reads, Value(type, neg, n, 0))
    BY <1>0, <2>1, Zenon DEF GetUnsigned
  <2> QED
    BY <1>2, <2>2
<1>6. CASE kind = "double"
  <2>1. o \in GetDouble(buf, i)
    BY <1>6 DEF Get
  <2>2. PICK cursor, looked : \/ o = Fail(cursor, looked)
                              \/ \E neg : o = Found(cursor, looked, Double(neg))
    BY <2>1, Zenon DEF GetDouble
  <2>3. CASE o = Fail(cursor, looked)
    BY <1>0, <2>3, Zenon DEF LengthIs
  <2>4. CASE \E neg : o = Found(cursor, looked, Double(neg))
    BY <1>0, <2>4, ScalarExact DEF Double
  <2> QED
    BY <2>2, <2>3, <2>4
<1> QED
  BY <1>1, <1>3, <1>4, <1>5, <1>6 DEF Getters

(* The invariant: what the length has to be compared with stays put.       *)
LenInv == Len(buf) <= TwoTo[W - 4] /\ LengthsExact

(* A value comes from sipc_next or a getter, or is that of a container.    *)
LEMMA LenStep == IInv /\ LenInv /\ [Next]_vars => LenInv'
<1> SUFFICES ASSUME IInv, LenInv, [Next]_vars PROVE LenInv'
  OBVIOUS
<1>1. buf' = buf
  BY Zenon DEF Next, SipcInit, SipcStart, SipcEnd, SipcAny, Scan, SipcGet, Took,
     Done, vars
<1>2. NoValue.type \notin Sized /\ Sized = {"STRING", "BYTES"}
  BY DEF NoValue, Value, Sized
<1>3. \A i, j : TrueNumber(i, j)' = TrueNumber(i, j)
  BY <1>1 DEF TrueNumber
<1> SUFFICES ASSUME pc' = "message", val'.type \in Sized
             PROVE  TrueNumber(from' + 1, val'.at - 2) = val'.n
  BY <1>1, <1>2, <1>3 DEF LenInv, LengthsExact
<1>4. CASE SipcInit \/ SipcStart \/ SipcEnd
  BY <1>2, <1>4 DEF SipcInit, SipcStart, SipcEnd
<1>5. ASSUME pc = "message"
      PROVE  Short /\ next \in 1..Len(buf) /\ End = Len(buf) + 1
  BY <1>5 DEF IInv, Short, LenInv, End
<1>6. CASE SipcAny
  <2>1. PICK o \in SipcNext(buf, next, End) :
          AnyFails(o) \/ AnyEnds(o) \/ AnyValue(o) \/ AnyOpens(o)
    BY <1>6, Zenon DEF SipcAny
  <2>2. o.ok /\ val' = o.value
    BY <2>1 DEF AnyFails, AnyEnds, AnyValue, AnyOpens, Leaves
  <2>3. pc = "message" /\ from' = next
    BY <1>6 DEF SipcAny
  <2>4. LengthIs(next, o)
    BY <1>5, <2>3, NextExact
  <2> QED
    BY <2>2, <2>3, <2>4 DEF LengthIs
<1>7. CASE \E kind \in Getters : SipcGet(kind)
  <2>0. PICK kind \in Getters : SipcGet(kind)
    BY <1>7
  <2>1. PICK o \in Get(kind, buf, next, End) :
          /\ pc = "message" /\ from' = next
          /\ GetFails(o) \/ GetValue(o)
    BY <2>0, Zenon DEF SipcGet
  <2>2. o.ok /\ val' = o.value
    BY <2>1 DEF GetFails, GetValue, Leaves
  <2>3. LengthIs(next, o)
    BY <1>5, <2>1, GetExact
  <2> QED
    BY <2>1, <2>2, <2>3 DEF LengthIs
<1>8. CASE Scan
  <2>1. pc = "scan" /\ val = Value(val.type, 0, 0, val.at) /\ val.type \in Openers
    BY <1>8 DEF Scan, IInv, ScanView
  <2>2. val.type \notin Sized
    BY <2>1 DEF Openers, Sized
  <2>3. PICK o : ScanFails(o) \/ ScanOpens(o) \/ ScanCloses(o) \/ ScanSkips(o)
    BY <1>8, Zenon DEF Scan
  <2>4. val'.type = val.type
    <3>1. CASE ScanCloses(o)
      <4>1. val' = [val EXCEPT !.n = o.next - 2 - val.at] \/ val' = val
        BY <3>1, Zenon DEF ScanCloses
      <4>2. [val EXCEPT !.n = o.next - 2 - val.at].type = val.type
        BY <2>1 DEF Value
      <4> QED
        BY <4>1, <4>2
    <3> QED
      BY <2>1, <2>3, <3>1 DEF ScanFails, ScanOpens, ScanSkips, Leaves
  <2> QED
    BY <2>2, <2>4
<1>9. CASE UNCHANGED vars
  BY <1>9 DEF vars, LenInv, LengthsExact, Sized
<1> QED
  BY <1>4, <1>6, <1>7, <1>8, <1>9 DEF Next, Done

(* A string is as long as its digits say: a length that wraps around in    *)
(* parse_hex unnoticed is larger than the bytes left (ipc.c:112, 365, 500).*)
THEOREM ParserLengthsExact == Spec => []LengthsExact
<1>1. Init => LenInv
  BY ParserAssumption DEF Init, LenInv, LengthsExact
<1>2. IInv /\ IInv' /\ LenInv /\ [Next]_vars => LenInv'
  BY LenStep
<1>3. LenInv => LengthsExact
  BY DEF LenInv
<1> QED
  BY <1>1, <1>2, <1>3, SpecInv, PTL DEF Spec

-------------------------------------------------------------------------------
(* The exponent is an integer, whatever the digits.                        *)
LEMMA ExponentInt ==
  ASSUME NEW b, NEW i \in Nat, NEW overflow \in Nat,
         NEW x \in ParseExponent(b, i, overflow), x.ok
  PROVE  x.exp \in Int
<1> DEFINE neg == At(b, i + 1) = "-"
           k   == IF neg THEN i + 2 ELSE i + 1
<1>1. k \in Nat /\ k > 0
  OBVIOUS
<1>2. PICK h \in ParseHex(b, k) :
        h.ok /\ x.exp = Exponent(neg, h.sig, h.over, overflow)
  <2>1. PICK h \in ParseHex(b, k) :
          x = IF h.ok
              THEN [ok |-> TRUE, next |-> h.next, reads |-> {i, i + 1} \cup h.reads,
                    exp |-> Exponent(neg, h.sig, h.over, overflow)]
              ELSE Fail(h.next, {i, i + 1} \cup h.reads)
    BY Zenon DEF ParseExponent
  <2>2. Fail(h.next, {i, i + 1} \cup h.reads).ok = FALSE
    BY DEF Fail
  <2>3. h.ok
    BY <2>1, <2>2, Zenon
  <2>4. x = [ok |-> TRUE, next |-> h.next, reads |-> {i, i + 1} \cup h.reads,
             exp |-> Exponent(neg, h.sig, h.over, overflow)]
    BY <2>1, <2>3, Zenon
  <2>5. x.exp = Exponent(neg, h.sig, h.over, overflow)
    BY <2>4
  <2> QED
    BY <2>3, <2>5
<1> HIDE DEF k
<1>3. h.sig \in Nat
  BY <1>1, <1>2, HexWord DEF Word
<1> DEFINE sum == (h.sig + overflow) % TwoTo[W]
<1>4. sum \in Int /\ -sum \in Int
  <2>1. TwoTo[W] \in Nat /\ TwoTo[W] > 0 /\ h.sig + overflow \in Nat
    BY <1>3, WordSize
  <2> QED
    BY <2>1
<1>5. IntMax \in Int /\ -IntMax - 1 \in Int
  BY LexerAssumption
<1>6. Exponent(neg, h.sig, h.over, overflow) \in {sum, -sum, IntMax, -IntMax - 1}
  <2> HIDE DEF neg
  <2> QED
    BY Zenon DEF Exponent
<1> QED
  BY <1>2, <1>4, <1>5, <1>6

(* parse_real reads "inf", or the significand that parse_hex does.         *)
LEMMA RealCases ==
  ASSUME NEW b, NEW i \in Nat, i > 0, NEW signed \in BOOLEAN,
         NEW r \in ParseReal(b, i, signed), r.ok
  PROVE  /\ r.neg = (signed /\ At(b, i + 1) = "-")
         /\ LET k == IF signed /\ At(b, i + 1) = "-" THEN i + 2 ELSE i + 1
            IN  \/ Spells(b, k, InfWord) /\ r.sig = 1 /\ r.exp = IntMax
                \/ At(b, k) \in HexDigits
         /\ r.sig \in Word /\ r.exp \in Int
<1> DEFINE neg  == signed /\ At(b, i + 1) = "-"
           k    == IF neg THEN i + 2 ELSE i + 1
           seen == {i, i + 1} \cup Compared(b, k, InfWord)
<1>0. \A cursor, looked : Fail(cursor, looked).ok = FALSE
  BY DEF Fail
<1>a. k \in Nat /\ k > 0
  OBVIOUS
<1>1. At(b, i) = "SP"
  BY <1>0, Zenon DEF ParseReal
<1>2. CASE Spells(b, k, InfWord)
  <2>1. r = [ok |-> TRUE, next |-> k + 3, reads |-> seen,
             neg |-> neg, sig |-> 1, exp |-> IntMax]
    BY <1>1, <1>2, Zenon DEF ParseReal
  <2>2. r.neg = neg /\ r.sig = 1 /\ r.exp = IntMax
    BY <2>1
  <2>3. 1 \in Word /\ IntMax \in Int
    BY WordSize, LexerAssumption DEF Word
  <2> QED
    BY <1>2, <2>2, <2>3, Zenon
<1>3. CASE ~Spells(b, k, InfWord)
  <2>1. PICK h \in ParseHex(b, k) :
          r \in IF h.ok
                THEN RealAfter(b, neg, h, seen \cup h.reads \cup {h.next})
                ELSE {Fail(h.next, seen \cup h.reads)}
    BY <1>1, <1>3, Zenon DEF ParseReal
  <2>2. h.ok
    BY <1>0, <2>1, Zenon
  <2>3. r \in RealAfter(b, neg, h, seen \cup h.reads \cup {h.next})
    BY <2>1, <2>2, Zenon
  <2>4. At(b, k) \in HexDigits
    <3>1. At(b, k) = "0" => At(b, k) \in HexDigits
      BY DEF HexDigits
    <3> QED
      BY <1>0, <2>2, <3>1, Zenon DEF ParseHex
  <2> HIDE DEF k, neg, seen
  <2>5. h.sig \in Word /\ h.over \in Nat /\ h.next \in Nat
    <3>1. h.sig \in Word /\ h.over \in Nat /\ h.next \in Int /\ h.next > k
      BY <1>a, <2>2, HexWord
    <3> QED
      BY <1>a, <3>1
  <2>6. r.neg = neg /\ r.sig = h.sig /\ r.exp \in Int
    <3>1. CASE At(b, h.next) = "p"
      <4>1. PICK x \in ParseExponent(b, h.next, h.over) :
              /\ x.ok
              /\ r = [ok |-> TRUE, next |-> x.next,
                      reads |-> seen \cup h.reads \cup {h.next} \cup x.reads,
                      neg |-> neg, sig |-> h.sig, exp |-> x.exp]
        BY <1>0, <2>3, <3>1, Zenon DEF RealAfter
      <4>2. x.exp \in Int
        BY <2>5, <4>1, ExponentInt
      <4>3. r.neg = neg /\ r.sig = h.sig /\ r.exp = x.exp
        BY <4>1
      <4> QED
        BY <4>2, <4>3
    <3>2. CASE At(b, h.next) # "p"
      <4> DEFINE looked == seen \cup h.reads \cup {h.next}
      <4>1. \/ r = Fail(h.next, looked)
            \/ r = [ok |-> TRUE, next |-> h.next, reads |-> looked,
                    neg |-> neg, sig |-> h.sig, exp |-> 0]
        BY <2>3, <3>2, Zenon DEF RealAfter
      <4>2. r # Fail(h.next, looked)
        BY <1>0, Zenon
      <4> HIDE DEF looked
      <4> QED
        BY <4>1, <4>2
    <3> QED
      BY <3>1, <3>2
  <2> QED
    BY <2>4, <2>5, <2>6, Zenon DEF k, neg
<1> QED
  BY <1>2, <1>3

(* The shift of a word that fits is a word; a shift by nothing fits.       *)
LEMMA FitsShift ==
  ASSUME NEW sig \in Word, NEW exp \in Int, exp = 0 \/ Fits(sig, exp)
  PROVE  Fits(sig, exp) /\ ShiftLeft(sig, exp) \in Word
<1>1. LeadingZeros(sig) \in 0..W /\ W \in Nat
  BY LeadingZerosIs, LexerAssumption
<1> DEFINE zeros == LeadingZeros(sig)
<1>2. Fits(sig, exp) <=> exp >= 0 /\ exp <= zeros
  BY DEF Fits
<1>3. zeros \in 0..W
  BY <1>1
<1> HIDE DEF zeros
<1>4. Fits(sig, exp) /\ exp \in 0..W
  BY <1>1, <1>2, <1>3
<1>5. sig \in Nat
  BY DEF Word
<1> QED
  BY <1>4, <1>5, ShiftLeftWord

(* What sipc_next reads as a negative integer, sipc_int64 does too, down to*)
(* the lowest one.                                                         *)
LEMMA SignedAgrees ==
  ASSUME NEW b, NEW i \in Nat, i > 0, At(b, i + 1) \in {"-", "i"},
         NEW o \in NextSigned(b, i), o.ok, o.value.type = "NEGATIVE_INT",
         o.value.n <= TwoTo[W - 1]
  PROVE  Same(o, GetSigned(b, i, TwoTo[W - 1]))
<1>0. /\ \A cursor, looked : Fail(cursor, looked).ok = FALSE
      /\ \A neg : Double(neg).type = "DOUBLE"
      /\ \A cursor, looked, v :
           /\ Found(cursor, looked, v).ok = TRUE
           /\ Found(cursor, looked, v).next = cursor
           /\ Found(cursor, looked, v).value = v
  BY DEF Fail, Double, Value, Found
<1>1. PICK r \in ParseReal(b, i, TRUE) :
        o = IF ~r.ok THEN Fail(r.next, r.reads)
            ELSE Found(r.next, r.reads,
                       IF r.exp # 0 /\ ~Fits(r.sig, r.exp)
                       THEN Double(1)
                       ELSE Value("NEGATIVE_INT", 1,
                                  ShiftLeft(r.sig, r.exp), 0))
  BY Zenon DEF NextSigned
<1>2. r.ok
  BY <1>0, <1>1, Zenon
<1> DEFINE n == ShiftLeft(r.sig, r.exp)
<1>3. /\ r.exp = 0 \/ Fits(r.sig, r.exp)
      /\ o = Found(r.next, r.reads, Value("NEGATIVE_INT", 1, n, 0))
  <2> DEFINE v == IF r.exp # 0 /\ ~Fits(r.sig, r.exp)
                  THEN Double(1) ELSE Value("NEGATIVE_INT", 1, n, 0)
  <2>1. o = Found(r.next, r.reads, v)
    BY <1>1, <1>2, Zenon
  <2>2. v.type = "NEGATIVE_INT"
    <3> HIDE DEF v
    <3> QED
      BY <2>1 DEF Found
  <2> HIDE DEF n
  <2>3. r.exp = 0 \/ Fits(r.sig, r.exp)
    BY <2>2 DEF Double, Value
  <2> QED
    BY <2>1, <2>3, Zenon
<1>4. r.sig \in Word /\ r.exp \in Int
  BY <1>2, RealCases
<1>5. Fits(r.sig, r.exp) /\ n \in Word
  BY <1>3, <1>4, FitsShift
<1>6. r.neg
  <2>1. CASE At(b, i + 1) = "-"
    BY <1>2, <2>1, RealCases
  <2>2. CASE At(b, i + 1) = "i"
    <3>1. /\ At(b, i + 1) # "-" /\ At(b, i + 1) \notin HexDigits
      BY <2>2 DEF HexDigits
    <3>2. r.sig = 1 /\ r.exp = IntMax
      BY <1>2, <3>1, RealCases
    <3>3. IntMax <= LeadingZeros(1)
      BY <1>5, <3>2 DEF Fits
    <3> DEFINE zeros == LeadingZeros(1)
    <3>4. zeros < W /\ IntMax >= W /\ zeros \in 0..W /\ W \in Nat /\ IntMax \in Nat
          /\ IntMax <= zeros
      BY <3>3, LeadingZerosOne, LeadingZerosIs, LexerAssumption
    <3> HIDE DEF zeros
    <3> QED
      BY <3>4
  <2> QED
    BY <2>1, <2>2
<1>7. ~(n > TwoTo[W - 1])
  <2>1. o.value.n = n
    BY <1>3 DEF Found, Value
  <2>2. n \in Nat /\ TwoTo[W - 1] \in Nat
    BY <1>5, WordSize DEF Word
  <2> HIDE DEF n
  <2> QED
    BY <2>1, <2>2
<1> HIDE DEF n
<1> DEFINE g == Found(r.next, r.reads, Value("NEGATIVE_INT", Sign(r.neg), n, 0))
<1>8. g \in GetSigned(b, i, TwoTo[W - 1])
  BY <1>2, <1>5, <1>6, <1>7, Zenon DEF GetSigned, n
<1>9. g = o
  BY <1>3, <1>6 DEF Sign
<1> QED
  BY <1>0, <1>3, <1>8, <1>9, Zenon DEF Same

(* A number that does not start with a sign is read alike by sipc_next and *)
(* by parse_real, with or without a sign to come.                          *)
LEMMA NumberAgrees ==
  ASSUME NEW b, NEW i \in Nat, i > 0, NEW e, At(b, i) = "SP",
         At(b, i + 1) \notin {"-", "i"}, NEW h \in ParseHex(b, i + 1), h.ok,
         NEW seen, NEW o \in NextNumber(b, h, e, seen), o.ok,
         o.value.type = "POSITIVE_INT", NEW signed \in BOOLEAN
  PROVE  \E r \in ParseReal(b, i, signed) :
           /\ r.ok /\ r.next = o.next /\ ~r.neg
           /\ r.exp \in Nat /\ Fits(r.sig, r.exp) /\ ShiftLeft(r.sig, r.exp) \in Word
           /\ o.value = Value("POSITIVE_INT", 0, ShiftLeft(r.sig, r.exp), 0)
<1> DEFINE look == {i, i + 1} \cup Compared(b, i + 1, InfWord)
                   \cup h.reads \cup {h.next}
<1>1. ~(signed /\ At(b, i + 1) = "-") /\ ~Spells(b, i + 1, InfWord)
  <2>1. At(b, i + 1) # "-" /\ At(b, i + 1) # "i"
    OBVIOUS
  <2>2. Len(InfWord) = 3 /\ InfWord[1] = "i"
    BY DEF InfWord
  <2>3. ASSUME Spells(b, i + 1, InfWord) PROVE FALSE
    <3>1. 1 \in 1..Len(InfWord) /\ (i + 1) + 1 - 1 = i + 1
      BY <2>2
    <3>2. At(b, (i + 1) + 1 - 1) = InfWord[1]
      BY <2>3, <3>1 DEF Spells
    <3> QED
      BY <2>1, <2>2, <3>1, <3>2
  <2> QED
    BY <2>1, <2>3
<1>2. ASSUME NEW r, r \in RealAfter(b, FALSE, h, look)
      PROVE  r \in ParseReal(b, i, signed)
  <2>1. (signed /\ At(b, i + 1) = "-") = FALSE
    BY <1>1
  <2> QED
    BY <1>1, <1>2, <2>1, Zenon DEF ParseReal
<1> HIDE DEF look
<1>3. h.sig \in Word /\ h.over \in Nat /\ h.next \in Nat
  <2>1. i + 1 \in Nat /\ i + 1 > 0
    OBVIOUS
  <2>2. h.sig \in Word /\ h.over \in Nat /\ h.next \in Int /\ h.next > i + 1
    BY <2>1, HexWord
  <2> QED
    BY <2>1, <2>2
<1>4. ASSUME NEW cursor, NEW looked, NEW exp \in Int, exp = 0 \/ Fits(h.sig, exp),
             [ok |-> TRUE, next |-> cursor, reads |-> looked, neg |-> FALSE,
              sig |-> h.sig, exp |-> exp] \in RealAfter(b, FALSE, h, look),
             o.next = cursor,
             o.value = Value("POSITIVE_INT", 0, ShiftLeft(h.sig, exp), 0)
      PROVE  \E r \in ParseReal(b, i, signed) :
               /\ r.ok /\ r.next = o.next /\ ~r.neg
               /\ r.exp \in Nat /\ Fits(r.sig, r.exp)
               /\ ShiftLeft(r.sig, r.exp) \in Word
               /\ o.value = Value("POSITIVE_INT", 0, ShiftLeft(r.sig, r.exp), 0)
  <2> DEFINE r == [ok |-> TRUE, next |-> cursor, reads |-> looked, neg |-> FALSE,
                   sig |-> h.sig, exp |-> exp]
  <2>1. r.ok /\ r.next = cursor /\ ~r.neg /\ r.sig = h.sig /\ r.exp = exp
    OBVIOUS
  <2>2. r \in ParseReal(b, i, signed)
    BY <1>2, <1>4
  <2> HIDE DEF r
  <2>3. Fits(h.sig, exp) /\ ShiftLeft(h.sig, exp) \in Word
    BY <1>3, <1>4, FitsShift
  <2>4. exp \in Nat
    BY <2>3 DEF Fits
  <2> QED
    BY <1>4, <2>1, <2>2, <2>3, <2>4
<1>5. ASSUME At(b, h.next) = "p", h.sig % 2 # 0,
             NEW x \in ParseExponent(b, h.next, h.over), x.ok,
             o = Found(x.next, seen \cup x.reads,
                       IF Fits(h.sig, x.exp)
                       THEN Value("POSITIVE_INT", 0, ShiftLeft(h.sig, x.exp), 0)
                       ELSE Double(0))
      PROVE  /\ x.exp \in Int /\ Fits(h.sig, x.exp)
             /\ [ok |-> TRUE, next |-> x.next, reads |-> look \cup x.reads,
                 neg |-> FALSE, sig |-> h.sig, exp |-> x.exp]
                  \in RealAfter(b, FALSE, h, look)
             /\ o.next = x.next
             /\ o.value = Value("POSITIVE_INT", 0, ShiftLeft(h.sig, x.exp), 0)
  <2>1. x.exp \in Int
    BY <1>3, <1>5, ExponentInt
  <2>2. /\ o.next = x.next
        /\ o.value = IF Fits(h.sig, x.exp)
                     THEN Value("POSITIVE_INT", 0, ShiftLeft(h.sig, x.exp), 0)
                     ELSE Double(0)
    BY <1>5 DEF Found
  <2>3. Fits(h.sig, x.exp)
    <3>1. Double(0).type = "DOUBLE"
      BY DEF Double, Value
    <3> QED
      BY <2>2, <3>1
  <2>4. [ok |-> TRUE, next |-> x.next, reads |-> look \cup x.reads,
         neg |-> FALSE, sig |-> h.sig, exp |-> x.exp]
          \in RealAfter(b, FALSE, h, look)
    BY <1>5, Zenon DEF RealAfter
  <2> QED
    BY <2>1, <2>2, <2>3, <2>4
<1>6. CASE /\ At(b, h.next) # "p" /\ ~(h.sig # 0 /\ h.sig % 256 = 0)
           /\ o = Found(h.next, seen, Value("POSITIVE_INT", 0, h.sig, 0))
  <2>1. ShiftLeft(h.sig, 0) = h.sig
    BY <1>3, ShiftLeftZero
  <2>2. o.next = h.next /\ o.value = Value("POSITIVE_INT", 0, h.sig, 0)
    BY <1>6 DEF Found
  <2>3. [ok |-> TRUE, next |-> h.next, reads |-> look,
         neg |-> FALSE, sig |-> h.sig, exp |-> 0]
          \in RealAfter(b, FALSE, h, look)
    <3>1. ~(IF h.sig = 0 THEN FALSE ELSE h.sig % 256 = 0)
      BY <1>6
    <3> QED
      BY <1>6, <3>1, Zenon DEF RealAfter
  <2>4. 0 \in Int /\ 0 = 0
    OBVIOUS
  <2>5. o.value = Value("POSITIVE_INT", 0, ShiftLeft(h.sig, 0), 0)
    BY <2>1, <2>2
  <2> QED
    BY <1>4, <2>2, <2>3, <2>4, <2>5
<1>7. ASSUME NEW type \in Sized, o \in SizedString(type, h.next + 1, h.sig, e, seen)
      PROVE  FALSE
  <2>1. \/ o = Fail(h.next + 1, seen)
        \/ \E cursor, n : o = Found(cursor, seen, Value(type, 0, n, h.next + 1))
    BY <1>7, Zenon DEF SizedString
  <2>2. o.value.type = type
    BY <2>1 DEF Fail, Found, Value
  <2> QED
    BY <1>7, <2>2 DEF Sized
<1>8. \/ /\ At(b, h.next) = "p" /\ h.sig % 2 # 0
         /\ \E x \in ParseExponent(b, h.next, h.over) :
              /\ x.ok
              /\ o = Found(x.next, seen \cup x.reads,
                           IF Fits(h.sig, x.exp)
                           THEN Value("POSITIVE_INT", 0,
                                      ShiftLeft(h.sig, x.exp), 0)
                           ELSE Double(0))
      \/ o \in SizedString("STRING", h.next + 1, h.sig, e, seen)
      \/ o \in SizedString("BYTES", h.next + 1, h.sig, e, seen)
      \/ /\ At(b, h.next) # "p" /\ ~(h.sig # 0 /\ h.sig % 256 = 0)
         /\ o = Found(h.next, seen, Value("POSITIVE_INT", 0, h.sig, 0))
  BY NumberCases, ZenonT(30)
<1>9. CASE /\ At(b, h.next) = "p" /\ h.sig % 2 # 0
           /\ \E x \in ParseExponent(b, h.next, h.over) :
                /\ x.ok
                /\ o = Found(x.next, seen \cup x.reads,
                             IF Fits(h.sig, x.exp)
                             THEN Value("POSITIVE_INT", 0,
                                        ShiftLeft(h.sig, x.exp), 0)
                             ELSE Double(0))
  <2>1. PICK x \in ParseExponent(b, h.next, h.over) :
          /\ x.ok
          /\ o = Found(x.next, seen \cup x.reads,
                       IF Fits(h.sig, x.exp)
                       THEN Value("POSITIVE_INT", 0, ShiftLeft(h.sig, x.exp), 0)
                       ELSE Double(0))
    BY <1>9
  <2>2. /\ x.exp \in Int /\ Fits(h.sig, x.exp)
        /\ [ok |-> TRUE, next |-> x.next, reads |-> look \cup x.reads,
            neg |-> FALSE, sig |-> h.sig, exp |-> x.exp]
             \in RealAfter(b, FALSE, h, look)
        /\ o.next = x.next
        /\ o.value = Value("POSITIVE_INT", 0, ShiftLeft(h.sig, x.exp), 0)
    BY <1>5, <1>9, <2>1
  <2> QED
    BY <1>4, <2>2
<1>10. "STRING" \in Sized /\ "BYTES" \in Sized
  BY DEF Sized
<1> QED
  BY <1>6, <1>7, <1>8, <1>9, <1>10

(* The two readings of every value agree.                                  *)
LEMMA AnyAgrees ==
  ASSUME NEW b, NEW i \in Nat, i > 0, NEW e,
         NEW o \in SipcNext(b, i, e), o.ok
  PROVE  /\ o.value.type = "BOOL" => Same(o, Get("bool", b, i, e))
         /\ o.value.type = "STRING" => Same(o, Get("string", b, i, e))
         /\ o.value.type = "BYTES" => Same(o, Get("bytes", b, i, e))
         /\ o.value.type = "POSITIVE_INT" =>
              /\ Same(o, Get("uint64", b, i, e))
              /\ o.value.n < TwoTo[W - 1] => Same(o, Get("int64", b, i, e))
         /\ o.value.type = "NEGATIVE_INT" /\ o.value.n <= TwoTo[W - 1] =>
              Same(o, Get("int64", b, i, e))
<1> DEFINE seen(h) == {i} \cup h.reads \cup {h.next}
           Agrees == /\ o.value.type = "BOOL" => Same(o, GetBool(b, i))
                     /\ o.value.type = "STRING" =>
                          Same(o, GetSized(b, i, e, "STRING", ":"))
                     /\ o.value.type = "BYTES" =>
                          Same(o, GetSized(b, i, e, "BYTES", "|"))
                     /\ o.value.type = "POSITIVE_INT" =>
                          /\ Same(o, GetUnsigned(b, i, TwoTo[W] - 1))
                          /\ o.value.n < TwoTo[W - 1] =>
                               Same(o, GetSigned(b, i, TwoTo[W - 1]))
                     /\ /\ o.value.type = "NEGATIVE_INT"
                        /\ o.value.n <= TwoTo[W - 1]
                        => Same(o, GetSigned(b, i, TwoTo[W - 1]))
<1>0. SUFFICES Agrees
  BY DEF Get
<1>1. ASSUME NEW outcomes, o \in outcomes PROVE Same(o, outcomes)
  BY <1>1, Zenon DEF Same
<1>2. ASSUME NEW cursor, NEW looked, NEW type, NEW neg, NEW n, NEW at,
             o = Found(cursor, looked, Value(type, neg, n, at)),
             type \notin {"BOOL", "STRING", "BYTES", "POSITIVE_INT", "NEGATIVE_INT"}
      PROVE  Agrees
  <2>1. o.value.type = type
    BY <1>2 DEF Found, Value
  <2> QED
    BY <1>2, <2>1
<1>3. CASE o = Found(i + 1, {i}, Value("END", 0, 0, 0))
  BY <1>2, <1>3
<1>4. CASE At(b, i + 1) \in {"-", "i"} /\ o \in NextSigned(b, i)
  <2>1. PICK r : \/ o = Fail(r.next, r.reads)
                 \/ o = Found(r.next, r.reads, Value("DOUBLE", 1, 0, 0))
                 \/ o = Found(r.next, r.reads, Value("NEGATIVE_INT", 1,
                                                   ShiftLeft(r.sig, r.exp), 0))
    BY <1>4, Zenon DEF NextSigned, Double
  <2>2. o # Fail(r.next, r.reads)
    BY DEF Fail
  <2>3. CASE o = Found(r.next, r.reads, Value("DOUBLE", 1, 0, 0))
    BY <1>2, <2>3
  <2>4. CASE o = Found(r.next, r.reads, Value("NEGATIVE_INT", 1,
                                              ShiftLeft(r.sig, r.exp), 0))
    <3>1. o.value.type = "NEGATIVE_INT"
      BY <2>4 DEF Found, Value
    <3> QED
      BY <1>4, <3>1, SignedAgrees
  <2> QED
    BY <2>1, <2>2, <2>3, <2>4
<1>5. CASE /\ At(b, i) = "SP" /\ At(b, i + 1) \in {"T", "F", "[", "]", "{", "}"}
           /\ o = Found(i + 2, {i, i + 1}, Atom(At(b, i + 1)))
  <2>1. CASE At(b, i + 1) \in {"T", "F"}
    <3>1. o \in GetBool(b, i)
      BY <1>5, <2>1, Zenon DEF GetBool
    <3>2. o.value.type = "BOOL"
      BY <1>5, <2>1 DEF Found, Atom, Value
    <3> QED
      BY <1>1, <3>1, <3>2
  <2>2. CASE At(b, i + 1) \notin {"T", "F"}
    <3>1. Atom(At(b, i + 1)).type \in Brackets
      BY <1>5, <2>2 DEF Atom, Value, Brackets
    <3>2. o.value = Atom(At(b, i + 1))
      BY <1>5 DEF Found
    <3> QED
      BY <3>1, <3>2 DEF Brackets
  <2> QED
    BY <2>1, <2>2
<1>6. CASE o = Found(i + 4, Compared(b, i, NanWord), Double(0))
  BY <1>2, <1>6 DEF Double
<1>7. ASSUME At(b, i) = "SP", At(b, i + 1) \notin {"-", "i"},
             NEW h \in ParseHex(b, i + 1), h.ok, o \in NextNumber(b, h, e, seen(h))
      PROVE  Agrees
  <2>1. ASSUME o.value.type = "POSITIVE_INT", NEW signed \in BOOLEAN
        PROVE  \E r \in ParseReal(b, i, signed) :
                 /\ r.ok /\ r.next = o.next /\ ~r.neg
                 /\ r.exp \in Nat /\ Fits(r.sig, r.exp)
                 /\ ShiftLeft(r.sig, r.exp) \in Word
                 /\ o.value = Value("POSITIVE_INT", 0, ShiftLeft(r.sig, r.exp), 0)
    BY <1>7, <2>1, NumberAgrees
  <2>2. ASSUME o.value.type = "POSITIVE_INT"
        PROVE  Same(o, GetUnsigned(b, i, TwoTo[W] - 1))
    <3>1. PICK r \in ParseReal(b, i, FALSE) :
            /\ r.ok /\ r.next = o.next /\ ~r.neg
            /\ r.exp \in Nat /\ Fits(r.sig, r.exp)
            /\ ShiftLeft(r.sig, r.exp) \in Word
            /\ o.value = Value("POSITIVE_INT", 0, ShiftLeft(r.sig, r.exp), 0)
      BY <2>1, <2>2
    <3> DEFINE n == ShiftLeft(r.sig, r.exp)
               g == Found(r.next, r.reads, Value("POSITIVE_INT", 0, n, 0))
    <3>2. ~(r.exp < 0) /\ ~(n > TwoTo[W] - 1)
      <4> HIDE DEF n
      <4>1. n \in Word /\ TwoTo[W] \in Nat
        BY <3>1, WordSize DEF n
      <4>2. ~(n > TwoTo[W] - 1)
        BY <4>1 DEF Word
      <4> QED
        BY <3>1, <4>2 DEF Fits
    <3>3. g \in GetUnsigned(b, i, TwoTo[W] - 1)
      BY <3>1, <3>2, Zenon DEF GetUnsigned
    <3>4. g.ok /\ g.next = o.next /\ g.value = o.value
      BY <3>1 DEF Found
    <3> HIDE DEF g
    <3> QED
      BY <3>3, <3>4, Zenon DEF Same
  <2>3. ASSUME o.value.type = "POSITIVE_INT", o.value.n < TwoTo[W - 1]
        PROVE  Same(o, GetSigned(b, i, TwoTo[W - 1]))
    <3>1. PICK r \in ParseReal(b, i, TRUE) :
            /\ r.ok /\ r.next = o.next /\ ~r.neg
            /\ r.exp \in Nat /\ Fits(r.sig, r.exp)
            /\ ShiftLeft(r.sig, r.exp) \in Word
            /\ o.value = Value("POSITIVE_INT", 0, ShiftLeft(r.sig, r.exp), 0)
      BY <2>1, <2>3
    <3> DEFINE n == ShiftLeft(r.sig, r.exp)
               g == Found(r.next, r.reads, Value("POSITIVE_INT", Sign(r.neg), n, 0))
    <3>2. ~(n > TwoTo[W - 1] - 1)
      <4> HIDE DEF n
      <4>1. n \in Word /\ TwoTo[W] \in Nat /\ TwoTo[W - 1] \in Nat
        BY <3>1, WordSize DEF n
      <4>2. o.value.n = n
        BY <3>1 DEF Value, n
      <4> QED
        BY <2>3, <4>1, <4>2 DEF Word
    <3>3. g \in GetSigned(b, i, TwoTo[W - 1])
      BY <3>1, <3>2, Zenon DEF GetSigned
    <3>4. g.ok /\ g.next = o.next /\ g.value = o.value
      BY <3>1 DEF Found, Sign
    <3> HIDE DEF g
    <3> QED
      BY <3>3, <3>4, Zenon DEF Same
  <2>4. ASSUME NEW type, NEW delim, At(b, h.next) = delim, ~(h.over > 0),
               o \in SizedString(type, h.next + 1, h.sig, e, seen(h))
        PROVE  /\ o.value.type = type
               /\ Same(o, GetSized(b, i, e, type, delim))
    <3>1. \/ o = Fail(h.next + 1, seen(h))
          \/ \E cursor, n : o = Found(cursor, seen(h), Value(type, 0, n, h.next + 1))
      BY <2>4, Zenon DEF SizedString
    <3>2. o.value.type = type
      BY <3>1 DEF Fail, Found, Value
    <3>3. o \in GetSized(b, i, e, type, delim)
      BY <1>7, <2>4, Zenon DEF GetSized
    <3> QED
      BY <1>1, <3>2, <3>3
  <2> DEFINE read == seen(h)
  <2>5. \/ \E x : \/ o = Found(x.next, read \cup x.reads,
                               Value("POSITIVE_INT", 0, ShiftLeft(h.sig, x.exp), 0))
                  \/ o = Found(x.next, read \cup x.reads, Value("DOUBLE", 0, 0, 0))
        \/ /\ At(b, h.next) = ":" /\ ~(h.over > 0)
           /\ o \in SizedString("STRING", h.next + 1, h.sig, e, read)
        \/ /\ At(b, h.next) = "|" /\ ~(h.over > 0)
           /\ o \in SizedString("BYTES", h.next + 1, h.sig, e, read)
        \/ o = Found(h.next, read, Value("POSITIVE_INT", 0, h.sig, 0))
    BY <1>7, NumberCases, Zenon DEF Double
  <2>6. ASSUME NEW cursor, NEW looked, NEW n,
               o = Found(cursor, looked, Value("POSITIVE_INT", 0, n, 0))
        PROVE  Agrees
    <3>1. o.value.type = "POSITIVE_INT"
      BY <2>6 DEF Found, Value
    <3> QED
      BY <2>2, <2>3, <3>1
  <2>7. CASE /\ At(b, h.next) = ":" /\ ~(h.over > 0)
             /\ o \in SizedString("STRING", h.next + 1, h.sig, e, read)
    <3>1. o.value.type = "STRING" /\ Same(o, GetSized(b, i, e, "STRING", ":"))
      BY <2>4, <2>7
    <3> QED
      BY <3>1
  <2>8. CASE /\ At(b, h.next) = "|" /\ ~(h.over > 0)
             /\ o \in SizedString("BYTES", h.next + 1, h.sig, e, read)
    <3>1. o.value.type = "BYTES" /\ Same(o, GetSized(b, i, e, "BYTES", "|"))
      BY <2>4, <2>8
    <3> QED
      BY <3>1
  <2>9. ASSUME NEW cursor, NEW looked,
               o = Found(cursor, looked, Value("DOUBLE", 0, 0, 0))
        PROVE  Agrees
    BY <1>2, <2>9
  <2> HIDE DEF read, Agrees
  <2> QED
    BY <2>5, <2>6, <2>7, <2>8, <2>9, Zenon
<1> HIDE DEF Agrees, seen
<1>8. \/ o = Found(i + 1, {i}, Value("END", 0, 0, 0))
      \/ At(b, i + 1) \in {"-", "i"} /\ o \in NextSigned(b, i)
      \/ /\ At(b, i) = "SP" /\ At(b, i + 1) \in {"T", "F", "[", "]", "{", "}"}
         /\ o = Found(i + 2, {i, i + 1}, Atom(At(b, i + 1)))
      \/ o = Found(i + 4, Compared(b, i, NanWord), Double(0))
      \/ /\ At(b, i) = "SP" /\ At(b, i + 1) \notin {"-", "i"}
         /\ \E h \in ParseHex(b, i + 1) :
              h.ok /\ o \in NextNumber(b, h, e, seen(h))
  BY NextCases, Zenon DEF seen
<1> QED
  BY <1>3, <1>4, <1>5, <1>6, <1>7, <1>8, Zenon

(* What sipc_any makes of a token is what the getter of its type returns,  *)
(* with the cursor at the same place (ipc.c:223-404 and 406-514).          *)
THEOREM ParserAnyAgreesWithGetters == Spec => []AnyAgreesWithGetters
<1>1. IInv => AnyAgreesWithGetters
  <2> SUFFICES ASSUME IInv, pc = "message",
                      NEW o \in SipcNext(buf, next, End), o.ok
               PROVE  LET Read(kind) == Same(o, Get(kind, buf, next, End))
                      IN  CASE o.value.type = "BOOL"   -> Read("bool")
                            [] o.value.type = "STRING" -> Read("string")
                            [] o.value.type = "BYTES"  -> Read("bytes")
                            [] o.value.type = "POSITIVE_INT" ->
                                 /\ Read("uint64")
                                 /\ o.value.n < TwoTo[W - 1] => Read("int64")
                            [] o.value.type = "NEGATIVE_INT" ->
                                 o.value.n <= TwoTo[W - 1] => Read("int64")
                            [] OTHER -> TRUE
    BY DEF AnyAgreesWithGetters
  <2>1. next \in Nat /\ next > 0
    BY DEF IInv
  <2> QED
    BY <2>1, AnyAgrees
<1> QED
  BY <1>1, SpecInv, PTL

-------------------------------------------------------------------------------
(* Words as digits: division by powers of two, the digits that the formatter *)
(* writes and the value that the lexer reads from them.                    *)

(* The division with remainder has one result.                             *)
LEMMA DivUnique ==
  ASSUME NEW x \in Nat, NEW m \in Nat, m > 0, NEW q \in Int, NEW r \in 0..(m - 1),
         x = m * q + r
  PROVE  x \div m = q /\ x % m = r
<1> DEFINE q2 == x \div m
           r2 == x % m
<1>1. q2 \in Int /\ r2 \in 0..(m - 1) /\ x = m * q2 + r2
  <2>1. \A y, n \in Nat : n > 0 => /\ y \div n \in Int /\ y % n \in 0..(n - 1)
                                   /\ y = n * (y \div n) + (y % n)
    OBVIOUS
  <2> QED
    BY <2>1, Zenon
<1> HIDE DEF q2, r2
<1>2. \A d \in Int : d >= 1 => m * d >= m
  OBVIOUS
<1>3. /\ m * (q - q2) = r2 - r /\ m * (q2 - q) = r - r2
      /\ q - q2 \in Int /\ q2 - q \in Int
  BY <1>1
<1>4. ~(q - q2 >= 1) /\ ~(q2 - q >= 1)
  BY <1>1, <1>2, <1>3
<1>5. q = q2
  BY <1>1, <1>4
<1> QED
  BY <1>1, <1>3, <1>5 DEF q2, r2

(* Division rounds down.                                                   *)
LEMMA DivIs ==
  ASSUME NEW x \in Nat, NEW m \in Nat, m > 0
  PROVE  /\ x \div m \in Nat /\ x % m \in 0..(m - 1)
         /\ x = m * (x \div m) + (x % m)
<1>1. \A y, n \in Nat : n > 0 => /\ y \div n \in Nat /\ y % n \in 0..(n - 1)
                                 /\ y = n * (y \div n) + (y % n)
  OBVIOUS
<1> QED
  BY <1>1, Zenon

(* The digits in front of the last one are what is left when it is taken   *)
(* off.                                                                    *)
LEMMA DivNested ==
  ASSUME NEW x \in Nat, NEW m \in Nat, m > 0
  PROVE  x \div m = 16 * (x \div (16 * m)) + ((x \div m) % 16)
<1> DEFINE q == x \div m
           r == x % m
           a == q \div 16
           d == q % 16
<1>1. q \in Nat /\ r \in 0..(m - 1) /\ x = m * q + r
  BY DivIs
<1> HIDE DEF q, r
<1>2. a \in Nat /\ d \in 0..15 /\ q = 16 * a + d
  BY <1>1
<1> HIDE DEF a, d
<1> DEFINE s == m * d + r
<1>3. s \in 0..(16 * m - 1)
  <2>1. m * d \in Nat /\ m * d <= m * 15
    BY <1>2
  <2> QED
    BY <1>1, <2>1
<1>4. x = (16 * m) * a + s
  <2>1. m * q = m * (16 * a) + m * d
    BY <1>1, <1>2
  <2>2. m * (16 * a) = (16 * m) * a
    BY <1>2
  <2>3. m * d \in Nat /\ (16 * m) * a \in Nat
    BY <1>2
  <2> QED
    BY <1>1, <2>1, <2>2, <2>3
<1> HIDE DEF s
<1>5. x \div (16 * m) = a
  <2>1. 16 * m \in Nat /\ 16 * m > 0 /\ a \in Int
    BY <1>2
  <2> QED
    BY <1>3, <1>4, <2>1, DivUnique
<1> QED
  BY <1>2, <1>5 DEF q, a, d

(* The powers of two multiply.                                             *)
LEMMA TwoToSum ==
  ASSUME NEW m \in Nat, NEW n \in Nat, m + n <= W
  PROVE  TwoTo[m + n] = TwoTo[m] * TwoTo[n]
<1>1. W \in Nat
  BY LexerAssumption
<1> DEFINE T == {k \in Nat : k + n <= W => TwoTo[k + n] = TwoTo[k] * TwoTo[n]}
<1>2. 0 \in T
  <2>1. n \in 0..W /\ 0 + n = n
    BY <1>1
  <2>2. TwoTo[0] = 1 /\ TwoTo[n] \in Nat
    BY <2>1, TwoToIs
  <2> QED
    BY <2>1, <2>2
<1>3. ASSUME NEW k \in Nat, k \in T PROVE k + 1 \in T
  <2> SUFFICES ASSUME k + 1 + n <= W
               PROVE  TwoTo[k + 1 + n] = TwoTo[k + 1] * TwoTo[n]
    OBVIOUS
  <2>1. /\ k + 1 \in 1..W /\ k + 1 + n \in 1..W /\ k + n \in 0..W /\ k \in 0..W
        /\ n \in 0..W /\ k + 1 - 1 = k /\ k + 1 + n - 1 = k + n
    BY <1>1
  <2>2. TwoTo[k + 1] = 2 * TwoTo[k] /\ TwoTo[k + 1 + n] = 2 * TwoTo[k + n]
    BY <2>1, TwoToIs
  <2>3. TwoTo[k + n] = TwoTo[k] * TwoTo[n]
    BY <1>1, <1>3
  <2>4. TwoTo[k] \in Nat /\ TwoTo[n] \in Nat
    BY <2>1, TwoToIs
  <2> QED
    BY <2>2, <2>3, <2>4
<1>4. m \in T
  <2> HIDE DEF T
  <2> QED
    BY <1>2, <1>3, NatInductive
<1> QED
  BY <1>4

(* A higher power is twice as large at least.                              *)
LEMMA TwoToLess ==
  ASSUME NEW m \in Nat, NEW n \in Nat, m < n, n <= W
  PROVE  2 * TwoTo[m] <= TwoTo[n]
<1> DEFINE d == n - m
<1>1. d \in Nat /\ m + d = n /\ d \in 1..W /\ d - 1 \in 0..W /\ m \in 0..W
  BY LexerAssumption
<1> HIDE DEF d
<1>2. TwoTo[n] = TwoTo[m] * TwoTo[d]
  BY <1>1, TwoToSum
<1>3. TwoTo[d] = 2 * TwoTo[d - 1] /\ TwoTo[d - 1] \in Nat /\ TwoTo[d - 1] > 0
  BY <1>1, TwoToIs
<1>4. TwoTo[m] \in Nat
  BY <1>1, TwoToIs
<1>5. \A x, y \in Nat : y > 0 => x * (2 * y) >= 2 * x
  OBVIOUS
<1> QED
  BY <1>2, <1>3, <1>4, <1>5

(* The bits of a word up to its highest one.                               *)
LEMMA LeadingZerosBound ==
  ASSUME NEW v \in Word, v > 0
  PROVE  \E m \in 1..W : /\ LeadingZeros(v) = W - m
                         /\ TwoTo[m - 1] <= v /\ v < TwoTo[m]
<1> DEFINE S == {n \in Nat : n <= W /\ v < TwoTo[n]}
           m == Min(S)
           K == {k \in 0..(W - 1) : v >= TwoTo[k]}
<1>1. W \in Nat /\ v \in Nat /\ v < TwoTo[W] /\ TwoTo[0] = 1
  BY WordSize, TwoToIs DEF Word
<1>2. W \in S
  BY <1>1
<1>3. m \in S /\ \A n \in S : m <= n
  <2> HIDE DEF S
  <2>1. S \in SUBSET Nat
    BY DEF S
  <2> QED
    BY <1>2, <2>1, MinIsLowest
<1> HIDE DEF m
<1>4. m \in 1..W /\ v < TwoTo[m]
  BY <1>1, <1>3
<1>5. TwoTo[m - 1] <= v
  <2>1. m - 1 \in Nat /\ m - 1 <= W /\ m - 1 \notin S
    BY <1>1, <1>3, <1>4
  <2>2. TwoTo[m - 1] \in Nat
    BY <2>1, TwoToIs
  <2> QED
    BY <1>1, <2>1, <2>2
<1>6. ASSUME NEW k \in 0..(W - 1) PROVE v >= TwoTo[k] <=> k <= m - 1
  <2>1. /\ k \in 0..W /\ m \in 0..W /\ m - 1 \in 0..W
        /\ TwoTo[k] \in Nat /\ TwoTo[m] \in Nat /\ TwoTo[m - 1] \in Nat
    BY <1>1, <1>4, TwoToIs
  <2>2. CASE k < m - 1
    BY <1>1, <1>5, <2>1, <2>2, TwoToLess
  <2>3. CASE k = m - 1
    BY <1>5, <2>3
  <2>4. CASE k = m
    BY <1>1, <1>4, <2>1, <2>4
  <2>5. CASE k > m
    BY <1>1, <1>4, <2>1, <2>5, TwoToLess
  <2> QED
    BY <1>4, <2>2, <2>3, <2>4, <2>5
<1>7. K = 0..(m - 1)
  <2>1. \A k \in 0..(m - 1) : k \in 0..(W - 1)
    BY <1>1, <1>4
  <2> QED
    BY <1>4, <1>6, <2>1
<1>8. Cardinality(0..(m - 1)) = m
  BY <1>4, FS_Interval
<1> QED
  BY <1>4, <1>5, <1>7, <1>8 DEF LeadingZeros

(* The sixteen digits are different.                                       *)
LEMMA HexCharsBack ==
  ASSUME NEW d \in 0..15
  PROVE  /\ HexChars[d + 1] \in HexDigits /\ HexValue[HexChars[d + 1]] = d
         /\ HexChars[d + 1] = "0" <=> d = 0
<1>1. \A j, k \in 1..16 : HexChars[j] = HexChars[k] => j = k
  BY DEF HexChars
<1>2. \A k \in 1..16 : HexChars[k] \in HexDigits
  BY DEF HexChars, HexDigits
<1>3. d + 1 \in 1..16 /\ HexChars[1] = "0" /\ 1 \in 1..16
  BY DEF HexChars
<1> DEFINE m == CHOOSE k \in 1..16 : HexChars[k] = HexChars[d + 1]
<1>4. m = d + 1
  BY <1>1, <1>3
<1>5. HexValue[HexChars[d + 1]] = d
  <2>1. HexValue[HexChars[d + 1]] = m - 1
    BY <1>2, <1>3, Zenon DEF HexValue
  <2> HIDE DEF m
  <2> QED
    BY <1>4, <2>1
<1>6. HexChars[d + 1] = "0" <=> d + 1 = 1
  BY <1>1, <1>3
<1> QED
  BY <1>2, <1>3, <1>5, <1>6

(* As many digits as a word needs.                                         *)
Needs(v, n) ==
  /\ n \in Nat /\ n >= 1 /\ 4 * n <= W
  /\ v < TwoTo[4 * n]
  /\ IF v = 0 THEN n = 1 ELSE v >= TwoTo[4 * (n - 1)]

(* format_hex writes as many digits as the word needs.                     *)
LEMMA HexInIs ==
  ASSUME NEW v \in Word
  PROVE  \E n \in Nat : Needs(v, n) /\ FormatHex(v) = LastDigits(v, n)
<1> DEFINE q == W \div 4
<1>1. W \in Nat /\ W >= 12 /\ W = 4 * q /\ q \in Nat
  BY LexerAssumption, RealAssumption
<1>2. v \in Nat
  BY DEF Word
<1>3. CASE v = 0
  <2>1. 0 < TwoTo[4 * 1]
    BY WordSize
  <2>2. FormatHex(v) = LastDigits(v, 1)
    BY <1>1, <1>3 DEF FormatHex, HexIn, WordRoom
  <2> QED
    BY <1>1, <1>3, <2>1, <2>2 DEF Needs
<1>4. CASE v # 0
  <2>1. PICK m \in 1..W : /\ LeadingZeros(v) = W - m
                          /\ TwoTo[m - 1] <= v /\ v < TwoTo[m]
    BY <1>2, <1>4, LeadingZerosBound
  <2> DEFINE z == (W - m) \div 4
             n == q - z
  <2>2. z \in Nat /\ 4 * z <= W - m /\ W - m < 4 * z + 4
    BY <1>1
  <2>3. FormatHex(v) = LastDigits(v, n)
    BY <1>1, <1>4, <2>1, <2>2 DEF FormatHex, HexIn, WordRoom
  <2> HIDE DEF z, q
  <2>4. /\ n \in Nat /\ n >= 1 /\ 4 * n <= W /\ m <= 4 * n /\ 4 * (n - 1) <= m - 1
        /\ 4 * n \in 0..W /\ 4 * (n - 1) \in 0..W /\ m \in 0..W /\ m - 1 \in 0..W
    BY <1>1, <2>2
  <2> HIDE DEF n
  <2>5. /\ TwoTo[4 * n] \in Nat /\ TwoTo[4 * (n - 1)] \in Nat
        /\ TwoTo[m] \in Nat /\ TwoTo[m - 1] \in Nat
    BY <2>4, TwoToIs
  <2>6. TwoTo[m] <= TwoTo[4 * n] /\ TwoTo[4 * (n - 1)] <= TwoTo[m - 1]
    BY <2>4, <2>5, TwoToLess
  <2>7. v < TwoTo[4 * n] /\ v >= TwoTo[4 * (n - 1)]
    BY <1>2, <2>1, <2>5, <2>6
  <2> QED
    BY <1>4, <2>3, <2>4, <2>7 DEF Needs
<1> QED
  BY <1>3, <1>4

(* The first k of the n digits of v.                                       *)
Prefix(v, n, k) == v \div TwoTo[4 * (n - k)]

LEMMA PrefixIs ==
  ASSUME NEW v \in Word, NEW n \in Nat, Needs(v, n)
  PROVE  /\ \A k \in 1..n : /\ Prefix(v, n, k) \in Nat
                            /\ Prefix(v, n, k) % 16 \in 0..15
         /\ \A k \in 1..(n - 1) : Prefix(v, n, k) < TwoTo[W - 4]
         /\ \A k \in 2..n : Prefix(v, n, k) = 16 * Prefix(v, n, k - 1)
                                              + (Prefix(v, n, k) % 16)
         /\ Prefix(v, n, n) = v
         /\ Prefix(v, n, 1) \in 0..15
         /\ v # 0 => Prefix(v, n, 1) # 0
<1> DEFINE T(k) == TwoTo[4 * (n - k)]
           p(k) == Prefix(v, n, k)
<1>1. W \in Nat /\ W >= 12 /\ v \in Nat /\ v < TwoTo[W] /\ TwoTo[4] = 16
      /\ n >= 1 /\ 4 * n <= W
  BY WordSize DEF Word, Needs
<1>2. ASSUME NEW k \in 0..n PROVE T(k) \in Nat /\ T(k) > 0
  <2>1. 4 * (n - k) \in 0..W
    BY <1>1
  <2> QED
    BY <2>1, TwoToIs
<1>3. ASSUME NEW k \in 1..n PROVE T(k - 1) = 16 * T(k)
  <2>1. /\ 4 * (n - k) \in Nat /\ 4 * (n - (k - 1)) = 4 + 4 * (n - k)
        /\ 4 + 4 * (n - k) <= W
    BY <1>1
  <2>2. TwoTo[4 + 4 * (n - k)] = TwoTo[4] * TwoTo[4 * (n - k)]
    BY <2>1, TwoToSum
  <2> QED
    BY <1>1, <2>1, <2>2
<1>4. ASSUME NEW k \in 1..n
      PROVE  /\ p(k) \in Nat /\ v = T(k) * p(k) + (v % T(k))
             /\ v % T(k) \in 0..(T(k) - 1) /\ p(k) % 16 \in 0..15
  <2>1. T(k) \in Nat /\ T(k) > 0
    BY <1>2
  <2>2. /\ v \div T(k) \in Nat /\ v = T(k) * (v \div T(k)) + (v % T(k))
        /\ v % T(k) \in 0..(T(k) - 1)
    BY <1>1, <2>1, DivIs
  <2>3. p(k) = v \div T(k)
    BY DEF Prefix
  <2> HIDE DEF T, p
  <2>4. p(k) % 16 \in 0..15
    BY <2>2, <2>3
  <2> QED
    BY <2>2, <2>3, <2>4
<1>5. ASSUME NEW k \in 2..n PROVE p(k) = 16 * p(k - 1) + (p(k) % 16)
  <2>1. k \in 1..n /\ T(k) \in Nat /\ T(k) > 0 /\ T(k - 1) = 16 * T(k)
    BY <1>2, <1>3
  <2>2. v \div T(k) = 16 * (v \div (16 * T(k))) + ((v \div T(k)) % 16)
    BY <1>1, <2>1, DivNested
  <2>3. p(k) = v \div T(k) /\ p(k - 1) = v \div T(k - 1)
    BY DEF Prefix
  <2> HIDE DEF T, p
  <2> QED
    BY <2>1, <2>2, <2>3
<1>6. p(n) = v
  <2>1. n - n = 0 /\ 4 * 0 = 0
    OBVIOUS
  <2>2. p(n) = v \div 1
    BY <2>1, TwoToIs DEF Prefix
  <2> QED
    BY <1>1, <2>2
<1>7. ASSUME NEW k \in 1..n PROVE p(k) <= v
  <2>1. T(k) \in Nat /\ T(k) >= 1 /\ p(k) \in Nat
    BY <1>2, <1>4
  <2>2. v >= T(k) * p(k)
    BY <1>1, <1>4, <2>1
  <2> HIDE DEF T, p
  <2>3. T(k) * p(k) >= p(k)
    BY <2>1
  <2> QED
    BY <1>1, <2>1, <2>2, <2>3
<1>8. ASSUME NEW k \in 1..(n - 1) PROVE p(k) < TwoTo[W - 4]
  <2>1. k + 1 \in 2..n /\ k + 1 \in 1..n /\ (k + 1) - 1 = k /\ k \in 1..n
    BY <1>1
  <2>2. p(k + 1) = 16 * p(k) + (p(k + 1) % 16) /\ p(k + 1) <= v
    BY <1>5, <1>7, <2>1
  <2>3. p(k) \in Nat /\ p(k + 1) \in Nat /\ p(k + 1) % 16 \in 0..15
    BY <1>4, <2>1
  <2>4. TwoTo[W - 4] \in Nat /\ v < 16 * TwoTo[W - 4]
    BY <1>1, WordSize
  <2> HIDE DEF p
  <2> QED
    BY <1>1, <2>2, <2>3, <2>4
<1>9. p(1) \in 0..15 /\ (v # 0 => p(1) # 0)
  <2>1. 1 \in 1..n /\ 1 - 1 = 0 /\ n - 0 = n
    BY <1>1
  <2>2. /\ T(1) \in Nat /\ T(1) > 0 /\ p(1) \in Nat
        /\ v = T(1) * p(1) + (v % T(1)) /\ v % T(1) \in 0..(T(1) - 1)
    BY <1>2, <1>4, <2>1
  <2>3. v < 16 * T(1) /\ (v # 0 => v >= T(1))
    BY <1>3, <2>1 DEF Needs
  <2> HIDE DEF T, p
  <2>4. p(1) >= 16 => T(1) * p(1) >= 16 * T(1)
    BY <2>2
  <2>5. p(1) = 0 => T(1) * p(1) = 0
    BY <2>2
  <2>6. T(1) * p(1) \in Nat
    BY <2>2
  <2>7. p(1) < 16 /\ (v # 0 => p(1) # 0)
    BY <1>1, <2>2, <2>3, <2>4, <2>5, <2>6
  <2>8. p(1) \in Nat
    BY <2>2
  <2> QED
    BY <2>7, <2>8
<1> QED
  BY <1>4, <1>5, <1>6, <1>8, <1>9

(* What format_hex writes are digits; the first one is "0" for 0 alone.    *)
LEMMA LastDigitsAre ==
  ASSUME NEW v \in Word, NEW n \in Nat, Needs(v, n)
  PROVE  /\ LastDigits(v, n) \in Seq(HexDigits) /\ Len(LastDigits(v, n)) = n
         /\ \A k \in 1..n : /\ LastDigits(v, n)[k] \in HexDigits
                            /\ HexValue[LastDigits(v, n)[k]] = Prefix(v, n, k) % 16
         /\ LastDigits(v, n)[1] = "0" <=> v = 0
<1>1. ASSUME NEW k \in 1..n
      PROVE  /\ LastDigits(v, n)[k] = HexChars[(Prefix(v, n, k) % 16) + 1]
             /\ Prefix(v, n, k) % 16 \in 0..15
  BY PrefixIs DEF LastDigits, Prefix
<1>2. \A k \in 1..n : /\ LastDigits(v, n)[k] \in HexDigits
                      /\ HexValue[LastDigits(v, n)[k]] = Prefix(v, n, k) % 16
                      /\ LastDigits(v, n)[k] = "0" <=> Prefix(v, n, k) % 16 = 0
  BY <1>1, HexCharsBack
<1>3. LastDigits(v, n)[1] = "0" <=> v = 0
  <2>1. 1 \in 1..n
    BY DEF Needs
  <2>2. v = 0 => n = 1
    BY DEF Needs
  <2>3. Prefix(v, n, 1) \in 0..15 /\ (v # 0 => Prefix(v, n, 1) # 0)
        /\ Prefix(v, n, n) = v
    BY PrefixIs
  <2>4. \A x \in 0..15 : x % 16 = x
    OBVIOUS
  <2>5. Prefix(v, n, 1) % 16 = 0 <=> v = 0
    BY <2>2, <2>3, <2>4
  <2> QED
    BY <1>2, <2>1, <2>5
<1>4. LastDigits(v, n) \in [1..n -> HexDigits]
  <2>1. LastDigits(v, n) = [k \in 1..n |-> LastDigits(v, n)[k]]
    BY DEF LastDigits
  <2> QED
    BY <1>2, <2>1
<1>5. LastDigits(v, n) \in Seq(HexDigits) /\ Len(LastDigits(v, n)) = n
  BY <1>4
<1> QED
  BY <1>2, <1>3, <1>5

(* A digit is shifted into a word that has room for it.                    *)
LEMMA ShiftInExact ==
  ASSUME NEW p \in Nat, p < TwoTo[W - 4], NEW c \in HexDigits
  PROVE  ShiftIn([v |-> p, over |-> 0], c) = [v |-> 16 * p + HexValue[c], over |-> 0]
<1>1. TwoTo[W - 4] \in Nat /\ TwoTo[W] = 16 * TwoTo[W - 4]
  BY WordSize
<1>2. p \in Word
  BY <1>1 DEF Word
<1>3. ShiftLeft(p, 4) = 16 * p
  BY <1>2, ShiftLeftDigit
<1>4. ~(16 * p < p) /\ ~(0 > 0)
  OBVIOUS
<1> DEFINE word == [v |-> p, over |-> 0]
<1>5. word.v = p /\ word.over = 0 /\ [word EXCEPT !.v = 16 * p + HexValue[c]]
                                     = [v |-> 16 * p + HexValue[c], over |-> 0]
  OBVIOUS
<1> QED
  BY <1>3, <1>4, <1>5 DEF ShiftIn

(* The loop of parse_hex takes the digits of a word together again.        *)
LEMMA NumberBack ==
  ASSUME NEW b, NEW i \in Int, NEW v \in Word, NEW n \in Nat, Needs(v, n),
         \A k \in 1..n : b[i + k - 1] = LastDigits(v, n)[k]
  PROVE  Number(b, i, i + n) = [v |-> v, over |-> 0]
<1> DEFINE d(k) == LastDigits(v, n)[k]
<1>1. n >= 1 /\ i + n \in Int /\ i < i + n /\ 1 \in 1..n
  BY DEF Needs
<1>2. \A k \in 1..n : d(k) \in HexDigits /\ HexValue[d(k)] = Prefix(v, n, k) % 16
  BY LastDigitsAre
<1>3. Digits(b, i, i + n - 1)
  <2> SUFFICES ASSUME NEW k \in i..(i + n - 1) PROVE b[k] \in HexDigits
    BY DEF Digits
  <2>1. k - i + 1 \in 1..n /\ i + (k - i + 1) - 1 = k
    BY <1>1
  <2> QED
    BY <1>2, <2>1
<1>4. PICK word : WordRun(word, b, i, i + n)
  <2> DEFINE j == i + n
  <2>1. j \in Int /\ i < j /\ Digits(b, i, j - 1)
    BY <1>1, <1>3
  <2> HIDE DEF j
  <2>2. \E word : WordRun(word, b, i, j)
    BY <2>1, NumberRuns, Zenon
  <2> QED
    BY <2>2 DEF j
<1> DEFINE Read(m) == [v |-> Prefix(v, n, m), over |-> 0]
           T == {m \in Nat : m + 1 <= n => word[i + m] = Read(m + 1)}
<1>5. 0 \in T
  <2>1. b[i] = d(1)
    <3>1. i + 1 - 1 = i
      OBVIOUS
    <3> QED
      BY <1>1, <3>1
  <2>2. Prefix(v, n, 1) \in 0..15 /\ \A x \in 0..15 : x % 16 = x
    BY PrefixIs
  <2>3. HexValue[b[i]] = Prefix(v, n, 1)
    BY <1>1, <1>2, <2>1, <2>2
  <2>4. word[i] = [v |-> HexValue[b[i]], over |-> 0]
    BY <1>4 DEF WordRun
  <2>5. i + 0 = i /\ 0 + 1 = 1
    OBVIOUS
  <2> QED
    BY <2>3, <2>4, <2>5
<1>6. ASSUME NEW m \in Nat, m \in T PROVE m + 1 \in T
  <2> SUFFICES ASSUME m + 1 + 1 <= n PROVE word[i + (m + 1)] = Read(m + 1 + 1)
    OBVIOUS
  <2> DEFINE k == m + 2
  <2>1. /\ k \in 1..n /\ k \in 2..n /\ m + 1 \in 1..(n - 1) /\ m + 1 \in 1..n
        /\ k - 1 = m + 1 /\ m + 1 + 1 = k /\ m + 1 <= n
        /\ i + (m + 1) \in (i + 1)..(i + n - 1)
        /\ i + (m + 1) - 1 = i + m /\ i + (m + 1) = i + k - 1
    OBVIOUS
  <2> HIDE DEF k
  <2>2. word[i + m] = [v |-> Prefix(v, n, m + 1), over |-> 0]
    BY <1>6, <2>1
  <2>3. word[i + (m + 1)] = ShiftIn(word[i + m], b[i + (m + 1)])
    <3> DEFINE l == i + (m + 1)
    <3>1. l \in (i + 1)..(i + n - 1) /\ l - 1 = i + m
      BY <2>1
    <3> HIDE DEF l
    <3>2. word[l] = ShiftIn(word[l - 1], b[l])
      BY <1>4, <3>1 DEF WordRun
    <3> QED
      BY <3>1, <3>2 DEF l
  <2>4. b[i + (m + 1)] = d(k)
    BY <2>1
  <2>5. /\ Prefix(v, n, m + 1) \in Nat /\ Prefix(v, n, m + 1) < TwoTo[W - 4]
        /\ Prefix(v, n, k) = 16 * Prefix(v, n, m + 1) + (Prefix(v, n, k) % 16)
    BY <2>1, PrefixIs
  <2>6. d(k) \in HexDigits /\ HexValue[d(k)] = Prefix(v, n, k) % 16
    BY <1>2, <2>1
  <2> HIDE DEF d
  <2>7. ShiftIn([v |-> Prefix(v, n, m + 1), over |-> 0], d(k))
        = [v |-> 16 * Prefix(v, n, m + 1) + HexValue[d(k)], over |-> 0]
    BY <2>5, <2>6, ShiftInExact
  <2>8. 16 * Prefix(v, n, m + 1) + HexValue[d(k)] = Prefix(v, n, k)
    BY <2>5, <2>6
  <2> QED
    BY <2>1, <2>2, <2>3, <2>4, <2>7, <2>8
<1>7. word[i + (n - 1)] = Read(n)
  <2> DEFINE m == n - 1
  <2>1. Nat \subseteq T
    <3> HIDE DEF T
    <3> QED
      BY <1>5, <1>6, NatInductive
  <2>2. m \in Nat /\ m + 1 <= n /\ m + 1 = n
    BY <1>1
  <2>3. m \in T
    BY <2>1, <2>2
  <2> HIDE DEF m
  <2>4. word[i + m] = Read(m + 1)
    BY <2>2, <2>3
  <2> QED
    BY <2>2, <2>4 DEF m
<1>8. Prefix(v, n, n) = v
  BY PrefixIs
<1>9. Number(b, i, i + n) = word[i + (n - 1)]
  <2>1. i + n - 1 = i + (n - 1)
    BY <1>1
  <2> QED
    BY <1>4, <2>1 DEF WordRun
<1> QED
  BY <1>7, <1>8, <1>9

(* A text stands at i in b, and what follows it is not a digit.            *)
StandsAt(b, i, t) ==
  /\ Spells(b, i, t)
  /\ At(b, i + Len(t)) \notin HexDigits

(* parse_hex reads what format_hex has written.                            *)
HexRead(b, i, v) ==
  /\ At(b, i) \in HexDigits
  /\ \E looked : ParseHex(b, i) =
       {[ok |-> TRUE, next |-> i + Len(FormatHex(v)), reads |-> looked,
         sig |-> v, over |-> 0]}

LEMMA HexBack ==
  ASSUME NEW b, Len(b) \in Nat, NEW i \in Nat, i > 0, NEW v \in Word,
         StandsAt(b, i, FormatHex(v))
  PROVE  HexRead(b, i, v)
<1>1. PICK n \in Nat : Needs(v, n) /\ FormatHex(v) = LastDigits(v, n)
  BY HexInIs
<1> DEFINE d(k) == LastDigits(v, n)[k]
<1>2. /\ Len(FormatHex(v)) = n /\ n >= 1 /\ 1 \in 1..n
      /\ \A k \in 1..n : d(k) \in HexDigits
      /\ d(1) = "0" <=> v = 0
  BY <1>1, LastDigitsAre DEF Needs
<1>3. \A k \in 1..n : At(b, i + k - 1) = d(k)
  BY <1>1, <1>2 DEF StandsAt, Spells
<1>4. At(b, i) = d(1)
  <2>1. i + 1 - 1 = i
    OBVIOUS
  <2> QED
    BY <1>2, <1>3, <2>1
<1>5. CASE v = 0
  <2>1. n = 1
    BY <1>1, <1>5 DEF Needs
  <2>2. ParseHex(b, i) = {[ok |-> TRUE, next |-> i + 1, reads |-> {i},
                           sig |-> 0, over |-> 0]}
    BY <1>2, <1>4, <1>5 DEF ParseHex
  <2> QED
    BY <1>2, <1>4, <1>5, <2>1, <2>2 DEF HexRead
<1>6. CASE v # 0
  <2> DEFINE j == i + n
  <2>1. At(b, i) # "0" /\ At(b, i) \in HexDigits
    BY <1>2, <1>4, <1>6
  <2>2. ASSUME NEW k \in i..(j - 1) PROVE At(b, k) \in HexDigits
    <3>1. k - i + 1 \in 1..n /\ i + (k - i + 1) - 1 = k
      BY <1>2
    <3> QED
      BY <1>2, <1>3, <3>1
  <2>3. ASSUME NEW k \in i..(j - 1) PROVE k \in 1..Len(b) /\ b[k] = At(b, k)
    BY <2>2 DEF At, HexDigits
  <2>4. At(b, j) \notin HexDigits
    BY <1>2 DEF StandsAt
  <2>5. RunEnds(b, i + 1) = {j}
    <3>1. j \in (i + 1)..(Len(b) + 1)
      <4>1. j - 1 \in i..(j - 1)
        BY <1>2
      <4>2. j - 1 \in 1..Len(b)
        BY <2>3, <4>1
      <4> QED
        BY <1>2, <4>2
    <3>2. j \in RunEnds(b, i + 1)
      <4>1. \A k \in (i + 1)..(j - 1) : k \in i..(j - 1)
        OBVIOUS
      <4> QED
        BY <2>2, <2>4, <3>1, <4>1 DEF RunEnds
    <3>3. ASSUME NEW l \in RunEnds(b, i + 1) PROVE l = j
      <4>1. /\ l \in Int /\ l >= i + 1 /\ At(b, l) \notin HexDigits
            /\ \A k \in (i + 1)..(l - 1) : At(b, k) \in HexDigits
        BY DEF RunEnds
      <4>2. ~(l < j)
        BY <2>2, <4>1
      <4>3. ~(l > j)
        BY <1>2, <2>4, <4>1
      <4> QED
        BY <4>1, <4>2, <4>3
    <3> QED
      BY <3>2, <3>3
  <2>6. Number(b, i, j) = [v |-> v, over |-> 0]
    <3>1. ASSUME NEW k \in 1..n PROVE b[i + k - 1] = d(k)
      <4>1. i + k - 1 \in i..(j - 1)
        OBVIOUS
      <4> QED
        BY <1>3, <2>3, <4>1
    <3>2. i \in Int
      OBVIOUS
    <3> QED
      BY <1>1, <3>1, <3>2, NumberBack, Zenon
  <2>7. ParseHex(b, i) = {[ok |-> TRUE, next |-> j, reads |-> i..j, sig |-> v,
                           over |-> 0]}
    <3> HIDE DEF j
    <3>1. [v |-> v, over |-> 0].over = 0 /\ [v |-> v, over |-> 0].v = v
      OBVIOUS
    <3> QED
      BY <2>1, <2>5, <2>6, <3>1 DEF ParseHex
  <2> QED
    BY <1>2, <2>1, <2>7 DEF HexRead
<1> QED
  BY <1>5, <1>6

-------------------------------------------------------------------------------
(* Numbers with an exponent: what the formatter moves into the exponent, the *)
(* lexer shifts back.                                                      *)

(* A word is its odd part times a power of two.                            *)
LEMMA TrailingZerosIs ==
  ASSUME NEW v \in Word, v > 0, NEW c, c = TrailingZeros(v),
         NEW s, s = v \div TwoTo[c]
  PROVE  /\ c \in 0..(W - 1) /\ s \in Nat /\ s > 0 /\ s % 2 = 1
         /\ v = TwoTo[c] * s
         /\ c < 8 => v % 256 # 0
<1>1. W \in Nat /\ W >= 12 /\ v \in Nat /\ v < TwoTo[W]
  BY WordSize DEF Word
<1> DEFINE Ends(k) == v % TwoTo[k] = 0 /\ v % TwoTo[k + 1] # 0
           S == {n \in Nat : n <= W /\ v % TwoTo[n] # 0}
           m == Min(S)
<1>2. W \in S
  <2>1. \A x, y \in Nat : y > 0 /\ x < y => x % y = x
    OBVIOUS
  <2>2. TwoTo[W] \in Nat /\ TwoTo[W] > 0
    BY <1>1, TwoToIs
  <2> QED
    BY <1>1, <2>1, <2>2
<1>3. m \in S /\ \A n \in S : m <= n
  <2> HIDE DEF S
  <2>1. S \in SUBSET Nat
    BY DEF S
  <2> QED
    BY <1>2, <2>1, MinIsLowest
<1> HIDE DEF m
<1>4. m # 0
  <2>1. v % 1 = 0
    BY <1>1
  <2> QED
    BY <1>3, <2>1, TwoToIs
<1>5. m - 1 \in 0..(W - 1) /\ Ends(m - 1)
  <2>1. m - 1 \in Nat /\ m - 1 <= W - 1 /\ m - 1 + 1 = m
    BY <1>1, <1>3, <1>4
  <2>2. m - 1 \notin S /\ m - 1 <= W
    BY <1>1, <1>3, <2>1
  <2>3. v % TwoTo[m - 1] = 0
    BY <2>1, <2>2
  <2>4. v % TwoTo[m] # 0
    BY <1>3
  <2> QED
    BY <2>1, <2>3, <2>4
<1>6. c \in 0..(W - 1) /\ Ends(c)
  <2> HIDE DEF S
  <2>1. c = CHOOSE k \in 0..(W - 1) : Ends(k)
    BY DEF TrailingZeros
  <2> HIDE DEF Ends
  <2> QED
    BY <1>5, <2>1
<1>7. c \in 0..W /\ c + 1 \in 1..W /\ c + 1 \in 0..W /\ c + 1 - 1 = c
  BY <1>1, <1>6
<1> DEFINE P == TwoTo[c]
<1>8. P \in Nat /\ P > 0 /\ TwoTo[c + 1] = 2 * P
  BY <1>7, TwoToIs
<1>9. v % P = 0 /\ v % (2 * P) # 0
  BY <1>6, <1>8
<1> HIDE DEF Ends
<1>10. s \in Nat /\ v = P * s + (v % P)
  BY <1>1, <1>8, DivIs
<1> HIDE DEF P
<1>11. v = P * s
  <2>1. P * s \in Nat
    BY <1>8, <1>10
  <2> QED
    BY <1>9, <1>10, <2>1
<1>12. s > 0
  <2>1. s = 0 => P * s = 0
    BY <1>8
  <2> QED
    BY <1>1, <1>10, <1>11, <2>1
<1>13. ASSUME NEW q \in Nat, NEW n \in Nat, v = ((2 * P) * n) * q PROVE FALSE
  <2>1. v = (2 * P) * (n * q) /\ n * q \in Int
    BY <1>8, <1>13
  <2>2. v = (2 * P) * (n * q) + 0 /\ 2 * P \in Nat /\ 2 * P > 0 /\ 0 \in 0..(2 * P - 1)
    BY <1>1, <1>8, <2>1
  <2>3. v % (2 * P) = 0
    BY <1>1, <2>1, <2>2, DivUnique
  <2> QED
    BY <1>9, <2>3
<1>14. s % 2 = 1
  <2> SUFFICES ASSUME s % 2 # 1 PROVE FALSE
    OBVIOUS
  <2>1. s % 2 = 0 /\ s \div 2 \in Nat /\ s = 2 * (s \div 2)
    BY <1>10
  <2> DEFINE h == s \div 2
  <2>2. h \in Nat /\ s = 2 * h
    BY <2>1
  <2> HIDE DEF h
  <2>3. P * s = ((2 * P) * 1) * h
    BY <1>8, <2>2
  <2> QED
    BY <1>11, <1>13, <2>2, <2>3
<1>15. ASSUME c < 8, v % 256 = 0 PROVE FALSE
  <2>1. /\ 4 \in Nat /\ 4 + 4 <= W /\ 7 - c \in Nat /\ 7 - c \in 0..W
        /\ c + 1 \in Nat /\ (c + 1) + (7 - c) = 8 /\ 8 <= W
    BY <1>1, <1>6, <1>15
  <2>2. TwoTo[8] = 256
    <3>1. TwoTo[4 + 4] = TwoTo[4] * TwoTo[4]
      BY <2>1, TwoToSum
    <3> QED
      BY <3>1, WordSize
  <2>3. TwoTo[8] = TwoTo[c + 1] * TwoTo[7 - c]
    BY <2>1, TwoToSum
  <2>4. TwoTo[7 - c] \in Nat
    BY <2>1, TwoToIs
  <2> DEFINE h == v \div 256
  <2>5. h \in Nat /\ v = 256 * h
    BY <1>1, <1>15
  <2> HIDE DEF h
  <2>6. v = ((2 * P) * TwoTo[7 - c]) * h
    BY <1>8, <2>2, <2>3, <2>5
  <2> QED
    BY <1>13, <2>4, <2>5, <2>6
<1> QED
  BY <1>6, <1>10, <1>11, <1>12, <1>14, <1>15 DEF P

(* A word shifted right to its odd part fits when it is shifted back.      *)
LEMMA ShiftBack ==
  ASSUME NEW s \in Nat, s > 0, NEW c \in 0..(W - 1), TwoTo[c] * s \in Word
  PROVE  s \in Word /\ Fits(s, c) /\ ShiftLeft(s, c) = TwoTo[c] * s
<1>1. W \in Nat /\ TwoTo[W] \in Nat /\ TwoTo[W] > 0 /\ TwoTo[c] * s < TwoTo[W]
      /\ TwoTo[c] \in Nat /\ TwoTo[c] > 0
  BY WordSize, TwoToIs DEF Word
<1>2. s \in Word
  <2>1. s <= TwoTo[c] * s /\ TwoTo[c] * s \in Nat
    BY <1>1
  <2>2. s <= TwoTo[W] - 1
    BY <1>1, <2>1
  <2> QED
    BY <1>1, <2>2 DEF Word
<1>3. PICK m \in 1..W : LeadingZeros(s) = W - m /\ TwoTo[m - 1] <= s
  BY <1>2, LeadingZerosBound
<1>4. c <= W - m
  <2> SUFFICES ASSUME c > W - m PROVE FALSE
    BY <1>1
  <2>1. /\ c \in Nat /\ m - 1 \in Nat /\ W - c \in Nat /\ W - c <= m - 1
        /\ c + (W - c) = W /\ W - c \in 0..W /\ m - 1 \in 0..W /\ m - 1 <= W
    BY <1>1
  <2>2. TwoTo[W] = TwoTo[c] * TwoTo[W - c]
    BY <1>1, <2>1, TwoToSum
  <2>3. TwoTo[W - c] \in Nat /\ TwoTo[m - 1] \in Nat
    BY <2>1, TwoToIs
  <2>4. TwoTo[W - c] <= TwoTo[m - 1]
    <3>1. CASE W - c = m - 1
      BY <2>3, <3>1
    <3>2. CASE W - c < m - 1
      <4>1. 2 * TwoTo[W - c] <= TwoTo[m - 1]
        BY <2>1, <3>2, TwoToLess
      <4> QED
        BY <2>3, <4>1
    <3> QED
      BY <2>1, <3>1, <3>2
  <2>5. TwoTo[W - c] <= s
    BY <1>3, <2>3, <2>4
  <2>6. \A x, y, z \in Nat : y <= z => x * y <= x * z
    OBVIOUS
  <2>7. TwoTo[c] * TwoTo[W - c] <= TwoTo[c] * s
    BY <1>1, <2>3, <2>5, <2>6
  <2>8. TwoTo[c] * s \in Nat
    BY <1>1
  <2> QED
    BY <1>1, <2>2, <2>7, <2>8
<1>5. Fits(s, c)
  BY <1>1, <1>3, <1>4 DEF Fits
<1>6. ShiftLeft(s, c) = TwoTo[c] * s
  <2>1. s * TwoTo[c] = TwoTo[c] * s /\ TwoTo[c] * s \in Nat
    BY <1>1
  <2>2. \A x, y \in Nat : y > 0 /\ x < y => x % y = x
    OBVIOUS
  <2> QED
    BY <1>1, <2>1, <2>2 DEF ShiftLeft
<1> QED
  BY <1>2, <1>5, <1>6

(* The sign in front of a number.                                          *)
Signed(b, i, neg, signed) ==
  /\ At(b, i) = "SP"
  /\ neg \in BOOLEAN /\ signed \in BOOLEAN /\ (neg => signed /\ At(b, i + 1) = "-")

(* The first byte of the digits.                                           *)
After(i, neg) == IF neg THEN i + 2 ELSE i + 1

(* parse_real takes the sign and goes on with parse_hex.                   *)
LEMMA RealSigned ==
  ASSUME NEW b, NEW i \in Nat, NEW neg, NEW signed, Signed(b, i, neg, signed),
         At(b, After(i, neg)) \in HexDigits, NEW h, ParseHex(b, After(i, neg)) = {h},
         h.ok
  PROVE  \E seen : ParseReal(b, i, signed) = RealAfter(b, neg, h, seen)
<1> DEFINE k == After(i, neg)
<1>1. (signed /\ At(b, i + 1) = "-") <=> neg
  BY DEF Signed, After, HexDigits
<1>2. ~Spells(b, k, InfWord)
  <2>1. k \in Nat /\ k + 1 - 1 = k
    BY DEF After
  <2>2. Spells(b, k, InfWord) => At(b, k + 1 - 1) = "i"
    BY DEF Spells, InfWord
  <2> QED
    BY <2>1, <2>2 DEF HexDigits
<1> DEFINE look == {i, i + 1} \cup Compared(b, k, InfWord)
           seen == look \cup h.reads \cup {h.next}
<1>3. ParseReal(b, i, signed) = RealAfter(b, neg, h, seen)
  <2>1. (signed /\ At(b, i + 1) = "-") = neg
    BY <1>1 DEF Signed
  <2>2. (IF neg THEN i + 2 ELSE i + 1) = k
    BY DEF After
  <2>3. ParseReal(b, i, signed) =
          UNION {IF g.ok
                 THEN RealAfter(b, neg, g, look \cup g.reads \cup {g.next})
                 ELSE {Fail(g.next, look \cup g.reads)} : g \in ParseHex(b, k)}
    BY <1>2, <2>1, <2>2, ZenonT(40) DEF ParseReal, Signed
  <2> QED
    BY <2>3
<1> QED
  BY <1>3

(* parse_real reads one number.                                            *)
RealRead(b, i, signed, stop, neg, sig, exp) ==
  \E looked : ParseReal(b, i, signed) =
    {[ok |-> TRUE, next |-> stop, reads |-> looked, neg |-> neg, sig |-> sig,
      exp |-> exp]}

(* A number without an exponent.                                           *)
LEMMA PlainBack ==
  ASSUME NEW b, Len(b) \in Nat, NEW i \in Nat, NEW neg, NEW signed,
         Signed(b, i, neg, signed), NEW sig \in Word,
         StandsAt(b, After(i, neg), FormatHex(sig)),
         At(b, After(i, neg) + Len(FormatHex(sig))) # "p",
         IF sig = 0 THEN ~neg ELSE sig % 256 # 0
  PROVE  RealRead(b, i, signed, After(i, neg) + Len(FormatHex(sig)), neg, sig, 0)
<1>1. After(i, neg) \in Nat /\ After(i, neg) > 0
  BY DEF After
<1>2. HexRead(b, After(i, neg), sig)
  BY <1>1, HexBack
<1>3. PICK looked : ParseHex(b, After(i, neg)) =
         {[ok |-> TRUE, next |-> After(i, neg) + Len(FormatHex(sig)),
           reads |-> looked, sig |-> sig, over |-> 0]}
  BY <1>2 DEF HexRead
<1> DEFINE h == [ok |-> TRUE, next |-> After(i, neg) + Len(FormatHex(sig)),
                 reads |-> looked, sig |-> sig, over |-> 0]
<1>4. /\ h.ok = TRUE /\ h.next = After(i, neg) + Len(FormatHex(sig)) /\ h.sig = sig
  OBVIOUS
<1>5. ParseHex(b, After(i, neg)) = {h}
  BY <1>3
<1> HIDE DEF h
<1>6. PICK seen : ParseReal(b, i, signed) = RealAfter(b, neg, h, seen)
  BY <1>2, <1>4, <1>5, RealSigned DEF HexRead
<1>7. RealAfter(b, neg, h, seen) =
        {[ok |-> TRUE, next |-> h.next, reads |-> seen, neg |-> neg, sig |-> h.sig,
          exp |-> 0]}
  BY <1>4 DEF RealAfter
<1> QED
  BY <1>4, <1>6, <1>7 DEF RealRead

(* The exponent of a number, which may have a sign of its own.             *)
ExponentRead(b, p, stop, exp) ==
  \E looked : ParseExponent(b, p, 0) =
    {[ok |-> TRUE, next |-> stop, reads |-> looked, exp |-> exp]}

LEMMA ExponentBack ==
  ASSUME NEW b, Len(b) \in Nat, NEW p \in Nat, p > 0,
         NEW eneg \in BOOLEAN, eneg => At(b, p + 1) = "-",
         NEW e \in 0..IntMax, StandsAt(b, After(p, eneg), FormatHex(e))
  PROVE  ExponentRead(b, p, After(p, eneg) + Len(FormatHex(e)),
                      IF eneg THEN -e ELSE e)
<1>1. After(p, eneg) \in Nat /\ After(p, eneg) > 0
  BY DEF After
<1>2. IntMax \in Nat /\ IntMax < TwoTo[W] /\ e \in Word /\ TwoTo[W] \in Nat /\ TwoTo[W] > 0
  <2>1. /\ TwoTo[W] = 2 * TwoTo[W - 1] /\ TwoTo[W - 1] \in Nat
        /\ TwoTo[W - 1] > 0 /\ TwoTo[W] \in Nat
    <3>1. W \in 1..W /\ W - 1 \in 0..W
      BY LexerAssumption
    <3> QED
      BY <3>1, TwoToIs
  <2>2. IntMax \in Nat /\ IntMax < TwoTo[W]
    BY <2>1, LexerAssumption
  <2> QED
    BY <2>1, <2>2 DEF Word
<1>3. HexRead(b, After(p, eneg), e)
  BY <1>1, <1>2, HexBack
<1>4. PICK looked : ParseHex(b, After(p, eneg)) =
          {[ok |-> TRUE, next |-> After(p, eneg) + Len(FormatHex(e)),
            reads |-> looked, sig |-> e, over |-> 0]}
  BY <1>3 DEF HexRead
<1> DEFINE g == [ok |-> TRUE, next |-> After(p, eneg) + Len(FormatHex(e)),
                 reads |-> looked, sig |-> e, over |-> 0]
           exp == IF eneg THEN -e ELSE e
<1>5. /\ g.ok = TRUE /\ g.next = After(p, eneg) + Len(FormatHex(e))
      /\ g.sig = e /\ g.over = 0
  OBVIOUS
<1>6. ParseHex(b, After(p, eneg)) = {g}
  BY <1>4
<1> HIDE DEF g
<1>7. (At(b, p + 1) = "-") <=> eneg
  <2>1. ~eneg => At(b, p + 1) \in HexDigits
    BY <1>3 DEF After, HexRead
  <2> QED
    BY <2>1 DEF HexDigits
<1> DEFINE x == [ok |-> TRUE, next |-> g.next, reads |-> {p, p + 1} \cup g.reads,
                 exp |-> exp]
           m == At(b, p + 1) = "-"
<1>8. (IF m THEN p + 2 ELSE p + 1) = After(p, eneg)
  BY <1>7 DEF After
<1>9. Exponent(m, g.sig, g.over, 0) = exp
  <2>1. (e + 0) % TwoTo[W] = e /\ ~(0 > 0) /\ ~(e > IntMax)
    BY <1>2
  <2> QED
    BY <1>5, <1>7, <2>1 DEF Exponent
<1> DEFINE F(f) == IF f.ok
                   THEN [ok |-> TRUE, next |-> f.next,
                         reads |-> {p, p + 1} \cup f.reads,
                         exp |-> Exponent(m, f.sig, f.over, 0)]
                   ELSE Fail(f.next, {p, p + 1} \cup f.reads)
<1>10. ParseExponent(b, p, 0) = {F(f) : f \in ParseHex(b, IF m THEN p + 2 ELSE p + 1)}
  BY Zenon DEF ParseExponent
<1>11. F(g) = x
  BY <1>5, <1>9
<1>12. ParseExponent(b, p, 0) = {x}
  <2> HIDE DEF F, m, x
  <2> QED
    BY <1>6, <1>8, <1>10, <1>11
<1> QED
  BY <1>5, <1>12 DEF ExponentRead

(* A number with an exponent.                                              *)
LEMMA PowerBack ==
  ASSUME NEW b, Len(b) \in Nat, NEW i \in Nat, NEW neg, NEW signed,
         Signed(b, i, neg, signed), NEW sig \in Word, sig % 2 = 1,
         StandsAt(b, After(i, neg), FormatHex(sig)),
         NEW p, p = After(i, neg) + Len(FormatHex(sig)), At(b, p) = "p",
         NEW eneg \in BOOLEAN, eneg => At(b, p + 1) = "-",
         NEW e \in 0..IntMax, StandsAt(b, After(p, eneg), FormatHex(e))
  PROVE  RealRead(b, i, signed, After(p, eneg) + Len(FormatHex(e)), neg, sig,
                  IF eneg THEN -e ELSE e)
<1>1. After(i, neg) \in Nat /\ After(i, neg) > 0
  BY DEF After
<1>2. HexRead(b, After(i, neg), sig)
  BY <1>1, HexBack
<1>3. PICK looked : ParseHex(b, After(i, neg)) =
         {[ok |-> TRUE, next |-> p, reads |-> looked, sig |-> sig, over |-> 0]}
  BY <1>2 DEF HexRead
<1> DEFINE h == [ok |-> TRUE, next |-> p, reads |-> looked, sig |-> sig, over |-> 0]
<1>4. h.ok = TRUE /\ h.next = p /\ h.sig = sig /\ h.over = 0
  OBVIOUS
<1>5. ParseHex(b, After(i, neg)) = {h}
  BY <1>3
<1> HIDE DEF h
<1>6. PICK seen : ParseReal(b, i, signed) = RealAfter(b, neg, h, seen)
  BY <1>2, <1>4, <1>5, RealSigned DEF HexRead
<1>7. p \in Nat /\ p > 0
  <2>1. PICK n \in Nat : Needs(sig, n) /\ FormatHex(sig) = LastDigits(sig, n)
    BY HexInIs
  <2>2. Len(FormatHex(sig)) \in Nat
    BY <2>1, LastDigitsAre
  <2> QED
    BY <1>1, <2>2
<1> DEFINE exp == IF eneg THEN -e ELSE e
           stop == After(p, eneg) + Len(FormatHex(e))
<1>8. PICK look2 : ParseExponent(b, p, 0) =
                     {[ok |-> TRUE, next |-> stop, reads |-> look2, exp |-> exp]}
  <2>1. ExponentRead(b, p, stop, exp)
    BY <1>7, ExponentBack
  <2> QED
    BY <2>1 DEF ExponentRead
<1> DEFINE x == [ok |-> TRUE, next |-> stop, reads |-> look2, exp |-> exp]
<1>9. x.ok = TRUE /\ x.next = stop /\ x.exp = exp
  OBVIOUS
<1>10. ParseExponent(b, h.next, h.over) = {x}
  BY <1>4, <1>8
<1> HIDE DEF x, exp, stop
<1>11. RealAfter(b, neg, h, seen) =
        {[ok |-> TRUE, next |-> x.next, reads |-> seen \cup x.reads, neg |-> neg,
          sig |-> h.sig, exp |-> x.exp]}
  <2>1. h.sig % 2 # 0
    BY <1>4
  <2> QED
    BY <1>4, <1>9, <1>10, <2>1 DEF RealAfter
<1> QED
  BY <1>4, <1>6, <1>9, <1>11 DEF exp, stop, RealRead

(* The bytes of numbers.                                                   *)
NumberBytes == HexDigits \cup {"p", "-"}

(* Two texts, one after the other.                                         *)
LEMMA SpellsConcat ==
  ASSUME NEW S, NEW s \in Seq(S), NEW t \in Seq(S), NEW b, NEW i \in Nat
  PROVE  /\ s \o t \in Seq(S) /\ Len(s \o t) = Len(s) + Len(t)
         /\ Len(s) \in Nat /\ Len(t) \in Nat
         /\ Spells(b, i, s \o t) <=> Spells(b, i, s) /\ Spells(b, i + Len(s), t)
<1>1. /\ s \o t \in Seq(S) /\ Len(s \o t) = Len(s) + Len(t)
      /\ Len(s) \in Nat /\ Len(t) \in Nat
      /\ \A q \in 1..Len(s) : (s \o t)[q] = s[q]
      /\ \A q \in 1..Len(t) : (s \o t)[Len(s) + q] = t[q]
  OBVIOUS
<1> DEFINE w == s \o t
           m == Len(s)
           n == Len(t)
<1> HIDE DEF w, m, n
<1>2. ASSUME Spells(b, i, w) PROVE Spells(b, i, s) /\ Spells(b, i + m, t)
  <2>1. ASSUME NEW q \in 1..m PROVE At(b, i + q - 1) = s[q]
    <3>1. q \in 1..Len(w)
      BY <1>1 DEF w, m, n
    <3> QED
      BY <1>1, <1>2, <3>1 DEF Spells, w, m
  <2>2. ASSUME NEW q \in 1..n PROVE At(b, i + m + q - 1) = t[q]
    <3>1. m + q \in 1..Len(w) /\ i + (m + q) - 1 = i + m + q - 1
      BY <1>1 DEF w, m, n
    <3>2. w[m + q] = t[q]
      BY <1>1 DEF w, m, n
    <3> QED
      BY <1>2, <3>1, <3>2 DEF Spells
  <2> QED
    BY <2>1, <2>2 DEF Spells, m, n
<1>3. ASSUME Spells(b, i, s), Spells(b, i + m, t) PROVE Spells(b, i, w)
  <2> SUFFICES ASSUME NEW q \in 1..Len(w) PROVE At(b, i + q - 1) = w[q]
    BY DEF Spells
  <2>1. CASE q <= m
    <3>1. q \in 1..m /\ w[q] = s[q]
      BY <1>1, <2>1 DEF w, m
    <3> QED
      BY <1>3, <3>1 DEF Spells, m
  <2>2. CASE q > m
    <3> DEFINE r == q - m
    <3>1. r \in 1..n /\ m + r = q /\ i + m + r - 1 = i + q - 1
      BY <1>1, <2>2 DEF w, m, n
    <3> HIDE DEF r
    <3>2. w[m + r] = t[r]
      BY <1>1, <3>1 DEF w, m, n
    <3>3. At(b, i + m + r - 1) = t[r]
      BY <1>3, <3>1 DEF Spells, n
    <3> QED
      BY <3>1, <3>2, <3>3
  <2>3. q <= m \/ q > m
    BY <1>1 DEF w, m
  <2> QED
    BY <2>1, <2>2, <2>3
<1> QED
  BY <1>1, <1>2, <1>3 DEF w, m

(* What format_hex writes is a text.                                       *)
LEMMA HexText ==
  ASSUME NEW v \in Word
  PROVE  FormatHex(v) \in Seq(NumberBytes) /\ Len(FormatHex(v)) \in Nat
<1>1. PICK n \in Nat : Needs(v, n) /\ FormatHex(v) = LastDigits(v, n)
  BY HexInIs
<1>2. FormatHex(v) \in Seq(HexDigits) /\ Len(FormatHex(v)) = n
  BY <1>1, LastDigitsAre
<1>3. HexDigits \subseteq NumberBytes
  BY DEF NumberBytes
<1> QED
  BY <1>2, <1>3

(* One byte.                                                               *)
LEMMA SpellsByte ==
  ASSUME NEW c \in NumberBytes, NEW b, NEW i \in Nat
  PROVE  /\ <<c>> \in Seq(NumberBytes) /\ Len(<<c>>) = 1
         /\ Spells(b, i, <<c>>) <=> At(b, i) = c
<1>1. <<c>> \in Seq(NumberBytes) /\ Len(<<c>>) = 1 /\ <<c>>[1] = c
  OBVIOUS
<1>2. i + 1 - 1 = i /\ 1 \in 1..1 /\ \A q \in 1..1 : q = 1
  OBVIOUS
<1> QED
  BY <1>1, <1>2 DEF Spells

(* A text stands as an argument behind the space at i.                     *)
Argument(b, i, t) ==
  /\ b \in Seq(STRING) /\ i \in 1..Len(b) /\ At(b, i) = "SP"
  /\ Spells(b, i + 1, t) /\ At(b, i + 1 + Len(t)) \in {"SP", "NL"}

(* Reading can come to nothing else than one value.                        *)
Only(outcomes, stop, value) == \E looked : outcomes = {Found(stop, looked, value)}

(* sig times a power of two is the word v.                                 *)
IsWord(sig, exp, v) ==
  sig \in Word /\ exp \in Nat /\ Fits(sig, exp) /\ ShiftLeft(sig, exp) = v

(* The text of a word is its digits or, when it ends in eight zero bits,   *)
(* those of its odd part and of the number of zeros.                       *)
LEMMA WordText ==
  ASSUME NEW v \in Word
  PROVE  \/ FormatUint64(v) = FormatHex(v) /\ (v # 0 => v % 256 # 0)
         \/ \E s \in Word, c \in 0..(W - 1) :
              /\ FormatUint64(v) = FormatHex(s) \o <<"p">> \o FormatHex(c)
              /\ s % 2 = 1 /\ Fits(s, c) /\ ShiftLeft(s, c) = v
<1>1. v \in Nat
  BY WordSize DEF Word
<1>2. CASE v = 0
  BY <1>2 DEF FormatUint64, FormatWord, FormatHex
<1>3. CASE v # 0
  <2> DEFINE c == TrailingZeros(v)
             s == v \div TwoTo[c]
  <2>1. /\ c \in 0..(W - 1) /\ s \in Nat /\ s > 0 /\ s % 2 = 1
        /\ v = TwoTo[c] * s /\ (c < 8 => v % 256 # 0)
    BY <1>1, <1>3, TrailingZerosIs
  <2>2. FormatUint64(v) = IF c < 8 THEN FormatHex(v)
                          ELSE FormatHex(s) \o <<"p">> \o FormatHex(c)
    BY <1>3 DEF FormatUint64, FormatWord, FormatHex
  <2> HIDE DEF c, s
  <2>3. s \in Word /\ Fits(s, c) /\ ShiftLeft(s, c) = v
    BY <2>1, ShiftBack
  <2> QED
    BY <2>1, <2>2, <2>3
<1> QED
  BY <1>2, <1>3

(* What stands at k up to stop when it is the text of v.                   *)
PlainAt(b, k, stop, v) ==
  /\ StandsAt(b, k, FormatHex(v)) /\ stop = k + Len(FormatHex(v))
  /\ v # 0 => v % 256 # 0

PowerAt(b, k, p, stop, s, c) ==
  /\ StandsAt(b, k, FormatHex(s)) /\ p = k + Len(FormatHex(s)) /\ At(b, p) = "p"
  /\ StandsAt(b, After(p, FALSE), FormatHex(c))
  /\ stop = After(p, FALSE) + Len(FormatHex(c))

(* The number of bits is an int.                                           *)
LEMMA BitsFit ==
  ASSUME NEW c \in 0..(W - 1)
  PROVE  c \in 0..IntMax /\ c \in Word /\ c \in Nat
<1>1. IntMax \in Nat /\ IntMax >= W /\ W \in Nat
  BY LexerAssumption
<1>2. IntMax < TwoTo[W]
  <2>1. W \in 1..W /\ W - 1 \in 0..W
    BY <1>1, LexerAssumption
  <2>2. TwoTo[W] = 2 * TwoTo[W - 1] /\ TwoTo[W - 1] \in Nat
    BY <2>1, TwoToIs
  <2> QED
    BY <1>1, <2>2, LexerAssumption
<1>3. TwoTo[W] \in Nat
  BY WordSize
<1> QED
  BY <1>1, <1>2, <1>3 DEF Word

(* A text of two numbers with a byte between them.                         *)
LEMMA SpellsPower ==
  ASSUME NEW s \in Word, NEW c \in Word, NEW b, NEW k \in Nat, NEW t,
         t = FormatHex(s) \o <<"p">> \o FormatHex(c),
         Spells(b, k, t), At(b, k + Len(t)) \notin HexDigits
  PROVE  PowerAt(b, k, k + Len(FormatHex(s)), k + Len(t), s, c)
<1> DEFINE p    == k + Len(FormatHex(s))
           mid  == <<"p">>
           head == FormatHex(s) \o mid
<1>1. t = head \o FormatHex(c)
  OBVIOUS
<1> HIDE DEF mid
<1>2. /\ FormatHex(s) \in Seq(NumberBytes) /\ FormatHex(c) \in Seq(NumberBytes)
      /\ Len(FormatHex(s)) \in Nat /\ Len(FormatHex(c)) \in Nat
  BY HexText
<1>3. mid \in Seq(NumberBytes) /\ Len(mid) = 1 /\ (Spells(b, p, mid) <=> At(b, p) = "p")
  BY <1>2, SpellsByte DEF NumberBytes, mid
<1>4. /\ head \in Seq(NumberBytes) /\ Len(head) = Len(FormatHex(s)) + Len(mid)
      /\ Spells(b, k, head) => Spells(b, k, FormatHex(s)) /\ Spells(b, p, mid)
  BY <1>2, <1>3, SpellsConcat, Zenon
<1> HIDE DEF head
<1>5. /\ Len(head \o FormatHex(c)) = Len(head) + Len(FormatHex(c))
      /\ Spells(b, k, head \o FormatHex(c)) =>
           Spells(b, k, head) /\ Spells(b, k + Len(head), FormatHex(c))
  BY <1>2, <1>4, SpellsConcat, Zenon
<1>6. After(p, FALSE) = k + Len(head) /\ k + Len(t) = After(p, FALSE) + Len(FormatHex(c))
  BY <1>1, <1>2, <1>3, <1>4, <1>5 DEF After
<1>7. /\ Spells(b, k, FormatHex(s)) /\ At(b, p) = "p"
      /\ Spells(b, After(p, FALSE), FormatHex(c))
  BY <1>1, <1>3, <1>4, <1>5, <1>6
<1> HIDE DEF p
<1>8. StandsAt(b, k, FormatHex(s)) /\ StandsAt(b, After(p, FALSE), FormatHex(c))
  <2>1. "p" \notin HexDigits
    BY DEF HexDigits
  <2>2. p = k + Len(FormatHex(s))
    BY DEF p
  <2> QED
    BY <1>6, <1>7, <2>1, <2>2 DEF StandsAt
<1> QED
  BY <1>6, <1>7, <1>8 DEF PowerAt, p

LEMMA WordAt ==
  ASSUME NEW b, NEW k \in Nat, NEW v \in Word, Spells(b, k, FormatUint64(v)),
         NEW stop, stop = k + Len(FormatUint64(v)), At(b, stop) \in {"SP", "NL"}
  PROVE  \/ PlainAt(b, k, stop, v)
         \/ \E p \in Nat, s \in Word, c \in 0..(W - 1) :
              /\ PowerAt(b, k, p, stop, s, c)
              /\ s % 2 = 1 /\ Fits(s, c) /\ ShiftLeft(s, c) = v
<1>1. At(b, stop) \notin HexDigits
  BY DEF HexDigits
<1>2. CASE FormatUint64(v) = FormatHex(v) /\ (v # 0 => v % 256 # 0)
  BY <1>1, <1>2 DEF PlainAt, StandsAt
<1>3. CASE \E s \in Word, c \in 0..(W - 1) :
              /\ FormatUint64(v) = FormatHex(s) \o <<"p">> \o FormatHex(c)
              /\ s % 2 = 1 /\ Fits(s, c) /\ ShiftLeft(s, c) = v
  <2>1. PICK s \in Word, c \in 0..(W - 1) :
              /\ FormatUint64(v) = FormatHex(s) \o <<"p">> \o FormatHex(c)
              /\ s % 2 = 1 /\ Fits(s, c) /\ ShiftLeft(s, c) = v
    BY <1>3
  <2>2. PowerAt(b, k, k + Len(FormatHex(s)), stop, s, c)
    BY <1>1, <2>1, BitsFit, SpellsPower
  <2>3. k + Len(FormatHex(s)) \in Nat
    BY HexText
  <2> QED
    BY <2>1, <2>2, <2>3
<1> QED
  BY <1>2, <1>3, WordText

(* parse_real reads the word that format_uint64 has written.               *)
LEMMA WordBack ==
  ASSUME NEW b, Len(b) \in Nat, NEW i \in Nat, NEW neg, NEW signed,
         Signed(b, i, neg, signed), NEW v \in Word, v = 0 => ~neg,
         NEW k, k = After(i, neg), Spells(b, k, FormatUint64(v)),
         NEW stop, stop = k + Len(FormatUint64(v)), At(b, stop) \in {"SP", "NL"}
  PROVE  \E sig, exp : /\ IsWord(sig, exp, v)
                       /\ RealRead(b, i, signed, stop, neg, sig, exp)
<1>1. k \in Nat /\ k > 0 /\ v \in Nat
  BY WordSize DEF After, Word
<1>2. CASE PlainAt(b, k, stop, v)
  <2>1. StandsAt(b, k, FormatHex(v)) /\ At(b, k + Len(FormatHex(v))) # "p"
    BY <1>2 DEF PlainAt
  <2>2. RealRead(b, i, signed, k + Len(FormatHex(v)), neg, v, 0)
    BY <1>2, <2>1, PlainBack DEF PlainAt
  <2>3. Fits(v, 0) /\ ShiftLeft(v, 0) = v
    BY FitsShift, ShiftLeftZero
  <2> QED
    BY <1>2, <2>2, <2>3 DEF IsWord, PlainAt
<1>3. ASSUME NEW p \in Nat, NEW s \in Word, NEW c \in 0..(W - 1),
             PowerAt(b, k, p, stop, s, c), s % 2 = 1, Fits(s, c), ShiftLeft(s, c) = v
      PROVE  IsWord(s, c, v) /\ RealRead(b, i, signed, stop, neg, s, c)
  <2>1. c \in 0..IntMax /\ c \in Nat
    BY BitsFit
  <2>2. RealRead(b, i, signed, After(p, FALSE) + Len(FormatHex(c)), neg, s,
                 IF FALSE THEN -c ELSE c)
    BY <1>3, <2>1, PowerBack DEF PowerAt
  <2> QED
    BY <1>3, <2>1, <2>2 DEF PowerAt, IsWord
<1>4. \/ PlainAt(b, k, stop, v)
      \/ \E p \in Nat, s \in Word, c \in 0..(W - 1) :
           /\ PowerAt(b, k, p, stop, s, c)
           /\ s % 2 = 1 /\ Fits(s, c) /\ ShiftLeft(s, c) = v
  BY <1>1, WordAt
<1> QED
  BY <1>2, <1>3, <1>4

-------------------------------------------------------------------------------
(* An argument that the formatter wrote, behind a space and in front of a  *)
(* space or a newline, as a getter reads it.                               *)

(* What is known of an argument.                                           *)
LEMMA ArgumentIs ==
  ASSUME NEW b, NEW i, NEW t, Argument(b, i, t)
  PROVE  /\ Len(b) \in Nat /\ i \in Nat /\ i > 0 /\ i + 1 \in Nat /\ At(b, i) = "SP"
         /\ Spells(b, i + 1, t) /\ At(b, i + 1 + Len(t)) \in {"SP", "NL"}
  BY DEF Argument

(* sipc_next reads what format_uint64 has written.                         *)
LEMMA NextBack ==
  ASSUME NEW b, NEW i, NEW e, NEW v \in Word, Argument(b, i, FormatUint64(v))
  PROVE  Only(SipcNext(b, i, e), i + 1 + Len(FormatUint64(v)),
              Value("POSITIVE_INT", 0, v, 0))
<1> DEFINE k    == i + 1
           stop == i + 1 + Len(FormatUint64(v))
           seen(h) == {i} \cup h.reads \cup {h.next}
<1>1. /\ k \in Nat /\ k > 0 /\ Len(b) \in Nat /\ Spells(b, k, FormatUint64(v))
      /\ stop = k + Len(FormatUint64(v)) /\ At(b, i) = "SP"
      /\ At(b, stop) \in {"SP", "NL"} /\ v \in Nat
  BY ArgumentIs, WordSize DEF Word
<1> HIDE DEF k, stop
<1>2. ASSUME NEW h, ParseHex(b, k) = {h}, h.ok, At(b, k) \in HexDigits
      PROVE  SipcNext(b, i, e) = NextNumber(b, h, e, seen(h))
  <2>1. At(b, k) \notin {"-", "i", "T", "F", "[", "]", "{", "}", "n"}
    BY <1>2 DEF HexDigits
  <2>2. SipcNext(b, i, e) =
          UNION {IF g.ok
                 THEN NextNumber(b, g, e, {i} \cup g.reads \cup {g.next})
                 ELSE {Fail(g.next, {i} \cup g.reads)} : g \in ParseHex(b, k)}
    BY <1>1, <2>1, Zenon DEF SipcNext, k
  <2> QED
    BY <1>2, <2>2
<1>3. CASE PlainAt(b, k, stop, v)
  <2>1. HexRead(b, k, v)
    BY <1>1, <1>3, HexBack DEF PlainAt
  <2>2. PICK looked : ParseHex(b, k) = {[ok |-> TRUE, next |-> stop,
                        reads |-> looked, sig |-> v, over |-> 0]}
    BY <1>3, <2>1 DEF HexRead, PlainAt
  <2> DEFINE h == [ok |-> TRUE, next |-> stop, reads |-> looked, sig |-> v, over |-> 0]
  <2>3. h.ok = TRUE /\ h.next = stop /\ h.sig = v /\ ParseHex(b, k) = {h}
    BY <2>2
  <2> HIDE DEF h
  <2>4. SipcNext(b, i, e) = NextNumber(b, h, e, seen(h))
    BY <1>2, <2>1, <2>3 DEF HexRead
  <2>5. NextNumber(b, h, e, seen(h)) =
          {Found(stop, seen(h), Value("POSITIVE_INT", 0, v, 0))}
    BY <1>1, <1>3, <2>3 DEF NextNumber, PlainAt
  <2> QED
    BY <2>4, <2>5 DEF Only, stop
<1>4. ASSUME NEW p \in Nat, NEW s \in Word, NEW c \in 0..(W - 1),
             PowerAt(b, k, p, stop, s, c), s % 2 = 1, Fits(s, c), ShiftLeft(s, c) = v
      PROVE  Only(SipcNext(b, i, e), stop, Value("POSITIVE_INT", 0, v, 0))
  <2>1. HexRead(b, k, s)
    BY <1>1, <1>4, HexBack DEF PowerAt
  <2>2. PICK looked : ParseHex(b, k) = {[ok |-> TRUE, next |-> p,
                        reads |-> looked, sig |-> s, over |-> 0]}
    BY <1>4, <2>1 DEF HexRead, PowerAt
  <2> DEFINE h == [ok |-> TRUE, next |-> p, reads |-> looked, sig |-> s, over |-> 0]
  <2>3. h.ok = TRUE /\ h.next = p /\ h.sig = s /\ h.over = 0 /\ ParseHex(b, k) = {h}
    BY <2>2
  <2> HIDE DEF h
  <2>4. SipcNext(b, i, e) = NextNumber(b, h, e, seen(h))
    BY <1>2, <2>1, <2>3 DEF HexRead
  <2>5. ExponentRead(b, p, stop, c)
    <3>1. c \in 0..IntMax /\ p > 0
      <4>1. Len(FormatHex(s)) \in Nat
        BY HexText
      <4> QED
        BY <1>1, <1>4, <4>1, BitsFit DEF PowerAt
    <3>2. ExponentRead(b, p, After(p, FALSE) + Len(FormatHex(c)),
                       IF FALSE THEN -c ELSE c)
      BY <1>1, <1>4, <3>1, ExponentBack DEF PowerAt
    <3> QED
      BY <1>4, <3>2 DEF PowerAt
  <2>6. PICK look2 : ParseExponent(b, p, 0) =
           {[ok |-> TRUE, next |-> stop, reads |-> look2, exp |-> c]}
    BY <2>5 DEF ExponentRead
  <2> DEFINE x == [ok |-> TRUE, next |-> stop, reads |-> look2, exp |-> c]
  <2>7. x.ok = TRUE /\ x.next = stop /\ x.exp = c /\ ParseExponent(b, p, 0) = {x}
    BY <2>6
  <2> HIDE DEF x
  <2>8. NextNumber(b, h, e, seen(h)) =
          {Found(stop, seen(h) \cup x.reads, Value("POSITIVE_INT", 0, v, 0))}
    <3>1. At(b, p) = "p" /\ h.sig % 2 # 0
      BY <1>4, <2>3 DEF PowerAt
    <3> QED
      BY <1>4, <2>3, <2>7, <3>1 DEF NextNumber
  <2> QED
    BY <2>4, <2>8 DEF Only
<1>5. \/ PlainAt(b, k, stop, v)
      \/ \E p \in Nat, s \in Word, c \in 0..(W - 1) :
           /\ PowerAt(b, k, p, stop, s, c)
           /\ s % 2 = 1 /\ Fits(s, c) /\ ShiftLeft(s, c) = v
  BY <1>1, WordAt
<1> QED
  BY <1>3, <1>4, <1>5 DEF stop

(* Every uint64_t that sipc_format writes is what sipc_uint64 and sipc_any *)
(* read, and all that they can read (ipc.c:606-615, 247-259, 470-513).     *)
THEOREM UnsignedComesBack ==
  ASSUME NEW b, NEW i, NEW v \in Word, Argument(b, i, FormatUint64(v))
  PROVE  LET stop == i + 1 + Len(FormatUint64(v))
             back == Value("POSITIVE_INT", 0, v, 0)
         IN  /\ Only(Get("uint64", b, i, Len(b) + 1), stop, back)
             /\ Only(SipcNext(b, i, Len(b) + 1), stop, back)
<1> DEFINE stop == i + 1 + Len(FormatUint64(v))
           back == Value("POSITIVE_INT", 0, v, 0)
<1>1. /\ Len(b) \in Nat /\ i \in Nat /\ At(b, i) = "SP"
      /\ Spells(b, i + 1, FormatUint64(v)) /\ At(b, stop) \in {"SP", "NL"}
  BY ArgumentIs
<1>2. PICK sig, exp : /\ IsWord(sig, exp, v)
                      /\ RealRead(b, i, FALSE, stop, FALSE, sig, exp)
  <2>1. Signed(b, i, FALSE, FALSE) /\ i + 1 = After(i, FALSE)
    BY <1>1 DEF Signed, After
  <2>2. stop = (i + 1) + Len(FormatUint64(v))
    OBVIOUS
  <2> HIDE DEF stop
  <2> QED
    BY <1>1, <2>1, <2>2, WordBack
<1>3. PICK looked : ParseReal(b, i, FALSE) =
         {[ok |-> TRUE, next |-> stop, reads |-> looked, neg |-> FALSE,
           sig |-> sig, exp |-> exp]}
  BY <1>2 DEF RealRead
<1> DEFINE r == [ok |-> TRUE, next |-> stop, reads |-> looked, neg |-> FALSE,
                 sig |-> sig, exp |-> exp]
<1>4. /\ r.ok = TRUE /\ r.next = stop /\ r.sig = sig /\ r.exp = exp
      /\ ParseReal(b, i, FALSE) = {r}
  BY <1>3
<1> HIDE DEF r, stop, back
<1>5. exp \in Nat /\ Fits(sig, exp) /\ ShiftLeft(sig, exp) = v /\ v \in Nat
      /\ ~(v > TwoTo[W] - 1) /\ ~(exp < 0)
  BY <1>2, WordSize DEF IsWord, Word
<1>6. GetUnsigned(b, i, TwoTo[W] - 1) = {Found(stop, r.reads, back)}
  BY <1>4, <1>5 DEF GetUnsigned, back
<1>7. Get("uint64", b, i, Len(b) + 1) = GetUnsigned(b, i, TwoTo[W] - 1)
  BY DEF Get
<1>8. Only(Get("uint64", b, i, Len(b) + 1), stop, back)
  BY <1>6, <1>7, Zenon DEF Only
<1>9. Only(SipcNext(b, i, Len(b) + 1), stop, back)
  BY NextBack DEF stop, back
<1> QED
  BY <1>8, <1>9 DEF stop, back

(* The text of a word is a text.                                           *)
LEMMA WordTextIs ==
  ASSUME NEW v \in Word
  PROVE  FormatUint64(v) \in Seq(NumberBytes)
<1> DEFINE w == FormatUint64(v)
<1>1. \A s \in Word : FormatHex(s) \in Seq(NumberBytes)
  BY HexText
<1>2. <<"p">> \in Seq(NumberBytes)
  BY DEF NumberBytes
<1>3. \A s, c \in Seq(NumberBytes), p \in Seq(NumberBytes) :
        s \o p \o c \in Seq(NumberBytes)
  OBVIOUS
<1>4. \/ w = FormatHex(v)
      \/ \E s \in Word, c \in 0..(W - 1) : w = FormatHex(s) \o <<"p">> \o FormatHex(c)
  BY WordText, Zenon
<1>5. ASSUME NEW s \in Word, NEW c \in 0..(W - 1),
             w = FormatHex(s) \o <<"p">> \o FormatHex(c)
      PROVE  w \in Seq(NumberBytes)
  <2>1. c \in Word
    BY BitsFit
  <2> HIDE DEF w
  <2> QED
    BY <1>1, <1>2, <1>3, <1>5, <2>1
<1> HIDE DEF w
<1>6. w \in Seq(NumberBytes)
  BY <1>1, <1>4, <1>5
<1> QED
  BY <1>6 DEF w

(* The text of a signed number: a sign and the text of a word.             *)
LEMMA SignedAt ==
  ASSUME NEW b, NEW i, NEW v \in Int, v < 0, -v \in Word,
         Argument(b, i, FormatInt64(v))
  PROVE  /\ At(b, i + 1) = "-" /\ Spells(b, i + 2, FormatUint64(-v))
         /\ i + 1 + Len(FormatInt64(v)) = i + 2 + Len(FormatUint64(-v))
<1> DEFINE w == FormatUint64(-v)
           sign == <<"-">>
<1>1. FormatInt64(v) = sign \o w
  BY DEF FormatInt64, Minus, Magnitude
<1>2. w \in Seq(NumberBytes)
  BY WordTextIs
<1>3. i \in Nat /\ i + 1 \in Nat
  BY ArgumentIs
<1>4. /\ sign \in Seq(NumberBytes) /\ Len(sign) = 1
      /\ Spells(b, i + 1, sign) <=> At(b, i + 1) = "-"
  BY <1>3, SpellsByte DEF NumberBytes
<1> HIDE DEF w, sign
<1>5. /\ Len(sign \o w) = Len(sign) + Len(w) /\ Len(w) \in Nat
      /\ Spells(b, i + 1, sign \o w)
         => Spells(b, i + 1, sign) /\ Spells(b, i + 1 + Len(sign), w)
  BY <1>2, <1>3, <1>4, SpellsConcat, Zenon
<1>6. i + 1 + Len(sign) = i + 2 /\ i + 1 + Len(sign \o w) = i + 2 + Len(w)
  BY <1>3, <1>4, <1>5
<1>7. Spells(b, i + 1, sign \o w)
  BY <1>1, ArgumentIs
<1> QED
  BY <1>1, <1>4, <1>5, <1>6, <1>7 DEF w

(* The same for every int64_t, with sipc_int64; the lowest one, which has  *)
(* no counterpart, is read as well (ipc.c:617-625, 223-245).               *)
THEOREM SignedComesBack ==
  ASSUME NEW b, NEW i, NEW v \in (-TwoTo[W - 1])..(TwoTo[W - 1] - 1),
         Argument(b, i, FormatInt64(v))
  PROVE  LET stop == i + 1 + Len(FormatInt64(v))
             back == IF v < 0 THEN Value("NEGATIVE_INT", 1, -v, 0)
                              ELSE Value("POSITIVE_INT", 0, v, 0)
         IN  /\ Only(Get("int64", b, i, Len(b) + 1), stop, back)
             /\ Only(SipcNext(b, i, Len(b) + 1), stop, back)
<1> DEFINE stop == i + 1 + Len(FormatInt64(v))
           back == IF v < 0 THEN Value("NEGATIVE_INT", 1, -v, 0)
                            ELSE Value("POSITIVE_INT", 0, v, 0)
           neg  == v < 0
           m    == Magnitude(v)
<1>1. /\ Len(b) \in Nat /\ i \in Nat /\ At(b, i) = "SP"
      /\ Spells(b, i + 1, FormatInt64(v)) /\ At(b, stop) \in {"SP", "NL"}
  BY ArgumentIs
<1>2. /\ TwoTo[W - 1] \in Nat /\ TwoTo[W] = 2 * TwoTo[W - 1] /\ TwoTo[W - 1] > 0
  BY WordSize
<1>3. /\ m \in Word /\ m \in Nat /\ v \in Int /\ m = (IF neg THEN -v ELSE v)
      /\ m <= (IF neg THEN TwoTo[W - 1] ELSE TwoTo[W - 1] - 1)
      /\ m = 0 => ~neg
  BY <1>2 DEF Magnitude, Word
<1>4. \E sig, exp : IsWord(sig, exp, m) /\ RealRead(b, i, TRUE, stop, neg, sig, exp)
  <2>1. CASE neg
    <3>1. /\ At(b, i + 1) = "-" /\ Spells(b, i + 2, FormatUint64(m))
          /\ stop = i + 2 + Len(FormatUint64(m))
      BY <1>3, <2>1, SignedAt
    <3>2. Signed(b, i, neg, TRUE) /\ i + 2 = After(i, neg)
      BY <1>1, <2>1, <3>1 DEF Signed, After
    <3> HIDE DEF stop, m, neg
    <3> QED
      BY <1>1, <1>3, <3>1, <3>2, WordBack
  <2>2. CASE ~neg
    <3>1. FormatInt64(v) = FormatUint64(m)
      <4>1. m \in Word /\ m = v
        BY <1>3, <2>2
      <4>2. FormatInt64(v) = <<>> \o FormatUint64(m)
        BY <2>2 DEF FormatInt64, Minus
      <4> HIDE DEF m
      <4> QED
        BY <4>1, <4>2, WordTextIs
    <3>2. Signed(b, i, neg, TRUE) /\ i + 1 = After(i, neg)
      BY <1>1, <2>2 DEF Signed, After
    <3>3. stop = (i + 1) + Len(FormatUint64(m)) /\ Spells(b, i + 1, FormatUint64(m))
      BY <1>1, <3>1
    <3> HIDE DEF stop, m, neg
    <3> QED
      BY <1>1, <1>3, <3>2, <3>3, WordBack
  <2> QED
    BY <2>1, <2>2
<1>5. PICK sig, exp : IsWord(sig, exp, m) /\ RealRead(b, i, TRUE, stop, neg, sig, exp)
  BY <1>4
<1>6. PICK looked : ParseReal(b, i, TRUE) =
         {[ok |-> TRUE, next |-> stop, reads |-> looked, neg |-> neg,
           sig |-> sig, exp |-> exp]}
  BY <1>5 DEF RealRead
<1> DEFINE r == [ok |-> TRUE, next |-> stop, reads |-> looked, neg |-> neg,
                 sig |-> sig, exp |-> exp]
<1>7. /\ r.ok = TRUE /\ r.next = stop /\ r.neg = neg /\ r.sig = sig /\ r.exp = exp
      /\ ParseReal(b, i, TRUE) = {r}
  BY <1>6
<1> HIDE DEF r
<1>8. /\ Fits(sig, exp) /\ ShiftLeft(sig, exp) = m
      /\ ~(m > (IF neg THEN TwoTo[W - 1] ELSE TwoTo[W - 1] - 1))
  BY <1>2, <1>3, <1>5 DEF IsWord
<1>9. back = Value(IF neg THEN "NEGATIVE_INT" ELSE "POSITIVE_INT", Sign(neg), m, 0)
  BY <1>3 DEF Sign
<1> HIDE DEF stop, m, neg, back
<1>10. GetSigned(b, i, TwoTo[W - 1]) = {Found(stop, r.reads, back)}
  <2> DEFINE limit == TwoTo[W - 1]
             F(q) == IF ~q.ok THEN q
                     ELSE LET n == ShiftLeft(q.sig, q.exp)
                          IN  IF q.sig # 0 /\ (~Fits(q.sig, q.exp)
                                               \/ n > (IF q.neg THEN limit
                                                               ELSE limit - 1))
                              THEN Fail(q.next, q.reads)
                              ELSE Found(q.next, q.reads,
                                         Value(IF q.neg THEN "NEGATIVE_INT"
                                                        ELSE "POSITIVE_INT",
                                               Sign(q.neg), n, 0))
  <2>1. GetSigned(b, i, limit) = {F(q) : q \in ParseReal(b, i, TRUE)}
    BY DEF GetSigned
  <2>2. F(r) = Found(stop, r.reads, back)
    BY <1>7, <1>8, <1>9
  <2> HIDE DEF F, limit
  <2>3. GetSigned(b, i, limit) = {F(r)}
    BY <1>7, <2>1
  <2> QED
    BY <2>2, <2>3 DEF limit
<1>11. Get("int64", b, i, Len(b) + 1) = GetSigned(b, i, TwoTo[W - 1])
  BY DEF Get
<1>12. Only(Get("int64", b, i, Len(b) + 1), stop, back)
  BY <1>10, <1>11, Zenon DEF Only
<1>13. Only(SipcNext(b, i, Len(b) + 1), stop, back)
  <2>1. CASE neg
    <3>1. At(b, i + 1) = "-"
      BY <1>3, <2>1, SignedAt DEF neg, m
    <3>2. SipcNext(b, i, Len(b) + 1) = NextSigned(b, i)
      BY <1>1, <3>1, Zenon DEF SipcNext
    <3>3. back = Value("NEGATIVE_INT", 1, m, 0)
      BY <1>9, <2>1 DEF Sign
    <3>4. NextSigned(b, i) = {Found(stop, r.reads, back)}
      BY <1>7, <1>8, <3>3 DEF NextSigned
    <3> QED
      BY <3>2, <3>4, Zenon DEF Only
  <2>2. CASE ~neg
    <3>1. FormatInt64(v) = FormatUint64(v) /\ v \in Word
      <4>1. m \in Word /\ m = v
        BY <1>3, <2>2
      <4>2. FormatInt64(v) = <<>> \o FormatUint64(v)
        BY <2>2, <4>1 DEF FormatInt64, Minus, neg, m
      <4> QED
        BY <4>1, <4>2, WordTextIs
    <3>2. back = Value("POSITIVE_INT", 0, v, 0)
      BY <1>3, <1>9, <2>2 DEF Sign
    <3> QED
      BY <3>1, <3>2, NextBack DEF stop
  <2> QED
    BY <2>1, <2>2
<1> QED
  BY <1>12, <1>13 DEF stop, back

-------------------------------------------------------------------------------
(* A string of n bytes, with its length before it, is read as those bytes  *)
(* when anything is left behind them, as the newline always is             *)
(* (ipc.c:351-382, 690-701).                                               *)
THEOREM StringsComeBack ==
  ASSUME NEW b \in Seq(STRING), NEW i \in 1..Len(b), NEW n \in Word,
         NEW kind \in {"string", "bytes"},
         At(b, i) = "SP", Spells(b, i + 1, FormatHex(n)),
         NEW p, p = i + 1 + Len(FormatHex(n)),
         At(b, p) = (IF kind = "string" THEN ":" ELSE "|"),
         p + n < Len(b)
  PROVE  LET back == Value(IF kind = "string" THEN "STRING" ELSE "BYTES",
                           0, n, p + 1)
         IN  /\ Only(Get(kind, b, i, Len(b) + 1), p + 1 + n, back)
             /\ Only(SipcNext(b, i, Len(b) + 1), p + 1 + n, back)
<1> DEFINE e     == Len(b) + 1
           type  == IF kind = "string" THEN "STRING" ELSE "BYTES"
           delim == IF kind = "string" THEN ":" ELSE "|"
           back  == Value(type, 0, n, p + 1)
<1>1. /\ Len(b) \in Nat /\ i \in Nat /\ i + 1 \in Nat /\ i + 1 > 0 /\ n \in Nat
      /\ Len(FormatHex(n)) \in Nat /\ p \in Nat
  BY WordSize, HexText, SMTT(30) DEF Word
<1>2. StandsAt(b, i + 1, FormatHex(n))
  BY DEF StandsAt, HexDigits
<1>3. HexRead(b, i + 1, n)
  BY <1>1, <1>2, HexBack
<1>4. PICK looked : ParseHex(b, i + 1) =
         {[ok |-> TRUE, next |-> p, reads |-> looked, sig |-> n, over |-> 0]}
  BY <1>3 DEF HexRead
<1> DEFINE h == [ok |-> TRUE, next |-> p, reads |-> looked, sig |-> n, over |-> 0]
           seen == {i} \cup h.reads \cup {h.next}
<1>5. /\ h.ok = TRUE /\ h.next = p /\ h.sig = n /\ h.over = 0
      /\ ParseHex(b, i + 1) = {h}
  BY <1>4
<1> HIDE DEF h
<1>6. SizedString(type, p + 1, n, e, seen) = {Found(p + 1 + n, seen, back)}
  <2>1. n < e - (p + 1) /\ {m \in 0..(e - (p + 1) - 1) : m = n} = {n}
    BY <1>1
  <2> HIDE DEF e, type, seen
  <2> QED
    BY <2>1 DEF SizedString
<1>7. GetSized(b, i, e, type, delim) = SizedString(type, p + 1, n, e, seen)
  <2> HIDE DEF e, type
  <2> DEFINE F(q) == IF ~q.ok THEN {Fail(q.next, {i} \cup q.reads)}
                     ELSE IF q.over > 0 THEN {Fail(q.next, {i} \cup q.reads)}
                     ELSE IF At(b, q.next) # delim
                     THEN {Fail(q.next + 1, {i} \cup q.reads \cup {q.next})}
                     ELSE SizedString(type, q.next + 1, q.sig, e,
                                      {i} \cup q.reads \cup {q.next})
  <2>1. GetSized(b, i, e, type, delim) = UNION {F(q) : q \in ParseHex(b, i + 1)}
    BY Zenon DEF GetSized
  <2>2. F(h) = SizedString(type, p + 1, n, e, seen)
    BY <1>5
  <2> HIDE DEF F, delim, seen
  <2>3. {F(q) : q \in ParseHex(b, i + 1)} = {F(h)}
    BY <1>5
  <2>4. GetSized(b, i, e, type, delim) = UNION {F(h)}
    BY <2>1, <2>3, Zenon
  <2> QED
    BY <2>2, <2>4
<1>8. Get(kind, b, i, e) = GetSized(b, i, e, type, delim)
  BY DEF Get
<1>9. SipcNext(b, i, e) = SizedString(type, p + 1, n, e, seen)
  <2>1. At(b, i + 1) \notin {"-", "i", "T", "F", "[", "]", "{", "}", "n"}
    BY <1>3 DEF HexRead, HexDigits
  <2>2. SipcNext(b, i, e) =
          UNION {IF g.ok
                 THEN NextNumber(b, g, e, {i} \cup g.reads \cup {g.next})
                 ELSE {Fail(g.next, {i} \cup g.reads)} : g \in ParseHex(b, i + 1)}
    BY <2>1, Zenon DEF SipcNext
  <2> HIDE DEF e
  <2> DEFINE F(g) == IF g.ok
                     THEN NextNumber(b, g, e, {i} \cup g.reads \cup {g.next})
                     ELSE {Fail(g.next, {i} \cup g.reads)}
  <2>5. F(h) = NextNumber(b, h, e, seen)
    BY <1>5
  <2>6. SipcNext(b, i, e) = UNION {F(g) : g \in ParseHex(b, i + 1)}
    BY <2>2
  <2> HIDE DEF F
  <2>3. SipcNext(b, i, e) = NextNumber(b, h, e, seen)
    BY <1>5, <2>5, <2>6
  <2>4. NextNumber(b, h, e, seen) = SizedString(type, p + 1, n, e, seen)
    BY <1>5 DEF NextNumber
  <2> QED
    BY <2>3, <2>4
<1> QED
  BY <1>6, <1>7, <1>8, <1>9 DEF Only

-------------------------------------------------------------------------------
(* Doubles: the fields, the odd part of the fraction and the rounding of a *)
(* fraction that needs none.                                               *)

(* The fields of a double.                                                 *)
LEMMA RealSize ==
  /\ W \in Nat /\ FracBits \in Nat /\ FracBits >= 1 /\ FracBits + 3 <= W
  /\ Bias \in Nat /\ Bias >= 1 /\ Special = 2 * Bias + 1
  /\ IntMax \in Nat /\ IntMax > Bias + FracBits
  /\ TwoTo[FracBits] \in Nat /\ TwoTo[FracBits] > 0
  /\ TwoTo[FracBits + 1] = 2 * TwoTo[FracBits]
<1>1. /\ W \in Nat /\ FracBits \in Nat /\ FracBits >= 1 /\ FracBits + 3 <= W
      /\ ExpBits \in 1..W /\ ExpBits >= 2 /\ ExpBits - 1 \in 1..W /\ ExpBits - 1 - 1 \in 0..W
      /\ IntMax \in Nat /\ IntMax > Bias + FracBits
  BY LexerAssumption, RealAssumption DEF ExpBits
<1> HIDE DEF ExpBits
<1>2. /\ TwoTo[ExpBits - 1 - 1] \in Nat /\ TwoTo[ExpBits - 1 - 1] >= 1
      /\ TwoTo[ExpBits - 1] = 2 * TwoTo[ExpBits - 1 - 1]
      /\ TwoTo[ExpBits] = 2 * TwoTo[ExpBits - 1]
  BY <1>1, TwoToIs
<1>3. Bias \in Nat /\ Bias >= 1 /\ Special = 2 * Bias + 1
  BY <1>2 DEF Bias, Special
<1>4. FracBits \in 0..W /\ FracBits + 1 \in 1..W /\ FracBits + 1 - 1 = FracBits
  BY <1>1
<1> QED
  BY <1>1, <1>3, <1>4, TwoToIs

(* A word has one width.                                                   *)
LEMMA WidthIs ==
  ASSUME NEW s \in Nat, NEW w \in Nat, w < W, TwoTo[w] <= s, s < TwoTo[w + 1]
  PROVE  s \in Word /\ s > 0 /\ LeadingZeros(s) = W - 1 - w
<1>1. W \in Nat /\ w \in 0..W /\ w + 1 \in 0..W /\ w + 1 <= W
  BY WordSize
<1>2. /\ TwoTo[w] \in Nat /\ TwoTo[w] > 0 /\ TwoTo[w + 1] \in Nat
      /\ TwoTo[W] \in Nat
  BY <1>1, TwoToIs, WordSize
<1>3. TwoTo[w + 1] <= TwoTo[W]
  <2>1. CASE w + 1 = W
    BY <1>2, <2>1
  <2>2. CASE w + 1 < W
    BY <1>1, <1>2, <2>2, TwoToLess
  <2> QED
    BY <1>1, <2>1, <2>2
<1>4. s \in Word /\ s > 0
  BY <1>2, <1>3 DEF Word
<1>5. PICK m \in 1..W : LeadingZeros(s) = W - m /\ TwoTo[m - 1] <= s /\ s < TwoTo[m]
  BY <1>4, LeadingZerosBound
<1>6. /\ m \in 0..W /\ m - 1 \in 0..W /\ m \in Nat /\ m - 1 \in Nat /\ m <= W
      /\ TwoTo[m] \in Nat /\ TwoTo[m - 1] \in Nat
  BY <1>1, <1>5, TwoToIs
<1>7. ~(m < w + 1)
  <2> SUFFICES ASSUME m < w + 1 PROVE FALSE
    OBVIOUS
  <2>1. CASE m = w
    BY <1>2, <1>5, <2>1
  <2>2. CASE m < w
    <3>1. 2 * TwoTo[m] <= TwoTo[w]
      BY <1>1, <1>6, <2>2, TwoToLess
    <3> QED
      BY <1>2, <1>5, <1>6, <3>1
  <2> QED
    BY <1>6, <2>1, <2>2
<1>8. ~(m > w + 1)
  <2> SUFFICES ASSUME m > w + 1 PROVE FALSE
    OBVIOUS
  <2>1. CASE m - 1 = w + 1
    BY <1>2, <1>5, <2>1
  <2>2. CASE m - 1 > w + 1
    <3>1. 2 * TwoTo[w + 1] <= TwoTo[m - 1]
      BY <1>1, <1>6, <2>2, TwoToLess
    <3> QED
      BY <1>2, <1>5, <1>6, <3>1
  <2> QED
    BY <1>6, <2>1, <2>2
<1>9. m = w + 1
  BY <1>6, <1>7, <1>8
<1> QED
  BY <1>1, <1>4, <1>5, <1>9

(* The odd part of the significand of a double, of width w + 1.            *)
OddPart(frac, c, s) ==
  /\ c \in 0..FracBits /\ s \in Word /\ s \in Nat /\ s > 0 /\ s % 2 = 1
  /\ TwoTo[FracBits] + frac = TwoTo[c] * s
  /\ TwoTo[FracBits - c] <= s /\ s < TwoTo[FracBits - c + 1]

LEMMA OddPartIs ==
  ASSUME NEW frac \in 0..(TwoTo[FracBits] - 1),
         NEW whole, whole = TwoTo[FracBits] + frac,
         NEW c, c = TrailingZeros(whole), NEW s, s = whole \div TwoTo[c]
  PROVE  OddPart(frac, c, s)
<1>1. /\ W \in Nat /\ FracBits \in Nat /\ FracBits + 3 <= W
      /\ TwoTo[FracBits] \in Nat /\ TwoTo[FracBits] > 0
      /\ TwoTo[FracBits + 1] = 2 * TwoTo[FracBits]
  BY RealSize
<1>2. whole \in Nat /\ TwoTo[FracBits] <= whole /\ whole < TwoTo[FracBits + 1]
  BY <1>1
<1>3. whole \in Word /\ whole > 0
  <2>1. FracBits < W
    BY <1>1
  <2> QED
    BY <1>1, <1>2, <2>1, WidthIs
<1>4. c \in 0..(W - 1) /\ s \in Nat /\ s > 0 /\ s % 2 = 1 /\ whole = TwoTo[c] * s
  BY <1>3, TrailingZerosIs
<1>5. c \in 0..W /\ TwoTo[c] \in Nat /\ TwoTo[c] > 0
  BY <1>1, <1>4, TwoToIs
<1>6. TwoTo[c] * s >= TwoTo[c] /\ TwoTo[c] * s >= s
  BY <1>4, <1>5
<1>7. c <= FracBits
  <2> SUFFICES ASSUME c > FracBits PROVE FALSE
    BY <1>1, <1>4
  <2>1. TwoTo[c] >= TwoTo[FracBits + 1]
    <3>1. CASE c = FracBits + 1
      BY <1>5, <3>1
    <3>2. CASE c > FracBits + 1
      BY <1>1, <1>4, <1>5, <3>2, TwoToLess
    <3> QED
      BY <1>1, <1>4, <3>1, <3>2
  <2> QED
    BY <1>1, <1>2, <1>4, <1>5, <1>6, <2>1
<1> DEFINE w == FracBits - c
<1>8. /\ w \in Nat /\ c \in Nat /\ c + w = FracBits /\ c + (w + 1) = FracBits + 1
      /\ w + 1 \in Nat /\ w \in 0..W /\ w + 1 \in 0..W
  BY <1>1, <1>4, <1>7
<1> HIDE DEF w
<1>9. /\ TwoTo[FracBits] = TwoTo[c] * TwoTo[w]
      /\ TwoTo[FracBits + 1] = TwoTo[c] * TwoTo[w + 1]
  <2>1. TwoTo[c + w] = TwoTo[c] * TwoTo[w]
    BY <1>1, <1>8, TwoToSum
  <2>2. TwoTo[c + (w + 1)] = TwoTo[c] * TwoTo[w + 1]
    <3>1. c + (w + 1) <= W
      BY <1>1, <1>8
    <3> QED
      BY <1>8, <3>1, TwoToSum
  <2> QED
    BY <1>8, <2>1, <2>2
<1>10. TwoTo[w] \in Nat /\ TwoTo[w + 1] \in Nat
  BY <1>8, TwoToIs
<1>11. \A p, x, y \in Nat : p > 0 /\ p * x < p * y => x < y
  OBVIOUS
<1>12. \A p, x, y \in Nat : p > 0 /\ p * x <= p * y => x <= y
  OBVIOUS
<1>13. TwoTo[w] <= s /\ s < TwoTo[w + 1]
  <2>1. TwoTo[c] * TwoTo[w] <= TwoTo[c] * s /\ TwoTo[c] * s < TwoTo[c] * TwoTo[w + 1]
    BY <1>2, <1>4, <1>9
  <2> QED
    BY <1>4, <1>5, <1>10, <1>11, <1>12, <2>1
<1>14. s \in Word
  BY <1>1, <1>3, <1>4, <1>6, WordSize DEF Word
<1> QED
  BY <1>1, <1>4, <1>7, <1>8, <1>13, <1>14 DEF OddPart, w

(* A number shifted left by up to seven bits is wider by as many.          *)
LEMMA ShiftWidens ==
  ASSUME NEW s \in Nat, NEW w \in Nat, NEW e \in Nat, w + e < W,
         TwoTo[w] <= s, s < TwoTo[w + 1]
  PROVE  /\ TwoTo[e] * s \in Word /\ TwoTo[e] * s \in Nat
         /\ LeadingZeros(TwoTo[e] * s) = W - 1 - (w + e)
<1>1. /\ W \in Nat /\ e \in 0..W /\ w \in 0..W /\ w + 1 \in 0..W /\ w + 1 \in Nat
      /\ e + w <= W /\ e + (w + 1) <= W /\ e + w = w + e /\ e + (w + 1) = (w + e) + 1
      /\ w + e \in Nat
  BY WordSize
<1>2. /\ TwoTo[e] \in Nat /\ TwoTo[e] > 0 /\ TwoTo[w] \in Nat /\ TwoTo[w + 1] \in Nat
  BY <1>1, TwoToIs
<1>3. TwoTo[w + e] = TwoTo[e] * TwoTo[w]
  <2>1. TwoTo[e + w] = TwoTo[e] * TwoTo[w]
    BY <1>1, TwoToSum
  <2> QED
    BY <1>1, <2>1
<1>4. TwoTo[(w + e) + 1] = TwoTo[e] * TwoTo[w + 1]
  <2>1. TwoTo[e + (w + 1)] = TwoTo[e] * TwoTo[w + 1]
    BY <1>1, TwoToSum
  <2> QED
    BY <1>1, <2>1
<1>5. \A p, x, y \in Nat : p > 0 /\ x < y => p * x < p * y
  OBVIOUS
<1>6. \A p, x, y \in Nat : x <= y => p * x <= p * y
  OBVIOUS
<1>7. TwoTo[e] * s \in Nat
  BY <1>2
<1>8. TwoTo[w + e] <= TwoTo[e] * s /\ TwoTo[e] * s < TwoTo[(w + e) + 1]
  BY <1>2, <1>3, <1>4, <1>5, <1>6
<1> DEFINE v == TwoTo[e] * s
           u == w + e
<1>9. v \in Nat /\ u \in Nat /\ u < W /\ TwoTo[u] <= v /\ v < TwoTo[u + 1]
  BY <1>1, <1>7, <1>8
<1> HIDE DEF v, u
<1>10. v \in Word /\ LeadingZeros(v) = W - 1 - u
  BY <1>9, WidthIs
<1> QED
  BY <1>7, <1>10 DEF v, u

(* The fraction of a double stands at the top of a word, and comes out of  *)
(* rounding and of encoding as it was.                                     *)
LEMMA EncodeBack ==
  ASSUME FracBits + 8 <= W, NEW neg, NEW uexp \in 1..(Special - 1),
         NEW frac \in 0..(TwoTo[FracBits] - 1), NEW e, e = uexp - Bias,
         NEW top \in {frac * TwoTo[W - FracBits]} \cup (IF frac = 0 THEN {1} ELSE {})
  PROVE  Encode(neg, Round(top), WrapInt(e)) = Float(neg, uexp, frac)
<1>1. /\ W \in Nat /\ FracBits \in Nat /\ Bias \in Nat /\ Special = 2 * Bias + 1
      /\ IntMax \in Nat /\ IntMax > Bias + FracBits /\ TwoTo[FracBits] \in Nat
  BY RealSize
<1>2. e >= 1 - Bias /\ e <= Bias /\ e \in Int /\ WrapInt(e) = e /\ Bias + e = uexp
  BY <1>1 DEF WrapInt
<1> DEFINE half == TwoTo[W - FracBits - 1]
<1>3. half \in Nat /\ half > 1 /\ TwoTo[W - FracBits] = 2 * half
  <2>1. /\ W - FracBits \in 1..W /\ W - FracBits - 1 \in 1..W /\ W - FracBits - 2 \in 0..W
        /\ W - FracBits - 1 - 1 = W - FracBits - 2
    BY <1>1
  <2>2. /\ TwoTo[W - FracBits - 1] = 2 * TwoTo[W - FracBits - 2]
        /\ TwoTo[W - FracBits - 2] \in Nat /\ TwoTo[W - FracBits - 2] > 0
    BY <2>1, TwoToIs
  <2> QED
    BY <2>1, <2>2, TwoToIs
<1>4. Round(top) = top /\ top \div TwoTo[W - FracBits] = frac
  <2>1. Round(top) = IF (top \div half) % 2 = 1 THEN (top + half) % TwoTo[W] ELSE top
    BY DEF Round
  <2> HIDE DEF half
  <2>2. frac \in Nat /\ 2 * frac \in Nat /\ (2 * frac) % 2 = 0
    BY <1>1
  <2>3. CASE top = frac * TwoTo[W - FracBits]
    <3>1. top = half * (2 * frac) + 0 /\ top = (2 * half) * frac + 0
      BY <1>3, <2>2, <2>3
    <3>2. top \in Nat
      BY <1>3, <2>2, <2>3
    <3>3. top \div half = 2 * frac
      <4>1. 0 \in 0..(half - 1) /\ 2 * frac \in Int /\ half > 0
        BY <1>3, <2>2
      <4> QED
        BY <1>3, <3>1, <3>2, <4>1, DivUnique
    <3>4. top \div (2 * half) = frac
      <4>1. 0 \in 0..(2 * half - 1) /\ frac \in Int /\ 2 * half > 0 /\ 2 * half \in Nat
        BY <1>3, <2>2
      <4> QED
        BY <3>1, <3>2, <4>1, DivUnique
    <3> QED
      BY <1>3, <2>1, <2>2, <3>3, <3>4
  <2>4. CASE frac = 0 /\ top = 1
    <3>1. 1 = half * 0 + 1 /\ 1 = (2 * half) * 0 + 1
      BY <1>3
    <3>2. 1 \div half = 0
      <4>1. 1 \in 0..(half - 1) /\ half > 0
        BY <1>3
      <4> QED
        BY <1>3, <3>1, <4>1, DivUnique
    <3>3. 1 \div (2 * half) = 0
      <4>1. 1 \in 0..(2 * half - 1) /\ 2 * half > 0 /\ 2 * half \in Nat
        BY <1>3
      <4> QED
        BY <3>1, <4>1, DivUnique
    <3> QED
      BY <1>3, <2>1, <2>4, <3>2, <3>3
  <2> QED
    BY <2>3, <2>4
<1>5. Encode(neg, top, e) = Float(neg, uexp, frac)
  <2>1. ~(e < 1 - Bias) /\ ~(e > Bias)
    BY <1>1, <1>2
  <2> QED
    BY <1>2, <1>4, <2>1, Zenon DEF Encode
<1> QED
  BY <1>2, <1>4, <1>5, Zenon

(* v x 2^exp is the value of the double with these fields, and v is its    *)
(* odd part, or that shifted left by up to seven bits.                     *)
OddShifted(v, exp, frac, uexp, c, s, e) ==
  /\ OddPart(frac, c, s) /\ e \in 0..7 /\ v = TwoTo[e] * s
  /\ exp \in Int /\ exp + e + FracBits - c = uexp - Bias

(* build_double makes the double again of these.                           *)
LEMMA BuildBack ==
  ASSUME FracBits + 8 <= W, NEW neg, NEW uexp \in 1..(Special - 1),
         NEW frac \in 0..(TwoTo[FracBits] - 1), NEW c, NEW s, NEW e, NEW v, NEW exp,
         OddShifted(v, exp, frac, uexp, c, s, e)
  PROVE  v \in Word /\ BuildDouble(neg, v, exp) = {Float(neg, uexp, frac)}
<1>12. /\ OddPart(frac, c, s) /\ e \in 0..7 /\ v = TwoTo[e] * s
       /\ exp \in Int /\ exp + e + FracBits - c = uexp - Bias
  BY DEF OddShifted
<1> DEFINE w == FracBits - c
           clz == LeadingZeros(v)
<1>1. /\ W \in Nat /\ W >= 12 /\ FracBits \in Nat /\ c \in 0..FracBits /\ s \in Nat /\ s > 0
      /\ w \in Nat /\ e \in Nat /\ w + e < W
      /\ TwoTo[w] <= s /\ s < TwoTo[w + 1]
      /\ TwoTo[FracBits] \in Nat /\ TwoTo[FracBits] + frac = TwoTo[c] * s
  BY <1>12, RealSize, WordSize DEF OddPart
<1>2. v \in Word /\ v \in Nat /\ clz = W - 1 - (w + e)
  <2> HIDE DEF w
  <2> QED
    BY <1>1, <1>12, ShiftWidens
<1>3. /\ TwoTo[e] \in Nat /\ TwoTo[e] > 0 /\ TwoTo[c] \in Nat /\ TwoTo[c] > 0
  <2>1. e \in 0..W /\ c \in 0..W
    BY <1>1, <1>12
  <2> QED
    BY <2>1, TwoToIs
<1>4. v # 0
  BY <1>1, <1>3, <1>12
<1>5. exp + W - 1 - clz = uexp - Bias
  BY <1>1, <1>2, <1>12, RealSize
<1> DEFINE top == frac * TwoTo[W - FracBits]
<1>6. ASSUME clz + 1 # W PROVE ShiftLeft(v, clz + 1) = top
  <2> DEFINE k == clz + 1
             g == W - FracBits
             P == TwoTo[g]
  <2>1. /\ k \in Nat /\ g \in Nat /\ e + k = c + g /\ e + k <= W /\ g + FracBits = W
        /\ k \in 0..W /\ g \in 0..W
    BY <1>1, <1>2, RealSize
  <2> HIDE DEF k, g
  <2>2. TwoTo[k] \in Nat /\ P \in Nat /\ P > 0
    BY <2>1, TwoToIs
  <2>3. TwoTo[e] * TwoTo[k] = TwoTo[c] * P
    <3>1. TwoTo[e + k] = TwoTo[e] * TwoTo[k]
      BY <1>1, <2>1, TwoToSum
    <3>2. TwoTo[c + g] = TwoTo[c] * TwoTo[g]
      <4>1. c \in Nat /\ c + g <= W
        BY <1>1, <2>1
      <4> QED
        BY <2>1, <4>1, TwoToSum
    <3> QED
      BY <2>1, <3>1, <3>2
  <2>4. TwoTo[W] = P * TwoTo[FracBits]
    <3>1. g + FracBits <= W
      BY <1>1, <2>1
    <3>2. TwoTo[g + FracBits] = TwoTo[g] * TwoTo[FracBits]
      BY <1>1, <2>1, <3>1, TwoToSum
    <3> QED
      BY <2>1, <3>2
  <2> HIDE DEF P
  <2>5. v * TwoTo[k] = TwoTo[W] * 1 + frac * P
    <3>1. v * TwoTo[k] = s * (TwoTo[e] * TwoTo[k])
      BY <1>1, <1>3, <1>12, <2>2
    <3>2. s * (TwoTo[c] * P) = (TwoTo[c] * s) * P
      BY <1>1, <1>3, <2>2
    <3>3. (TwoTo[FracBits] + frac) * P = P * TwoTo[FracBits] + frac * P
      BY <1>1, <2>2
    <3>4. (TwoTo[c] * s) * P = (TwoTo[FracBits] + frac) * P
      BY <1>1
    <3>5. v * TwoTo[k] = TwoTo[W] + frac * P
      BY <2>3, <2>4, <3>1, <3>2, <3>3, <3>4
    <3>6. TwoTo[W] * 1 = TwoTo[W]
      BY WordSize
    <3> QED
      BY <3>5, <3>6
  <2>6. frac * P \in 0..(TwoTo[W] - 1)
    <3>1. \A p, x, y \in Nat : p > 0 /\ x < y => x * p < p * y /\ x * p \in Nat
      OBVIOUS
    <3>2. frac \in Nat /\ frac < TwoTo[FracBits]
      BY <1>1
    <3>3. frac * P < P * TwoTo[FracBits] /\ frac * P \in Nat
      BY <1>1, <2>2, <3>1, <3>2
    <3> QED
      BY <1>1, <2>2, <2>4, <3>3
  <2>7. (v * TwoTo[k]) % TwoTo[W] = frac * P
    <3> DEFINE x == v * TwoTo[k]
               m == TwoTo[W]
               r == frac * P
    <3>1. x \in Nat /\ m \in Nat /\ m > 0 /\ 1 \in Int /\ r \in 0..(m - 1) /\ x = m * 1 + r
      <4>1. TwoTo[W] \in Nat /\ TwoTo[W] > 0 /\ v * TwoTo[k] \in Nat
        BY <1>2, <2>2, WordSize
      <4> QED
        BY <2>5, <2>6, <4>1
    <3> HIDE DEF x, m, r
    <3>2. x % m = r
      BY <3>1, DivUnique
    <3> QED
      BY <3>2 DEF x, m, r
  <2> QED
    BY <2>7 DEF ShiftLeft, k, P, g
<1>7. ASSUME clz + 1 = W PROVE v = 1 /\ frac = 0 /\ top = 0
  <2>1. w = 0 /\ e = 0
    BY <1>1, <1>2, <1>7, <1>12
  <2>2. c = FracBits /\ TwoTo[0] = 1 /\ s < TwoTo[0 + 1]
    BY <1>1, <2>1, TwoToIs
  <2>3. 0 + 1 = 1 /\ 1 \in 1..W /\ 1 - 1 = 0
    BY <1>1
  <2>4. TwoTo[1] = 2
    BY <2>2, <2>3, TwoToIs
  <2>5. s = 1
    BY <1>1, <2>2, <2>3, <2>4
  <2>6. frac = 0
    BY <1>1, <2>2, <2>5
  <2>7. TwoTo[W - FracBits] \in Nat
    <3>1. W - FracBits \in 0..W
      BY <1>1
    <3> QED
      BY <3>1, TwoToIs
  <2> QED
    BY <1>12, <2>1, <2>2, <2>5, <2>6, <2>7
<1> DEFINE shifted == IF clz + 1 = W THEN {0, v} ELSE {ShiftLeft(v, clz + 1)}
<1>8. BuildDouble(neg, v, exp) =
        {Encode(neg, Round(x), WrapInt(exp + W - 1 - clz)) : x \in shifted}
  BY <1>4 DEF BuildDouble
<1>9. shifted # {} /\ shifted \subseteq {top} \cup (IF frac = 0 THEN {1} ELSE {})
  <2> HIDE DEF clz, top
  <2>1. CASE clz + 1 = W
    BY <1>7, <2>1
  <2>2. CASE clz + 1 # W
    BY <1>6, <2>2
  <2> QED
    BY <2>1, <2>2
<1> HIDE DEF shifted, clz
<1>10. ASSUME NEW x \in shifted
       PROVE  Encode(neg, Round(x), WrapInt(exp + W - 1 - clz)) = Float(neg, uexp, frac)
  <2>1. x \in {top} \cup (IF frac = 0 THEN {1} ELSE {})
    BY <1>9
  <2> QED
    BY <1>5, <2>1, EncodeBack
<1>11. BuildDouble(neg, v, exp) = {Float(neg, uexp, frac)}
  <2> DEFINE F(x) == Encode(neg, Round(x), WrapInt(exp + W - 1 - clz))
  <2>1. \A x \in shifted : F(x) = Float(neg, uexp, frac)
    BY <1>10
  <2>2. BuildDouble(neg, v, exp) = {F(x) : x \in shifted}
    BY <1>8
  <2> HIDE DEF F
  <2> QED
    BY <1>9, <2>1, <2>2
<1> QED
  BY <1>2, <1>11

(* A sign in front of a number, or of its exponent.                        *)
LEMMA MinusIs ==
  ASSUME NEW minus \in BOOLEAN, NEW b, NEW i \in Nat
  PROVE  /\ Minus(Sign(minus)) \in Seq(NumberBytes) /\ Len(Minus(Sign(minus))) \in Nat
         /\ i + 1 + Len(Minus(Sign(minus))) = After(i, minus)
         /\ Spells(b, i + 1, Minus(Sign(minus))) => (minus => At(b, i + 1) = "-")
<1>1. CASE minus
  <2>1. /\ Minus(Sign(minus)) = <<"-">> /\ "-" \in NumberBytes /\ i + 1 \in Nat
        /\ After(i, minus) = i + 2 /\ i + 1 + 1 = i + 2
    BY <1>1 DEF Minus, Sign, NumberBytes, After
  <2>2. /\ <<"-">> \in Seq(NumberBytes) /\ Len(<<"-">>) = 1
        /\ Spells(b, i + 1, <<"-">>) <=> At(b, i + 1) = "-"
    BY <2>1, SpellsByte
  <2> QED
    BY <2>1, <2>2
<1>2. CASE ~minus
  <2>1. /\ Minus(Sign(minus)) = <<>> /\ After(i, minus) = i + 1 /\ i + 1 + 0 = i + 1
    BY <1>2 DEF Minus, Sign, After
  <2> QED
    BY <1>2, <2>1
<1> QED
  BY <1>1, <1>2

(* What format_double writes for a whole number s shifted by exp.          *)
LEMMA CanonicalIs ==
  ASSUME NEW neg, NEW s, NEW exp
  PROVE  Canonical(WordRoom, neg, s, exp) =
           IF exp \in 0..7
           THEN Minus(neg) \o FormatHex(ShiftLeft(s, exp))
           ELSE Minus(neg) \o (FormatHex(s) \o <<"p">> \o Minus(IF exp < 0 THEN 1 ELSE 0)
                               \o FormatHex(Magnitude(exp)))
  BY DEF Canonical, FormatHex

(* A text that stands behind a sign.                                       *)
LEMMA SignedText ==
  ASSUME NEW minus \in BOOLEAN, NEW t \in Seq(NumberBytes), NEW b, NEW i,
         Argument(b, i, Minus(Sign(minus)) \o t)
  PROVE  LET k == After(i, minus)
         IN  /\ i \in Nat /\ Len(b) \in Nat /\ k \in Nat /\ k > 0
             /\ Signed(b, i, minus, TRUE) /\ Spells(b, k, t)
             /\ i + 1 + Len(Minus(Sign(minus)) \o t) = k + Len(t)
             /\ At(b, k + Len(t)) \in {"SP", "NL"}
<1> DEFINE sign == Minus(Sign(minus))
           k    == After(i, minus)
<1>1. /\ Len(b) \in Nat /\ i \in Nat /\ At(b, i) = "SP" /\ i + 1 \in Nat
      /\ Spells(b, i + 1, sign \o t)
      /\ At(b, i + 1 + Len(sign \o t)) \in {"SP", "NL"}
  BY ArgumentIs
<1>2. /\ sign \in Seq(NumberBytes) /\ Len(sign) \in Nat
      /\ i + 1 + Len(sign) = k
      /\ Spells(b, i + 1, sign) => (minus => At(b, i + 1) = "-")
  BY <1>1, MinusIs
<1>6. k \in Nat /\ k > 0
  BY <1>1 DEF After
<1> HIDE DEF sign, k
<1>3. /\ Len(sign \o t) = Len(sign) + Len(t) /\ Len(t) \in Nat
      /\ Spells(b, i + 1, sign) /\ Spells(b, i + 1 + Len(sign), t)
  BY <1>1, <1>2, SpellsConcat
<1>4. i + 1 + Len(sign \o t) = k + Len(t)
  BY <1>1, <1>2, <1>3
<1>5. Signed(b, i, minus, TRUE)
  BY <1>1, <1>2, <1>3 DEF Signed
<1> QED
  BY <1>1, <1>2, <1>3, <1>4, <1>5, <1>6 DEF sign, k

(* A text with an exponent.                                                *)
PowerOf(t, s, minus, x) ==
  t = FormatHex(s) \o <<"p">> \o Minus(Sign(minus)) \o FormatHex(x)

(* Where its parts stand: the p at p, the exponent behind it.              *)
PowerSpelt(b, k, p, t, s, minus, x) ==
  /\ t \in Seq(NumberBytes) /\ p \in Nat
  /\ k + Len(t) = After(p, minus) + Len(FormatHex(x))
  /\ Spells(b, k, t) =>
       /\ Spells(b, k, FormatHex(s)) /\ At(b, p) = "p"
       /\ minus => At(b, p + 1) = "-"
       /\ Spells(b, After(p, minus), FormatHex(x))

(* Both numbers and both signs of such a text.                             *)
LEMMA PowerText ==
  ASSUME NEW s \in Word, NEW x \in Word, NEW minus \in BOOLEAN, NEW b,
         NEW k \in Nat, NEW t, PowerOf(t, s, minus, x)
  PROVE  PowerSpelt(b, k, k + Len(FormatHex(s)), t, s, minus, x)
<1> DEFINE p    == k + Len(FormatHex(s))
           one  == <<"p">>
           sign == Minus(Sign(minus))
           base == FormatHex(s)
           last == FormatHex(x)
           two  == base \o one
           all  == two \o sign
           next2 == After(p, minus)
<1>1. /\ base \in Seq(NumberBytes) /\ Len(base) \in Nat
      /\ last \in Seq(NumberBytes) /\ Len(last) \in Nat
  BY HexText
<1>2. p \in Nat /\ p + 1 \in Nat
  BY <1>1
<1>3. one \in Seq(NumberBytes) /\ Len(one) = 1 /\ (Spells(b, p, one) <=> At(b, p) = "p")
  <2> HIDE DEF p
  <2>1. "p" \in NumberBytes
    BY DEF NumberBytes
  <2> QED
    BY <1>2, <2>1, SpellsByte
<1>4. /\ sign \in Seq(NumberBytes) /\ Len(sign) \in Nat
      /\ p + 1 + Len(sign) = next2
      /\ Spells(b, p + 1, sign) => (minus => At(b, p + 1) = "-")
  <2> HIDE DEF p
  <2> QED
    BY <1>2, MinusIs
<1>5. t = all \o last
  BY DEF PowerOf
<1>12. k + Len(base) = p
  OBVIOUS
<1> HIDE DEF one, sign, base, last, p, next2
<1>6. /\ two \in Seq(NumberBytes) /\ Len(two) = Len(base) + Len(one)
      /\ Spells(b, k, two) => Spells(b, k, base) /\ Spells(b, k + Len(base), one)
  BY <1>1, <1>3, SpellsConcat, Zenon
<1> HIDE DEF two
<1>13. sign \in Seq(NumberBytes)
  BY <1>4
<1>7. /\ all \in Seq(NumberBytes) /\ Len(all) = Len(two) + Len(sign)
      /\ Spells(b, k, all) => Spells(b, k, two) /\ Spells(b, k + Len(two), sign)
  BY <1>6, <1>13, SpellsConcat, Zenon
<1> HIDE DEF all
<1>8. /\ all \o last \in Seq(NumberBytes) /\ Len(all \o last) = Len(all) + Len(last)
      /\ Spells(b, k, all \o last) => Spells(b, k, all) /\ Spells(b, k + Len(all), last)
  BY <1>1, <1>7, SpellsConcat, Zenon
<1>9. k + Len(two) = p + 1 /\ k + Len(all) = next2
  <2>2. k + Len(two) = p + 1
    BY <1>1, <1>3, <1>6, <1>12
  <2>3. Len(two) \in Nat
    BY <1>1, <1>3, <1>6
  <2>4. k + (Len(two) + Len(sign)) = (k + Len(two)) + Len(sign)
    BY <1>4, <2>3
  <2> QED
    BY <1>4, <1>7, <2>2, <2>4
<1>10. k + Len(t) = next2 + Len(last)
  <2>1. Len(all) \in Nat
    BY <1>7
  <2>2. k + (Len(all) + Len(last)) = (k + Len(all)) + Len(last)
    BY <1>1, <2>1
  <2> QED
    BY <1>5, <1>8, <1>9, <2>2
<1>11. Spells(b, k, t) => /\ Spells(b, k, base) /\ At(b, p) = "p"
                          /\ minus => At(b, p + 1) = "-"
                          /\ Spells(b, next2, last)
  BY <1>3, <1>4, <1>5, <1>6, <1>7, <1>8, <1>9, <1>12
<1> QED
  BY <1>2, <1>5, <1>8, <1>10, <1>11 DEF PowerSpelt, base, last, p, next2

(* An odd number shifted by less than eight bits is not a multiple of 256. *)
LEMMA ShiftedOdd ==
  ASSUME NEW s \in Nat, s % 2 = 1, NEW e \in 0..7
  PROVE  (TwoTo[e] * s) % 256 # 0
<1> DEFINE g == 7 - e
<1>1. /\ W \in Nat /\ 8 <= W /\ e \in Nat /\ g \in Nat /\ g + 1 \in Nat
      /\ e + (g + 1) = 8 /\ e \in 0..W /\ g \in 0..W /\ g + 1 \in 1..W
      /\ g + 1 - 1 = g
  BY WordSize
<1> HIDE DEF g
<1>2. /\ TwoTo[e] \in Nat /\ TwoTo[e] > 0 /\ TwoTo[g] \in Nat
      /\ TwoTo[g + 1] = 2 * TwoTo[g]
  BY <1>1, TwoToIs
<1>3. TwoTo[8] = 256
  <2>1. 4 \in Nat /\ 4 + 4 <= W /\ 4 + 4 = 8
    BY <1>1
  <2>2. TwoTo[4 + 4] = TwoTo[4] * TwoTo[4]
    BY <2>1, TwoToSum
  <2> QED
    BY <2>1, <2>2, WordSize
<1>4. 256 = TwoTo[e] * TwoTo[g + 1]
  <2>1. TwoTo[e + (g + 1)] = TwoTo[e] * TwoTo[g + 1]
    BY <1>1, TwoToSum
  <2> QED
    BY <1>1, <1>3, <2>1
<1> SUFFICES ASSUME (TwoTo[e] * s) % 256 = 0 PROVE FALSE
  OBVIOUS
<1> DEFINE v == TwoTo[e] * s
           h == v \div 256
<1>5. v \in Nat /\ h \in Nat /\ v = 256 * h
  <2>1. v \in Nat
    <3>1. \A x, y \in Nat : x * y \in Nat
      OBVIOUS
    <3> QED
      BY <1>2, <3>1
  <2> HIDE DEF v
  <2>2. v % 256 = 0
    BY DEF v
  <2> QED
    BY <2>1, <2>2
<1> HIDE DEF h
<1>6. TwoTo[e] * s = TwoTo[e] * (2 * (TwoTo[g] * h))
  <2>1. 256 * h = (TwoTo[e] * (2 * TwoTo[g])) * h
    BY <1>2, <1>4
  <2>2. (TwoTo[e] * (2 * TwoTo[g])) * h = TwoTo[e] * (2 * (TwoTo[g] * h))
    BY <1>2, <1>5
  <2> QED
    BY <1>5, <2>1, <2>2
<1>7. \A p, x, y \in Nat : p > 0 /\ p * x = p * y => x = y
  OBVIOUS
<1> DEFINE n == TwoTo[g] * h
<1>8. n \in Nat
  BY <1>2, <1>5
<1> HIDE DEF n
<1>9. s = 2 * n
  <2>1. TwoTo[e] * s = TwoTo[e] * (2 * n) /\ 2 * n \in Nat
    BY <1>6, <1>8 DEF n
  <2> QED
    BY <1>2, <1>7, <2>1
<1> QED
  BY <1>8, <1>9

(* parse_real as sipc_double calls it.                                     *)
SignedRead(b, i, stop, minus, sig, exp) == RealRead(b, i, TRUE, stop, minus, sig, exp)

(* sipc_double, but for build_double.                                      *)
LEMMA DoubleOf ==
  ASSUME NEW b, NEW i \in Nat, NEW stop, NEW minus, NEW sig, NEW exp,
         At(b, i + 1) # "n", SignedRead(b, i, stop, minus, sig, exp)
  PROVE  SipcDouble(b, i) = BuildDouble(Sign(minus), sig, exp)
<1>1. ~Spells(b, i, NanWord)
  <2>1. Spells(b, i, NanWord) => At(b, i + 2 - 1) = "n"
    BY DEF Spells, NanWord
  <2>2. i + 2 - 1 = i + 1
    OBVIOUS
  <2> QED
    BY <2>1, <2>2
<1>2. PICK looked : ParseReal(b, i, TRUE) =
         {[ok |-> TRUE, next |-> stop, reads |-> looked, neg |-> minus,
           sig |-> sig, exp |-> exp]}
  BY DEF SignedRead, RealRead
<1> DEFINE r == [ok |-> TRUE, next |-> stop, reads |-> looked, neg |-> minus,
                 sig |-> sig, exp |-> exp]
           F(q) == IF q.ok THEN BuildDouble(Sign(q.neg), q.sig, q.exp) ELSE {}
           D == BuildDouble(Sign(minus), sig, exp)
<1>3. F(r) = D
  <2>1. r.ok = TRUE /\ r.neg = minus /\ r.sig = sig /\ r.exp = exp
    OBVIOUS
  <2> HIDE DEF r
  <2> QED
    BY <2>1
<1>4. SipcDouble(b, i) = UNION {F(q) : q \in ParseReal(b, i, TRUE)}
  BY <1>1 DEF SipcDouble
<1>5. ParseReal(b, i, TRUE) = {r}
  BY <1>2
<1> HIDE DEF F, r, D
<1>6. {F(q) : q \in ParseReal(b, i, TRUE)} = {F(r)}
  BY <1>5
<1>7. SipcDouble(b, i) = D
  BY <1>3, <1>4, <1>6
<1> QED
  BY <1>7 DEF D

(* A normal double: its odd part, with the bits of an exponent of 0 to 7   *)
(* shifted in, or with the exponent behind it.                             *)
LEMMA NormalBack ==
  ASSUME FracBits + 8 <= W, NEW b, NEW i, NEW d \in Floats,
         d.uexp # 0, d.uexp # Special, Argument(b, i, FormatDouble(d))
  PROVE  SipcDouble(b, i) = {d}
<1> DEFINE uexp  == d.uexp
           frac  == d.frac
           minus == d.neg = 1
           whole == TwoTo[FracBits] + frac
           c     == TrailingZeros(whole)
           s     == whole \div TwoTo[c]
           exp   == uexp - Bias - (FracBits - c)
           k     == After(i, minus)
<1>1. /\ minus \in BOOLEAN /\ Sign(minus) = d.neg
      /\ frac \in 0..(TwoTo[FracBits] - 1) /\ uexp \in 1..(Special - 1)
      /\ d = Float(Sign(minus), uexp, frac)
      /\ FracBits \in Nat /\ Bias \in Nat /\ Special = 2 * Bias + 1
      /\ IntMax \in Nat /\ IntMax > Bias + FracBits
  BY RealSize DEF Floats, Float, Sign
<1>2. OddPart(frac, c, s)
  BY <1>1, OddPartIs
<1>3. FormatDouble(d) = Canonical(WordRoom, Sign(minus), s, exp)
  BY <1>1 DEF FormatDouble, FormatFloat
<1> HIDE DEF uexp, frac, whole, c, s, minus
<1>4. c \in 0..FracBits /\ s \in Word /\ s \in Nat /\ s > 0 /\ s % 2 = 1
  BY <1>2 DEF OddPart
<1>5. exp \in Int /\ exp + FracBits - c = uexp - Bias /\ Magnitude(exp) \in 0..IntMax
  BY <1>1, <1>4 DEF Magnitude
<1> HIDE DEF exp
<1>6. ASSUME NEW t \in Seq(NumberBytes), FormatDouble(d) = Minus(Sign(minus)) \o t
      PROVE  /\ i \in Nat /\ Len(b) \in Nat /\ k \in Nat /\ k > 0
             /\ Signed(b, i, minus, TRUE) /\ Spells(b, k, t)
             /\ At(b, k + Len(t)) \in {"SP", "NL"}
  <2>1. Argument(b, i, Minus(Sign(minus)) \o t)
    BY <1>6
  <2> QED
    BY <1>1, <2>1, SignedText
<1>7. ASSUME NEW v, NEW x, NEW stop, NEW e, OddShifted(v, x, frac, uexp, c, s, e),
             SignedRead(b, i, stop, minus, v, x), i \in Nat,
             Signed(b, i, minus, TRUE), At(b, k) \in HexDigits
      PROVE  SipcDouble(b, i) = {d}
  <2>1. BuildDouble(Sign(minus), v, x) = {d}
    BY <1>1, <1>7, BuildBack
  <2>2. At(b, i + 1) # "n"
    BY <1>1, <1>7 DEF Signed, After, HexDigits
  <2> HIDE DEF k
  <2> QED
    BY <1>7, <2>1, <2>2, DoubleOf
<1>8. CASE exp \in 0..7
  <2> DEFINE v == TwoTo[exp] * s
             t == FormatHex(v)
  <2>1. OddShifted(v, 0, frac, uexp, c, s, exp)
    BY <1>1, <1>2, <1>4, <1>5, <1>8 DEF OddShifted
  <2> HIDE DEF v
  <2>2. v \in Word
    BY <1>1, <2>1, BuildBack
  <2>3. ShiftLeft(s, exp) = v
    <3>1. exp \in 0..(W - 1)
      BY <1>8, WordSize
    <3> QED
      BY <1>4, <2>2, <3>1, ShiftBack DEF v
  <2>4. FormatDouble(d) = Minus(Sign(minus)) \o t
    BY <1>3, <1>8, <2>3, CanonicalIs
  <2>5. v % 256 # 0 /\ v # 0
    <3>1. v % 256 # 0
      BY <1>4, <1>8, ShiftedOdd DEF v
    <3>2. 0 % 256 = 0
      OBVIOUS
    <3> QED
      BY <3>1, <3>2
  <2>6. t \in Seq(NumberBytes) /\ Len(t) \in Nat
    BY <2>2, HexText
  <2>7. /\ i \in Nat /\ Len(b) \in Nat /\ k \in Nat /\ k > 0
        /\ Signed(b, i, minus, TRUE) /\ Spells(b, k, t)
        /\ At(b, k + Len(t)) \in {"SP", "NL"}
    BY <1>6, <2>4, <2>6
  <2>8. StandsAt(b, k, t) /\ At(b, k + Len(t)) # "p"
    <3> HIDE DEF k, t
    <3> QED
      BY <2>7 DEF StandsAt, HexDigits
  <2>9. SignedRead(b, i, k + Len(t), minus, v, 0)
    BY <2>2, <2>5, <2>7, <2>8, PlainBack DEF SignedRead
  <2>10. At(b, k) \in HexDigits
    <3> HIDE DEF k
    <3> QED
      BY <2>2, <2>7, <2>8, HexBack DEF HexRead
  <2> QED
    BY <1>7, <2>1, <2>7, <2>9, <2>10
<1>9. CASE exp \notin 0..7
  <2> DEFINE x    == Magnitude(exp)
             less == exp < 0
             t    == FormatHex(s) \o <<"p">> \o Minus(Sign(less)) \o FormatHex(x)
             p    == k + Len(FormatHex(s))
  <2>1. FormatDouble(d) = Minus(Sign(minus)) \o t
    <3>1. Sign(less) = IF exp < 0 THEN 1 ELSE 0
      BY DEF Sign
    <3>2. FormatDouble(d) =
            Minus(Sign(minus)) \o (FormatHex(s) \o <<"p">>
              \o Minus(IF exp < 0 THEN 1 ELSE 0) \o FormatHex(Magnitude(exp)))
      BY <1>3, <1>9, CanonicalIs
    <3> QED
      BY <3>1, <3>2
  <2>2. /\ x \in 0..IntMax /\ x \in Word /\ less \in BOOLEAN
        /\ exp = (IF less THEN -x ELSE x)
    <3>1. IntMax < TwoTo[W] /\ TwoTo[W] \in Nat
      <4>1. TwoTo[W - 1] \in Nat /\ TwoTo[W] = 2 * TwoTo[W - 1]
        BY WordSize
      <4> QED
        BY <1>1, <4>1, LexerAssumption
    <3>2. x \in 0..IntMax /\ x \in Word
      BY <1>1, <1>5, <3>1 DEF Word
    <3> QED
      BY <1>5, <3>2 DEF Magnitude
  <2>3. PowerOf(t, s, less, x)
    BY DEF PowerOf
  <2> HIDE DEF x, less, t
  <2>4. t \in Seq(NumberBytes)
    <3>1. k \in Nat
      BY ArgumentIs DEF After
    <3> HIDE DEF k
    <3> QED
      BY <1>4, <2>2, <2>3, <3>1, PowerText DEF PowerSpelt
  <2>5. /\ i \in Nat /\ Len(b) \in Nat /\ k \in Nat /\ k > 0
        /\ Signed(b, i, minus, TRUE) /\ Spells(b, k, t)
        /\ At(b, k + Len(t)) \in {"SP", "NL"}
    BY <1>6, <2>1, <2>4
  <2>6. /\ p \in Nat
        /\ k + Len(t) = After(p, less) + Len(FormatHex(x))
        /\ Spells(b, k, FormatHex(s)) /\ At(b, p) = "p"
        /\ less => At(b, p + 1) = "-"
        /\ Spells(b, After(p, less), FormatHex(x))
    <3> DEFINE q == k + Len(FormatHex(s))
    <3> HIDE DEF k
    <3>1. PowerSpelt(b, k, q, t, s, less, x)
      BY <1>4, <2>2, <2>3, <2>5, PowerText
    <3>2. p = q
      OBVIOUS
    <3> HIDE DEF p, q
    <3> QED
      BY <2>5, <3>1, <3>2 DEF PowerSpelt
  <2>7. StandsAt(b, k, FormatHex(s)) /\ StandsAt(b, After(p, less), FormatHex(x))
    <3>1. At(b, k + Len(FormatHex(s))) \notin HexDigits
      BY <2>6 DEF HexDigits
    <3>2. At(b, After(p, less) + Len(FormatHex(x))) \notin HexDigits
      <4>1. At(b, After(p, less) + Len(FormatHex(x))) \in {"SP", "NL"}
        BY <2>5, <2>6, Zenon
      <4> QED
        BY <4>1 DEF HexDigits
    <3> QED
      BY <2>6, <3>1, <3>2, Zenon DEF StandsAt
  <2>8. RealRead(b, i, TRUE, After(p, less) + Len(FormatHex(x)), minus, s,
                 IF less THEN -x ELSE x)
    <3>1. p = After(i, minus) + Len(FormatHex(s))
      OBVIOUS
    <3> HIDE DEF p
    <3> QED
      BY <1>4, <2>2, <2>5, <2>6, <2>7, <3>1, PowerBack DEF k
  <2>9. OddShifted(s, exp, frac, uexp, c, s, 0)
    <3>1. s = TwoTo[0] * s /\ 0 \in 0..7 /\ exp + 0 + FracBits - c = uexp - Bias
      BY <1>1, <1>4, <1>5, TwoToIs
    <3> QED
      BY <1>2, <1>5, <3>1 DEF OddShifted
  <2>10. At(b, k) \in HexDigits
    <3> HIDE DEF k
    <3> QED
      BY <1>4, <2>5, <2>7, HexBack DEF HexRead
  <2>11. SignedRead(b, i, After(p, less) + Len(FormatHex(x)), minus, s, exp)
    BY <2>2, <2>8 DEF SignedRead
  <2> QED
    BY <1>7, <2>5, <2>9, <2>10, <2>11
<1> QED
  BY <1>8, <1>9

(* Zero, a subnormal double, and the text of zero.                         *)
LEMMA ZeroBack ==
  ASSUME NEW b, NEW i, Argument(b, i, <<"0">>)
  PROVE  SipcDouble(b, i) = {Zero}
<1>1. 0 \in Word /\ FormatUint64(0) = FormatHex(0)
  BY WordSize DEF Word, FormatUint64, FormatWord, FormatHex
<1>2. FormatHex(0) = <<"0">>
  <2>1. PICK n \in Nat : Needs(0, n) /\ FormatHex(0) = LastDigits(0, n)
    BY <1>1, HexInIs
  <2>2. n = 1
    BY <2>1 DEF Needs
  <2>3. /\ LastDigits(0, n) \in Seq(HexDigits) /\ Len(LastDigits(0, n)) = n
        /\ LastDigits(0, n)[1] = "0"
    BY <1>1, <2>1, LastDigitsAre
  <2> DEFINE t == LastDigits(0, n)
  <2>4. t \in Seq(HexDigits) /\ Len(t) = 1 /\ t[1] = "0"
    BY <2>2, <2>3
  <2> HIDE DEF t
  <2>5. t = <<"0">>
    BY <2>4
  <2> QED
    BY <2>1, <2>5 DEF t
<1>3. Argument(b, i, FormatUint64(0))
  BY <1>1, <1>2
<1>4. /\ Len(b) \in Nat /\ i \in Nat /\ At(b, i) = "SP"
      /\ Spells(b, i + 1, FormatUint64(0))
      /\ At(b, i + 1 + Len(FormatUint64(0))) \in {"SP", "NL"}
  BY <1>3, ArgumentIs
<1>5. Signed(b, i, FALSE, TRUE) /\ i + 1 = After(i, FALSE)
  BY <1>4 DEF Signed, After
<1>6. PICK sig, exp : /\ IsWord(sig, exp, 0)
                      /\ RealRead(b, i, TRUE, i + 1 + Len(FormatUint64(0)), FALSE, sig, exp)
  BY <1>1, <1>4, <1>5, WordBack
<1>7. sig = 0
  <2> SUFFICES ASSUME sig # 0 PROVE FALSE
    OBVIOUS
  <2>1. sig \in Word /\ sig \in Nat /\ sig > 0 /\ exp \in Nat /\ Fits(sig, exp)
        /\ ShiftLeft(sig, exp) = 0 /\ W \in Nat
    BY <1>6, WordSize DEF IsWord, Word
  <2>2. PICK m \in 1..W : LeadingZeros(sig) = W - m /\ TwoTo[m - 1] <= sig /\ sig < TwoTo[m]
    BY <2>1, LeadingZerosBound
  <2> DEFINE w == m - 1
  <2>3. w \in Nat /\ w + exp < W /\ TwoTo[w] <= sig /\ sig < TwoTo[w + 1] /\ exp \in 0..(W - 1)
    BY <2>1, <2>2 DEF Fits
  <2> HIDE DEF w
  <2>4. TwoTo[exp] * sig \in Word
    BY <2>1, <2>3, ShiftWidens
  <2>5. ShiftLeft(sig, exp) = TwoTo[exp] * sig
    BY <2>1, <2>3, <2>4, ShiftBack
  <2>6. TwoTo[exp] \in Nat /\ TwoTo[exp] > 0
    <3>1. exp \in 0..W
      BY <2>1, <2>3
    <3> QED
      BY <3>1, TwoToIs
  <2>7. \A x, y \in Nat : x > 0 /\ y > 0 => x * y # 0
    OBVIOUS
  <2> QED
    BY <2>1, <2>5, <2>6, <2>7
<1>8. BuildDouble(Sign(FALSE), sig, exp) = {Zero}
  BY <1>7 DEF BuildDouble
<1>9. At(b, i + 1) # "n"
  <2>1. Spells(b, i + 1, <<"0">>)
    BY <1>1, <1>2, <1>4
  <2>2. "0" \in NumberBytes /\ i + 1 \in Nat
    BY <1>4 DEF NumberBytes, HexDigits
  <2>3. At(b, i + 1) = "0"
    BY <2>1, <2>2, SpellsByte
  <2> QED
    BY <2>3
<1>10. PICK minus \in BOOLEAN : minus = FALSE
  OBVIOUS
<1>11. BuildDouble(Sign(minus), sig, exp) = {Zero}
  BY <1>8, <1>10
<1> DEFINE stop == i + 1 + Len(FormatUint64(0))
<1>12. RealRead(b, i, TRUE, stop, minus, sig, exp)
  BY <1>6, <1>10
<1> HIDE DEF stop
<1>13. SignedRead(b, i, stop, minus, sig, exp)
  BY <1>12 DEF SignedRead
<1> QED
  BY <1>4, <1>9, <1>11, <1>13, DoubleOf

(* An infinity.                                                            *)
LEMMA InfBack ==
  ASSUME NEW b, NEW i, NEW neg \in {0, 1}, Argument(b, i, Minus(neg) \o InfWord)
  PROVE  SipcDouble(b, i) = {Inf(neg)}
<1> DEFINE Letters == {"-", "i", "n", "f"}
           minus == neg = 1
           k == After(i, minus)
<1>10. minus \in BOOLEAN /\ Sign(minus) = neg
  BY DEF Sign
<1> HIDE DEF minus
<1>1. /\ Len(b) \in Nat /\ i \in Nat /\ At(b, i) = "SP" /\ i + 1 \in Nat
      /\ Spells(b, i + 1, Minus(neg) \o InfWord)
  BY ArgumentIs
<1>2. InfWord \in Seq(Letters) /\ Len(InfWord) = 3
  BY DEF InfWord
<1>3. /\ Minus(neg) \in Seq(Letters) /\ Len(Minus(neg)) \in Nat
      /\ i + 1 + Len(Minus(neg)) = k
      /\ Spells(b, i + 1, Minus(neg)) => (minus => At(b, i + 1) = "-")
  <2>1. Minus(neg) \in Seq(Letters)
    <3>1. <<"-">> \in Seq(Letters) /\ <<>> \in Seq(Letters)
      OBVIOUS
    <3> QED
      BY <3>1 DEF Minus
  <2> QED
    BY <1>1, <1>10, <2>1, MinusIs
<1>4. Spells(b, i + 1, Minus(neg)) /\ Spells(b, k, InfWord)
  <2> HIDE DEF Letters, k
  <2> QED
    BY <1>1, <1>2, <1>3, SpellsConcat
<1>5. At(b, k) = "i" /\ k \in Nat
  <2>1. k \in Nat /\ k + 1 - 1 = k
    BY <1>1 DEF After
  <2>2. At(b, k + 1 - 1) = "i"
    BY <1>4 DEF Spells, InfWord
  <2> QED
    BY <2>1, <2>2
<1>6. (At(b, i + 1) = "-") <=> minus
  BY <1>3, <1>4, <1>5, <1>10 DEF After
<1>7. RealRead(b, i, TRUE, k + 3, minus, 1, IntMax)
  <2>1. (TRUE /\ At(b, i + 1) = "-") = minus
    BY <1>6, <1>10
  <2>2. (IF minus THEN i + 2 ELSE i + 1) = k
    BY DEF After
  <2> DEFINE seen == {i, i + 1} \cup Compared(b, k, InfWord)
  <2>3. ParseReal(b, i, TRUE) =
          {[ok |-> TRUE, next |-> k + 3, reads |-> seen, neg |-> minus,
            sig |-> 1, exp |-> IntMax]}
    <3> HIDE DEF k
    <3> QED
      BY <1>1, <1>4, <2>1, <2>2, Zenon DEF ParseReal
  <2> QED
    BY <2>3 DEF RealRead
<1>8. BuildDouble(neg, 1, IntMax) = {Inf(neg)}
  <2>1. /\ W \in Nat /\ 0 < W /\ TwoTo[0] = 1 /\ 0 + 1 = 1 /\ 0 \in Nat /\ 1 \in Nat
        /\ 1 \in 1..W /\ 1 - 1 = 0
    BY WordSize, TwoToIs
  <2>2. TwoTo[1] = 2
    BY <2>1, TwoToIs
  <2>3. LeadingZeros(1) = W - 1
    <3>1. LeadingZeros(1) = W - 1 - 0
      BY <2>1, <2>2, WidthIs
    <3> QED
      BY <2>1, <3>1
  <2> DEFINE clz == LeadingZeros(1)
             n   == WrapInt(IntMax + W - 1 - clz)
             shifted == IF clz + 1 = W THEN {0, 1} ELSE {ShiftLeft(1, clz + 1)}
             F(x) == Encode(neg, Round(x), n)
  <2>4. n = IntMax /\ n > Bias /\ ~(n < 1 - Bias)
    BY <2>1, <2>3, RealSize DEF WrapInt
  <2>5. \A x : F(x) = Inf(neg)
    <3> HIDE DEF n
    <3> QED
      BY <2>4 DEF Encode
  <2>6. BuildDouble(neg, 1, IntMax) = {F(x) : x \in shifted}
    BY DEF BuildDouble
  <2>7. shifted # {}
    OBVIOUS
  <2> HIDE DEF F, shifted
  <2> QED
    BY <2>5, <2>6, <2>7
<1>9. At(b, i + 1) # "n"
  BY <1>5, <1>6, <1>10 DEF After
<1>11. SignedRead(b, i, k + 3, minus, 1, IntMax)
  BY <1>7 DEF SignedRead
<1>12. BuildDouble(Sign(minus), 1, IntMax) = {Inf(neg)}
  BY <1>8, <1>10
<1> HIDE DEF k
<1> QED
  BY <1>1, <1>9, <1>11, <1>12, DoubleOf

(* Every double that sipc_format writes is read by sipc_double as the same *)
(* one, subnormals as zero and every nan as the one that the format has:   *)
(* no bit of it is lost between the two conversions, whatever the widths   *)
(* of the word and of the fraction, as long as a number that is written    *)
(* without an exponent fits in the word (ipc.c:281-339, 627-688).          *)
THEOREM DoublesComeBack ==
  ASSUME FracBits + 8 <= W, NEW b, NEW i, NEW d \in Floats,
         Argument(b, i, FormatDouble(d))
  PROVE  SipcDouble(b, i) = {Kept(d)}
<1>1. Special # 0 /\ d.neg \in {0, 1}
  BY RealSize DEF Floats
<1>2. CASE d.uexp = 0
  <2>1. FormatDouble(d) = <<"0">>
    BY <1>2 DEF FormatDouble, FormatFloat
  <2>2. Kept(d) = Zero
    BY <1>2 DEF Kept
  <2> QED
    BY <2>1, <2>2, ZeroBack
<1>3. CASE d.uexp = Special /\ d.frac # 0
  <2>1. FormatDouble(d) = <<"n", "a", "n">>
    BY <1>1, <1>3 DEF FormatDouble, FormatFloat
  <2>2. Spells(b, i, NanWord)
    <3>1. /\ i \in Nat /\ At(b, i) = "SP" /\ Spells(b, i + 1, <<"n", "a", "n">>)
      BY <2>1, ArgumentIs
    <3>2. /\ At(b, i + 1 + 1 - 1) = "n" /\ At(b, i + 1 + 2 - 1) = "a"
          /\ At(b, i + 1 + 3 - 1) = "n"
      BY <3>1 DEF Spells
    <3>3. /\ i + 1 - 1 = i /\ i + 2 - 1 = i + 1 + 1 - 1 /\ i + 3 - 1 = i + 1 + 2 - 1
          /\ i + 4 - 1 = i + 1 + 3 - 1
      BY <3>1
    <3>4. ASSUME NEW q \in 1..4 PROVE At(b, i + q - 1) = <<"SP", "n", "a", "n">>[q]
      <4>1. q = 1 \/ q = 2 \/ q = 3 \/ q = 4
        OBVIOUS
      <4> QED
        BY <3>1, <3>2, <3>3, <4>1
    <3> QED
      BY <3>4 DEF Spells, NanWord
  <2>3. Kept(d) = NaN
    BY <1>1, <1>3 DEF Kept
  <2> QED
    BY <2>2, <2>3 DEF SipcDouble
<1>4. CASE d.uexp = Special /\ d.frac = 0
  <2>1. FormatDouble(d) = Minus(d.neg) \o InfWord
    BY <1>1, <1>4 DEF FormatDouble, FormatFloat
  <2>2. Kept(d) = d /\ d = Inf(d.neg)
    BY <1>1, <1>4 DEF Kept, Inf, Float, Floats
  <2> QED
    BY <1>1, <2>1, <2>2, InfBack
<1>5. CASE d.uexp # 0 /\ d.uexp # Special
  BY <1>5, NormalBack DEF Kept
<1> QED
  BY <1>2, <1>3, <1>4, <1>5
===============================================================================
