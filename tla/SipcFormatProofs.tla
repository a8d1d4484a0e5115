--------------------------- MODULE SipcFormatProofs ---------------------------
(* Proofs about sipc_vformat for every format, every buffer size and both  *)
(* representations of a va_list.                                           *)
EXTENDS SipcFormat, FiniteSetTheorems, TLAPS

(* The negative integers among the first n items.                          *)
Negatives(n) == {i \in 1..n : fmt[i].kind = "negative"}

(* The inductive invariant: what the properties say, and what the first    *)
(* loop relies on, that an item whose bytes were left out for want of room *)
(* has taken sz past the end of the buffer, so that this loop cannot end   *)
(* the message.                                                            *)
IInv ==
  /\ TypeOK
  /\ WritesInBounds
  /\ ReturnContract
  /\ NothingDropped
  /\ pc = "fill" => gaps = Negatives(pos - 1) \/ sz > bufsz

(* The length prefix of a string has at most eight digits, so with its     *)
(* delimiter it fits in the MAX_ATOM_SIZE bytes the first loop keeps free. *)
LEMMA HexLenBound ==
  ASSUME NEW n \in Nat
  PROVE  HexLen(n) \in 1..8
<1> DEFINE K == {k \in 1..7 : n >= 16^k}
<1>1. IsFiniteSet(1..7) /\ Cardinality(1..7) = 7
  <2>1. \A a, b \in Int : /\ IsFiniteSet(a..b)
                          /\ Cardinality(a..b) = IF a > b THEN 0 ELSE b-a+1
    BY FS_Interval
  <2>2. 1 \in Int /\ 7 \in Int
    OBVIOUS
  <2>3. /\ IsFiniteSet(1..7)
        /\ Cardinality(1..7) = IF 1 > 7 THEN 0 ELSE 7-1+1
    BY <2>1, <2>2, Zenon
  <2> QED
    BY <2>3
<1>2. K \in SUBSET (1..7)
  OBVIOUS
<1> HIDE DEF K
<1>3. IsFiniteSet(K) /\ Cardinality(K) <= 7
  BY <1>1, <1>2, FS_Subset
<1>4. Cardinality(K) \in Nat
  BY <1>3, FS_CardinalityType
<1>5. 1 + Cardinality(K) \in 1..8
  BY <1>3, <1>4
<1> QED
  BY <1>5 DEF HexLen, K

(* What format_arg writes and reports: it never writes more than it        *)
(* reports, and what it writes fits in the room as soon as the room holds  *)
(* an atom; what it leaves out would not have fitted, or is the last byte  *)
(* of a negative integer.                                                  *)
LEMMA ArgBounds ==
  ASSUME NEW it \in Item, ItemOK(it), it.kind # "bad", NEW room \in Nat, room >= MAX_ATOM_SIZE
  PROVE  /\ ArgSize(it) \in Nat
         /\ ArgWrites(it, room) \in 0..room
         /\ IF it.kind = "negative"
            THEN ArgWrites(it, room) # ArgSize(it)
            ELSE ArgWrites(it, room) # ArgSize(it) => ArgSize(it) > room
<1> USE FormatAssumption
<1>1. it.len \in Nat /\ it.kind \in Kinds /\ HexLen(it.len) \in 1..8
  BY HexLenBound DEF Item
<1>2. CASE it.kind = "string"
  <2>1. /\ ArgSize(it) = HexLen(it.len) + 1 + it.len
        /\ ArgWrites(it, room) = IF ArgSize(it) <= room THEN ArgSize(it)
                                                       ELSE HexLen(it.len) + 1
    BY <1>2 DEF ArgSize, ArgWrites
  <2> QED
    BY <1>1, <1>2, <2>1
<1>3. CASE it.kind = "array"
  BY <1>1, <1>3 DEF ArgSize, ArgWrites
<1>4. CASE it.kind = "copy"
  BY <1>1, <1>4 DEF ArgSize, ArgWrites
<1>5. CASE it.kind \in {"raw", "atom"}
  <2>1. it.len <= room
    BY <1>1, <1>5 DEF ItemOK
  <2>2. ArgSize(it) = it.len /\ ArgWrites(it, room) = it.len
    BY <1>5 DEF ArgSize, ArgWrites
  <2> QED
    BY <1>1, <1>5, <2>1, <2>2
<1>6. CASE it.kind = "negative"
  <2>1. it.len \in 2..room
    BY <1>1, <1>6 DEF ItemOK
  <2>2. ArgSize(it) = it.len /\ ArgWrites(it, room) = it.len - 1
    BY <1>6 DEF ArgSize, ArgWrites
  <2> QED
    BY <1>1, <1>6, <2>1, <2>2
<1> QED
  BY <1>1, <1>2, <1>3, <1>4, <1>5, <1>6 DEF Kinds

(* The negative integers before the next item, once pos has moved past the *)
(* one that it points at.                                                  *)
LEMMA NegativesGrow ==
  ASSUME TypeOK, More(Kinds), pos' = pos + 1, fmt' = fmt
  PROVE  Negatives(pos - 1)' = IF fmt[pos].kind = "negative"
                               THEN Negatives(pos - 1) \cup {pos}
                               ELSE Negatives(pos - 1)
<1>1. pos \in Nat /\ pos >= 1 /\ pos' - 1 = pos
  BY FormatAssumption DEF TypeOK
<1>2. \A i : i \in 1..pos <=> i \in 1..(pos - 1) \/ i = pos
  BY <1>1
<1>3. Negatives(pos - 1)' = {i \in 1..pos : fmt[i].kind = "negative"}
  BY <1>1 DEF Negatives
<1> QED
  BY <1>2, <1>3 DEF Negatives

(* The items of a format are well formed wherever pos points at one.       *)
LEMMA ItemAtPos ==
  ASSUME TypeOK, NEW kinds \in SUBSET Kinds, More(kinds)
  PROVE  /\ fmt[pos] \in Item /\ ItemOK(fmt[pos]) /\ fmt[pos].kind \in kinds
         /\ pos + 1 \in 1..(Len(fmt) + 1)
<1>1. fmt \in Seq(Item) /\ \A i \in 1..Len(fmt) : ItemOK(fmt[i])
  BY FormatAssumption DEF TypeOK
<1>2. pos \in 1..Len(fmt) /\ fmt[pos].kind \in kinds
  BY <1>1 DEF More, TypeOK
<1> QED
  BY <1>1, <1>2

(* One call of format_arg keeps the cursor, the size and the argument      *)
(* count in their types and moves sz by what format_arg reports.           *)
LEMMA TakeArgTypes ==
  ASSUME TypeOK, More(Specifiers), NEW room \in Nat, room >= MAX_ATOM_SIZE,
         TakeArg(room)
  PROVE  /\ pos' \in 1..(Len(fmt) + 1) /\ sz' \in Nat /\ lag' \in Int
         /\ sz' = sz + ArgSize(fmt[pos])
<1>1. /\ fmt[pos] \in Item /\ ItemOK(fmt[pos]) /\ fmt[pos].kind # "bad"
      /\ pos + 1 \in 1..(Len(fmt) + 1)
  BY ItemAtPos DEF Specifiers
<1>2. ArgSize(fmt[pos]) \in Nat
  BY <1>1, ArgBounds
<1>3. fmt[pos].args \in Int /\ ArgReads(fmt[pos], room) \in Int
  BY <1>1 DEF Item, ArgReads
<1> QED
  BY <1>1, <1>2, <1>3 DEF TakeArg, TypeOK

(* The invariant holds before the first byte is written.                   *)
LEMMA InitInv == Init => IInv
<1> SUFFICES ASSUME Init PROVE IInv
  OBVIOUS
<1>1. fmt \in Seq(Item) /\ bufsz \in Nat
  BY FormatAssumption DEF Init
<1>2. gaps \subseteq 1..Len(fmt) /\ again \in BOOLEAN
  BY Zenon DEF Init
<1>3. pos \in 1..(Len(fmt) + 1) /\ Negatives(pos - 1) = {} /\ gaps = {}
  BY <1>1 DEF Init, Negatives
<1> QED
  BY <1>1, <1>2, <1>3, FormatAssumption
  DEF Init, IInv, TypeOK, WritesInBounds, ReturnContract, NothingDropped

(* Every step keeps it, one action at a time.                              *)
LEMMA NextInv == IInv /\ [Next]_vars => IInv'
<1> SUFFICES ASSUME IInv, [Next]_vars PROVE IInv'
  OBVIOUS
<1> USE FormatAssumption
<1>t. TypeOK
  BY DEF IInv
<1>1. CASE FillRaw
  <2>1. pos + 1 \in 1..(Len(fmt) + 1) /\ fmt[pos].kind = "raw" /\ More(Kinds)
    BY <1>1, <1>t, ItemAtPos DEF FillRaw, Kinds, More
  <2>2. Negatives(pos - 1)' = Negatives(pos - 1)
    BY <1>1, <1>t, <2>1, NegativesGrow DEF FillRaw
  <2> QED
    BY <1>1, <2>1, <2>2 DEF FillRaw, Filling, IInv, TypeOK, WritesInBounds,
                            ReturnContract, NothingDropped
<1>2. CASE FillArg
  <2> DEFINE room == bufsz - sz
             n    == ArgWrites(fmt[pos], room)
  <2>1. room \in Nat /\ room >= MAX_ATOM_SIZE /\ sz + room = bufsz
    BY <1>2, <1>t DEF FillArg, Filling, TypeOK
  <2>2. /\ fmt[pos] \in Item /\ ItemOK(fmt[pos]) /\ fmt[pos].kind # "bad"
    BY <1>2, <1>t, ItemAtPos DEF FillArg, Specifiers
  <2>3. /\ pos' \in 1..(Len(fmt) + 1) /\ sz' \in Nat /\ lag' \in Int
        /\ sz' = sz + ArgSize(fmt[pos])
    BY <1>2, <1>t, <2>1, TakeArgTypes DEF FillArg
  <2>4. /\ n \in 0..room /\ ArgSize(fmt[pos]) \in Nat
        /\ IF fmt[pos].kind = "negative"
           THEN n # ArgSize(fmt[pos])
           ELSE n # ArgSize(fmt[pos]) => ArgSize(fmt[pos]) > room
    BY <2>1, <2>2, ArgBounds
  <2> HIDE DEF room
  <2>5. /\ hi' = IF n > 0 THEN Larger(hi, sz + n) ELSE hi
        /\ gaps' = IF n = ArgSize(fmt[pos]) THEN gaps ELSE gaps \cup {pos}
        /\ UNCHANGED <<fmt, bufsz, pc, ret, dummy, again>> /\ pc = "fill"
    BY <1>2 DEF FillArg, Filling, room
  <2> HIDE DEF n
  <2>6. hi' \in Nat /\ hi' <= bufsz
    BY <2>1, <2>4, <2>5, <1>t DEF IInv, WritesInBounds, TypeOK, Larger
  <2>7. /\ pos \in 1..Len(fmt) /\ pos' = pos + 1
        /\ Negatives(pos - 1)' = IF fmt[pos].kind = "negative"
                                 THEN Negatives(pos - 1) \cup {pos}
                                 ELSE Negatives(pos - 1)
    <3>1. More(Kinds) /\ pos' = pos + 1 /\ fmt' = fmt
      BY <1>2 DEF FillArg, TakeArg, More, Specifiers
    <3> QED
      BY <3>1, <1>t, NegativesGrow DEF More, TypeOK
  <2>8. gaps' \subseteq 1..Len(fmt)
    BY <2>5, <2>7, <1>t DEF TypeOK
  <2>9. gaps' = Negatives(pos - 1)' \/ sz' > bufsz
    <3>1. sz \in Nat /\ bufsz \in Nat /\ (gaps = Negatives(pos - 1) \/ sz > bufsz)
      BY <2>5 DEF IInv, TypeOK
    <3>2. sz > bufsz => sz' > bufsz
      BY <2>3, <2>4, <3>1
    <3>3. CASE fmt[pos].kind = "negative"
      BY <2>4, <2>5, <2>7, <3>1, <3>2, <3>3
    <3>4. CASE fmt[pos].kind # "negative" /\ n = ArgSize(fmt[pos])
      BY <2>5, <2>7, <3>1, <3>2, <3>4
    <3>5. CASE fmt[pos].kind # "negative" /\ n # ArgSize(fmt[pos])
      BY <2>1, <2>3, <2>4, <3>1, <3>5
    <3> QED
      BY <3>3, <3>4, <3>5
  <2> QED
    BY <2>3, <2>5, <2>6, <2>8, <2>9 DEF IInv, TypeOK, WritesInBounds,
                                        ReturnContract, NothingDropped
<1>3. CASE FillEnd
  <2>1. fmt \in Seq(Item) /\ pos - 1 = Len(fmt)
    BY <1>3, <1>t DEF FillEnd, TypeOK
  <2>2. gaps = Negatives(Len(fmt)) /\ fmt' = fmt /\ gaps' = gaps
    BY <1>3, <1>t, <2>1 DEF FillEnd, Filling, IInv, TypeOK
  <2>3. NothingDropped'
    BY <2>2 DEF Negatives, NothingDropped
  <2> QED
    BY <1>3, <2>3 DEF FillEnd, Filling, Larger, IInv, TypeOK, WritesInBounds,
                      ReturnContract
<1>4. CASE RunOut
  BY <1>4 DEF RunOut, IInv, TypeOK, WritesInBounds, ReturnContract,
              NothingDropped
<1>5. CASE CountRaw
  <2>1. pos + 1 \in 1..(Len(fmt) + 1)
    BY <1>5, <1>t, ItemAtPos DEF CountRaw, Kinds
  <2> QED
    BY <1>5, <2>1 DEF CountRaw, Counting, IInv, TypeOK, WritesInBounds,
                      ReturnContract, NothingDropped
<1>6. CASE CountArg
  <2>1. /\ fmt[pos] \in Item /\ ItemOK(fmt[pos]) /\ fmt[pos].kind # "bad"
    BY <1>6, <1>t, ItemAtPos DEF CountArg, Specifiers
  <2>2. /\ pos' \in 1..(Len(fmt) + 1) /\ sz' \in Nat /\ lag' \in Int
    BY <1>6, <1>t, TakeArgTypes DEF CountArg
  <2>3. ArgWrites(fmt[pos], MAX_ATOM_SIZE) \in 0..MAX_ATOM_SIZE
    BY <2>1, ArgBounds
  <2> QED
    BY <1>6, <2>2, <2>3 DEF CountArg, Counting, Larger, IInv, TypeOK,
                            WritesInBounds, ReturnContract, NothingDropped
<1>7. CASE CountEnd
  BY <1>7 DEF CountEnd, Counting, IInv, TypeOK, WritesInBounds,
              ReturnContract, NothingDropped
<1>8. CASE BadSpecifier
  <2>1. pos + 1 \in 1..(Len(fmt) + 1)
    BY <1>8, <1>t, ItemAtPos DEF BadSpecifier, Kinds
  <2> QED
    BY <1>8, <2>1 DEF BadSpecifier, Filling, Counting, IInv, TypeOK,
                      WritesInBounds, ReturnContract, NothingDropped
<1>9. CASE WildRead
  BY <1>9 DEF WildRead, Filling, Counting, IInv, TypeOK, WritesInBounds,
              ReturnContract, NothingDropped
<1>10. CASE Retry
  <2>1. fmt \in Seq(Item) /\ Negatives(pos - 1)' = {}
    BY <1>10, <1>t DEF TypeOK, Retry, Negatives
  <2> QED
    BY <1>10, <2>1 DEF Retry, IInv, TypeOK, WritesInBounds, ReturnContract,
                       NothingDropped
<1>11. CASE UNCHANGED vars
  BY <1>11 DEF vars, IInv, TypeOK, WritesInBounds, ReturnContract,
               NothingDropped, Negatives
<1> QED
  BY <1>1, <1>2, <1>3, <1>4, <1>5, <1>6, <1>7, <1>8, <1>9, <1>10, <1>11
  DEF Next

(* The call never leaves its types, whatever the format.                   *)
THEOREM FormatTypes == Spec => []TypeOK
<1>1. IInv => TypeOK
  BY DEF IInv
<1> QED
  BY <1>1, InitInv, NextInv, PTL DEF Spec

(* sipc_vformat writes inside the caller's buffer and inside its own dummy *)
(* buffer, for every format, buffer size and kind of va_list.              *)
THEOREM FormatWritesInBounds == Spec => []WritesInBounds
<1>1. IInv => WritesInBounds
  BY DEF IInv
<1> QED
  BY <1>1, InitInv, NextInv, PTL DEF Spec

(* The three kinds of result of ipc.h:85-88 never overlap.                 *)
THEOREM FormatReturnContract == Spec => []ReturnContract
<1>1. IInv => ReturnContract
  BY DEF IInv
<1> QED
  BY <1>1, InitInv, NextInv, PTL DEF Spec

(* A call that reports success has written every byte of every item but of *)
(* the negative integers it was given by %p, and of each of those not.     *)
THEOREM FormatNothingDropped == Spec => []NothingDropped
<1>1. IInv => NothingDropped
  BY DEF IInv
<1> QED
  BY <1>1, InitInv, NextInv, PTL DEF Spec
===============================================================================
