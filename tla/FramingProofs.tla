---------------------------- MODULE FramingProofs -----------------------------
(***************************************************************************)
(* For any messages, and a stream that is cut anywhere: what sipc_unframe  *)
(* hands to the parser is what sipc_frame was given, one frame after the   *)
(* other.                                                                  *)
(***************************************************************************)
EXTENDS Framing, SequenceTheorems, TLAPS

(* Where frame k begins, or will when it is sent next.                     *)
Offset(k) == IF k <= Len(msgs) THEN places[k] ELSE Len(stream)

(* The stream consists of the frames, each of which begins where the one   *)
(* before it ends.                                                         *)
Lies(k) ==
  /\ places[k] \in Nat /\ places[k] + FrameLength(k) <= Len(stream)
  /\ Offset(k + 1) = places[k] + FrameLength(k)
  /\ Frameable(msgs[k])
  /\ \A j \in 1..FrameLength(k) : stream[places[k] + j] = Framed(msgs[k])[j]

StreamInv ==
  /\ Len(places) = Len(msgs) /\ Offset(1) = 0
  /\ \A k \in 1..Len(msgs) : Lies(k)

(* As long as the size of no frame was garbled and sipc_unframe was not    *)
(* called too early, the reader is at the beginning of a frame, and the    *)
(* size it goes by is that of what it has got or that of the frame.        *)
Kept == ~cut /\ \A k \in 1..Len(msgs) : k <= read => ~Garbled(k)

InStep ==
  /\ read <= Len(msgs) /\ off = Offset(read + 1) /\ off <= got
  /\ pc \in {"check", "parse"} => read < Len(msgs) /\ off < got
  /\ pc = "check" =>
       /\ size \in 1..(got - off)
       /\ ~Garbled(read + 1) => size = got - off \/ size = FrameLength(read + 1)
  /\ pc = "parse" /\ ~Garbled(read + 1) =>
       /\ size = FrameLength(read + 1) /\ off + size <= got
       /\ view = [at |-> off + HeaderSize + 1, n |-> size - HeaderSize]

FInv ==
  /\ FrameTypes /\ StreamInv
  /\ pc = "parse" => size \in Nat
  /\ Kept => InStep

-------------------------------------------------------------------------------
(* The digits and their values, and the size that two of the shifts put    *)
(* together again if the third digit is zero.                              *)
LEMMA Digits ==
  \A d \in 0..15 : HexChars[d + 1] \in HexDigits /\ HexValue[HexChars[d + 1]] = d
<1>1. \A j, k \in 1..16 : HexChars[j] = HexChars[k] => j = k
  BY DEF HexChars
<1>2. \A k \in 1..16 : HexChars[k] \in HexDigits
  BY DEF HexChars, HexDigits
<1> QED
  BY <1>1, <1>2 DEF HexValue

LEMMA Values ==
  \A c \in HexDigits : HexValue[c] \in 0..15
<1>1. \A c \in HexDigits : \E k \in 1..16 : HexChars[k] = c
  BY DEF HexChars, HexDigits
<1> QED
  BY <1>1 DEF HexValue

FrameSizes == {sz \in Nat : HeaderSize < sz /\ sz < 65536}

LEMMA FourDigits ==
  ASSUME NEW sz \in FrameSizes
  PROVE  /\ \A k \in 1..4 : (sz \div 16^(4 - k)) % 16 \in 0..15
         /\ (sz \div 16) % 16 = 0 =>
              16^3 * ((sz \div 16^3) % 16) + 16^2 * ((sz \div 16^2) % 16)
                + ((sz \div 16^0) % 16) = sz
<1>0. sz \in Nat /\ sz < 65536
  BY DEF FrameSizes
<1>1. 16^3 = 4096 /\ 16^2 = 256 /\ 16^1 = 16 /\ 16^0 = 1
  OBVIOUS
<1>2. ASSUME NEW k \in 1..4
      PROVE  (sz \div 16^(4 - k)) % 16 \in 0..15
  <2>1. sz \div 4096 \in Nat /\ sz \div 256 \in Nat /\ sz \div 16 \in Nat
    BY <1>0
  <2>2. sz \div 16^(4 - k) \in Nat
    <3>1. 16^(4 - 1) = 4096 /\ 16^(4 - 2) = 256 /\ 16^(4 - 3) = 16 /\ 16^(4 - 4) = 1
      OBVIOUS
    <3>2. CASE k = 1
      BY <2>1, <3>1, <3>2
    <3>3. CASE k = 2
      BY <2>1, <3>1, <3>3
    <3>4. CASE k = 3
      BY <2>1, <3>1, <3>4
    <3>5. CASE k = 4
      BY <1>0, <3>1, <3>5
    <3> QED
      BY <3>2, <3>3, <3>4, <3>5
  <2> DEFINE n == sz \div 16^(4 - k)
  <2> HIDE DEF n
  <2>3. n \in Nat
    BY <2>2 DEF n
  <2>4. n % 16 \in 0..15
    BY <2>3
  <2> QED
    BY <2>4 DEF n
<1>3. (sz \div 16) % 16 = 0 =>
        4096 * ((sz \div 4096) % 16) + 256 * ((sz \div 256) % 16) + (sz % 16) = sz
  BY <1>0
<1>4. sz \div 1 = sz
  BY <1>0
<1>5. (sz \div 16) % 16 = 0 =>
        16^3 * ((sz \div 16^3) % 16) + 16^2 * ((sz \div 16^2) % 16)
           + ((sz \div 16^0) % 16) = sz
  BY <1>1, <1>3, <1>4
<1> QED
  BY <1>2, <1>5, Zenon

(* The bytes of a frame.                                                   *)
LEMMA FrameBytes ==
  ASSUME NEW m \in Seq(Byte), Frameable(m)
  PROVE  /\ Framed(m) \in Seq(Byte) /\ Len(Framed(m)) = HeaderSize + Len(m)
         /\ \A k \in 1..4 :
              Framed(m)[k] = HexChars[(((HeaderSize + Len(m)) \div 16^(4 - k)) % 16) + 1]
         /\ Framed(m)[5] = "NL"
         /\ \A j \in 1..Len(m) : Framed(m)[HeaderSize + j] = m[j]
         /\ HeaderSize + Len(m) \in FrameSizes
<1> DEFINE sz == HeaderSize + Len(m)
           h == [k \in 1..4 |-> HexChars[((sz \div 16^(4 - k)) % 16) + 1]]
<1>1. Len(m) \in Nat \ {0} /\ sz \in FrameSizes
  <2>1. 16^4 = 65536
    OBVIOUS
  <2>2. Len(m) \in Nat \ {0}
    BY DEF Frameable
  <2>3. HeaderSize + Len(m) <= 65535
    BY <2>1, <2>2 DEF Frameable, HeaderSize
  <2>4. HeaderSize + Len(m) \in Nat /\ HeaderSize + Len(m) > HeaderSize
    BY <2>2 DEF HeaderSize
  <2> QED
    BY <2>2, <2>3, <2>4 DEF FrameSizes, HeaderSize
<1>2. \A k \in 1..4 : HexChars[((sz \div 16^(4 - k)) % 16) + 1] \in Byte
  <2> HIDE DEF sz
  <2>1. \A d \in 0..15 : HexChars[d + 1] \in Byte
    BY Digits, FramingAssumption
  <2>2. \A k \in 1..4 : (sz \div 16^(4 - k)) % 16 \in 0..15
    BY <1>1, FourDigits
  <2> QED
    BY <2>1, <2>2
<1>3. Framed(m) = h \o <<"NL">> \o m
  BY DEF Framed
<1>4. h \in Seq(Byte) /\ Len(h) = 4
  <2>1. h \in [1..4 -> Byte]
    BY <1>2
  <2> QED
    BY <2>1
<1>5. \A k \in 1..4 : h[k] = HexChars[((sz \div 16^(4 - k)) % 16) + 1]
  OBVIOUS
<1>6. <<"NL">> \in Seq(Byte) /\ Len(<<"NL">>) = 1 /\ <<"NL">>[1] = "NL"
  BY FramingAssumption
<1> HIDE DEF h
<1>7. /\ Framed(m) \in Seq(Byte) /\ Len(Framed(m)) = 5 + Len(m)
      /\ \A k \in 1..4 : Framed(m)[k] = h[k]
      /\ Framed(m)[5] = "NL"
      /\ \A j \in 1..Len(m) : Framed(m)[5 + j] = m[j]
  <2> DEFINE n == <<"NL">>
  <2>1. n \in Seq(Byte) /\ Len(n) = 1 /\ n[1] = "NL"
    BY <1>6
  <2>2. Framed(m) = h \o n \o m
    BY <1>3
  <2> HIDE DEF n, sz
  <2> DEFINE s == h \o n
  <2>3. /\ s \in Seq(Byte) /\ Len(s) = Len(h) + Len(n)
        /\ \A k \in 1 .. Len(h) + Len(n) :
             s[k] = IF k <= Len(h) THEN h[k] ELSE n[k - Len(h)]
    BY <1>4, <2>1, ConcatProperties, Zenon
  <2> HIDE DEF s
  <2>4. /\ s \in Seq(Byte) /\ Len(s) = 5 /\ s[5] = "NL"
        /\ \A k \in 1..4 : s[k] = h[k]
    BY <1>4, <2>1, <2>3
  <2> DEFINE f == s \o m
  <2>5. /\ f \in Seq(Byte) /\ Len(f) = Len(s) + Len(m)
        /\ \A k \in 1 .. Len(s) + Len(m) :
             f[k] = IF k <= Len(s) THEN s[k] ELSE m[k - Len(s)]
    BY <2>4, ConcatProperties, Zenon
  <2> HIDE DEF f
  <2>6. \A k \in 1..5 : f[k] = s[k]
    BY <1>1, <2>4, <2>5
  <2>7. ASSUME NEW j \in 1..Len(m)
        PROVE  f[5 + j] = m[j]
    BY <1>1, <2>4, <2>5
  <2>8. Len(f) = 5 + Len(m)
    BY <2>4, <2>5
  <2>9. Framed(m) = f
    BY <2>2 DEF s, f
  <2>10. (\A k \in 1..4 : f[k] = h[k]) /\ f[5] = "NL"
    BY <2>4, <2>6
  <2> QED
    BY <2>5, <2>7, <2>8, <2>9, <2>10
<1>8. \A k \in 1..4 : Framed(m)[k] = HexChars[((sz \div 16^(4 - k)) % 16) + 1]
  BY <1>5, <1>7, Zenon
<1> QED
  <2>1. HeaderSize = 5
    BY DEF HeaderSize
  <2>2. /\ Len(Framed(m)) = HeaderSize + Len(m)
        /\ \A j \in 1..Len(m) : Framed(m)[HeaderSize + j] = m[j]
    BY <1>7, <2>1
  <2> QED
    BY <1>1, <1>7, <1>8, <2>2, Zenon

(* What sipc_unframe makes of a header in the stream.                      *)
LEMMA Header ==
  ASSUME NEW m \in Seq(Byte), Frameable(m), NEW b, NEW o \in Nat,
         \A k \in 1..5 : b[o + k] = Framed(m)[k]
  PROVE  /\ \A k \in 1..4 : b[o + k] \in HexDigits
         /\ b[o + 5] = "NL"
         /\ ((HeaderSize + Len(m)) \div 16) % 16 = 0 => MessageSize(b, o) = HeaderSize + Len(m)
<1> DEFINE sz == HeaderSize + Len(m)
           d(k) == (sz \div 16^(4 - k)) % 16
<1>1. /\ sz \in FrameSizes /\ Framed(m)[5] = "NL"
      /\ \A k \in 1..4 : Framed(m)[k] = HexChars[d(k) + 1]
  BY FrameBytes, Zenon
<1> HIDE DEF sz
<1>2. \A k \in 1..4 : d(k) \in 0..15
  BY <1>1, FourDigits
<1>3. (sz \div 16) % 16 = 0 => 16^3 * d(1) + 16^2 * d(2) + d(4) = sz
  <2>1. d(1) = (sz \div 16^3) % 16 /\ d(2) = (sz \div 16^2) % 16 /\ d(4) = (sz \div 16^0) % 16
    OBVIOUS
  <2> HIDE DEF d
  <2>2. (sz \div 16) % 16 = 0 =>
          16^3 * ((sz \div 16^3) % 16) + 16^2 * ((sz \div 16^2) % 16)
             + ((sz \div 16^0) % 16) = sz
    BY <1>1, FourDigits, Zenon
  <2> QED
    BY <2>1, <2>2, Zenon
<1> HIDE DEF d
<1>4. \A k \in 1..4 : b[o + k] \in HexDigits /\ HexValue[b[o + k]] = d(k)
  <2>1. \A k \in 1..4 : b[o + k] = HexChars[d(k) + 1]
    BY <1>1
  <2> QED
    BY <1>2, <2>1, Digits, Zenon
<1>5. MessageSize(b, o) = 16^3 * d(1) + 16^2 * d(2) + d(4)
  BY <1>4 DEF MessageSize
<1>6. b[o + 5] = "NL"
  BY <1>1
<1> QED
  BY <1>3, <1>4, <1>5, <1>6 DEF sz

-------------------------------------------------------------------------------
(* What sipc_unframe returns, whatever the stream holds: when there is more*)
(* than the message, less than it was given; and it sets up the parser for *)
(* a message that is not empty only.                                       *)
LEMMA Outcomes ==
  ASSUME NEW b, NEW o \in Nat, NEW sz \in Int, NEW r \in Unframe(b, o, sz)
  PROVE  /\ r.ret \in Int /\ r.set \in BOOLEAN
         /\ r.set => r.ret > HeaderSize
         /\ r.ret > 0 /\ ~r.set => r.ret < sz
<1> DEFINE msgsz == MessageSize(b, o)
           Returned(c) == IF msgsz > HeaderSize /\ c = "NL" THEN [ret |-> msgsz, set |-> TRUE]
                                                       ELSE [ret |-> -1, set |-> FALSE]
<1>1. CASE sz < HeaderSize
  <2>1. r = [ret |-> 0, set |-> FALSE]
    BY <1>1 DEF Unframe
  <2> QED
    BY <2>1 DEF HeaderSize
<1>2. CASE /\ ~(sz < HeaderSize)
           /\ (\E k \in 1..4 : b[o + k] \notin HexDigits) \/ b[o + 5] # "NL"
  <2>1. r = [ret |-> -1, set |-> FALSE]
    BY <1>2 DEF Unframe
  <2> QED
    BY <2>1 DEF HeaderSize
<1>3. CASE /\ ~(sz < HeaderSize)
           /\ ~((\E k \in 1..4 : b[o + k] \notin HexDigits) \/ b[o + 5] # "NL")
  <2>1. /\ HexValue[b[o + 1]] \in 0..15 /\ HexValue[b[o + 2]] \in 0..15
        /\ HexValue[b[o + 4]] \in 0..15
    BY <1>3, Values
  <2>2. 16^3 = 4096 /\ 16^2 = 256
    OBVIOUS
  <2>3. msgsz \in Nat
    <3>1. \A x, y, z \in 0..15 : 16^3 * x + 16^2 * y + z \in Nat
      BY <2>2
    <3> QED
      BY <2>1, <3>1 DEF MessageSize
  <2> HIDE DEF msgsz
  <2>4. CASE msgsz < sz
    <3>1. r = [ret |-> msgsz, set |-> FALSE]
      BY <1>3, <2>4 DEF Unframe, msgsz
    <3> QED
      BY <2>3, <2>4, <3>1
  <2>5. CASE ~(msgsz < sz)
    <3>1. \E c : r = Returned(c)
      BY <1>3, <2>5 DEF Unframe, msgsz
    <3> QED
      BY <2>3, <3>1 DEF HeaderSize
  <2> QED
    BY <2>4, <2>5
<1> QED
  BY <1>1, <1>2, <1>3

(* And what it returns at the beginning of a frame that is all there and   *)
(* whose size is not garbled.                                              *)
Intact(m) == ((HeaderSize + Len(m)) \div 16) % 16 = 0

LEMMA WholeFrame ==
  ASSUME NEW m \in Seq(Byte), Frameable(m), NEW b, NEW o \in Nat, NEW sz \in Int,
         Intact(m), sz >= HeaderSize + Len(m),
         \A k \in 1..(HeaderSize + Len(m)) : b[o + k] = Framed(m)[k],
         NEW r \in Unframe(b, o, sz)
  PROVE  r.ret = HeaderSize + Len(m)
<1> DEFINE fl == HeaderSize + Len(m)
<1>1. Len(m) \in Nat \ {0} /\ m[Len(m)] = "NL" /\ fl \in Nat /\ fl > HeaderSize
  BY DEF Frameable, HeaderSize
<1>2. \A k \in 1..5 : b[o + k] = Framed(m)[k]
  BY <1>1 DEF HeaderSize
<1>3. \A k \in 1..4 : b[o + k] \in HexDigits
  BY <1>2, Header, Zenon
<1>4. b[o + 5] = "NL" /\ MessageSize(b, o) = fl
  BY <1>2, Header, Zenon DEF Intact
<1>5. b[o + fl] = "NL"
  <2>1. Framed(m)[HeaderSize + Len(m)] = m[Len(m)]
    <3>1. \A j \in 1..Len(m) : Framed(m)[HeaderSize + j] = m[j]
      BY FrameBytes, Zenon
    <3> QED
      BY <1>1, <3>1
  <2> QED
    BY <1>1, <2>1 DEF HeaderSize
<1>6. sz >= fl
  OBVIOUS
<1> HIDE DEF fl
<1>7. CASE fl < sz
  <2>1. r = [ret |-> fl, set |-> FALSE]
    BY <1>1, <1>3, <1>4, <1>7 DEF Unframe, HeaderSize
  <2> QED
    BY <1>1, <1>7, <2>1 DEF fl
<1>8. CASE fl = sz
  <2>1. r = [ret |-> fl, set |-> TRUE]
    BY <1>1, <1>3, <1>4, <1>5, <1>8 DEF Unframe, HeaderSize
  <2> QED
    BY <1>8, <2>1 DEF fl
<1> QED
  BY <1>1, <1>6, <1>7, <1>8

-------------------------------------------------------------------------------
(* What a step of the reader leaves alone.                                 *)
LEMMA Undisturbed ==
  ASSUME UNCHANGED sending
  PROVE  /\ StreamInv' <=> StreamInv
         /\ \A k : Offset(k)' = Offset(k) /\ FrameLength(k)' = FrameLength(k)
                   /\ (Garbled(k)' <=> Garbled(k))
  BY DEF sending, StreamInv, Lies, Offset, FrameLength, Garbled

LEMMA InitInv == FrameInit => FInv
<1> SUFFICES ASSUME FrameInit PROVE FInv
  OBVIOUS
<1> USE DEF FrameInit
<1>1. FrameTypes
  <2>1. msgs \in Seq(Sendable) /\ places \in Seq(Nat) /\ stream \in Seq(Byte)
    OBVIOUS
  <2>2. got \in 0..Len(stream)
    OBVIOUS
  <2>3. view \in [at : Nat, n : Nat]
    OBVIOUS
  <2>4. /\ off \in Nat /\ size \in Int /\ read \in Nat
        /\ pc \in {"wait", "check", "parse", "failed"} /\ pc # "parse"
    OBVIOUS
  <2>5. cut \in BOOLEAN
    OBVIOUS
  <2> HIDE DEF FrameInit
  <2> QED
    BY <2>1, <2>2, <2>3, <2>4, <2>5 DEF FrameTypes
<1>2. StreamInv
  BY DEF StreamInv, Offset
<1>3. InStep
  BY DEF InStep, Offset
<1> QED
  BY <1>1, <1>2, <1>3 DEF FInv

(* A frame is put after the ones that are there already.                   *)
LEMMA SendStep ==
  ASSUME FInv, NEW m \in Sendable, Send(m)
  PROVE  FInv'
<1>0. PICK n : n = Len(msgs)
  OBVIOUS
<1> DEFINE fl == HeaderSize + Len(m)
<1>1. /\ FrameTypes /\ StreamInv /\ n \in Nat /\ Len(places) = n /\ Len(stream) \in Nat
      /\ m \in Seq(Byte) /\ Frameable(m) /\ Len(m) \in Nat /\ fl \in Nat
  BY <1>0, FramingAssumption DEF FInv, FrameTypes, StreamInv, Send, HeaderSize
<1>2. /\ stream' \in Seq(Byte) /\ Len(stream') = Len(stream) + fl
      /\ \A i \in 1..Len(stream) : stream'[i] = stream[i]
      /\ \A j \in 1..fl : stream'[Len(stream) + j] = Framed(m)[j]
  <2>1. Framed(m) \in Seq(Byte) /\ Len(Framed(m)) = fl
    BY <1>1, FrameBytes, Zenon
  <2>2. stream \in Seq(Byte) /\ stream' = stream \o Framed(m)
    BY <1>1 DEF FrameTypes, Send
  <2> HIDE DEF fl
  <2> HIDE DEF fl
  <2> DEFINE f == Framed(m)
             both == stream \o f
  <2> HIDE DEF f
  <2>3. f \in Seq(Byte) /\ Len(f) = fl
    BY <2>1 DEF f
  <2>4. /\ both \in Seq(Byte) /\ Len(both) = Len(stream) + Len(f)
        /\ \A i \in 1 .. Len(stream) + Len(f) :
             both[i] = IF i <= Len(stream) THEN stream[i] ELSE f[i - Len(stream)]
    BY <2>2, <2>3, ConcatProperties, Zenon
  <2>5. stream' = both
    BY <2>2 DEF f
  <2> HIDE DEF both
  <2>6. ASSUME NEW i \in 1..Len(stream)
        PROVE  both[i] = stream[i]
    BY <1>1, <2>3, <2>4
  <2>7. ASSUME NEW j \in 1..fl
        PROVE  both[Len(stream) + j] = f[j]
    <3>1. /\ Len(stream) + j \in 1 .. Len(stream) + Len(f)
          /\ ~(Len(stream) + j <= Len(stream)) /\ (Len(stream) + j) - Len(stream) = j
      BY <1>1, <2>3
    <3> QED
      BY <2>4, <3>1
  <2> QED
    BY <2>3, <2>4, <2>5, <2>6, <2>7 DEF f
<1>3. /\ msgs' \in Seq(Sendable) /\ Len(msgs') = n + 1 /\ msgs'[n + 1] = m
      /\ \A k \in 1..n : msgs'[k] = msgs[k]
  BY <1>0, <1>1 DEF FrameTypes, Send
<1>4. /\ places' \in Seq(Nat) /\ Len(places') = n + 1 /\ places'[n + 1] = Len(stream)
      /\ \A k \in 1..n : places'[k] = places[k]
  BY <1>0, <1>1 DEF FrameTypes, Send
<1>5. FrameTypes'
  BY <1>1, <1>2, <1>3, <1>4 DEF FrameTypes, Send
<1> HIDE DEF fl
<1>6. /\ \A k \in 1..n : /\ FrameLength(k)' = FrameLength(k)
                         /\ Garbled(k)' <=> Garbled(k)
      /\ FrameLength(n + 1)' = fl
  <2>1. \A k \in 1..n : FrameLength(k)' = FrameLength(k)
    BY <1>3 DEF FrameLength
  <2>2. \A k : Garbled(k) <=> (FrameLength(k) \div 16) % 16 # 0
    BY DEF Garbled
  <2>3. \A k : Garbled(k)' <=> (FrameLength(k)' \div 16) % 16 # 0
    BY DEF Garbled
  <2>4. \A k \in 1..n : Garbled(k)' <=> Garbled(k)
    BY <2>1, <2>2, <2>3
  <2>5. FrameLength(n + 1)' = fl
    BY <1>3 DEF FrameLength, fl
  <2> QED
    BY <2>1, <2>4, <2>5
<1>7. \A k \in 1..(n + 1) : Offset(k)' = Offset(k)
  BY <1>0, <1>1, <1>3, <1>4 DEF Offset
<1>8. StreamInv'
  <2>1. Len(places') = Len(msgs') /\ Offset(1)' = 0
    BY <1>1, <1>3, <1>4, <1>7 DEF StreamInv
  <2>2. ASSUME NEW k \in 1..n
        PROVE  Lies(k)'
    <3>1. Lies(k)
      BY <1>0, <1>1 DEF StreamInv
    <3>2. FrameLength(k) \in Nat /\ k + 1 \in 1..(n + 1) /\ k \in Nat
      <4>1. msgs[k] \in Seq(Byte)
        BY <1>0, <1>1, FramingAssumption DEF FrameTypes
      <4> QED
        BY <1>1, <4>1 DEF FrameLength, HeaderSize
    <3>3. /\ places'[k] = places[k] /\ msgs'[k] = msgs[k]
          /\ FrameLength(k)' = FrameLength(k) /\ Offset(k + 1)' = Offset(k + 1)
      BY <1>3, <1>4, <1>6, <1>7, <3>2
    <3>4. ASSUME NEW j \in 1..FrameLength(k)
          PROVE  stream'[places[k] + j] = stream[places[k] + j]
      <4>1. places[k] + j \in 1..Len(stream)
        BY <1>1, <3>1, <3>2 DEF Lies
      <4> QED
        BY <1>2, <4>1
    <3>5. places[k] + FrameLength(k) <= Len(stream')
      BY <1>1, <1>2, <3>1, <3>2 DEF Lies
    <3> QED
      BY <3>1, <3>3, <3>4, <3>5 DEF Lies
  <2>3. Lies(n + 1)'
    <3>1. Offset(n + 2)' = Len(stream')
      BY <1>0, <1>1, <1>3 DEF Offset
    <3>2. places'[n + 1] + fl = Len(stream')
      BY <1>2, <1>4
    <3>3. \A j \in 1..fl : stream'[places'[n + 1] + j] = Framed(m)[j]
      BY <1>2, <1>4
    <3>4. (n + 1) + 1 = n + 2 /\ Len(stream') \in Nat
      BY <1>1, <1>2
    <3>5. /\ places'[n + 1] \in Nat /\ msgs'[n + 1] = m
          /\ FrameLength(n + 1)' = fl
      BY <1>1, <1>3, <1>4, <1>6
    <3>6. places'[n + 1] + fl <= Len(stream')
      BY <1>1, <3>2, <3>4, <3>5
    <3>7. Offset((n + 1) + 1)' = places'[n + 1] + fl
      BY <3>1, <3>2, <3>4
    <3> QED
      BY <1>1, <3>3, <3>5, <3>6, <3>7, Zenon DEF Lies
  <2>4. \A k \in 1..Len(msgs') : k \in 1..n \/ k = n + 1
    BY <1>1, <1>3
  <2> QED
    BY <1>0, <2>1, <2>2, <2>3, <2>4 DEF StreamInv
<1>9. ASSUME Kept'
      PROVE  InStep'
  <2>1. read' = read /\ cut' = cut /\ off' = off /\ got' = got /\ pc' = pc /\ size' = size
        /\ view' = view
    BY DEF Send
  <2>2. Kept
    <3>1. \A k \in 1..n : k <= read => ~Garbled(k)
      BY <1>1, <1>3, <1>6, <1>9, <2>1 DEF Kept
    <3> QED
      BY <1>0, <1>9, <2>1, <3>1 DEF Kept
  <2>3. InStep
    BY <2>2 DEF FInv
  <2>4. read \in Nat /\ read + 1 \in 1..(n + 1) /\ (read < n => read + 1 \in 1..n)
    BY <1>0, <1>1, <2>3 DEF InStep, FrameTypes
  <2>5. read <= Len(msgs') /\ off' = Offset(read + 1)' /\ off' <= got'
    BY <1>0, <1>1, <1>3, <1>7, <2>1, <2>3, <2>4 DEF InStep
  <2>6. pc \in {"check", "parse"} =>
          /\ read < n /\ read < Len(msgs') /\ FrameLength(read + 1)' = FrameLength(read + 1)
          /\ Garbled(read + 1)' <=> Garbled(read + 1)
    <3> SUFFICES ASSUME pc \in {"check", "parse"}
                 PROVE  /\ read < n /\ read < Len(msgs')
                        /\ FrameLength(read + 1)' = FrameLength(read + 1)
                        /\ Garbled(read + 1)' <=> Garbled(read + 1)
      OBVIOUS
    <3>1. read < n /\ read < Len(msgs')
      BY <1>0, <1>1, <1>3, <2>3, <2>4 DEF InStep
    <3>2. read + 1 \in 1..n /\ read' + 1 = read + 1
      BY <2>1, <2>4, <3>1
    <3>3. FrameLength(read + 1)' = FrameLength(read + 1)
      BY <1>6, <3>2
    <3>4. Garbled(read + 1)' <=> Garbled(read + 1)
      BY <1>6, <3>2
    <3> QED
      BY <3>1, <3>3, <3>4
  <2> QED
    BY <2>1, <2>3, <2>5, <2>6 DEF InStep
<1> QED
  BY <1>5, <1>8, <1>9 DEF FInv, Send

(* The frame that the reader is at lies in the stream.                     *)
LEMMA AtFrame ==
  ASSUME FInv, InStep, read < Len(msgs)
  PROVE  /\ read + 1 \in 1..Len(msgs) /\ read \in Nat /\ off \in Nat /\ got \in Nat
         /\ msgs[read + 1] \in Seq(Byte) /\ Frameable(msgs[read + 1])
         /\ Len(msgs[read + 1]) \in Nat \ {0}
         /\ off + FrameLength(read + 1) <= Len(stream)
         /\ Offset((read + 1) + 1) = off + FrameLength(read + 1)
         /\ \A j \in 1..FrameLength(read + 1) : stream[off + j] = Framed(msgs[read + 1])[j]
<1>1. /\ read + 1 \in 1..Len(msgs) /\ read \in Nat /\ off \in Nat /\ got \in Nat
      /\ Len(msgs) \in Nat /\ msgs[read + 1] \in Seq(Byte)
  BY FramingAssumption DEF FInv, FrameTypes
<1>2. Lies(read + 1)
  BY <1>1 DEF FInv, StreamInv
<1>3. off = places[read + 1]
  BY <1>1 DEF InStep, Offset
<1>4. Len(msgs[read + 1]) \in Nat \ {0}
  BY <1>1, <1>2 DEF Lies, Frameable
<1> QED
  BY <1>1, <1>2, <1>3, <1>4 DEF Lies

(* What has come before the end of the stream is part of a frame.          *)
LEMMA ReceiveStep ==
  ASSUME FInv, NEW n \in 1..(Len(stream) - got), Receive(n)
  PROVE  FInv'
<1>1. /\ FrameTypes /\ Len(stream) \in Nat /\ got \in Nat /\ off \in Nat /\ n \in Nat \ {0}
      /\ got' = got + n /\ pc' = "check" /\ size' = got + n - off /\ UNCHANGED sending
      /\ off' = off /\ view' = view /\ read' = read /\ cut' = cut
      /\ got' \in 0..Len(stream) /\ pc = "wait"
  BY DEF FInv, FrameTypes, Receive
<1>2. FrameTypes'
  BY <1>1 DEF FrameTypes, sending
<1>3. StreamInv'
  BY <1>1, Undisturbed DEF FInv
<1>4. ASSUME Kept'
      PROVE  InStep'
  <2>1. Kept
    BY <1>1, <1>4 DEF Kept, Garbled, FrameLength, sending
  <2>2. InStep
    BY <2>1 DEF FInv
  <2>3. read < Len(msgs)
    <3>1. Offset(Len(msgs) + 1) = Len(stream)
      BY <1>1 DEF Offset, FrameTypes
    <3>2. off < Len(stream)
      BY <1>1, <2>2 DEF InStep
    <3>3. read \in Nat /\ Len(msgs) \in Nat /\ read <= Len(msgs) /\ off = Offset(read + 1)
      BY <1>1, <2>2 DEF InStep, FrameTypes
    <3>4. read # Len(msgs)
      <4>1. CASE read = Len(msgs)
        <5>1. off = Len(stream)
          BY <3>1, <3>3, <4>1
        <5> QED
          BY <1>1, <3>2, <5>1
      <4> QED
        BY <4>1
    <3> QED
      BY <3>3, <3>4
  <2>4. off' = Offset(read + 1)'
    BY <1>1, <2>2 DEF InStep, Offset, sending
  <2>5. size' \in 1..(got' - off') /\ size' = got' - off' /\ off' < got'
    BY <1>1, <2>2 DEF InStep
  <2> QED
    BY <1>1, <2>2, <2>3, <2>4, <2>5 DEF InStep, sending
<1> QED
  BY <1>1, <1>2, <1>3, <1>4 DEF FInv

(* Unless it is called too early, sipc_unframe finds the frame.            *)
LEMMA CheckStep ==
  ASSUME FInv, Check
  PROVE  FInv'
<1>1. PICK o \in Unframe(stream, off, size) :
        /\ pc' = IF o.ret = 0 THEN "wait"
                 ELSE IF o.ret < 0 THEN "failed"
                 ELSE IF o.set THEN "parse" ELSE "check"
        /\ size' = IF o.ret > 0 THEN o.ret ELSE size
        /\ view' = IF o.set THEN [at |-> off + HeaderSize + 1,
                                  n |-> o.ret - HeaderSize] ELSE view
  BY DEF Check
<1>2. /\ FrameTypes /\ off \in Nat /\ size \in Int /\ got \in Nat /\ UNCHANGED sending
      /\ off' = off /\ got' = got /\ read' = read /\ pc = "check"
      /\ cut' = (cut \/ /\ read < Len(msgs)
                        /\ got - off \in HeaderSize..(FrameLength(read + 1) - 1))
  BY DEF FInv, FrameTypes, Check
<1>3. /\ o.ret \in Int /\ o.set \in BOOLEAN /\ (o.set => o.ret > HeaderSize)
      /\ (o.ret > 0 /\ ~o.set => o.ret < size)
  BY <1>2, Outcomes
<1>4. /\ size' \in Int /\ pc' \in {"wait", "check", "parse", "failed"}
      /\ (pc' = "parse" => o.set /\ o.ret > 0 /\ size' = o.ret)
      /\ (pc' = "check" => ~o.set /\ o.ret > 0 /\ size' = o.ret)
  BY <1>1, <1>2, <1>3
<1>5. /\ view' \in [at : Nat, n : Nat] /\ (pc' = "parse" => view'.n > 0)
  <2>1. CASE o.set
    <3>1. view' = [at |-> off + HeaderSize + 1, n |-> o.ret - HeaderSize]
      BY <1>1, <2>1
    <3>2. off + HeaderSize + 1 \in Nat /\ o.ret - HeaderSize \in Nat /\ o.ret - HeaderSize > 0
      BY <1>2, <1>3, <2>1 DEF HeaderSize
    <3> QED
      BY <3>1, <3>2
  <2>2. CASE ~o.set
    BY <1>1, <1>2, <1>4, <2>2 DEF FrameTypes
  <2> QED
    BY <1>3, <2>1, <2>2
<1>6. FrameTypes'
  BY <1>2, <1>4, <1>5 DEF FrameTypes, sending
<1>7. StreamInv'
  BY <1>2, Undisturbed DEF FInv
<1>8. ASSUME Kept'
      PROVE  InStep'
  <2>1. Kept /\ ~cut'
    BY <1>2, <1>8 DEF Kept, Garbled, FrameLength, sending
  <2>2. InStep
    BY <2>1 DEF FInv
  <2>3. read < Len(msgs) /\ off < got /\ off <= got /\ size \in 1..(got - off)
    BY <1>2, <2>2 DEF InStep
  <2>4. off' = Offset(read + 1)' /\ read' <= Len(msgs')
    BY <1>2, <2>2 DEF InStep, Offset, sending
  <2>5. pc' = "check" => size' \in 1..(got' - off')
    BY <1>2, <1>3, <1>4, <2>3
  <2>6. ASSUME ~Garbled(read + 1), o.ret > 0
        PROVE  o.ret = FrameLength(read + 1) /\ off + o.ret <= got
    <3> DEFINE m == msgs[read + 1]
    <3>1. /\ read + 1 \in 1..Len(msgs) /\ m \in Seq(Byte) /\ Frameable(m)
          /\ FrameLength(read + 1) = HeaderSize + Len(m) /\ Len(m) \in Nat \ {0}
          /\ \A j \in 1..FrameLength(read + 1) : stream[off + j] = Framed(m)[j]
      BY <2>2, <2>3, AtFrame DEF FrameLength
    <3>2. size >= HeaderSize
      <4>1. CASE size < HeaderSize
        <5>1. o = [ret |-> 0, set |-> FALSE]
          BY <4>1 DEF Unframe
        <5> QED
          BY <2>6, <5>1
      <4> QED
        BY <1>2, <4>1 DEF HeaderSize
    <3>3. got - off >= FrameLength(read + 1)
      <4>1. got - off \notin HeaderSize..(FrameLength(read + 1) - 1)
        BY <1>2, <2>1, <2>3
      <4>2. got - off >= HeaderSize /\ got - off \in Int /\ FrameLength(read + 1) \in Int
        BY <1>2, <2>3, <3>1, <3>2 DEF HeaderSize
      <4> QED
        BY <4>1, <4>2 DEF HeaderSize
    <3>4. size >= FrameLength(read + 1)
      BY <1>2, <2>2, <2>6, <3>1, <3>3 DEF InStep, HeaderSize
    <3>5. Intact(m)
      BY <2>6, <3>1 DEF Garbled, Intact
    <3> HIDE DEF m
    <3>6. o.ret = HeaderSize + Len(m)
      <4>1. \A j \in 1..(HeaderSize + Len(m)) : stream[off + j] = Framed(m)[j]
        BY <3>1
      <4>2. size >= HeaderSize + Len(m)
        BY <3>1, <3>4
      <4>3. off \in Nat /\ size \in Int /\ m \in Seq(Byte) /\ Frameable(m)
        BY <1>2, <3>1
      <4> QED
        BY <3>5, <4>1, <4>2, <4>3, WholeFrame, Zenon
    <3> QED
      BY <1>2, <3>1, <3>3, <3>6 DEF HeaderSize
  <2>7. /\ FrameLength(read + 1)' = FrameLength(read + 1)
        /\ Garbled(read + 1)' <=> Garbled(read + 1)
    BY <1>2 DEF FrameLength, Garbled, sending
  <2>8. pc' = "check" /\ ~Garbled(read + 1)' =>
          size' = got' - off' \/ size' = FrameLength(read + 1)'
    BY <1>4, <2>6, <2>7
  <2>9. pc' = "parse" /\ ~Garbled(read + 1)' =>
          /\ size' = FrameLength(read + 1)' /\ off' + size' <= got'
          /\ view' = [at |-> off' + HeaderSize + 1, n |-> size' - HeaderSize]
    BY <1>1, <1>2, <1>4, <2>6, <2>7
  <2> QED
    BY <1>2, <2>3, <2>4, <2>5, <2>8, <2>9 DEF InStep, sending
<1> QED
  BY <1>4, <1>6, <1>7, <1>8 DEF FInv

(* The next frame is where the one that has been read ends.                *)
LEMMA ParseStep ==
  ASSUME FInv, Parse
  PROVE  FInv'
<1>1. /\ FrameTypes /\ off \in Nat /\ size \in Nat /\ got \in Nat /\ read \in Nat
      /\ Len(msgs) \in Nat /\ Len(stream) \in Nat /\ got <= Len(stream)
      /\ UNCHANGED sending /\ pc = "parse" /\ got' = got /\ view' = view /\ cut' = cut
      /\ read' = read + 1 /\ off' = off + size /\ size' = got - (off + size)
      /\ pc' = IF off + size > got THEN "failed"
               ELSE IF off + size = got THEN "wait" ELSE "check"
  BY DEF FInv, FrameTypes, Parse
<1>2. pc' \in {"wait", "check", "failed"} /\ (pc' = "check" => off + size < got)
  BY <1>1
<1>3. FrameTypes'
  BY <1>1, <1>2 DEF FrameTypes, sending
<1>4. StreamInv'
  BY <1>1, Undisturbed DEF FInv
<1>5. ASSUME Kept'
      PROVE  InStep'
  <2>1. \A k \in 1..Len(msgs) : k <= read + 1 => ~Garbled(k)
    BY <1>1, <1>5 DEF Kept, Garbled, FrameLength, sending
  <2>2. Kept
    BY <1>1, <1>5, <2>1 DEF Kept
  <2>3. InStep /\ read < Len(msgs)
    BY <1>1, <2>2 DEF FInv, InStep
  <2>4. Offset((read + 1) + 1) = off + FrameLength(read + 1) /\ read + 1 \in 1..Len(msgs)
    BY <2>3, AtFrame
  <2>5. size = FrameLength(read + 1) /\ off + size <= got
    BY <1>1, <2>1, <2>3, <2>4 DEF InStep
  <2>6. Offset(read + 1)' = Offset((read + 1) + 1)
    BY <1>1 DEF Offset, sending
  <2>7. read' <= Len(msgs') /\ off' = Offset(read + 1)' /\ off' <= got'
    BY <1>1, <2>4, <2>5, <2>6 DEF sending
  <2>8. pc' = "check" => read' < Len(msgs') /\ off' < got'
    <3> SUFFICES ASSUME pc' = "check" PROVE read' < Len(msgs') /\ off' < got'
      OBVIOUS
    <3>1. off' < got' /\ off' < Len(stream)
      BY <1>1, <1>2
    <3>2. read + 1 # Len(msgs)
      <4>1. Offset(Len(msgs) + 1) = Len(stream)
        BY <1>1 DEF Offset
      <4> QED
        BY <1>1, <2>4, <2>5, <3>1, <4>1
    <3> QED
      BY <1>1, <2>4, <3>1, <3>2 DEF sending
  <2>9. pc' = "check" => size' \in 1..(got' - off') /\ size' = got' - off'
    BY <1>1, <1>2
  <2> QED
    BY <1>2, <2>7, <2>8, <2>9 DEF InStep
<1> QED
  BY <1>2, <1>3, <1>4, <1>5 DEF FInv

LEMMA StepInv == FInv /\ [FrameNext]_frames => FInv'
<1> SUFFICES ASSUME FInv, [FrameNext]_frames PROVE FInv'
  OBVIOUS
<1>1. CASE UNCHANGED frames
  BY <1>1 DEF frames, sending, FInv, FrameTypes, StreamInv, Lies, Kept, InStep, Offset,
              FrameLength, Garbled
<1>2. CASE \E m \in Sendable : Send(m)
  BY <1>2, SendStep
<1>3. CASE \E n \in 1..(Len(stream) - got) : Receive(n)
  BY <1>3, ReceiveStep
<1>4. CASE Check
  BY <1>4, CheckStep
<1>5. CASE Parse
  BY <1>5, ParseStep
<1> QED
  BY <1>1, <1>2, <1>3, <1>4, <1>5 DEF FrameNext, Reader

LEMMA Invariant == FrameSpec => []FInv
  BY InitInv, StepInv, PTL DEF FrameSpec

-------------------------------------------------------------------------------
(* Types, and that no parser is set up with an empty message: sipc_init    *)
(* would have looked before its first byte. (ipc.c:898-945)                *)
THEOREM FramingTypes == FrameSpec => []FrameTypes
<1>1. FInv => FrameTypes
  BY DEF FInv
<1> QED
  BY <1>1, Invariant, PTL

(* For any messages, of any length a header can state, and however the     *)
(* stream is cut: the parser that sipc_unframe sets up has the message that*)
(* sipc_frame was given, all of it received and nothing else, as long as no*)
(* third digit of a size is lost and sipc_unframe was not called with part *)
(* of a frame. (ipc.c:898-935)                                             *)
THEOREM FramingExact == FrameSpec => []FramesExact
<1>1. ASSUME FInv
      PROVE  FramesExact
  <2> SUFFICES ASSUME pc = "parse", ~cut,
                      \A k \in 1..Len(msgs) : k <= read + 1 => ~Garbled(k)
               PROVE  /\ read < Len(msgs) /\ view.at + view.n - 1 <= got
                      /\ SubSeq(stream, view.at, view.at + view.n - 1) = msgs[read + 1]
    BY DEF FramesExact
  <2> DEFINE m == msgs[read + 1]
  <2>1. /\ FrameTypes /\ read \in Nat /\ Len(msgs) \in Nat /\ stream \in Seq(Byte)
        /\ Len(stream) \in Nat /\ got <= Len(stream) /\ got \in Nat /\ size \in Nat
    BY <1>1 DEF FInv, FrameTypes
  <2>2. Kept
    BY <2>1 DEF Kept
  <2>3. InStep /\ read < Len(msgs)
    BY <1>1, <2>2 DEF FInv, InStep
  <2>4. /\ off \in Nat /\ m \in Seq(Byte) /\ Frameable(m) /\ Len(m) \in Nat \ {0}
        /\ read + 1 \in 1..Len(msgs) /\ FrameLength(read + 1) = HeaderSize + Len(m)
        /\ \A j \in 1..FrameLength(read + 1) : stream[off + j] = Framed(m)[j]
    BY <1>1, <2>3, AtFrame DEF FrameLength
  <2>5. /\ size = HeaderSize + Len(m) /\ off + size <= got
        /\ view.at = off + HeaderSize + 1 /\ view.n = size - HeaderSize
    BY <2>1, <2>3, <2>4 DEF InStep
  <2> HIDE DEF m
  <2>6. view.at = off + 6 /\ view.at + view.n - 1 = off + 5 + Len(m)
    BY <2>4, <2>5 DEF HeaderSize
  <2>7. ASSUME NEW j \in 1..Len(m)
        PROVE  stream[off + 5 + j] = m[j]
    <3>1. Framed(m)[HeaderSize + j] = m[j]
      BY <2>4, FrameBytes, Zenon
    <3>2. /\ HeaderSize + j \in 1..FrameLength(read + 1)
          /\ off + (HeaderSize + j) = off + 5 + j
      BY <2>4 DEF HeaderSize
    <3> QED
      BY <2>4, <3>1, <3>2
  <2> DEFINE part == SubSeq(stream, off + 6, off + 5 + Len(m))
  <2>8. /\ part \in Seq(Byte) /\ Len(part) = Len(m)
        /\ \A j \in 1..Len(m) : part[j] = stream[off + 5 + j]
    BY <2>1, <2>4, <2>5, SubSeqProperties DEF HeaderSize
  <2>9. part = m
    <3> HIDE DEF part
    <3> QED
      BY <2>4, <2>7, <2>8, SeqEqual
  <2>10. view.at + view.n - 1 <= got
    BY <2>1, <2>4, <2>5, <2>6 DEF HeaderSize
  <2> QED
    BY <2>3, <2>6, <2>9, <2>10 DEF m
<1> QED
  BY <1>1, Invariant, PTL
===============================================================================
