------------------------------- MODULE SipcFrame ------------------------------
(***************************************************************************)
(* The framing of libsipc/ipc.c: four digits, a newline, and the message,  *)
(* the number being the size of all of it.                                 *)
(***************************************************************************)
EXTENDS SipcLexer

HeaderSize == 5

(* Mutant: the size of the message alone.                                  *)
FramedBare(message) ==
  [k \in 1..4 |-> HexChars[((Len(message) \div 16^(4 - k)) % 16) + 1]]
    \o <<"NL">> \o message

(* What sipc_frame makes of a message, if its assertion holds.             *)
Framed(message) ==
  LET sz == HeaderSize + Len(message)
  IN  [k \in 1..4 |-> HexChars[((sz \div 16^(4 - k)) % 16) + 1]]
        \o <<"NL">> \o message

Frameable(message) ==
  /\ message # <<>> /\ message[Len(message)] = "NL"
  /\ HeaderSize + Len(message) <= 16^4 - 1

MessageSizeReversed(b, off) ==  \* mutant: the digits in the other order
  LET Digit(k) == HexValue[b[off + k]]
  IN  16^3 * Digit(4) + 16^2 * Digit(2) + Digit(1)

(* The size in the header at off, as sipc_unframe adds it up: the shift of *)
(* the third digit is inside the call of hex_value, which then sees a byte *)
(* that stands for zero.                                                   *)
MessageSize(b, off) ==
  LET Digit(k) == HexValue[b[off + k]]
  IN  16^3 * Digit(1) + 16^2 * Digit(2) + Digit(4)

(* Mutant: sipc_init without its check for an empty message.               *)
UnframeUnchecked(b, off, sz) ==
  LET Returns(ret, set) == [ret |-> ret, set |-> set]
      msgsz == MessageSize(b, off)
      last  == IF msgsz <= sz THEN {b[off + msgsz]} ELSE {"NL", "other"}
  IN  IF sz < HeaderSize THEN {Returns(0, FALSE)}
      ELSE IF (\E k \in 1..4 : b[off + k] \notin HexDigits) \/ b[off + 5] # "NL"
      THEN {Returns(-1, FALSE)}
      ELSE IF msgsz < sz THEN {Returns(msgsz, FALSE)}
      ELSE {IF c = "NL" THEN Returns(msgsz, TRUE) ELSE Returns(-1, FALSE) : c \in last}

(* sipc_unframe with the sz bytes after off: the outcomes, being the value *)
(* it returns and whether it has set up the parser.  Where the message is  *)
(* longer than sz, the byte that sipc_init looks at has not been received. *)
Unframe(b, off, sz) ==
  LET Returns(ret, set) == [ret |-> ret, set |-> set]
      msgsz == MessageSize(b, off)
      last  == IF msgsz <= sz THEN {b[off + msgsz]} ELSE {"NL", "other"}
  IN  IF sz < HeaderSize THEN {Returns(0, FALSE)}
      ELSE IF (\E k \in 1..4 : b[off + k] \notin HexDigits) \/ b[off + 5] # "NL"
      THEN {Returns(-1, FALSE)}
      ELSE IF msgsz < sz THEN {Returns(msgsz, FALSE)}
      ELSE {IF msgsz > HeaderSize /\ c = "NL" THEN Returns(msgsz, TRUE)
                                              ELSE Returns(-1, FALSE) : c \in last}
===============================================================================
