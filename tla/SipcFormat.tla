------------------------------ MODULE SipcFormat ------------------------------
(***************************************************************************)
(* sipc_vformat and format_arg (libsipc/ipc.c): a format string is copied  *)
(* into a buffer of bufsz bytes in two loops.  The first one writes while  *)
(* more than MAX_ATOM_SIZE bytes are left and may stop anywhere; the       *)
(* second one only counts, formatting into a dummy buffer, and reports the *)
(* size to ask for.  The caller grows its buffer to the reported size and  *)
(* calls again, as the comment in ipc.h tells it to.                       *)
(*                                                                         *)
(* Text is abstracted to its length.  An item of the format is             *)
(*   raw     an ordinary character of the format string                    *)
(*   atom    %o %i %u %f %% or %p of a scalar: len bytes, never checked    *)
(*           against the room left                                         *)
(*   negative  %p of a negative integer: the digits are written over its   *)
(*           sign, which is counted too, so that the last of len bytes is  *)
(*           left as it was                                                *)
(*   string  %s %*s %*p or %p of a string: <hex len><delim><len bytes>     *)
(*   array   %p of a list or map: two brackets, a space, len bytes         *)
(*   copy    %.*s: len bytes as they are                                   *)
(*   bad     a specifier format_arg does not know                          *)
(* with the number of arguments the specifier takes from the va_list.      *)
(***************************************************************************)
EXTENDS Naturals, Integers, Sequences, FiniteSets

CONSTANTS
  MAX_ATOM_SIZE,  \* the room the first loop keeps free, 20 in the code
  Formats,        \* the format strings considered, sequences of items
  BufSizes,       \* the buffer sizes of the first call
  VaShared        \* TRUE: format_arg advances the caller's va_list (va_list
                  \* is an array type, System V x86-64); FALSE: it advances a
                  \* copy (va_list is a pointer, Windows x64)

Kinds == {"raw", "atom", "negative", "string", "array", "copy", "bad"}

Item == [kind : Kinds, len : Nat, args : 0..2]

(* What the lengths of the code amount to: a raw character is one byte, an *)
(* atom is never longer than MAX_ATOM_SIZE (ipc.c:832), a sign has a digit *)
(* after it, and a length prefix with its delimiter, at most nine bytes,   *)
(* fits in the room of an atom too.                                        *)
ItemOK(it) ==
  /\ it.kind = "raw" => it.len = 1 /\ it.args = 0
  /\ it.kind \in {"atom", "negative"} => it.len <= MAX_ATOM_SIZE
  /\ it.kind = "negative" => it.len >= 2

ASSUME FormatAssumption ==
  /\ MAX_ATOM_SIZE \in Nat /\ MAX_ATOM_SIZE >= 9
  /\ BufSizes \subseteq Nat
  /\ VaShared \in BOOLEAN
  /\ \A f \in Formats : f \in Seq(Item) /\ \A i \in 1..Len(f) : ItemOK(f[i])

VARIABLES
  fmt,    \* the format of the calls
  bufsz,  \* size of the buffer passed to this call
  pc,     \* "fill" and "count" loops; "done", "full", "error": returned;
          \* "wild": an argument was read as the wrong type
  pos,    \* index of the next item (the fmt pointer)
  sz,     \* bytes the message takes so far
  lag,    \* arguments the format has called for and the va_list of
          \* sipc_vformat has not moved past
  ret,    \* the value returned
  hi,     \* bytes of the caller's buffer written, up to the last one written
  dummy,  \* the same for the dummy buffer of the second loop
  gaps,   \* positions of the items taken by the first loop that do not have
          \* all their bytes in the caller's buffer
  again   \* this is not the first call with this format

vars == <<fmt, bufsz, pc, pos, sz, lag, ret, hi, dummy, gaps, again>>

-------------------------------------------------------------------------------
(* The larger of two numbers, for the extent of the bytes written. *)
Larger(a, b) == IF a >= b THEN a ELSE b

(* format_hex of a length: one digit per started nibble of a 32-bit int. *)
HexLen(n) == 1 + Cardinality({k \in 1..7 : n >= 16^k})

(* The number of bytes format_arg reports, written or not. *)
ArgSize(it) ==
  CASE it.kind = "string" -> HexLen(it.len) + 1 + it.len
    [] it.kind = "array"  -> 2 + it.len + 1
    [] OTHER              -> it.len

(* Mutant: the check of format_string forgets the length prefix.           *)
ArgWritesNoPrefix(it, room) ==
  CASE it.kind = "string" -> IF it.len <= room THEN ArgSize(it)
                                               ELSE HexLen(it.len) + 1
    [] it.kind \in {"array", "copy"} -> IF ArgSize(it) <= room THEN ArgSize(it)
                                                               ELSE 0
    [] it.kind = "negative" -> it.len - 1
    [] OTHER -> it.len

(* The number of bytes format_arg writes when room bytes are left: strings *)
(* write their length prefix and the rest only if it fits, lists and raw   *)
(* copies write all or nothing, atoms do not look at the room.  %p of a    *)
(* negative integer does not move past the sign it has written.            *)
ArgWrites(it, room) ==
  CASE it.kind = "string" -> IF ArgSize(it) <= room THEN ArgSize(it)
                                                    ELSE HexLen(it.len) + 1
    [] it.kind \in {"array", "copy"} -> IF ArgSize(it) <= room THEN ArgSize(it)
                                                               ELSE 0
    [] it.kind = "negative" -> it.len - 1
    [] OTHER -> it.len

(* The number of arguments format_arg takes: a raw copy that does not fit  *)
(* leaves its pointer behind.                                              *)
ArgReads(it, room) ==
  IF it.kind = "copy" /\ it.len > room THEN it.args - 1 ELSE it.args

(* The argument of this item would be read from the place of another one.  *)
Misread(it) == lag # 0 /\ it.args > 0

-------------------------------------------------------------------------------
Init ==
  /\ fmt \in Formats
  /\ bufsz \in BufSizes
  /\ pc = "fill" /\ pos = 1 /\ sz = 0 /\ lag = 0 /\ ret = 0
  /\ hi = 0 /\ dummy = 0 /\ gaps = {} /\ again = FALSE

Filling == pc = "fill" /\ sz + MAX_ATOM_SIZE < bufsz
Counting == pc = "count"
More(kinds) == pos <= Len(fmt) /\ fmt[pos].kind \in kinds
Specifiers == Kinds \ {"raw", "bad"}

(* Mutant: the size advances by the bytes written, as a copy loop would.   *)
TakeArgWritten(room) ==
  LET it == fmt[pos]
  IN  /\ ~Misread(it)
      /\ pos' = pos + 1
      /\ sz' = sz + ArgWrites(it, room)
      /\ lag' = lag + it.args - (IF VaShared THEN ArgReads(it, room) ELSE 0)

(* One call of format_arg by either loop: the bytes it reports, and the   *)
(* va_list advanced by what format_arg took, if sipc_vformat shares it.    *)
TakeArg(room) ==
  LET it == fmt[pos]
  IN  /\ ~Misread(it)
      /\ pos' = pos + 1
      /\ sz' = sz + ArgSize(it)
      /\ lag' = lag + it.args - (IF VaShared THEN ArgReads(it, room) ELSE 0)

(* Mutant: the null byte after the character is skipped with it.           *)
FillRawSkips ==
  /\ Filling /\ More({"raw"})
  /\ pos' = pos + 2 /\ sz' = sz + 1 /\ hi' = sz + 1
  /\ UNCHANGED <<fmt, bufsz, pc, lag, ret, dummy, gaps, again>>

FillRaw ==
  /\ Filling /\ More({"raw"})
  /\ pos' = pos + 1 /\ sz' = sz + 1 /\ hi' = sz + 1
  /\ UNCHANGED <<fmt, bufsz, pc, lag, ret, dummy, gaps, again>>

FillArg ==
  /\ Filling /\ More(Specifiers)
  /\ TakeArg(bufsz - sz)
  /\ LET n == ArgWrites(fmt[pos], bufsz - sz)
     IN  /\ hi' = IF n > 0 THEN Larger(hi, sz + n) ELSE hi
         /\ gaps' = IF n = ArgSize(fmt[pos]) THEN gaps ELSE gaps \cup {pos}
  /\ UNCHANGED <<fmt, bufsz, pc, ret, dummy, again>>

FillEnd ==
  /\ Filling /\ pos > Len(fmt)
  /\ pc' = "done" /\ ret' = sz /\ hi' = Larger(hi, sz + 1)
  /\ UNCHANGED <<fmt, bufsz, pos, sz, lag, dummy, gaps, again>>

(* The loop condition of the first loop fails. *)
RunOut ==
  /\ pc = "fill" /\ sz + MAX_ATOM_SIZE >= bufsz
  /\ pc' = "count"
  /\ UNCHANGED <<fmt, bufsz, pos, sz, lag, ret, hi, dummy, gaps, again>>

CountRaw ==
  /\ Counting /\ More({"raw"})
  /\ pos' = pos + 1 /\ sz' = sz + 1
  /\ UNCHANGED <<fmt, bufsz, pc, lag, ret, hi, dummy, gaps, again>>

CountArg ==
  /\ Counting /\ More(Specifiers)
  /\ TakeArg(MAX_ATOM_SIZE)
  /\ dummy' = Larger(dummy, ArgWrites(fmt[pos], MAX_ATOM_SIZE))
  /\ UNCHANGED <<fmt, bufsz, pc, ret, hi, gaps, again>>

(* Mutants: the size needed is reported although it may be below bufsz;    *)
(* and a buffer that should have been enough is reported as it is.         *)
CountEndBare ==
  /\ Counting /\ pos > Len(fmt)
  /\ pc' = "full" /\ sz' = sz + 1 /\ ret' = sz + 1
  /\ UNCHANGED <<fmt, bufsz, pos, lag, hi, dummy, gaps, again>>

CountEndSame ==
  /\ Counting /\ pos > Len(fmt)
  /\ pc' = "full" /\ sz' = sz + 1
  /\ ret' = IF sz + 1 > bufsz THEN sz + 1 ELSE bufsz
  /\ UNCHANGED <<fmt, bufsz, pos, lag, hi, dummy, gaps, again>>

CountEnd ==
  /\ Counting /\ pos > Len(fmt)
  /\ pc' = "full" /\ sz' = sz + 1
  /\ ret' = IF sz + 1 > bufsz THEN sz + 1 ELSE bufsz + 1
  /\ UNCHANGED <<fmt, bufsz, pos, lag, hi, dummy, gaps, again>>

(* An unknown specifier in either loop. *)
BadSpecifier ==
  /\ Filling \/ Counting
  /\ More({"bad"})
  /\ pc' = "error" /\ ret' = -1 /\ pos' = pos + 1
  /\ UNCHANGED <<fmt, bufsz, sz, lag, hi, dummy, gaps, again>>

(* va_arg with the type of another argument: undefined, nothing that the   *)
(* call does from here on is determined by the caller's arguments.         *)
WildRead ==
  /\ Filling \/ Counting
  /\ More(Specifiers) /\ Misread(fmt[pos])
  /\ pc' = "wild"
  /\ UNCHANGED <<fmt, bufsz, pos, sz, lag, ret, hi, dummy, gaps, again>>

(* The caller: a result above bufsz is the size to ask for. *)
Retry ==
  /\ pc = "full"
  /\ bufsz' = ret /\ again' = TRUE
  /\ pc' = "fill" /\ pos' = 1 /\ sz' = 0 /\ lag' = 0
  /\ hi' = 0 /\ dummy' = 0 /\ gaps' = {}
  /\ UNCHANGED <<fmt, ret>>

Next == \/ FillRaw \/ FillArg \/ FillEnd \/ RunOut
        \/ CountRaw \/ CountArg \/ CountEnd
        \/ BadSpecifier \/ WildRead \/ Retry

(* One thread runs the call and its caller to the end. *)
Spec == Init /\ [][Next]_vars /\ WF_vars(Next)

-------------------------------------------------------------------------------
TypeOK ==
  /\ fmt \in Formats
  /\ bufsz \in Nat
  /\ pc \in {"fill", "count", "done", "full", "error", "wild"}
  /\ pos \in 1..(Len(fmt) + 1)
  /\ sz \in Nat /\ lag \in Int /\ ret \in Int
  /\ hi \in Nat /\ dummy \in Nat
  /\ gaps \subseteq 1..Len(fmt) /\ again \in BOOLEAN

(* No byte is written past the caller's buffer or past the dummy buffer of *)
(* MAX_ATOM_SIZE + 1 bytes, although atoms and length prefixes are written *)
(* without a check.  (ipc.c:841, 867)                                      *)
WritesInBounds == hi <= bufsz /\ dummy <= MAX_ATOM_SIZE + 1

(* The three results of ipc.h:85-88 cannot be confused: a completed        *)
(* message is strictly shorter than the buffer, which leaves room for its  *)
(* null byte, and a failed one always asks for more than there was.        *)
ReturnContract ==
  /\ pc = "done" => ret \in 0..(bufsz - 1) /\ hi > ret
  /\ pc = "full" => ret > bufsz
  /\ pc = "error" => ret < 0

(* A completed message has every byte of every item: a string that did not *)
(* fit, whose bytes format_string skips, always ends in the other loop.    *)
(* The exception is the code's: a negative integer that is written by %p,  *)
(* as it is read by sipc_any, has lost its sign, and the last byte counted *)
(* for it has not been written. (ipc.c:690-701, 730-732, 822-826)          *)
NothingDropped ==
  pc = "done" => gaps = {i \in 1..Len(fmt) : fmt[i].kind = "negative"}

(* A caller that keeps growing its buffer to the size reported gets its    *)
(* message, or learns that the format is wrong: the reported size grows    *)
(* with every call even when it is not the size needed.                    *)
RetriesEnd == <>(pc \in {"done", "error", "wild"})

(* ipc.h:88: the result of a call that did not fit is the "buffer size     *)
(* needed", so the second call, with a buffer of that size, fits.          *)
SecondCallFits == again => pc # "full"

(* ipc.h:81: "%.*s - raw copy - int followed by const char * argument", in *)
(* the order of the arguments: every specifier reads its own arguments.    *)
ReadsOwnArgs == pc # "wild"
===============================================================================
