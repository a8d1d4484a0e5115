------------------------------- MODULE Nesting --------------------------------
(***************************************************************************)
(* What sipc_any promises about lists and maps (ipc.md:138-148): it        *)
(* reports a container when the bracket that closes it is reached, every   *)
(* inner bracket having closed the innermost open container of its own     *)
(* kind, with never more than MaxDepth of them open; anything else between *)
(* its brackets that is not an atom is an error.                           *)
(***************************************************************************)
EXTENDS Naturals, Sequences, SequencesExt

CONSTANT MaxDepth  \* 16 in the code and in ipc.md

VARIABLES
  stack,  \* the containers open, the innermost one last
  tok,    \* the type of the token just read, "BAD" for a malformed one and
          \* "none" outside of sipc_any
  res     \* what the last call came to: "none", "value" or "error", and
          \* "busy" in the middle of a container

vars == <<stack, tok, res>>

Openers == {"ARRAY", "MAP"}
Closer  == [t \in Openers |-> IF t = "ARRAY" THEN "ARRAY_END" ELSE "MAP_END"]
Closers == {"ARRAY_END", "MAP_END"}
Atoms   == {"BOOL", "POSITIVE_INT", "NEGATIVE_INT", "DOUBLE", "STRING", "BYTES"}
Tokens  == Openers \cup Closers \cup Atoms \cup {"END", "BAD"}

Init == stack = <<>> /\ tok = "none" /\ res = "none"

(* The start of a message, a typed getter: nothing is opened.              *)
Outside ==
  /\ stack = <<>>
  /\ tok' = "none" /\ res' \in {"none", "value", "error"}
  /\ UNCHANGED stack

(* The first token of a call of sipc_any.                                  *)
First(t) ==
  /\ stack = <<>>
  /\ tok' = t
  /\ IF t \in Openers
     THEN stack' = <<t>> /\ res' = "busy"
     ELSE stack' = <<>> /\ res' = IF t = "BAD" THEN "error" ELSE "value"

Push(t) ==
  /\ stack # <<>> /\ t \in Openers
  /\ Len(stack) < MaxDepth
  /\ tok' = t /\ stack' = Append(stack, t) /\ res' = "busy"

Item(t) ==
  /\ stack # <<>> /\ t \in Atoms
  /\ tok' = t /\ UNCHANGED <<stack, res>>

Pop(t) ==
  /\ stack # <<>>
  /\ t = Closer[Last(stack)]
  /\ tok' = t /\ stack' = Front(stack)
  /\ res' = IF Len(stack) = 1 THEN "value" ELSE "busy"

Reject(t) ==
  /\ stack # <<>>
  /\ \/ t \in Openers /\ Len(stack) = MaxDepth
     \/ t \in Closers /\ t # Closer[Last(stack)]
     \/ t \in {"END", "BAD"}
  /\ tok' = t /\ stack' = <<>> /\ res' = "error"

Next == \/ Outside
        \/ \E t \in Tokens : First(t) \/ Push(t) \/ Item(t) \/ Pop(t) \/ Reject(t)

Spec == Init /\ [][Next]_vars
===============================================================================
