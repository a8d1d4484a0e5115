------------------------------- MODULE Handover -------------------------------
(***************************************************************************)
(* What the programs of the repository promise about a pipe whose write    *)
(* end a client hands over, whatever carries it there: a message on Unix,  *)
(* a handle put into the server's process on Windows.  The client closes   *)
(* its own copy and reads the pipe; the copy it has handed over stays open *)
(* until there is an answer in the pipe, until nobody reads it any more,   *)
(* or until something has failed that excuses the loss.                    *)
(***************************************************************************)
EXTENDS TLAPS

CONSTANT Clients

VARIABLES
  stage,     \* of a client: "before" or "after" it has handed over the write
             \* end of its pipe, "over" when it has ended
  own,       \* clients that have the write end open themselves
  away,      \* clients whose write end is open outside of them
  answered,  \* clients with an answer in their pipe
  excused,   \* clients that may be left without one
  read       \* what a client has read: "none", "answer" or "eof"

vars == <<stage, own, away, answered, excused, read>>

Init ==
  /\ stage = [c \in Clients |-> "before"]
  /\ own = {} /\ away = {} /\ answered = {} /\ excused = {}
  /\ read = [c \in Clients |-> "none"]

Enter(c, where) == stage' = [stage EXCEPT ![c] = where]

(* Something goes wrong; it is not forgotten.                              *)
Fails == excused \subseteq excused' /\ excused' \subseteq Clients

Make(c) ==
  /\ stage[c] = "before"
  /\ own' = own \cup {c}
  /\ UNCHANGED <<stage, away, answered, excused, read>>

HandOver(c) ==
  /\ stage[c] = "before" /\ Enter(c, "after")
  /\ own' = own \cup {c}
  /\ \/ away' = away \cup {c} /\ UNCHANGED excused
     \/ excused' = excused \cup {c} /\ UNCHANGED away
  /\ UNCHANGED <<answered, read>>

Drop(c) ==
  /\ stage[c] = "after"
  /\ own' = own \ {c}
  /\ UNCHANGED <<stage, away, answered, excused, read>>

Answer(c) ==
  /\ c \in away \ answered
  /\ answered' = answered \cup {c}
  /\ UNCHANGED <<stage, own, away, excused, read>>

Close ==
  /\ away' \subseteq away /\ Fails
  /\ \A c \in away \ away' : c \in answered \/ c \in excused' \/ stage[c] = "over"
  /\ UNCHANGED <<stage, own, answered, read>>

(* The pipe is at its end when its write end is open nowhere.              *)
Read(c) ==
  /\ stage[c] = "after" /\ Enter(c, "over")
  /\ own' = own \ {c}
  /\ \/ c \in answered /\ read' = [read EXCEPT ![c] = "answer"]
     \/ c \notin answered \cup own \cup away /\ read' = [read EXCEPT ![c] = "eof"]
  /\ UNCHANGED <<away, answered, excused>>

(* The client gives up or is killed.                                       *)
Leave(c) ==
  /\ stage[c] # "over" /\ Enter(c, "over")
  /\ own' = own \ {c} /\ Fails
  /\ UNCHANGED <<away, answered, read>>

Next ==
  \/ Close
  \/ \E c \in Clients : Make(c) \/ HandOver(c) \/ Drop(c) \/ Answer(c) \/ Read(c) \/ Leave(c)

Spec == Init /\ [][Next]_vars

-------------------------------------------------------------------------------
(* A client reads the end of its pipe instead of an answer only when       *)
(* something has failed, and no answer comes into a pipe that has been     *)
(* read to its end.                                                        *)
EndExcused ==
  \A c \in Clients : read[c] = "eof" => c \in excused \ answered

(* While a client waits its pipe is open, answered or excused; nothing     *)
(* opens a pipe again.                                                     *)
Waiting ==
  /\ stage \in [Clients -> {"before", "after", "over"}]
  /\ read \in [Clients -> {"none", "answer", "eof"}]
  /\ \A c \in Clients :
       /\ stage[c] = "after" => c \in away \cup answered \cup excused
       /\ read[c] = "eof" => stage[c] = "over" /\ c \notin away

IInv == Waiting /\ EndExcused

LEMMA StepInv == IInv /\ [Next]_vars => IInv'
<1> SUFFICES ASSUME IInv, [Next]_vars PROVE IInv'
  OBVIOUS
<1> USE DEF IInv, Waiting, EndExcused, Enter, Fails
<1>1. CASE UNCHANGED vars
  BY <1>1 DEF vars
<1>2. CASE Close
  BY <1>2 DEF Close
<1>3. ASSUME NEW c \in Clients, Make(c) \/ Drop(c) PROVE IInv'
  BY <1>3 DEF Make, Drop
<1>4. ASSUME NEW c \in Clients, HandOver(c) PROVE IInv'
  BY <1>4 DEF HandOver
<1>5. ASSUME NEW c \in Clients, Answer(c) PROVE IInv'
  BY <1>5 DEF Answer
<1>6. ASSUME NEW c \in Clients, Read(c) PROVE IInv'
  BY <1>6 DEF Read
<1>7. ASSUME NEW c \in Clients, Leave(c) PROVE IInv'
  BY <1>7 DEF Leave
<1> QED
  BY <1>1, <1>2, <1>3, <1>4, <1>5, <1>6, <1>7 DEF Next

(* Whatever keeps to this specification leaves no client with the end of   *)
(* its pipe and without an excuse (client.c:60, 80; client.go:39-43).      *)
THEOREM HandoverEndExcused == Spec => []EndExcused
<1>1. Init => IInv
  BY DEF Init, IInv, Waiting, EndExcused
<1>2. IInv => EndExcused
  BY DEF IInv
<1> QED
  BY <1>1, <1>2, StepInv, PTL DEF Spec
===============================================================================
