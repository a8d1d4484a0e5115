--------------------------- MODULE SocketPathProofs ---------------------------
(***************************************************************************)
(* For any number of servers in C and in Go and any set of temporary       *)
(* names: types, temporary names, overwriting without a gap, and that one  *)
(* of the servers that serve is reached.                                   *)
(***************************************************************************)
EXTENDS SocketPath, TLAPS

(* Where a server is tells which kind it is and whether it holds a         *)
(* temporary name.                                                         *)
Holding == {"tmplisten", "rename"}

TmpInv ==
  \A s \in Servers :
    /\ pc[s] = "unlink" => s \in CServers
    /\ pc[s] \in {"try"} \cup Holding => s \in GoServers
    /\ pc[s] \in Holding => tmp[s] \in TmpNames /\ names[tmp[s]] = s

(* As long as nobody has died, the path leads to a server that listens or  *)
(* is about to; when it does not exist, someone is about to bind it, or    *)
(* nobody has bound anything yet.                                          *)
PathInv ==
  /\ names[Path] # Stale
  /\ names[Path] \in Servers => pc[names[Path]] \in {"listen", "serving"}
  /\ names[Path] = None => \/ \E s \in Servers : pc[s] = "bind"
                           \/ \A s \in Servers : pc[s] \notin {"listen", "serving"}

IInv == TypeOK /\ TmpInv /\ TmpNamesReturned /\ (~died => PathInv)

(* Nothing has been bound. *)
LEMMA InitInv == Init => IInv
<1> SUFFICES ASSUME Init PROVE IInv
  OBVIOUS
<1>1. TypeOK
  <2>1. names \in [Names -> Servers \cup {None, Stale}] /\ tmp \in [Servers -> Names]
    BY DEF Init, Names
  <2>2. pc \in [Servers -> {"off", "serving", "failed"} \cup Starting]
    BY DEF Init
  <2>3. tries \in [Servers -> 0..MaxTries]
    BY PathAssumption DEF Init
  <2>4. died \in BOOLEAN
    BY DEF Init
  <2> QED
    BY <2>1, <2>2, <2>3, <2>4 DEF TypeOK
<1>2. TmpInv
  BY DEF Init, TmpInv, Holding
<1>3. TmpNamesReturned
  BY DEF Init, TmpNamesReturned, InUse, Names
<1>4. PathInv
  BY PathAssumption DEF Init, PathInv, Names
<1> QED
  BY <1>1, <1>2, <1>3, <1>4 DEF IInv

(* Types, one action at a time. *)
LEMMA StepTypes ==
  ASSUME TypeOK, NEW s \in Servers, Start(s) \/ Step(s) \/ Die(s)
  PROVE  TypeOK'
<1> USE PathAssumption DEF TypeOK, Starting, Goto, Names
<1>1. CASE Start(s)
  BY <1>1 DEF Start
<1>2. CASE Unlink(s)
  BY <1>2 DEF Unlink
<1>3. CASE Bind(s)
  BY <1>3 DEF Bind, InUse
<1>4. CASE Listen(s)
  BY <1>4 DEF Listen
<1>5. CASE Conflict(s)
  BY <1>5 DEF Conflict
<1>6. CASE TryTmp(s)
  BY <1>6 DEF TryTmp, InUse
<1>7. CASE ListenTmp(s)
  BY <1>7 DEF ListenTmp
<1>8. CASE Rename(s)
  BY <1>8 DEF Rename
<1>9. CASE RenameFails(s)
  BY <1>9 DEF RenameFails
<1>10. CASE Die(s)
  BY <1>10 DEF Die
<1> QED
  BY <1>1, <1>2, <1>3, <1>4, <1>5, <1>6, <1>7, <1>8, <1>9, <1>10 DEF Step

(* A temporary name and the server that holds it stay together: another    *)
(* server binds only names that do not exist and removes only its own.     *)
LEMMA StepTmp ==
  ASSUME TypeOK, TmpInv, TmpNamesReturned,
         NEW s \in Servers, Start(s) \/ Step(s) \/ Die(s)
  PROVE  TmpInv' /\ TmpNamesReturned'
<1> USE PathAssumption
    DEF TypeOK, TmpInv, TmpNamesReturned, InUse, Holding, Goto, Names, Servers
<1>1. CASE Start(s)
  BY <1>1 DEF Start
<1>2. CASE Unlink(s)
  BY <1>2 DEF Unlink
<1>3. CASE Bind(s)
  BY <1>3 DEF Bind
<1>4. CASE Listen(s)
  BY <1>4 DEF Listen
<1>5. CASE Conflict(s)
  BY <1>5 DEF Conflict
<1>6. CASE TryTmp(s)
  BY <1>6 DEF TryTmp
<1>7. CASE ListenTmp(s)
  BY <1>7 DEF ListenTmp
<1>8. CASE Rename(s)
  BY <1>8 DEF Rename
<1>9. CASE RenameFails(s)
  BY <1>9 DEF RenameFails
<1>10. CASE Die(s)
  BY <1>10 DEF Die
<1> QED
  BY <1>1, <1>2, <1>3, <1>4, <1>5, <1>6, <1>7, <1>8, <1>9, <1>10 DEF Step

(* Only an unlink makes the path disappear, and it is followed by a bind;  *)
(* a bind leaves the path in existence, whoever it is of.                  *)
LEMMA StepPath ==
  ASSUME TypeOK, TmpInv, PathInv, NEW s \in Servers, Start(s) \/ Step(s)
  PROVE  PathInv'
<1> USE PathAssumption DEF TypeOK, PathInv, Goto, Names
<1>1. CASE Start(s)
  BY <1>1 DEF Start
<1>2. CASE Unlink(s)
  BY <1>2 DEF Unlink
<1>3. CASE Bind(s)
  BY <1>3 DEF Bind, InUse
<1>4. CASE Listen(s)
  BY <1>4 DEF Listen
<1>5. CASE Conflict(s)
  BY <1>5 DEF Conflict
<1>6. CASE TryTmp(s)
  BY <1>6 DEF TryTmp, InUse
<1>7. CASE ListenTmp(s)
  BY <1>7 DEF ListenTmp
<1>8. CASE Rename(s)
  BY <1>8 DEF Rename, TmpInv, Holding
<1>9. CASE RenameFails(s)
  BY <1>9 DEF RenameFails, TmpInv, Holding
<1> QED
  BY <1>1, <1>2, <1>3, <1>4, <1>5, <1>6, <1>7, <1>8, <1>9 DEF Step

(* Each step preserves the invariant; the flag of deaths only ever rises.  *)
LEMMA NextInv == IInv /\ [Next]_vars => IInv'
<1> SUFFICES ASSUME IInv, [Next]_vars PROVE IInv'
  OBVIOUS
<1>1. CASE UNCHANGED vars
  BY <1>1 DEF IInv, vars, TypeOK, TmpInv, TmpNamesReturned, InUse, PathInv
<1>2. CASE Next
  <2>1. PICK s \in Servers : Start(s) \/ Step(s) \/ Die(s)
    BY <1>2 DEF Next
  <2>2. TypeOK' /\ TmpInv' /\ TmpNamesReturned'
    BY <2>1, StepTypes, StepTmp DEF IInv
  <2>3. ASSUME ~died' PROVE PathInv'
    <3>1. ~died /\ ~Die(s)
      BY <2>1, <2>3 DEF Start, Step, Die, Unlink, Bind, Listen, Conflict, TryTmp,
                        ListenTmp, Rename, RenameFails
    <3> QED
      BY <2>1, <3>1, StepPath DEF IInv
  <2> QED
    BY <2>2, <2>3 DEF IInv
<1> QED
  BY <1>1, <1>2

LEMMA SpecInv == Spec => []IInv
BY InitInv, NextInv, PTL DEF Spec

(* TypeOK, for any number of servers. (ipc-unix.c:42-61, unix.go:93-132)   *)
THEOREM PathTypes == Spec => []TypeOK
<1>1. IInv => TypeOK
  BY DEF IInv
<1> QED
  BY <1>1, SpecInv, PTL

(* Temporary names do not pile up while nobody dies. (unix.go:112-129)     *)
THEOREM PathTmpNames == Spec => []TmpNamesReturned
<1>1. IInv => TmpNamesReturned
  BY DEF IInv
<1> QED
  BY <1>1, SpecInv, PTL

(* When all starts have ended, clients reach one of the servers.           *)
(* (ipc-unix.c:49-55, unix.go:94-131)                                      *)
THEOREM PathOneIsReached == Spec => []OneIsReached
<1>1. IInv => OneIsReached
  BY DEF IInv, TypeOK, PathInv, OneIsReached, Reachable, Starting, Names
<1> QED
  BY <1>1, SpecInv, PTL

(* ListenUnix takes the path over without a gap, whatever other servers    *)
(* do, those in C excepted. (unix.go:94-131)                               *)
THEOREM PathNoGap == Spec => NoGap
<1> DEFINE Kept == Reachable /\ pc'[names[Path]] = "serving" =>
                     Reachable' \/ \E s \in CServers : GapBy(s)
<1>1. ASSUME IInv, Next PROVE Kept
  <2> SUFFICES ASSUME Reachable, pc'[names[Path]] = "serving"
               PROVE  Reachable' \/ \E s \in CServers : GapBy(s)
    OBVIOUS
  <2>1. PICK s \in Servers : Start(s) \/ Step(s) \/ Die(s)
    BY <1>1 DEF Next
  <2>2. CASE Unlink(s)
    <3>1. s \in CServers /\ GapBy(s)
      BY <1>1, <2>2 DEF IInv, TmpInv, TypeOK, Unlink, Goto, GapBy
    <3> QED
      BY <3>1
  <2>3. CASE Rename(s)
    <3>1. names'[Path] = s /\ pc'[s] = "serving"
      BY <1>1, <2>3, PathAssumption
         DEF IInv, TmpInv, Holding, TypeOK, Rename, Goto, Names
    <3> QED
      BY <3>1 DEF Reachable
  <2>4. CASE ~Unlink(s) /\ ~Rename(s)
    <3>1. names'[Path] = names[Path]
      <4> USE <1>1, <2>4, PathAssumption
          DEF IInv, TypeOK, Reachable, Goto, Names, InUse
      <4>1. CASE Start(s) \/ Listen(s) \/ Conflict(s) \/ ListenTmp(s)
        BY <4>1 DEF Start, Listen, Conflict, ListenTmp
      <4>2. CASE Bind(s)
        BY <4>2 DEF Bind
      <4>3. CASE TryTmp(s)
        BY <4>3 DEF TryTmp
      <4>4. CASE RenameFails(s)
        BY <4>4 DEF RenameFails, TmpInv, Holding
      <4>5. CASE Die(s)
        <5>1. names[Path] # s
          BY <4>5 DEF Die
        <5> QED
          BY <4>5, <5>1 DEF Die
      <4> QED
        BY <2>1, <2>4, <4>1, <4>2, <4>3, <4>4, <4>5 DEF Step
    <3> QED
      BY <3>1 DEF Reachable
  <2> QED
    BY <2>2, <2>3, <2>4
<1>2. IInv /\ [Next]_vars => [Kept]_vars
  BY <1>1
<1> QED
  BY <1>2, SpecInv, PTL DEF Spec, NoGap
===============================================================================
