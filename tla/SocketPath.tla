------------------------------ MODULE SocketPath ------------------------------
(***************************************************************************)
(* Servers that come up on the same path, may die and come up again:       *)
(* ipc_unix_listen (libsipc/ipc-unix.c), which removes the name and binds  *)
(* it, and ListenUnix (go-ipc/unix.go), which binds it and, when it is     *)
(* taken, listens on a temporary name and renames that over the path.      *)
(*                                                                         *)
(* A name leads to the socket that was bound to it; the name outlives the  *)
(* socket when the process dies.  Binding a name that exists fails.  A     *)
(* client that connects (ipc_unix_connect, DialUnix) is let in when the    *)
(* path leads to a socket that listens.                                    *)
(***************************************************************************)
EXTENDS Naturals

CONSTANTS
  CServers,   \* processes that call ipc_unix_listen
  GoServers,  \* processes that call ListenUnix(path, true)
  Path,
  TmpNames,   \* the temporary names that may be drawn
  MaxTries,   \* draws before ErrConflict, 5 in the code
  None,       \* a name that does not exist
  Stale       \* a name whose socket is gone

Servers == CServers \cup GoServers
Names == {Path} \cup TmpNames

ASSUME PathAssumption ==
  /\ CServers \cap GoServers = {}
  /\ Path \notin TmpNames
  /\ None # Stale /\ None \notin Servers /\ Stale \notin Servers
  /\ MaxTries \in Nat

VARIABLES
  names,  \* what each name leads to
  pc,     \* where each server is; "serving" and "failed" are after the call
  tries,  \* i in the loop of ListenUnix
  tmp,    \* tmppath
  died    \* some server has died

vars == <<names, pc, tries, tmp, died>>

Starting == {"unlink", "bind", "listen", "try", "tmplisten", "rename"}
InUse(n) == names[n] # None
Goto(s, where) == pc' = [pc EXCEPT ![s] = where]

(* What a client that connects now finds.                                  *)
Reachable == names[Path] \in Servers /\ pc[names[Path]] = "serving"

Init ==
  /\ names = [n \in Names |-> None]
  /\ pc = [s \in Servers |-> "off"]
  /\ tries = [s \in Servers |-> 0]
  /\ tmp = [s \in Servers |-> Path]
  /\ died = FALSE

-------------------------------------------------------------------------------
Start(s) ==
  /\ pc[s] \in {"off", "failed"}
  /\ Goto(s, IF s \in CServers THEN "unlink" ELSE "bind")
  /\ tries' = [tries EXCEPT ![s] = 0]
  /\ UNCHANGED <<names, tmp, died>>

(* ipc_unix_listen only. *)
Unlink(s) ==
  /\ pc[s] = "unlink"
  /\ names' = [names EXCEPT ![Path] = None]
  /\ Goto(s, "bind")
  /\ UNCHANGED <<tries, tmp, died>>

(* Mutant: ListenUnix removes a name in use, as ipc_unix_listen does.      *)
BindRemoves(s) ==
  /\ pc[s] = "bind"
  /\ IF InUse(Path)
     THEN /\ Goto(s, IF s \in CServers THEN "failed" ELSE "bind")
          /\ names' = IF s \in CServers THEN names ELSE [names EXCEPT ![Path] = None]
     ELSE names' = [names EXCEPT ![Path] = s] /\ Goto(s, "listen")
  /\ UNCHANGED <<tries, tmp, died>>

Bind(s) ==
  /\ pc[s] = "bind"
  /\ IF InUse(Path)
     THEN Goto(s, IF s \in CServers THEN "failed" ELSE "try") /\ UNCHANGED names
     ELSE names' = [names EXCEPT ![Path] = s] /\ Goto(s, "listen")
  /\ UNCHANGED <<tries, tmp, died>>

Listen(s) ==
  /\ pc[s] = "listen"
  /\ Goto(s, "serving")
  /\ UNCHANGED <<names, tries, tmp, died>>

(* ListenUnix only: one turn of the loop over temporary names.             *)
Conflict(s) ==
  /\ pc[s] = "try" /\ tries[s] = MaxTries
  /\ Goto(s, "failed")
  /\ UNCHANGED <<names, tries, tmp, died>>

(* Mutant: the draws are not limited.                                      *)
TryTmpAlways(s) ==
  /\ pc[s] = "try"
  /\ \E n \in TmpNames :
       IF InUse(n)
       THEN /\ tries' = [tries EXCEPT ![s] = @ + 1]
            /\ UNCHANGED <<names, pc, tmp>>
       ELSE /\ names' = [names EXCEPT ![n] = s]
            /\ tmp' = [tmp EXCEPT ![s] = n]
            /\ Goto(s, "tmplisten") /\ UNCHANGED tries
  /\ UNCHANGED died

TryTmp(s) ==
  /\ pc[s] = "try" /\ tries[s] # MaxTries
  /\ \E n \in TmpNames :
       IF InUse(n)
       THEN /\ tries' = [tries EXCEPT ![s] = @ + 1]
            /\ UNCHANGED <<names, pc, tmp>>
       ELSE /\ names' = [names EXCEPT ![n] = s]
            /\ tmp' = [tmp EXCEPT ![s] = n]
            /\ Goto(s, "tmplisten") /\ UNCHANGED tries
  /\ UNCHANGED died

ListenTmp(s) ==
  /\ pc[s] = "tmplisten"
  /\ Goto(s, "rename")
  /\ UNCHANGED <<names, tries, tmp, died>>

Rename(s) ==
  /\ pc[s] = "rename"
  /\ names' = [names EXCEPT ![Path] = s, ![tmp[s]] = None]
  /\ Goto(s, "serving")
  /\ UNCHANGED <<tries, tmp, died>>

(* Mutants: the listener is dropped without its name, or with the path.    *)
RenameFailsLeaks(s) ==
  /\ pc[s] = "rename"
  /\ Goto(s, "failed")
  /\ UNCHANGED <<names, tries, tmp, died>>

RenameFailsRemoves(s) ==
  /\ pc[s] = "rename"
  /\ names' = [names EXCEPT ![Path] = None, ![tmp[s]] = None]
  /\ Goto(s, "failed")
  /\ UNCHANGED <<tries, tmp, died>>

(* Closing a Go listener removes the name it was bound to.                 *)
RenameFails(s) ==
  /\ pc[s] = "rename"
  /\ names' = [names EXCEPT ![tmp[s]] = None]
  /\ Goto(s, "failed")
  /\ UNCHANGED <<tries, tmp, died>>

(* The process dies, during its start or later.                            *)
Die(s) ==
  /\ pc[s] \notin {"off", "failed"}
  /\ names' = [n \in Names |-> IF names[n] = s THEN Stale ELSE names[n]]
  /\ Goto(s, "off")
  /\ died' = TRUE
  /\ UNCHANGED <<tries, tmp>>

-------------------------------------------------------------------------------
Step(s) == \/ Unlink(s) \/ Bind(s) \/ Listen(s)
           \/ Conflict(s) \/ TryTmp(s) \/ ListenTmp(s)
           \/ Rename(s) \/ RenameFails(s)

Next == \E s \in Servers : Start(s) \/ Step(s) \/ Die(s)

Spec == Init /\ [][Next]_vars

-------------------------------------------------------------------------------
TypeOK ==
  /\ names \in [Names -> Servers \cup {None, Stale}]
  /\ pc \in [Servers -> {"off", "serving", "failed"} \cup Starting]
  /\ tries \in [Servers -> 0..MaxTries]
  /\ tmp \in [Servers -> Names]
  /\ died \in BOOLEAN

GapBy(s) == pc[s] = "unlink" /\ pc'[s] = "bind"

(* unix.go:124, "try and do an atomic overwrite": as long as the server    *)
(* that clients reach lives, no start, failed start or death of another    *)
(* makes the path lead nowhere, unless it is a server in C that removes    *)
(* the name first. (ipc-unix.c:49-55, unix.go:94-131)                      *)
NoGap ==
  [][Reachable /\ pc'[names[Path]] = "serving" =>
       Reachable' \/ \E s \in CServers : GapBy(s)]_vars

(* However starts in C and in Go are interleaved, once all of them have    *)
(* ended, and no server has died, clients reach one of those that believe  *)
(* they serve: the unlink of one and the bind of another never leave all   *)
(* of them without the path. (ipc-unix.c:49-55, unix.go:94-131)            *)
OneIsReached ==
  /\ ~died
  /\ \A s \in Servers : pc[s] \notin Starting
  /\ \E s \in Servers : pc[s] = "serving"
  => Reachable

(* A temporary name exists only while the start that drew it is on its     *)
(* way, unless that server died: a failed rename takes its name along.     *)
(* (unix.go:112-129)                                                       *)
TmpNamesReturned ==
  \A n \in TmpNames :
    InUse(n) => \/ names[n] = Stale
                \/ /\ names[n] \in GoServers
                   /\ pc[names[n]] \in {"tmplisten", "rename"}
                   /\ tmp[names[n]] = n
===============================================================================
