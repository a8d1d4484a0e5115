----------------------------- MODULE MCFdPassing ------------------------------
(* Instances of FdPassing.                                                 *)
EXTENDS FdPassing

CONSTANTS c1, c2

(* What the uninitialised ints may be without naming an open descriptor:   *)
(* zero, a negative number, a number that is not open.                     *)
Harmless == {-1, 0, TopFd + 1}

(* A number the second descriptor to be handed out has.                    *)
Harmful == {0, Listener + 2}
===============================================================================
