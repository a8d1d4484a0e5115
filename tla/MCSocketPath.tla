----------------------------- MODULE MCSocketPath -----------------------------
(* Instances of SocketPath.                                                *)
EXTENDS SocketPath, TLC

CONSTANTS cs1, cs2, go1, go2, t1, t2

PathSymmetry == Permutations(CServers) \cup Permutations(GoServers)
                \cup Permutations(TmpNames)
===============================================================================
