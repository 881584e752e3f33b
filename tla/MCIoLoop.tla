------------------------------- MODULE MCIoLoop -------------------------------
(* Two TcpConnection objects, one of them constructed when the pool is      *)
(* empty, and two descriptors: each object meets each descriptor, before    *)
(* and after it was used by the other.                                      *)
EXTENDS IoLoop, TLC

CONSTANTS c1, c2, fd7, fd8

MCConns == {c1, c2}
MCPool == <<c1>>
MCFds == {fd7, fd8}
FdSymmetry == Permutations(MCFds)
=============================================================================
