-------------------------- MODULE MCDirectoryLock --------------------------
(* Instances of DirectoryLock for TLC: two or three commands, the second    *)
(* of them running withRuntimeLock, the others acquireDirectoryLock.        *)
EXTENDS DirectoryLock

CONSTANTS p1, p2, p3

Pair == {p1, p2}
Three == {p1, p2, p3}
Second == {p2}
=============================================================================
