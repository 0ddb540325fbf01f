--------------------------- MODULE MCDownloadQueue ---------------------------
(* Small instances of DownloadQueue for TLC.                               *)
EXTENDS DownloadQueue, TLC

CONSTANTS c1, c2, c3, s1, s2, p1, p2, p3

OneSource == [c \in Chapters |-> s1]
TwoSources == [c \in Chapters |-> IF c = c3 THEN s2 ELSE s1]
OwnPath == [c \in Chapters |-> IF c = c1 THEN p1 ELSE IF c = c2 THEN p2 ELSE p3]
CapOne == [s \in Sources |-> 1]
CapTwo == [s \in Sources |-> 2]
CapMixed == [s \in Sources |-> IF s = s1 THEN 1 ELSE 2]

Symmetry == Permutations(Workers)
=============================================================================
