---------------------------- MODULE MCTrackerSync ----------------------------
(***************************************************************************)
(* Instances of TrackerSync for TLC.                                       *)
(***************************************************************************)
EXTENDS TrackerSync

\* Chapter 1 and chapter 1.5: the site counts both as one.
Halves == {10, 15}
=============================================================================
