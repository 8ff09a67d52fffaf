---------------------------- MODULE MCHostModules ----------------------------
(* HostModules for TLC.  Every assignment of files to providers is an initial
   state, so that one listing order of the files stands for all of them. *)
EXTENDS HostModules

CONSTANTS f1, f2, f3

MCFiles == {f1, f2, f3}
MCDir == <<f1, f2, f3>>
=============================================================================
