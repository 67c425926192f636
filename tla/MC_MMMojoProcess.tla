-------------------------- MODULE MC_MMMojoProcess --------------------------
(***************************************************************************)
(* Instances of MMMojoProcess.                                             *)
(***************************************************************************)
EXTENDS MMMojoProcess

CONSTANTS E1, E2, LogPath
=============================================================================
