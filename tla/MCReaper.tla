------------------------------ MODULE MCReaper ------------------------------
(***************************************************************************)
(* The reaper with the times of MCReaper.cfg, in sweeps.                   *)
(***************************************************************************)
EXTENDS Reaper

=============================================================================
