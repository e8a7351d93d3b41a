---------------------------- MODULE MCGuidedInstall ----------------------------
(***************************************************************************)
(* Two profiles of one machine, each recorded before or not.               *)
(***************************************************************************)
EXTENDS GuidedInstall, TLC

=============================================================================
