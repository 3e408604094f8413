------------------------------- MODULE MCShare -------------------------------
(***************************************************************************)
(* Instances of ScreenShareSession.                                        *)
(***************************************************************************)
EXTENDS ScreenShareSession

=============================================================================
