---------------------------- MODULE MCWebSession ----------------------------
(***************************************************************************)
(* One tab that is closed and opened again while its calls travel, with    *)
(* two sessions; see WebSession.cfg.                                       *)
(***************************************************************************)
EXTENDS WebSession
=============================================================================
