---------------------------- MODULE MCHipSession ----------------------------
(* Small instances of HipSession; its constants are numbers and switches.  *)
EXTENDS HipSession
=============================================================================
