------------------------ MODULE MCOperationalSamples ------------------------
(* Instance of OperationalSamples for TLC.                                 *)
EXTENDS OperationalSamples
=============================================================================
