----------------------------- MODULE MCZixRing ------------------------------
(* The ring and the choice of its size, on the instance of MCZixRing.cfg.  *)
EXTENDS ZixRingNew
=============================================================================
