------------------------- MODULE MCApplicationModel -------------------------
(***************************************************************************)
(* Two instruments, either of which may be missing at a start.             *)
(***************************************************************************)
EXTENDS ApplicationModel

CONSTANTS piano, organ
=============================================================================
