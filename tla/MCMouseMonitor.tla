--------------------------- MODULE MCMouseMonitor ---------------------------
(* The mouse monitor has no constants: two buttons are all there are.      *)
EXTENDS MouseMonitor
=============================================================================
