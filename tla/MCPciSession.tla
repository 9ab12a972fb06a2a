---------------------------- MODULE MCPciSession ----------------------------
(* The eight vectors and 26 entries of the code; two users unbind through  *)
(* sysfs at any time.                                                      *)
EXTENDS PciSession
=============================================================================
