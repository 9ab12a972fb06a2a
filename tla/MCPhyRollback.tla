---------------------------- MODULE MCPhyRollback ----------------------------
(* A table of the shape of the driver's, on one-bit cells: two cells set   *)
(* and cleared again in nested order (0x40 and 0x118), one cleared and     *)
(* set again (0x198) around another one's step (0x188), then the counter   *)
(* command (0x860) and the second mask of 0x188.                           *)
EXTENDS PhyRollback

MCCells == {"40", "118", "198", "188", "860", "188h"}

Step(c, b) == [cell |-> c, bits |-> b]

MCSteps ==
  << Step("40", 1), Step("118", 1), Step("118", 0), Step("40", 0),
     Step("198", 0), Step("188", 1), Step("198", 1), Step("860", 1),
     Step("188h", 0) >>
=============================================================================
