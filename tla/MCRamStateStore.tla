--------------------------- MODULE MCRamStateStore ---------------------------
(* Two saves that may overlap, a third one whose user waits for the others *)
(* to end, and a restoration: see ramstore.cfg.  The two, and the inputs   *)
(* of the host, are interchangeable.                                       *)
EXTENDS RamStateStore, TLC

StoreSymmetry == Permutations(Savers \ Careful) \cup Permutations(Bases)
=============================================================================
