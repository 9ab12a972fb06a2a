-------------------------- MODULE MCRamStateRestore --------------------------
(* Model values of RamStateRestore for TLC: see the cfg files.             *)
EXTENDS RamStateRestore

CONSTANTS r1, r2, s1, l1

MCRestorers == {r1, r2}

MCSnapshotters == {s1}

MCLaunchers == {l1}

\* Two restorations and a snapshot; one of each kind.
MCCasts == {MCRestorers \cup MCSnapshotters, {r1, s1, l1}}

OneRestorer == {{r1}}
=============================================================================
