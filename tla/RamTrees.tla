------------------------------ MODULE RamTrees ------------------------------
(***************************************************************************)
(* The two directory trees of the device that the RAM-state scripts        *)
(* replace, /run/work and /run/codex-home, as values.  A tree is told      *)
(* apart by which snapshot (or which local, never archived) files its top  *)
(* directory holds and by the directories that a rename put inside it:     *)
(* mv of a directory onto an existing directory does not replace it, it    *)
(* moves the source INTO it.                                               *)
(***************************************************************************)
EXTENDS FiniteSets

CONSTANTS
  Gens,     \* the snapshot generations an archive may hold
  Full,     \* those whose archive has the allowlisted files of codex-home
  Orig,     \* the files present before the first restoration
  Local     \* files of codex-home outside the archive's allowlist

ASSUME TagsAssumption ==
  /\ Full \subseteq Gens
  /\ Orig \notin Gens
  /\ Local \notin Gens

Tags == Gens \cup {Orig, Local}

Trees == [dir : BOOLEAN, files : SUBSET Tags, in : SUBSET (SUBSET Tags)]

NoTree == [dir |-> FALSE, files |-> {}, in |-> {}]

Dir(files) == [dir |-> TRUE, files |-> files, in |-> {}]

\* What is at the destination after "mv src dst" succeeded.
Moved(src, dst) ==
  IF dst.dir
    THEN [dst EXCEPT !.in = @ \cup {src.files} \cup src.in]
    ELSE src

\* The work tree an archive of generation g unpacks to.
WorkOf(g) == Dir({g})

\* The home an archive of generation g makes of the home h: a copy of h
\* (cp -a) in which the allowlisted files the archive has replace h's.
HomeOf(h, g) ==
  [dir   |-> TRUE,
   files |-> IF g \in Full THEN (h.files \cap {Local}) \cup {g} ELSE h.files,
   in    |-> h.in]

\* The trees a device holds before any restoration: the launcher or an
\* installer made the directories, or did not.
FreshWork == {NoTree, Dir({}), Dir({Orig})}
FreshHome == {NoTree, Dir({}), Dir({Orig, Local})}

\* Tree s is still to be found in tree t, in its place or moved inside it.
Keeps(t, s) ==
  \/ ~s.dir
  \/ t = s
  \/ t.dir /\ ({s.files} \cup s.in) \subseteq t.in
=============================================================================
