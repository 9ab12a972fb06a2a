---------------------------- MODULE DevInstallProofs ----------------------------
(***************************************************************************)
(* The installation, for any number of installers, links and bundles.      *)
(* Only the owner of the lock changes what the installation replaces, so   *)
(* the invariant says where the owner is and what it has done by then.     *)
(***************************************************************************)
EXTENDS DevInstall, SequenceTheorems, TLAPS

Committed == "committed" \in flags[lock]

Changed == "wrappers_changed" \in flags[lock]

Copy == [wrap |-> start.wrap, mark |-> start.mark]

\* Before the lock or after it, and inside it.
Outside == {"idle", "lock", "exited"}

InsidePcs == Working \cup Cleaning \cup {"traps", "stuck"}

\* What the flags say about the step, and the reverse.
NoFlag == {"idle", "lock", "traps", "backup", "fetch", "old", "new", "rootflag"}

BothFlags == {"tool", "links", "check", "mark", "commit"}

LockInv ==
  \A p \in Installers :
    /\ pc[p] \in InsidePcs => lock = p
    /\ lock = p => pc[p] \notin Outside
    /\ pc[p] \in NoFlag => flags[p] = {}
    /\ pc[p] = "wrapflag" => flags[p] = {"root_changed"}
    /\ pc[p] \in BothFlags => flags[p] = {"root_changed", "wrappers_changed"}
    /\ pc[p] = "drop" => "committed" \in flags[p]
    /\ "committed" \in flags[p] =>
         pc[p] \in {"drop", "cleanup", "unlock", "exited", "dead"}
    /\ pc[p] \in {"idle", "lock", "traps"} \cup Working => status[p] = "none"
    /\ status[p] = "ok" => "committed" \in flags[p]

\* Without a hit nobody leaves a previous root to the next owner.
FreeInv ==
  /\ lock = NoOne /\ ~hit => previous = <<>>
  /\ stale => hit

\* The root that the owner found, until the commit.
OldRootInv ==
  /\ pc[lock] \in {"traps", "backup", "fetch", "old"} =>
       root = start.root /\ previous = <<>>
  /\ pc[lock] = "new" => root = <<>> /\ previous = start.root
  /\ pc[lock] \in {"rootflag", "wrapflag"} \cup BothFlags => previous = start.root
  /\ pc[lock] = "cleanup" =>
       \/ root = start.root /\ previous = <<>> /\ "root_changed" \notin flags[lock]
       \/ root = <<>> /\ previous = start.root /\ "root_changed" \notin flags[lock]
       \/ /\ root = <<lock>> /\ previous = start.root
          /\ "root_changed" \in flags[lock] \/ hit
  /\ pc[lock] = "mvback" => previous = start.root
  /\ pc[lock] \in {"wrappers", "oldmark", "unlock"} =>
       previous = <<>> /\ (root = start.root \/ (hit /\ start.root = <<>>))
  /\ start.root = <<>> \/ root = start.root \/ previous = start.root

RootInv ==
  /\ lock # NoOne /\ pc[lock] \in {"rootflag", "wrapflag"} \cup BothFlags =>
       root = <<lock>>
  /\ lock # NoOne /\ ~Committed /\ ~stale => OldRootInv

\* Wrappers and marker, until the commit.
WrapInv ==
  lock # NoOne /\ ~Committed =>
    /\ pc[lock] \in {"traps", "backup", "fetch", "old", "new", "rootflag",
                     "wrapflag", "tool"} =>
         wrap = start.wrap /\ mark = start.mark
    /\ pc[lock] \in {"fetch", "old", "new", "rootflag", "wrapflag"} \cup BothFlags =>
         backup = Copy
    /\ pc[lock] = "links" =>
         /\ left \subseteq Links
         /\ \A n \in Names : wrap[n] = IF n = "git" \/ n \in left THEN start.wrap[n]
                                       ELSE AI!Wrapped(start.wrap, lock)[n]
    /\ pc[lock] \in {"check", "mark", "commit"} => wrap = AI!Wrapped(start.wrap, lock)
    /\ pc[lock] = "commit" => mark = lock
    /\ pc[lock] \in {"cleanup", "mvback"} =>
         IF Changed THEN backup = Copy ELSE wrap = start.wrap /\ mark = start.mark
    /\ pc[lock] = "mvback" => left = Names
    /\ pc[lock] = "wrappers" =>
         IF Changed
           THEN /\ backup # NoOne /\ backup.mark = start.mark
                /\ \A n \in Names : IF n \in left THEN backup.wrap[n] = start.wrap[n]
                                                  ELSE wrap[n] = start.wrap[n]
           ELSE wrap = start.wrap /\ mark = start.mark
    /\ pc[lock] = "oldmark" =>
         backup # NoOne /\ backup.mark = start.mark /\ wrap = start.wrap
    /\ pc[lock] = "unlock" => wrap = start.wrap /\ mark = start.mark

\* Wherever the owner stopped, each wrapper is in its place or has its copy.
SafeInv ==
  lock # NoOne /\ ~Committed =>
    \A n \in Names : \/ wrap[n] = start.wrap[n]
                     \/ backup # NoOne /\ backup.wrap[n] = start.wrap[n]

\* After the commit everything is the bundle's.
CommitInv ==
  lock # NoOne /\ Committed =>
    /\ root = <<lock>> /\ mark = lock /\ wrap = AI!Wrapped(start.wrap, lock)
    /\ pc[lock] \in {"cleanup", "unlock"} /\ (status[lock] = "ok" \/ ~hit) =>
         previous = <<>>

InstallInv ==
  TypeOK /\ LockInv /\ FreeInv /\ RootInv /\ WrapInv /\ SafeInv /\ CommitInv

-----------------------------------------------------------------------------
\* The variables that are functions, and the owner of the lock.
LEMMA Functions ==
  ASSUME TypeOK
  PROVE  /\ pc = [q \in Installers |-> pc[q]]
         /\ flags = [q \in Installers |-> flags[q]]
         /\ status = [q \in Installers |-> status[q]]
         /\ lock # NoOne => lock \in Installers
         /\ wrap = [n \in Names |-> wrap[n]]
         /\ start.wrap = [n \in Names |-> start.wrap[n]]
BY DEF TypeOK

\* Only the owner of the lock is inside, and its flags tell where it is.
LEMMA LockStep ==
  ASSUME TypeOK, LockInv, NEW p \in Installers,
         Preflight(p) \/ Step(p) \/ Signal(p) \/ Kill(p)
  PROVE  LockInv'
<1> USE Functions, InstallAssumption DEF LockInv, InsidePcs, Outside, NoFlag,
      BothFlags, Working, Cleaning, Goto, Trees, Opt, History
<1>1. CASE Preflight(p)
  BY <1>1 DEF Preflight
<1>2. CASE Mkdir(p)
  BY <1>2 DEF Mkdir
<1>3. CASE SetTraps(p)
  BY <1>3 DEF SetTraps
<1>4. CASE Backup(p)
  BY <1>4 DEF Backup, Fails
<1>5. CASE Fetch(p)
  BY <1>5 DEF Fetch, Fails
<1>6. CASE MoveOld(p)
  BY <1>6 DEF MoveOld, Fails
<1>7. CASE MoveNew(p)
  BY <1>7 DEF MoveNew, Fails
<1>8. CASE RootFlag(p)
  BY <1>8 DEF RootFlag, SetFlag
<1>9. CASE WrappersFlag(p)
  BY <1>9 DEF WrappersFlag, SetFlag
<1>10. CASE WriteTool(p)
  BY <1>10 DEF WriteTool, Fails, HalfWritten, SetWrap
<1>11. CASE LinkTool(p)
  BY <1>11 DEF LinkTool, Fails, SetWrap
<1>12. CASE WriteGit(p)
  BY <1>12 DEF WriteGit, Fails, HalfWritten, SetWrap
<1>13. CASE Check(p)
  BY <1>13 DEF Check, Fails
<1>14. CASE WriteMark(p)
  BY <1>14 DEF WriteMark, Fails
<1>15. CASE Commit(p)
  BY <1>15 DEF Commit, SetFlag
<1>16. CASE DropPrevious(p)
  BY <1>16 DEF DropPrevious, Fails
<1>17. CASE Cleanup(p)
  BY <1>17 DEF Cleanup
<1>18. CASE MoveBack(p)
  BY <1>18 DEF MoveBack
<1>19. CASE RestoreWrapper(p)
  BY <1>19 DEF RestoreWrapper, SetWrap
<1>20. CASE WrappersDone(p)
  BY <1>20 DEF WrappersDone
<1>21. CASE RestoreMark(p)
  BY <1>21 DEF RestoreMark
<1>22. CASE Unlock(p)
  BY <1>22 DEF Unlock
<1>23. CASE Signal(p)
  BY <1>23 DEF Signal, Fails
<1>24. CASE Kill(p)
  BY <1>24 DEF Kill
<1> QED
  BY <1>1, <1>2, <1>3, <1>4, <1>5, <1>6, <1>7, <1>8, <1>9, <1>10, <1>11,
     <1>12, <1>13, <1>14, <1>15, <1>16, <1>17, <1>18, <1>19, <1>20, <1>21,
     <1>22, <1>23, <1>24 DEF Step

\* A previous root is left, and found, only after a hit.
LEMMA FreeStep ==
  ASSUME TypeOK, LockInv, FreeInv, RootInv, CommitInv, NEW p \in Installers,
         Preflight(p) \/ Step(p) \/ Signal(p) \/ Kill(p)
  PROVE  FreeInv'
<1> USE Functions, InstallAssumption DEF FreeInv, RootInv, OldRootInv,
      CommitInv, Committed, LockInv, InsidePcs, Outside, NoFlag, BothFlags,
      Working, Cleaning, Goto, Trees, Opt, History
<1>1. CASE Preflight(p)
  BY <1>1 DEF Preflight
<1>2. CASE Mkdir(p)
  <2>1. CASE lock = NoOne
    <3>1. /\ lock' = p /\ p # NoOne /\ hit' = hit /\ previous' = previous
          /\ stale' = (previous # <<>>)
      BY <1>2, <2>1 DEF Mkdir
    <3>2. ~hit => previous = <<>>
      BY <2>1
    <3> QED
      BY <3>1, <3>2
  <2>2. CASE lock # NoOne
    BY <1>2, <2>2 DEF Mkdir
  <2> QED
    BY <2>1, <2>2
<1>3. CASE SetTraps(p)
  BY <1>3 DEF SetTraps
<1>4. CASE Backup(p)
  BY <1>4 DEF Backup, Fails
<1>5. CASE Fetch(p)
  BY <1>5 DEF Fetch, Fails
<1>6. CASE MoveOld(p)
  BY <1>6 DEF MoveOld, Fails
<1>7. CASE MoveNew(p)
  BY <1>7 DEF MoveNew, Fails
<1>8. CASE RootFlag(p)
  BY <1>8 DEF RootFlag, SetFlag
<1>9. CASE WrappersFlag(p)
  BY <1>9 DEF WrappersFlag, SetFlag
<1>10. CASE WriteTool(p)
  BY <1>10 DEF WriteTool, Fails, HalfWritten, SetWrap
<1>11. CASE LinkTool(p)
  BY <1>11 DEF LinkTool, Fails, SetWrap
<1>12. CASE WriteGit(p)
  BY <1>12 DEF WriteGit, Fails, HalfWritten, SetWrap
<1>13. CASE Check(p)
  BY <1>13 DEF Check, Fails
<1>14. CASE WriteMark(p)
  BY <1>14 DEF WriteMark, Fails
<1>15. CASE Commit(p)
  BY <1>15 DEF Commit, SetFlag
<1>16. CASE DropPrevious(p)
  BY <1>16 DEF DropPrevious, Fails
<1>17. CASE Cleanup(p)
  BY <1>17 DEF Cleanup
<1>18. CASE MoveBack(p)
  BY <1>18 DEF MoveBack
<1>19. CASE RestoreWrapper(p)
  BY <1>19 DEF RestoreWrapper, SetWrap
<1>20. CASE WrappersDone(p)
  BY <1>20 DEF WrappersDone
<1>21. CASE RestoreMark(p)
  BY <1>21 DEF RestoreMark
<1>22. CASE Unlock(p)
  BY <1>22 DEF Unlock
<1>23. CASE Signal(p)
  BY <1>23 DEF Signal, Fails
<1>24. CASE Kill(p)
  BY <1>24 DEF Kill
<1> QED
  BY <1>1, <1>2, <1>3, <1>4, <1>5, <1>6, <1>7, <1>8, <1>9, <1>10, <1>11,
     <1>12, <1>13, <1>14, <1>15, <1>16, <1>17, <1>18, <1>19, <1>20, <1>21,
     <1>22, <1>23, <1>24 DEF Step

\* The root that the owner found is in one of its two places.
LEMMA RootStep ==
  ASSUME TypeOK, LockInv, FreeInv, RootInv, NEW p \in Installers,
         Preflight(p) \/ Step(p) \/ Signal(p) \/ Kill(p)
  PROVE  RootInv'
<1> USE Functions, InstallAssumption DEF RootInv, OldRootInv, Committed,
      LockInv, InsidePcs, Outside, NoFlag, BothFlags, Working, Cleaning, Goto,
      Trees, Opt, History
<1>1. CASE Preflight(p)
  BY <1>1 DEF Preflight
<1>2. CASE Mkdir(p)
  <2>1. CASE lock = NoOne
    <3>1. /\ lock' = p /\ pc'[p] = "traps" /\ root' = root /\ start'.root = root
          /\ previous' = previous /\ stale' = (previous # <<>>)
      BY <1>2, <2>1 DEF Mkdir
    <3>2. ~stale' => previous = <<>>
      BY <3>1
    <3> QED
      BY <3>1, <3>2
  <2>2. CASE lock # NoOne
    BY <1>2, <2>2 DEF Mkdir
  <2> QED
    BY <2>1, <2>2
<1>3. CASE SetTraps(p)
  BY <1>3 DEF SetTraps
<1>4. CASE Backup(p)
  BY <1>4 DEF Backup, Fails
<1>5. CASE Fetch(p)
  BY <1>5 DEF Fetch, Fails
<1>6. CASE MoveOld(p)
  <2>1. lock = p /\ pc[p] = "old"
    BY <1>6 DEF MoveOld, Fails
  <2>2. previous = <<>> => previous \o root = root
    BY ConcatEmptySeq DEF TypeOK
  <2>3. lock' = lock /\ stale' = stale /\ start' = start /\ flags' = flags
    BY <1>6 DEF MoveOld
  <2>4. CASE pc'[p] = "new" /\ root = <<>>
    <3>1. root' = root /\ previous' = previous
      BY <1>6, <2>1, <2>4 DEF MoveOld, Fails
    <3> QED
      BY <2>1, <2>3, <2>4, <3>1
  <2>5. CASE pc'[p] = "new" /\ root # <<>>
    <3>1. root' = <<>> /\ previous' = previous \o root
      BY <1>6, <2>1, <2>5 DEF MoveOld, Fails
    <3>2. previous = <<>> => previous' = root
      BY <2>2, <3>1
    <3> QED
      BY <2>1, <2>3, <2>5, <3>1, <3>2
  <2>6. CASE pc'[p] = "cleanup"
    BY <1>6, <2>1, <2>6 DEF MoveOld, Fails
  <2> QED
    BY <1>6, <2>1, <2>4, <2>5, <2>6 DEF MoveOld, Fails
<1>7. CASE MoveNew(p)
  BY <1>7 DEF MoveNew, Fails
<1>8. CASE RootFlag(p)
  BY <1>8 DEF RootFlag, SetFlag
<1>9. CASE WrappersFlag(p)
  BY <1>9 DEF WrappersFlag, SetFlag
<1>10. CASE WriteTool(p)
  BY <1>10 DEF WriteTool, Fails, HalfWritten, SetWrap
<1>11. CASE LinkTool(p)
  BY <1>11 DEF LinkTool, Fails, SetWrap
<1>12. CASE WriteGit(p)
  BY <1>12 DEF WriteGit, Fails, HalfWritten, SetWrap
<1>13. CASE Check(p)
  BY <1>13 DEF Check, Fails
<1>14. CASE WriteMark(p)
  BY <1>14 DEF WriteMark, Fails
<1>15. CASE Commit(p)
  BY <1>15 DEF Commit, SetFlag
<1>16. CASE DropPrevious(p)
  BY <1>16 DEF DropPrevious, Fails
<1>17. CASE Cleanup(p)
  BY <1>17 DEF Cleanup
<1>18. CASE MoveBack(p)
  BY <1>18 DEF MoveBack
<1>19. CASE RestoreWrapper(p)
  BY <1>19 DEF RestoreWrapper, SetWrap
<1>20. CASE WrappersDone(p)
  BY <1>20 DEF WrappersDone
<1>21. CASE RestoreMark(p)
  BY <1>21 DEF RestoreMark
<1>22. CASE Unlock(p)
  BY <1>22 DEF Unlock
<1>23. CASE Signal(p)
  <2>1. CASE lock = p
    <3>1. CASE pc'[p] = "dead"
      BY <1>23, <2>1, <3>1 DEF Signal, Fails
    <3>2. CASE pc'[p] = "cleanup" /\ pc[p] \in Working
      <4>1. /\ root' = root /\ previous' = previous /\ start' = start /\ lock' = lock
            /\ flags' = flags /\ stale' = stale /\ hit' = (hit \/ pc[p] \in Window)
        BY <1>23 DEF Signal, Fails
      <4>2. "committed" \notin flags[p] /\ ~stale => OldRootInv'
        BY <2>1, <3>2, <4>1 DEF Window
      <4> QED
        BY <2>1, <3>2, <4>1, <4>2
    <3> QED
      BY <1>23, <2>1, <3>1, <3>2 DEF Signal, Fails
  <2>2. CASE lock # p
    BY <1>23, <2>2 DEF Signal, Fails
  <2> QED
    BY <2>1, <2>2
<1>24. CASE Kill(p)
  BY <1>24 DEF Kill
<1> QED
  BY <1>1, <1>2, <1>3, <1>4, <1>5, <1>6, <1>7, <1>8, <1>9, <1>10, <1>11,
     <1>12, <1>13, <1>14, <1>15, <1>16, <1>17, <1>18, <1>19, <1>20, <1>21,
     <1>22, <1>23, <1>24 DEF Step

\* The wrappers that a bundle makes.
LEMMA WrappedIs ==
  ASSUME NEW p \in Installers, NEW w \in [Names -> Contents]
  PROVE  /\ AI!Wrapped(w, p) \in [Names -> Contents]
         /\ AI!Wrapped(w, p)["a1625-tool"] = p /\ AI!Wrapped(w, p)["git"] = p
         /\ \A n \in Links : AI!Wrapped(w, p)[n] =
              IF n \in Provides[p] THEN "link" ELSE IF w[n] = "link" THEN Absent ELSE w[n]
BY InstallAssumption DEF AI!Wrapped, AI!Names, AI!Fixed, Names, Contents

\* The names of the wrappers.
LEMMA NamesAre ==
  /\ Names = {"a1625-tool", "git"} \cup Links
  /\ "a1625-tool" \notin Links /\ "git" \notin Links
BY InstallAssumption DEF Names, AI!Names, AI!Fixed

\* A copy below the lock is not the absence of one.
LEMMA CopyIs ==
  ASSUME TypeOK
  PROVE  Copy \in Copies /\ Copy # NoOne /\ Copy.wrap = start.wrap /\ Copy.mark = start.mark
<1>1. Copy \in Copies
  BY DEF Copy, Copies, TypeOK
<1> QED
  BY <1>1, CopyAssumption DEF Copy

\* Wrappers and marker are changed only once their copies are there.
LEMMA WrapStep ==
  ASSUME TypeOK, LockInv, WrapInv, NEW p \in Installers,
         Preflight(p) \/ Step(p) \/ Signal(p) \/ Kill(p)
  PROVE  WrapInv'
<1> USE Functions, InstallAssumption DEF WrapInv, Committed, Changed, Copy,
      LockInv, InsidePcs, Outside, NoFlag, BothFlags, Working, Cleaning, Goto,
      Trees, Opt, History
<1>1. CASE Preflight(p)
  BY <1>1 DEF Preflight
<1>2. CASE Mkdir(p)
  BY <1>2 DEF Mkdir
<1>3. CASE SetTraps(p)
  BY <1>3 DEF SetTraps
<1>4. CASE Backup(p)
  BY <1>4 DEF Backup, Fails
<1>5. CASE Fetch(p)
  BY <1>5 DEF Fetch, Fails
<1>6. CASE MoveOld(p)
  BY <1>6 DEF MoveOld, Fails
<1>7. CASE MoveNew(p)
  BY <1>7 DEF MoveNew, Fails
<1>8. CASE RootFlag(p)
  BY <1>8 DEF RootFlag, SetFlag
<1>9. CASE WrappersFlag(p)
  BY <1>9 DEF WrappersFlag, SetFlag
<1>10. CASE WriteTool(p)
  <2>0. lock = p /\ pc[p] = "tool" /\ start.wrap \in [Names -> Contents]
    BY <1>10 DEF WriteTool, Fails, TypeOK
  <2>1. CASE pc'[p] = "links"
    <3>1. wrap' = [wrap EXCEPT !["a1625-tool"] = p] /\ left' = Links
      BY <1>10, <2>0, <2>1 DEF WriteTool, Fails, SetWrap
    <3>2. \A n \in Names : wrap'[n] = IF n = "git" \/ n \in Links THEN start.wrap[n]
                                      ELSE AI!Wrapped(start.wrap, p)[n]
      BY <2>0, <3>1, WrappedIs, NamesAre
    <3> QED
      BY <1>10, <2>0, <2>1, <3>1, <3>2 DEF WriteTool, Fails
  <2>2. CASE pc'[p] = "cleanup"
    BY <1>10, <2>0, <2>2 DEF WriteTool, Fails
  <2> QED
    BY <1>10, <2>0, <2>1, <2>2 DEF WriteTool, Fails
<1>11. CASE LinkTool(p)
  <2>0. lock = p /\ pc[p] = "links" /\ start.wrap \in [Names -> Contents]
    BY <1>11 DEF LinkTool, Fails, TypeOK
  <2>1. CASE pc'[p] = "links"
    <3>1. PICK n \in left :
            /\ left' = left \ {n}
            /\ wrap' = [wrap EXCEPT ![n] = IF n \in Provides[p] THEN "link"
                                          ELSE IF wrap[n] = "link" THEN Absent ELSE wrap[n]]
      BY <1>11, <2>0, <2>1 DEF LinkTool, Fails, SetWrap
    <3>2. n \in Links /\ n # "git" /\ n # "a1625-tool" /\ wrap[n] = start.wrap[n]
      BY <2>0, NamesAre
    <3>3. \A m \in Names : wrap'[m] = IF m = "git" \/ m \in left' THEN start.wrap[m]
                                      ELSE AI!Wrapped(start.wrap, p)[m]
      BY <2>0, <3>1, <3>2, WrappedIs, NamesAre
    <3> QED
      BY <1>11, <2>0, <2>1, <3>1, <3>3 DEF LinkTool
  <2>2. CASE pc'[p] = "cleanup"
    BY <1>11, <2>0, <2>2 DEF LinkTool, Fails
  <2> QED
    BY <1>11, <2>0, <2>1, <2>2 DEF LinkTool, Fails
<1>12. CASE WriteGit(p)
  <2>0. lock = p /\ pc[p] = "links" /\ start.wrap \in [Names -> Contents]
    BY <1>12 DEF WriteGit, Fails, TypeOK
  <2>1. CASE pc'[p] = "check"
    <3>1. wrap' = [wrap EXCEPT !["git"] = p] /\ left = {}
      BY <1>12, <2>0, <2>1 DEF WriteGit, Fails, SetWrap
    <3>2. \A n \in Names : wrap'[n] = AI!Wrapped(start.wrap, p)[n]
      BY <2>0, <3>1, WrappedIs, NamesAre
    <3>3. wrap' = AI!Wrapped(start.wrap, p)
      <4>1. wrap' = [n \in Names |-> wrap'[n]]
        BY <3>1
      <4>2. AI!Wrapped(start.wrap, p) = [n \in Names |-> AI!Wrapped(start.wrap, p)[n]]
        BY <2>0, WrappedIs
      <4> QED
        BY <3>2, <4>1, <4>2
    <3> QED
      BY <1>12, <2>0, <2>1, <3>3 DEF WriteGit, Fails
  <2>2. CASE pc'[p] = "cleanup"
    BY <1>12, <2>0, <2>2 DEF WriteGit, Fails
  <2> QED
    BY <1>12, <2>0, <2>1, <2>2 DEF WriteGit, Fails
<1>13. CASE Check(p)
  BY <1>13 DEF Check, Fails
<1>14. CASE WriteMark(p)
  BY <1>14 DEF WriteMark, Fails
<1>15. CASE Commit(p)
  BY <1>15 DEF Commit, SetFlag
<1>16. CASE DropPrevious(p)
  BY <1>16 DEF DropPrevious, Fails
<1>17. CASE Cleanup(p)
  <2>1. lock = p /\ pc[p] = "cleanup" /\ pc'[p] \in {"unlock", "mvback", "wrappers"}
    BY <1>17 DEF Cleanup
  <2>2. Changed /\ ~Committed => backup = Copy
    BY <2>1
  <2> QED
    BY <1>17, <2>1, <2>2, CopyIs DEF Cleanup
<1>18. CASE MoveBack(p)
  <2>1. lock = p /\ pc[p] = "mvback"
    BY <1>18 DEF MoveBack
  <2> QED
    BY <1>18, <2>1, CopyIs DEF MoveBack
<1>19. CASE RestoreWrapper(p)
  <2>0. lock = p /\ pc[p] = "wrappers" /\ Changed /\ ~Committed
    BY <1>19 DEF RestoreWrapper
  <2>1. PICK n \in left :
          \/ /\ wrap' = [wrap EXCEPT ![n] = backup.wrap[n]]
             /\ backup' = [backup EXCEPT !.wrap[n] = NoOne]
             /\ left' = left \ {n} /\ UNCHANGED pc
          \/ pc'[p] = "stuck"
    BY <1>19, <2>0 DEF RestoreWrapper, SetWrap
  <2>2. CASE pc'[p] = "stuck"
    BY <1>19, <2>0, <2>2 DEF RestoreWrapper
  <2>3. CASE pc'[p] # "stuck"
    <3>1. n \in Names /\ backup \in Copies
      BY <2>0 DEF TypeOK
    <3>2. backup' \in Copies /\ backup'.mark = backup.mark
      BY <2>1, <2>3, <3>1 DEF Copies
    <3>3. backup' # NoOne
      BY <3>2, CopyAssumption
    <3>4. \A m \in Names : m # n => backup'.wrap[m] = backup.wrap[m]
      BY <2>1, <2>3, <3>1 DEF Copies
    <3>5. \A m \in Names : IF m \in left' THEN backup'.wrap[m] = start.wrap[m]
                                          ELSE wrap'[m] = start.wrap[m]
      BY <2>0, <2>1, <2>3, <3>1, <3>4
    <3> QED
      BY <1>19, <2>0, <2>1, <2>3, <3>2, <3>3, <3>5 DEF RestoreWrapper
  <2> QED
    BY <2>2, <2>3
<1>20. CASE WrappersDone(p)
  BY <1>20 DEF WrappersDone
<1>21. CASE RestoreMark(p)
  BY <1>21 DEF RestoreMark
<1>22. CASE Unlock(p)
  BY <1>22 DEF Unlock
<1>23. CASE Signal(p)
  BY <1>23 DEF Signal, Fails
<1>24. CASE Kill(p)
  BY <1>24 DEF Kill
<1> QED
  BY <1>1, <1>2, <1>3, <1>4, <1>5, <1>6, <1>7, <1>8, <1>9, <1>10, <1>11,
     <1>12, <1>13, <1>14, <1>15, <1>16, <1>17, <1>18, <1>19, <1>20, <1>21,
     <1>22, <1>23, <1>24 DEF Step

\* No wrapper is without its copy before it is in its place again.
LEMMA SafeStep ==
  ASSUME TypeOK, LockInv, WrapInv, SafeInv, NEW p \in Installers,
         Preflight(p) \/ Step(p) \/ Signal(p) \/ Kill(p)
  PROVE  SafeInv'
<1> USE Functions, InstallAssumption DEF SafeInv, WrapInv, Committed, Changed,
      LockInv, InsidePcs, Outside, NoFlag, BothFlags, Working, Cleaning, Goto,
      Trees, Opt, History
<1>1. CASE Preflight(p)
  BY <1>1 DEF Preflight
<1>2. CASE Mkdir(p)
  BY <1>2 DEF Mkdir
<1>3. CASE SetTraps(p)
  BY <1>3 DEF SetTraps
<1>4. CASE Backup(p)
  <2>1. CASE pc'[p] = "fetch"
    <3>1. backup' = Copy /\ lock' = lock /\ lock = p /\ start' = start
      BY <1>4, <2>1 DEF Backup, Fails, Copy
    <3> QED
      BY <3>1, CopyIs
  <2>2. CASE pc'[p] # "fetch"
    BY <1>4, <2>2 DEF Backup, Fails
  <2> QED
    BY <2>1, <2>2
<1>5. CASE Fetch(p)
  BY <1>5 DEF Fetch, Fails
<1>6. CASE MoveOld(p)
  BY <1>6 DEF MoveOld, Fails
<1>7. CASE MoveNew(p)
  BY <1>7 DEF MoveNew, Fails
<1>8. CASE RootFlag(p)
  BY <1>8 DEF RootFlag, SetFlag
<1>9. CASE WrappersFlag(p)
  BY <1>9 DEF WrappersFlag, SetFlag
<1>10. CASE WriteTool(p)
  <2>1. lock = p /\ ~Committed /\ backup = Copy
    BY <1>10 DEF WriteTool, Fails
  <2>2. lock' = lock /\ backup' = backup /\ start' = start
    BY <1>10 DEF WriteTool
  <2> QED
    BY <2>1, <2>2, CopyIs
<1>11. CASE LinkTool(p)
  <2>1. lock = p /\ ~Committed /\ backup = Copy
    BY <1>11 DEF LinkTool, Fails
  <2>2. lock' = lock /\ backup' = backup /\ start' = start
    BY <1>11 DEF LinkTool
  <2> QED
    BY <2>1, <2>2, CopyIs
<1>12. CASE WriteGit(p)
  <2>1. lock = p /\ ~Committed /\ backup = Copy
    BY <1>12 DEF WriteGit, Fails
  <2>2. lock' = lock /\ backup' = backup /\ start' = start
    BY <1>12 DEF WriteGit
  <2> QED
    BY <2>1, <2>2, CopyIs
<1>13. CASE Check(p)
  BY <1>13 DEF Check, Fails
<1>14. CASE WriteMark(p)
  BY <1>14 DEF WriteMark, Fails
<1>15. CASE Commit(p)
  BY <1>15 DEF Commit, SetFlag
<1>16. CASE DropPrevious(p)
  BY <1>16 DEF DropPrevious, Fails
<1>17. CASE Cleanup(p)
  BY <1>17 DEF Cleanup
<1>18. CASE MoveBack(p)
  BY <1>18 DEF MoveBack
<1>19. CASE RestoreWrapper(p)
  <2>0. lock = p /\ pc[p] = "wrappers" /\ Changed /\ ~Committed /\ backup # NoOne
    BY <1>19 DEF RestoreWrapper
  <2>1. PICK n \in left :
          \/ /\ wrap' = [wrap EXCEPT ![n] = backup.wrap[n]]
             /\ backup' = [backup EXCEPT !.wrap[n] = NoOne]
          \/ wrap' = [wrap EXCEPT ![n] = Absent] /\ backup' = backup
    BY <1>19, <2>0 DEF RestoreWrapper, SetWrap
  <2>2. n \in Names /\ backup \in Copies /\ backup.wrap[n] = start.wrap[n]
    BY <2>0 DEF TypeOK
  <2>3. backup' \in Copies /\ \A m \in Names : m # n => backup'.wrap[m] = backup.wrap[m]
    BY <2>1, <2>2 DEF Copies
  <2>4. backup' # NoOne
    BY <2>3, CopyAssumption
  <2>5. \A m \in Names : wrap'[m] = start.wrap[m] \/ backup'.wrap[m] = start.wrap[m]
    BY <2>0, <2>1, <2>2, <2>3
  <2> QED
    BY <1>19, <2>4, <2>5 DEF RestoreWrapper
<1>20. CASE WrappersDone(p)
  BY <1>20 DEF WrappersDone
<1>21. CASE RestoreMark(p)
  BY <1>21 DEF RestoreMark
<1>22. CASE Unlock(p)
  BY <1>22 DEF Unlock
<1>23. CASE Signal(p)
  BY <1>23 DEF Signal, Fails
<1>24. CASE Kill(p)
  BY <1>24 DEF Kill
<1> QED
  BY <1>1, <1>2, <1>3, <1>4, <1>5, <1>6, <1>7, <1>8, <1>9, <1>10, <1>11,
     <1>12, <1>13, <1>14, <1>15, <1>16, <1>17, <1>18, <1>19, <1>20, <1>21,
     <1>22, <1>23, <1>24 DEF Step

\* Nothing of the bundle changes after the commit.
LEMMA CommitStep ==
  ASSUME TypeOK, LockInv, FreeInv, RootInv, WrapInv, CommitInv, NEW p \in
         Installers,
         Preflight(p) \/ Step(p) \/ Signal(p) \/ Kill(p)
  PROVE  CommitInv'
<1> USE Functions, InstallAssumption DEF CommitInv, Committed, Window,
      LockInv, InsidePcs, Outside, NoFlag, BothFlags, Working, Cleaning, Goto,
      Trees, Opt, History
<1>1. CASE Preflight(p)
  BY <1>1 DEF Preflight
<1>2. CASE Mkdir(p)
  BY <1>2 DEF Mkdir
<1>3. CASE SetTraps(p)
  BY <1>3 DEF SetTraps
<1>4. CASE Backup(p)
  BY <1>4 DEF Backup, Fails
<1>5. CASE Fetch(p)
  BY <1>5 DEF Fetch, Fails
<1>6. CASE MoveOld(p)
  BY <1>6 DEF MoveOld, Fails
<1>7. CASE MoveNew(p)
  BY <1>7 DEF MoveNew, Fails
<1>8. CASE RootFlag(p)
  BY <1>8 DEF RootFlag, SetFlag
<1>9. CASE WrappersFlag(p)
  BY <1>9 DEF WrappersFlag, SetFlag
<1>10. CASE WriteTool(p)
  BY <1>10 DEF WriteTool, Fails, HalfWritten, SetWrap
<1>11. CASE LinkTool(p)
  BY <1>11 DEF LinkTool, Fails, SetWrap
<1>12. CASE WriteGit(p)
  BY <1>12 DEF WriteGit, Fails, HalfWritten, SetWrap
<1>13. CASE Check(p)
  BY <1>13 DEF Check, Fails
<1>14. CASE WriteMark(p)
  BY <1>14 DEF WriteMark, Fails
<1>15. CASE Commit(p)
  BY <1>15 DEF Commit, SetFlag, RootInv, WrapInv
<1>16. CASE DropPrevious(p)
  BY <1>16 DEF DropPrevious, Fails
<1>17. CASE Cleanup(p)
  BY <1>17 DEF Cleanup
<1>18. CASE MoveBack(p)
  BY <1>18 DEF MoveBack
<1>19. CASE RestoreWrapper(p)
  BY <1>19 DEF RestoreWrapper, SetWrap
<1>20. CASE WrappersDone(p)
  BY <1>20 DEF WrappersDone
<1>21. CASE RestoreMark(p)
  BY <1>21 DEF RestoreMark
<1>22. CASE Unlock(p)
  BY <1>22 DEF Unlock
<1>23. CASE Signal(p)
  BY <1>23 DEF Signal, Fails
<1>24. CASE Kill(p)
  BY <1>24 DEF Kill
<1> QED
  BY <1>1, <1>2, <1>3, <1>4, <1>5, <1>6, <1>7, <1>8, <1>9, <1>10, <1>11,
     <1>12, <1>13, <1>14, <1>15, <1>16, <1>17, <1>18, <1>19, <1>20, <1>21,
     <1>22, <1>23, <1>24 DEF Step

\* Types of the trees.
LEMMA SeqFacts ==
  ASSUME TypeOK, NEW p \in Installers
  PROVE  /\ <<>> \in Seq(Installers \cup {Old}) /\ <<p>> \in Seq(Installers \cup {Old})
         /\ previous \o root \in Seq(Installers \cup {Old})
BY EmptySeq, ConcatProperties DEF TypeOK

\* The type of a changed wrapper.
LEMMA WrapType ==
  ASSUME TypeOK, NEW n \in Names, NEW x \in Contents
  PROVE  [wrap EXCEPT ![n] = x] \in [Names -> Contents]
BY DEF TypeOK

\* Types are kept.
LEMMA TreesTypeStep ==
  ASSUME TypeOK, NEW p \in Installers,
         Preflight(p) \/ Step(p) \/ Signal(p) \/ Kill(p)
  PROVE  (root \in Seq(Installers \cup {Old}) /\ previous \in Seq(Installers \cup {Old}))'
<1> USE SeqFacts DEF Goto, Trees, Opt, History, TypeOK
<1>1. CASE MoveNew(p)
  <2>1. previous' = previous /\ (root' = root \/ root' = <<p>>)
    BY <1>1 DEF MoveNew, Fails
  <2>2. <<p>> \in Seq(Installers \cup {Old})
    BY SeqFacts
  <2> QED
    BY <2>1, <2>2
<1> QED
  BY <1>1
     DEF Step, Preflight, Mkdir, SetTraps, Backup, Fails, Fetch, MoveOld,
         RootFlag,
     SetFlag, WrappersFlag, WriteTool, HalfWritten, SetWrap, LinkTool,
     WriteGit, Check, WriteMark, Commit, DropPrevious, Cleanup,
     MoveBack, RestoreWrapper, WrappersDone, RestoreMark, Unlock,
     Signal, Kill

LEMMA ControlTypeStep ==
  ASSUME TypeOK, NEW p \in Installers,
         Preflight(p) \/ Step(p) \/ Signal(p) \/ Kill(p)
  PROVE  (/\ lock \in Installers \cup {NoOne}
          /\ pc \in [Installers -> Working \cup Cleaning \cup
                       {"idle", "lock", "traps", "exited", "stuck", "dead"}]
          /\ status \in [Installers -> {"none", "ok", "failed"}]
          /\ hit \in BOOLEAN /\ stale \in BOOLEAN)'
<1> USE DEF Goto, Trees, Opt, History, TypeOK, Working, Cleaning
<1>1. CASE Preflight(p)
  BY <1>1 DEF Preflight
<1>2. CASE Mkdir(p)
  <2>1. stale' \in BOOLEAN
    <3>1. stale' = stale \/ stale' = (previous # <<>>)
      BY <1>2 DEF Mkdir
    <3>2. (previous # <<>>) \in BOOLEAN
      BY Zenon
    <3> QED
      BY <3>1, <3>2
  <2> QED
    BY <1>2, <2>1 DEF Mkdir
<1>3. CASE SetTraps(p)
  BY <1>3 DEF SetTraps
<1>4. CASE Backup(p)
  BY <1>4 DEF Backup, Fails
<1>5. CASE Fetch(p)
  BY <1>5 DEF Fetch, Fails
<1>6. CASE MoveOld(p)
  BY <1>6 DEF MoveOld, Fails
<1>7. CASE MoveNew(p)
  BY <1>7 DEF MoveNew, Fails
<1>8. CASE RootFlag(p)
  BY <1>8 DEF RootFlag, SetFlag
<1>9. CASE WrappersFlag(p)
  BY <1>9 DEF WrappersFlag, SetFlag
<1>10. CASE WriteTool(p)
  BY <1>10 DEF WriteTool, Fails, HalfWritten, SetWrap
<1>11. CASE LinkTool(p)
  BY <1>11 DEF LinkTool, Fails, SetWrap
<1>12. CASE WriteGit(p)
  BY <1>12 DEF WriteGit, Fails, HalfWritten, SetWrap
<1>13. CASE Check(p)
  BY <1>13 DEF Check, Fails
<1>14. CASE WriteMark(p)
  BY <1>14 DEF WriteMark, Fails
<1>15. CASE Commit(p)
  BY <1>15 DEF Commit, SetFlag
<1>16. CASE DropPrevious(p)
  BY <1>16 DEF DropPrevious, Fails
<1>17. CASE Cleanup(p)
  BY <1>17 DEF Cleanup
<1>18. CASE MoveBack(p)
  BY <1>18 DEF MoveBack
<1>19. CASE RestoreWrapper(p)
  BY <1>19 DEF RestoreWrapper, SetWrap
<1>20. CASE WrappersDone(p)
  BY <1>20 DEF WrappersDone
<1>21. CASE RestoreMark(p)
  BY <1>21 DEF RestoreMark
<1>22. CASE Unlock(p)
  BY <1>22 DEF Unlock
<1>23. CASE Signal(p)
  BY <1>23 DEF Signal, Fails
<1>24. CASE Kill(p)
  BY <1>24 DEF Kill
<1> QED
  BY <1>1, <1>2, <1>3, <1>4, <1>5, <1>6, <1>7, <1>8, <1>9, <1>10, <1>11,
     <1>12, <1>13, <1>14, <1>15, <1>16, <1>17, <1>18, <1>19, <1>20, <1>21,
     <1>22, <1>23, <1>24 DEF Step

LEMMA FilesTypeStep ==
  ASSUME TypeOK, LockInv, WrapInv, NEW p \in Installers,
         Preflight(p) \/ Step(p) \/ Signal(p) \/ Kill(p)
  PROVE  (/\ mark \in Installers \cup {Old, Absent, Torn}
          /\ backup \in Copies \cup {NoOne})'
<1> USE DEF Goto, Trees, Opt, History, TypeOK, Copies
<1>1. CASE RestoreMark(p)
  <2>1. lock = p /\ ~Committed /\ pc[p] = "oldmark" /\ lock # NoOne
    BY <1>1, InstallAssumption DEF RestoreMark, LockInv, InsidePcs, Cleaning,
       Committed
  <2>2. backup.mark = start.mark
    BY <2>1 DEF WrapInv
  <2> QED
    BY <1>1, <2>2 DEF RestoreMark
<1>2. CASE RestoreWrapper(p)
  <2>1. lock = p /\ ~Committed /\ Changed /\ pc[p] = "wrappers" /\ lock # NoOne
    BY <1>2, InstallAssumption DEF RestoreWrapper, LockInv, InsidePcs,
       Cleaning, Committed, Changed
  <2>2. backup \in Copies
    BY <2>1 DEF WrapInv
  <2>3. PICK n \in left : backup' = backup \/ backup' = [backup EXCEPT !.wrap[n] = NoOne]
    BY <1>2 DEF RestoreWrapper
  <2>4. [backup EXCEPT !.wrap[n] = NoOne] \in Copies
    BY <2>2
  <2>5. mark' = mark
    BY <1>2 DEF RestoreWrapper, SetWrap
  <2> QED
    BY <2>2, <2>3, <2>4, <2>5
<1> QED
  BY <1>1, <1>2
     DEF Step, Preflight, Mkdir, SetTraps, Backup, Fails, Fetch, MoveOld,
         MoveNew,
     RootFlag, SetFlag, WrappersFlag, WriteTool, HalfWritten, SetWrap,
     LinkTool, WriteGit, Check, WriteMark, Commit, DropPrevious,
     Cleanup, MoveBack, WrappersDone, Unlock, Signal, Kill

LEMMA LoopTypeStep ==
  ASSUME TypeOK, NEW p \in Installers,
         Preflight(p) \/ Step(p) \/ Signal(p) \/ Kill(p)
  PROVE  (/\ left \subseteq Names
          /\ flags \in [Installers -> SUBSET {"committed", "root_changed", "wrappers_changed"}])'
<1> USE DEF Goto, Trees, Opt, History, TypeOK
<1>1. CASE Preflight(p)
  BY <1>1 DEF Preflight
<1>2. CASE Mkdir(p)
  BY <1>2 DEF Mkdir
<1>3. CASE SetTraps(p)
  BY <1>3 DEF SetTraps
<1>4. CASE Backup(p)
  BY <1>4 DEF Backup, Fails
<1>5. CASE Fetch(p)
  BY <1>5 DEF Fetch, Fails
<1>6. CASE MoveOld(p)
  BY <1>6 DEF MoveOld, Fails
<1>7. CASE MoveNew(p)
  BY <1>7 DEF MoveNew, Fails
<1>8. CASE RootFlag(p)
  BY <1>8 DEF RootFlag, SetFlag
<1>9. CASE WrappersFlag(p)
  BY <1>9 DEF WrappersFlag, SetFlag
<1>10. CASE WriteTool(p)
  BY <1>10, NamesAre DEF WriteTool, Fails, HalfWritten, SetWrap
<1>11. CASE LinkTool(p)
  BY <1>11 DEF LinkTool, Fails, SetWrap
<1>12. CASE WriteGit(p)
  BY <1>12 DEF WriteGit, Fails, HalfWritten, SetWrap
<1>13. CASE Check(p)
  BY <1>13 DEF Check, Fails
<1>14. CASE WriteMark(p)
  BY <1>14 DEF WriteMark, Fails
<1>15. CASE Commit(p)
  BY <1>15 DEF Commit, SetFlag
<1>16. CASE DropPrevious(p)
  BY <1>16 DEF DropPrevious, Fails
<1>17. CASE Cleanup(p)
  BY <1>17 DEF Cleanup
<1>18. CASE MoveBack(p)
  BY <1>18 DEF MoveBack
<1>19. CASE RestoreWrapper(p)
  BY <1>19 DEF RestoreWrapper, SetWrap
<1>20. CASE WrappersDone(p)
  BY <1>20 DEF WrappersDone
<1>21. CASE RestoreMark(p)
  BY <1>21 DEF RestoreMark
<1>22. CASE Unlock(p)
  BY <1>22 DEF Unlock
<1>23. CASE Signal(p)
  BY <1>23 DEF Signal, Fails
<1>24. CASE Kill(p)
  BY <1>24 DEF Kill
<1> QED
  BY <1>1, <1>2, <1>3, <1>4, <1>5, <1>6, <1>7, <1>8, <1>9, <1>10, <1>11,
     <1>12, <1>13, <1>14, <1>15, <1>16, <1>17, <1>18, <1>19, <1>20, <1>21,
     <1>22, <1>23, <1>24 DEF Step

LEMMA WrappersTypeStep ==
  ASSUME TypeOK, LockInv, WrapInv, NEW p \in Installers,
         Preflight(p) \/ Step(p) \/ Signal(p) \/ Kill(p)
  PROVE  (wrap \in [Names -> Contents])'
<1> USE DEF Goto, Trees, Opt, History
<1>1. CASE Preflight(p)
  BY <1>1 DEF TypeOK, Preflight
<1>2. CASE Mkdir(p)
  BY <1>2 DEF TypeOK, Mkdir
<1>3. CASE SetTraps(p)
  BY <1>3 DEF TypeOK, SetTraps
<1>4. CASE Backup(p)
  BY <1>4 DEF TypeOK, Backup, Fails
<1>5. CASE Fetch(p)
  BY <1>5 DEF TypeOK, Fetch, Fails
<1>6. CASE MoveOld(p)
  BY <1>6 DEF TypeOK, MoveOld, Fails
<1>7. CASE MoveNew(p)
  BY <1>7 DEF TypeOK, MoveNew, Fails
<1>8. CASE RootFlag(p)
  BY <1>8 DEF TypeOK, RootFlag, SetFlag
<1>9. CASE WrappersFlag(p)
  BY <1>9 DEF TypeOK, WrappersFlag, SetFlag
<1>10. CASE WriteTool(p)
  <2>1. PICK x \in Contents : wrap' = [wrap EXCEPT !["a1625-tool"] = x]
    BY <1>10, NamesAre DEF WriteTool, HalfWritten, SetWrap, TypeOK, Contents
  <2> QED
    BY <2>1, NamesAre, WrapType
<1>11. CASE LinkTool(p)
  <2>1. CASE UNCHANGED wrap
    BY <2>1 DEF TypeOK
  <2>2. CASE ~UNCHANGED wrap
    <3>1. PICK n \in left : wrap' = [wrap EXCEPT ![n] =
                                 IF n \in Provides[p] THEN "link"
                                 ELSE IF wrap[n] = "link" THEN Absent ELSE wrap[n]]
      BY <1>11, <2>2 DEF LinkTool, SetWrap
    <3>2. n \in Names /\ wrap[n] \in Contents
      BY DEF TypeOK
    <3> DEFINE x == IF n \in Provides[p] THEN "link"
                    ELSE IF wrap[n] = "link" THEN Absent ELSE wrap[n]
    <3>3. x \in Contents
      BY <3>2 DEF Contents
    <3> HIDE DEF x
    <3> QED
      BY <3>1, <3>2, <3>3, WrapType DEF x
  <2> QED
    BY <2>1, <2>2
<1>12. CASE WriteGit(p)
  <2>1. PICK x \in Contents : wrap' = [wrap EXCEPT !["git"] = x]
    BY <1>12, NamesAre DEF WriteGit, HalfWritten, SetWrap, TypeOK, Contents
  <2> QED
    BY <2>1, NamesAre, WrapType
<1>13. CASE Check(p)
  BY <1>13 DEF TypeOK, Check, Fails
<1>14. CASE WriteMark(p)
  BY <1>14 DEF TypeOK, WriteMark, Fails
<1>15. CASE Commit(p)
  BY <1>15 DEF TypeOK, Commit, SetFlag
<1>16. CASE DropPrevious(p)
  BY <1>16 DEF TypeOK, DropPrevious, Fails
<1>17. CASE Cleanup(p)
  BY <1>17 DEF TypeOK, Cleanup
<1>18. CASE MoveBack(p)
  BY <1>18 DEF TypeOK, MoveBack
<1>19. CASE RestoreWrapper(p)
  <2>1. lock = p /\ ~Committed /\ Changed /\ pc[p] = "wrappers" /\ lock # NoOne
    BY <1>19, InstallAssumption DEF RestoreWrapper, LockInv, InsidePcs,
       Cleaning, Committed, Changed
  <2>2. PICK n \in left : \/ wrap' = [wrap EXCEPT ![n] = backup.wrap[n]]
                          \/ wrap' = [wrap EXCEPT ![n] = Absent]
    BY <1>19 DEF RestoreWrapper, SetWrap
  <2>3. n \in Names /\ backup.wrap[n] = start.wrap[n] /\ start.wrap[n] \in Contents
    BY <2>1 DEF WrapInv, TypeOK
  <2>4. Absent \in Contents
    BY DEF Contents
  <2> QED
    BY <2>2, <2>3, <2>4, WrapType
<1>20. CASE WrappersDone(p)
  BY <1>20 DEF TypeOK, WrappersDone
<1>21. CASE RestoreMark(p)
  BY <1>21 DEF TypeOK, RestoreMark
<1>22. CASE Unlock(p)
  BY <1>22 DEF TypeOK, Unlock
<1>23. CASE Signal(p)
  BY <1>23 DEF TypeOK, Signal, Fails
<1>24. CASE Kill(p)
  BY <1>24 DEF TypeOK, Kill
<1> QED
  BY <1>1, <1>2, <1>3, <1>4, <1>5, <1>6, <1>7, <1>8, <1>9, <1>10, <1>11,
     <1>12, <1>13, <1>14, <1>15, <1>16, <1>17, <1>18, <1>19, <1>20, <1>21,
     <1>22, <1>23, <1>24 DEF Step

LEMMA StartTypeStep ==
  ASSUME TypeOK, NEW p \in Installers,
         Preflight(p) \/ Step(p) \/ Signal(p) \/ Kill(p)
  PROVE  (start \in [root : Seq(Installers \cup {Old}), wrap : [Names -> Contents],
                mark : Installers \cup {Old, Absent, Torn}])'
<1> USE DEF Goto, Trees, Opt, History, TypeOK
<1> QED
  BY DEF Step, Preflight, Mkdir, SetTraps, Backup, Fails, Fetch, MoveOld,
     MoveNew,
     RootFlag, SetFlag, WrappersFlag, WriteTool, HalfWritten, SetWrap,
     LinkTool, WriteGit, Check, WriteMark, Commit, DropPrevious,
     Cleanup, MoveBack, RestoreWrapper, WrappersDone, RestoreMark,
     Unlock, Signal, Kill

\* The invariant holds when the device starts.
LEMMA InstallStarts ==
  ASSUME Init
  PROVE  InstallInv
<1>1. PICK e \in AI!Fresh : root = e.root /\ wrap = e.wrap /\ mark = e.mark /\ start = e
  BY DEF Init
<1>2. /\ e.root \in Seq(Installers \cup {Old}) /\ e.wrap \in [Names -> Contents]
      /\ e.mark \in {Absent, Old}
      /\ e = [root |-> e.root, wrap |-> e.wrap, mark |-> e.mark]
  <2>1. CASE e \in [root : {<<>>}, mark : {Absent},
                    wrap : {w \in [Names -> {Absent, Foreign}] : w["a1625-tool"] = Absent}]
    BY <2>1, EmptySeq DEF Contents
  <2>2. CASE e \in [root : {<<Old>>}, mark : {Old},
                    wrap : {w \in [Names -> {Absent, Foreign, "link", Old}] :
                              \A n \in Names : (n \in AI!Fixed) = (w[n] = Old)}]
    <3>1. <<Old>> \in Seq(Installers \cup {Old})
      OBVIOUS
    <3> QED
      BY <2>2, <3>1 DEF Contents
  <2> QED
    BY <2>1, <2>2 DEF AI!Fresh, Names
<1>3. TypeOK
  <2>1. start \in [root : Seq(Installers \cup {Old}), wrap : [Names -> Contents],
                   mark : Installers \cup {Old, Absent, Torn}]
    BY <1>1, <1>2
  <2>2. previous \in Seq(Installers \cup {Old})
    BY EmptySeq DEF Init
  <2> QED
    BY <1>1, <1>2, <2>1, <2>2 DEF Init, TypeOK
<1>4. LockInv /\ FreeInv
  BY InstallAssumption DEF Init, LockInv, FreeInv, InsidePcs, Outside, NoFlag,
     BothFlags,
     Working, Cleaning
<1>5. lock = NoOne
  BY DEF Init
<1> QED
  BY <1>3, <1>4, <1>5 DEF InstallInv, RootInv, WrapInv, SafeInv, CommitInv

\* Every step keeps the invariant.
LEMMA InstallStep ==
  ASSUME InstallInv, [Next]_vars
  PROVE  InstallInv'
<1>1. ASSUME NEW p \in Installers, Preflight(p) \/ Step(p) \/ Signal(p) \/ Kill(p)
      PROVE  InstallInv'
  <2>1. TypeOK'
    BY <1>1, TreesTypeStep, ControlTypeStep, FilesTypeStep, LoopTypeStep,
       WrappersTypeStep, StartTypeStep DEF InstallInv, TypeOK
  <2> QED
    BY <1>1, <2>1, LockStep, FreeStep, RootStep, WrapStep, SafeStep, CommitStep
       DEF InstallInv
<1>2. CASE UNCHANGED vars
  BY <1>2 DEF vars, InstallInv, TypeOK, LockInv, FreeInv, RootInv, OldRootInv,
     WrapInv, SafeInv, CommitInv, Committed, Changed, Copy
<1> QED
  BY <1>1, <1>2 DEF Next

\* The invariant of the installation.
THEOREM InstallCorrect == Spec => []InstallInv
BY InstallStarts, InstallStep, PTL DEF Spec

\* TypeOK: types, for any number of installers, links and bundles.
THEOREM InstallTypeCorrect == Spec => []TypeOK
BY InstallCorrect, PTL DEF InstallInv

\* OldSurvives: until the commit, what the installation found is in its place
\* or can be put back, whatever kills it or fails.
THEOREM InstallOldSurvives == Spec => []OldSurvives
<1>1. ASSUME InstallInv PROVE OldSurvives
  BY <1>1 DEF InstallInv, RootInv, OldRootInv, SafeInv, Committed, OldSurvives
<1> QED
  BY <1>1, InstallCorrect, PTL

-----------------------------------------------------------------------------
\* The lock is given back only by Unlock.
LEMMA GivenBack ==
  ASSUME InstallInv, NEW p \in Installers, lock = p, lock' = NoOne, [Next]_vars
  PROVE  pc[p] = "unlock" /\ Unlock(p)
<1>1. PICK q \in Installers : Preflight(q) \/ Step(q) \/ Signal(q) \/ Kill(q)
  BY InstallAssumption DEF Next, vars
<1>2. Unlock(q)
  BY <1>1, InstallAssumption DEF Step, Goto, Trees, Opt, History, Preflight,
     Mkdir, SetTraps, Backup, Fails, Fetch, MoveOld, MoveNew, RootFlag,
     SetFlag, WrappersFlag, WriteTool, HalfWritten, SetWrap, LinkTool,
     WriteGit, Check, WriteMark, Commit, DropPrevious, Cleanup, MoveBack,
     RestoreWrapper, WrappersDone, RestoreMark, Unlock, Signal, Kill
<1>3. q = p
  BY <1>2 DEF Unlock, Goto, InstallInv, LockInv, InsidePcs, Cleaning
<1> QED
  BY <1>2, <1>3 DEF Unlock, Goto

\* EndsWhole: an installation leaves everything as it found it, or everything
\* of its bundle, and no previous root.
THEOREM InstallEndsWhole == Spec => EndsWhole
<1>1. ASSUME InstallInv, [Next]_vars, NEW p \in Installers, lock = p, lock' = NoOne
      PROVE  /\ "committed" \notin flags[p] /\ ~hit =>
                  [root |-> root, wrap |-> wrap, mark |-> mark] = start
             /\ status[p] = "ok" =>
                  root = <<p>> /\ mark = p /\ wrap = AI!Wrapped(start.wrap, p)
             /\ status[p] = "ok" \/ ~hit => previous = <<>>
  <2>1. pc[p] = "unlock" /\ p # NoOne
    BY <1>1, GivenBack, InstallAssumption
  <2>2. CASE "committed" \in flags[p]
    BY <1>1, <2>1, <2>2 DEF InstallInv, CommitInv, Committed
  <2>3. CASE "committed" \notin flags[p]
    <3>1. status[p] # "ok"
      BY <2>3, <1>1 DEF InstallInv, LockInv
    <3>2. ~hit => root = start.root /\ previous = <<>>
      BY <1>1, <2>1, <2>3 DEF InstallInv, FreeInv, RootInv, OldRootInv,
         Committed
    <3>3. wrap = start.wrap /\ mark = start.mark
      BY <1>1, <2>1, <2>3 DEF InstallInv, WrapInv, Committed
    <3>4. start = [root |-> start.root, wrap |-> start.wrap, mark |-> start.mark]
      BY <1>1 DEF InstallInv, TypeOK
    <3> QED
      BY <2>3, <3>1, <3>2, <3>3, <3>4
  <2> QED
    BY <2>2, <2>3
<1>2. InstallInv /\ [Next]_vars =>
        [\A p \in Installers : lock = p /\ lock' = NoOne =>
           /\ "committed" \notin flags[p] /\ ~hit =>
                [root |-> root, wrap |-> wrap, mark |-> mark] = start
           /\ status[p] = "ok" =>
                root = <<p>> /\ mark = p /\ wrap = AI!Wrapped(start.wrap, p)
           /\ status[p] = "ok" \/ ~hit => previous = <<>>]_vars
  BY <1>1
<1> QED
  BY <1>2, InstallCorrect, PTL DEF Spec, EndsWhole

-----------------------------------------------------------------------------
\* An owner's step that is neither commit nor unlock keeps what is in force.
LEMMA EnvKept ==
  ASSUME InstallInv, NEW p \in Installers, Preflight(p) \/ Step(p) \/ Signal(p) \/ Kill(p),
         ~hit', ~Commit(p), ~Unlock(p)
  PROVE  env' = env
<1> USE DEF env
<1>1. CASE lock # p
  <2>1. CASE Mkdir(p) /\ lock = NoOne
    <3>1. pc[p] = "lock" /\ lock' = p /\ p # NoOne /\ flags' = flags /\ flags[p] = {}
      BY <2>1, InstallAssumption DEF Mkdir, Goto, InstallInv, LockInv, NoFlag
    <3>2. start' = [root |-> root, wrap |-> wrap, mark |-> mark]
      BY <2>1 DEF Mkdir
    <3> QED
      BY <2>1, <3>1, <3>2
  <2>2. CASE ~(Mkdir(p) /\ lock = NoOne)
    <3>1. pc[p] \notin InsidePcs
      BY <1>1 DEF InstallInv, LockInv
    <3>2. UNCHANGED <<lock, flags, start, root, wrap, mark>>
      BY <2>2, <3>1 DEF Step, Goto, Trees, Opt, History, InsidePcs, Working,
         Cleaning, Preflight, Mkdir, SetTraps, Backup, Fails, Fetch, MoveOld,
         MoveNew, RootFlag, SetFlag, WrappersFlag, WriteTool, HalfWritten,
         SetWrap, LinkTool, WriteGit, Check, WriteMark, Commit, DropPrevious,
         Cleanup, MoveBack, RestoreWrapper, WrappersDone, RestoreMark, Unlock,
         Signal, Kill
    <3> QED
      BY <3>2
  <2> QED
    BY <2>1, <2>2
<1>2. CASE lock = p
  <2>1. p # NoOne /\ pc[p] \notin Outside
    BY <1>2, InstallAssumption DEF InstallInv, LockInv
  <2>2. lock' = lock /\ start' = start
    BY <1>2, <2>1 DEF Step, Goto, Trees, Opt, History, Outside, Preflight,
       Mkdir, SetTraps, Backup, Fails, Fetch, MoveOld, MoveNew, RootFlag,
       SetFlag, WrappersFlag, WriteTool, HalfWritten, SetWrap, LinkTool,
       WriteGit, Check, WriteMark, Commit, DropPrevious, Cleanup, MoveBack,
       RestoreWrapper, WrappersDone, RestoreMark, Unlock, Signal, Kill
  <2>3. "committed" \in flags'[p] <=> "committed" \in flags[p]
    BY <1>2, Functions DEF Step, Goto, Trees, Opt, History, InstallInv,
       Preflight, Mkdir, SetTraps, Backup, Fails, Fetch, MoveOld, MoveNew,
       RootFlag, SetFlag, WrappersFlag, WriteTool, HalfWritten, SetWrap,
       LinkTool, WriteGit, Check, WriteMark, Commit, DropPrevious, Cleanup,
       MoveBack, RestoreWrapper, WrappersDone, RestoreMark, Unlock, Signal,
       Kill
  <2>4. CASE "committed" \notin flags[p]
    BY <1>2, <2>1, <2>2, <2>3, <2>4
  <2>5. CASE "committed" \in flags[p]
    <3>1. pc[p] \in {"drop", "cleanup", "unlock", "exited", "dead"}
      BY <2>5 DEF InstallInv, LockInv
    <3>2. UNCHANGED <<root, wrap, mark>>
      BY <1>2, <2>5, <3>1 DEF Step, Goto, Trees, Opt, History, Preflight,
         Mkdir, SetTraps, Backup, Fails, Fetch, MoveOld, MoveNew, RootFlag,
         SetFlag, WrappersFlag, WriteTool, HalfWritten, SetWrap, LinkTool,
         WriteGit, Check, WriteMark, Commit, DropPrevious, Cleanup, MoveBack,
         RestoreWrapper, WrappersDone, RestoreMark, Unlock, Signal, Kill
    <3> QED
      BY <1>2, <2>1, <2>2, <2>3, <2>5, <3>2
  <2> QED
    BY <2>4, <2>5
<1> QED
  BY <1>1, <1>2

\* Atomic: the detailed installation implements the atomic one.
THEOREM InstallAtomic == Spec => Atomic
<1>1. Init => AI!Init
  <2> SUFFICES ASSUME Init PROVE AI!Init
    OBVIOUS
  <2>1. PICK e \in AI!Fresh : root = e.root /\ wrap = e.wrap /\ mark = e.mark
    BY DEF Init
  <2>2. e = [root |-> e.root, wrap |-> e.wrap, mark |-> e.mark]
    BY DEF AI!Fresh
  <2>3. lock = NoOne /\ hit = FALSE
    BY DEF Init
  <2>4. env = e
    BY <2>1, <2>2, <2>3 DEF env
  <2> QED
    BY <2>3, <2>4 DEF AI!Init
<1>2. InstallInv /\ InstallInv' /\ [Next]_vars => [AI!Next]_<<env, hit>>
  <2> SUFFICES ASSUME InstallInv, InstallInv', [Next]_vars
               PROVE  AI!Next \/ UNCHANGED <<env, hit>>
    OBVIOUS
  <2>0. hit \in BOOLEAN /\ hit' \in BOOLEAN
    BY DEF InstallInv, TypeOK
  <2>1. CASE hit' = TRUE
    BY <2>1 DEF AI!Next, AI!Break
  <2>2. CASE UNCHANGED vars
    BY <2>2 DEF vars, env
  <2>3. ASSUME NEW p \in Installers, Preflight(p) \/ Step(p) \/ Signal(p) \/ Kill(p), ~hit'
        PROVE  AI!Next \/ UNCHANGED <<env, hit>>
    <3>0. ~hit /\ hit' = hit
      BY <2>3 DEF Step, Goto, Trees, Opt, History, InstallInv, TypeOK,
         Preflight, Mkdir, SetTraps, Backup, Fails, Fetch, MoveOld, MoveNew,
         RootFlag, SetFlag, WrappersFlag, WriteTool, HalfWritten, SetWrap,
         LinkTool, WriteGit, Check, WriteMark, Commit, DropPrevious, Cleanup,
         MoveBack, RestoreWrapper, WrappersDone, RestoreMark, Unlock, Signal,
         Kill
    <3>1. CASE Commit(p)
      <4>1. /\ lock = p /\ p # NoOne /\ pc[p] = "commit" /\ lock' = lock
            /\ "committed" \notin flags[p] /\ "committed" \in flags'[p]
            /\ root' = root /\ wrap' = wrap /\ mark' = mark
        BY <3>1, InstallAssumption
           DEF Commit, SetFlag, Goto, Trees, Opt, InstallInv, TypeOK, LockInv,
               InsidePcs, Working, BothFlags
      <4>2. root = <<p>> /\ mark = p /\ wrap = AI!Wrapped(start.wrap, p)
        BY <4>1 DEF InstallInv, RootInv, WrapInv, BothFlags, Committed
      <4>3. env = start /\ env' = [root |-> root, wrap |-> wrap, mark |-> mark]
        BY <4>1 DEF env
      <4>4. AI!Replace(p)
        BY <3>0, <4>2, <4>3 DEF AI!Replace
      <4> QED
        BY <4>4 DEF AI!Next
    <3>2. CASE Unlock(p)
      <4>1. /\ pc[p] = "unlock" /\ lock = p /\ lock' = NoOne /\ p # NoOne
            /\ root' = root /\ wrap' = wrap /\ mark' = mark
        BY <3>2, InstallAssumption
           DEF Unlock, Goto, Trees, Opt, InstallInv, LockInv, InsidePcs,
               Cleaning
      <4>2. env' = [root |-> root, wrap |-> wrap, mark |-> mark]
        BY <4>1 DEF env
      <4>3. CASE "committed" \in flags[p]
        BY <3>0, <4>1, <4>2, <4>3 DEF env
      <4>4. CASE "committed" \notin flags[p]
        <5>1. root = start.root /\ wrap = start.wrap /\ mark = start.mark
          BY <3>0, <4>1, <4>4
             DEF InstallInv, FreeInv, RootInv, OldRootInv, WrapInv, Committed
        <5>2. start = [root |-> start.root, wrap |-> start.wrap, mark |-> start.mark]
          BY DEF InstallInv, TypeOK
        <5>3. env = start
          BY <4>1, <4>4 DEF env
        <5> QED
          BY <3>0, <4>2, <5>1, <5>2, <5>3
      <4> QED
        BY <4>3, <4>4
    <3>3. CASE ~Commit(p) /\ ~Unlock(p)
      BY <2>3, <3>0, <3>3, EnvKept
    <3> QED
      BY <3>1, <3>2, <3>3
  <2> QED
    BY <2>0, <2>1, <2>2, <2>3 DEF Next
<1> QED
  BY <1>1, <1>2, InstallCorrect, PTL DEF Spec, Atomic, AI!Spec

=============================================================================
