----------------------- MODULE RamStateRestoreProofs -----------------------
(* Theorems about the device side of saving and restoring RAM state, for   *)
(* any number of sessions and generations.                                 *)
EXTENDS RamStateRestore, TLAPS

\* The operators on trees yield trees.
LEMMA TreeTypes ==
  /\ NoTree \in Trees
  /\ \A f \in SUBSET Tags : Dir(f) \in Trees
  /\ \A s, d \in Trees : Moved(s, d) \in Trees
  /\ \A g \in Gens : WorkOf(g) \in Trees
  /\ \A h \in Trees, g \in Gens : HomeOf(h, g) \in Trees
<1>1. NoTree \in Trees
  BY DEF NoTree, Trees
<1>2. ASSUME NEW f \in SUBSET Tags PROVE Dir(f) \in Trees
  BY DEF Dir, Trees
<1>3. ASSUME NEW s \in Trees, NEW d \in Trees PROVE Moved(s, d) \in Trees
  <2>1. d.in \cup {s.files} \cup s.in \in SUBSET (SUBSET Tags)
    BY DEF Trees
  <2>2. QED
    BY <2>1 DEF Moved, Trees
<1>4. ASSUME NEW g \in Gens PROVE WorkOf(g) \in Trees
  BY DEF WorkOf, Dir, Trees, Tags
<1>5. ASSUME NEW h \in Trees, NEW g \in Gens PROVE HomeOf(h, g) \in Trees
  <2>1. (h.files \cap {Local}) \cup {g} \in SUBSET Tags
    BY DEF Tags
  <2>2. h.files \in SUBSET Tags /\ h.in \in SUBSET (SUBSET Tags)
    BY DEF Trees
  <2>3. QED
    BY <2>1, <2>2 DEF HomeOf, Trees
<1>6. QED
  BY <1>1, <1>2, <1>3, <1>4, <1>5

\* The trees a device starts with are trees.
LEMMA FreshTypes == FreshWork \subseteq Trees /\ FreshHome \subseteq Trees
<1>1. {Orig} \in SUBSET Tags /\ {Orig, Local} \in SUBSET Tags /\ {} \in SUBSET Tags
  BY DEF Tags
<1>2. QED
  BY <1>1, TreeTypes DEF FreshWork, FreshHome

\* A rename, also one that is skipped, keeps the paths' types.
LEMMA RenameType ==
  ASSUME tree \in [Paths -> Trees], NEW src \in Paths, NEW dst \in Paths,
         Rename(src, dst) \/ RenameIfThere(src, dst)
  PROVE  tree' \in [Paths -> Trees]
<1>1. Moved(tree[src], tree[dst]) \in Trees
  BY TreeTypes
<1>2. CASE Rename(src, dst)
  BY <1>1, <1>2, TreeTypes DEF Rename
<1>3. CASE UNCHANGED tree
  BY <1>3
<1>4. QED
  BY <1>2, <1>3 DEF RenameIfThere

\* Every state of the sessions, the lock and the trees is well typed.
THEOREM RestoreTypeCorrect == Spec => []TypeOK
<1>1. Init => TypeOK
  <2> SUFFICES ASSUME Init PROVE TypeOK
    OBVIOUS
  <2>1. PICK w \in FreshWork, h \in FreshHome :
          /\ tree = [p \in Paths |-> CASE p = "work" -> w
                                       [] p = "home" -> h
                                       [] OTHER -> NoTree]
          /\ start = [work |-> w, home |-> h]
    BY DEF Init
  <2>2. w \in Trees /\ h \in Trees
    BY FreshTypes
  <2>3. tree \in [Paths -> Trees]
    BY <2>1, <2>2, TreeTypes DEF Paths
  <2>4. start \in [work : Trees, home : Trees]
    BY <2>1, <2>2
  <2>5. snap \in [Snapshotters -> [work : Trees, home : Trees]]
    BY TreeTypes DEF Init
  <2>6. pc \in [Procs -> Pcs]
    BY DEF Init, Pcs, Ended
  <2>7. /\ lock \in Lockers \cup {NoOne}
        /\ flags \in [Restorers -> SUBSET {"committed", "worknew", "homenew"}]
        /\ gen \in [Restorers -> Gens]
        /\ report \in [Lockers -> {"none", "ok", "failed"}]
        /\ disturbed \in BOOLEAN
    BY DEF Init
  <2>8. QED
    BY <2>3, <2>4, <2>5, <2>6, <2>7 DEF TypeOK
<1>2. TypeOK /\ [Next]_vars => TypeOK'
  <2> SUFFICES ASSUME TypeOK, [Next]_vars PROVE TypeOK'
    OBVIOUS
  <2>0. disturbed' \in BOOLEAN
    BY DEF TypeOK, Next, Recorded, vars
  <2> USE <2>0 DEF TypeOK
  <2>1. ASSUME NEW p \in Lockers, MkdirLock(p) PROVE TypeOK'
    BY <2>1 DEF MkdirLock, At, Goto, Lockers, Procs, Pcs, Paths, Ended
  <2>2. ASSUME NEW p \in Lockers, SetTraps(p) PROVE TypeOK'
    BY <2>2 DEF SetTraps, At, Goto, Lockers, Procs, Pcs, Trapped
  <2>3. ASSUME NEW p \in Lockers, Die(p) PROVE TypeOK'
    BY <2>3 DEF Die, Goto, Lockers, Procs, Pcs, Ended
  <2>4. ASSUME NEW p \in Restorers, Restore(p) PROVE TypeOK'
    <3> USE DEF Step, At, Goto, Procs, Lockers, Pcs, Trapped, Rolling, Ended
    <3>1. CASE Receive(p)
      <4>1. PICK archive \in {gen[p], Orig} :
              tree' = [tree EXCEPT !["nextwork"] = Dir({archive})]
        BY <3>1 DEF Receive
      <4>2. Dir({archive}) \in Trees
        <5>1. {archive} \in SUBSET Tags
          BY DEF Tags
        <5>2. QED
          BY <5>1, TreeTypes
      <4>3. QED
        BY <3>1, <4>1, <4>2 DEF Receive, Paths
    <3>2. CASE StageHome(p)
      <4>1. HomeOf(tree["home"], gen[p]) \in Trees
        BY TreeTypes DEF Paths
      <4>2. QED
        BY <3>2, <4>1 DEF StageHome, Paths
    <3>3. CASE KeepOldWork(p)
      <4>1. tree' \in [Paths -> Trees]
        BY <3>3, RenameType DEF KeepOldWork, Paths
      <4>2. QED
        BY <3>3, <4>1 DEF KeepOldWork
    <3>4. CASE KeepOldHome(p)
      <4>1. tree' \in [Paths -> Trees]
        BY <3>4, RenameType DEF KeepOldHome, Paths
      <4>2. QED
        BY <3>4, <4>1 DEF KeepOldHome
    <3>5. CASE InstallWork(p)
      <4>1. tree' \in [Paths -> Trees]
        BY <3>5, RenameType DEF InstallWork, Paths
      <4>2. QED
        BY <3>5, <4>1 DEF InstallWork
    <3>6. CASE InstallHome(p)
      <4>1. tree' \in [Paths -> Trees]
        BY <3>6, RenameType DEF InstallHome, Paths
      <4>2. QED
        BY <3>6, <4>1 DEF InstallHome
    <3>7. CASE FlagWork(p) \/ FlagHome(p) \/ Commit(p)
      <4>1. CASE FlagWork(p)
        BY <4>1 DEF FlagWork, SetFlag
      <4>2. CASE FlagHome(p)
        BY <4>2 DEF FlagHome, SetFlag
      <4>3. CASE Commit(p)
        BY <4>3 DEF Commit, SetFlag
      <4>4. QED
        BY <3>7, <4>1, <4>2, <4>3
    <3>8. CASE DropOld(p)
      BY <3>8, TreeTypes DEF DropOld, Paths
    <3>9. CASE Echo(p) \/ Abort(p) \/ GetStuck(p)
      BY <3>9 DEF Echo, Abort, GetStuck
    <3>10. CASE Rollback(p) \/ RemoveNewHome(p)
      <4>1. tree' \in [Paths -> Trees]
        <5>1. NoTree \in Trees /\ {"work", "home"} \subseteq Paths
          BY TreeTypes DEF Paths
        <5>2. \A path \in {"work", "home"} :
                [tree EXCEPT ![path] = NoTree] \in [Paths -> Trees]
          BY <5>1
        <5>3. QED
          BY <3>10, <5>2 DEF Rollback, RemoveNewHome, RemoveIf
      <4>2. QED
        BY <3>10, <4>1 DEF Rollback, RemoveNewHome
    <3>11. CASE PutBackWork(p) \/ PutBackHome(p)
      <4>1. tree' \in [Paths -> Trees]
        BY <3>11, RenameType DEF PutBackWork, PutBackHome, Paths
      <4>2. QED
        BY <3>11, <4>1 DEF PutBackWork, PutBackHome
    <3>12. CASE RemoveRoot(p)
      BY <3>12, TreeTypes DEF RemoveRoot, Paths
    <3>13. QED
      BY <2>4, <3>1, <3>2, <3>3, <3>4, <3>5, <3>6, <3>7, <3>8, <3>9, <3>10,
         <3>11, <3>12 DEF Restore, Forward, Backward
  <2>5. ASSUME NEW p \in Snapshotters, Snapshot(p) PROVE TypeOK'
    <3> USE DEF SnapStep, At, Goto, Procs, Lockers, Pcs, Ended, Paths
    <3>1. CASE TestWork(p)
      BY <3>1 DEF TestWork
    <3>2. CASE TarWork(p)
      BY <3>2 DEF TarWork
    <3>3. CASE TarHome(p)
      BY <3>3 DEF TarHome
    <3>4. CASE SnapAbort(p)
      BY <3>4 DEF SnapAbort
    <3>5. QED
      BY <2>5, <3>1, <3>2, <3>3, <3>4 DEF Snapshot
  <2>6. ASSUME NEW p \in Launchers, Launch(p) PROVE TypeOK'
    <3>1. Dir({}) \in Trees
      BY TreeTypes
    <3>2. QED
      BY <2>6, <3>1 DEF Launch, LaunchMkdir, At, Goto, Procs, Pcs, Ended, Paths
  <2>7. CASE UNCHANGED vars
    BY <2>7 DEF vars
  <2>8. QED
    BY <2>1, <2>2, <2>3, <2>4, <2>5, <2>6, <2>7 DEF Next, Command, Enter
<1>3. QED
  BY <1>1, <1>2, PTL DEF Spec
-----------------------------------------------------------------------------
\* Mutual exclusion by mkdir: at most one session is past it, and a lock
\* that stays behind was left by a session that died or got stuck.
THEOREM LockExclusion == Spec => []LockIsHeld
<1>1. Init => LockIsHeld
  BY ProcsAssumption DEF Init, LockIsHeld, Lockers, Procs, Ended
<1>2. TypeOK /\ LockIsHeld /\ [Next]_vars => LockIsHeld'
  <2> SUFFICES ASSUME TypeOK, LockIsHeld, [Next]_vars PROVE LockIsHeld'
    OBVIOUS
  <2> USE ProcsAssumption DEF TypeOK, LockIsHeld, Ended, Lockers, Procs
  <2>enter. ASSUME NEW p \in Lockers, Enter(p) \/ Die(p) PROVE LockIsHeld'
    BY <2>enter DEF Enter, MkdirLock, SetTraps, Die, At, Goto
  <2>restore. ASSUME NEW p \in Restorers, Restore(p) PROVE LockIsHeld'
    <3>1. CASE RemoveRoot(p)
      BY <2>restore, <3>1 DEF RemoveRoot, At, Goto
    <3>2. CASE Abort(p) \/ GetStuck(p) \/ Echo(p)
      BY <2>restore, <3>2 DEF Abort, GetStuck, Echo, At, Goto, Trapped, Rolling
    <3>3. ASSUME NEW from \in Trapped \cup Rolling,
                 NEW to \in Trapped \cup Rolling, Step(p, from, to)
          PROVE  LockIsHeld'
      BY <3>3 DEF Step, At, Goto, Trapped, Rolling
    <3>4. CASE Receive(p) \/ StageHome(p) \/ KeepOldWork(p) \/ KeepOldHome(p)
      BY <3>4, <3>3 DEF Receive, StageHome, KeepOldWork, KeepOldHome, Trapped
    <3>5. CASE InstallWork(p) \/ FlagWork(p) \/ InstallHome(p) \/ FlagHome(p)
      BY <3>5, <3>3
         DEF InstallWork, FlagWork, InstallHome, FlagHome, SetFlag, Trapped
    <3>6. CASE Commit(p) \/ DropOld(p)
      BY <3>6, <3>3 DEF Commit, DropOld, SetFlag, Trapped
    <3>7. CASE Rollback(p) \/ RemoveNewHome(p) \/ PutBackWork(p) \/ PutBackHome(p)
      BY <3>7, <3>3
         DEF Rollback, RemoveNewHome, PutBackWork, PutBackHome, Rolling
    <3>8. QED
      BY <2>restore, <3>1, <3>2, <3>4, <3>5, <3>6, <3>7
         DEF Restore, Forward, Backward
  <2>snapshot. ASSUME NEW p \in Snapshotters, Snapshot(p) PROVE LockIsHeld'
    BY <2>snapshot
       DEF Snapshot, TestWork, TarWork, TarHome, SnapAbort, SnapStep, At, Goto
  <2>launch. ASSUME NEW p \in Launchers, Launch(p) PROVE LockIsHeld'
    BY <2>launch DEF Launch, LaunchMkdir, At, Goto
  <2>stutter. CASE UNCHANGED vars
    BY <2>stutter DEF vars
  <2> QED
    BY <2>enter, <2>restore, <2>snapshot, <2>launch, <2>stutter DEF Next, Command
<1>3. QED
  BY <1>1, <1>2, RestoreTypeCorrect, PTL DEF Spec

-----------------------------------------------------------------------------
(* Atomicity, until a signal comes between a rename and its flag or        *)
(* codex-ram makes a directory.                                            *)

\* Renames between a directory and an empty place.
LEMMA RenameFacts ==
  ASSUME TypeOK, NEW src \in Paths, NEW dst \in Paths, src # dst,
         tree[src].dir \/ tree[src] = NoTree, tree[dst] = NoTree,
         RenameIfThere(src, dst) \/ (tree[src].dir /\ Rename(src, dst))
  PROVE  /\ tree'[dst] = tree[src]
         /\ tree'[src] = NoTree
         /\ \A t \in Paths \ {src, dst} : tree'[t] = tree[t]
<1>1. Moved(tree[src], tree[dst]) = tree[src]
  BY DEF Moved, NoTree
<1>2. CASE Rename(src, dst)
  BY <1>1, <1>2 DEF Rename, TypeOK
<1>3. CASE UNCHANGED tree /\ ~tree[src].dir
  BY <1>3
<1>4. QED
  BY <1>2, <1>3 DEF RenameIfThere

\* The trees that restorations put in place are directories.
LEMMA NewTrees ==
  /\ \A g : WorkOf(g).dir
  /\ \A h, g : HomeOf(h, g).dir
  /\ \A f : Dir(f).dir
  /\ ~NoTree.dir
BY DEF WorkOf, HomeOf, Dir, NoTree

\* A step of the session that holds the lock does not disturb the others.
LEMMA OthersUndisturbed ==
  ASSUME TypeOK, LockIsHeld, Undisturbed, NEW p \in Restorers,
         lock = p, lock' \in {p, NoOne}, gen' = gen,
         NEW to, Goto(p, to),
         flags' = flags \/ (\E f : flags' = [flags EXCEPT ![p] = f]),
         report' = report \/ (\E r : report' = [report EXCEPT ![p] = r])
  PROVE  \A q \in Restorers \ {p} : SessionInv(q)'
<1> SUFFICES ASSUME NEW q \in Restorers, q # p PROVE SessionInv(q)'
  OBVIOUS
<1>1. SessionInv(q)
  BY DEF Undisturbed
<1>2. /\ pc'[q] = pc[q]
      /\ flags'[q] = flags[q]
      /\ report'[q] = report[q]
  BY DEF TypeOK, Goto, Procs, Lockers
<1>3. lock' # q
  BY ProcsAssumption
<1>4. QED
  BY <1>1, <1>2, <1>3 DEF SessionInv

\* The steps of a restorer preserve the transaction's invariant.
LEMMA RestoreKeepsInv ==
  ASSUME TypeOK, TypeOK', LockIsHeld, Undisturbed, NEW p \in Restorers,
         Restore(p), ~(pc[p] \in Window /\ pc'[p] = "rollback")
  PROVE  Undisturbed'
<1> USE ProcsAssumption
<1>1. lock = p /\ SessionInv(p) /\ \A t \in Paths : tree[t].dir \/ tree[t] = NoTree
  <2>1. pc[p] \in Trapped \cup Rolling
    BY DEF Restore, Forward, Backward, Receive, StageHome, KeepOldWork,
       KeepOldHome, InstallWork, FlagWork, InstallHome, FlagHome, Commit,
       SetFlag, DropOld, Echo, Rollback, RemoveNewHome, PutBackWork,
       PutBackHome, RemoveRoot, Abort, GetStuck, Step, At, Trapped, Rolling
  <2>2. QED
    BY <2>1 DEF LockIsHeld, Undisturbed, Lockers, Trapped, Rolling, Ended
<1>2. p \in Procs /\ p \in Lockers /\ gen[p] \in Gens
  BY DEF Procs, Lockers, TypeOK
<1> DEFINE Fine == /\ \A t \in Paths : tree'[t].dir \/ tree'[t] = NoTree
                   /\ SessionInv(p)'
<1>3. ASSUME NEW from, NEW to, Step(p, from, to), Fine,
             flags' = flags \/ (\E f : flags' = [flags EXCEPT ![p] = f])
      PROVE  Undisturbed'
  <2>1. lock' = p /\ gen' = gen /\ report' = report /\ Goto(p, to)
    BY <1>1, <1>3 DEF Step
  <2>2. \A q \in Restorers \ {p} : SessionInv(q)'
    BY <1>1, <1>3, <2>1, OthersUndisturbed
  <2>3. QED
    BY <1>3, <2>1, <2>2 DEF Undisturbed
<1>4. ASSUME NEW to, Goto(p, to), lock' = lock, gen' = gen, flags' = flags,
             tree' = tree, NEW r, report' = [report EXCEPT ![p] = r],
             SessionInv(p)'
      PROVE  Undisturbed'
  <2>1. \A q \in Restorers \ {p} : SessionInv(q)'
    BY <1>1, <1>4, OthersUndisturbed
  <2>2. QED
    BY <1>1, <1>4, <2>1 DEF Undisturbed
<1> USE DEF TypeOK
<1>5. CASE Receive(p)
  <2>1. Step(p, "receive", "stage") /\ flags' = flags
    BY <1>5 DEF Receive
  <2>2. tree' = [tree EXCEPT !["nextwork"] = WorkOf(gen[p])]
    BY <1>5 DEF Receive, Verified, WorkOf
  <2>3. Fine
    BY <1>1, <1>2, <2>1, <2>2, NewTrees
       DEF SessionInv, WorkAt, HomeAt, Untouched, Step, At, Goto, Paths, Ended
  <2>4. QED
    BY <1>3, <2>1, <2>3
<1>6. CASE StageHome(p)
  <2>1. Step(p, "stage", "oldwork") /\ flags' = flags
    BY <1>6 DEF StageHome
  <2>2. tree["home"] = start.home
    BY <1>1, <2>1 DEF SessionInv, HomeAt, Untouched, Step, At, Ended
  <2>3. tree' = [tree EXCEPT !["nexthome"] = HomeOf(start.home, gen[p])]
    BY <1>6, <2>2 DEF StageHome
  <2>4. Fine
    BY <1>1, <1>2, <2>1, <2>3, NewTrees
       DEF SessionInv, WorkAt, HomeAt, Untouched, Step, At, Goto, Paths, Ended
  <2>5. QED
    BY <1>3, <2>1, <2>4
<1>7. CASE KeepOldWork(p)
  <2>1. Step(p, "oldwork", "oldhome") /\ flags' = flags
    BY <1>7 DEF KeepOldWork
  <2>2. tree["oldwork"] = NoTree
    BY <1>1, <2>1 DEF SessionInv, WorkAt, HomeAt, Untouched, Step, At, Ended
  <2>3. /\ tree'["oldwork"] = tree["work"]
        /\ tree'["work"] = NoTree
        /\ \A t \in Paths \ {"work", "oldwork"} : tree'[t] = tree[t]
    BY <1>7, <1>1, <2>2, RenameFacts DEF KeepOldWork, Paths
  <2>4. Fine
    BY <1>1, <1>2, <2>1, <2>3, NewTrees
       DEF SessionInv, WorkAt, HomeAt, Untouched, SetAside, Swapped, Step,
           At, Goto, Paths, Ended
  <2>5. QED
    BY <1>3, <2>1, <2>4
<1>8. CASE KeepOldHome(p)
  <2>1. Step(p, "oldhome", "work") /\ flags' = flags
    BY <1>8 DEF KeepOldHome
  <2>2. tree["oldhome"] = NoTree
    BY <1>1, <2>1 DEF SessionInv, WorkAt, HomeAt, Untouched, Step, At, Ended
  <2>3. /\ tree'["oldhome"] = tree["home"]
        /\ tree'["home"] = NoTree
        /\ \A t \in Paths \ {"home", "oldhome"} : tree'[t] = tree[t]
    BY <1>8, <1>1, <2>2, RenameFacts DEF KeepOldHome, Paths
  <2>4. Fine
    BY <1>1, <1>2, <2>1, <2>3, NewTrees
       DEF SessionInv, WorkAt, HomeAt, Untouched, SetAside, Swapped, Step,
           At, Goto, Paths, Ended
  <2>5. QED
    BY <1>3, <2>1, <2>4
<1>9. CASE InstallWork(p)
  <2>1. Step(p, "work", "workflag") /\ flags' = flags
    BY <1>9 DEF InstallWork
  <2>2. tree["work"] = NoTree /\ tree["nextwork"].dir
    BY <1>1, <2>1, NewTrees
       DEF SessionInv, WorkAt, HomeAt, SetAside, Step, At, Ended
  <2>3. /\ tree'["work"] = tree["nextwork"]
        /\ tree'["nextwork"] = NoTree
        /\ \A t \in Paths \ {"nextwork", "work"} : tree'[t] = tree[t]
    BY <1>9, <1>1, <2>2, RenameFacts DEF InstallWork, Paths
  <2>4. Fine
    BY <1>1, <1>2, <2>1, <2>3, NewTrees
       DEF SessionInv, WorkAt, HomeAt, Untouched, SetAside, Swapped, Step,
           At, Goto, Paths, Ended
  <2>5. QED
    BY <1>3, <2>1, <2>4
<1>10. CASE InstallHome(p)
  <2>1. Step(p, "home", "homeflag") /\ flags' = flags
    BY <1>10 DEF InstallHome
  <2>2. tree["home"] = NoTree /\ tree["nexthome"].dir
    BY <1>1, <2>1, NewTrees
       DEF SessionInv, WorkAt, HomeAt, SetAside, Step, At, Ended
  <2>3. /\ tree'["home"] = tree["nexthome"]
        /\ tree'["nexthome"] = NoTree
        /\ \A t \in Paths \ {"nexthome", "home"} : tree'[t] = tree[t]
    BY <1>10, <1>1, <2>2, RenameFacts DEF InstallHome, Paths
  <2>4. Fine
    BY <1>1, <1>2, <2>1, <2>3, NewTrees
       DEF SessionInv, WorkAt, HomeAt, Untouched, SetAside, Swapped, Step,
           At, Goto, Paths, Ended
  <2>5. QED
    BY <1>3, <2>1, <2>4
<1>11. CASE FlagWork(p) \/ FlagHome(p) \/ Commit(p)
  <2>1. Fine
    BY <1>11, <1>1, <1>2
       DEF FlagWork, FlagHome, Commit, SetFlag, SessionInv, WorkAt, HomeAt,
           Untouched, SetAside, Swapped, Step, At, Goto, Ended
  <2>2. QED
    BY <1>11, <1>3, <2>1 DEF FlagWork, FlagHome, Commit, SetFlag
<1>12. CASE DropOld(p)
  <2>1. Step(p, "dropold", "echo") /\ flags' = flags
    BY <1>12 DEF DropOld
  <2>2. Fine
    BY <1>12, <1>1, <1>2, <2>1, NewTrees
       DEF DropOld, SessionInv, Step, At, Goto, Paths, Ended
  <2>3. QED
    BY <1>3, <2>1, <2>2
<1>13. CASE Echo(p)
  <2>1. SessionInv(p)'
    BY <1>13, <1>1, <1>2 DEF Echo, SessionInv, At, Goto, Ended
  <2>2. QED
    BY <1>13, <1>4, <2>1 DEF Echo
<1>14. CASE Abort(p)
  <2>1. pc[p] \in Trapped \ Window
    BY <1>2, <1>14 DEF Abort, Goto
  <2>2. SessionInv(p)'
    BY <1>14, <1>1, <1>2, <2>1
       DEF Abort, SessionInv, WorkAt, HomeAt, Untouched, SetAside, Swapped,
           Goto, Trapped, Window, Ended
  <2>3. QED
    BY <1>14, <1>4, <2>2 DEF Abort
<1>15. CASE GetStuck(p)
  <2>1. SessionInv(p)'
    BY <1>15, <1>1, <1>2
       DEF GetStuck, SessionInv, WorkAt, HomeAt, Goto, Rolling, Ended
  <2>2. QED
    BY <1>15, <1>4, <2>1 DEF GetStuck
<1>16. CASE Rollback(p)
  <2>1. Fine
    BY <1>16, <1>1, <1>2, NewTrees
       DEF Rollback, RemoveIf, SessionInv, WorkAt, HomeAt, Untouched, SetAside,
           Swapped, Step, At, Goto, Paths, Ended
  <2>2. QED
    BY <1>16, <1>3, <2>1 DEF Rollback
<1>17. CASE RemoveNewHome(p)
  <2>1. Fine
    BY <1>17, <1>1, <1>2, NewTrees
       DEF RemoveNewHome, RemoveIf, SessionInv, WorkAt, HomeAt, Untouched,
           SetAside, Swapped, Step, At, Goto, Paths, Ended
  <2>2. QED
    BY <1>17, <1>3, <2>1 DEF RemoveNewHome
<1>18. CASE PutBackWork(p)
  <2>1. Step(p, "backwork", "backhome") /\ flags' = flags
    BY <1>18 DEF PutBackWork
  <2>2. "committed" \notin flags[p] /\ WorkAt(p) /\ HomeAt(p)
    BY <1>1, <2>1 DEF SessionInv, Step, At, Ended
  <2>3. /\ tree'["work"] = start.work
        /\ tree'["oldwork"] = NoTree
        /\ \A t \in Paths \ {"oldwork", "work"} : tree'[t] = tree[t]
    <3>1. CASE Untouched("work", "oldwork", start.work)
      BY <1>18, <3>1, NewTrees DEF PutBackWork, RenameIfThere, Untouched
    <3>2. CASE SetAside("work", "oldwork", start.work)
      BY <1>18, <1>1, <3>2, RenameFacts DEF PutBackWork, SetAside, Paths
    <3>3. QED
      BY <2>1, <2>2, <3>1, <3>2 DEF WorkAt, HomeAt, Step, At
  <2>4. Fine
    BY <1>1, <1>2, <2>1, <2>2, <2>3, NewTrees
       DEF SessionInv, WorkAt, HomeAt, Untouched, SetAside, Swapped, Step,
           At, Goto, Paths, Ended
  <2>5. QED
    BY <1>3, <2>1, <2>4
<1>19. CASE PutBackHome(p)
  <2>1. Step(p, "backhome", "rmroot") /\ flags' = flags
    BY <1>19 DEF PutBackHome
  <2>2. "committed" \notin flags[p] /\ WorkAt(p) /\ HomeAt(p)
    BY <1>1, <2>1 DEF SessionInv, Step, At, Ended
  <2>3. /\ tree'["home"] = start.home
        /\ tree'["oldhome"] = NoTree
        /\ \A t \in Paths \ {"oldhome", "home"} : tree'[t] = tree[t]
    <3>1. CASE Untouched("home", "oldhome", start.home)
      BY <1>19, <3>1, NewTrees DEF PutBackHome, RenameIfThere, Untouched
    <3>2. CASE SetAside("home", "oldhome", start.home)
      BY <1>19, <1>1, <3>2, RenameFacts DEF PutBackHome, SetAside, Paths
    <3>3. QED
      BY <2>1, <2>2, <3>1, <3>2 DEF WorkAt, HomeAt, Step, At
  <2>4. Fine
    BY <1>1, <1>2, <2>1, <2>2, <2>3, NewTrees
       DEF SessionInv, WorkAt, HomeAt, Untouched, SetAside, Swapped, Step,
           At, Goto, Paths, Ended
  <2>5. QED
    BY <1>3, <2>1, <2>4
<1>20. CASE RemoveRoot(p)
  <2>1. SessionInv(p)'
    BY <1>20, <1>1, <1>2 DEF RemoveRoot, SessionInv, At, Goto, Ended
  <2>2. \A q \in Restorers \ {p} : SessionInv(q)'
    BY <1>20, <1>1, OthersUndisturbed DEF RemoveRoot
  <2>3. QED
    BY <1>20, <1>1, <2>1, <2>2 DEF RemoveRoot, Undisturbed, Paths
<1>21. QED
  BY <1>5, <1>6, <1>7, <1>8, <1>9, <1>10, <1>11, <1>12, <1>13, <1>14, <1>15,
     <1>16, <1>17, <1>18, <1>19, <1>20 DEF Restore, Forward, Backward

\* At each command an uncommitted restorer can still put both trees back, and
\* a committed one has replaced both, until a signal comes between a rename
\* and its flag or codex-ram makes a directory: the inductive invariant.
THEOREM TransactionCorrect == Spec => []TransactionInv
<1> USE ProcsAssumption
<1>1. Init => TransactionInv
  <2> SUFFICES ASSUME Init PROVE Undisturbed
    BY DEF TransactionInv
  <2>1. PICK w \in FreshWork, h \in FreshHome :
          tree = [p \in Paths |-> CASE p = "work" -> w
                                    [] p = "home" -> h
                                    [] OTHER -> NoTree]
    BY DEF Init
  <2>2. (w.dir \/ w = NoTree) /\ (h.dir \/ h = NoTree)
    BY NewTrees DEF FreshWork, FreshHome
  <2>3. \A t \in Paths : tree[t].dir \/ tree[t] = NoTree
    BY <2>1, <2>2
  <2>4. tree["oldwork"] = NoTree /\ tree["oldhome"] = NoTree
    BY <2>1 DEF Paths
  <2>5. \A p \in Restorers : SessionInv(p)
    BY DEF Init, SessionInv, Procs, Lockers, Ended
  <2>6. QED
    BY <2>3, <2>4, <2>5 DEF Undisturbed
<1>2. TypeOK /\ TypeOK' /\ LockIsHeld /\ TransactionInv /\ [Next]_vars
        => TransactionInv'
  <2> SUFFICES ASSUME TypeOK, TypeOK', LockIsHeld, TransactionInv, [Next]_vars
               PROVE  TransactionInv'
    OBVIOUS
  <2> SUFFICES ASSUME ~disturbed' PROVE Undisturbed'
    BY DEF TransactionInv
  <2>0. Undisturbed /\ (Next => ~Disturbs)
    BY DEF TransactionInv, TypeOK, Next, Recorded, vars
  <2> USE <2>0
  <2>1. ASSUME NEW p \in Lockers, MkdirLock(p) PROVE Undisturbed'
    <3>1. ASSUME NEW q \in Restorers PROVE SessionInv(q)'
      <4>1. SessionInv(q) /\ q \in Lockers /\ q \in Procs
        BY DEF Undisturbed, Lockers, Procs
      <4>2. CASE lock' = q /\ lock # q
        <5>1. /\ p = q /\ lock = NoOne /\ pc'[q] = "traps" /\ pc[q] = "idle"
              /\ start' = [work |-> tree["work"], home |-> tree["home"]]
          BY <2>1, <4>1, <4>2 DEF MkdirLock, At, Goto, TypeOK
        <5>2. tree["oldwork"] = NoTree /\ tree["oldhome"] = NoTree
          BY <5>1 DEF Undisturbed
        <5>3. tree' = tree /\ flags' = flags /\ gen' = gen /\ report' = report
          BY <2>1, <4>2 DEF MkdirLock
        <5>4. QED
          BY <4>1, <4>2, <5>1, <5>2, <5>3
             DEF SessionInv, WorkAt, HomeAt, Untouched, Ended
      <4>3. CASE lock' # q
        BY <2>1, <4>1, <4>3
           DEF MkdirLock, At, Goto, TypeOK, SessionInv, Ended
      <4>4. CASE lock = q
        <5>1. p # q
          BY <2>1, <4>4 DEF MkdirLock, At, LockIsHeld
        <5>2. /\ lock' = lock /\ tree' = tree /\ flags' = flags
              /\ gen' = gen /\ start' = start
              /\ pc'[q] = pc[q] /\ report'[q] = report[q]
          BY <2>1, <4>1, <4>4, <5>1 DEF MkdirLock, Goto, TypeOK
        <5>3. QED
          BY <4>1, <5>2 DEF SessionInv, WorkAt, HomeAt, Untouched, SetAside,
             Swapped, Ended
      <4>5. QED
        BY <4>2, <4>3, <4>4
    <3>2. QED
      BY <2>1, <3>1 DEF MkdirLock, Undisturbed
  <2>2. ASSUME NEW p \in Lockers, SetTraps(p) \/ Die(p) PROVE Undisturbed'
    <3>1. ASSUME NEW q \in Restorers PROVE SessionInv(q)'
      <4>1. SessionInv(q) /\ q \in Lockers /\ q \in Procs
        BY DEF Undisturbed, Lockers, Procs
      <4>2. lock' = lock /\ tree' = tree /\ flags' = flags /\ gen' = gen
            /\ start' = start
        BY <2>2 DEF SetTraps, Die
      <4>3. CASE p # q
        <5>1. pc'[q] = pc[q] /\ report'[q] = report[q]
          BY <2>2, <4>1, <4>3 DEF SetTraps, Die, Goto, TypeOK
        <5>2. QED
          BY <4>1, <4>2, <5>1 DEF SessionInv, WorkAt, HomeAt, Untouched,
             SetAside, Swapped, Ended
      <4>4. CASE p = q /\ SetTraps(p)
        <5>1. pc[q] = "traps" /\ pc'[q] = "receive" /\ report' = report
          BY <4>1, <4>4 DEF SetTraps, At, Goto, TypeOK
        <5>2. QED
          BY <4>1, <4>2, <5>1 DEF SessionInv, WorkAt, HomeAt, Untouched, Ended
      <4>5. CASE p = q /\ Die(p)
        <5>1. pc'[q] = "dead" /\ report'[q] = "failed"
          BY <4>1, <4>5 DEF Die, Goto, TypeOK
        <5>2. QED
          BY <4>1, <4>2, <5>1 DEF SessionInv, WorkAt, HomeAt, Ended
      <4>6. QED
        BY <2>2, <4>3, <4>4, <4>5
    <3>2. QED
      BY <2>2, <3>1 DEF SetTraps, Die, Undisturbed
  <2>3. ASSUME NEW p \in Restorers, Restore(p), Next PROVE Undisturbed'
    BY <2>3, RestoreKeepsInv DEF Disturbs
  <2>4. ASSUME NEW p \in Snapshotters, Snapshot(p) PROVE Undisturbed'
    <3>1. /\ lock = p /\ lock' \in {p, NoOne} /\ p \notin Restorers
          /\ tree' = tree /\ flags' = flags /\ gen' = gen /\ start' = start
      BY <2>4 DEF Snapshot, TestWork, TarWork, TarHome, SnapAbort, SnapStep, At,
         LockIsHeld, Lockers, Ended
    <3>2. ASSUME NEW q \in Restorers PROVE SessionInv(q)'
      <4>1. pc'[q] = pc[q] /\ report'[q] = report[q] /\ lock' # q
        BY <2>4, <3>1 DEF Snapshot, TestWork, TarWork, TarHome, SnapAbort,
           SnapStep, Goto, TypeOK, Procs, Lockers
      <4>2. QED
        BY <3>1, <4>1 DEF Undisturbed, SessionInv, Ended
    <3>3. QED
      BY <3>1, <3>2 DEF Undisturbed
  <2>5. ASSUME NEW p \in Launchers, Launch(p), Next PROVE Undisturbed'
    <3>1. p \in Procs /\ pc'[p] # pc[p]
      BY <2>5 DEF Launch, LaunchMkdir, At, Goto, TypeOK, Procs
    <3>2. tree' = tree
      BY <2>5, <3>1 DEF Disturbs
    <3>3. ASSUME NEW q \in Restorers PROVE pc'[q] = pc[q]
      BY <2>5 DEF Launch, LaunchMkdir, Goto, TypeOK, Procs, Lockers
    <3>4. /\ lock' = lock /\ flags' = flags /\ gen' = gen /\ report' = report
          /\ start' = start
      BY <2>5 DEF Launch, LaunchMkdir
    <3>5. QED
      BY <3>2, <3>3, <3>4 DEF Undisturbed, SessionInv, WorkAt, HomeAt,
         Untouched, SetAside, Swapped, Ended
  <2>6. CASE UNCHANGED vars
    BY <2>6 DEF vars, Undisturbed, SessionInv, WorkAt, HomeAt, Untouched,
       SetAside, Swapped
  <2> QED
    BY <2>6, <2>5, <2>4, <2>3, <2>2, <2>1 DEF Next, Command, Enter
<1>3. QED
  BY <1>1, <1>2, RestoreTypeCorrect, LockExclusion, PTL DEF Spec

\* Restoration implements the atomic replacement of the pair of trees: every
\* command of every session either changes nothing a user relies on or, at
\* "committed=1", replaces both trees by those of one archive.  The promise
\* ends with the first disturbance.
THEOREM RestoreIsAtomic == Spec => Atomic
<1> USE ProcsAssumption
<1> DEFINE Replaced ==
      \E g \in Gens : env' = [work |-> AR!WorkOf(g), home |-> AR!HomeOf(env.home, g)]
<1>1. Init => AR!Init
  <2> SUFFICES ASSUME Init PROVE AR!Init
    OBVIOUS
  <2>1. PICK w \in FreshWork, h \in FreshHome :
          tree = [p \in Paths |-> CASE p = "work" -> w
                                    [] p = "home" -> h
                                    [] OTHER -> NoTree]
    BY DEF Init
  <2>2. env = [work |-> w, home |-> h]
    BY <2>1 DEF Init, env, Paths
  <2>3. QED
    BY <2>2 DEF Init, AR!Init, AR!FreshWork, AR!FreshHome, AR!NoTree, AR!Dir,
       FreshWork, FreshHome, NoTree, Dir
<1>2. TypeOK /\ LockIsHeld /\ TransactionInv /\ [Next]_vars
        => [AR!Next]_<<env, disturbed>>
  <2> SUFFICES ASSUME TypeOK, LockIsHeld, TransactionInv, [Next]_vars
               PROVE  [AR!Next]_<<env, disturbed>>
    OBVIOUS
  <2> SUFFICES ASSUME ~disturbed'
               PROVE  Replaced \/ env' = env
    <3>1. CASE disturbed'
      <4>1. disturbed' = TRUE
        BY <3>1 DEF TypeOK, Next, Recorded, vars
      <4>2. QED
        BY <4>1 DEF AR!Next, AR!Break
    <3>2. CASE ~disturbed'
      <4>1. disturbed' \in BOOLEAN /\ disturbed \in BOOLEAN
        BY DEF TypeOK, Next, Recorded, vars
      <4>2. ~disturbed
        BY <3>2, Zenon DEF Next, Recorded, vars
      <4>3. QED
        BY <3>2, <4>1, <4>2 DEF AR!Next, AR!Replace
    <3>3. QED
      BY <3>1, <3>2
  <2>0. Undisturbed /\ (Next => ~Disturbs)
    BY DEF TransactionInv, TypeOK, Next, Recorded, vars
  <2> USE <2>0
  <2> USE DEF TypeOK
  <2>1. ASSUME tree'["work"] = tree["work"], tree'["home"] = tree["home"],
               lock' \notin Restorers, lock \notin Restorers
        PROVE  env' = env
    BY <2>1 DEF env
  <2>2. ASSUME start' = start, flags' = flags, lock' = lock, lock \in Restorers,
               "committed" \notin flags[lock]
        PROVE  env' = env
    BY <2>2 DEF env
  <2>3. ASSUME tree' = tree, flags' = flags, lock' = lock, start' = start
        PROVE  env' = env
    BY <2>3 DEF env
  <2>4. ASSUME NEW p \in Lockers, Enter(p) \/ Die(p) PROVE env' = env
    <3>1. CASE MkdirLock(p) /\ lock = NoOne /\ lock' = p
      <4>1. /\ start' = [work |-> tree["work"], home |-> tree["home"]]
            /\ tree' = tree /\ flags' = flags
        BY <3>1 DEF MkdirLock, Lockers
      <4>2. p \in Restorers => "committed" \notin flags[p]
        BY <3>1 DEF MkdirLock, At, Undisturbed, SessionInv
      <4>3. QED
        BY <3>1, <4>1, <4>2 DEF env
    <3>2. CASE SetTraps(p) \/ Die(p) \/ (MkdirLock(p) /\ lock' = lock)
      <4>1. tree' = tree /\ flags' = flags /\ lock' = lock
        BY <3>2 DEF SetTraps, Die, MkdirLock
      <4>2. start' = start \/ lock' = p
        BY <3>2 DEF SetTraps, Die, MkdirLock
      <4>3. start' = start
        BY <3>2, <4>2 DEF SetTraps, Die, MkdirLock, LockIsHeld, At, Lockers
      <4>4. QED
        BY <2>3, <4>1, <4>3
    <3>3. QED
      BY <2>4, <3>1, <3>2 DEF Enter, MkdirLock
  <2>5. ASSUME NEW p \in Snapshotters, Snapshot(p) PROVE env' = env
    <3>1. lock = p /\ lock' \in {p, NoOne} /\ p \notin Restorers /\ tree' = tree
      BY <2>5 DEF Snapshot, TestWork, TarWork, TarHome, SnapAbort, SnapStep, At,
         LockIsHeld, Lockers, Ended
    <3>2. QED
      BY <2>1, <3>1
  <2>6. ASSUME NEW p \in Restorers, Restore(p) PROVE Replaced \/ env' = env
    <3>1. lock = p /\ SessionInv(p)
      <4>1. pc[p] \in Trapped \cup Rolling
        BY <2>6 DEF Restore, Forward, Backward, Receive, StageHome, KeepOldWork,
           KeepOldHome, InstallWork, FlagWork, InstallHome, FlagHome, Commit,
           SetFlag, DropOld, Echo, Rollback, RemoveNewHome, PutBackWork,
           PutBackHome, RemoveRoot, Abort, GetStuck, Step, At, Trapped, Rolling
      <4>2. QED
        BY <4>1 DEF LockIsHeld, Undisturbed, Lockers, Trapped, Rolling, Ended
    <3>2. CASE Commit(p)
      <4>1. /\ "committed" \notin flags[p] /\ "committed" \in flags'[p]
            /\ tree' = tree /\ lock' = lock /\ start' = start
            /\ tree["work"] = WorkOf(gen[p])
            /\ tree["home"] = HomeOf(start.home, gen[p])
        BY <3>1, <3>2 DEF Commit, SetFlag, Step, At, SessionInv, WorkAt, HomeAt,
           Swapped, Ended
      <4>2. env = start /\ env' = [work |-> WorkOf(gen[p]),
                                  home |-> HomeOf(start.home, gen[p])]
        BY <3>1, <4>1 DEF env
      <4>3. QED
        BY <4>2 DEF AR!WorkOf, AR!HomeOf, AR!Dir, WorkOf,
           HomeOf, Dir
    <3>3. CASE RemoveRoot(p)
      <4>1. /\ tree'["work"] = tree["work"] /\ tree'["home"] = tree["home"]
            /\ lock' = NoOne /\ start' = start
        BY <3>3 DEF RemoveRoot, Paths
      <4>2. CASE "committed" \in flags[p]
        BY <3>1, <4>1, <4>2 DEF env
      <4>3. CASE "committed" \notin flags[p]
        <5>1. tree["work"] = start.work /\ tree["home"] = start.home
          BY <3>1, <3>3, <4>3
             DEF RemoveRoot, At, SessionInv, WorkAt, HomeAt, Untouched
        <5>2. start = [work |-> start.work, home |-> start.home]
          OBVIOUS
        <5>3. QED
          BY <3>1, <4>1, <4>3, <5>1, <5>2 DEF env
      <4>4. QED
        BY <4>2, <4>3
    <3>4. CASE Echo(p) \/ Abort(p) \/ GetStuck(p)
      BY <3>4, <2>3 DEF Echo, Abort, GetStuck
    <3>5. CASE FlagWork(p) \/ FlagHome(p)
      <4>1. /\ tree' = tree /\ lock' = lock /\ start' = start
            /\ "committed" \in flags'[p] <=> "committed" \in flags[p]
        BY <3>5 DEF FlagWork, FlagHome, SetFlag, Step
      <4>2. QED
        BY <3>1, <4>1 DEF env
    <3>6. CASE DropOld(p) \/ Rollback(p)
      <4>1. lock' = lock /\ start' = start /\ flags' = flags
        BY <3>6 DEF DropOld, Rollback, Step
      <4>2. "committed" \in flags[p] =>
              tree'["work"] = tree["work"] /\ tree'["home"] = tree["home"]
        BY <3>6 DEF DropOld, Rollback, RemoveIf, Paths
      <4>3. QED
        BY <3>1, <4>1, <4>2 DEF env
    <3>7. CASE \/ Receive(p) \/ StageHome(p) \/ KeepOldWork(p) \/ KeepOldHome(p)
               \/ InstallWork(p) \/ InstallHome(p) \/ RemoveNewHome(p)
               \/ PutBackWork(p) \/ PutBackHome(p)
      <4>1. lock' = lock /\ start' = start /\ flags' = flags
        BY <3>7 DEF Receive, StageHome, KeepOldWork, KeepOldHome, InstallWork,
           InstallHome, RemoveNewHome, PutBackWork, PutBackHome, Step
      <4>2. "committed" \notin flags[p]
        BY <3>1, <3>7 DEF Receive, StageHome, KeepOldWork, KeepOldHome,
           InstallWork, InstallHome, RemoveNewHome, PutBackWork, PutBackHome,
           Step, At, SessionInv, Ended
      <4>3. QED
        BY <2>2, <3>1, <4>1, <4>2
    <3>8. QED
      BY <2>6, <3>2, <3>3, <3>4, <3>5, <3>6, <3>7 DEF Restore, Forward, Backward
  <2>7. ASSUME NEW p \in Launchers, Launch(p), Next PROVE env' = env
    <3>1. p \in Procs /\ pc'[p] # pc[p]
      BY <2>7 DEF Launch, LaunchMkdir, At, Goto, Procs
    <3>2. tree' = tree
      BY <2>7, <3>1 DEF Disturbs
    <3>3. QED
      BY <2>7, <2>3, <3>2 DEF Launch, LaunchMkdir
  <2>8. CASE UNCHANGED vars
    BY <2>8, <2>3 DEF vars
  <2>9. QED
    BY <2>4, <2>5, <2>6, <2>7, <2>8 DEF Next, Command
<1>3. QED
  BY <1>1, <1>2, RestoreTypeCorrect, LockExclusion, TransactionCorrect, PTL
     DEF Spec, Atomic, AR!Spec

\* A restorer gives the lock back in one way only.
LEMMA OnlyRemoveRoot ==
  ASSUME TypeOK, LockIsHeld, Next, NEW p \in Restorers, lock = p, lock' # p
  PROVE  RemoveRoot(p)
<1> USE ProcsAssumption
<1>1. ASSUME NEW q \in Lockers, Enter(q) \/ Die(q) PROVE FALSE
  BY <1>1 DEF Enter, MkdirLock, SetTraps, Die, Lockers
<1>2. ASSUME NEW q \in Snapshotters, Snapshot(q) PROVE FALSE
  <2>1. lock = q
    BY <1>2 DEF Snapshot, TestWork, TarWork, TarHome, SnapAbort, SnapStep,
       At, LockIsHeld, Lockers, Ended
  <2>2. QED
    BY <2>1
<1>3. ASSUME NEW q \in Restorers, Restore(q) PROVE RemoveRoot(p)
  <2>1. RemoveRoot(q)
    BY <1>3 DEF Restore, Forward, Backward, Receive, StageHome, KeepOldWork,
       KeepOldHome, InstallWork, FlagWork, InstallHome, FlagHome, Commit,
       SetFlag, DropOld, Echo, Rollback, RemoveNewHome, PutBackWork,
       PutBackHome, Abort, GetStuck, Step
  <2>2. lock = q
    BY <2>1 DEF RemoveRoot, At, LockIsHeld, Lockers, Ended
  <2>3. QED
    BY <2>1, <2>2
<1>4. ASSUME NEW q \in Launchers, Launch(q) PROVE FALSE
  BY <1>4 DEF Launch, LaunchMkdir
<1>5. QED
  BY <1>1, <1>2, <1>3, <1>4 DEF Next, Command

\* A restorer that gives the lock back without having committed leaves both
\* trees as it found them, if nothing has disturbed the sessions.
THEOREM RollbackIsComplete == Spec => RollbackCompletes
<1> USE ProcsAssumption
<1>1. TypeOK /\ LockIsHeld /\ TransactionInv /\ [Next]_vars =>
        [\A p \in Restorers :
           ~disturbed /\ lock = p /\ lock' = NoOne /\ "committed" \notin flags[p] =>
             tree'["work"] = start.work /\ tree'["home"] = start.home]_vars
  <2> SUFFICES ASSUME TypeOK, LockIsHeld, TransactionInv, Next,
                      NEW p \in Restorers, ~disturbed, lock = p, lock' = NoOne,
                      "committed" \notin flags[p]
               PROVE  tree'["work"] = start.work /\ tree'["home"] = start.home
    OBVIOUS
  <2>1. RemoveRoot(p)
    BY OnlyRemoveRoot
  <2>2. tree["work"] = start.work /\ tree["home"] = start.home
    BY <2>1 DEF RemoveRoot, At, TransactionInv, Undisturbed, SessionInv, WorkAt, HomeAt,
       Untouched
  <2>3. QED
    BY <2>1, <2>2 DEF RemoveRoot, Paths
<1>2. QED
  BY <1>1, RestoreTypeCorrect, LockExclusion, TransactionCorrect, PTL
     DEF Spec, RollbackCompletes

\* A restorer that tells the host it succeeded leaves both trees as the
\* archive has them, laid over the home it found, if nothing has disturbed
\* the sessions.
THEOREM SuccessIsReplacement == Spec => SuccessMeansReplaced
<1> USE ProcsAssumption
<1>1. TypeOK /\ LockIsHeld /\ TransactionInv /\ [Next]_vars =>
        [\A p \in Restorers :
           ~disturbed /\ lock = p /\ lock' = NoOne /\ report[p] = "ok" =>
             /\ tree'["work"] = WorkOf(gen[p])
             /\ tree'["home"] = HomeOf(start.home, gen[p])]_vars
  <2> SUFFICES ASSUME TypeOK, LockIsHeld, TransactionInv, Next,
                      NEW p \in Restorers, ~disturbed, lock = p, lock' = NoOne,
                      report[p] = "ok"
               PROVE  /\ tree'["work"] = WorkOf(gen[p])
                      /\ tree'["home"] = HomeOf(start.home, gen[p])
    OBVIOUS
  <2>1. RemoveRoot(p)
    BY OnlyRemoveRoot
  <2>2. /\ tree["work"] = WorkOf(gen[p])
        /\ tree["home"] = HomeOf(start.home, gen[p])
    BY DEF TransactionInv, Undisturbed, SessionInv
  <2>3. QED
    BY <2>1, <2>2 DEF RemoveRoot, Paths
<1>2. QED
  BY <1>1, RestoreTypeCorrect, LockExclusion, TransactionCorrect, PTL
     DEF Spec, SuccessMeansReplaced

-----------------------------------------------------------------------------
(* With launchers at work and signals handled at any command.              *)

\* A tree that was found in its place, with nothing in the place it would be
\* kept at, and one that is kept; the new one may be in its place already.
InPlace(place, old, was) == tree[place] = was /\ tree[old] = NoTree

Somewhere(place, old, was) == InPlace(place, old, was) \/ tree[old] = was

\* Where the trees found are while a session has not committed.
WorkKept(p) ==
  start.work.dir =>
    /\ pc[p] \in {"traps", "receive", "stage", "oldwork"} =>
         InPlace("work", "oldwork", start.work) /\ "worknew" \notin flags[p]
    /\ pc[p] \in {"oldhome", "work", "workflag", "home", "homeflag", "commit"} =>
         tree["oldwork"] = start.work
    /\ pc[p] = "rollback" =>
         IF "worknew" \in flags[p] THEN tree["oldwork"] = start.work
         ELSE Somewhere("work", "oldwork", start.work)
    /\ pc[p] \in {"rmhome", "backwork"} => Somewhere("work", "oldwork", start.work)
    /\ pc[p] \in {"backhome", "rmroot"} => Keeps(tree["work"], start.work)
    /\ \/ Keeps(tree["work"], start.work)
       \/ Keeps(tree["oldwork"], start.work)

HomeKept(p) ==
  start.home.dir =>
    /\ pc[p] \in {"traps", "receive", "stage", "oldwork", "oldhome"} =>
         InPlace("home", "oldhome", start.home) /\ "homenew" \notin flags[p]
    /\ pc[p] \in {"work", "workflag", "home", "homeflag", "commit"} =>
         tree["oldhome"] = start.home
    /\ pc[p] \in {"rollback", "rmhome"} =>
         IF "homenew" \in flags[p] THEN tree["oldhome"] = start.home
         ELSE Somewhere("home", "oldhome", start.home)
    /\ pc[p] \in {"backwork", "backhome"} => Somewhere("home", "oldhome", start.home)
    /\ pc[p] = "rmroot" => Keeps(tree["home"], start.home)
    /\ \/ Keeps(tree["home"], start.home)
       \/ Keeps(tree["oldhome"], start.home)

KeptBy(p) ==
  /\ pc[p] \in {"idle", "traps"} => flags[p] = {}
  /\ pc[p] \in {"dropold", "echo"} => "committed" \in flags[p]
  /\ lock = p /\ "committed" \notin flags[p] => WorkKept(p) /\ HomeKept(p)

\* The inductive invariant behind NothingLost: it names, for each command,
\* the place that still has the tree found, so that no later rm -rf meets it.
KeepInv ==
  /\ lock \notin Restorers => tree["oldwork"] = NoTree /\ tree["oldhome"] = NoTree
  /\ \A p \in Restorers : KeptBy(p)

\* What a snapshotter has read of the work tree is still there.
SnapInv ==
  \A p \in Snapshotters :
    /\ pc[p] \in {"tarwork", "tarhome"} => tree["work"].dir
    /\ pc[p] = "tarhome" => snap[p].work = tree["work"]

LEMMA KeepsFacts ==
  ASSUME NEW s \in Trees, s.dir
  PROVE  /\ Keeps(s, s)
         /\ \A t \in Trees : Keeps(t, s) => t.dir
         /\ \A t \in Trees : Keeps(Moved(s, t), s)
         /\ s # NoTree
<1>1. ASSUME NEW t \in Trees PROVE Keeps(Moved(s, t), s)
  <2>1. CASE t.dir
    <3>1. Moved(s, t) = [dir |-> TRUE, files |-> t.files, in |-> t.in \cup {s.files} \cup s.in]
      BY <2>1 DEF Moved, Trees
    <3>2. QED
      BY <3>1 DEF Keeps
  <2>2. CASE ~t.dir
    BY <2>2 DEF Moved, Keeps
  <2>3. QED
    BY <2>1, <2>2
<1>2. QED
  BY <1>1 DEF Keeps, NoTree

\* One command of a restorer leaves the others' part of the invariant alone.
LEMMA OthersKept ==
  ASSUME TypeOK, LockIsHeld, KeepInv, NEW p \in Restorers, lock = p,
         lock' \in {p, NoOne}, NEW to, Goto(p, to),
         flags' = flags \/ (\E f : flags' = [flags EXCEPT ![p] = f])
  PROVE  \A q \in Restorers \ {p} : KeptBy(q)'
<1> SUFFICES ASSUME NEW q \in Restorers \ {p} PROVE KeptBy(q)'
  OBVIOUS
<1>1. pc'[q] = pc[q] /\ flags'[q] = flags[q] /\ lock' # q
  BY ProcsAssumption DEF Goto, TypeOK, Procs
<1>2. QED
  BY <1>1 DEF KeepInv, KeptBy

LEMMA KeepRestore ==
  ASSUME TypeOK, LockIsHeld, KeepInv, NEW p \in Restorers, Restore(p)
  PROVE  KeepInv'
<1> USE ProcsAssumption
<1>1. lock = p /\ KeptBy(p) /\ pc[p] \in Trapped \cup Rolling
  <2>1. pc[p] \in Trapped \cup Rolling
    BY DEF Restore, Forward, Backward, Receive, StageHome, KeepOldWork,
       KeepOldHome, InstallWork, FlagWork, InstallHome, FlagHome, Commit,
       SetFlag, DropOld, Echo, Rollback, RemoveNewHome, PutBackWork,
       PutBackHome, RemoveRoot, Abort, GetStuck, Step, At, Trapped, Rolling
  <2>2. QED
    BY <2>1 DEF LockIsHeld, KeepInv, Lockers, Trapped, Rolling, Ended
<1>2. /\ p \in Procs /\ p \in Lockers /\ gen[p] \in Gens
      /\ start.work \in Trees /\ start.home \in Trees
      /\ \A t \in Paths : tree[t] \in Trees
  BY DEF Procs, Lockers, TypeOK
<1>3. ASSUME NEW to, Goto(p, to), lock' = p, KeptBy(p)',
             flags' = flags \/ (\E f : flags' = [flags EXCEPT ![p] = f])
      PROVE  KeepInv'
  <2>1. \A q \in Restorers \ {p} : KeptBy(q)'
    BY <1>1, <1>3, OthersKept
  <2>2. QED
    BY <1>3, <2>1 DEF KeepInv
<1>w. start.work.dir => /\ Keeps(start.work, start.work) /\ start.work # NoTree
                        /\ \A t \in Trees : Keeps(Moved(start.work, t), start.work)
                        /\ \A t \in Trees : Keeps(t, start.work) => t.dir
  BY <1>2, KeepsFacts
<1>h. start.home.dir => /\ Keeps(start.home, start.home) /\ start.home # NoTree
                        /\ \A t \in Trees : Keeps(Moved(start.home, t), start.home)
                        /\ \A t \in Trees : Keeps(t, start.home) => t.dir
  BY <1>2, KeepsFacts
<1>n. \A t : Moved(t, NoTree) = t
  BY DEF Moved, NoTree
<1>t. ~NoTree.dir
  BY DEF NoTree
<1> DEFINE Same(S) == \A t \in Paths \ S : tree'[t] = tree[t]
<1>4. CASE Receive(p) \/ StageHome(p)
  <2>1. /\ \/ Step(p, "receive", "stage")
           \/ Step(p, "stage", "oldwork")
        /\ flags' = flags /\ Same({"nextwork", "nexthome"})
    BY <1>4 DEF Receive, StageHome, TypeOK, Paths
  <2>2. KeptBy(p)'
    BY <1>1, <1>2, <2>1
       DEF KeptBy, WorkKept, HomeKept, InPlace, Step, At, Goto, TypeOK, Paths
  <2>3. QED
    BY <1>1, <1>3, <2>1, <2>2 DEF Step
<1>5. CASE KeepOldWork(p)
  <2>1. /\ Step(p, "oldwork", "oldhome") /\ flags' = flags
        /\ Same({"work", "oldwork"})
        /\ start.work.dir /\ "committed" \notin flags[p] => tree'["oldwork"] = start.work
    BY <1>1, <1>2, <1>5, <1>n
       DEF KeepOldWork, RenameIfThere, Rename, KeptBy, WorkKept, InPlace,
       Step, At, TypeOK, Paths
  <2>2. KeptBy(p)'
    BY <1>1, <1>2, <1>w, <2>1
       DEF KeptBy, WorkKept, HomeKept, InPlace, Step, At, Goto, TypeOK, Paths
  <2>3. QED
    BY <1>1, <1>3, <2>1, <2>2 DEF Step
<1>6. CASE KeepOldHome(p)
  <2>1. /\ Step(p, "oldhome", "work") /\ flags' = flags
        /\ Same({"home", "oldhome"})
        /\ start.home.dir /\ "committed" \notin flags[p] => tree'["oldhome"] = start.home
    BY <1>1, <1>2, <1>6, <1>n
       DEF KeepOldHome, RenameIfThere, Rename, KeptBy, HomeKept, InPlace,
       Step, At, TypeOK, Paths
  <2>2. KeptBy(p)'
    BY <1>1, <1>2, <1>h, <2>1
       DEF KeptBy, WorkKept, HomeKept, InPlace, Step, At, Goto, TypeOK, Paths
  <2>3. QED
    BY <1>1, <1>3, <2>1, <2>2 DEF Step
<1>7. CASE InstallWork(p)
  <2>1. /\ Step(p, "work", "workflag") /\ flags' = flags
        /\ Same({"nextwork", "work"})
    BY <1>7 DEF InstallWork, Rename, TypeOK, Paths
  <2>2. KeptBy(p)'
    BY <1>1, <1>2, <1>w, <2>1
       DEF KeptBy, WorkKept, HomeKept, InPlace, Step, At, Goto, TypeOK, Paths
  <2>3. QED
    BY <1>1, <1>3, <2>1, <2>2 DEF Step
<1>8. CASE InstallHome(p)
  <2>1. /\ Step(p, "home", "homeflag") /\ flags' = flags
        /\ Same({"nexthome", "home"})
    BY <1>8 DEF InstallHome, Rename, TypeOK, Paths
  <2>2. KeptBy(p)'
    BY <1>1, <1>2, <1>h, <2>1
       DEF KeptBy, WorkKept, HomeKept, InPlace, Step, At, Goto, TypeOK, Paths
  <2>3. QED
    BY <1>1, <1>3, <2>1, <2>2 DEF Step
<1>9. CASE FlagWork(p) \/ FlagHome(p) \/ Commit(p)
  <2>1. /\ \/ Step(p, "workflag", "home") /\ flags' = [flags EXCEPT ![p] = @ \cup {"worknew"}]
           \/ Step(p, "homeflag", "commit") /\ flags' = [flags EXCEPT ![p] = @ \cup {"homenew"}]
           \/ Step(p, "commit", "dropold") /\ flags' = [flags EXCEPT ![p] = @ \cup {"committed"}]
        /\ tree' = tree
    BY <1>9 DEF FlagWork, FlagHome, Commit, SetFlag
  <2>2. KeptBy(p)'
    BY <1>1, <1>2, <2>1 DEF KeptBy, WorkKept, HomeKept, Step, At, Goto, TypeOK
  <2>3. QED
    BY <1>1, <1>3, <2>1, <2>2 DEF Step
<1>10. CASE DropOld(p)
  <2>1. Step(p, "dropold", "echo") /\ flags' = flags /\ "committed" \in flags[p]
    BY <1>1, <1>10 DEF DropOld, KeptBy, Step, At
  <2>2. KeptBy(p)'
    BY <1>1, <1>2, <2>1 DEF KeptBy, Step, At, Goto, TypeOK
  <2>3. QED
    BY <1>1, <1>3, <2>1, <2>2 DEF Step
<1>11. CASE Echo(p) \/ Abort(p) \/ GetStuck(p)
  <2>1. /\ lock' = lock /\ tree' = tree /\ flags' = flags /\ start' = start
        /\ \/ Goto(p, "rollback") /\ pc[p] \in Trapped
           \/ Goto(p, "stuck")
    BY <1>11 DEF Echo, Abort, GetStuck, At, Trapped
  <2>2. KeptBy(p)'
    BY <1>1, <1>2, <2>1
       DEF KeptBy, WorkKept, HomeKept, InPlace, Somewhere, Goto, TypeOK, Trapped
  <2>3. QED
    BY <1>1, <1>3, <2>1, <2>2
<1>12. CASE Rollback(p)
  <2>1. /\ Step(p, "rollback", IF "committed" \in flags[p] THEN "rmroot" ELSE "rmhome")
        /\ flags' = flags /\ Same({"work"})
        /\ "committed" \notin flags[p] /\ "worknew" \notin flags[p] => tree' = tree
    BY <1>12 DEF Rollback, RemoveIf, TypeOK, Paths
  <2>2. KeptBy(p)'
    BY <1>1, <1>2, <1>w, <2>1
       DEF KeptBy, WorkKept, HomeKept, InPlace, Somewhere, Step, At, Goto, TypeOK, Paths
  <2>3. QED
    BY <1>1, <1>3, <2>1, <2>2 DEF Step
<1>13. CASE RemoveNewHome(p)
  <2>1. /\ Step(p, "rmhome", "backwork") /\ flags' = flags /\ Same({"home"})
        /\ "homenew" \notin flags[p] => tree' = tree
    BY <1>13 DEF RemoveNewHome, RemoveIf, TypeOK, Paths
  <2>2. KeptBy(p)'
    BY <1>1, <1>2, <1>h, <2>1
       DEF KeptBy, WorkKept, HomeKept, InPlace, Somewhere, Step, At, Goto, TypeOK, Paths
  <2>3. QED
    BY <1>1, <1>3, <2>1, <2>2 DEF Step
<1>14. CASE PutBackWork(p)
  <2>1. /\ Step(p, "backwork", "backhome") /\ flags' = flags
        /\ Same({"work", "oldwork"})
        /\ start.work.dir /\ "committed" \notin flags[p] => Keeps(tree'["work"], start.work)
    BY <1>1, <1>2, <1>14, <1>w, <1>t
       DEF PutBackWork, RenameIfThere, Rename, KeptBy, WorkKept,
       InPlace, Somewhere, Step, At, TypeOK, Paths
  <2>2. KeptBy(p)'
    BY <1>1, <1>2, <1>w, <2>1
       DEF KeptBy, WorkKept, HomeKept, InPlace, Somewhere, Step, At, Goto, TypeOK, Paths
  <2>3. QED
    BY <1>1, <1>3, <2>1, <2>2 DEF Step
<1>15. CASE PutBackHome(p)
  <2>1. /\ Step(p, "backhome", "rmroot") /\ flags' = flags
        /\ Same({"home", "oldhome"})
        /\ start.home.dir /\ "committed" \notin flags[p] => Keeps(tree'["home"], start.home)
    BY <1>1, <1>2, <1>15, <1>h, <1>t
       DEF PutBackHome, RenameIfThere, Rename, KeptBy, HomeKept,
       InPlace, Somewhere, Step, At, TypeOK, Paths
  <2>2. KeptBy(p)'
    BY <1>1, <1>2, <1>h, <2>1
       DEF KeptBy, WorkKept, HomeKept, InPlace, Somewhere, Step, At, Goto, TypeOK, Paths
  <2>3. QED
    BY <1>1, <1>3, <2>1, <2>2 DEF Step
<1>16. CASE RemoveRoot(p)
  <2>1. /\ lock' = NoOne /\ Goto(p, "exited") /\ flags' = flags
        /\ tree'["oldwork"] = NoTree /\ tree'["oldhome"] = NoTree
    BY <1>16 DEF RemoveRoot, Paths
  <2>2. \A q \in Restorers \ {p} : KeptBy(q)'
    BY <1>1, <2>1, OthersKept
  <2>3. KeptBy(p)'
    BY <1>2, <2>1 DEF KeptBy, Goto, TypeOK
  <2>4. QED
    BY <2>1, <2>2, <2>3 DEF KeepInv
<1>17. QED
  BY <1>4, <1>5, <1>6, <1>7, <1>8, <1>9, <1>10, <1>11, <1>12, <1>13, <1>14, <1>15,
     <1>16 DEF Restore, Forward, Backward

LEMMA KeepStep ==
  ASSUME TypeOK, LockIsHeld, KeepInv, [Next]_vars
  PROVE  KeepInv'
<1> USE ProcsAssumption
<1>1. ASSUME NEW p \in Lockers, MkdirLock(p) PROVE KeepInv'
  <2>1. ASSUME NEW q \in Restorers PROVE KeptBy(q)'
    <3>1. KeptBy(q) /\ q \in Procs
      BY DEF KeepInv, Procs
    <3>2. CASE lock' = q /\ lock # q
      <4>1. /\ p = q /\ lock = NoOne /\ pc'[q] = "traps" /\ pc[q] = "idle"
            /\ start' = [work |-> tree["work"], home |-> tree["home"]]
            /\ tree' = tree /\ flags' = flags
        BY <1>1, <3>1, <3>2 DEF MkdirLock, At, Goto, TypeOK
      <4>2. tree["oldwork"] = NoTree /\ tree["oldhome"] = NoTree /\ flags[q] = {}
        BY <3>1, <4>1 DEF KeepInv, KeptBy
      <4>3. QED
        BY <4>1, <4>2 DEF KeptBy, WorkKept, HomeKept, InPlace, Keeps
    <3>3. CASE lock' # q
      BY <1>1, <3>1, <3>3 DEF MkdirLock, At, Goto, TypeOK, KeptBy
    <3>4. CASE lock = q
      <4>1. p # q
        BY <1>1, <3>4 DEF MkdirLock, At, LockIsHeld
      <4>2. /\ lock' = lock /\ tree' = tree /\ flags' = flags /\ start' = start
            /\ pc'[q] = pc[q]
        BY <1>1, <3>1, <3>4, <4>1 DEF MkdirLock, Goto, TypeOK
      <4>3. QED
        BY <3>1, <4>2 DEF KeptBy, WorkKept, HomeKept, InPlace, Somewhere
    <3>5. QED
      BY <3>2, <3>3, <3>4
  <2>2. lock' \notin Restorers => tree'["oldwork"] = NoTree /\ tree'["oldhome"] = NoTree
    BY <1>1 DEF MkdirLock, KeepInv
  <2>3. QED
    BY <2>1, <2>2 DEF KeepInv
<1>2. ASSUME NEW p \in Lockers, SetTraps(p) \/ Die(p) PROVE KeepInv'
  <2>1. lock' = lock /\ tree' = tree /\ flags' = flags /\ start' = start
    BY <1>2 DEF SetTraps, Die
  <2>2. ASSUME NEW q \in Restorers PROVE KeptBy(q)'
    <3>1. KeptBy(q) /\ q \in Procs
      BY DEF KeepInv, Procs
    <3>2. \/ pc'[q] = pc[q]
          \/ pc'[q] = "dead"
          \/ pc[q] = "traps" /\ pc'[q] = "receive"
      BY <1>2, <3>1 DEF SetTraps, Die, At, Goto, TypeOK
    <3>3. QED
      BY <2>1, <3>1, <3>2 DEF KeptBy, WorkKept, HomeKept, InPlace, Somewhere
  <2>3. QED
    BY <2>1, <2>2 DEF KeepInv
<1>3. ASSUME NEW p \in Restorers, Restore(p) PROVE KeepInv'
  BY <1>3, KeepRestore
<1>4. ASSUME NEW p \in Snapshotters, Snapshot(p) PROVE KeepInv'
  <2>1. /\ lock = p /\ lock' \in {p, NoOne} /\ p \notin Restorers
        /\ tree' = tree /\ flags' = flags
    BY <1>4 DEF Snapshot, TestWork, TarWork, TarHome, SnapAbort, SnapStep, At,
       LockIsHeld, Lockers, Ended
  <2>2. ASSUME NEW q \in Restorers PROVE KeptBy(q)'
    <3>1. pc'[q] = pc[q] /\ lock' # q
      BY <1>4, <2>1 DEF Snapshot, TestWork, TarWork, TarHome, SnapAbort,
         SnapStep, Goto, TypeOK, Procs
    <3>2. QED
      BY <2>1, <3>1 DEF KeepInv, KeptBy
  <2>3. QED
    BY <2>1, <2>2 DEF KeepInv
<1>5. ASSUME NEW p \in Launchers, Launch(p) PROVE KeepInv'
  <2>1. /\ lock' = lock /\ flags' = flags /\ start' = start
        /\ \A t \in Paths : tree[t].dir => tree'[t] = tree[t]
        /\ tree'["oldwork"] = tree["oldwork"] /\ tree'["oldhome"] = tree["oldhome"]
    BY <1>5 DEF Launch, LaunchMkdir, TypeOK, Paths
  <2>2. ASSUME NEW q \in Restorers PROVE KeptBy(q)'
    <3>1. KeptBy(q) /\ pc'[q] = pc[q]
      BY <1>5 DEF KeepInv, Launch, LaunchMkdir, Goto, TypeOK, Procs, Lockers
    <3>2. ASSUME NEW t \in Paths, NEW s \in Trees, s.dir
          PROVE  /\ Keeps(tree[t], s) => tree'[t] = tree[t]
                 /\ tree[t] = s => tree'[t] = tree[t]
      BY <2>1, <3>2, KeepsFacts DEF TypeOK
    <3>3. start.work \in Trees /\ start.home \in Trees
      BY DEF TypeOK
    <3>4. WorkKept(q) => WorkKept(q)'
      BY <2>1, <3>1, <3>2, <3>3 DEF WorkKept, InPlace, Somewhere, Paths
    <3>5. HomeKept(q) => HomeKept(q)'
      BY <2>1, <3>1, <3>2, <3>3 DEF HomeKept, InPlace, Somewhere, Paths
    <3>6. QED
      BY <2>1, <3>1, <3>4, <3>5 DEF KeptBy
  <2>3. QED
    BY <2>1, <2>2 DEF KeepInv
<1>6. CASE UNCHANGED vars
  BY <1>6 DEF vars, KeepInv, KeptBy, WorkKept, HomeKept, InPlace, Somewhere
<1>7. QED
  BY <1>1, <1>2, <1>3, <1>4, <1>5, <1>6 DEF Next, Command, Enter

\* For any number of sessions and launchers, and signals at any command, each
\* command of an uncommitted restorer has its place for the trees it found.
THEOREM KeepCorrect == Spec => []KeepInv
<1>1. Init => KeepInv
  <2> SUFFICES ASSUME Init PROVE KeepInv
    OBVIOUS
  <2>1. tree["oldwork"] = NoTree /\ tree["oldhome"] = NoTree
    BY DEF Init, Paths
  <2>2. \A p \in Restorers : pc[p] \in {"idle", "exited"} /\ flags[p] = {} /\ lock # p
    BY ProcsAssumption DEF Init, Procs
  <2>3. QED
    BY <2>1, <2>2 DEF KeepInv, KeptBy
<1>2. TypeOK /\ LockIsHeld /\ KeepInv /\ [Next]_vars => KeepInv'
  BY KeepStep
<1>3. QED
  BY <1>1, <1>2, RestoreTypeCorrect, LockExclusion, PTL DEF Spec

\* A flag once set stays set.
LEMMA FlagsGrow ==
  ASSUME TypeOK, Next, NEW p \in Restorers
  PROVE  flags[p] \subseteq flags'[p]
<1>1. ASSUME NEW q \in Restorers, Restore(q)
      PROVE  flags' = flags \/ (\E x : flags' = [flags EXCEPT ![q] = @ \cup {x}])
  BY <1>1 DEF Restore, Forward, Backward, Receive, StageHome, KeepOldWork,
     KeepOldHome, InstallWork, FlagWork, InstallHome, FlagHome, Commit,
     SetFlag, DropOld, Echo, Rollback, RemoveNewHome, PutBackWork,
     PutBackHome, RemoveRoot, Abort, GetStuck
<1>2. ASSUME NEW q, Enter(q) \/ Die(q) \/ Snapshot(q) \/ Launch(q) PROVE flags' = flags
  BY <1>2 DEF Enter, MkdirLock, SetTraps, Die, Snapshot, TestWork, TarWork,
     TarHome, SnapAbort, SnapStep, Launch, LaunchMkdir
<1>3. \/ flags' = flags
      \/ \E q \in Restorers : \E x : flags' = [flags EXCEPT ![q] = @ \cup {x}]
  BY <1>1, <1>2 DEF Next, Command
<1>4. QED
  BY <1>3 DEF TypeOK

\* Failures, signals, kills and launchers in any order: until a session
\* commits, the trees it found are in place or below the lock directory, and
\* it gives the lock back only with both in place, or inside what is.
THEOREM RestoreLosesNothing == Spec => NothingLost
<1> USE ProcsAssumption
<1> DEFINE Safe(p) ==
      /\ Keeps(tree["work"], start.work) \/ Keeps(tree["oldwork"], start.work)
      /\ Keeps(tree["home"], start.home) \/ Keeps(tree["oldhome"], start.home)
      /\ lock' # p => /\ Keeps(tree'["work"], start.work)
                      /\ Keeps(tree'["home"], start.home)
<1>1. ASSUME TypeOK, LockIsHeld, KeepInv, Next, NEW p \in Restorers, lock = p,
             "committed" \notin flags'[p]
      PROVE  Safe(p)
  <2>1. "committed" \notin flags[p]
    BY <1>1, FlagsGrow
  <2>2. WorkKept(p) /\ HomeKept(p)
    BY <1>1, <2>1 DEF KeepInv, KeptBy
  <2>3. /\ Keeps(tree["work"], start.work) \/ Keeps(tree["oldwork"], start.work)
        /\ Keeps(tree["home"], start.home) \/ Keeps(tree["oldhome"], start.home)
    BY <2>2 DEF WorkKept, HomeKept, Keeps
  <2>4. ASSUME lock' # p
        PROVE  Keeps(tree'["work"], start.work) /\ Keeps(tree'["home"], start.home)
    <3>1. RemoveRoot(p)
      BY <1>1, <2>4, OnlyRemoveRoot
    <3>2. Keeps(tree["work"], start.work) /\ Keeps(tree["home"], start.home)
      BY <2>2, <3>1 DEF RemoveRoot, At, WorkKept, HomeKept, Keeps
    <3>3. QED
      BY <3>1, <3>2 DEF RemoveRoot, Paths
  <2>5. QED
    BY <2>3, <2>4
<1>2. TypeOK /\ LockIsHeld /\ KeepInv /\ [Next]_vars =>
        [\A p \in Restorers : lock = p /\ "committed" \notin flags'[p] => Safe(p)]_vars
  BY <1>1
<1>3. QED
  BY <1>2, KeepCorrect, RestoreTypeCorrect, LockExclusion, PTL
     DEF Spec, NothingLost

-----------------------------------------------------------------------------
(* Snapshots.                                                              *)

LEMMA SnapStepInv ==
  ASSUME TypeOK, LockIsHeld, SnapInv, [Next]_vars
  PROVE  SnapInv'
<1> USE ProcsAssumption
<1>1. ASSUME NEW q \in Lockers, Enter(q) \/ Die(q) PROVE SnapInv'
  <2>1. tree' = tree /\ snap' = snap
    BY <1>1 DEF Enter, MkdirLock, SetTraps, Die
  <2>2. ASSUME NEW p \in Snapshotters
        PROVE  pc'[p] = pc[p] \/ pc'[p] \notin {"tarwork", "tarhome"}
    BY <1>1, <2>2
       DEF Enter, MkdirLock, SetTraps, Die, Goto, TypeOK, Procs, Lockers
  <2>3. QED
    BY <2>1, <2>2 DEF SnapInv
<1>2. ASSUME NEW q \in Restorers, Restore(q) PROVE SnapInv'
  <2>1. lock = q
    BY <1>2 DEF Restore, Forward, Backward, Receive, StageHome, KeepOldWork,
       KeepOldHome, InstallWork, FlagWork, InstallHome, FlagHome, Commit,
       SetFlag, DropOld, Echo, Rollback, RemoveNewHome, PutBackWork,
       PutBackHome, RemoveRoot, Abort, GetStuck, Step, At, Trapped, Rolling,
       LockIsHeld, Lockers, Ended
  <2>2. \E to : Goto(q, to)
    BY <1>2 DEF Restore, Forward, Backward, Receive, StageHome, KeepOldWork,
       KeepOldHome, InstallWork, FlagWork, InstallHome, FlagHome, Commit,
       SetFlag, DropOld, Echo, Rollback, RemoveNewHome, PutBackWork,
       PutBackHome, RemoveRoot, Abort, GetStuck, Step
  <2>3. ASSUME NEW p \in Snapshotters
        PROVE  pc'[p] = pc[p] /\ pc[p] \notin {"tarwork", "tarhome"}
    BY <2>1, <2>2, <2>3 DEF LockIsHeld, Lockers, Ended, Goto, TypeOK, Procs
  <2>4. QED
    BY <2>3 DEF SnapInv
<1>3. ASSUME NEW q \in Snapshotters, Snapshot(q) PROVE SnapInv'
  BY <1>3 DEF Snapshot, TestWork, TarWork, TarHome, SnapAbort, SnapStep, At,
     Goto, SnapInv, TypeOK, Procs, Lockers
<1>4. ASSUME NEW q \in Launchers, Launch(q) PROVE SnapInv'
  <2>1. snap' = snap /\ (tree["work"].dir => tree'["work"] = tree["work"])
    BY <1>4 DEF Launch, LaunchMkdir, TypeOK, Paths
  <2>2. ASSUME NEW p \in Snapshotters PROVE pc'[p] = pc[p]
    BY <1>4, <2>2 DEF Launch, LaunchMkdir, Goto, TypeOK, Procs
  <2>3. QED
    BY <2>1, <2>2 DEF SnapInv
<1>5. CASE UNCHANGED vars
  BY <1>5 DEF vars, SnapInv
<1>6. QED
  BY <1>1, <1>2, <1>3, <1>4, <1>5 DEF Next, Command

\* A snapshot that is reported as good holds the two trees of one instant,
\* for any number of sessions and launchers and any failures.
THEOREM SnapshotsConsistent == Spec => SnapshotConsistent
<1> USE ProcsAssumption
<1>1. Init => SnapInv
  BY DEF Init, SnapInv, Procs
<1>2. TypeOK /\ LockIsHeld /\ SnapInv /\ [Next]_vars => SnapInv'
  BY SnapStepInv
<1>3. ASSUME TypeOK, SnapInv, Next, NEW p \in Snapshotters, report[p] # "ok",
             report'[p] = "ok"
      PROVE  snap[p].work = tree["work"]
  <2>1. TarHome(p)
    <3>1. ASSUME NEW q \in Lockers, Enter(q) \/ Die(q) PROVE report'[p] # "ok"
      BY <1>3, <3>1 DEF Enter, MkdirLock, SetTraps, Die, TypeOK, Lockers
    <3>2. ASSUME NEW q \in Restorers, Restore(q) PROVE report'[p] = report[p]
      <4>1. report' = report \/ (\E r : report' = [report EXCEPT ![q] = r])
        BY <3>2 DEF Restore, Forward, Backward, Receive, StageHome, KeepOldWork,
           KeepOldHome, InstallWork, FlagWork, InstallHome, FlagHome, Commit,
           SetFlag, DropOld, Echo, Rollback, RemoveNewHome, PutBackWork,
           PutBackHome, RemoveRoot, Abort, GetStuck, Step
      <4>2. p # q /\ p \in Lockers /\ report \in [Lockers -> {"none", "ok", "failed"}]
        BY <1>3 DEF TypeOK, Lockers
      <4>3. QED
        BY <4>1, <4>2
    <3>3. ASSUME NEW q \in Snapshotters, Snapshot(q) PROVE TarHome(p)
      BY <1>3, <3>3
         DEF Snapshot, TestWork, TarWork, TarHome, SnapAbort, SnapStep,
         TypeOK, Lockers
    <3>4. ASSUME NEW q \in Launchers, Launch(q) PROVE report' = report
      BY <3>4 DEF Launch, LaunchMkdir
    <3>5. QED
      BY <1>3, <3>1, <3>2, <3>3, <3>4 DEF Next, Command
  <2>2. QED
    BY <1>3, <2>1 DEF TarHome, At, SnapInv
<1>4. TypeOK /\ SnapInv /\ [Next]_vars =>
        [\A p \in Snapshotters :
           report[p] # "ok" /\ report'[p] = "ok" => snap[p].work = tree["work"]]_vars
  BY <1>3
<1>5. QED
  BY <1>1, <1>2, <1>4, RestoreTypeCorrect, LockExclusion, PTL
     DEF Spec, SnapshotConsistent
=============================================================================
