--------------------------- MODULE RamStateRestore ---------------------------
(***************************************************************************)
(* The device side of saving and restoring RAM state: the two shell        *)
(* programs that ram-state/A1625RamState.psm1 generates.                   *)
(*                                                                         *)
(* Every process is one SSH session.  A restorer runs the program of       *)
(* Get-A1625RamRestoreCommand, a snapshotter that of                       *)
(* Get-A1625RamSnapshotCommand, a launcher is codex-ram, which creates     *)
(* missing directories without taking the lock.  Each step is one simple   *)
(* command; the shell runs a pending trap between two of them.  "set -e"   *)
(* turns the failure of a command into an exit, whose trap is rollback.    *)
(* Two things that the scripts do not guard against are remembered in      *)
(* disturbed.                                                              *)
(***************************************************************************)
EXTENDS RamTrees

CONSTANTS
  Restorers, Snapshotters, Launchers,
  NoOne,           \* no process: the lock directory does not exist
  Casts            \* sets of sessions that meet on one boot

ASSUME ProcsAssumption ==
  /\ Restorers \cap Snapshotters = {}
  /\ Launchers \cap (Restorers \cup Snapshotters) = {}
  /\ NoOne \notin Restorers \cup Snapshotters

VARIABLES
  lock,     \* who created /run/.a1625-state-lock, NoOne if it is not there
  tree,     \* the trees in /run and, while the lock exists, below it
  pc,       \* the next command of a session, or how it ended
  flags,    \* which of committed, worknew and homenew a restorer has set
  gen,      \* the generation a restorer was sent
  report,   \* the exit status the host sees: "ok", "failed" or "none"
  snap,     \* what a snapshotter has archived so far
  start,    \* (history) both trees when the present lock was taken
  disturbed \* (history) has a signal come between a rename and its flag,
            \* or codex-ram made a directory?

vars == <<lock, tree, pc, flags, gen, report, snap, start, disturbed>>

Procs == Restorers \cup Snapshotters \cup Launchers

Lockers == Restorers \cup Snapshotters

Paths == {"work", "home", "oldwork", "oldhome", "nextwork", "nexthome"}

\* The commands of a restorer under its traps, and those of rollback.
Trapped == {"receive", "stage", "oldwork", "oldhome", "work", "workflag",
            "home", "homeflag", "commit", "dropold", "echo"}
Rolling == {"rollback", "rmhome", "backwork", "backhome", "rmroot"}

\* Between a rename and the assignment that records it.
Window == {"workflag", "homeflag"}

Ended == {"exited", "stuck", "dead"}

Pcs == {"idle", "traps", "test", "tarwork", "tarhome", "mkwork"}
         \cup Trapped \cup Rolling \cup Ended

TypeOK ==
  /\ lock \in Lockers \cup {NoOne}
  /\ tree \in [Paths -> Trees]
  /\ pc \in [Procs -> Pcs]
  /\ flags \in [Restorers -> SUBSET {"committed", "worknew", "homenew"}]
  /\ gen \in [Restorers -> Gens]
  /\ report \in [Lockers -> {"none", "ok", "failed"}]
  /\ snap \in [Snapshotters -> [work : Trees, home : Trees]]
  /\ start \in [work : Trees, home : Trees]
  /\ disturbed \in BOOLEAN

\* Those that do not take part have ended before.
Init ==
  /\ lock = NoOne
  /\ \E w \in FreshWork, h \in FreshHome :
       /\ tree = [p \in Paths |-> CASE p = "work" -> w
                                    [] p = "home" -> h
                                    [] OTHER -> NoTree]
       /\ start = [work |-> w, home |-> h]
  /\ \E cast \in Casts :
       pc = [p \in Procs |-> IF p \in cast THEN "idle" ELSE "exited"]
  /\ flags = [p \in Restorers |-> {}]
  /\ gen \in [Restorers -> Gens]
  /\ report = [p \in Lockers |-> "none"]
  /\ snap = [p \in Snapshotters |-> [work |-> NoTree, home |-> NoTree]]
  /\ disturbed = FALSE

-----------------------------------------------------------------------------
Goto(p, label) == pc' = [pc EXCEPT ![p] = label]

At(p, label) == pc[p] = label

\* mv src dst, as one command of session p.
Rename(src, dst) ==
  tree' = [tree EXCEPT ![dst] = Moved(tree[src], tree[dst]), ![src] = NoTree]

\* test ! -e src || mv src dst
RenameIfThere(src, dst) ==
  IF tree[src].dir THEN Rename(src, dst) ELSE UNCHANGED tree

\* Mutated: mkdir -p, which succeeds on an existing lock.
MkdirLockShared(p) ==
  /\ At(p, "idle")
  /\ lock' = p
  /\ start' = [work |-> tree["work"], home |-> tree["home"]]
  /\ Goto(p, "traps")
  /\ UNCHANGED <<tree, flags, gen, report, snap>>

\* The RAM guard, then mkdir of the lock directory: the one step that takes
\* it.  When a test of the guard or the mkdir fails, and it always fails on
\* an existing lock, the session ends before it has set any trap.
MkdirLock(p) ==
  /\ At(p, "idle")
  /\ \/ /\ lock = NoOne
        /\ lock' = p
        /\ start' = [work |-> tree["work"], home |-> tree["home"]]
        /\ Goto(p, "traps")
        /\ UNCHANGED report
     \/ /\ Goto(p, "exited")
        /\ report' = [report EXCEPT ![p] = "failed"]
        /\ UNCHANGED <<lock, start>>
  /\ UNCHANGED <<tree, flags, gen, snap>>

\* The flags are cleared and the EXIT and signal traps installed.
SetTraps(p) ==
  /\ At(p, "traps")
  /\ Goto(p, IF p \in Restorers THEN "receive" ELSE "test")
  /\ UNCHANGED <<lock, tree, flags, gen, report, snap, start>>

-----------------------------------------------------------------------------
(* The restorer's transaction.                                             *)

\* Steps that touch the trees of session p and nothing else but its pc.
Step(p, from, to) ==
  /\ At(p, from)
  /\ Goto(p, to)
  /\ UNCHANGED <<lock, gen, report, snap, start>>

\* Mutated: neither size nor digest is compared.
NotVerified(archive, g) == TRUE

\* The archive that arrived has the size and the digest the host announced.
Verified(archive, g) == archive = g

\* Capacity is checked, the archive read from standard input and verified;
\* a connection that breaks leaves a truncated one (Orig stands for it: it
\* is no generation).
Receive(p) ==
  /\ \E archive \in {gen[p], Orig} :
       /\ Verified(archive, gen[p])
       /\ tree' = [tree EXCEPT !["nextwork"] = Dir({archive})]
  /\ Step(p, "receive", "stage")
  /\ UNCHANGED flags

\* The home is copied and the archive's allowlisted files laid over it.
StageHome(p) ==
  /\ tree' = [tree EXCEPT !["nexthome"] = HomeOf(tree["home"], gen[p])]
  /\ Step(p, "stage", "oldwork")
  /\ UNCHANGED flags

KeepOldWork(p) ==
  /\ RenameIfThere("work", "oldwork")
  /\ Step(p, "oldwork", "oldhome")
  /\ UNCHANGED flags

KeepOldHome(p) ==
  /\ RenameIfThere("home", "oldhome")
  /\ Step(p, "oldhome", "work")
  /\ UNCHANGED flags

InstallWork(p) ==
  /\ Rename("nextwork", "work")
  /\ Step(p, "work", "workflag")
  /\ UNCHANGED flags

InstallHome(p) ==
  /\ Rename("nexthome", "home")
  /\ Step(p, "home", "homeflag")
  /\ UNCHANGED flags

SetFlag(p, from, flag, to) ==
  /\ Step(p, from, to)
  /\ flags' = [flags EXCEPT ![p] = @ \cup {flag}]
  /\ UNCHANGED tree

FlagWork(p) == SetFlag(p, "workflag", "worknew", "home")
FlagHome(p) == SetFlag(p, "homeflag", "homenew", "commit")
Commit(p) == SetFlag(p, "commit", "committed", "dropold")

DropOld(p) ==
  /\ tree' = [tree EXCEPT !["oldwork"] = NoTree, !["oldhome"] = NoTree]
  /\ Step(p, "dropold", "echo")
  /\ UNCHANGED flags

\* The success line is printed and the script ends, with status 0.
Echo(p) ==
  /\ At(p, "echo")
  /\ Goto(p, "rollback")
  /\ report' = [report EXCEPT ![p] = "ok"]
  /\ UNCHANGED <<lock, tree, flags, gen, snap, start>>

\* Any command under the traps fails, or a signal is handled before it: the
\* EXIT trap runs rollback with a status that is not 0.
Abort(p) ==
  /\ pc[p] \in Trapped
  /\ Goto(p, "rollback")
  /\ report' = [report EXCEPT ![p] = "failed"]
  /\ UNCHANGED <<lock, tree, flags, gen, snap, start>>

-----------------------------------------------------------------------------
(* rollback(), the restorer's EXIT trap; it has cleared the other traps.   *)

\* rm -rf of a tree that an uncommitted session put in place.
RemoveIf(cond, path) ==
  IF cond THEN tree' = [tree EXCEPT ![path] = NoTree] ELSE UNCHANGED tree

\* Mutated: the new work tree is not removed before the old one is put back.
RollbackKeepsNew(p) ==
  /\ Step(p, "rollback",
          IF "committed" \in flags[p] THEN "rmroot" ELSE "rmhome")
  /\ UNCHANGED <<tree, flags>>

Rollback(p) ==
  /\ RemoveIf(flags[p] \cap {"committed", "worknew"} = {"worknew"}, "work")
  /\ Step(p, "rollback",
          IF "committed" \in flags[p] THEN "rmroot" ELSE "rmhome")
  /\ UNCHANGED flags

RemoveNewHome(p) ==
  /\ RemoveIf("homenew" \in flags[p], "home")
  /\ Step(p, "rmhome", "backwork")
  /\ UNCHANGED flags

\* Mutated: the old work tree is forgotten.
PutBackNothing(p) ==
  /\ Step(p, "backwork", "backhome")
  /\ UNCHANGED <<tree, flags>>

PutBackWork(p) ==
  /\ RenameIfThere("oldwork", "work")
  /\ Step(p, "backwork", "backhome")
  /\ UNCHANGED flags

PutBackHome(p) ==
  /\ RenameIfThere("oldhome", "home")
  /\ Step(p, "backhome", "rmroot")
  /\ UNCHANGED flags

\* rm -rf of the lock directory with all that is left below it; exit.
RemoveRoot(p) ==
  /\ At(p, "rmroot")
  /\ lock' = NoOne
  /\ tree' = [t \in Paths |-> IF t \in {"work", "home"} THEN tree[t]
                                                        ELSE NoTree]
  /\ Goto(p, "exited")
  /\ UNCHANGED <<flags, gen, report, snap, start>>

\* A command of rollback fails (exit 71, 72 or the status of rm): the shell
\* exits and leaves the lock directory with what it holds.
GetStuck(p) ==
  /\ pc[p] \in Rolling
  /\ Goto(p, "stuck")
  /\ report' = [report EXCEPT ![p] = "failed"]
  /\ UNCHANGED <<lock, tree, flags, gen, snap, start>>

-----------------------------------------------------------------------------
(* The snapshotter.                                                        *)

SnapStep(p, from, to) ==
  /\ At(p, from)
  /\ Goto(p, to)
  /\ UNCHANGED <<lock, tree, flags, gen, report, start>>

TestWork(p) ==
  /\ tree["work"].dir
  /\ SnapStep(p, "test", "tarwork")
  /\ UNCHANGED snap

TarWork(p) ==
  /\ snap' = [snap EXCEPT ![p].work = tree["work"]]
  /\ SnapStep(p, "tarwork", "tarhome")

\* tar reads codex-home, the script ends and its trap removes the lock.
TarHome(p) ==
  /\ At(p, "tarhome")
  /\ snap' = [snap EXCEPT ![p].home = tree["home"]]
  /\ report' = [report EXCEPT ![p] = "ok"]
  /\ lock' = NoOne
  /\ Goto(p, "exited")
  /\ UNCHANGED <<tree, flags, gen, start>>

\* Mutated: no EXIT trap removes the lock.
SnapAbortKeepsLock(p) ==
  /\ pc[p] \in {"test", "tarwork", "tarhome"}
  /\ Goto(p, "exited")
  /\ report' = [report EXCEPT ![p] = "failed"]
  /\ UNCHANGED <<lock, tree, flags, gen, snap, start>>

\* A command fails, or HUP, INT or TERM arrives: exit, and rmdir the lock.
SnapAbort(p) ==
  /\ pc[p] \in {"test", "tarwork", "tarhome"}
  /\ lock' = NoOne
  /\ Goto(p, "exited")
  /\ report' = [report EXCEPT ![p] = "failed"]
  /\ UNCHANGED <<tree, flags, gen, snap, start>>

-----------------------------------------------------------------------------
(* SIGKILL at any command; also a signal that finds no trap, before        *)
(* SetTraps and during rollback.  Nothing is cleaned up.                   *)
Die(p) ==
  /\ pc[p] \notin Ended \cup {"idle"}
  /\ Goto(p, "dead")
  /\ report' = [report EXCEPT ![p] = "failed"]
  /\ UNCHANGED <<lock, tree, flags, gen, snap, start>>

\* codex-ram: mkdir -p "$CODEX_HOME" /run/work, the home first.
LaunchMkdir(p, from, path, to) ==
  /\ At(p, from)
  /\ tree' = [tree EXCEPT ![path] = IF @.dir THEN @ ELSE Dir({})]
  /\ Goto(p, to)
  /\ UNCHANGED <<lock, flags, gen, report, snap, start>>

Launch(p) ==
  \/ LaunchMkdir(p, "idle", "home", "mkwork")
  \/ LaunchMkdir(p, "mkwork", "work", "exited")

-----------------------------------------------------------------------------
Forward(p) ==
  \/ Receive(p) \/ StageHome(p) \/ KeepOldWork(p) \/ KeepOldHome(p)
  \/ InstallWork(p) \/ FlagWork(p) \/ InstallHome(p) \/ FlagHome(p)
  \/ Commit(p) \/ DropOld(p) \/ Echo(p)

Backward(p) ==
  \/ Rollback(p) \/ RemoveNewHome(p) \/ PutBackWork(p) \/ PutBackHome(p)
  \/ RemoveRoot(p)

Restore(p) == Forward(p) \/ Backward(p) \/ Abort(p) \/ GetStuck(p)

Snapshot(p) == TestWork(p) \/ TarWork(p) \/ TarHome(p) \/ SnapAbort(p)

Enter(p) == MkdirLock(p) \/ SetTraps(p)

Command ==
  \/ \E p \in Lockers : Enter(p) \/ Die(p)
  \/ \E p \in Restorers : Restore(p)
  \/ \E p \in Snapshotters : Snapshot(p)
  \/ \E p \in Launchers : Launch(p)

\* A signal is handled in one of the windows, or codex-ram has created a
\* tree that was not there.
Disturbs ==
  \/ \E p \in Restorers : pc[p] \in Window /\ pc'[p] = "rollback"
  \/ \E p \in Launchers : pc'[p] # pc[p] /\ tree' # tree

Recorded == disturbed' = (disturbed \/ Disturbs)

Next == Command /\ Recorded

Spec == Init /\ [][Next]_vars

\* Commands end: dropbear closes a session whose host has gone, and the host
\* kills an ssh that is silent for too long.
LiveSpec ==
  /\ Spec
  /\ \A p \in Restorers : WF_vars((Enter(p) \/ Restore(p)) /\ Recorded)
  /\ \A p \in Snapshotters : WF_vars((Enter(p) \/ Snapshot(p)) /\ Recorded)

-----------------------------------------------------------------------------
(* Properties.                                                             *)

\* Exactly one session is between mkdir and the removal of the lock
\* directory, and a lock that is left over was left by a session that died
\* or whose rollback failed: mkdir is the scripts' only mutual exclusion.
LockIsHeld ==
  \A p \in Lockers :
    /\ lock = p => pc[p] \notin {"idle", "exited"}
    /\ pc[p] \notin {"idle"} \cup Ended => lock = p

\* Where one of the two trees is while a restorer swaps it: not moved yet (or
\* back in place), kept below the lock with nothing in its place, or kept
\* with its replacement in place.
Untouched(place, old, was)    == tree[place] = was /\ tree[old] = NoTree
SetAside(place, old, was)     == tree[place] = NoTree /\ tree[old] = was
Swapped(place, old, was, new) == tree[place] = new /\ tree[old] = was

\* The work tree and the home of an uncommitted session at each command.
WorkAt(p) ==
  LET untouched == Untouched("work", "oldwork", start.work)
      setAside  == SetAside("work", "oldwork", start.work)
      swapped   == Swapped("work", "oldwork", start.work, WorkOf(gen[p]))
      flagged   == "worknew" \in flags[p]
  IN /\ pc[p] \in {"traps", "receive", "stage", "oldwork"} =>
          untouched /\ ~flagged
     /\ pc[p] \in {"oldhome", "work"} => setAside /\ ~flagged
     /\ pc[p] = "workflag" => swapped /\ ~flagged
     /\ pc[p] \in {"home", "homeflag", "commit"} => swapped /\ flagged
     /\ pc[p] = "rollback" =>
          IF flagged THEN swapped ELSE untouched \/ setAside
     /\ pc[p] \in {"rmhome", "backwork"} => untouched \/ setAside
     /\ pc[p] \in {"backhome", "rmroot"} => untouched
     /\ pc[p] \in {"stage", "oldwork", "oldhome", "work"} =>
          tree["nextwork"] = WorkOf(gen[p])

HomeAt(p) ==
  LET new       == HomeOf(start.home, gen[p])
      untouched == Untouched("home", "oldhome", start.home)
      setAside  == SetAside("home", "oldhome", start.home)
      swapped   == Swapped("home", "oldhome", start.home, new)
      flagged   == "homenew" \in flags[p]
  IN /\ pc[p] \in {"traps", "receive", "stage", "oldwork", "oldhome"} =>
          untouched /\ ~flagged
     /\ pc[p] \in {"work", "workflag", "home"} => setAside /\ ~flagged
     /\ pc[p] = "homeflag" => swapped /\ ~flagged
     /\ pc[p] = "commit" => swapped /\ flagged
     /\ pc[p] \in {"rollback", "rmhome"} =>
          IF flagged THEN swapped ELSE untouched \/ setAside
     /\ pc[p] \in {"backwork", "backhome"} => untouched \/ setAside
     /\ pc[p] = "rmroot" => untouched
     /\ pc[p] \in {"oldwork", "oldhome", "work", "workflag", "home"} =>
          tree["nexthome"] = new

\* One session: when it has committed, and what that says of the trees.
SessionInv(p) ==
  /\ pc[p] \in {"idle", "traps"} => flags[p] = {}
  /\ pc[p] \in {"dropold", "echo"} => "committed" \in flags[p]
  /\ pc[p] \notin {"dropold", "echo", "rollback", "rmroot"} \cup Ended =>
       "committed" \notin flags[p]
  /\ report[p] = "ok" => "committed" \in flags[p]
  /\ lock = p /\ "committed" \notin flags[p] => WorkAt(p) /\ HomeAt(p)
  /\ lock = p /\ "committed" \in flags[p] =>
       /\ tree["work"] = WorkOf(gen[p])
       /\ tree["home"] = HomeOf(start.home, gen[p])

Undisturbed ==
  /\ \A t \in Paths : tree[t].dir \/ tree[t] = NoTree
  /\ lock \notin Restorers =>
       tree["oldwork"] = NoTree /\ tree["oldhome"] = NoTree
  /\ \A p \in Restorers : SessionInv(p)

\* The inductive invariant behind atomicity: a path holds a directory or
\* nothing; without a restorer nothing is kept aside; an uncommitted
\* restorer can still put both trees back; a committed one has both new.
TransactionInv == ~disturbed => Undisturbed

\* Until a session commits, the work and home trees it found are in place or
\* below the lock directory, and its exit leaves them in place (possibly
\* moved inside another tree): no order of failures, signals, kills and
\* concurrent launches deletes a user's work.
NothingLost ==
  [][\A p \in Restorers : lock = p /\ "committed" \notin flags'[p] =>
       /\ Keeps(tree["work"], start.work) \/ Keeps(tree["oldwork"], start.work)
       /\ Keeps(tree["home"], start.home) \/ Keeps(tree["oldhome"], start.home)
       /\ lock' # p => /\ Keeps(tree'["work"], start.work)
                       /\ Keeps(tree'["home"], start.home)]_vars

\* A snapshot archives the two trees of one instant: no restoration gets in
\* between tar's reading of /run/work and of /run/codex-home.
SnapshotConsistent ==
  [][\A p \in Snapshotters :
       report[p] # "ok" /\ report'[p] = "ok" => snap[p].work = tree["work"]]_vars

\* A session that ends without committing, whatever failed or was killed,
\* leaves both trees as it found them, unless a signal came between a rename
\* and its flag or codex-ram made a directory in the middle.
RollbackCompletes ==
  [][\A p \in Restorers :
       ~disturbed /\ lock = p /\ lock' = NoOne /\ "committed" \notin flags[p] =>
         tree'["work"] = start.work /\ tree'["home"] = start.home]_vars

\* README: "rollback on ordinary failures and catchable termination", with
\* no exception.
SignalRollsBack ==
  [][\A p \in Restorers :
       lock = p /\ lock' = NoOne /\ "committed" \notin flags[p] =>
         tree'["work"] = start.work /\ tree'["home"] = start.home]_vars

\* When the host is told the restoration succeeded, both trees are those of
\* the archive it sent, laid over the home the device had, unless codex-ram
\* made a directory where a new tree was to go.
SuccessMeansReplaced ==
  [][\A p \in Restorers :
       ~disturbed /\ lock = p /\ lock' = NoOne /\ report[p] = "ok" =>
         /\ tree'["work"] = WorkOf(gen[p])
         /\ tree'["home"] = HomeOf(start.home, gen[p])]_vars

\* The restoration is an atomic replacement of the pair of trees: what a
\* user can rely on is the pair found at the lock until "committed" is set
\* and the pair in place from then on.  The promise ends when it is disturbed.
env ==
  IF lock \in Restorers /\ "committed" \notin flags[lock]
    THEN start
    ELSE [work |-> tree["work"], home |-> tree["home"]]

AR == INSTANCE AtomicReplace WITH env <- env, broken <- disturbed,
        Gens <- Gens, Full <- Full, Orig <- Orig, Local <- Local

Atomic == AR!Spec

\* A lock that was taken is given back, unless its holder was killed, met a
\* signal without a trap, or could not roll back.
LockGivenBack ==
  \A p \in Lockers :
    lock = p ~> lock # p \/ pc[p] \in {"dead", "stuck"}
=============================================================================
