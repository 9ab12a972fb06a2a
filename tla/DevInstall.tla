------------------------------ MODULE DevInstall ------------------------------
(***************************************************************************)
(* The installation program that Install-A1625DevelopmentTools.ps1 sends   *)
(* to the device.                                                          *)
(*                                                                         *)
(* Every process is one SSH session.  A step is a command, or a run of     *)
(* commands that only touch files nobody else sees; the shell handles a    *)
(* signal between two commands, and "set -e" turns a failure into an exit, *)
(* whose trap is cleanup.  Removals in the RAM file system succeed, but    *)
(* for that of the previous root, the last command.  Below, a tree is the  *)
(* sequence of its content and of what a rename put inside it: mv onto a   *)
(* directory moves into it.  Swap on zram is left out.                     *)
(***************************************************************************)
EXTENDS Naturals, Sequences

CONSTANTS
  Installers, Links, Provides,
  Old, Foreign, Absent,
  Torn,            \* a marker file without its whole content
  NoOne

ASSUME InstallAssumption ==
  /\ Provides \in [Installers -> SUBSET Links]
  /\ {"a1625-tool", "git"} \cap Links = {}
  /\ {Old, Foreign, Absent, Torn, "link", NoOne} \cap Installers = {}
  /\ Old # Absent /\ Foreign # Absent /\ Foreign # Old

VARIABLES
  lock,            \* who made /run/.a1625-tools-install-lock
  root, previous,  \* the trees root and root.previous
  wrap, mark,      \* the wrappers in /opt/bin; the layer's marker
  backup,          \* the copies of both below the lock, once made
  pc, left,        \* next step; wrappers that a loop has still to visit
  flags,           \* which of committed, root_changed and wrappers_changed are set
  status,          \* the exit status: "none", "ok" or "failed"
  start,           \* (history) root, wrappers and marker when the lock was taken
  stale,           \* (history) a root.previous was there when it was taken
  hit              \* (history) a signal or failure came where nothing covers it

vars == <<lock, root, previous, wrap, mark, backup, pc, left, flags, status,
          start, stale, hit>>

env ==
  IF lock # NoOne /\ "committed" \notin flags[lock]
    THEN start
    ELSE [root |-> root, wrap |-> wrap, mark |-> mark]

AI == INSTANCE AtomicInstall WITH env <- env, broken <- hit,
        Installers <- Installers, Links <- Links, Provides <- Provides,
        Old <- Old, Foreign <- Foreign, Absent <- Absent

Names == AI!Names

Working == {"backup", "fetch", "old", "new", "rootflag", "wrapflag", "tool",
            "links", "check", "mark", "commit", "drop"}

Cleaning == {"cleanup", "mvback", "wrappers", "oldmark", "unlock"}

\* Where a signal undoes too little: the new root is in place and its flag
\* not set, or the installation is committed and the previous root there.
Window == {"rootflag", "drop"}

Contents == Installers \cup {Old, Foreign, Absent, "link"}

\* The copies below the lock; NoOne stands for one that was moved back, and
\* for none at all.
Copies == [wrap : [Names -> Contents \cup {NoOne}],
           mark : Installers \cup {Old, Absent, Torn}]

ASSUME CopyAssumption == NoOne \notin Copies

TypeOK ==
  /\ lock \in Installers \cup {NoOne}
  /\ root \in Seq(Installers \cup {Old})
  /\ previous \in Seq(Installers \cup {Old})
  /\ wrap \in [Names -> Contents]
  /\ mark \in Installers \cup {Old, Absent, Torn}
  /\ backup \in Copies \cup {NoOne}
  /\ pc \in [Installers -> Working \cup Cleaning \cup
               {"idle", "lock", "traps", "exited", "stuck", "dead"}]
  /\ left \subseteq Names
  /\ flags \in [Installers -> SUBSET {"committed", "root_changed", "wrappers_changed"}]
  /\ status \in [Installers -> {"none", "ok", "failed"}]
  /\ start \in [root : Seq(Installers \cup {Old}), wrap : [Names -> Contents],
                mark : Installers \cup {Old, Absent, Torn}]
  /\ stale \in BOOLEAN /\ hit \in BOOLEAN

Init ==
  /\ \E e \in AI!Fresh :
       /\ root = e.root /\ wrap = e.wrap /\ mark = e.mark
       /\ start = e
  /\ lock = NoOne /\ previous = <<>> /\ backup = NoOne
  /\ pc = [p \in Installers |-> "idle"]
  /\ left = {}
  /\ flags = [p \in Installers |-> {}]
  /\ status = [p \in Installers |-> "none"]
  /\ stale = FALSE /\ hit = FALSE

-----------------------------------------------------------------------------
Goto(p, from, to) == pc[p] = from /\ pc' = [pc EXCEPT ![p] = to]

Trees == <<root, previous>>

Opt == <<wrap, mark>>

History == <<start, stale, hit>>

\* The exit status a failure fixes; cleanup passes it on.
Fails(p, from) ==
  /\ Goto(p, from, "cleanup")
  /\ status' = [status EXCEPT ![p] = "failed"]

\* The checks before the lock; a failure ends the session there.
Preflight(p) ==
  /\ \/ previous = <<>> /\ Goto(p, "idle", "lock") /\ UNCHANGED status
     \/ Goto(p, "idle", "exited") /\ status' = [status EXCEPT ![p] = "failed"]
  /\ UNCHANGED <<lock, Trees, Opt, backup, left, flags, History>>

Mkdir(p) ==
  /\ \/ /\ lock = NoOne
        /\ Goto(p, "lock", "traps")
        /\ lock' = p
        /\ start' = [root |-> root, wrap |-> wrap, mark |-> mark]
        /\ stale' = (previous # <<>>)
        /\ UNCHANGED status
     \/ /\ lock # NoOne
        /\ Goto(p, "lock", "exited")
        /\ status' = [status EXCEPT ![p] = "failed"]
        /\ UNCHANGED <<lock, start, stale>>
  /\ UNCHANGED <<Trees, Opt, backup, left, flags, hit>>

SetTraps(p) ==
  /\ Goto(p, "traps", "backup")
  /\ UNCHANGED <<lock, Trees, Opt, backup, left, flags, status, History>>

\* Space is checked; wrappers and marker are copied below the lock.
Backup(p) ==
  /\ \/ /\ Goto(p, "backup", "fetch")
        /\ backup' = [wrap |-> wrap, mark |-> mark]
        /\ UNCHANGED status
     \/ Fails(p, "backup") /\ UNCHANGED backup
  /\ UNCHANGED <<lock, Trees, Opt, left, flags, History>>

\* The bundle is fetched, verified and unpacked to the next root.
Fetch(p) ==
  /\ \/ Goto(p, "fetch", "old") /\ UNCHANGED status
     \/ Fails(p, "fetch")
  /\ UNCHANGED <<lock, Trees, Opt, backup, left, flags, History>>

\* Mutated: the old root is removed.
RemoveOld(p) ==
  /\ \/ Goto(p, "old", "new") /\ root' = <<>> /\ UNCHANGED status
     \/ Fails(p, "old") /\ UNCHANGED root
  /\ UNCHANGED <<lock, previous, Opt, backup, left, flags, History>>

\* mv root root.previous, if there is a root; into it, if it exists, which
\* a directory of that name there refuses.
MoveOld(p) ==
  /\ \/ /\ Goto(p, "old", "new")
        /\ root = <<>> \/ Len(previous) <= 1
        /\ IF root = <<>> THEN UNCHANGED Trees
                          ELSE root' = <<>> /\ previous' = previous \o root
        /\ UNCHANGED status
     \/ Fails(p, "old") /\ UNCHANGED Trees
  /\ UNCHANGED <<lock, Opt, backup, left, flags, History>>

MoveNew(p) ==
  /\ \/ Goto(p, "new", "rootflag") /\ root' = <<p>> /\ UNCHANGED status
     \/ Fails(p, "new") /\ UNCHANGED root
  /\ UNCHANGED <<lock, previous, Opt, backup, left, flags, History>>

SetFlag(p, from, flag, to) ==
  /\ Goto(p, from, to)
  /\ flags' = [flags EXCEPT ![p] = @ \cup {flag}]
  /\ UNCHANGED <<lock, Trees, Opt, backup, left, status, History>>

RootFlag(p) == SetFlag(p, "rootflag", "root_changed", "wrapflag")

\* Mutated: the flag is set after the first wrapper.
WrappersFlagLate(p) ==
  /\ Goto(p, "wrapflag", "tool")
  /\ UNCHANGED <<lock, Trees, Opt, backup, left, flags, status, History>>

WrappersFlag(p) == SetFlag(p, "wrapflag", "wrappers_changed", "tool")

SetWrap(n, x) == wrap' = [wrap EXCEPT ![n] = x] /\ UNCHANGED mark

\* What a copy to /opt/bin that fails may leave.
HalfWritten(n, p) == \E x \in {wrap[n], Absent, p} : SetWrap(n, x)

WriteTool(p) ==
  /\ \/ /\ Goto(p, "tool", "links")
        /\ SetWrap("a1625-tool", p) /\ left' = Links /\ UNCHANGED status
     \/ Fails(p, "tool") /\ HalfWritten("a1625-tool", p) /\ UNCHANGED left
  /\ UNCHANGED <<lock, Trees, backup, flags, History>>

\* One turn of the loop: link a tool that the root has, drop a link of this
\* layer to one it lacks.
LinkTool(p) ==
  /\ \E n \in left :
       /\ pc[p] = "links"
       /\ \/ /\ UNCHANGED <<pc, status>>
             /\ left' = left \ {n}
             /\ SetWrap(n, IF n \in Provides[p] THEN "link"
                           ELSE IF wrap[n] = "link" THEN Absent ELSE wrap[n])
          \/ Fails(p, "links") /\ UNCHANGED <<Opt, left>>
  /\ UNCHANGED <<lock, Trees, backup, flags, History>>

WriteGit(p) ==
  /\ \/ /\ Goto(p, "links", "check") /\ left = {}
        /\ SetWrap("git", p) /\ UNCHANGED status
     \/ Fails(p, "links") /\ left = {} /\ HalfWritten("git", p)
  /\ UNCHANGED <<lock, Trees, backup, left, flags, History>>

\* git must run, and zram start if that was asked for.
Check(p) ==
  /\ \/ Goto(p, "check", "mark") /\ UNCHANGED status
     \/ Fails(p, "check")
  /\ UNCHANGED <<lock, Trees, Opt, backup, left, flags, History>>

\* The marker is emptied and then written.
WriteMark(p) ==
  /\ \/ Goto(p, "mark", "commit") /\ mark' = p /\ UNCHANGED status
     \/ Fails(p, "mark") /\ mark' \in {mark, Torn}
  /\ UNCHANGED <<lock, Trees, wrap, backup, left, flags, History>>

Commit(p) == SetFlag(p, "commit", "committed", "drop")

\* The previous root is removed and the program ends.
DropPrevious(p) ==
  /\ \/ /\ Goto(p, "drop", "cleanup")
        /\ status' = [status EXCEPT ![p] = "ok"]
        /\ previous' = <<>> /\ UNCHANGED hit
     \/ Fails(p, "drop") /\ hit' = TRUE /\ UNCHANGED previous
  /\ UNCHANGED <<lock, root, Opt, backup, left, flags, start, stale>>

-----------------------------------------------------------------------------
(* cleanup.                                                                *)

\* Mutated: a first installation's root is not removed.
CleanupKeepsRoot(p) ==
  /\ LET undo == "committed" \notin flags[p]
     IN /\ Goto(p, "cleanup", IF ~undo THEN "unlock"
                              ELSE IF previous # <<>> THEN "mvback" ELSE "wrappers")
        /\ root' = IF undo /\ previous # <<>> THEN <<>> ELSE root
  /\ left' = Names
  /\ UNCHANGED <<lock, previous, Opt, backup, flags, status, History>>

\* The traps are reset; without a commit the new root is removed.
Cleanup(p) ==
  /\ LET undo == "committed" \notin flags[p]
     IN /\ Goto(p, "cleanup", IF ~undo THEN "unlock"
                              ELSE IF previous # <<>> THEN "mvback" ELSE "wrappers")
        /\ root' = IF undo /\ (previous # <<>> \/ "root_changed" \in flags[p])
                     THEN <<>> ELSE root
  /\ left' = Names
  /\ UNCHANGED <<lock, previous, Opt, backup, flags, status, History>>

\* exit 71 keeps the lock and what is below it.
MoveBack(p) ==
  /\ \/ /\ Goto(p, "mvback", "wrappers")
        /\ root' = previous /\ previous' = <<>>
     \/ Goto(p, "mvback", "stuck") /\ UNCHANGED Trees
  /\ UNCHANGED <<lock, Opt, backup, left, flags, status, History>>

\* Mutated: a name comes twice in the list.
RestoreTwice(p) ==
  /\ pc[p] = "wrappers" /\ "wrappers_changed" \in flags[p]
  /\ \E n \in left :
       /\ SetWrap(n, backup.wrap[n])
       /\ backup' = [backup EXCEPT !.wrap[n] = NoOne]
       /\ left' \in {left, left \ {n}}
  /\ UNCHANGED <<lock, Trees, pc, flags, status, History>>

\* One turn of the loop: the wrapper is removed, its copy moved back;
\* exit 72 keeps the lock and the copies that are left.
RestoreWrapper(p) ==
  /\ pc[p] = "wrappers" /\ "wrappers_changed" \in flags[p]
  /\ \E n \in left :
       \/ /\ SetWrap(n, backup.wrap[n])
          /\ backup' = [backup EXCEPT !.wrap[n] = NoOne]
          /\ left' = left \ {n} /\ UNCHANGED pc
       \/ /\ backup.wrap[n] # Absent
          /\ SetWrap(n, Absent)
          /\ Goto(p, "wrappers", "stuck") /\ UNCHANGED <<backup, left>>
  /\ UNCHANGED <<lock, Trees, flags, status, History>>

\* Mutated: without a changed wrapper cleanup ends before the lock.
WrappersExit(p) ==
  /\ Goto(p, "wrappers", IF "wrappers_changed" \in flags[p] THEN "oldmark" ELSE "exited")
  /\ "wrappers_changed" \in flags[p] => left = {}
  /\ UNCHANGED <<lock, Trees, Opt, backup, left, flags, status, History>>

WrappersDone(p) ==
  /\ Goto(p, "wrappers", IF "wrappers_changed" \in flags[p] THEN "oldmark" ELSE "unlock")
  /\ "wrappers_changed" \in flags[p] => left = {}
  /\ UNCHANGED <<lock, Trees, Opt, backup, left, flags, status, History>>

\* The marker is removed, its copy moved back; if that fails set -e keeps
\* the lock.
RestoreMark(p) ==
  /\ \/ Goto(p, "oldmark", "unlock") /\ mark' = backup.mark
     \/ /\ Goto(p, "oldmark", "stuck") /\ backup.mark # Absent
        /\ mark' = Absent
  /\ UNCHANGED <<lock, Trees, wrap, backup, left, flags, status, History>>

\* The next root and the lock, with the copies below it, are removed.
Unlock(p) ==
  /\ Goto(p, "unlock", "exited")
  /\ lock' = NoOne
  /\ backup' = NoOne
  /\ UNCHANGED <<Trees, Opt, left, flags, status, History>>

-----------------------------------------------------------------------------
\* HUP, INT or TERM: exit 130 under the traps; before them, and in cleanup,
\* which has reset them, the shell dies.
Signal(p) ==
  /\ \/ \E s \in Working : Fails(p, s)
     \/ \E s \in {"lock", "traps"} \cup Cleaning : Goto(p, s, "dead") /\ UNCHANGED status
  /\ hit' = (hit \/ pc[p] \in Window)
  /\ UNCHANGED <<lock, Trees, Opt, backup, left, flags, start, stale>>

Kill(p) ==
  /\ \E s \in Working : Goto(p, s, "dead")
  /\ UNCHANGED <<lock, Trees, Opt, backup, left, flags, status, History>>

Step(p) ==
  \/ Mkdir(p) \/ SetTraps(p) \/ Backup(p) \/ Fetch(p) \/ MoveOld(p)
  \/ MoveNew(p) \/ RootFlag(p) \/ WrappersFlag(p) \/ WriteTool(p)
  \/ LinkTool(p) \/ WriteGit(p) \/ Check(p) \/ WriteMark(p) \/ Commit(p)
  \/ DropPrevious(p) \/ Cleanup(p) \/ MoveBack(p) \/ RestoreWrapper(p)
  \/ WrappersDone(p) \/ RestoreMark(p) \/ Unlock(p)

Next == \E p \in Installers : Preflight(p) \/ Step(p) \/ Signal(p) \/ Kill(p)

Spec == Init /\ [][Next]_vars

\* A shell that runs goes on running; nobody has to start or to signal one.
LiveSpec == Spec /\ \A p \in Installers : WF_vars(Step(p))

-----------------------------------------------------------------------------
(* Properties.                                                             *)

\* Until an installation commits, whatever kills it, cuts its cleanup short
\* or makes a rename fail, each wrapper it found is in its place or below
\* the lock, and the root it found under one of the two names.  The root may
\* be lost only to an installer that passed its checks and then took the
\* lock over a root.previous that another one had left.
OldSurvives ==
  lock # NoOne /\ "committed" \notin flags[lock] =>
    /\ start.root = <<>> \/ root = start.root \/ previous = start.root \/ stale
    /\ \A n \in Names :
         \/ wrap[n] = start.wrap[n]
         \/ backup # NoOne /\ backup.wrap[n] = start.wrap[n]

\* What an installation leaves when it gives the lock back.  "Root/wrapper/
\* marker rollback": without a commit, all three as it found them; with
\* success reported, all three of its bundle, though another installer may
\* have passed its checks before this one's commit; and no root.previous,
\* which would make every later installation refuse to start.
EndsWhole ==
  [][\A p \in Installers : lock = p /\ lock' = NoOne =>
       /\ "committed" \notin flags[p] /\ ~hit =>
            [root |-> root, wrap |-> wrap, mark |-> mark] = start
       /\ status[p] = "ok" =>
            root = <<p>> /\ mark = p /\ wrap = AI!Wrapped(start.wrap, p)
       /\ status[p] = "ok" \/ ~hit => previous = <<>>]_vars

\* The installation is an atomic replacement of root, wrappers and marker,
\* unless it was cut where nothing covers it.
Atomic == AI!Spec

\* The lock is given back, unless its holder was killed or could not roll
\* back.
LockGivenBack ==
  \A p \in Installers :
    lock = p ~> lock # p \/ pc[p] \in {"dead", "stuck"}
=============================================================================
