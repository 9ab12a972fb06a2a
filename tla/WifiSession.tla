----------------------------- MODULE WifiSession -----------------------------
(***************************************************************************)
(* A Wi-Fi session on the device: hold-wifi-session.sh, which owns the     *)
(* runner (the process inside the probe module), network-session.sh, which *)
(* supervises wpa_supplicant and udhcpc, udhcpc's hook wifi-dhcp.sh with   *)
(* the SSH listener it binds, and the Connect-A1625Wifi commands on the    *)
(* host that write the configuration and start a supervisor.               *)
(*                                                                         *)
(* Processes meet in files under /run/a1625-wifi and in signals sent to    *)
(* the pids in them; a pid is the name of its process and is not reused.   *)
(* Each Connect starts at most one supervisor, known by the same name.  A  *)
(* TERM is handled between two commands, also between "&" and the pid      *)
(* file.  Writing a few lines to a file in RAM is taken to succeed; every  *)
(* program and every write to sysfs may fail.  The power-save setting and  *)
(* routes are left out: they are set and put back where address and        *)
(* resolver are.  wpa_supplicant, udhcpc and dropbear are external.        *)
(***************************************************************************)
EXTENDS Integers, FiniteSets

CONSTANTS
  Holders,         \* runs of hold-wifi-session.sh
  Conns,           \* runs of Connect-A1625Wifi, and their supervisors
  Addrs,           \* addresses a lease may carry
  None,
  Scenarios        \* who takes part, and how many events udhcpc has

ASSUME WifiAssumption ==
  /\ None \notin Holders \cup Conns \cup Addrs
  /\ Scenarios \subseteq [who : SUBSET (Holders \cup Conns), leases : Nat]

VARIABLES
  hold, prev,      \* per holder: next step, and its previous_timeout
  runner,          \* per holder, the runner: "none", "up", "gone"
  con,             \* per Connect: next step
  pc, mine,        \* per supervisor: next step, and its $runner
  wpa, dhcp,       \* per supervisor, the state of its children
  termed,          \* supervisors whose udhcpc has a TERM pending
  lsn,             \* per address, the listener bound to it
  f,               \* the files
  leases,          \* events that udhcpc may still have
  serial           \* (history) no Connect has begun while another one ran,
                   \* or while the supervisor it left was not yet locked in

vars == <<hold, prev, runner, con, pc, mine, wpa, dhcp, termed, lsn, f,
          leases, serial>>

holdVars == <<hold, prev, runner>>

supVars == <<pc, mine, wpa>>

dhcpVars == <<dhcp, termed, lsn, leases>>

conVars == <<con, serial>>

HoldPcs == {"off", "lock", "read", "set", "run", "record", "wait", "clean",
            "restore", "unlock", "end", "dead"}

ConPcs == {"off", "running", "locked", "truncate", "conf", "start", "test",
           "poll", "end"}

Trapped == {"power", "wpa", "wpapid", "assoc", "dhcp", "dhcppid", "watch"}

Cleaning == {"kill", "wait", "net", "unlock"}

SupPcs == {"off", "guard", "lock", "save", "end", "dead"} \cup Trapped \cup Cleaning

Gone == {"off", "end", "dead"}

\* udhcpc and its hook, which holds the address of the lease; "failed": the
\* last run of the hook has failed, which udhcpc ignores.
DhcpStates ==
  {<<s>> : s \in {"none", "idle", "failed", "deconfig", "gone"}}
    \cup ({"address", "listen", "publish"} \X Addrs)

Files ==
  [session : Holders \cup {None}, timeout : {"found", "one"},
   runnerpid : Holders \cup {None}, netlock : Conns \cup {None},
   netpid : Conns \cup {None}, wpapid : Conns \cup {None},
   dhcppid : Conns \cup {None}, droppid : Addrs \cup {None},
   backup : {"none", "found", "lease"}, resolv : {"found", "lease"},
   address : Addrs \cup {None}, listen : Addrs \cup {None},
   conf : Conns \cup {None}]

TypeOK ==
  /\ hold \in [Holders -> HoldPcs]
  /\ prev \in [Holders -> {"found", "one"}]
  /\ runner \in [Holders -> {"none", "up", "gone"}]
  /\ con \in [Conns -> ConPcs]
  /\ pc \in [Conns -> SupPcs]
  /\ mine \in [Conns -> Holders \cup {None}]
  /\ wpa \in [Conns -> {"none", "up", "termed", "gone"}]
  /\ dhcp \in [Conns -> DhcpStates]
  /\ termed \subseteq Conns
  /\ lsn \in [Addrs -> {"none", "new", "filed"}]
  /\ f \in Files
  /\ \E s \in Scenarios : leases \in 0 .. s.leases
  /\ serial \in BOOLEAN

\* Those that do not take part never start.
Init ==
  /\ \E s \in Scenarios :
       /\ hold = [h \in Holders |-> IF h \in s.who THEN "off" ELSE "end"]
       /\ con = [c \in Conns |-> IF c \in s.who THEN "off" ELSE "end"]
       /\ leases = s.leases
  /\ prev = [h \in Holders |-> "found"]
  /\ runner = [h \in Holders |-> "none"]
  /\ pc = [n \in Conns |-> "off"]
  /\ mine = [n \in Conns |-> None]
  /\ wpa = [n \in Conns |-> "none"]
  /\ dhcp = [n \in Conns |-> <<"none">>]
  /\ termed = {}
  /\ lsn = [a \in Addrs |-> "none"]
  /\ f = [session |-> None, timeout |-> "found", runnerpid |-> None,
          netlock |-> None, netpid |-> None, wpapid |-> None,
          dhcppid |-> None, droppid |-> None, backup |-> "none",
          resolv |-> "found", address |-> None, listen |-> None,
          conf |-> None]
  /\ serial = TRUE

-----------------------------------------------------------------------------
(* Signals.                                                                *)

\* Processes that a TERM kills or makes exit: kill -0 says whether it is there.
RunnerAlive(h) == h # None /\ runner[h] = "up"

SupAlive(n) == n # None /\ pc[n] \notin Gone

WpaAlive(n) == wpa[n] \in {"up", "termed"}

DhcpAlive(n) == dhcp[n] \notin {<<"none">>, <<"gone">>}

\* A supervisor's answer to a TERM: its trap leads to cleanup, which has
\* reset the trap, so that a second TERM kills the shell.
SupTermed(n) ==
  CASE pc[n] \in Trapped -> "kill"
    [] pc[n] \in Cleaning -> "dead"
    [] OTHER -> pc[n]

WpaTermed(n) == IF wpa[n] = "up" THEN [wpa EXCEPT ![n] = "termed"] ELSE wpa

\* A listener ends on TERM and takes its pid file with it.
NoListener(a) == IF a = None THEN lsn ELSE [lsn EXCEPT ![a] = "none"]

-----------------------------------------------------------------------------
(* hold-wifi-session.sh.                                                   *)

HoldGoto(h, from, to) == hold[h] = from /\ hold' = [hold EXCEPT ![h] = to]

HoldStart(h) ==
  /\ HoldGoto(h, "off", "lock")
  /\ UNCHANGED <<prev, runner, f, conVars, supVars, dhcpVars>>

HoldMkdir(h) ==
  /\ \/ /\ f.session = None
        /\ HoldGoto(h, "lock", "read")
        /\ f' = [f EXCEPT !.session = h]
     \/ f.session # None /\ HoldGoto(h, "lock", "end") /\ UNCHANGED f
  /\ UNCHANGED <<prev, runner, conVars, supVars, dhcpVars>>

\* Nothing is trapped yet: a failure leaves the lock.
ReadTimeout(h) ==
  /\ \/ /\ HoldGoto(h, "read", "set")
        /\ prev' = [prev EXCEPT ![h] = f.timeout]
     \/ HoldGoto(h, "read", "dead") /\ UNCHANGED prev
  /\ UNCHANGED <<runner, f, conVars, supVars, dhcpVars>>

\* The EXIT trap and the firmware timeout of one second.
SetTimeout(h) ==
  /\ \/ HoldGoto(h, "set", "run") /\ f' = [f EXCEPT !.timeout = "one"]
     \/ HoldGoto(h, "set", "clean") /\ UNCHANGED f
  /\ UNCHANGED <<prev, runner, conVars, supVars, dhcpVars>>

StartRunner(h) ==
  /\ HoldGoto(h, "run", "record")
  /\ runner' = [runner EXCEPT ![h] = "up"]
  /\ UNCHANGED <<prev, f, conVars, supVars, dhcpVars>>

\* The pid file and the traps for TERM and INT.
RecordRunner(h) ==
  /\ HoldGoto(h, "record", "wait")
  /\ f' = [f EXCEPT !.runnerpid = h]
  /\ UNCHANGED <<prev, runner, conVars, supVars, dhcpVars>>

RunnerEnds(h) ==
  /\ runner[h] = "up"
  /\ runner' = [runner EXCEPT ![h] = "gone"]
  /\ UNCHANGED <<hold, prev, f, conVars, supVars, dhcpVars>>

\* A TERM: with its trap set the holder stops the runner and waits for it;
\* without, or in cleanup, it ends at once.
TermHold(h) ==
  /\ \/ HoldGoto(h, "wait", "clean") /\ runner' = [runner EXCEPT ![h] = "gone"]
     \/ \E s \in {"lock", "read", "set", "run", "record", "clean", "restore", "unlock"} :
          HoldGoto(h, s, "dead") /\ UNCHANGED runner
  /\ UNCHANGED <<prev, f, conVars, supVars, dhcpVars>>

WaitRunner(h) ==
  /\ runner[h] = "gone"
  /\ HoldGoto(h, "wait", "clean")
  /\ UNCHANGED <<prev, runner, f, conVars, supVars, dhcpVars>>

\* cleanup sends TERM to the supervisor and to wpa_supplicant ...
HoldClean(h) ==
  /\ HoldGoto(h, "clean", "restore")
  /\ IF SupAlive(f.netpid)
       THEN pc' = [pc EXCEPT ![f.netpid] = SupTermed(f.netpid)]
       ELSE UNCHANGED pc
  /\ wpa' = IF f.wpapid = None THEN wpa ELSE WpaTermed(f.wpapid)
  /\ UNCHANGED <<prev, runner, mine, f, conVars, dhcpVars>>

\* ... puts the timeout back, and removes runner.pid and the lock, unless
\* the kernel refuses the timeout.
HoldRestore(h) ==
  /\ \/ /\ HoldGoto(h, "restore", "unlock")
        /\ f' = [f EXCEPT !.timeout = prev[h], !.runnerpid = None]
     \/ HoldGoto(h, "restore", "dead") /\ UNCHANGED f
  /\ UNCHANGED <<prev, runner, conVars, supVars, dhcpVars>>

HoldUnlock(h) ==
  /\ HoldGoto(h, "unlock", "end")
  /\ f' = [f EXCEPT !.session = None]
  /\ UNCHANGED <<prev, runner, conVars, supVars, dhcpVars>>

-----------------------------------------------------------------------------
(* network-session.sh.                                                     *)

SupGoto(n, from, to) == pc[n] = from /\ pc' = [pc EXCEPT ![n] = to]

\* The runner must be there and the configuration not empty.
Guards(n) ==
  /\ \/ /\ f.runnerpid # None /\ RunnerAlive(f.runnerpid) /\ f.conf # None
        /\ SupGoto(n, "guard", "lock")
        /\ mine' = [mine EXCEPT ![n] = f.runnerpid]
     \/ SupGoto(n, "guard", "end") /\ UNCHANGED mine
  /\ UNCHANGED <<wpa, f, holdVars, conVars, dhcpVars>>

\* Mutated: mkdir -p, which does not fail on an existing lock.
NetMkdirShared(n) ==
  /\ SupGoto(n, "lock", "save")
  /\ f' = [f EXCEPT !.netlock = n]
  /\ UNCHANGED <<mine, wpa, holdVars, conVars, dhcpVars>>

NetMkdir(n) ==
  /\ \/ /\ f.netlock = None
        /\ SupGoto(n, "lock", "save")
        /\ f' = [f EXCEPT !.netlock = n]
     \/ f.netlock # None /\ SupGoto(n, "lock", "end") /\ UNCHANGED f
  /\ UNCHANGED <<mine, wpa, holdVars, conVars, dhcpVars>>

\* Mutated: the resolver is not saved.
SaveNothing(n) ==
  /\ SupGoto(n, "save", "power")
  /\ f' = [f EXCEPT !.netpid = n]
  /\ UNCHANGED <<mine, wpa, holdVars, conVars, dhcpVars>>

\* The resolver is saved, the traps set, the pid written; before the traps
\* a failure leaves the lock.
SaveNet(n) ==
  /\ \/ /\ SupGoto(n, "save", "power")
        /\ f' = [f EXCEPT !.backup = f.resolv, !.netpid = n]
     \/ SupGoto(n, "save", "dead") /\ UNCHANGED f
  /\ UNCHANGED <<mine, wpa, holdVars, conVars, dhcpVars>>

PowerSave(n) ==
  /\ SupGoto(n, "power", "wpa") \/ SupGoto(n, "power", "kill")
  /\ UNCHANGED <<mine, wpa, f, holdVars, conVars, dhcpVars>>

StartWpa(n) ==
  /\ SupGoto(n, "wpa", "wpapid")
  /\ wpa' = [wpa EXCEPT ![n] = "up"]
  /\ UNCHANGED <<mine, f, holdVars, conVars, dhcpVars>>

RecordWpa(n) ==
  /\ SupGoto(n, "wpapid", "assoc")
  /\ f' = [f EXCEPT !.wpapid = n]
  /\ UNCHANGED <<mine, wpa, holdVars, conVars, dhcpVars>>

\* Up to 60 turns.  The runner's death does not end the loop: "kill -0 A &&
\* kill -0 B" is exempt from set -e unless its last command fails.
Associate(n) ==
  /\ \/ WpaAlive(n) /\ SupGoto(n, "assoc", "dhcp")
     \/ SupGoto(n, "assoc", "kill")
  /\ UNCHANGED <<mine, wpa, f, holdVars, conVars, dhcpVars>>

\* udhcpc calls its hook with deconfig first.
StartDhcp(n) ==
  /\ SupGoto(n, "dhcp", "dhcppid")
  /\ dhcp' = [dhcp EXCEPT ![n] = <<"deconfig">>]
  /\ UNCHANGED <<mine, wpa, termed, lsn, leases, f, holdVars, conVars>>

RecordDhcp(n) ==
  /\ SupGoto(n, "dhcppid", "watch")
  /\ f' = [f EXCEPT !.dhcppid = n]
  /\ UNCHANGED <<mine, wpa, holdVars, conVars, dhcpVars>>

\* Mutated: the runner is not watched.
WatchChildren(n) ==
  /\ ~(WpaAlive(n) /\ DhcpAlive(n))
  /\ SupGoto(n, "watch", "kill")
  /\ UNCHANGED <<mine, wpa, f, holdVars, conVars, dhcpVars>>

Watch(n) ==
  /\ ~(RunnerAlive(mine[n]) /\ WpaAlive(n) /\ DhcpAlive(n))
  /\ SupGoto(n, "watch", "kill")
  /\ UNCHANGED <<mine, wpa, f, holdVars, conVars, dhcpVars>>

\* The user stops networking with the pid in network.pid, once.
TermNetwork ==
  /\ SupAlive(f.netpid) /\ pc[f.netpid] \in Trapped
  /\ pc' = [pc EXCEPT ![f.netpid] = SupTermed(f.netpid)]
  /\ UNCHANGED <<mine, wpa, f, holdVars, conVars, dhcpVars>>

\* cleanup: udhcpc, the listener and wpa_supplicant, by their pid files.
CleanKill(n) ==
  /\ SupGoto(n, "kill", "wait")
  /\ termed' = IF f.dhcppid = None THEN termed ELSE termed \cup {f.dhcppid}
  /\ lsn' = NoListener(f.droppid)
  /\ f' = [f EXCEPT !.droppid = None]
  /\ wpa' = IF f.wpapid = None THEN wpa ELSE WpaTermed(f.wpapid)
  /\ UNCHANGED <<mine, dhcp, leases, holdVars, conVars>>

\* Mutated: the children are not waited for.
CleanNoWait(n) ==
  /\ SupGoto(n, "wait", "net")
  /\ UNCHANGED <<mine, wpa, f, holdVars, conVars, dhcpVars>>

CleanWait(n) ==
  /\ ~WpaAlive(n) /\ ~DhcpAlive(n)
  /\ SupGoto(n, "wait", "net")
  /\ UNCHANGED <<mine, wpa, f, holdVars, conVars, dhcpVars>>

\* Address and resolver go back, then the files go.
CleanNet(n) ==
  /\ SupGoto(n, "net", "unlock")
  /\ f' = [f EXCEPT !.address = None, !.resolv = f.backup,
                    !.dhcppid = None, !.droppid = None, !.wpapid = None,
                    !.netpid = None, !.listen = None]
  /\ UNCHANGED <<mine, wpa, holdVars, conVars, dhcpVars>>

CleanUnlock(n) ==
  /\ SupGoto(n, "unlock", "end")
  /\ f' = [f EXCEPT !.netlock = None]
  /\ UNCHANGED <<mine, wpa, holdVars, conVars, dhcpVars>>

-----------------------------------------------------------------------------
(* wpa_supplicant, udhcpc with wifi-dhcp.sh, and dropbear.                 *)

WpaEnds(n) ==
  /\ WpaAlive(n)
  /\ wpa' = [wpa EXCEPT ![n] = "gone"]
  /\ UNCHANGED <<pc, mine, f, holdVars, conVars, dhcpVars>>

HookRuns(n) == dhcp[n] \notin {<<"none">>, <<"idle">>, <<"failed">>, <<"gone">>}

\* A lease is obtained, renewed or lost, long enough after the last event for
\* a listener to have written its pid file.
LeaseEvent(n) ==
  /\ \A a \in Addrs : lsn[a] # "new"
  /\ DhcpAlive(n) /\ ~HookRuns(n) /\ n \notin termed /\ leases > 0
  /\ \E next \in {<<"deconfig">>} \cup ({"address"} \X Addrs) :
       dhcp' = [dhcp EXCEPT ![n] = next]
  /\ leases' = leases - 1
  /\ UNCHANGED <<termed, lsn, f, holdVars, conVars, supVars>>

\* A TERM waits for the hook; udhcpc gives up without a lease.
DhcpEnds(n) ==
  /\ DhcpAlive(n) /\ ~HookRuns(n)
  /\ dhcp' = [dhcp EXCEPT ![n] = <<"gone">>]
  /\ UNCHANGED <<termed, lsn, leases, f, holdVars, conVars, supVars>>

HookTo(n, state) == dhcp' = [dhcp EXCEPT ![n] = state]

\* ifconfig may fail, with the listener already gone.
HookDeconfig(n) ==
  /\ dhcp[n] = <<"deconfig">>
  /\ lsn' = NoListener(f.droppid)
  /\ LET quiet == [f EXCEPT !.droppid = None, !.listen = None]
     IN \/ /\ HookTo(n, <<"idle">>)
           /\ f' = [quiet EXCEPT !.address = None,
                      !.resolv = IF f.backup = "none" THEN @ ELSE f.backup]
        \/ HookTo(n, <<"failed">>) /\ f' = quiet
  /\ UNCHANGED <<termed, leases, holdVars, conVars, supVars>>

\* Address, route and resolver; ifconfig or ip route may fail.
HookAddress(n) ==
  /\ dhcp[n][1] = "address"
  /\ LET set == [f EXCEPT !.address = dhcp[n][2]]
     IN \/ /\ HookTo(n, <<"listen", dhcp[n][2]>>)
           /\ f' = [set EXCEPT !.resolv = "lease"]
        \/ HookTo(n, <<"failed">>) /\ f' \in {f, set}
  /\ UNCHANGED <<termed, lsn, leases, holdVars, conVars, supVars>>

ListenerAlive == f.droppid # None /\ lsn[f.droppid] # "none"

KeepListener(n, a) ==
  /\ HookTo(n, <<"publish", a>>)
  /\ UNCHANGED <<lsn, f>>

\* The old listener, if it lives, is stopped and dropbear started, which may
\* fail, and fails if the address is taken: the hook then ends with no
\* listener, and listen-address as it was.
NewListener(n, a) ==
  LET cleared == IF ListenerAlive THEN NoListener(f.droppid) ELSE lsn
  IN /\ \/ /\ cleared[a] = "none"
           /\ lsn' = [cleared EXCEPT ![a] = "new"]
           /\ HookTo(n, <<"publish", a>>)
        \/ lsn' = cleared /\ HookTo(n, <<"failed">>)
     /\ f' = IF ListenerAlive THEN [f EXCEPT !.droppid = None] ELSE f

\* Mutated: a live listener is kept although the address has changed.
HookKeepsListener(n) ==
  /\ dhcp[n][1] = "listen"
  /\ IF ListenerAlive THEN KeepListener(n, dhcp[n][2])
                      ELSE NewListener(n, dhcp[n][2])
  /\ UNCHANGED <<termed, leases, holdVars, conVars, supVars>>

\* The listener is kept when it lives and the address is the same.
HookListen(n) ==
  /\ dhcp[n][1] = "listen"
  /\ IF f.listen = dhcp[n][2] /\ ListenerAlive
       THEN KeepListener(n, dhcp[n][2])
       ELSE NewListener(n, dhcp[n][2])
  /\ UNCHANGED <<termed, leases, holdVars, conVars, supVars>>

HookPublish(n) ==
  /\ dhcp[n][1] = "publish"
  /\ HookTo(n, <<"idle">>)
  /\ f' = [f EXCEPT !.listen = dhcp[n][2]]
  /\ UNCHANGED <<termed, lsn, leases, holdVars, conVars, supVars>>

\* dropbear binds, goes to the background, and then writes its pid file.
ListenerFiles(a) ==
  /\ lsn[a] = "new"
  /\ lsn' = [lsn EXCEPT ![a] = "filed"]
  /\ f' = [f EXCEPT !.droppid = a]
  /\ UNCHANGED <<dhcp, termed, leases, holdVars, conVars, supVars>>

-----------------------------------------------------------------------------
(* Connect-A1625Wifi.ps1: every step is an SSH command of its own.         *)

ConGoto(c, from, to) == con[c] = from /\ con' = [con EXCEPT ![c] = to]

ConFails(c) ==
  /\ con[c] \notin {"off", "end"}
  /\ con' = [con EXCEPT ![c] = "end"]
  /\ UNCHANGED <<serial, f, holdVars, supVars, dhcpVars>>

\* The hardware check.
ConBegin(c) ==
  /\ RunnerAlive(f.runnerpid)
  /\ ConGoto(c, "off", "running")
  /\ serial' = (serial /\ \A d \in Conns :
                  con[d] \in {"off", "end"} /\ pc[d] \notin {"guard", "lock"})
  /\ UNCHANGED <<f, holdVars, supVars, dhcpVars>>

\* Is a supervisor alive already?
ConRunning(c) ==
  /\ ConGoto(c, "running", IF SupAlive(f.netpid) THEN "poll" ELSE "locked")
  /\ UNCHANGED <<serial, f, holdVars, supVars, dhcpVars>>

\* Mutated: the lock is not looked at.
ConIgnoresLock(c) ==
  /\ ConGoto(c, "locked", "truncate")
  /\ UNCHANGED <<serial, f, holdVars, supVars, dhcpVars>>

\* "A stale or conflicting Wi-Fi network lock exists."  Runtimes and scripts
\* are staged next.
ConLocked(c) ==
  /\ ConGoto(c, "locked", IF f.netlock # None THEN "end" ELSE "truncate")
  /\ UNCHANGED <<serial, f, holdVars, supVars, dhcpVars>>

\* cat > wpa.conf empties the file and then fills it.
ConTruncate(c) ==
  /\ ConGoto(c, "truncate", "conf")
  /\ f' = [f EXCEPT !.conf = None]
  /\ UNCHANGED <<serial, holdVars, supVars, dhcpVars>>

ConWrite(c) ==
  /\ ConGoto(c, "conf", "start")
  /\ f' = [f EXCEPT !.conf = c]
  /\ UNCHANGED <<serial, holdVars, supVars, dhcpVars>>

ConStart(c) ==
  /\ ConGoto(c, "start", "test")
  /\ pc' = [pc EXCEPT ![c] = "guard"]
  /\ UNCHANGED <<serial, mine, wpa, f, holdVars, dhcpVars>>

\* A second later network.pid must name a live process; a second is taken
\* to be enough for the supervisor to write it or to give up.
ConTest(c) ==
  /\ pc[c] \notin {"guard", "lock", "save"}
  /\ ConGoto(c, "test", IF SupAlive(f.netpid) THEN "poll" ELSE "end")
  /\ UNCHANGED <<serial, f, holdVars, supVars, dhcpVars>>

\* The published address is read, and an SSH connection to it made.
ConPoll(c) ==
  /\ f.listen # None
  /\ ConGoto(c, "poll", "end")
  /\ UNCHANGED <<serial, f, holdVars, supVars, dhcpVars>>

-----------------------------------------------------------------------------
HoldStep(h) ==
  \/ HoldMkdir(h) \/ ReadTimeout(h) \/ SetTimeout(h) \/ StartRunner(h)
  \/ RecordRunner(h) \/ WaitRunner(h) \/ HoldClean(h) \/ HoldRestore(h)
  \/ HoldUnlock(h)

SupStep(n) ==
  \/ Guards(n) \/ NetMkdir(n) \/ SaveNet(n) \/ PowerSave(n) \/ StartWpa(n)
  \/ RecordWpa(n) \/ Associate(n) \/ StartDhcp(n) \/ RecordDhcp(n) \/ Watch(n)
  \/ CleanKill(n) \/ CleanWait(n) \/ CleanNet(n) \/ CleanUnlock(n)

HookStep(n) ==
  HookDeconfig(n) \/ HookAddress(n) \/ HookListen(n) \/ HookPublish(n)

ConStep(c) ==
  \/ ConBegin(c) \/ ConRunning(c) \/ ConLocked(c) \/ ConTruncate(c)
  \/ ConWrite(c) \/ ConStart(c) \/ ConTest(c) \/ ConPoll(c) \/ ConFails(c)

Next ==
  \/ \E h \in Holders : HoldStart(h) \/ HoldStep(h) \/ TermHold(h) \/ RunnerEnds(h)
  \/ \E n \in Conns : SupStep(n) \/ HookStep(n) \/ ConStep(n)
  \/ \E n \in Conns : WpaEnds(n) \/ LeaseEvent(n) \/ DhcpEnds(n)
  \/ \E a \in Addrs : ListenerFiles(a)
  \/ TermNetwork

Spec == Init /\ [][Next]_vars

\* Shells and hooks run, and children obey a TERM; everything else that may
\* happen need not.
LiveSpec ==
  /\ Spec
  /\ \A h \in Holders : WF_vars(HoldStep(h))
  /\ \A n \in Conns :
       /\ WF_vars(SupStep(n)) /\ WF_vars(HookStep(n))
       /\ WF_vars(wpa[n] = "termed" /\ WpaEnds(n))
       /\ WF_vars(n \in termed /\ DhcpEnds(n))

-----------------------------------------------------------------------------
(* Properties.                                                             *)

Inside(n) == pc[n] \in {"save"} \cup Trapped \cup Cleaning

\* Two Connects, two supervisors: only the one whose mkdir succeeded works,
\* and network.pid, wpa.pid and dhcp.pid name processes of the lock's owner, so
\* that nobody's cleanup signals a process of another supervisor.
OneSupervisor ==
  /\ \A n \in Conns : Inside(n) => f.netlock = n
  /\ {f.netpid, f.wpapid, f.dhcppid} \subseteq {None, f.netlock}

\* Whoever stops the supervisor, and whatever the hook is doing then: when
\* the network lock is free, address and resolver are as they were found; when
\* the session lock is free, so is the firmware timeout, though a second
\* holder may have come and gone meanwhile.
SystemRestored ==
  /\ f.netlock = None => f.resolv = "found" /\ f.address = None
  /\ f.session = None => f.timeout = "found"

\* "If the supervisor is already alive, do not replace its live WPA
\* configuration": Connects one after the other never touch wpa.conf while a
\* supervisor, even a dead one, has the lock.  (Two that overlap may.)
LiveConfKept == [][serial /\ f'.conf # f.conf => f.netlock = None]_vars

\* "Changing addresses rebinds it": while the supervisor watches and the last
\* run of the hook has succeeded, the address that Connect reads is the one
\* the interface has, and a listener is bound to it.  Runs of the hook that
\* failed before, and listeners left over by an earlier session, change
\* nothing in that.
PublishedIsListened ==
  \A n \in Conns :
    pc[n] = "watch" /\ dhcp[n] = <<"idle">> /\ f.listen # None =>
      lsn[f.listen] # "none" /\ f.listen = f.address

\* A child that no pid file names: cleanup does not signal it.
Unnamed(n) ==
  \/ WpaAlive(n) /\ f.wpapid # n
  \/ DhcpAlive(n) /\ f.dhcppid # n

\* "The runner signal ... triggers network cleanup": a supervisor whose
\* runner has gone comes to its end, or waits for a child that it has started
\* and not named, which only a TERM between the two commands leaves behind.
RunnerLossEnds ==
  \A n \in Conns :
    pc[n] \in Trapped /\ ~RunnerAlive(mine[n]) ~>
      pc[n] \in {"end", "dead"} \/ (pc[n] = "wait" /\ Unnamed(n))

\* "Verify that its lock and PID files disappear, child processes exit, and
\* DNS and original default routes are restored"; "the runner signal ...
\* triggers network cleanup": of a supervisor that is being stopped, or whose
\* runner has gone, neither lock, pid file, child nor listener stays, and
\* the resolver is put back.
StopIsComplete ==
  \A n \in Conns :
    pc[n] \in Cleaning \/ (pc[n] \in Trapped /\ ~RunnerAlive(mine[n])) ~>
      /\ n \notin {f.netlock, f.netpid, f.wpapid, f.dhcppid}
      /\ ~WpaAlive(n) /\ ~DhcpAlive(n)
      /\ \A a \in Addrs : lsn[a] = "none"
      /\ f.resolv = "found"
=============================================================================
