---------------------------- MODULE WifiSessionProofs ----------------------------
(***************************************************************************)
(* Any number of holders, Connects, addresses and events.  Two locks carry *)
(* the argument: what only the owner of the session lock, or of the        *)
(* network lock, may do, and in which order.  Children outlive their       *)
(* supervisor, but the lock then stays taken.                              *)
(***************************************************************************)
EXTENDS WifiSession, TLAPS

\* The session lock and the firmware timeout.
HoldInv ==
  /\ \A h \in Holders :
       /\ prev[h] = "found"
       /\ hold[h] \in {"read", "set", "run", "record", "wait", "clean", "restore",
                       "unlock"} => f.session = h
       /\ hold[h] \in {"read", "set", "unlock"} => f.timeout = "found"
  /\ f.session = None => f.timeout = "found"

\* A Connect has no supervisor before it starts one.
ConInv ==
  \A c \in Conns :
    con[c] \in {"off", "running", "locked", "truncate", "conf", "start"} => pc[c] = "off"

\* The network lock, the pid files and udhcpc.
SupInv ==
  /\ OneSupervisor
  /\ \A n \in Conns :
       /\ pc[n] = "unlock" => f.netpid = None /\ f.wpapid = None /\ f.dhcppid = None
       /\ DhcpAlive(n) => /\ f.netlock = n
                          /\ pc[n] \in {"dhcppid", "watch", "kill", "wait", "dead"}

\* Address and resolver.
NetInv ==
  /\ f.netlock = None => f.resolv = "found" /\ f.address = None
  /\ \A n \in Conns :
       /\ pc[n] \in {"save", "unlock"} => f.resolv = "found" /\ f.address = None
       /\ pc[n] \in Trapped \cup Cleaning => f.backup = "found"

\* Connects one after the other.
SerialInv ==
  serial =>
    \A c \in Conns :
      /\ con[c] \notin {"off", "end"} =>
           \A d \in Conns : d # c => con[d] \in {"off", "end"}
      /\ con[c] \in {"running", "locked", "truncate", "conf", "start"} =>
           \A d \in Conns : pc[d] \notin {"guard", "lock"}
      /\ con[c] \in {"truncate", "conf"} => f.netlock = None

\* Listeners: dropbear.pid names one that has filed, one at a time has not
\* filed yet, and none is left when a lease comes.
ListenInv ==
  /\ f.droppid # None => lsn[f.droppid] = "filed"
  /\ \A a \in Addrs : lsn[a] = "new" =>
       f.droppid = None /\ \A b \in Addrs : lsn[b] = "new" => b = a
  /\ \A n \in Conns : dhcp[n][1] \in {"address", "listen"} =>
       \A a \in Addrs : lsn[a] # "new"

\* No listener is, or will be, named in dropbear.pid but the one at a.
Only(a) ==
  /\ f.droppid \in {None, a}
  /\ \A b \in Addrs : lsn[b] = "new" => b = a

\* From the start of a listener to the next run of the hook: the listener
\* that the pid file names is the one at the published address, so that the
\* hook, which compares the one and tests the other, keeps the right one.
PublishInv ==
  \A n \in Conns :
    pc[n] \in {"dhcppid", "watch"} =>
      /\ dhcp[n][1] \in {"listen", "publish"} => f.address = dhcp[n][2]
      /\ dhcp[n][1] = "publish" =>
           lsn[dhcp[n][2]] # "none" /\ Only(dhcp[n][2])
      /\ dhcp[n][1] \in {"idle", "failed", "address", "listen"} /\ f.listen # None =>
           Only(f.listen)
      /\ dhcp[n][1] = "idle" /\ f.listen # None =>
           lsn[f.listen] # "none" /\ f.listen = f.address

WifiInv ==
  /\ TypeOK /\ HoldInv /\ ConInv /\ SupInv /\ NetInv /\ SerialInv
  /\ ListenInv /\ PublishInv

-----------------------------------------------------------------------------
\* A record's other fields stay when one is given a value.
LEMMA Shapes ==
  ASSUME TypeOK
  PROVE  /\ f = [session |-> f.session, timeout |-> f.timeout, runnerpid |-> f.runnerpid,
                 netlock |-> f.netlock, netpid |-> f.netpid, wpapid |-> f.wpapid,
                 dhcppid |-> f.dhcppid, droppid |-> f.droppid, backup |-> f.backup,
                 resolv |-> f.resolv, address |-> f.address, listen |-> f.listen,
                 conf |-> f.conf]
         /\ pc = [n \in Conns |-> pc[n]] /\ dhcp = [n \in Conns |-> dhcp[n]]
         /\ con = [n \in Conns |-> con[n]]
         /\ hold = [h \in Holders |-> hold[h]] /\ lsn = [a \in Addrs |-> lsn[a]]
BY DEF TypeOK, Files

LEMMA DhcpShapes ==
  /\ \A s \in {"none", "idle", "failed", "deconfig", "gone"} : <<s>> \in DhcpStates
  /\ \A s \in {"address", "listen", "publish"}, a \in Addrs : <<s, a>> \in DhcpStates
  /\ \A d \in DhcpStates :
       \/ d = <<d[1]>> /\ d[1] \in {"none", "idle", "failed", "deconfig", "gone"}
       \/ d = <<d[1], d[2]>> /\ d[1] \in {"address", "listen", "publish"} /\ d[2] \in Addrs
BY DEF DhcpStates

LEMMA SavedFiles ==
  ASSUME TypeOK, NEW n \in Conns
  PROVE  [f EXCEPT !.backup = f.resolv, !.netpid = n] \in Files
<1>1. f.resolv \in {"none", "found", "lease"}
  BY DEF TypeOK, Files
<1> QED
  BY <1>1, Shapes DEF TypeOK, Files

\* What the steps that may fail do to each file.
LEMMA RestoreFields ==
  ASSUME TypeOK, NEW h \in Holders, HoldRestore(h)
  PROVE  /\ f' \in Files
         /\ f'.session = f.session /\ f'.netlock = f.netlock /\ f'.netpid = f.netpid
         /\ f'.wpapid = f.wpapid /\ f'.dhcppid = f.dhcppid /\ f'.droppid = f.droppid
         /\ f'.backup = f.backup /\ f'.resolv = f.resolv /\ f'.address = f.address
         /\ f'.listen = f.listen /\ f'.conf = f.conf
         /\ \/ /\ HoldGoto(h, "restore", "unlock")
               /\ f'.timeout = prev[h] /\ f'.runnerpid = None
            \/ /\ HoldGoto(h, "restore", "dead")
               /\ f'.timeout = f.timeout /\ f'.runnerpid = f.runnerpid
         /\ UNCHANGED <<prev, runner, conVars, supVars, dhcpVars>>
<1>1. CASE /\ HoldGoto(h, "restore", "unlock")
           /\ f' = [f EXCEPT !.timeout = prev[h], !.runnerpid = None]
  BY <1>1, Shapes DEF HoldRestore, TypeOK, Files
<1>2. CASE HoldGoto(h, "restore", "dead") /\ UNCHANGED f
  BY <1>2 DEF HoldRestore, TypeOK
<1> QED
  BY <1>1, <1>2 DEF HoldRestore

LEMMA DeconfigFields ==
  ASSUME TypeOK, NEW n \in Conns, HookDeconfig(n)
  PROVE  /\ f' \in Files
         /\ f'.session = f.session /\ f'.timeout = f.timeout /\ f'.runnerpid = f.runnerpid
         /\ f'.netlock = f.netlock /\ f'.netpid = f.netpid /\ f'.wpapid = f.wpapid
         /\ f'.dhcppid = f.dhcppid /\ f'.backup = f.backup /\ f'.conf = f.conf
         /\ f'.droppid = None /\ f'.listen = None
         /\ \/ /\ dhcp' = [dhcp EXCEPT ![n] = <<"idle">>] /\ f'.address = None
               /\ f'.resolv = IF f.backup = "none" THEN f.resolv ELSE f.backup
            \/ /\ dhcp' = [dhcp EXCEPT ![n] = <<"failed">>]
               /\ f'.address = f.address /\ f'.resolv = f.resolv
         /\ dhcp[n] = <<"deconfig">> /\ lsn' = NoListener(f.droppid)
         /\ UNCHANGED <<termed, leases, holdVars, conVars, supVars>>
<1> DEFINE quiet == [f EXCEPT !.droppid = None, !.listen = None]
<1>0. /\ dhcp[n] = <<"deconfig">> /\ lsn' = NoListener(f.droppid)
      /\ UNCHANGED <<termed, leases, holdVars, conVars, supVars>>
  BY DEF HookDeconfig
<1>1. CASE /\ dhcp' = [dhcp EXCEPT ![n] = <<"idle">>]
           /\ f' = [quiet EXCEPT !.address = None,
                      !.resolv = IF f.backup = "none" THEN @ ELSE f.backup]
  <2>1. (IF f.backup = "none" THEN f.resolv ELSE f.backup) \in {"found", "lease"}
    BY DEF TypeOK, Files
  <2>2. f' = [f EXCEPT !.droppid = None, !.listen = None, !.address = None,
                       !.resolv = IF f.backup = "none" THEN f.resolv ELSE f.backup]
    BY <1>1, Shapes
  <2>3. dhcp' = [dhcp EXCEPT ![n] = <<"idle">>]
    BY <1>1
  <2>4. f' \in Files
    BY <2>1, <2>2 DEF TypeOK, Files
  <2> QED
    BY <1>0, <2>2, <2>3, <2>4 DEF TypeOK, Files
<1>2. CASE dhcp' = [dhcp EXCEPT ![n] = <<"failed">>] /\ f' = quiet
  BY <1>0, <1>2, Shapes DEF TypeOK, Files
<1> QED
  BY <1>1, <1>2 DEF HookDeconfig, HookTo

LEMMA AddressFields ==
  ASSUME TypeOK, NEW n \in Conns, HookAddress(n)
  PROVE  /\ f' \in Files
         /\ f'.session = f.session /\ f'.timeout = f.timeout /\ f'.runnerpid = f.runnerpid
         /\ f'.netlock = f.netlock /\ f'.netpid = f.netpid /\ f'.wpapid = f.wpapid
         /\ f'.dhcppid = f.dhcppid /\ f'.droppid = f.droppid /\ f'.backup = f.backup
         /\ f'.listen = f.listen /\ f'.conf = f.conf
         /\ dhcp[n][1] = "address" /\ dhcp[n][2] \in Addrs
         /\ \/ /\ dhcp' = [dhcp EXCEPT ![n] = <<"listen", dhcp[n][2]>>]
               /\ f'.address = dhcp[n][2] /\ f'.resolv = "lease"
            \/ /\ dhcp' = [dhcp EXCEPT ![n] = <<"failed">>]
               /\ f'.address \in {f.address, dhcp[n][2]} /\ f'.resolv = f.resolv
         /\ UNCHANGED <<termed, lsn, leases, holdVars, conVars, supVars>>
<1> DEFINE set == [f EXCEPT !.address = dhcp[n][2]]
<1>0. /\ dhcp[n][1] = "address" /\ dhcp[n][2] \in Addrs
      /\ UNCHANGED <<termed, lsn, leases, holdVars, conVars, supVars>>
  BY DhcpShapes DEF HookAddress, TypeOK
<1>1. CASE /\ dhcp' = [dhcp EXCEPT ![n] = <<"listen", dhcp[n][2]>>]
           /\ f' = [set EXCEPT !.resolv = "lease"]
  <2>1. f' = [f EXCEPT !.address = dhcp[n][2], !.resolv = "lease"]
    BY <1>1, Shapes
  <2>2. dhcp' = [dhcp EXCEPT ![n] = <<"listen", dhcp[n][2]>>]
    BY <1>1
  <2>3. f' \in Files
    BY <1>0, <2>1 DEF TypeOK, Files
  <2> QED
    BY <1>0, <2>1, <2>2, <2>3 DEF TypeOK, Files
<1>2. CASE dhcp' = [dhcp EXCEPT ![n] = <<"failed">>] /\ f' = set
  BY <1>0, <1>2, Shapes DEF TypeOK, Files
<1>3. CASE dhcp' = [dhcp EXCEPT ![n] = <<"failed">>] /\ f' = f
  BY <1>0, <1>3 DEF TypeOK
<1> QED
  BY <1>1, <1>2, <1>3 DEF HookAddress, HookTo

LEMMA TypeStep ==
  ASSUME TypeOK, NetInv, [Next]_vars
  PROVE  TypeOK'
<1> USE WifiAssumption DEF TypeOK, Files, HoldPcs, ConPcs, SupPcs, Trapped,
      Cleaning, Gone, holdVars, supVars, dhcpVars, conVars
<1>1. ASSUME NEW h \in Holders, HoldStart(h)
     PROVE  TypeOK'
  BY <1>1 DEF HoldStart, HoldGoto
<1>2. ASSUME NEW h \in Holders, HoldMkdir(h)
     PROVE  TypeOK'
  <2>1. CASE f.session = None
    BY <1>2, <2>1, WifiAssumption
      DEF HoldMkdir, HoldGoto, TypeOK, HoldPcs, ConPcs, SupPcs, Trapped,
          Cleaning, Gone, Files, holdVars, supVars, dhcpVars, conVars
  <2>2. CASE f.session # None
    BY <1>2, <2>2, WifiAssumption
      DEF HoldMkdir, HoldGoto, TypeOK, HoldPcs, ConPcs, SupPcs, Trapped,
          Cleaning, Gone, Files, holdVars, supVars, dhcpVars, conVars
  <2> QED
    BY <1>2, <2>1, <2>2
      DEF HoldMkdir, HoldGoto
<1>3. ASSUME NEW h \in Holders, ReadTimeout(h)
     PROVE  TypeOK'
  BY <1>3 DEF ReadTimeout, HoldGoto
<1>4. ASSUME NEW h \in Holders, SetTimeout(h)
     PROVE  TypeOK'
  BY <1>4 DEF SetTimeout, HoldGoto
<1>5. ASSUME NEW h \in Holders, StartRunner(h)
     PROVE  TypeOK'
  BY <1>5 DEF StartRunner, HoldGoto
<1>6. ASSUME NEW h \in Holders, RecordRunner(h)
     PROVE  TypeOK'
  BY <1>6 DEF RecordRunner, HoldGoto
<1>7. ASSUME NEW h \in Holders, WaitRunner(h)
     PROVE  TypeOK'
  BY <1>7 DEF WaitRunner, HoldGoto
<1>8. ASSUME NEW h \in Holders, HoldClean(h)
     PROVE  TypeOK'
  BY <1>8 DEF HoldClean, HoldGoto, SupAlive, SupTermed, WpaTermed
<1>9. ASSUME NEW h \in Holders, HoldRestore(h)
     PROVE  TypeOK'
  BY <1>9, RestoreFields DEF HoldGoto
<1>10. ASSUME NEW h \in Holders, HoldUnlock(h)
     PROVE  TypeOK'
  BY <1>10 DEF HoldUnlock, HoldGoto
<1>11. ASSUME NEW h \in Holders, TermHold(h)
     PROVE  TypeOK'
  BY <1>11 DEF TermHold, HoldGoto
<1>12. ASSUME NEW h \in Holders, RunnerEnds(h)
     PROVE  TypeOK'
  BY <1>12 DEF RunnerEnds
<1>13. ASSUME NEW n \in Conns, NetMkdir(n)
     PROVE  TypeOK'
  <2>1. pc' \in [Conns -> SupPcs]
    BY <1>13 DEF NetMkdir, SupGoto, TypeOK, SupPcs, Trapped, Cleaning
  <2>2. f' \in Files
    BY <1>13, Shapes DEF NetMkdir, TypeOK, Files
  <2> QED
    BY <1>13, <2>1, <2>2
       DEF NetMkdir, TypeOK, holdVars, supVars, dhcpVars, conVars
<1>14. ASSUME NEW n \in Conns, SaveNet(n)
     PROVE  TypeOK'
  <2> HIDE DEF TypeOK, Files
  <2>1. pc' \in [Conns -> SupPcs]
    BY <1>14 DEF SaveNet, SupGoto, TypeOK, SupPcs, Trapped, Cleaning
  <2>2. f' = f \/ f' = [f EXCEPT !.backup = f.resolv, !.netpid = n]
    BY <1>14 DEF SaveNet
  <2>3. f \in Files
    BY <1>14 DEF TypeOK
  <2>4. [f EXCEPT !.backup = f.resolv, !.netpid = n] \in Files
    BY <1>14, SavedFiles
  <2>5. f' \in Files
    BY <1>14, <2>2, <2>3, <2>4
  <2> QED
    BY <1>14, <2>1, <2>2, <2>3, <2>4, <2>5
       DEF SaveNet, TypeOK, holdVars, supVars, dhcpVars, conVars
<1>15. ASSUME NEW n \in Conns, Associate(n)
     PROVE  TypeOK'
  <2>1. pc' \in [Conns -> SupPcs]
    BY <1>15 DEF Associate, SupGoto, TypeOK, SupPcs, Trapped, Cleaning
  <2> QED
    BY <1>15, <2>1
       DEF Associate, TypeOK, holdVars, supVars, dhcpVars, conVars
<1>16. ASSUME NEW n \in Conns, StartDhcp(n)
     PROVE  TypeOK'
  <2>1. dhcp' \in [Conns -> DhcpStates]
    BY <1>16, DhcpShapes DEF StartDhcp, TypeOK
  <2> QED
    BY <1>16, <2>1
       DEF StartDhcp, SupGoto, TypeOK, HoldPcs, ConPcs, SupPcs, Trapped,
           Cleaning, Gone, holdVars, supVars, dhcpVars, conVars
<1>17. ASSUME NEW n \in Conns, CleanNet(n)
     PROVE  TypeOK'
  <2>1. pc' \in [Conns -> SupPcs]
    BY <1>17 DEF CleanNet, SupGoto, TypeOK, SupPcs, Trapped, Cleaning
  <2>2. f.backup = "found"
    BY <1>17 DEF CleanNet, SupGoto, NetInv, Cleaning
  <2>3. f' \in Files
    BY <1>17, Shapes, <2>2 DEF CleanNet, TypeOK, Files
  <2> QED
    BY <1>17, <2>1, <2>2, <2>3
       DEF CleanNet, TypeOK, holdVars, supVars, dhcpVars, conVars
<1>18. ASSUME NEW n \in Conns,
            Guards(n) \/ PowerSave(n) \/ StartWpa(n) \/ RecordWpa(n) \/
       RecordDhcp(n) \/ Watch(n) \/ CleanKill(n) \/ CleanWait(n) \/
       CleanUnlock(n)
     PROVE  TypeOK'
  BY <1>18 DEF Guards, PowerSave, StartWpa, RecordWpa, RecordDhcp, Watch,
     CleanKill, CleanWait, CleanUnlock, SupGoto, NoListener, WpaTermed
<1>19. ASSUME NEW n \in Conns, HookDeconfig(n)
     PROVE  TypeOK'
  <2>1. dhcp' \in [Conns -> DhcpStates]
    BY <1>19, DhcpShapes DEF HookDeconfig, HookTo, TypeOK
  <2>2. f' \in Files
    BY <1>19, DeconfigFields
  <2>3. lsn' \in [Addrs -> {"none", "new", "filed"}]
    BY <1>19 DEF HookDeconfig, HookTo, NoListener, TypeOK, Files
  <2> QED
    BY <1>19, <2>1, <2>2, <2>3
       DEF HookDeconfig, TypeOK, holdVars, supVars, dhcpVars, conVars
<1>20. ASSUME NEW n \in Conns, HookAddress(n)
     PROVE  TypeOK'
  <2>1. dhcp[n][2] \in Addrs
    BY <1>20, DhcpShapes DEF HookAddress, TypeOK
  <2>2. dhcp' \in [Conns -> DhcpStates]
    BY <1>20, DhcpShapes, <2>1 DEF HookAddress, HookTo, TypeOK
  <2>3. f' \in Files
    BY <1>20, AddressFields
  <2> QED
    BY <1>20, <2>1, <2>2, <2>3
       DEF HookAddress, TypeOK, holdVars, supVars, dhcpVars, conVars
<1>21. ASSUME NEW n \in Conns, HookListen(n)
     PROVE  TypeOK'
  <2>1. dhcp[n][2] \in Addrs
    BY <1>21, DhcpShapes DEF HookListen, TypeOK
  <2>2. dhcp' \in [Conns -> DhcpStates]
    BY <1>21, DhcpShapes, <2>1 DEF HookListen, KeepListener, NewListener, HookTo,
       TypeOK
  <2>3. f' \in Files
    BY <1>21, Shapes, <2>1 DEF HookListen, KeepListener, NewListener, TypeOK, Files
  <2>4. lsn' \in [Addrs -> {"none", "new", "filed"}]
    BY <1>21 DEF HookListen, KeepListener, NewListener, HookTo, NoListener,
     ListenerAlive, TypeOK, Files
  <2> QED
    BY <1>21, <2>1, <2>2, <2>3, <2>4
       DEF HookListen, TypeOK, holdVars, supVars, dhcpVars, conVars
<1>22. ASSUME NEW n \in Conns, HookPublish(n)
     PROVE  TypeOK'
  <2>1. dhcp[n][2] \in Addrs
    BY <1>22, DhcpShapes DEF HookPublish, TypeOK
  <2>2. dhcp' \in [Conns -> DhcpStates]
    BY <1>22, DhcpShapes, <2>1 DEF HookPublish, HookTo, TypeOK
  <2>3. f' \in Files
    BY <1>22, Shapes, <2>1 DEF HookPublish, TypeOK, Files
  <2> QED
    BY <1>22, <2>1, <2>2, <2>3
       DEF HookPublish, TypeOK, holdVars, supVars, dhcpVars, conVars
<1>23. ASSUME NEW n \in Conns, ConBegin(n)
     PROVE  TypeOK'
  BY <1>23 DEF ConBegin, ConGoto
<1>24. ASSUME NEW n \in Conns, ConRunning(n)
     PROVE  TypeOK'
  BY <1>24 DEF ConRunning, ConGoto
<1>25. ASSUME NEW n \in Conns, ConLocked(n)
     PROVE  TypeOK'
  BY <1>25 DEF ConLocked, ConGoto
<1>26. ASSUME NEW n \in Conns, ConTruncate(n)
     PROVE  TypeOK'
  BY <1>26 DEF ConTruncate, ConGoto
<1>27. ASSUME NEW n \in Conns, ConWrite(n)
     PROVE  TypeOK'
  BY <1>27 DEF ConWrite, ConGoto
<1>28. ASSUME NEW n \in Conns, ConStart(n)
     PROVE  TypeOK'
  BY <1>28 DEF ConStart, ConGoto
<1>29. ASSUME NEW n \in Conns, ConTest(n)
     PROVE  TypeOK'
  BY <1>29 DEF ConTest, ConGoto
<1>30. ASSUME NEW n \in Conns, ConPoll(n)
     PROVE  TypeOK'
  BY <1>30 DEF ConPoll, ConGoto
<1>31. ASSUME NEW n \in Conns, ConFails(n)
     PROVE  TypeOK'
  BY <1>31 DEF ConFails
<1>32. ASSUME NEW n \in Conns, LeaseEvent(n)
     PROVE  TypeOK'
  <2>1. dhcp' \in [Conns -> DhcpStates]
    BY <1>32, DhcpShapes DEF LeaseEvent, TypeOK
  <2>2. \E s \in Scenarios : leases' \in 0 .. s.leases
    BY <1>32, WifiAssumption DEF LeaseEvent, TypeOK
  <2> QED
    BY <1>32, <2>1, <2>2
       DEF LeaseEvent, TypeOK, holdVars, supVars, dhcpVars, conVars
<1>33. ASSUME NEW n \in Conns, DhcpEnds(n)
     PROVE  TypeOK'
  <2>1. dhcp' \in [Conns -> DhcpStates]
    BY <1>33, DhcpShapes DEF DhcpEnds, TypeOK
  <2> QED
    BY <1>33, <2>1
       DEF DhcpEnds, TypeOK, HoldPcs, ConPcs, SupPcs, Trapped, Cleaning, Gone,
           holdVars, supVars, dhcpVars, conVars
<1>34. ASSUME NEW n \in Conns,
            WpaEnds(n)
     PROVE  TypeOK'
  BY <1>34 DEF WpaEnds
<1>35. ASSUME NEW a \in Addrs, ListenerFiles(a)
     PROVE  TypeOK'
  BY <1>35 DEF ListenerFiles
<1>36. ASSUME TermNetwork
     PROVE  TypeOK'
  BY <1>36 DEF TermNetwork, SupAlive, SupTermed
<1>37. CASE UNCHANGED vars
  BY <1>37 DEF vars
<1> HIDE DEF TypeOK, Files, HoldPcs, ConPcs, SupPcs, Trapped, Cleaning, Gone,
      holdVars, supVars, dhcpVars, conVars
<1> QED
  BY <1>1, <1>2, <1>3, <1>4, <1>5, <1>6, <1>7, <1>8, <1>9, <1>10, <1>11,
     <1>12, <1>13, <1>14, <1>15, <1>16, <1>17, <1>18, <1>19, <1>20, <1>21,
     <1>22, <1>23, <1>24, <1>25, <1>26, <1>27, <1>28, <1>29, <1>30, <1>31,
     <1>32, <1>33, <1>34, <1>35, <1>36, <1>37
     DEF Next, HoldStep, SupStep, HookStep, ConStep

LEMMA SessionStep ==
  ASSUME TypeOK, HoldInv, [Next]_vars
  PROVE  HoldInv'
<1> USE Shapes, WifiAssumption DEF TypeOK, Files, HoldInv, holdVars, supVars,
      dhcpVars, conVars
<1>1. ASSUME NEW h \in Holders, HoldStart(h)
     PROVE  HoldInv'
  BY <1>1 DEF HoldStart, HoldGoto
<1>2. ASSUME NEW h \in Holders, HoldMkdir(h)
     PROVE  HoldInv'
  BY <1>2 DEF HoldMkdir, HoldGoto
<1>3. ASSUME NEW h \in Holders, ReadTimeout(h)
     PROVE  HoldInv'
  BY <1>3 DEF ReadTimeout, HoldGoto
<1>4. ASSUME NEW h \in Holders, SetTimeout(h)
     PROVE  HoldInv'
  BY <1>4 DEF SetTimeout, HoldGoto
<1>5. ASSUME NEW h \in Holders, StartRunner(h)
     PROVE  HoldInv'
  BY <1>5 DEF StartRunner, HoldGoto
<1>6. ASSUME NEW h \in Holders, RecordRunner(h)
     PROVE  HoldInv'
  BY <1>6 DEF RecordRunner, HoldGoto
<1>7. ASSUME NEW h \in Holders, WaitRunner(h)
     PROVE  HoldInv'
  BY <1>7 DEF WaitRunner, HoldGoto
<1>8. ASSUME NEW h \in Holders, HoldClean(h)
     PROVE  HoldInv'
  BY <1>8 DEF HoldClean, HoldGoto, SupAlive, SupTermed, WpaTermed
<1>9. ASSUME NEW h \in Holders, HoldRestore(h)
     PROVE  HoldInv'
  BY <1>9, RestoreFields DEF HoldGoto
<1>10. ASSUME NEW h \in Holders, HoldUnlock(h)
     PROVE  HoldInv'
  BY <1>10 DEF HoldUnlock, HoldGoto
<1>11. ASSUME NEW h \in Holders, TermHold(h)
     PROVE  HoldInv'
  BY <1>11 DEF TermHold, HoldGoto
<1>12. ASSUME NEW h \in Holders, RunnerEnds(h)
     PROVE  HoldInv'
  BY <1>12 DEF RunnerEnds
<1>13. ASSUME NEW n \in Conns, Guards(n)
     PROVE  HoldInv'
  BY <1>13 DEF Guards, SupGoto
<1>14. ASSUME NEW n \in Conns, NetMkdir(n)
     PROVE  HoldInv'
  BY <1>14 DEF NetMkdir, SupGoto
<1>15. ASSUME NEW n \in Conns, SaveNet(n)
     PROVE  HoldInv'
  <2>1. CASE /\ SupGoto(n, "save", "power")
             /\ f' = [f EXCEPT !.backup = f.resolv, !.netpid = n]
    BY <1>15, <2>1, Shapes, WifiAssumption
      DEF SaveNet, SupGoto, TypeOK, Files, HoldInv, holdVars, supVars, dhcpVars, conVars
  <2>2. CASE SupGoto(n, "save", "dead") /\ f' = f
    BY <1>15, <2>2, Shapes, WifiAssumption
      DEF SaveNet, SupGoto, TypeOK, Files, HoldInv, holdVars, supVars, dhcpVars, conVars
  <2> QED
    BY <1>15, <2>1, <2>2 DEF SaveNet
<1>16. ASSUME NEW n \in Conns, PowerSave(n)
     PROVE  HoldInv'
  BY <1>16 DEF PowerSave, SupGoto
<1>17. ASSUME NEW n \in Conns, StartWpa(n)
     PROVE  HoldInv'
  BY <1>17 DEF StartWpa, SupGoto
<1>18. ASSUME NEW n \in Conns, RecordWpa(n)
     PROVE  HoldInv'
  BY <1>18 DEF RecordWpa, SupGoto
<1>19. ASSUME NEW n \in Conns, Associate(n)
     PROVE  HoldInv'
  BY <1>19 DEF Associate, SupGoto
<1>20. ASSUME NEW n \in Conns, StartDhcp(n)
     PROVE  HoldInv'
  BY <1>20 DEF StartDhcp, SupGoto
<1>21. ASSUME NEW n \in Conns, RecordDhcp(n)
     PROVE  HoldInv'
  BY <1>21 DEF RecordDhcp, SupGoto
<1>22. ASSUME NEW n \in Conns, Watch(n)
     PROVE  HoldInv'
  BY <1>22 DEF Watch, SupGoto
<1>23. ASSUME NEW n \in Conns, CleanKill(n)
     PROVE  HoldInv'
  BY <1>23 DEF CleanKill, SupGoto, NoListener, WpaTermed
<1>24. ASSUME NEW n \in Conns, CleanWait(n)
     PROVE  HoldInv'
  BY <1>24 DEF CleanWait, SupGoto
<1>25. ASSUME NEW n \in Conns, CleanNet(n)
     PROVE  HoldInv'
  BY <1>25 DEF CleanNet, SupGoto
<1>26. ASSUME NEW n \in Conns, CleanUnlock(n)
     PROVE  HoldInv'
  BY <1>26 DEF CleanUnlock, SupGoto
<1>27. ASSUME NEW n \in Conns, HookDeconfig(n)
     PROVE  HoldInv'
  BY <1>27, DeconfigFields DEF NoListener
<1>28. ASSUME NEW n \in Conns, HookAddress(n)
     PROVE  HoldInv'
  BY <1>28, AddressFields
<1>29. ASSUME NEW n \in Conns, HookListen(n)
     PROVE  HoldInv'
  BY <1>29 DEF HookListen, KeepListener, NewListener, HookTo, NoListener,
     ListenerAlive
<1>30. ASSUME NEW n \in Conns, HookPublish(n)
     PROVE  HoldInv'
  BY <1>30 DEF HookPublish, HookTo
<1>31. ASSUME NEW n \in Conns,
            ConStep(n)
     PROVE  HoldInv'
  BY <1>31 DEF ConStep, ConBegin, ConRunning, ConLocked, ConTruncate,
     ConWrite, ConStart, ConTest, ConPoll, ConFails, ConGoto
<1>32. ASSUME NEW n \in Conns,
            WpaEnds(n) \/ LeaseEvent(n) \/ DhcpEnds(n)
     PROVE  HoldInv'
  BY <1>32 DEF WpaEnds, LeaseEvent, DhcpEnds, HookRuns
<1>33. ASSUME NEW a \in Addrs, ListenerFiles(a)
     PROVE  HoldInv'
  BY <1>33 DEF ListenerFiles
<1>34. ASSUME TermNetwork
     PROVE  HoldInv'
  BY <1>34 DEF TermNetwork, SupAlive, SupTermed
<1>35. CASE UNCHANGED vars
  BY <1>35 DEF vars
<1> HIDE DEF TypeOK, Files, HoldInv, holdVars, supVars, dhcpVars, conVars
<1> QED
  BY <1>1, <1>2, <1>3, <1>4, <1>5, <1>6, <1>7, <1>8, <1>9, <1>10, <1>11,
     <1>12, <1>13, <1>14, <1>15, <1>16, <1>17, <1>18, <1>19, <1>20, <1>21,
     <1>22, <1>23, <1>24, <1>25, <1>26, <1>27, <1>28, <1>29, <1>30, <1>31,
     <1>32, <1>33, <1>34, <1>35
     DEF Next, HoldStep, SupStep, HookStep, ConStep

LEMMA ConnectStep ==
  ASSUME TypeOK, ConInv, [Next]_vars
  PROVE  ConInv'
<1> USE Shapes, WifiAssumption DEF TypeOK, ConInv, Gone, Trapped, Cleaning,
      holdVars, supVars, dhcpVars, conVars
<1>1. ASSUME NEW h \in Holders,
            HoldStart(h) \/ HoldStep(h) \/ TermHold(h) \/ RunnerEnds(h)
     PROVE  ConInv'
  BY <1>1 DEF HoldStep, HoldStart, HoldMkdir, ReadTimeout, SetTimeout,
     StartRunner, RecordRunner, WaitRunner, HoldClean, HoldRestore,
     HoldUnlock, TermHold, RunnerEnds, HoldGoto, SupAlive, SupTermed,
     WpaTermed
<1>2. ASSUME NEW n \in Conns,
            SupStep(n)
     PROVE  ConInv'
  BY <1>2 DEF SupStep, Guards, NetMkdir, SaveNet, PowerSave, StartWpa,
     RecordWpa, Associate, StartDhcp, RecordDhcp, Watch, CleanKill, CleanWait,
     CleanNet, CleanUnlock, SupGoto, NoListener, WpaTermed
<1>3. ASSUME NEW n \in Conns,
            HookStep(n)
     PROVE  ConInv'
  BY <1>3 DEF HookStep, HookDeconfig, HookAddress, HookListen, HookPublish,
     KeepListener, NewListener, NoListener, ListenerAlive
<1>4. ASSUME NEW n \in Conns,
            ConStep(n)
     PROVE  ConInv'
  BY <1>4 DEF ConStep, ConBegin, ConRunning, ConLocked, ConTruncate, ConWrite,
     ConStart, ConTest, ConPoll, ConFails, ConGoto
<1>5. ASSUME NEW n \in Conns,
            WpaEnds(n) \/ LeaseEvent(n) \/ DhcpEnds(n)
     PROVE  ConInv'
  BY <1>5 DEF WpaEnds, LeaseEvent, DhcpEnds, HookRuns
<1>6. ASSUME NEW a \in Addrs, ListenerFiles(a)
     PROVE  ConInv'
  BY <1>6 DEF ListenerFiles
<1>7. ASSUME TermNetwork
     PROVE  ConInv'
  BY <1>7 DEF TermNetwork, SupAlive, SupTermed
<1>8. CASE UNCHANGED vars
  BY <1>8 DEF vars
<1> HIDE DEF TypeOK, ConInv, Gone, Trapped, Cleaning, holdVars, supVars,
      dhcpVars, conVars
<1> QED
  BY <1>1, <1>2, <1>3, <1>4, <1>5, <1>6, <1>7, <1>8
     DEF Next, HoldStep, SupStep, HookStep, ConStep

LEMMA NetworkStep ==
  ASSUME TypeOK, ConInv, SupInv, [Next]_vars
  PROVE  SupInv'
<1> USE Shapes, WifiAssumption DEF TypeOK, Files, ConInv, SupInv,
      OneSupervisor, Inside, DhcpAlive, Trapped, Cleaning, Gone, holdVars,
      supVars, dhcpVars, conVars
<1>1. ASSUME NEW h \in Holders, HoldStart(h)
     PROVE  SupInv'
  BY <1>1 DEF HoldStart, HoldGoto
<1>2. ASSUME NEW h \in Holders, HoldMkdir(h)
     PROVE  SupInv'
  BY <1>2 DEF HoldMkdir, HoldGoto
<1>3. ASSUME NEW h \in Holders, ReadTimeout(h)
     PROVE  SupInv'
  BY <1>3 DEF ReadTimeout, HoldGoto
<1>4. ASSUME NEW h \in Holders, SetTimeout(h)
     PROVE  SupInv'
  BY <1>4 DEF SetTimeout, HoldGoto
<1>5. ASSUME NEW h \in Holders, StartRunner(h)
     PROVE  SupInv'
  BY <1>5 DEF StartRunner, HoldGoto
<1>6. ASSUME NEW h \in Holders, RecordRunner(h)
     PROVE  SupInv'
  BY <1>6 DEF RecordRunner, HoldGoto
<1>7. ASSUME NEW h \in Holders, WaitRunner(h)
     PROVE  SupInv'
  BY <1>7 DEF WaitRunner, HoldGoto
<1>8. ASSUME NEW h \in Holders, HoldClean(h)
     PROVE  SupInv'
  BY <1>8 DEF HoldClean, HoldGoto, SupAlive, SupTermed, WpaTermed
<1>9. ASSUME NEW h \in Holders, HoldRestore(h)
     PROVE  SupInv'
  BY <1>9, RestoreFields DEF HoldGoto
<1>10. ASSUME NEW h \in Holders, HoldUnlock(h)
     PROVE  SupInv'
  BY <1>10 DEF HoldUnlock, HoldGoto
<1>11. ASSUME NEW h \in Holders, TermHold(h)
     PROVE  SupInv'
  BY <1>11 DEF TermHold, HoldGoto
<1>12. ASSUME NEW h \in Holders, RunnerEnds(h)
     PROVE  SupInv'
  BY <1>12 DEF RunnerEnds
<1>13. ASSUME NEW n \in Conns, Guards(n)
     PROVE  SupInv'
  BY <1>13 DEF Guards, SupGoto
<1>14. ASSUME NEW n \in Conns, NetMkdir(n)
     PROVE  SupInv'
  BY <1>14 DEF NetMkdir, SupGoto
<1>15. ASSUME NEW n \in Conns, SaveNet(n)
     PROVE  SupInv'
  <2>1. CASE /\ SupGoto(n, "save", "power")
             /\ f' = [f EXCEPT !.backup = f.resolv, !.netpid = n]
    BY <1>15, <2>1, Shapes, WifiAssumption
      DEF SaveNet, SupGoto, TypeOK, Files, ConInv, SupInv, OneSupervisor, Inside, DhcpAlive,
          Trapped, Cleaning, Gone, holdVars, supVars, dhcpVars, conVars
  <2>2. CASE SupGoto(n, "save", "dead") /\ f' = f
    BY <1>15, <2>2, Shapes, WifiAssumption
      DEF SaveNet, SupGoto, TypeOK, Files, ConInv, SupInv, OneSupervisor, Inside, DhcpAlive,
          Trapped, Cleaning, Gone, holdVars, supVars, dhcpVars, conVars
  <2> QED
    BY <1>15, <2>1, <2>2 DEF SaveNet
<1>16. ASSUME NEW n \in Conns, PowerSave(n)
     PROVE  SupInv'
  BY <1>16 DEF PowerSave, SupGoto
<1>17. ASSUME NEW n \in Conns, StartWpa(n)
     PROVE  SupInv'
  BY <1>17 DEF StartWpa, SupGoto
<1>18. ASSUME NEW n \in Conns, RecordWpa(n)
     PROVE  SupInv'
  BY <1>18 DEF RecordWpa, SupGoto
<1>19. ASSUME NEW n \in Conns, Associate(n)
     PROVE  SupInv'
  BY <1>19 DEF Associate, SupGoto
<1>20. ASSUME NEW n \in Conns, StartDhcp(n)
     PROVE  SupInv'
  BY <1>20 DEF StartDhcp, SupGoto
<1>21. ASSUME NEW n \in Conns, RecordDhcp(n)
     PROVE  SupInv'
  BY <1>21 DEF RecordDhcp, SupGoto
<1>22. ASSUME NEW n \in Conns, Watch(n)
     PROVE  SupInv'
  BY <1>22 DEF Watch, SupGoto
<1>23. ASSUME NEW n \in Conns, CleanKill(n)
     PROVE  SupInv'
  BY <1>23 DEF CleanKill, SupGoto, NoListener, WpaTermed
<1>24. ASSUME NEW n \in Conns, CleanWait(n)
     PROVE  SupInv'
  BY <1>24 DEF CleanWait, SupGoto
<1>25. ASSUME NEW n \in Conns, CleanNet(n)
     PROVE  SupInv'
  BY <1>25 DEF CleanNet, SupGoto
<1>26. ASSUME NEW n \in Conns, CleanUnlock(n)
     PROVE  SupInv'
  BY <1>26 DEF CleanUnlock, SupGoto
<1>27. ASSUME NEW n \in Conns, HookDeconfig(n)
     PROVE  SupInv'
  BY <1>27, DeconfigFields DEF NoListener
<1>28. ASSUME NEW n \in Conns, HookAddress(n)
     PROVE  SupInv'
  BY <1>28, AddressFields
<1>29. ASSUME NEW n \in Conns, HookListen(n)
     PROVE  SupInv'
  BY <1>29 DEF HookListen, KeepListener, NewListener, HookTo, NoListener,
     ListenerAlive
<1>30. ASSUME NEW n \in Conns, HookPublish(n)
     PROVE  SupInv'
  BY <1>30 DEF HookPublish, HookTo
<1>31. ASSUME NEW n \in Conns,
            ConStep(n)
     PROVE  SupInv'
  BY <1>31 DEF ConStep, ConBegin, ConRunning, ConLocked, ConTruncate,
     ConWrite, ConStart, ConTest, ConPoll, ConFails, ConGoto
<1>32. ASSUME NEW n \in Conns,
            WpaEnds(n) \/ LeaseEvent(n) \/ DhcpEnds(n)
     PROVE  SupInv'
  BY <1>32 DEF WpaEnds, LeaseEvent, DhcpEnds, HookRuns
<1>33. ASSUME NEW a \in Addrs, ListenerFiles(a)
     PROVE  SupInv'
  BY <1>33 DEF ListenerFiles
<1>34. ASSUME TermNetwork
     PROVE  SupInv'
  BY <1>34 DEF TermNetwork, SupAlive, SupTermed
<1>35. CASE UNCHANGED vars
  BY <1>35 DEF vars
<1> HIDE DEF TypeOK, Files, ConInv, SupInv, OneSupervisor, Inside, DhcpAlive,
      Trapped, Cleaning, Gone, holdVars, supVars, dhcpVars, conVars
<1> QED
  BY <1>1, <1>2, <1>3, <1>4, <1>5, <1>6, <1>7, <1>8, <1>9, <1>10, <1>11,
     <1>12, <1>13, <1>14, <1>15, <1>16, <1>17, <1>18, <1>19, <1>20, <1>21,
     <1>22, <1>23, <1>24, <1>25, <1>26, <1>27, <1>28, <1>29, <1>30, <1>31,
     <1>32, <1>33, <1>34, <1>35
     DEF Next, HoldStep, SupStep, HookStep, ConStep

LEMMA RestoreStep ==
  ASSUME TypeOK, ConInv, SupInv, NetInv, [Next]_vars
  PROVE  NetInv'
<1> USE Shapes, WifiAssumption DEF TypeOK, Files, ConInv, NetInv, SupInv,
      OneSupervisor, Inside, DhcpAlive, Trapped, Cleaning, Gone, holdVars,
      supVars, dhcpVars, conVars
<1>1. ASSUME NEW h \in Holders, HoldStart(h)
     PROVE  NetInv'
  BY <1>1 DEF HoldStart, HoldGoto
<1>2. ASSUME NEW h \in Holders, HoldMkdir(h)
     PROVE  NetInv'
  BY <1>2 DEF HoldMkdir, HoldGoto
<1>3. ASSUME NEW h \in Holders, ReadTimeout(h)
     PROVE  NetInv'
  BY <1>3 DEF ReadTimeout, HoldGoto
<1>4. ASSUME NEW h \in Holders, SetTimeout(h)
     PROVE  NetInv'
  BY <1>4 DEF SetTimeout, HoldGoto
<1>5. ASSUME NEW h \in Holders, StartRunner(h)
     PROVE  NetInv'
  BY <1>5 DEF StartRunner, HoldGoto
<1>6. ASSUME NEW h \in Holders, RecordRunner(h)
     PROVE  NetInv'
  BY <1>6 DEF RecordRunner, HoldGoto
<1>7. ASSUME NEW h \in Holders, WaitRunner(h)
     PROVE  NetInv'
  BY <1>7 DEF WaitRunner, HoldGoto
<1>8. ASSUME NEW h \in Holders, HoldClean(h)
     PROVE  NetInv'
  BY <1>8 DEF HoldClean, HoldGoto, SupAlive, SupTermed, WpaTermed
<1>9. ASSUME NEW h \in Holders, HoldRestore(h)
     PROVE  NetInv'
  BY <1>9, RestoreFields DEF HoldGoto
<1>10. ASSUME NEW h \in Holders, HoldUnlock(h)
     PROVE  NetInv'
  BY <1>10 DEF HoldUnlock, HoldGoto
<1>11. ASSUME NEW h \in Holders, TermHold(h)
     PROVE  NetInv'
  BY <1>11 DEF TermHold, HoldGoto
<1>12. ASSUME NEW h \in Holders, RunnerEnds(h)
     PROVE  NetInv'
  BY <1>12 DEF RunnerEnds
<1>13. ASSUME NEW n \in Conns, Guards(n)
     PROVE  NetInv'
  BY <1>13 DEF Guards, SupGoto
<1>14. ASSUME NEW n \in Conns, NetMkdir(n)
     PROVE  NetInv'
  BY <1>14 DEF NetMkdir, SupGoto
<1>15. ASSUME NEW n \in Conns, SaveNet(n)
     PROVE  NetInv'
  <2>1. CASE /\ SupGoto(n, "save", "power")
             /\ f' = [f EXCEPT !.backup = f.resolv, !.netpid = n]
    BY <1>15, <2>1, Shapes, WifiAssumption
      DEF SaveNet, SupGoto, TypeOK, Files, ConInv, NetInv, SupInv, OneSupervisor, Inside,
          DhcpAlive, Trapped, Cleaning, Gone, holdVars, supVars, dhcpVars,
          conVars
  <2>2. CASE SupGoto(n, "save", "dead") /\ f' = f
    BY <1>15, <2>2, Shapes, WifiAssumption
      DEF SaveNet, SupGoto, TypeOK, Files, ConInv, NetInv, SupInv, OneSupervisor, Inside,
          DhcpAlive, Trapped, Cleaning, Gone, holdVars, supVars, dhcpVars,
          conVars
  <2> QED
    BY <1>15, <2>1, <2>2 DEF SaveNet
<1>16. ASSUME NEW n \in Conns, PowerSave(n)
     PROVE  NetInv'
  BY <1>16 DEF PowerSave, SupGoto
<1>17. ASSUME NEW n \in Conns, StartWpa(n)
     PROVE  NetInv'
  BY <1>17 DEF StartWpa, SupGoto
<1>18. ASSUME NEW n \in Conns, RecordWpa(n)
     PROVE  NetInv'
  BY <1>18 DEF RecordWpa, SupGoto
<1>19. ASSUME NEW n \in Conns, Associate(n)
     PROVE  NetInv'
  BY <1>19 DEF Associate, SupGoto
<1>20. ASSUME NEW n \in Conns, StartDhcp(n)
     PROVE  NetInv'
  BY <1>20 DEF StartDhcp, SupGoto
<1>21. ASSUME NEW n \in Conns, RecordDhcp(n)
     PROVE  NetInv'
  BY <1>21 DEF RecordDhcp, SupGoto
<1>22. ASSUME NEW n \in Conns, Watch(n)
     PROVE  NetInv'
  BY <1>22 DEF Watch, SupGoto
<1>23. ASSUME NEW n \in Conns, CleanKill(n)
     PROVE  NetInv'
  BY <1>23 DEF CleanKill, SupGoto, NoListener, WpaTermed
<1>24. ASSUME NEW n \in Conns, CleanWait(n)
     PROVE  NetInv'
  BY <1>24 DEF CleanWait, SupGoto
<1>25. ASSUME NEW n \in Conns, CleanNet(n)
     PROVE  NetInv'
  BY <1>25 DEF CleanNet, SupGoto
<1>26. ASSUME NEW n \in Conns, CleanUnlock(n)
     PROVE  NetInv'
  BY <1>26 DEF CleanUnlock, SupGoto
<1>27. ASSUME NEW n \in Conns, HookDeconfig(n)
     PROVE  NetInv'
  BY <1>27, DeconfigFields DEF NoListener
<1>28. ASSUME NEW n \in Conns, HookAddress(n)
     PROVE  NetInv'
  BY <1>28, AddressFields
<1>29. ASSUME NEW n \in Conns, HookListen(n)
     PROVE  NetInv'
  BY <1>29 DEF HookListen, KeepListener, NewListener, HookTo, NoListener,
     ListenerAlive
<1>30. ASSUME NEW n \in Conns, HookPublish(n)
     PROVE  NetInv'
  BY <1>30 DEF HookPublish, HookTo
<1>31. ASSUME NEW n \in Conns,
            ConStep(n)
     PROVE  NetInv'
  BY <1>31 DEF ConStep, ConBegin, ConRunning, ConLocked, ConTruncate,
     ConWrite, ConStart, ConTest, ConPoll, ConFails, ConGoto
<1>32. ASSUME NEW n \in Conns,
            WpaEnds(n) \/ LeaseEvent(n) \/ DhcpEnds(n)
     PROVE  NetInv'
  BY <1>32 DEF WpaEnds, LeaseEvent, DhcpEnds, HookRuns
<1>33. ASSUME NEW a \in Addrs, ListenerFiles(a)
     PROVE  NetInv'
  BY <1>33 DEF ListenerFiles
<1>34. ASSUME TermNetwork
     PROVE  NetInv'
  BY <1>34 DEF TermNetwork, SupAlive, SupTermed
<1>35. CASE UNCHANGED vars
  BY <1>35 DEF vars
<1> HIDE DEF TypeOK, Files, ConInv, NetInv, SupInv, OneSupervisor, Inside,
      DhcpAlive, Trapped, Cleaning, Gone, holdVars, supVars, dhcpVars, conVars
<1> QED
  BY <1>1, <1>2, <1>3, <1>4, <1>5, <1>6, <1>7, <1>8, <1>9, <1>10, <1>11,
     <1>12, <1>13, <1>14, <1>15, <1>16, <1>17, <1>18, <1>19, <1>20, <1>21,
     <1>22, <1>23, <1>24, <1>25, <1>26, <1>27, <1>28, <1>29, <1>30, <1>31,
     <1>32, <1>33, <1>34, <1>35
     DEF Next, HoldStep, SupStep, HookStep, ConStep

LEMMA SerialStep ==
  ASSUME TypeOK, ConInv, SupInv, SerialInv, [Next]_vars
  PROVE  SerialInv'
<1> USE Shapes, WifiAssumption DEF TypeOK, Files, ConInv, SerialInv, SupInv,
      OneSupervisor, Inside, DhcpAlive, Trapped, Cleaning, Gone, holdVars,
      supVars, dhcpVars, conVars
<1>1. ASSUME NEW h \in Holders, HoldStart(h)
     PROVE  SerialInv'
  BY <1>1 DEF HoldStart, HoldGoto
<1>2. ASSUME NEW h \in Holders, HoldMkdir(h)
     PROVE  SerialInv'
  BY <1>2 DEF HoldMkdir, HoldGoto
<1>3. ASSUME NEW h \in Holders, ReadTimeout(h)
     PROVE  SerialInv'
  BY <1>3 DEF ReadTimeout, HoldGoto
<1>4. ASSUME NEW h \in Holders, SetTimeout(h)
     PROVE  SerialInv'
  BY <1>4 DEF SetTimeout, HoldGoto
<1>5. ASSUME NEW h \in Holders, StartRunner(h)
     PROVE  SerialInv'
  BY <1>5 DEF StartRunner, HoldGoto
<1>6. ASSUME NEW h \in Holders, RecordRunner(h)
     PROVE  SerialInv'
  BY <1>6 DEF RecordRunner, HoldGoto
<1>7. ASSUME NEW h \in Holders, WaitRunner(h)
     PROVE  SerialInv'
  BY <1>7 DEF WaitRunner, HoldGoto
<1>8. ASSUME NEW h \in Holders, HoldClean(h)
     PROVE  SerialInv'
  BY <1>8 DEF HoldClean, HoldGoto, SupAlive, SupTermed, WpaTermed
<1>9. ASSUME NEW h \in Holders, HoldRestore(h)
     PROVE  SerialInv'
  <2>1. f'.netlock = f.netlock /\ con' = con /\ pc' = pc /\ serial' = serial
    BY <1>9, RestoreFields DEF supVars, conVars
  <2> QED
    BY <2>1 DEF SerialInv
<1>10. ASSUME NEW h \in Holders, HoldUnlock(h)
     PROVE  SerialInv'
  BY <1>10 DEF HoldUnlock, HoldGoto
<1>11. ASSUME NEW h \in Holders, TermHold(h)
     PROVE  SerialInv'
  BY <1>11 DEF TermHold, HoldGoto
<1>12. ASSUME NEW h \in Holders, RunnerEnds(h)
     PROVE  SerialInv'
  BY <1>12 DEF RunnerEnds
<1>13. ASSUME NEW n \in Conns, Guards(n)
     PROVE  SerialInv'
  BY <1>13 DEF Guards, SupGoto
<1>14. ASSUME NEW n \in Conns, NetMkdir(n)
     PROVE  SerialInv'
  BY <1>14 DEF NetMkdir, SupGoto
<1>15. ASSUME NEW n \in Conns, SaveNet(n)
     PROVE  SerialInv'
  BY <1>15 DEF SaveNet, SupGoto
<1>16. ASSUME NEW n \in Conns, PowerSave(n)
     PROVE  SerialInv'
  BY <1>16 DEF PowerSave, SupGoto
<1>17. ASSUME NEW n \in Conns, StartWpa(n)
     PROVE  SerialInv'
  BY <1>17 DEF StartWpa, SupGoto
<1>18. ASSUME NEW n \in Conns, RecordWpa(n)
     PROVE  SerialInv'
  BY <1>18 DEF RecordWpa, SupGoto
<1>19. ASSUME NEW n \in Conns, Associate(n)
     PROVE  SerialInv'
  BY <1>19 DEF Associate, SupGoto
<1>20. ASSUME NEW n \in Conns, StartDhcp(n)
     PROVE  SerialInv'
  BY <1>20 DEF StartDhcp, SupGoto
<1>21. ASSUME NEW n \in Conns, RecordDhcp(n)
     PROVE  SerialInv'
  BY <1>21 DEF RecordDhcp, SupGoto
<1>22. ASSUME NEW n \in Conns, Watch(n)
     PROVE  SerialInv'
  BY <1>22 DEF Watch, SupGoto
<1>23. ASSUME NEW n \in Conns, CleanKill(n)
     PROVE  SerialInv'
  BY <1>23 DEF CleanKill, SupGoto, NoListener, WpaTermed
<1>24. ASSUME NEW n \in Conns, CleanWait(n)
     PROVE  SerialInv'
  BY <1>24 DEF CleanWait, SupGoto
<1>25. ASSUME NEW n \in Conns, CleanNet(n)
     PROVE  SerialInv'
  BY <1>25 DEF CleanNet, SupGoto
<1>26. ASSUME NEW n \in Conns, CleanUnlock(n)
     PROVE  SerialInv'
  BY <1>26 DEF CleanUnlock, SupGoto
<1>27. ASSUME NEW n \in Conns, HookDeconfig(n)
     PROVE  SerialInv'
  <2>1. f'.netlock = f.netlock /\ con' = con /\ pc' = pc /\ serial' = serial
    BY <1>27, DeconfigFields DEF supVars, conVars
  <2> QED
    BY <2>1 DEF SerialInv
<1>28. ASSUME NEW n \in Conns, HookAddress(n)
     PROVE  SerialInv'
  <2>1. f'.netlock = f.netlock /\ con' = con /\ pc' = pc /\ serial' = serial
    BY <1>28, AddressFields DEF supVars, conVars
  <2> QED
    BY <2>1 DEF SerialInv
<1>29. ASSUME NEW n \in Conns, HookListen(n)
     PROVE  SerialInv'
  BY <1>29 DEF HookListen, KeepListener, NewListener, HookTo, NoListener,
     ListenerAlive
<1>30. ASSUME NEW n \in Conns, HookPublish(n)
     PROVE  SerialInv'
  BY <1>30 DEF HookPublish, HookTo
<1>31. ASSUME NEW n \in Conns, ConBegin(n)
     PROVE  SerialInv'
  <2>1. serial' => /\ serial
                   /\ \A d \in Conns : /\ con[d] \in {"off", "end"}
                                        /\ pc[d] \notin {"guard", "lock"}
    BY <1>31 DEF ConBegin
  <2>2. /\ con' = [con EXCEPT ![n] = "running"]
        /\ pc' = pc
    BY <1>31 DEF ConBegin, ConGoto, supVars
  <2> QED
    BY <2>1, <2>2, Shapes DEF SerialInv, TypeOK
<1>32. ASSUME NEW n \in Conns, ConRunning(n)
     PROVE  SerialInv'
  BY <1>32 DEF ConRunning, ConGoto
<1>33. ASSUME NEW n \in Conns, ConLocked(n)
     PROVE  SerialInv'
  BY <1>33 DEF ConLocked, ConGoto
<1>34. ASSUME NEW n \in Conns, ConTruncate(n)
     PROVE  SerialInv'
  BY <1>34 DEF ConTruncate, ConGoto
<1>35. ASSUME NEW n \in Conns, ConWrite(n)
     PROVE  SerialInv'
  BY <1>35 DEF ConWrite, ConGoto
<1>36. ASSUME NEW n \in Conns, ConStart(n)
     PROVE  SerialInv'
  BY <1>36 DEF ConStart, ConGoto
<1>37. ASSUME NEW n \in Conns, ConTest(n)
     PROVE  SerialInv'
  BY <1>37 DEF ConTest, ConGoto
<1>38. ASSUME NEW n \in Conns, ConPoll(n)
     PROVE  SerialInv'
  BY <1>38 DEF ConPoll, ConGoto
<1>39. ASSUME NEW n \in Conns, ConFails(n)
     PROVE  SerialInv'
  BY <1>39 DEF ConFails
<1>40. ASSUME NEW n \in Conns, WpaEnds(n)
     PROVE  SerialInv'
  BY <1>40 DEF WpaEnds
<1>41. ASSUME NEW n \in Conns, LeaseEvent(n)
     PROVE  SerialInv'
  BY <1>41 DEF LeaseEvent, HookRuns
<1>42. ASSUME NEW n \in Conns, DhcpEnds(n)
     PROVE  SerialInv'
  BY <1>42 DEF DhcpEnds, HookRuns
<1>43. ASSUME NEW a \in Addrs, ListenerFiles(a)
     PROVE  SerialInv'
  BY <1>43 DEF ListenerFiles
<1>44. ASSUME TermNetwork
     PROVE  SerialInv'
  BY <1>44 DEF TermNetwork, SupAlive, SupTermed
<1>45. CASE UNCHANGED vars
  BY <1>45 DEF vars
<1> HIDE DEF TypeOK, Files, ConInv, SerialInv, SupInv, OneSupervisor, Inside,
      DhcpAlive, Trapped, Cleaning, Gone, holdVars, supVars, dhcpVars, conVars
<1> QED
  BY <1>1, <1>2, <1>3, <1>4, <1>5, <1>6, <1>7, <1>8, <1>9, <1>10, <1>11,
     <1>12, <1>13, <1>14, <1>15, <1>16, <1>17, <1>18, <1>19, <1>20, <1>21,
     <1>22, <1>23, <1>24, <1>25, <1>26, <1>27, <1>28, <1>29, <1>30, <1>31,
     <1>32, <1>33, <1>34, <1>35, <1>36, <1>37, <1>38, <1>39, <1>40, <1>41,
     <1>42, <1>43, <1>44, <1>45
     DEF Next, HoldStep, SupStep, HookStep, ConStep

LEMMA ListenStep ==
  ASSUME TypeOK, SupInv, ListenInv, [Next]_vars
  PROVE  ListenInv'
<1> USE Shapes, DhcpShapes, WifiAssumption DEF TypeOK, Files, ListenInv,
      SupInv, OneSupervisor, Inside, DhcpAlive, Trapped, Cleaning, Gone,
      holdVars, supVars, dhcpVars, conVars
<1>1. ASSUME NEW h \in Holders, HoldMkdir(h)
     PROVE  ListenInv'
  BY <1>1 DEF HoldMkdir, HoldGoto
<1>2. ASSUME NEW h \in Holders, HoldClean(h)
     PROVE  ListenInv'
  BY <1>2 DEF HoldClean, HoldGoto, SupAlive, SupTermed, WpaTermed
<1>3. ASSUME NEW h \in Holders, HoldRestore(h)
     PROVE  ListenInv'
  BY <1>3, RestoreFields DEF HoldGoto
<1>4. ASSUME NEW h \in Holders, HoldUnlock(h)
     PROVE  ListenInv'
  BY <1>4 DEF HoldUnlock, HoldGoto
<1>5. ASSUME NEW h \in Holders,
            HoldStart(h) \/ ReadTimeout(h) \/ SetTimeout(h) \/ StartRunner(h) \/
       RecordRunner(h) \/ WaitRunner(h) \/ TermHold(h) \/ RunnerEnds(h)
     PROVE  ListenInv'
  BY <1>5 DEF HoldStart, ReadTimeout, SetTimeout, StartRunner, RecordRunner,
     WaitRunner, TermHold, RunnerEnds, HoldGoto
<1>6. ASSUME NEW n \in Conns, Guards(n)
     PROVE  ListenInv'
  BY <1>6 DEF Guards, SupGoto
<1>7. ASSUME NEW n \in Conns, NetMkdir(n)
     PROVE  ListenInv'
  BY <1>7 DEF NetMkdir, SupGoto
<1>8. ASSUME NEW n \in Conns, SaveNet(n)
     PROVE  ListenInv'
  <2>1. CASE /\ SupGoto(n, "save", "power")
             /\ f' = [f EXCEPT !.backup = f.resolv, !.netpid = n]
    BY <1>8, <2>1, Shapes, WifiAssumption
      DEF SaveNet, SupGoto, TypeOK, Files, ListenInv, holdVars, supVars, dhcpVars, conVars
  <2>2. CASE SupGoto(n, "save", "dead") /\ f' = f
    BY <1>8, <2>2, Shapes, WifiAssumption
      DEF SaveNet, SupGoto, TypeOK, Files, ListenInv, holdVars, supVars, dhcpVars, conVars
  <2> QED
    BY <1>8, <2>1, <2>2 DEF SaveNet
<1>9. ASSUME NEW n \in Conns, PowerSave(n)
     PROVE  ListenInv'
  BY <1>9 DEF PowerSave, SupGoto
<1>10. ASSUME NEW n \in Conns, StartWpa(n)
     PROVE  ListenInv'
  BY <1>10 DEF StartWpa, SupGoto
<1>11. ASSUME NEW n \in Conns, RecordWpa(n)
     PROVE  ListenInv'
  BY <1>11 DEF RecordWpa, SupGoto
<1>12. ASSUME NEW n \in Conns, Associate(n)
     PROVE  ListenInv'
  BY <1>12 DEF Associate, SupGoto
<1>13. ASSUME NEW n \in Conns, StartDhcp(n)
     PROVE  ListenInv'
  BY <1>13 DEF StartDhcp, SupGoto
<1>14. ASSUME NEW n \in Conns, RecordDhcp(n)
     PROVE  ListenInv'
  BY <1>14 DEF RecordDhcp, SupGoto
<1>15. ASSUME NEW n \in Conns, Watch(n)
     PROVE  ListenInv'
  BY <1>15 DEF Watch, SupGoto
<1>16. ASSUME NEW n \in Conns, CleanKill(n)
     PROVE  ListenInv'
  BY <1>16 DEF CleanKill, SupGoto, NoListener, WpaTermed
<1>17. ASSUME NEW n \in Conns, CleanWait(n)
     PROVE  ListenInv'
  BY <1>17 DEF CleanWait, SupGoto
<1>18. ASSUME NEW n \in Conns, CleanNet(n)
     PROVE  ListenInv'
  BY <1>18 DEF CleanNet, SupGoto
<1>19. ASSUME NEW n \in Conns, CleanUnlock(n)
     PROVE  ListenInv'
  BY <1>19 DEF CleanUnlock, SupGoto
<1>20. ASSUME NEW n \in Conns, HookDeconfig(n)
     PROVE  ListenInv'
  BY <1>20, DeconfigFields DEF NoListener
<1>21. ASSUME NEW n \in Conns, HookAddress(n)
     PROVE  ListenInv'
  BY <1>21, AddressFields
<1>22. ASSUME NEW n \in Conns, HookListen(n)
     PROVE  ListenInv'
  BY <1>22 DEF HookListen, KeepListener, NewListener, HookTo, NoListener,
     ListenerAlive
<1>23. ASSUME NEW n \in Conns, HookPublish(n)
     PROVE  ListenInv'
  BY <1>23 DEF HookPublish, HookTo
<1>24. ASSUME NEW n \in Conns,
            ConStep(n)
     PROVE  ListenInv'
  BY <1>24 DEF ConStep, ConBegin, ConRunning, ConLocked, ConTruncate,
     ConWrite, ConStart, ConTest, ConPoll, ConFails, ConGoto
<1>25. ASSUME NEW n \in Conns,
            WpaEnds(n) \/ LeaseEvent(n) \/ DhcpEnds(n)
     PROVE  ListenInv'
  BY <1>25 DEF WpaEnds, LeaseEvent, DhcpEnds, HookRuns
<1>26. ASSUME NEW a \in Addrs, ListenerFiles(a)
     PROVE  ListenInv'
  BY <1>26 DEF ListenerFiles
<1>27. ASSUME TermNetwork
     PROVE  ListenInv'
  BY <1>27 DEF TermNetwork, SupAlive, SupTermed
<1>28. CASE UNCHANGED vars
  BY <1>28 DEF vars
<1> HIDE DEF TypeOK, Files, ListenInv, SupInv, OneSupervisor, Inside,
      DhcpAlive, Trapped, Cleaning, Gone, holdVars, supVars, dhcpVars, conVars
<1> QED
  BY <1>1, <1>2, <1>3, <1>4, <1>5, <1>6, <1>7, <1>8, <1>9, <1>10, <1>11,
     <1>12, <1>13, <1>14, <1>15, <1>16, <1>17, <1>18, <1>19, <1>20, <1>21,
     <1>22, <1>23, <1>24, <1>25, <1>26, <1>27, <1>28
     DEF Next, HoldStep, SupStep, HookStep, ConStep

LEMMA PublishStep ==
  ASSUME TypeOK, ConInv, SupInv, ListenInv, PublishInv, [Next]_vars
  PROVE  PublishInv'
<1> USE Shapes, DhcpShapes, WifiAssumption DEF TypeOK, Files, ConInv,
      ListenInv, PublishInv, Only, SupInv, OneSupervisor, Inside,
      DhcpAlive, Trapped, Cleaning, Gone, holdVars, supVars, dhcpVars, conVars
<1>1. ASSUME NEW h \in Holders, HoldMkdir(h)
     PROVE  PublishInv'
  <2>1. /\ f'.droppid = f.droppid /\ f'.listen = f.listen /\ f'.netlock = f.netlock
        /\ f'.address = f.address
        /\ lsn' = lsn /\ dhcp' = dhcp /\ pc' = pc
    BY <1>1 DEF HoldMkdir
  <2> QED
    BY <2>1
<1>2. ASSUME NEW h \in Holders, HoldClean(h)
     PROVE  PublishInv'
  BY <1>2 DEF HoldClean, HoldGoto, SupAlive, SupTermed, WpaTermed
<1>3. ASSUME NEW h \in Holders, HoldRestore(h)
     PROVE  PublishInv'
  BY <1>3, RestoreFields DEF HoldGoto
<1>4. ASSUME NEW h \in Holders, HoldUnlock(h)
     PROVE  PublishInv'
  BY <1>4 DEF HoldUnlock, HoldGoto
<1>5. ASSUME NEW h \in Holders,
            HoldStart(h) \/ ReadTimeout(h) \/ SetTimeout(h) \/ StartRunner(h) \/
       RecordRunner(h) \/ WaitRunner(h) \/ TermHold(h) \/ RunnerEnds(h)
     PROVE  PublishInv'
  BY <1>5 DEF HoldStart, ReadTimeout, SetTimeout, StartRunner, RecordRunner,
     WaitRunner, TermHold, RunnerEnds, HoldGoto
<1>6. ASSUME NEW n \in Conns,
            SupStep(n)
     PROVE  PublishInv'
  BY <1>6 DEF SupStep, Guards, NetMkdir, SaveNet, PowerSave, StartWpa,
     RecordWpa, Associate, StartDhcp, RecordDhcp, Watch, CleanKill, CleanWait,
     CleanNet, CleanUnlock, SupGoto, NoListener, WpaTermed
<1>7. ASSUME NEW n \in Conns, HookDeconfig(n)
     PROVE  PublishInv'
  BY <1>7, DeconfigFields DEF NoListener
<1>8. ASSUME NEW n \in Conns, HookAddress(n)
     PROVE  PublishInv'
  BY <1>8, AddressFields
<1>9. ASSUME NEW n \in Conns, HookListen(n)
     PROVE  PublishInv'
  <2> DEFINE a == dhcp[n][2]
             cleared == IF ListenerAlive THEN NoListener(f.droppid) ELSE lsn
  <2>1. a \in Addrs /\ dhcp[n][1] = "listen"
    BY <1>9, DhcpShapes DEF HookListen, TypeOK
  <2>2. f.netlock = n
    BY <2>1 DEF SupInv, DhcpAlive
  <2>3. pc' = pc /\ \A q \in Conns : pc'[q] \in {"dhcppid", "watch"} => q = n
    BY <1>9, <2>2 DEF HookListen, supVars, SupInv, OneSupervisor, Inside, Trapped
  <2>4. \A b \in Addrs : lsn[b] # "new"
    BY <2>1 DEF ListenInv
  <2>5. CASE KeepListener(n, a) /\ f.listen = a /\ ListenerAlive
    <3>1. dhcp'[n] = <<"publish", a>> /\ lsn' = lsn /\ f' = f
      BY <2>5 DEF KeepListener, HookTo, TypeOK
    <3>2. lsn[f.droppid] = "filed" /\ f.droppid \in Addrs
      BY <2>5 DEF ListenInv, ListenerAlive, TypeOK, Files
    <3>3. pc[n] \in {"dhcppid", "watch"} => f.address = a /\ f.droppid = a
      BY <2>1, <2>5, <3>2, WifiAssumption DEF PublishInv, Only
    <3> QED
      BY <2>1, <2>3, <2>4, <3>1, <3>2, <3>3 DEF PublishInv, Only
  <2>6. CASE NewListener(n, a)
    <3>1. /\ \/ /\ lsn' = [cleared EXCEPT ![a] = "new"]
                /\ dhcp'[n] = <<"publish", a>>
             \/ lsn' = cleared /\ dhcp'[n] = <<"failed">>
          /\ f' = IF ListenerAlive THEN [f EXCEPT !.droppid = None] ELSE f
      BY <2>6 DEF NewListener, HookTo, TypeOK
    <3>2. f'.droppid = None /\ f'.listen = f.listen /\ f'.address = f.address
      BY <3>1, Shapes DEF ListenInv, ListenerAlive
    <3>3. /\ cleared \in [Addrs -> {"none", "new", "filed"}]
          /\ \A b \in Addrs : cleared[b] # "new"
      BY <2>4 DEF NoListener, TypeOK, Files
    <3>4. CASE lsn' = [cleared EXCEPT ![a] = "new"] /\ dhcp'[n] = <<"publish", a>>
      <4>1. lsn'[a] = "new" /\ \A b \in Addrs : lsn'[b] = "new" => b = a
        BY <2>1, <3>3, <3>4
      <4>2. pc[n] \in {"dhcppid", "watch"} => f'.address = a
        BY <2>1, <3>2 DEF PublishInv
      <4> QED
        BY <2>1, <2>3, <3>2, <3>4, <4>1, <4>2 DEF PublishInv, Only
    <3>5. CASE lsn' = cleared /\ dhcp'[n] = <<"failed">>
      BY <2>1, <2>3, <3>2, <3>3, <3>5 DEF PublishInv, Only
    <3> QED
      BY <3>1, <3>4, <3>5
  <2> QED
    BY <1>9, <2>5, <2>6 DEF HookListen
<1>10. ASSUME NEW n \in Conns, HookPublish(n)
     PROVE  PublishInv'
  BY <1>10 DEF HookPublish, HookTo
<1>11. ASSUME NEW n \in Conns,
            ConStep(n)
     PROVE  PublishInv'
  BY <1>11 DEF ConStep, ConBegin, ConRunning, ConLocked, ConTruncate,
     ConWrite, ConStart, ConTest, ConPoll, ConFails, ConGoto
<1>12. ASSUME NEW n \in Conns,
            WpaEnds(n) \/ LeaseEvent(n) \/ DhcpEnds(n)
     PROVE  PublishInv'
  BY <1>12 DEF WpaEnds, LeaseEvent, DhcpEnds, HookRuns
<1>13. ASSUME NEW a \in Addrs, ListenerFiles(a)
     PROVE  PublishInv'
  BY <1>13 DEF ListenerFiles
<1>14. ASSUME TermNetwork
     PROVE  PublishInv'
  BY <1>14 DEF TermNetwork, SupAlive, SupTermed
<1>15. CASE UNCHANGED vars
  BY <1>15 DEF vars
<1> HIDE DEF TypeOK, Files, ConInv, ListenInv, PublishInv, Only, SupInv,
      OneSupervisor, Inside, DhcpAlive, Trapped, Cleaning, Gone, holdVars,
      supVars, dhcpVars, conVars
<1> QED
  BY <1>1, <1>2, <1>3, <1>4, <1>5, <1>6, <1>7, <1>8, <1>9, <1>10, <1>11,
     <1>12, <1>13, <1>14, <1>15
     DEF Next, HoldStep, SupStep, HookStep, ConStep

\* Only Connect writes wpa.conf.
LEMMA ConfWriters ==
  ASSUME TypeOK, Next, f'.conf # f.conf
  PROVE  \E c \in Conns : con[c] \in {"truncate", "conf"}
<1>1. ASSUME NEW h \in Holders, HoldStart(h) \/ HoldStep(h) \/ TermHold(h) \/ RunnerEnds(h)
     PROVE  f'.conf = f.conf
  BY <1>1, Shapes DEF HoldStep, HoldStart, HoldMkdir, ReadTimeout, SetTimeout,
     StartRunner, RecordRunner, WaitRunner, HoldClean, HoldRestore,
     HoldUnlock, TermHold, RunnerEnds
<1>2. ASSUME NEW n \in Conns, SupStep(n)
     PROVE  f'.conf = f.conf
  BY <1>2, Shapes DEF SupStep, Guards, NetMkdir, SaveNet, PowerSave, StartWpa,
     RecordWpa, Associate, StartDhcp, RecordDhcp, Watch, CleanKill, CleanWait,
     CleanNet, CleanUnlock
<1>3. ASSUME NEW n \in Conns, HookStep(n)
     PROVE  f'.conf = f.conf
  BY <1>3, Shapes DEF HookStep, HookDeconfig, HookAddress, HookListen,
     HookPublish, KeepListener, NewListener
<1>4. ASSUME NEW n \in Conns, ConStep(n)
     PROVE  f' = f \/ con[n] \in {"truncate", "conf"}
  BY <1>4 DEF ConStep, ConGoto, ConBegin, ConRunning, ConLocked, ConTruncate,
     ConWrite, ConStart, ConTest, ConPoll, ConFails
<1>5. ASSUME NEW n \in Conns, WpaEnds(n) \/ LeaseEvent(n) \/ DhcpEnds(n)
     PROVE  f' = f
  BY <1>5 DEF WpaEnds, LeaseEvent, DhcpEnds, HookRuns
<1>6. ASSUME NEW a \in Addrs, ListenerFiles(a)
     PROVE  f'.conf = f.conf
  BY <1>6, Shapes DEF ListenerFiles
<1> QED
  BY <1>1, <1>2, <1>3, <1>4, <1>5, <1>6 DEF Next, TermNetwork

LEMMA WifiInit == Init => WifiInv
<1> SUFFICES ASSUME Init PROVE WifiInv
  OBVIOUS
<1>1. TypeOK
  <2>1. PICK s \in Scenarios :
          /\ hold = [h \in Holders |-> IF h \in s.who THEN "off" ELSE "end"]
          /\ con = [c \in Conns |-> IF c \in s.who THEN "off" ELSE "end"]
          /\ leases = s.leases
    BY DEF Init
  <2>2. hold \in [Holders -> HoldPcs] /\ con \in [Conns -> ConPcs]
    BY <2>1 DEF HoldPcs, ConPcs
  <2>3. leases \in 0 .. s.leases
    BY <2>1, WifiAssumption
  <2>4. dhcp \in [Conns -> DhcpStates]
    BY DhcpShapes DEF Init
  <2>5. f \in Files
    BY DEF Init, Files
  <2> QED
    BY <2>2, <2>3, <2>4, <2>5 DEF Init, TypeOK, SupPcs
<1>2. HoldInv /\ ConInv /\ NetInv
  BY DEF Init, HoldInv, ConInv, NetInv, Trapped, Cleaning
<1>3. SupInv
  BY DEF Init, SupInv, OneSupervisor, Inside, DhcpAlive, Trapped, Cleaning
<1>4. SerialInv
  <2>1. \A c \in Conns : con[c] \in {"off", "end"}
    BY DEF Init
  <2> QED
    BY <2>1 DEF SerialInv
<1>5. ListenInv /\ PublishInv
  BY DEF Init, ListenInv, PublishInv
<1> QED
  BY <1>1, <1>2, <1>3, <1>4, <1>5 DEF WifiInv

-----------------------------------------------------------------------------
(* Theorems.                                                               *)

\* In every session, with TERMs at any moment, also between the start of a
\* child and the write of its pid file: both locks have one owner, and what
\* the pid files name is the owner's.
THEOREM WifiCorrect == Spec => []WifiInv
<1>1. WifiInv /\ [Next]_vars => WifiInv'
  BY TypeStep, SessionStep, ConnectStep, NetworkStep, RestoreStep, SerialStep,
     ListenStep, PublishStep DEF WifiInv
<1> QED
  BY WifiInit, <1>1, PTL DEF Spec

\* Each variable keeps its type.
THEOREM WifiTypeCorrect == Spec => []TypeOK
<1>1. WifiInv => TypeOK
  BY DEF WifiInv
<1> QED
  BY WifiCorrect, <1>1, PTL

\* However many Connects start a supervisor, the one whose mkdir succeeded
\* works, and network.pid, wpa.pid and dhcp.pid name its processes.
THEOREM WifiOneSupervisor == Spec => []OneSupervisor
<1>1. WifiInv => OneSupervisor
  BY DEF WifiInv, SupInv
<1> QED
  BY WifiCorrect, <1>1, PTL

\* A lock that is free finds address, resolver and firmware timeout as they
\* were before any session.
THEOREM WifiSystemRestored == Spec => []SystemRestored
<1>1. WifiInv => SystemRestored
  BY DEF WifiInv, NetInv, HoldInv, SystemRestored
<1> QED
  BY WifiCorrect, <1>1, PTL

\* Once a run of the hook has succeeded, the address that Connect reads is
\* the interface's and is listened on, whatever leases, failed runs and
\* listeners of earlier sessions there were.
THEOREM WifiPublished == Spec => []PublishedIsListened
<1>1. WifiInv => PublishedIsListened
  BY DEF WifiInv, PublishInv, PublishedIsListened
<1> QED
  BY WifiCorrect, <1>1, PTL

\* Connects one after the other do not touch wpa.conf under a supervisor.
THEOREM WifiLiveConfKept == Spec => LiveConfKept
<1>1. WifiInv /\ [Next]_vars => [serial /\ f'.conf # f.conf => f.netlock = None]_vars
  <2> SUFFICES ASSUME WifiInv, Next, serial, f'.conf # f.conf
               PROVE  f.netlock = None
    OBVIOUS
  <2>1. \E c \in Conns : con[c] \in {"truncate", "conf"}
    BY ConfWriters DEF WifiInv
  <2> QED
    BY <2>1 DEF WifiInv, SerialInv
<1> QED
  BY WifiCorrect, <1>1, PTL DEF Spec, LiveConfKept
=============================================================================
