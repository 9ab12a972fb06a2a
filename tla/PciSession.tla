------------------------------ MODULE PciSession ------------------------------
(***************************************************************************)
(* a1625_with_msi and, inside it, a1625_pci_scan: the MSI domain, its self *)
(* test, the host bridge, the scan, the endpoint's checks, the Wi-Fi       *)
(* driver behind its completion fence, and the way back.                   *)
(*                                                                         *)
(* It composes the fence (extended: its threads are the threads here), the *)
(* vector allocator and configuration space.  The caller's own progress is *)
(* stage; while stage is "fence" the caller is in a1625_scan_firmware and  *)
(* the fence says where.  PCI core, interrupt core and brcmfmac are        *)
(* external: the core writes any register while it scans, the driver while *)
(* it is bound or its callback runs; MaxWrites bounds the writes.          *)
(***************************************************************************)
EXTENDS FirmwareFence, Integers, FiniteSets

CONSTANTS
  NSlots,
  Capacity,        \* entries of scan.controls; 26 in the code
  MaxWrites        \* writes of the PCI core and the driver in a session

ASSUME SessionAssumption ==
  NSlots \in Nat \ {0} /\ Capacity \in Nat /\ MaxWrites \in Nat

VARIABLES
  stage,
  opts, caps,      \* options of the call, and optional parts of the MSI capability
  ret,
  active,          \* scan.firmware_active
  port,            \* the port's MSI registers: "zero" or "set"
  domain,          \* the MSI domain exists
  host,            \* the host bridge exists
  writes,
  used, parent, owned, op,
  saved, dirty, master, rejected

Owners == {"caller", "driver"}

Msi == INSTANCE MsiVectors WITH NSlots <- NSlots, Owners <- Owners,
         used <- used, parent <- parent, owned <- owned, op <- op

Cfg == INSTANCE PciConfig WITH saved <- saved, dirty <- dirty,
         master <- master, rejected <- rejected

fenceVars == <<pc, lock, bound, info, done>>

msiVars == <<used, parent, owned, op>>

cfgVars == <<saved, dirty, master, rejected>>

callVars == <<opts, caps, active, port, domain, host, writes>>

allVars == <<fenceVars, msiVars, cfgVars, callVars, stage, ret>>

\* The option sets a1625_pcie_domains accepts, and the MSI self test alone.
OptionSets ==
  {{"msi", "selftest"}, {}, {"iommu"}, {"iommu", "msi"},
   {"iommu", "msi", "memory"}, {"iommu", "msi", "memory", "firmware"}}

Stages == {"msi", "program", "selftest", "selffree", "baseline", "host",
           "scan", "identify", "endpoint", "endfree", "override", "fence", "removehost", "restore",
           "node", "msiout", "done"}

SessionTypeOK ==
  /\ stage \in Stages
  /\ opts \in OptionSets /\ caps \subseteq {"msihigh", "msimask"}
  /\ ret \in {"ok", "err"}
  /\ active \in BOOLEAN /\ domain \in BOOLEAN /\ host \in BOOLEAN
  /\ port \in {"zero", "set"}
  /\ writes \in 0 .. MaxWrites
  /\ Msi!VectorsTypeOK /\ Cfg!ConfigTypeOK

SessionInit ==
  /\ Init /\ Msi!VectorsInit /\ Cfg!ConfigInit
  /\ opts \in OptionSets
  /\ caps \in SUBSET {"msihigh", "msimask"}
  /\ stage = IF "msi" \in opts THEN "msi" ELSE "baseline"
  /\ ret = "ok" /\ active = FALSE /\ port = "zero"
  /\ domain = FALSE /\ host = FALSE /\ writes = 0

-----------------------------------------------------------------------------
(* Steps of the calling thread.                                            *)

At(from, to) == stage = from /\ stage' = to

Fails == ret' = "err"

Goes == UNCHANGED ret

\* Every step that leaves a component alone says so with one of these.
NoFence == UNCHANGED fenceVars

NoMsi == UNCHANGED msiVars

NoCfg == UNCHANGED cfgVars

NoCall == UNCHANGED callVars

LeaveMsi == IF "msi" \in opts THEN "msiout" ELSE "done"

\* Registers must be zero and the parent's interrupts unmapped; the domain
\* is created.
CreateDomain ==
  /\ \/ At("msi", "program") /\ Goes /\ domain' = TRUE
     \/ At("msi", "done") /\ Fails /\ UNCHANGED domain
  /\ NoFence /\ NoMsi /\ NoCfg
  /\ UNCHANGED <<opts, caps, active, port, host, writes>>

ProgramPort ==
  /\ \/ At("program", "selftest") /\ Goes /\ port' = "set"
     \/ At("program", "msiout") /\ Fails /\ port' \in {"zero", "set"}
  /\ NoFence /\ NoMsi /\ NoCfg
  /\ UNCHANGED <<opts, caps, active, domain, host, writes>>

SelfAlloc ==
  /\ stage = "selftest"
  /\ Msi!AllocFind("caller")
  /\ NoFence /\ NoCfg /\ NoCall /\ UNCHANGED <<stage, ret>>

\* The i-th interrupt must be the i-th slot.
SelfCheck ==
  /\ Msi!AllocMapped
  /\ \/ /\ op.slot = Cardinality(owned["caller"])
        /\ At("selftest", IF op.slot = NSlots - 1 THEN "selffree" ELSE "selftest")
        /\ Goes
     \/ At("selftest", "msiout") /\ Fails
  /\ NoFence /\ NoCfg /\ NoCall

SelfRefused ==
  /\ At("selftest", "msiout") /\ Fails
  /\ Msi!AllocRefused
  /\ NoFence /\ NoCfg /\ NoCall

\* Interrupts of the caller are freed in order: after the self test, after
\* the endpoint's test, and on the way out.
FreeStages == {"selffree", "endfree", "msiout"}

CallerFree ==
  /\ stage \in FreeStages
  /\ \E s \in owned["caller"] :
       /\ \A t \in owned["caller"] : s <= t
       /\ Msi!FreeBit("caller", s)
  /\ NoFence /\ NoCfg /\ NoCall /\ UNCHANGED <<stage, ret>>

CallerFreed ==
  /\ stage \in FreeStages
  /\ Msi!FreeMapped
  /\ NoFence /\ NoCfg /\ NoCall /\ UNCHANGED <<stage, ret>>

AllFreed == op = Msi!NoOp /\ owned["caller"] = {}

\* operate is called, if there is one.
Operate ==
  /\ AllFreed
  /\ At("selffree", IF "selftest" \in opts THEN "msiout" ELSE "baseline")
  /\ NoFence /\ NoMsi /\ NoCfg /\ NoCall /\ Goes

\* Devices, commands, bus numbers, ROMs, power states and MSI must be as
\* reset left them; then the controls are saved.
ScanBaseline ==
  /\ \/ At("baseline", "host") /\ Goes /\ Cfg!Save(opts, caps)
     \/ At("baseline", LeaveMsi) /\ Fails /\ NoCfg
  /\ NoFence /\ NoMsi /\ NoCall

\* The endpoint's node, the parent device, the bridge and the window.
CreateHost ==
  /\ \/ At("host", "scan") /\ Goes /\ host' = TRUE
     \/ At("host", "node") /\ Fails /\ UNCHANGED host
  /\ NoFence /\ NoMsi /\ NoCfg
  /\ UNCHANGED <<opts, caps, active, port, domain, writes>>

\* External: the core writes configuration registers.
ScanWrite ==
  /\ stage = "scan" /\ writes < MaxWrites
  /\ \E reg \in Cfg!Regs, value \in {"plain", "danger"} :
       Cfg!Write(active, reg, value)
  /\ writes' = writes + 1
  /\ NoFence /\ NoMsi
  /\ UNCHANGED <<stage, ret, opts, caps, active, port, domain, host>>

\* pci_scan_root_bus_bridge and the assignment of memory end.
Scanned ==
  /\ \/ At("scan", "identify") /\ Goes
     \/ At("scan", "removehost") /\ Fails
  /\ NoFence /\ NoMsi /\ NoCfg /\ NoCall

\* Where the walk over the devices leads when nothing is refused.
Identified ==
  IF "firmware" \in opts THEN "override"
  ELSE IF "msi" \in opts THEN "endpoint" ELSE "removehost"

\* a1625_scan_identify: both devices, nothing bound, no bus mastering, the
\* endpoint behind the IOMMU.
Identify ==
  /\ \/ ~rejected /\ master = {}
        /\ At("identify", Identified) /\ Goes /\ NoCfg
     \/ At("identify", "removehost") /\ Fails
        /\ rejected' = TRUE /\ UNCHANGED <<saved, dirty, master>>
  /\ NoFence /\ NoMsi /\ NoCall

-----------------------------------------------------------------------------
(* a1625_scan_endpoint_msi: one vector is allocated, checked and freed.    *)

EndpointAlloc ==
  /\ stage = "endpoint"
  /\ Msi!AllocFind("caller")
  /\ NoFence /\ NoCfg /\ NoCall /\ UNCHANGED <<stage, ret>>

\* The message must be the first slot's; anything else ends in an error.
EndpointMapped ==
  /\ At("endpoint", "endfree")
  /\ Msi!AllocMapped
  /\ Cfg!WriteAll(Cfg!MsiRegs(caps))
  /\ ret' \in (IF op.slot = 0 THEN {ret, "err"} ELSE {"err"})
  /\ NoFence /\ NoCall

EndpointRefused ==
  /\ At("endpoint", "removehost") /\ Fails
  /\ Msi!AllocRefused
  /\ rejected' = TRUE /\ UNCHANGED <<saved, dirty, master>>
  /\ NoFence /\ NoCall

\* MSI must be disabled again, and assigned memory inside the window.
EndpointDone ==
  /\ AllFreed
  /\ At("endfree", "removehost")
  /\ \/ Goes /\ NoCfg
     \/ Fails /\ rejected' = TRUE /\ UNCHANGED <<saved, dirty, master>>
  /\ NoFence /\ NoMsi /\ NoCall

-----------------------------------------------------------------------------
(* a1625_scan_firmware.                                                    *)

Override ==
  /\ \/ At("override", "fence") /\ Goes /\ active' = TRUE
     \/ At("override", "removehost") /\ Fails /\ UNCHANGED active
  /\ NoFence /\ NoMsi /\ NoCfg
  /\ UNCHANGED <<opts, caps, port, domain, host, writes>>

Rest == NoMsi /\ NoCfg /\ NoCall /\ UNCHANGED <<stage, ret>>

AttachDriver ==
  /\ stage = "fence"
  /\ Probe \/ ProbeReturns \/ ProbeFails \/ Observed
  /\ Rest

\* Mutated: the caller goes on without releasing the driver.
LeaveBound ==
  /\ At("fence", "removehost")
  /\ Goto(Caller, "observe", "end") /\ UNCHANGED <<lock, bound, info, done>>
  /\ Cfg!ClearMaster
  /\ ret' \in {ret, "err"}
  /\ NoMsi /\ NoCall

\* Released: mastering is cleared; attach, observation or hold may have
\* failed.
ReleasedDriver ==
  /\ At("fence", "removehost")
  /\ TakeDown
  /\ Cfg!ClearMaster
  /\ ret' \in {ret, "err"}
  /\ NoMsi /\ NoCall

\* External: the driver writes configuration space while it is bound or its
\* callback runs, through the policy or by the watchdog's replay.
DriverRuns == pc[Caller] = "probe" \/ bound \/ pc[Loader] = "setup"

DriverWrite ==
  /\ DriverRuns /\ writes < MaxWrites
  /\ \/ \E reg \in Cfg!Regs, value \in {"plain", "danger"} :
          Cfg!Write(active, reg, value)
     \/ \E reg \in Cfg!Replayed(caps) : Cfg!Replay(reg)
  /\ writes' = writes + 1
  /\ NoFence /\ NoMsi
  /\ UNCHANGED <<stage, ret, opts, caps, active, port, domain, host>>

\* The callback allocates the driver's vector.
DriverAlloc ==
  /\ pc[Loader] = "setup" /\ owned["driver"] = {}
  /\ Msi!AllocFind("driver")
  /\ NoFence /\ NoCfg /\ NoCall /\ UNCHANGED <<stage, ret>>

DriverMapped ==
  /\ op # Msi!NoOp /\ op.who = "driver"
  /\ Msi!AllocMapped
  /\ Cfg!WriteAll(Cfg!MsiRegs(caps))
  /\ NoFence /\ NoCall /\ UNCHANGED <<stage, ret>>

DriverRefused ==
  /\ op # Msi!NoOp /\ op.who = "driver"
  /\ Msi!AllocRefused
  /\ SetupFails
  /\ NoCfg /\ NoCall /\ UNCHANGED <<stage, ret>>

\* The callback succeeds with its vector, or fails at any point.
SetupDriver ==
  /\ op = Msi!NoOp
  /\ \/ owned["driver"] # {} /\ SetupSucceeds
     \/ SetupFails
  /\ Rest

SetupReports == SignalFailure /\ Rest

\* remove gives the vector back before it frees devinfo.
DriverFree(t) ==
  /\ pc[t] = "remove"
  /\ \E s \in owned["driver"] : Msi!FreeBit("driver", s)
  /\ NoFence /\ NoCfg /\ NoCall /\ UNCHANGED <<stage, ret>>

DriverFreed(t) ==
  /\ pc[t] = "remove"
  /\ op # Msi!NoOp /\ op.who = "driver"
  /\ Msi!FreeMapped
  /\ NoFence /\ NoCfg /\ NoCall /\ UNCHANGED <<stage, ret>>

RemoveDriver(t) ==
  /\ op = Msi!NoOp /\ owned["driver"] = {}
  /\ Remove(t)
  /\ Rest

WaitRelease(t) == (Lock(t) \/ NothingBound(t) \/ WaitForSetup(t)) /\ Rest

UnbindDriver(t) == Unbind(t) /\ Rest

-----------------------------------------------------------------------------
(* The way back.                                                           *)

RemoveHost ==
  /\ At("removehost", "restore")
  /\ host' = FALSE
  /\ ret' \in {ret, "err"}
  /\ NoFence /\ NoMsi /\ NoCfg
  /\ UNCHANGED <<opts, caps, active, port, domain, writes>>

\* At most one register does not take its old value; refused writes are
\* reported here.
RestoreConfig ==
  \E stuck \in {{}} \cup {{r} : r \in dirty \cap (saved \cup Cfg!Named)} :
    /\ At("restore", "node")
    /\ Cfg!Restore(stuck)
    /\ ret' = IF stuck # {} \/ rejected THEN "err" ELSE ret
    /\ NoFence /\ NoMsi /\ NoCall

RemoveNode ==
  /\ At("node", LeaveMsi)
  /\ ret' \in (IF "iommu" \in opts THEN {ret, "err"} ELSE {ret})
  /\ NoFence /\ NoMsi /\ NoCfg /\ NoCall

\* A vector still in use is an error; the domain goes, and the registers
\* are put back and compared.
MsiOut ==
  /\ AllFreed
  /\ At("msiout", "done")
  /\ domain' = FALSE
  /\ \/ port' = "zero" /\ ret' = IF used # {} \/ parent # {} THEN "err" ELSE ret
     \/ port' = port /\ Fails
  /\ NoFence /\ NoMsi /\ NoCfg
  /\ UNCHANGED <<opts, caps, active, host, writes>>

-----------------------------------------------------------------------------
CallerStep ==
  \/ CreateDomain \/ ProgramPort \/ SelfAlloc \/ SelfCheck \/ SelfRefused
  \/ CallerFree \/ CallerFreed \/ Operate \/ ScanBaseline \/ CreateHost
  \/ Scanned \/ Identify \/ EndpointAlloc \/ EndpointMapped \/ EndpointRefused
  \/ EndpointDone \/ Override \/ AttachDriver \/ ReleasedDriver \/ RemoveHost
  \/ RestoreConfig \/ RemoveNode \/ MsiOut

SetupStep ==
  \/ DriverAlloc \/ DriverMapped \/ DriverRefused \/ SetupDriver \/ SetupReports

ReleaseStep(t) ==
  WaitRelease(t) \/ DriverFree(t) \/ DriverFreed(t) \/ RemoveDriver(t)

SessionNext ==
  \/ CallerStep \/ SetupStep \/ ScanWrite \/ DriverWrite
  \/ \E t \in Threads : ReleaseStep(t) \/ UnbindDriver(t)

SessionSpec == SessionInit /\ [][SessionNext]_allVars

\* Threads run and the firmware loader calls back; nobody has to unbind, and
\* nothing has to be written.
SessionLiveSpec ==
  /\ SessionSpec
  /\ WF_allVars(CallerStep) /\ WF_allVars(SetupStep)
  /\ \A t \in Threads : WF_allVars(ReleaseStep(t))

-----------------------------------------------------------------------------
(* Properties.                                                             *)

\* The bitmap, the parent's mappings and the vectors handed out agree
\* between calls of the interrupt core.
VectorsMatch == Msi!VectorsMatch

\* Vectors live in a domain, and the driver's in a host bridge: the caller
\* removes neither while a callback may still allocate.
VectorsInDomain ==
  /\ used \cup parent # {} => domain
  /\ owned["driver"] # {} => host

\* Once the caller has cleared mastering nobody sets it again.
MasterCleared == stage \in {"removehost", "restore"} => 1 \notin master

\* "All caller-owned PCI/DART/MSI/power objects remain alive through driver
\* removal and firmware completion": whoever releases the driver, neither the
\* callback nor a removal runs on freed state or on hardware being taken down,
\* no vector outlives its domain, and the radio masters the bus no more.
TeardownSafe == NoUseAfterFree /\ VectorsInDomain /\ MasterCleared

\* Success means that configuration space is as it was found, whatever the
\* core, the driver or its replay wrote, that no write was refused, and that
\* MSI is gone without a vector left.
ConfigRestored ==
  stage = "done" /\ ret = "ok" =>
    /\ dirty = {} /\ master = {} /\ ~rejected
    /\ used = {} /\ parent = {} /\ port = "zero" /\ ~domain

\* The table of saved controls is filled without a check of its index, so
\* what the options and the endpoint's capabilities ask for must fit; the
\* largest case fills it to the last entry.
ControlsFit == Cardinality(saved) <= Capacity

\* The steps of the fence's threads, seen alone, are those of the fence.
FenceKept == Spec

\* The call returns and the callback ends, though remove waits for the
\* callback under a lock that the callback's failure path takes.
SessionEnds == <>(stage = "done" /\ pc[Loader] \in {"idle", "end"})
=============================================================================
