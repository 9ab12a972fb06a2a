----------------------------- MODULE RadioProbe -----------------------------
(***************************************************************************)
(* The kernel module a1625_pcie_domains: one finit_module call that powers *)
(* the PCIe domains, readies the PHY, sets up MSI and DART, powers the     *)
(* radio, trains the link, scans PCI, binds the Wi-Fi driver, holds it,    *)
(* and takes everything down again in reverse order.                       *)
(*                                                                         *)
(* Each layer is a function that sets its layer up, calls the next and     *)
(* undoes its own work, so one program counter describes the call stack.   *)
(* Any hardware access and any allocation may fail at any time.  A write   *)
(* that failed, or was not read back, may or may not have taken effect.    *)
(* Error numbers are not told apart: ret is "ok" or "err".                 *)
(***************************************************************************)
EXTENDS Integers, FiniteSets

CONSTANTS
  NDoms,           \* the number of power domains; three on this board
  OptionSets,      \* the sets of module options that calls use
  Baselines        \* the hardware states a call may find

Doms == 1 .. NDoms

VARIABLES
  opts,            \* the options of this call
  pc, i,           \* next step, and the domain loops' index
  ret,
  hw,              \* the hardware
  obj,             \* objects registered with the kernel
  done,            \* per domain, what was done to it: its struct's flags
  changed,         \* snapshot_endpoint has written the bus numbers
  signal,          \* a signal is pending for the runner
  base             \* (history) the hardware when the call began

vars == <<opts, pc, i, ret, hw, obj, done, changed, signal, base>>

Flags == {"cycle", "force_active", "snapshot", "prepare_port",
          "inspect_prefix", "test_refclk", "inspect_rc", "inspect_dart",
          "probe_msi", "probe_dart", "map_dart", "pulse_radio", "train_link",
          "identify_endpoint", "identify_chip", "scan_pci", "scan_iommu",
          "scan_msi", "assign_memory", "bind_firmware", "hold_seconds",
          "hold_until_signal"}

\* A domain is powered or not, with automatic clock gating or not; perst is
\* the reset pin's configuration: as found, driven low, or driven high.
Hardware ==
  [dom : [Doms -> [on : BOOLEAN, auto : BOOLEAN]],
   phy : {"off", "ready", "dirty"},
   msi : {"zero", "set"}, pmu : {"off", "on"},
   perst : {"found", "low", "high"}, ltssm : BOOLEAN,
   bus : {"zero", "set"}, cfg : {"found", "changed"}, master : BOOLEAN]

Off == [on |-> FALSE, auto |-> FALSE]

Clean ==
  [dom |-> [d \in Doms |-> Off], phy |-> "off", msi |-> "zero",
   pmu |-> "off", perst |-> "found", ltssm |-> FALSE, bus |-> "zero",
   cfg |-> "found", master |-> FALSE]

Objects ==
  [consumer : [Doms -> BOOLEAN], msi : BOOLEAN, dart : BOOLEAN,
   dartnode : BOOLEAN, gpio : BOOLEAN, host : BOOLEAN, node : BOOLEAN,
   driver : BOOLEAN]

None ==
  [consumer |-> [d \in Doms |-> FALSE], msi |-> FALSE, dart |-> FALSE,
   dartnode |-> FALSE, gpio |-> FALSE, host |-> FALSE, node |-> FALSE,
   driver |-> FALSE]

\* The PHY, the configuration and bus mastering are told apart only from what
\* the call finds, which is "off", "found" and not mastering.
ASSUME ProbeAssumption ==
  /\ NDoms \in Nat \ {0}
  /\ OptionSets \subseteq SUBSET Flags
  /\ Baselines \subseteq
       {h \in Hardware : h.phy = "off" /\ h.cfg = "found" /\ ~h.master}

Pcs == {"init", "baseline", "attach", "resume", "force", "phy", "rc", "msi",
        "msiprogram", "dart", "dartcreate", "pulse", "reset", "power", "held",
        "observe", "perst", "train", "poll", "endpoint", "identify", "chip",
        "save", "node", "host", "scan", "bind", "watch", "hold", "detach",
        "clearmaster", "removehost", "restorecfg", "removenode", "busback",
        "stoplink", "resetagain", "poweroff", "resetback", "putgpio",
        "dartremove", "dartrevert", "msiout", "dartcheck", "phyback",
        "release", "recheck", "done"}

TypeOK ==
  /\ opts \subseteq Flags
  /\ pc \in Pcs
  /\ i \in Doms
  /\ ret \in {"ok", "err"}
  /\ hw \in Hardware
  /\ obj \in Objects
  /\ done \in [Doms -> SUBSET {"attached", "resumed", "forced", "auto"}]
  /\ changed \in BOOLEAN
  /\ signal \in BOOLEAN
  /\ base \in Hardware

Init ==
  /\ opts \in OptionSets
  /\ pc = "init"
  /\ i = 1
  /\ ret = "ok"
  /\ hw \in Baselines
  /\ obj = None
  /\ done = [d \in Doms |-> {}]
  /\ changed = FALSE
  /\ signal = FALSE
  /\ base = hw

-----------------------------------------------------------------------------
Has(flag) == flag \in opts

rest == <<opts, i, done, changed, signal, base>>

\* A step that succeeds, and one that fails and goes to some cleanup; h and
\* o are the hardware and the objects afterwards.
Ok(from, to, h, o) ==
  /\ pc = from /\ pc' = to
  /\ hw' = h /\ obj' = o
  /\ UNCHANGED <<ret, rest>>

Err(from, to, h, o) ==
  /\ pc = from /\ pc' = to
  /\ hw' = h /\ obj' = o
  /\ ret' = "err"
  /\ UNCHANGED rest

\* A check that changes nothing.
Check(from, to, cleanup) ==
  Ok(from, to, hw, obj) \/ Err(from, cleanup, hw, obj)

\* Options that need one another.  The limits on test_dma_range, inspect_erom
\* and the length of hold_seconds, which end in the same -EINVAL, are left out.
Valid ==
  /\ Has("snapshot") \/ Has("force_active") => Has("cycle")
  /\ Has("prepare_port") => Has("snapshot") /\ Has("cycle")
  /\ Has("inspect_prefix") => Has("prepare_port")
  /\ Has("inspect_rc") \/ Has("test_refclk") => Has("inspect_prefix")
  /\ Has("inspect_dart") => Has("test_refclk")
  /\ Has("probe_dart") =>
       Has("inspect_dart") /\ Has("force_active") /\ ~Has("pulse_radio")
  /\ Has("map_dart") => Has("probe_dart")
  /\ Has("pulse_radio") =>
       Has("test_refclk") /\ Has("inspect_rc") /\ Has("force_active")
  /\ Has("train_link") => Has("pulse_radio")
  /\ Has("identify_endpoint") => Has("train_link")
  /\ Has("identify_chip") => Has("identify_endpoint")
  /\ Has("scan_pci") => Has("identify_endpoint") /\ ~Has("identify_chip")
  /\ Has("scan_iommu") =>
       Has("scan_pci") /\ Has("inspect_dart")
       /\ ~Has("probe_dart") /\ ~Has("map_dart")
  /\ Has("scan_msi") => Has("scan_iommu")
  /\ Has("assign_memory") => Has("scan_msi")
  /\ Has("bind_firmware") => Has("assign_memory")
  /\ Has("hold_seconds") => Has("bind_firmware")
  /\ Has("hold_until_signal") => Has("bind_firmware") /\ ~Has("hold_seconds")
  /\ Has("probe_msi") =>
       Has("test_refclk") /\ Has("force_active")
       /\ ~Has("pulse_radio") /\ ~Has("probe_dart")

InitModule ==
  \/ Valid /\ Ok("init", "baseline", hw, obj)
  \/ ~Valid /\ Err("init", "done", hw, obj)

-----------------------------------------------------------------------------
(* a1625_with_pcie_domains.                                                *)

\* The three registers are read; a cycle starts only with all domains off.
Baseline ==
  \/ /\ Has("cycle") => \A d \in Doms : hw.dom[d] = Off
     /\ Ok("baseline", IF Has("cycle") THEN "attach" ELSE "done", hw, obj)
  \/ Err("baseline", "done", hw, obj)

\* The cleanup loop runs from the last domain to the first.
FirstOf(loop) == IF loop = "release" THEN NDoms ELSE 1

\* Mutated: the loop runs one domain too far.
TurnTooFar(label, next) ==
  /\ pc = label
  /\ IF i > NDoms THEN pc' = next /\ i' = FirstOf(next) ELSE pc' = label /\ i' = i + 1
  /\ UNCHANGED <<opts, ret, changed, signal, base>>

\* One turn of a loop over the domains; the last goes on to the next loop.
Turn(label, next) ==
  /\ pc = label
  /\ IF i = NDoms THEN pc' = next /\ i' = FirstOf(next) ELSE pc' = label /\ i' = i + 1
  /\ UNCHANGED <<opts, ret, changed, signal, base>>

\* goto release.
ToRelease(label) ==
  /\ pc = label /\ pc' = "release" /\ i' = FirstOf("release") /\ ret' = "err"
  /\ UNCHANGED <<opts, changed, signal, base>>

Attach ==
  \/ /\ Turn("attach", "resume")
     /\ obj' = [obj EXCEPT !.consumer[i] = TRUE]
     /\ done' = [done EXCEPT ![i] = {"attached"}]
     /\ UNCHANGED hw
  \/ /\ ToRelease("attach")
     /\ \E registered \in BOOLEAN : obj' = [obj EXCEPT !.consumer[i] = registered]
     /\ UNCHANGED <<hw, done>>

\* pm_runtime_resume_and_get, and the register must say "on".
Resume ==
  \E on, auto \in BOOLEAN :
    /\ hw' = [hw EXCEPT !.dom[i] = [on |-> on, auto |-> on /\ auto]]
    /\ UNCHANGED obj
    /\ \/ /\ on
          /\ Turn("resume", IF Has("force_active") THEN "force"
                            ELSE IF Has("snapshot") THEN "phy" ELSE "release")
          /\ done' = [done EXCEPT ![i] = @ \cup {"resumed"}]
       \/ /\ ToRelease("resume")
          /\ \/ UNCHANGED done
             \/ done' = [done EXCEPT ![i] = @ \cup {"resumed"}]

\* Automatic clock gating is suppressed, its bit remembered.
ForceActive ==
  LET marks == done[i] \cup {"forced"}
                 \cup (IF hw.dom[i].auto THEN {"auto"} ELSE {})
  IN \/ /\ Turn("force", IF Has("snapshot") THEN "phy" ELSE "release")
        /\ done' = [done EXCEPT ![i] = marks]
        /\ hw' = [hw EXCEPT !.dom[i].auto = FALSE]
        /\ UNCHANGED obj
     \/ /\ ToRelease("force")
        /\ \E auto \in {FALSE, hw.dom[i].auto} :
             hw' = [hw EXCEPT !.dom[i].auto = auto]
        /\ done' \in {done, [done EXCEPT ![i] = marks]}
        /\ UNCHANGED obj

\* Undo domain i: gating bit, runtime suspend (which also clears the gating
\* bit), detach, unregister.  A consumer that cannot be detached is kept.
Release ==
  /\ pc = "release"
  /\ IF ~obj.consumer[i] THEN UNCHANGED <<hw, obj, ret>>
     ELSE \E gate, suspend, detach \in BOOLEAN :
       LET dom == hw.dom[i]
           gated == IF "forced" \in done[i] /\ gate
                      THEN [dom EXCEPT !.auto = "auto" \in done[i]] ELSE dom
           failed == \/ "forced" \in done[i] /\ ~gate
                     \/ "resumed" \in done[i] /\ ~suspend
                     \/ "attached" \in done[i] /\ ~detach
       IN /\ hw' = [hw EXCEPT !.dom[i] =
                      IF "resumed" \in done[i] /\ suspend THEN Off ELSE gated]
          /\ obj' = [obj EXCEPT !.consumer[i] =
                       "attached" \in done[i] /\ ~detach]
          /\ ret' = IF failed THEN "err" ELSE ret
  /\ IF i = 1 THEN pc' = "recheck" /\ i' = 1 ELSE pc' = "release" /\ i' = i - 1
  /\ UNCHANGED <<opts, done, changed, signal, base>>

\* The registers are read again and must say "off".
Recheck ==
  \/ /\ \A d \in Doms : hw.dom[d] = Off
     /\ Ok("recheck", "done", hw, obj)
  \/ Err("recheck", "done", hw, obj)

-----------------------------------------------------------------------------
(* a1625_with_pcie_phy (see PhyRollback) and observe_ready_phy.            *)

\* Leaving the callback of the PHY, of the MSI layer, of the DART layer.
LeavePhy == "phyback"

LeaveMsi == "msiout"

LeaveDart == "dartremove"

WithPhy ==
  \/ /\ Has("prepare_port") => hw.pmu = "off"
     /\ Ok("phy", "rc", [hw EXCEPT !.phy = "ready"], obj)
  \/ \E p \in {hw.phy, "dirty"} : Err("phy", "phyback", [hw EXCEPT !.phy = p], obj)

\* Which layer comes first; the root port and the DART are looked at before.
FirstLayer ==
  IF Has("probe_msi") \/ Has("scan_msi") THEN "msi"
  ELSE IF Has("probe_dart") \/ Has("scan_iommu") THEN "dart"
  ELSE IF Has("pulse_radio") THEN "pulse" ELSE LeavePhy

ReadyPhy == Check("rc", FirstLayer, LeavePhy)

PhyBack ==
  LET undone == IF hw.phy = "ready" THEN "off" ELSE hw.phy
  IN /\ pc = "phyback" /\ pc' = "release" /\ i' = FirstOf("release")
     /\ \/ hw' = [hw EXCEPT !.phy = undone] /\ UNCHANGED ret
        \/ hw.phy = "ready" /\ hw' = [hw EXCEPT !.phy = "dirty"] /\ ret' = "err"
     /\ UNCHANGED <<opts, obj, done, changed, signal, base>>

-----------------------------------------------------------------------------
(* a1625_with_msi (its allocator is in PciSession).                        *)

MsiAfter == IF Has("scan_msi") THEN "dart" ELSE LeaveMsi

WithMsi ==
  \/ hw.msi = "zero" /\ Ok("msi", "msiprogram", hw, [obj EXCEPT !.msi = TRUE])
  \/ Err("msi", LeavePhy, hw, obj)

\* Both port registers are written and read back, eight vectors allocated,
\* checked and freed.
MsiProgram ==
  \/ Ok("msiprogram", MsiAfter, [hw EXCEPT !.msi = "set"], obj)
  \/ \E m \in {"zero", "set"} :
       Err("msiprogram", "msiout", [hw EXCEPT !.msi = m], obj)

\* Vectors still allocated are an error; the domain goes and the registers
\* are put back.
MsiOut ==
  LET next == IF Has("scan_iommu") THEN "dartcheck" ELSE LeavePhy
      gone == [obj EXCEPT !.msi = FALSE]
  IN \/ Ok("msiout", next, [hw EXCEPT !.msi = "zero"], gone)
     \/ \E m \in {"zero", "set"} : Err("msiout", next, [hw EXCEPT !.msi = m], gone)

-----------------------------------------------------------------------------
(* a1625_with_dart.                                                        *)

DartAfter == IF Has("pulse_radio") THEN "pulse" ELSE LeaveDart

LeaveDartLayer == IF Has("scan_msi") THEN LeaveMsi ELSE "dartcheck"

\* The device-tree node is built and applied; an apply that fails may leave
\* the node attached.
WithDart ==
  \/ Ok("dart", "dartcreate", hw, [obj EXCEPT !.dartnode = TRUE])
  \/ Err("dart", LeaveDartLayer, hw, obj)
  \/ \E n \in BOOLEAN : Err("dart", "dartrevert", hw, [obj EXCEPT !.dartnode = n])

\* The platform device must have bound the DART driver.
DartCreate ==
  \/ Ok("dartcreate", DartAfter, hw, [obj EXCEPT !.dart = TRUE])
  \/ Err("dartcreate", "dartrevert", hw, obj)
  \/ Err("dartcreate", "dartremove", hw, obj)

\* The callback a1625_dart_map maps and unmaps one page with a node and a
\* client of its own; what it cannot take down again is its error.
DartMapFails ==
  Has("map_dart") /\ Err("dartremove", "dartrevert", hw, [obj EXCEPT !.dart = FALSE])

\* platform_device_unregister, on every path behind the callback.
DartRemove ==
  \/ Ok("dartremove", "dartrevert", hw, [obj EXCEPT !.dart = FALSE])
  \/ DartMapFails

\* The changeset is reverted; what a failed revert leaves is detached.
DartRevert ==
  \/ Ok("dartrevert", LeaveDartLayer, hw, [obj EXCEPT !.dartnode = FALSE])
  \/ \E n \in {FALSE, obj.dartnode} :
       Err("dartrevert", LeaveDartLayer, hw, [obj EXCEPT !.dartnode = n])

\* snapshot_dart(true), only after success.
DartCheck ==
  \/ ret = "ok" /\ Check("dartcheck", LeavePhy, LeavePhy)
  \/ ret = "err" /\ Ok("dartcheck", LeavePhy, hw, obj)

-----------------------------------------------------------------------------
(* a1625_radio_pulse: reset before power, power off before reset.          *)

LeaveRadio == IF Has("scan_iommu") THEN LeaveDart ELSE LeavePhy

PulseBaseline ==
  \/ /\ hw.perst = "found" /\ hw.pmu = "off"
     /\ Ok("pulse", "reset", hw, [obj EXCEPT !.gpio = TRUE])
  \/ Err("pulse", LeaveRadio, hw, obj)

HoldReset ==
  \/ Ok("reset", "power", [hw EXCEPT !.perst = "low"], obj)
  \/ \E p \in {"found", "low"} :
       Err("reset", "resetback", [hw EXCEPT !.perst = p], obj)

PowerOn ==
  \/ Ok("power", "held", [hw EXCEPT !.pmu = "on"], obj)
  \/ \E p \in {"off", "on"} : Err("power", "poweroff", [hw EXCEPT !.pmu = p], obj)

Held == Check("held", "observe", "poweroff")

\* Mutated: the reset pin is restored even if the power is still on.
PowerOffThenReset ==
  \/ Ok("poweroff", "resetback", [hw EXCEPT !.pmu = "off"], obj)
  \/ Err("poweroff", "resetback", hw, obj)

\* On failure the reset pin is not touched again.
PowerOff ==
  \/ Ok("poweroff", "resetback", [hw EXCEPT !.pmu = "off"], obj)
  \/ \E p \in {"off", hw.pmu} :
       Err("poweroff", "putgpio", [hw EXCEPT !.pmu = p], obj)

\* Mutated: the result of the restoration is not looked at.
ResetBackUnchecked ==
  \E p \in {"found", hw.perst} :
    Ok("resetback", "putgpio", [hw EXCEPT !.perst = p], obj)

ResetBack ==
  \/ Ok("resetback", "putgpio", [hw EXCEPT !.perst = "found"], obj)
  \/ \E p \in {"found", hw.perst} :
       Err("resetback", "putgpio", [hw EXCEPT !.perst = p], obj)

PutGpio == Ok("putgpio", LeaveRadio, hw, [obj EXCEPT !.gpio = FALSE])

-----------------------------------------------------------------------------
(* observe_held_radio.                                                     *)

Observe ==
  \/ ~hw.ltssm /\ Ok("observe", IF Has("train_link") THEN "perst" ELSE "poweroff",
                     hw, obj)
  \/ Err("observe", "poweroff", hw, obj)

\* CLKREQ must be low before PERST is released.
ReleasePerst ==
  \/ Ok("perst", "train", [hw EXCEPT !.perst = "high"], obj)
  \/ Err("perst", "poweroff", hw, obj)
  \/ \E p \in {"low", "high"} :
       Err("perst", "resetagain", [hw EXCEPT !.perst = p], obj)

EnableLtssm ==
  \/ Ok("train", "poll", [hw EXCEPT !.ltssm = TRUE], obj)
  \/ \E l \in BOOLEAN : Err("train", "stoplink", [hw EXCEPT !.ltssm = l], obj)

PollLink ==
  Check("poll", IF Has("identify_endpoint") THEN "endpoint" ELSE "stoplink",
        "stoplink")

\* Mutated: the link keeps training.
StopNothing == Ok("stoplink", "resetagain", hw, obj)

StopLink ==
  \/ Ok("stoplink", "resetagain", [hw EXCEPT !.ltssm = FALSE], obj)
  \/ \E l \in {FALSE, hw.ltssm} :
       Err("stoplink", "resetagain", [hw EXCEPT !.ltssm = l], obj)

ResetAgain ==
  \/ Ok("resetagain", "poweroff", [hw EXCEPT !.perst = "low"], obj)
  \/ \E p \in {"low", hw.perst} :
       Err("resetagain", "poweroff", [hw EXCEPT !.perst = p], obj)

-----------------------------------------------------------------------------
(* snapshot_endpoint.                                                      *)

\* Bus numbers are written only if the register held none.
EnterEndpoint ==
  LET route(b) ==
        /\ pc = "endpoint"
        /\ changed' = (hw.bus = "zero")
        /\ hw' = [hw EXCEPT !.bus = b]
        /\ UNCHANGED <<opts, i, obj, done, signal, base>>
  IN \/ route("set") /\ pc' = "identify" /\ UNCHANGED ret
     \/ hw.bus = "zero" /\ (\E b \in {"zero", "set"} : route(b))
        /\ pc' = "busback" /\ ret' = "err"
     \/ Err("endpoint", "busback", hw, obj)

Identify ==
  Check("identify", IF Has("identify_chip") THEN "chip"
                    ELSE IF Has("scan_pci") THEN "save" ELSE "busback",
        "busback")

\* snapshot_chip sizes and maps BAR0, reads the chip and restores.
SnapshotChip ==
  \/ Ok("chip", "busback", hw, obj)
  \/ \E c \in {"found", "changed"} : Err("chip", "busback", [hw EXCEPT !.cfg = c], obj)

BusBack ==
  \/ ~changed /\ Ok("busback", "stoplink", hw, obj)
  \/ changed /\ Ok("busback", "stoplink", [hw EXCEPT !.bus = "zero"], obj)
  \/ changed /\ \E b \in {"zero", hw.bus} :
       Err("busback", "stoplink", [hw EXCEPT !.bus = b], obj)

-----------------------------------------------------------------------------
(* a1625_pci_scan.                                                         *)

SaveControls ==
  Check("save", IF Has("scan_iommu") THEN "node" ELSE "host", "busback")

NodeCreate ==
  \/ Ok("node", "host", hw, [obj EXCEPT !.node = TRUE])
  \/ \E n \in BOOLEAN : Err("node", "removenode", hw, [obj EXCEPT !.node = n])

CreateHost ==
  \/ Ok("host", "scan", hw, [obj EXCEPT !.host = TRUE])
  \/ Err("host", "removenode", hw, obj)

\* The core scans, sizes BARs and assigns memory; the policy on its writes
\* refuses bus mastering and whatever else is not listed.
ScanBus ==
  LET written == [hw EXCEPT !.cfg = "changed"]
  IN \/ Ok("scan", IF Has("bind_firmware") THEN "bind" ELSE "removehost",
           written, obj)
     \/ Err("scan", "removehost", written, obj)

\* firmware_active is set and brcmfmac bound to the endpoint, if it binds;
\* it enables bus mastering.
BindFirmware ==
  \/ \E b \in BOOLEAN :
       Ok("bind", "watch", [hw EXCEPT !.master = b], [obj EXCEPT !.driver = b])
  \/ Err("bind", "removehost", hw, obj)
  \/ Err("bind", "detach", hw, obj)

\* The 20 seconds of a1625_scan_fault_tables.
Watch ==
  Check("watch", IF Has("hold_seconds") \/ Has("hold_until_signal")
                   THEN "hold" ELSE "detach", "detach")

\* Mutated: the wait cannot be interrupted.
HoldIgnoresSignal ==
  \/ Has("hold_seconds") /\ Ok("hold", "detach", hw, obj)
  \/ ~signal /\ ~obj.driver /\ Err("hold", "detach", hw, obj)

\* The loop of a1625_hold_wifi ends at the deadline, on a signal, or when it
\* sees that the driver has gone ...
HoldEnds ==
  \/ (signal \/ Has("hold_seconds")) /\ Ok("hold", "detach", hw, obj)
  \/ ~signal /\ ~obj.driver /\ Err("hold", "detach", hw, obj)

\* ... and when the DART reports a fault.
HoldFault == ~signal /\ Err("hold", "detach", hw, obj)

\* Firmware setup fails on its own thread and releases the driver.
DriverGivesUp ==
  /\ pc \in {"watch", "hold"} /\ obj.driver
  /\ obj' = [obj EXCEPT !.driver = FALSE]
  /\ UNCHANGED <<pc, ret, hw, rest>>

Signal ==
  /\ pc = "hold" /\ ~signal
  /\ signal' = TRUE
  /\ UNCHANGED <<opts, pc, i, ret, hw, obj, done, changed, base>>

\* Mutated: the driver stays bound.
DetachNothing == Ok("detach", "clearmaster", hw, obj)

Detach ==
  \/ Ok("detach", "clearmaster", hw, [obj EXCEPT !.driver = FALSE])
  \/ Err("detach", "clearmaster", hw, [obj EXCEPT !.driver = FALSE])

ClearMaster ==
  Ok("clearmaster", "removehost", [hw EXCEPT !.master = FALSE], obj)

\* The root bus and the host bridge go, and the memory window with them.
RemoveHost ==
  \/ Ok("removehost", "restorecfg", hw, [obj EXCEPT !.host = FALSE])
  \/ Err("removehost", "restorecfg", hw, [obj EXCEPT !.host = FALSE])

\* Every saved control, command, BAR, ROM and bus register is written and
\* compared.
RestoreConfig ==
  LET next == IF Has("scan_iommu") THEN "removenode" ELSE "busback"
  IN \/ Ok("restorecfg", next, [hw EXCEPT !.cfg = "found"], obj)
     \/ \E c \in {"found", "changed"} :
          Err("restorecfg", next, [hw EXCEPT !.cfg = c], obj)

RemoveNode ==
  \/ Ok("removenode", "busback", hw, [obj EXCEPT !.node = FALSE])
  \/ obj.node /\ \E n \in BOOLEAN :
       Err("removenode", "busback", hw, [obj EXCEPT !.node = n])

-----------------------------------------------------------------------------
Domains == InitModule \/ Baseline \/ Attach \/ Resume \/ ForceActive \/ Release \/ Recheck

Layers ==
  \/ WithPhy \/ ReadyPhy \/ PhyBack \/ WithMsi \/ MsiProgram \/ MsiOut
  \/ WithDart \/ DartCreate \/ DartRemove \/ DartRevert \/ DartCheck

Radio ==
  \/ PulseBaseline \/ HoldReset \/ PowerOn \/ Held \/ PowerOff \/ ResetBack
  \/ PutGpio \/ Observe \/ ReleasePerst \/ EnableLtssm \/ PollLink \/ StopLink
  \/ ResetAgain

Pci ==
  \/ EnterEndpoint \/ Identify \/ SnapshotChip \/ BusBack \/ SaveControls
  \/ NodeCreate \/ CreateHost \/ ScanBus \/ BindFirmware \/ Watch \/ HoldEnds
  \/ Detach \/ ClearMaster \/ RemoveHost \/ RestoreConfig \/ RemoveNode

Call == Domains \/ Layers \/ Radio \/ Pci

Next == Call \/ HoldFault \/ DriverGivesUp \/ Signal

Spec == Init /\ [][Next]_vars

\* The kernel thread of the call goes on; faults and signals need not come.
LiveSpec == Spec /\ WF_vars(Call)

-----------------------------------------------------------------------------
(* Properties.                                                             *)

\* Success (the module then returns -ECANCELED, which run_probe_once turns
\* into exit status 0) means that every layer is back as it was found and
\* that no kernel object is left: an unnoticed failure of any cleanup step
\* would show here.
SuccessIsClean == pc = "done" /\ ret = "ok" => hw = base /\ obj = None

\* The radio is never powered with the reset pin in the configuration it
\* was found in, whatever fails in power-on, power-off or reset.
NeverUnreset ==
  hw.pmu = "on" /\ base.pmu = "off" => hw.perst # "found"

\* Callers' objects outlive what uses them: a bound driver its host bridge,
\* the host bridge its node, DART and MSI domain, the DART device its PHY,
\* and DART and host bridge an endpoint that may still master the bus.
ObjectsOutlive ==
  /\ obj.driver => obj.host
  /\ obj.host /\ Has("scan_iommu") => obj.node /\ obj.dart
  /\ obj.host /\ Has("scan_msi") => obj.msi
  /\ obj.dart => hw.phy = "ready"
  /\ hw.master => obj.dart /\ obj.host /\ Has("scan_iommu")
  /\ hw.phy = "ready" => \A d \in Doms : obj.consumer[d] /\ hw.dom[d].on

\* Until something has failed, hardware layers are nested too: the link
\* trains only in a powered radio out of reset, the radio is powered only
\* behind a ready PHY, bus numbers and configuration change only on a link.
LayersNested ==
  ret = "ok" /\ base = Clean =>
    /\ hw.ltssm => hw.pmu = "on" /\ hw.perst = "high"
    /\ hw.pmu = "on" => hw.phy = "ready" /\ obj.gpio
    /\ hw.bus = "set" \/ hw.cfg = "changed" => hw.ltssm
    /\ hw.msi = "set" => hw.phy = "ready"

\* "If power restoration fails, it leaves PERST held low" (README of the
\* probe): the radio left powered is left in reset.
PoweredMeansInReset ==
  pc = "done" /\ hw.pmu = "on" /\ base.pmu = "off" => hw.perst = "low"

\* A signal to the runner, or the driver's own failure, ends a hold without
\* a time limit, and the call then takes everything down and returns.
SignalEndsHold ==
  pc = "hold" /\ (signal \/ ~obj.driver) ~> pc = "done"
=============================================================================
