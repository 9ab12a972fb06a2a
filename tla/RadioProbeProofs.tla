--------------------------- MODULE RadioProbeProofs ---------------------------
(***************************************************************************)
(* The whole call, for any number of domains and all sets of options.  The *)
(* layers are nested, so each is a set of program counters that contains   *)
(* the next one's: what a layer has set up holds while pc is in its set,   *)
(* and, as long as nothing failed, what it has put back holds outside.     *)
(***************************************************************************)
EXTENDS RadioProbe, TLAPS

DriverPcs == {"watch", "hold", "detach", "clearmaster"}

HostPcs == {"scan", "bind", "removehost"} \cup DriverPcs

NodePcs == {"host", "restorecfg", "removenode"} \cup HostPcs

BusPcs == {"identify", "chip", "save", "node", "busback"} \cup NodePcs

LinkPcs == {"poll", "endpoint", "stoplink"} \cup BusPcs

PowerPcs == {"held", "observe", "perst", "train", "resetagain", "poweroff"} \cup LinkPcs

ResetPcs == {"power"} \cup PowerPcs

GpioPcs == {"reset", "resetback", "putgpio"} \cup ResetPcs

RadioPcs == {"pulse"} \cup GpioPcs

DartPcs == {"dart", "dartcreate", "dartremove", "dartrevert"}

MsiPcs == {"msiprogram", "msiout"}

PhyPcs == {"rc", "msi", "dartcheck"} \cup MsiPcs \cup DartPcs \cup RadioPcs

\* The layers that the options put around the radio.
InMsi == pc \in MsiPcs \/ (Has("scan_msi") /\ pc \in DartPcs \cup RadioPcs)

InDart == pc \in DartPcs \/ (Has("scan_iommu") /\ pc \in RadioPcs)

\* The way in.
AheadPcs ==
  {"init", "baseline", "attach", "resume", "force", "phy", "rc", "msi",
   "msiprogram", "dart", "dartcreate", "pulse", "reset", "power", "held",
   "observe", "perst", "train", "poll", "endpoint", "identify", "chip", "save",
   "node", "host", "scan", "bind", "watch", "hold"}

\* Options that a layer's code relies on; nothing has failed on the way in.
OptionInv ==
  /\ pc \in AheadPcs => ret = "ok"
  /\ pc \notin {"init", "done"} => Valid
  /\ pc \in RadioPcs => Has("pulse_radio")
  /\ pc \in DartPcs => Has("probe_dart") \/ Has("scan_iommu")
  /\ pc = "node" => Has("scan_iommu")
  /\ pc \in {"bind"} \cup DriverPcs => Has("bind_firmware")

\* Which objects are there, whatever has failed.
ObjectInv ==
  /\ obj.host <=> pc \in HostPcs
  /\ obj.driver => pc \in DriverPcs \ {"clearmaster"}
  /\ hw.master => pc \in DriverPcs
  /\ obj.gpio <=> pc \in GpioPcs
  /\ obj.node => Has("scan_iommu")
  /\ Has("scan_iommu") /\ pc \in {"host"} \cup HostPcs => obj.node
  /\ obj.dart => pc = "dartremove" \/ (Has("scan_iommu") /\ pc \in RadioPcs)
  /\ Has("scan_iommu") /\ pc \in RadioPcs => obj.dart
  /\ obj.msi <=> InMsi

\* The domains are on, and stay registered, around the PHY.
DomainInv ==
  /\ pc \in {"init", "baseline", "attach", "resume", "force", "phy"} => hw.phy = "off"
  /\ pc \in PhyPcs => hw.phy = "ready"
  /\ hw.phy = "ready" => pc \in {"phyback"} \cup PhyPcs
  /\ pc \in {"init", "baseline"} => i = 1
  /\ pc = "attach" => \A d \in Doms : d < i => obj.consumer[d]
  /\ pc = "resume" => \A d \in Doms : obj.consumer[d] /\ (d < i => hw.dom[d].on)
  /\ pc \in {"force", "phy", "phyback"} \cup PhyPcs =>
       \A d \in Doms : obj.consumer[d] /\ hw.dom[d].on

\* Reset before power, power off before reset.
ResetInv ==
  /\ pc \in GpioPcs => base.pmu = "off" /\ base.perst = "found"
  /\ pc \in ResetPcs => hw.perst # "found"
  /\ pc \in {"reset", "resetback"} => hw.pmu = "off"
  /\ NeverUnreset

\* What the call found; with domains on it would not have gone on.
BaseInv ==
  /\ base.phy = "off" /\ base.cfg = "found" /\ ~base.master
  /\ pc \in {"init", "baseline"} => hw = base
  /\ pc \notin {"init", "baseline", "done"} => \A d \in Doms : base.dom[d] = Off

\* While nothing has failed: what differs from what the call found, and
\* where, layer by layer.
PhyInv ==
  ret = "ok" => hw.phy = IF pc \in {"phyback"} \cup PhyPcs THEN "ready" ELSE "off"

MsiInv ==
  /\ InMsi => base.msi = "zero"
  /\ ret = "ok" /\ ~InMsi => hw.msi = base.msi

PowerInv ==
  ret = "ok" =>
    /\ hw.pmu = IF pc \in PowerPcs THEN "on" ELSE base.pmu
    /\ pc \in {"power", "held", "observe", "perst"} => hw.perst = "low"
    /\ pc \in {"train"} \cup LinkPcs => hw.perst = "high"
    /\ pc \notin {"resetback"} \cup ResetPcs => hw.perst = base.perst

LinkInv ==
  ret = "ok" =>
    /\ pc \in {"perst", "train"} \cup LinkPcs => ~base.ltssm
    /\ hw.ltssm = IF pc \in LinkPcs THEN TRUE ELSE base.ltssm

BusInv ==
  ret = "ok" =>
    /\ pc \in BusPcs => hw.bus = "set" /\ (changed <=> base.bus = "zero")
    /\ pc \notin BusPcs => hw.bus = base.bus

ConfigInv ==
  ret = "ok" /\ hw.cfg = "changed" => pc \in {"restorecfg"} \cup HostPcs

\* While nothing has failed: objects that are gone.
NodeInv == ret = "ok" /\ obj.node => pc \in NodePcs

DartInv == ret = "ok" /\ obj.dartnode => InDart

ConsumerInv ==
  ret = "ok" =>
    /\ pc = "release" => \A d \in Doms : d > i => ~obj.consumer[d]
    /\ pc = "recheck" => \A d \in Doms : ~obj.consumer[d]

FoundInv == pc \in {"init", "baseline"} => obj = None

ProbeInv ==
  /\ TypeOK /\ OptionInv /\ ObjectInv /\ DomainInv /\ ResetInv /\ BaseInv
  /\ PhyInv /\ MsiInv /\ PowerInv /\ LinkInv /\ BusInv /\ ConfigInv
  /\ NodeInv /\ DartInv /\ ConsumerInv /\ FoundInv /\ SuccessIsClean

-----------------------------------------------------------------------------
(* What an update of one domain, or of its consumer, changes.              *)

Domain == [on : BOOLEAN, auto : BOOLEAN]

\* All but the domains, and all but the consumers.
SameLayers(g, h) ==
  /\ g.phy = h.phy /\ g.msi = h.msi /\ g.pmu = h.pmu /\ g.perst = h.perst
  /\ g.ltssm = h.ltssm /\ g.bus = h.bus /\ g.cfg = h.cfg /\ g.master = h.master

SameObjects(p, o) ==
  /\ p.msi = o.msi /\ p.dart = o.dart /\ p.dartnode = o.dartnode
  /\ p.gpio = o.gpio /\ p.host = o.host /\ p.node = o.node /\ p.driver = o.driver

\* An update of one domain leaves the other layers and domains alone.
LEMMA DomUpdate ==
  ASSUME NEW h \in Hardware, NEW d \in Doms, NEW x \in Domain
  PROVE  LET g == [h EXCEPT !.dom[d] = x]
         IN  /\ g \in Hardware /\ SameLayers(g, h)
             /\ \A e \in Doms : g.dom[e] = IF e = d THEN x ELSE h.dom[e]
<1>1. [h.dom EXCEPT ![d] = x] \in [Doms -> Domain]
  BY DEF Hardware, Domain
<1> QED
  BY <1>1 DEF Hardware, Domain, SameLayers

\* Clearing or setting a gating bit does not power a domain on or off.
LEMMA AutoUpdate ==
  ASSUME NEW h \in Hardware, NEW d \in Doms, NEW v \in BOOLEAN
  PROVE  /\ [h.dom[d] EXCEPT !.auto = v] \in Domain
         /\ [h.dom[d] EXCEPT !.auto = v].on = h.dom[d].on
         /\ [h EXCEPT !.dom[d].auto = v] =
              [h EXCEPT !.dom[d] = [h.dom[d] EXCEPT !.auto = v]]
BY DEF Hardware, Domain

\* An update of one consumer leaves the other objects alone.
LEMMA ConsumerUpdate ==
  ASSUME NEW o \in Objects, NEW d \in Doms, NEW x \in BOOLEAN
  PROVE  LET p == [o EXCEPT !.consumer[d] = x]
         IN  /\ p \in Objects /\ SameObjects(p, o)
             /\ \A e \in Doms : p.consumer[e] = IF e = d THEN x ELSE o.consumer[e]
<1>1. [o.consumer EXCEPT ![d] = x] \in [Doms -> BOOLEAN]
  BY DEF Objects
<1> QED
  BY <1>1 DEF Objects, SameObjects

\* The four loops touch only domain i and its consumer.
OneDomain ==
  /\ hw' \in Hardware /\ SameLayers(hw', hw)
  /\ obj' \in Objects /\ SameObjects(obj', obj)
  /\ \A e \in Doms : e # i =>
       hw'.dom[e] = hw.dom[e] /\ obj'.consumer[e] = obj.consumer[e]

\* A step that changes neither is the trivial case of these.
LEMMA SameWhenKept ==
  ASSUME TypeOK
  PROVE  /\ hw' = hw => /\ hw' \in Hardware /\ SameLayers(hw', hw)
                        /\ \A e \in Doms : hw'.dom[e] = hw.dom[e]
         /\ obj' = obj => /\ obj' \in Objects /\ SameObjects(obj', obj)
                          /\ \A e \in Doms : obj'.consumer[e] = obj.consumer[e]
BY DEF TypeOK, SameLayers, SameObjects

\* Attach registers the consumer of domain i, or gives up.
LEMMA AttachShape ==
  ASSUME TypeOK, Attach
  PROVE  OneDomain /\ hw' = hw /\ (pc' # "release" => obj'.consumer[i])
<1>1. PICK x \in BOOLEAN : /\ obj' = [obj EXCEPT !.consumer[i] = x]
                           /\ pc' # "release" => x
  BY DEF Attach, Turn, ToRelease
<1>2. hw' = hw
  BY DEF Attach
<1>3. LET p == [obj EXCEPT !.consumer[i] = x]
      IN  /\ p \in Objects /\ SameObjects(p, obj)
          /\ \A e \in Doms : p.consumer[e] = IF e = i THEN x ELSE obj.consumer[e]
  BY ConsumerUpdate DEF TypeOK
<1> QED
  BY <1>1, <1>2, <1>3, SameWhenKept DEF OneDomain, TypeOK

\* Resume goes on only with domain i on.
LEMMA ResumeShape ==
  ASSUME TypeOK, Resume
  PROVE  OneDomain /\ obj' = obj /\ (pc' # "release" => hw'.dom[i].on)
<1>1. PICK on, auto \in BOOLEAN :
        /\ hw' = [hw EXCEPT !.dom[i] = [on |-> on, auto |-> on /\ auto]]
        /\ pc' # "release" => on
  BY DEF Resume, Turn, ToRelease
<1> DEFINE x == [on |-> on, auto |-> on /\ auto]
<1>2. x \in Domain /\ x.on = on
  BY DEF Domain
<1>3. LET g == [hw EXCEPT !.dom[i] = x]
      IN  /\ g \in Hardware /\ SameLayers(g, hw)
          /\ \A e \in Doms : g.dom[e] = IF e = i THEN x ELSE hw.dom[e]
  BY <1>2, DomUpdate DEF TypeOK
<1>4. obj' = obj
  BY DEF Resume
<1> HIDE DEF x
<1> QED
  BY <1>1, <1>2, <1>3, <1>4, SameWhenKept DEF OneDomain, TypeOK, x

\* ForceActive powers nothing off.
LEMMA ForceShape ==
  ASSUME TypeOK, ForceActive
  PROVE  OneDomain /\ obj' = obj /\ hw'.dom[i].on = hw.dom[i].on
<1>a. hw.dom[i].auto \in BOOLEAN
  BY DEF TypeOK, Hardware
<1>1. PICK v \in BOOLEAN : hw' = [hw EXCEPT !.dom[i].auto = v]
  BY <1>a DEF ForceActive
<1> DEFINE x == [hw.dom[i] EXCEPT !.auto = v]
<1>2. x \in Domain /\ x.on = hw.dom[i].on /\ hw' = [hw EXCEPT !.dom[i] = x]
  BY <1>1, AutoUpdate DEF TypeOK
<1>3. LET g == [hw EXCEPT !.dom[i] = x]
      IN  /\ g \in Hardware /\ SameLayers(g, hw)
          /\ \A e \in Doms : g.dom[e] = IF e = i THEN x ELSE hw.dom[e]
  BY <1>2, DomUpdate DEF TypeOK
<1>4. obj' = obj
  BY DEF ForceActive
<1> HIDE DEF x
<1> QED
  BY <1>2, <1>3, <1>4, SameWhenKept DEF OneDomain, TypeOK

\* A consumer that stays registered is an error.
LEMMA ReleaseShape ==
  ASSUME TypeOK, Release
  PROVE  OneDomain /\ (ret' = "ok" => ret = "ok" /\ ~obj'.consumer[i])
<1>1. CASE ~obj.consumer[i]
  <2>1. hw' = hw /\ obj' = obj /\ ret' = ret
    BY <1>1 DEF Release
  <2> QED
    BY <1>1, <2>1, SameWhenKept DEF OneDomain, TypeOK
<1>2. CASE obj.consumer[i]
  <2>1. PICK gate, suspend, detach \in BOOLEAN :
          LET dom == hw.dom[i]
              gated == IF "forced" \in done[i] /\ gate
                         THEN [dom EXCEPT !.auto = "auto" \in done[i]] ELSE dom
              failed == \/ "forced" \in done[i] /\ ~gate
                        \/ "resumed" \in done[i] /\ ~suspend
                        \/ "attached" \in done[i] /\ ~detach
          IN /\ hw' = [hw EXCEPT !.dom[i] =
                         IF "resumed" \in done[i] /\ suspend THEN Off ELSE gated]
             /\ obj' = [obj EXCEPT !.consumer[i] =
                          "attached" \in done[i] /\ ~detach]
             /\ ret' = IF failed THEN "err" ELSE ret
    BY <1>2 DEF Release
  <2> DEFINE x == IF "resumed" \in done[i] /\ suspend THEN Off
                  ELSE IF "forced" \in done[i] /\ gate
                         THEN [hw.dom[i] EXCEPT !.auto = "auto" \in done[i]]
                         ELSE hw.dom[i]
             kept == "attached" \in done[i] /\ ~detach
  <2>2. hw' = [hw EXCEPT !.dom[i] = x] /\ obj' = [obj EXCEPT !.consumer[i] = kept]
    BY <2>1
  <2>3. ret' = "ok" => ret = "ok" /\ ~kept
    BY <2>1
  <2>a. hw.dom[i] \in Domain /\ Off \in Domain
    BY DEF Off, Domain, TypeOK, Hardware
  <2>b. [hw.dom[i] EXCEPT !.auto = "auto" \in done[i]] \in Domain
    BY AutoUpdate, ("auto" \in done[i]) \in BOOLEAN DEF TypeOK
  <2>4. x \in Domain
    BY <2>a, <2>b
  <2>5. kept \in BOOLEAN
    OBVIOUS
  <2> HIDE DEF x, kept
  <2>6. LET g == [hw EXCEPT !.dom[i] = x]
        IN  /\ g \in Hardware /\ SameLayers(g, hw)
            /\ \A e \in Doms : g.dom[e] = IF e = i THEN x ELSE hw.dom[e]
    BY <2>4, DomUpdate DEF TypeOK
  <2>7. LET p == [obj EXCEPT !.consumer[i] = kept]
        IN  /\ p \in Objects /\ SameObjects(p, obj)
            /\ \A e \in Doms : p.consumer[e] = IF e = i THEN kept ELSE obj.consumer[e]
    BY <2>5, ConsumerUpdate DEF TypeOK
  <2> QED
    BY <2>2, <2>3, <2>6, <2>7 DEF OneDomain, TypeOK
<1> QED
  BY <1>1, <1>2

\* Options and baseline do not change during a call.
LEMMA OptionsKept ==
  ASSUME Next
  PROVE  opts' = opts /\ base' = base
<1> USE DEF Ok, Err, rest
<1>1. CASE Domains
  BY <1>1
     DEF Domains, InitModule, Baseline, Attach, Resume, ForceActive, Release,
     Recheck, Turn, ToRelease
<1>2. CASE Layers
  BY <1>2
     DEF Layers, WithPhy, ReadyPhy, PhyBack, WithMsi, MsiProgram, MsiOut,
     WithDart, DartCreate, DartRemove, DartMapFails, DartRevert, DartCheck,
     Check
<1>3. CASE Radio
  BY <1>3
     DEF Radio, PulseBaseline, HoldReset, PowerOn, Held, PowerOff, ResetBack,
     PutGpio, Observe, ReleasePerst, EnableLtssm, PollLink, StopLink,
     ResetAgain, Check
<1>4. CASE Pci
  BY <1>4
     DEF Pci, EnterEndpoint, Identify, SnapshotChip, BusBack, SaveControls,
     NodeCreate, CreateHost, ScanBus, BindFirmware, Watch, HoldEnds, Detach,
     ClearMaster, RemoveHost, RestoreConfig, RemoveNode, Check
<1>5. CASE HoldFault \/ DriverGivesUp \/ Signal
  BY <1>5 DEF HoldFault, DriverGivesUp, Signal
<1> QED
  BY <1>1, <1>2, <1>3, <1>4, <1>5 DEF Next, Call

\* Types are kept.
LEMMA HardwareTypeStep ==
  ASSUME TypeOK, Next
  PROVE  hw' \in Hardware
<1>1. CASE Attach
  BY <1>1, AttachShape DEF OneDomain
<1>2. CASE Resume
  BY <1>2, ResumeShape DEF OneDomain
<1>3. CASE ForceActive
  BY <1>3, ForceShape DEF OneDomain
<1>4. CASE Release
  BY <1>4, ReleaseShape DEF OneDomain
<1> USE DEF TypeOK, Hardware, Ok, Err, rest
<1>5. CASE \/ InitModule \/ Baseline \/ Recheck \/ ReadyPhy \/ WithMsi
           \/ WithDart \/ DartCreate \/ DartRemove \/ DartRevert \/ DartCheck
           \/ PulseBaseline \/ Held \/ PutGpio \/ Observe \/ PollLink
           \/ Identify \/ SaveControls \/ NodeCreate \/ CreateHost \/ Watch
           \/ HoldEnds \/ Detach \/ RemoveHost \/ RemoveNode \/ HoldFault
           \/ DriverGivesUp \/ Signal
  BY <1>5 DEF InitModule, Baseline, Recheck, ReadyPhy, WithMsi, WithDart,
     DartCreate, DartRemove, DartMapFails, DartRevert, DartCheck,
     PulseBaseline, Held,
     PutGpio, Observe, PollLink, Identify, SaveControls, NodeCreate,
     CreateHost, Watch, HoldEnds, Detach, RemoveHost, RemoveNode, HoldFault,
     DriverGivesUp, Signal, Check
<1>6. CASE WithPhy
  BY <1>6 DEF WithPhy
<1>7. CASE PhyBack
  BY <1>7 DEF PhyBack
<1>8. CASE MsiProgram
  BY <1>8 DEF MsiProgram
<1>9. CASE MsiOut
  BY <1>9 DEF MsiOut
<1>10. CASE HoldReset
  BY <1>10 DEF HoldReset
<1>11. CASE PowerOn
  BY <1>11 DEF PowerOn
<1>12. CASE PowerOff
  BY <1>12 DEF PowerOff
<1>13. CASE ResetBack
  BY <1>13 DEF ResetBack
<1>14. CASE ReleasePerst
  BY <1>14 DEF ReleasePerst
<1>15. CASE EnableLtssm
  BY <1>15 DEF EnableLtssm
<1>16. CASE StopLink
  BY <1>16 DEF StopLink
<1>17. CASE ResetAgain
  BY <1>17 DEF ResetAgain
<1>18. CASE EnterEndpoint
  BY <1>18 DEF EnterEndpoint
<1>19. CASE SnapshotChip
  BY <1>19 DEF SnapshotChip
<1>20. CASE BusBack
  BY <1>20 DEF BusBack
<1>21. CASE ScanBus
  BY <1>21 DEF ScanBus
<1>22. CASE BindFirmware
  BY <1>22 DEF BindFirmware
<1>23. CASE ClearMaster
  BY <1>23 DEF ClearMaster
<1>24. CASE RestoreConfig
  BY <1>24 DEF RestoreConfig
<1> QED
  BY <1>1, <1>2, <1>3, <1>4, <1>5, <1>6, <1>7, <1>8, <1>9, <1>10, <1>11,
     <1>12, <1>13, <1>14, <1>15, <1>16, <1>17, <1>18, <1>19, <1>20, <1>21,
     <1>22, <1>23, <1>24
     DEF Next, Call, Domains, Layers, Radio, Pci

LEMMA ObjectTypeStep ==
  ASSUME TypeOK, Next
  PROVE  obj' \in Objects
<1>1. CASE Attach
  BY <1>1, AttachShape DEF OneDomain
<1>2. CASE Resume
  BY <1>2, ResumeShape DEF OneDomain
<1>3. CASE ForceActive
  BY <1>3, ForceShape DEF OneDomain
<1>4. CASE Release
  BY <1>4, ReleaseShape DEF OneDomain
<1> USE DEF TypeOK, Ok, Err, rest, Objects
<1>5. CASE Domains
  BY <1>5, <1>1, <1>2, <1>3, <1>4
     DEF Domains, InitModule, Baseline, Recheck
<1>6. CASE Layers
  BY <1>6
     DEF Layers, WithPhy, ReadyPhy, PhyBack, WithMsi, MsiProgram, MsiOut,
     WithDart, DartCreate, DartRemove, DartMapFails, DartRevert, DartCheck,
     Check
<1>7. CASE Radio
  BY <1>7
     DEF Radio, PulseBaseline, HoldReset, PowerOn, Held, PowerOff, ResetBack,
     PutGpio, Observe, ReleasePerst, EnableLtssm, PollLink, StopLink,
     ResetAgain, Check
<1>8. CASE Pci
  BY <1>8
     DEF Pci, EnterEndpoint, Identify, SnapshotChip, BusBack, SaveControls,
     NodeCreate, CreateHost, ScanBus, BindFirmware, Watch, HoldEnds, Detach,
     ClearMaster, RemoveHost, RestoreConfig, RemoveNode, Check
<1>9. CASE HoldFault \/ DriverGivesUp \/ Signal
  BY <1>9 DEF HoldFault, DriverGivesUp, Signal
<1> QED
  BY <1>5, <1>6, <1>7, <1>8, <1>9 DEF Next, Call

\* The loops' index stays a domain.
LEMMA LoopTypes ==
  ASSUME TypeOK
  PROVE  /\ 1 \in Doms /\ NDoms \in Doms
         /\ i # NDoms => i + 1 \in Doms
         /\ i # 1 => i - 1 \in Doms
         /\ \A l : FirstOf(l) \in Doms
BY ProbeAssumption DEF TypeOK, Doms, FirstOf

Marks == SUBSET {"attached", "resumed", "forced", "auto"}

LEMMA MarksUpdate ==
  ASSUME TypeOK, NEW m \in Marks
  PROVE  [done EXCEPT ![i] = m] \in [Doms -> Marks]
BY DEF TypeOK, Marks

LEMMA RestTypeStep ==
  ASSUME TypeOK, Next
  PROVE  /\ i' \in Doms /\ ret' \in {"ok", "err"}
         /\ done' \in [Doms -> Marks]
         /\ changed' \in BOOLEAN /\ signal' \in BOOLEAN
<1>1. CASE Attach
  BY <1>1, LoopTypes, MarksUpdate DEF Attach, Turn, ToRelease, TypeOK, Marks
<1>2. CASE Resume
  <2>1. done' \in {done, [done EXCEPT ![i] = @ \cup {"resumed"}]}
    BY <1>2 DEF Resume
  <2>2. done[i] \cup {"resumed"} \in Marks
    BY DEF TypeOK, Marks
  <2>3. done' \in [Doms -> Marks]
    BY <2>1, <2>2, MarksUpdate DEF TypeOK, Marks
  <2> QED
    BY <1>2, <2>3, LoopTypes DEF Resume, Turn, ToRelease, TypeOK
<1>3. CASE ForceActive
  <2> DEFINE m == done[i] \cup {"forced"}
                    \cup (IF hw.dom[i].auto THEN {"auto"} ELSE {})
  <2>1. done' \in {done, [done EXCEPT ![i] = m]}
    BY <1>3 DEF ForceActive
  <2>2. m \in Marks
    BY DEF TypeOK, Marks
  <2>3. done' \in [Doms -> Marks]
    <3> HIDE DEF m
    <3> QED
      BY <2>1, <2>2, MarksUpdate DEF TypeOK, Marks
  <2> QED
    BY <1>3, <2>3, LoopTypes DEF ForceActive, Turn, ToRelease, TypeOK
<1>4. CASE Release
  BY <1>4, LoopTypes DEF Release, TypeOK, Marks
<1>5. CASE PhyBack
  BY <1>5, LoopTypes DEF PhyBack, TypeOK, Marks
<1>6. CASE \/ InitModule \/ Baseline \/ Recheck \/ WithPhy \/ ReadyPhy
           \/ WithMsi \/ MsiProgram \/ MsiOut \/ WithDart \/ DartCreate
           \/ DartRemove \/ DartRevert \/ DartCheck \/ PulseBaseline
           \/ HoldReset \/ PowerOn \/ Held \/ PowerOff \/ ResetBack
           \/ PutGpio \/ Observe \/ ReleasePerst \/ EnableLtssm \/ PollLink
           \/ StopLink \/ ResetAgain \/ EnterEndpoint \/ Identify
           \/ SnapshotChip \/ BusBack \/ SaveControls \/ NodeCreate
           \/ CreateHost \/ ScanBus \/ BindFirmware \/ Watch \/ HoldEnds
           \/ Detach \/ ClearMaster \/ RemoveHost \/ RestoreConfig
           \/ RemoveNode \/ HoldFault \/ DriverGivesUp \/ Signal
  BY <1>6 DEF TypeOK, Marks, Ok, Err, Check, rest, InitModule, Baseline,
     Recheck, WithPhy, ReadyPhy, WithMsi, MsiProgram, MsiOut, WithDart,
     DartCreate, DartRemove, DartMapFails, DartRevert, DartCheck,
     PulseBaseline, HoldReset,
     PowerOn, Held, PowerOff, ResetBack, PutGpio, Observe, ReleasePerst,
     EnableLtssm, PollLink, StopLink, ResetAgain, EnterEndpoint, Identify,
     SnapshotChip, BusBack, SaveControls, NodeCreate, CreateHost, ScanBus,
     BindFirmware, Watch, HoldEnds, Detach, ClearMaster, RemoveHost,
     RestoreConfig, RemoveNode, HoldFault, DriverGivesUp, Signal
<1> QED
  BY <1>1, <1>2, <1>3, <1>4, <1>5, <1>6
     DEF Next, Call, Domains, Layers, Radio, Pci

LEMMA CounterTypeStep ==
  ASSUME TypeOK, Next
  PROVE  pc' \in Pcs
<1> USE DEF TypeOK, Ok, Err, rest, Pcs
<1>1. CASE Domains
  BY <1>1
     DEF Domains, InitModule, Baseline, Attach, Resume, ForceActive, Release,
     Recheck, Turn, ToRelease
<1>2. CASE Layers
  BY <1>2
     DEF Layers, WithPhy, ReadyPhy, PhyBack, WithMsi, MsiProgram, MsiOut,
     WithDart, DartCreate, DartRemove, DartMapFails, DartRevert, DartCheck,
     Check,
     FirstLayer, LeavePhy, MsiAfter, LeaveMsi, LeaveDartLayer, Valid,
     DartAfter, LeaveDart
<1>3. CASE Radio
  BY <1>3
     DEF Radio, PulseBaseline, HoldReset, PowerOn, Held, PowerOff, ResetBack,
     PutGpio, Observe, ReleasePerst, EnableLtssm, PollLink, StopLink,
     ResetAgain, LeaveRadio, LeaveDart, LeavePhy, Valid, Check
<1>4. CASE Pci
  BY <1>4
     DEF Pci, EnterEndpoint, Identify, SnapshotChip, BusBack, SaveControls,
     NodeCreate, CreateHost, ScanBus, BindFirmware, Watch, HoldEnds, Detach,
     ClearMaster, RemoveHost, RestoreConfig, RemoveNode, Check
<1>5. CASE HoldFault \/ DriverGivesUp \/ Signal
  BY <1>5 DEF HoldFault, DriverGivesUp, Signal
<1> QED
  BY <1>1, <1>2, <1>3, <1>4, <1>5 DEF Next, Call

LEMMA TypeStep ==
  ASSUME TypeOK, Next
  PROVE  TypeOK'
BY OptionsKept, HardwareTypeStep, ObjectTypeStep, RestTypeStep,
   CounterTypeStep
   DEF TypeOK, Marks

\* OptionInv is kept: what the next layer relies on was checked.
LEMMA OptionStep ==
  ASSUME TypeOK, OptionInv, Next
  PROVE  OptionInv'
<1> USE DEF OptionInv, Valid, Has, TypeOK, Ok, Err, rest, DriverPcs, HostPcs,
      NodePcs, BusPcs, LinkPcs, PowerPcs, ResetPcs, GpioPcs, RadioPcs,
      DartPcs, MsiPcs, PhyPcs, AheadPcs
<1>1. CASE Domains
  BY <1>1
     DEF Domains, InitModule, Baseline, Attach, Resume, ForceActive, Release,
     Recheck, Turn, ToRelease
<1>2. CASE Layers
  BY <1>2
     DEF Layers, WithPhy, ReadyPhy, PhyBack, WithMsi, MsiProgram, MsiOut,
     WithDart, DartCreate, DartRemove, DartMapFails, DartRevert, DartCheck,
     Check,
     FirstLayer, LeavePhy, MsiAfter, LeaveMsi, LeaveDartLayer, Valid,
     DartAfter, LeaveDart
<1>3. CASE Radio
  BY <1>3
     DEF Radio, PulseBaseline, HoldReset, PowerOn, Held, PowerOff, ResetBack,
     PutGpio, Observe, ReleasePerst, EnableLtssm, PollLink, StopLink,
     ResetAgain, LeaveRadio, LeaveDart, LeavePhy, Valid, Check
<1>4. CASE Pci
  BY <1>4
     DEF Pci, EnterEndpoint, Identify, SnapshotChip, BusBack, SaveControls,
     NodeCreate, CreateHost, ScanBus, BindFirmware, Watch, HoldEnds, Detach,
     ClearMaster, RemoveHost, RestoreConfig, RemoveNode, Check
<1>5. CASE HoldFault \/ DriverGivesUp \/ Signal
  BY <1>5 DEF HoldFault, DriverGivesUp, Signal
<1> QED
  BY <1>1, <1>2, <1>3, <1>4, <1>5 DEF Next, Call

\* ObjectInv is kept: one case per action.
LEMMA ObjectStep ==
  ASSUME TypeOK, OptionInv, ObjectInv, Next
  PROVE  ObjectInv'
<1> USE DEF ObjectInv, OptionInv, InMsi, Has, TypeOK, Ok, Err, rest,
      DriverPcs, HostPcs, NodePcs, BusPcs, LinkPcs, PowerPcs, ResetPcs,
      GpioPcs, RadioPcs, DartPcs, MsiPcs, PhyPcs, AheadPcs
<1>1. CASE Attach
  <2>1. OneDomain
    BY <1>1, AttachShape
  <2> QED
    BY <1>1, <2>1 DEF OneDomain, SameLayers, SameObjects, Attach, Turn,
       ToRelease
<1>2. CASE Resume
  <2>1. OneDomain
    BY <1>2, ResumeShape
  <2> QED
    BY <1>2, <2>1 DEF OneDomain, SameLayers, SameObjects, Resume, Turn,
       ToRelease
<1>3. CASE ForceActive
  <2>1. OneDomain
    BY <1>3, ForceShape
  <2> QED
    BY <1>3, <2>1 DEF OneDomain, SameLayers, SameObjects, ForceActive, Turn,
       ToRelease
<1>4. CASE Release
  <2>1. OneDomain
    BY <1>4, ReleaseShape
  <2> QED
    BY <1>4, <2>1 DEF OneDomain, SameLayers, SameObjects, Release
<1>5. CASE InitModule
  BY <1>5 DEF InitModule
<1>6. CASE Baseline
  BY <1>6 DEF Baseline
<1>7. CASE Recheck
  BY <1>7 DEF Recheck
<1>8. CASE WithPhy
  BY <1>8 DEF WithPhy, Hardware
<1>9. CASE ReadyPhy
  BY <1>9 DEF ReadyPhy, Check, FirstLayer, LeavePhy
<1>10. CASE PhyBack
  BY <1>10 DEF PhyBack, Hardware
<1>11. CASE WithMsi
  BY <1>11 DEF WithMsi, LeavePhy, Objects
<1>12. CASE MsiProgram
  BY <1>12 DEF MsiProgram, MsiAfter, LeaveMsi, Hardware
<1>13. CASE MsiOut
  <2>1. hw'.master = hw.master
    BY <1>13 DEF MsiOut, Hardware
  <2>2. SameObjects(obj', [obj EXCEPT !.msi = FALSE])
    BY <1>13 DEF MsiOut, SameObjects
  <2>3. /\ ~obj'.msi /\ obj'.dart = obj.dart /\ obj'.gpio = obj.gpio
        /\ obj'.host = obj.host /\ obj'.node = obj.node /\ obj'.driver = obj.driver
    BY <2>2 DEF SameObjects, Objects
  <2> QED
    BY <1>13, <2>1, <2>3 DEF MsiOut, LeavePhy
<1>14. CASE WithDart
  BY <1>14 DEF WithDart, LeaveDartLayer, LeaveMsi, Valid, Objects
<1>15. CASE DartCreate
  BY <1>15 DEF DartCreate, DartAfter, LeaveDart, Valid, Objects
<1>16. CASE DartRemove
  BY <1>16 DEF DartRemove, DartMapFails, Objects
<1>17. CASE DartRevert
  BY <1>17 DEF DartRevert, LeaveDartLayer, LeaveMsi, Valid, Objects
<1>18. CASE DartCheck
  BY <1>18 DEF DartCheck, Check, LeavePhy
<1>19. CASE PulseBaseline
  BY <1>19 DEF PulseBaseline, LeaveRadio, LeaveDart, LeavePhy, Valid, Objects
<1>20. CASE HoldReset
  BY <1>20 DEF HoldReset, Hardware
<1>21. CASE PowerOn
  BY <1>21 DEF PowerOn, Hardware
<1>22. CASE Held
  BY <1>22 DEF Held, Check
<1>23. CASE PowerOff
  BY <1>23 DEF PowerOff, Hardware
<1>24. CASE ResetBack
  BY <1>24 DEF ResetBack, Hardware
<1>25. CASE PutGpio
  BY <1>25 DEF PutGpio, LeaveRadio, LeaveDart, LeavePhy, Valid, Objects
<1>26. CASE Observe
  BY <1>26 DEF Observe
<1>27. CASE ReleasePerst
  BY <1>27 DEF ReleasePerst, Hardware
<1>28. CASE EnableLtssm
  BY <1>28 DEF EnableLtssm, Hardware
<1>29. CASE PollLink
  BY <1>29 DEF PollLink, Check
<1>30. CASE StopLink
  BY <1>30 DEF StopLink, Hardware
<1>31. CASE ResetAgain
  BY <1>31 DEF ResetAgain, Hardware
<1>32. CASE EnterEndpoint
  BY <1>32 DEF EnterEndpoint, Hardware
<1>33. CASE Identify
  BY <1>33 DEF Identify, Check
<1>34. CASE SnapshotChip
  BY <1>34 DEF SnapshotChip, Hardware
<1>35. CASE BusBack
  BY <1>35 DEF BusBack, Hardware
<1>36. CASE SaveControls
  BY <1>36 DEF SaveControls, Check
<1>37. CASE NodeCreate
  BY <1>37 DEF NodeCreate, Objects
<1>38. CASE CreateHost
  BY <1>38 DEF CreateHost, Objects
<1>39. CASE ScanBus
  BY <1>39 DEF ScanBus, Hardware
<1>40. CASE BindFirmware
  <2>1. PICK d \in BOOLEAN :
          /\ obj' = [obj EXCEPT !.driver = d]
          /\ d => pc' = "watch"
    BY <1>40 DEF BindFirmware, Objects
  <2>2. obj'.driver = d /\ SameObjects([obj' EXCEPT !.driver = obj.driver], obj)
    BY <2>1 DEF SameObjects, Objects
  <2>3. /\ obj'.msi = obj.msi /\ obj'.dart = obj.dart /\ obj'.gpio = obj.gpio
        /\ obj'.host = obj.host /\ obj'.node = obj.node
    BY <2>1 DEF Objects
  <2>4. hw'.master => pc' = "watch"
    BY <1>40 DEF BindFirmware, Hardware
  <2>5. pc' = "watch" \/ pc' = "removehost" \/ pc' = "detach"
    BY <1>40 DEF BindFirmware
  <2> QED
    BY <1>40, <2>1, <2>2, <2>3, <2>4, <2>5 DEF BindFirmware
<1>41. CASE Watch
  BY <1>41 DEF Watch, Check
<1>42. CASE HoldEnds
  BY <1>42 DEF HoldEnds
<1>43. CASE Detach
  BY <1>43 DEF Detach, Objects
<1>44. CASE ClearMaster
  BY <1>44 DEF ClearMaster, Hardware
<1>45. CASE RemoveHost
  BY <1>45 DEF RemoveHost, Objects
<1>46. CASE RestoreConfig
  BY <1>46 DEF RestoreConfig, Hardware
<1>47. CASE RemoveNode
  BY <1>47 DEF RemoveNode, Objects
<1>48. CASE HoldFault
  BY <1>48 DEF HoldFault
<1>49. CASE DriverGivesUp
  BY <1>49 DEF DriverGivesUp, Objects
<1>50. CASE Signal
  BY <1>50 DEF Signal
<1> QED
  BY <1>1, <1>2, <1>3, <1>4, <1>5, <1>6, <1>7, <1>8, <1>9, <1>10, <1>11,
     <1>12, <1>13, <1>14, <1>15, <1>16, <1>17, <1>18, <1>19, <1>20, <1>21,
     <1>22, <1>23, <1>24, <1>25, <1>26, <1>27, <1>28, <1>29, <1>30, <1>31,
     <1>32, <1>33, <1>34, <1>35, <1>36, <1>37, <1>38, <1>39, <1>40, <1>41,
     <1>42, <1>43, <1>44, <1>45, <1>46, <1>47, <1>48, <1>49, <1>50
     DEF Next, Call, Domains, Layers, Radio, Pci

\* Only the domain loops touch the domains and their consumers.
LEMMA DomsKept ==
  ASSUME TypeOK, Next, pc \notin {"resume", "force", "release"}
  PROVE  hw'.dom = hw.dom
<1> USE DEF TypeOK, Ok, Err, rest
<1>1. CASE Domains
  BY <1>1
     DEF Domains, InitModule, Baseline, Attach, Resume, ForceActive, Release,
     Recheck, Turn, ToRelease
<1>2. CASE Layers
  BY <1>2
     DEF Layers, Hardware, WithPhy, ReadyPhy, PhyBack, WithMsi, MsiProgram,
     MsiOut, WithDart, DartCreate, DartRemove, DartMapFails, DartRevert,
     DartCheck, Check
<1>3. CASE Radio
  BY <1>3
     DEF Radio, Hardware, PulseBaseline, HoldReset, PowerOn, Held, PowerOff,
     ResetBack, PutGpio, Observe, ReleasePerst, EnableLtssm, PollLink,
     StopLink, ResetAgain, Check
<1>4. CASE Pci
  BY <1>4
     DEF Pci, Hardware, EnterEndpoint, Identify, SnapshotChip, BusBack,
     SaveControls, NodeCreate, CreateHost, ScanBus, BindFirmware, Watch,
     HoldEnds, Detach, ClearMaster, RemoveHost, RestoreConfig, RemoveNode,
     Check
<1>5. CASE HoldFault \/ DriverGivesUp \/ Signal
  BY <1>5 DEF HoldFault, DriverGivesUp, Signal
<1> QED
  BY <1>1, <1>2, <1>3, <1>4, <1>5 DEF Next, Call

LEMMA ConsumersKept ==
  ASSUME TypeOK, Next, pc \notin {"attach", "release"}
  PROVE  obj'.consumer = obj.consumer
<1> USE DEF TypeOK, Ok, Err, rest
<1>1. CASE Domains
  BY <1>1
     DEF Domains, InitModule, Baseline, Attach, Resume, ForceActive, Release,
     Recheck, Turn, ToRelease
<1>2. CASE Layers
  BY <1>2
     DEF Layers, Objects, WithPhy, ReadyPhy, PhyBack, WithMsi, MsiProgram,
     MsiOut, WithDart, DartCreate, DartRemove, DartMapFails, DartRevert,
     DartCheck, Check
<1>3. CASE Radio
  BY <1>3
     DEF Radio, Objects, PulseBaseline, HoldReset, PowerOn, Held, PowerOff,
     ResetBack, PutGpio, Observe, ReleasePerst, EnableLtssm, PollLink,
     StopLink, ResetAgain, Check
<1>4. CASE Pci
  BY <1>4
     DEF Pci, Objects, EnterEndpoint, Identify, SnapshotChip, BusBack,
     SaveControls, NodeCreate, CreateHost, ScanBus, BindFirmware, Watch,
     HoldEnds, Detach, ClearMaster, RemoveHost, RestoreConfig, RemoveNode,
     Check
<1>5. CASE HoldFault \/ DriverGivesUp \/ Signal
  BY <1>5 DEF Objects, HoldFault, DriverGivesUp, Signal
<1> QED
  BY <1>1, <1>2, <1>3, <1>4, <1>5 DEF Next, Call

\* Which steps write each part of the hardware.
LEMMA PhyKept ==
  ASSUME TypeOK, Next, pc \notin {"phy", "phyback"}
  PROVE  hw'.phy = hw.phy
<1>1. CASE Resume
  BY <1>1, ResumeShape DEF OneDomain, SameLayers
<1>2. CASE ForceActive
  BY <1>2, ForceShape DEF OneDomain, SameLayers
<1>3. CASE Release
  BY <1>3, ReleaseShape DEF OneDomain, SameLayers
<1> USE DEF TypeOK, Ok, Err, rest
<1>4. CASE Domains
  BY <1>4, <1>1, <1>2, <1>3
     DEF Domains, InitModule, Baseline, Attach, Recheck, Turn, ToRelease
<1>5. CASE Layers
  BY <1>5
     DEF Layers, Hardware, WithPhy, ReadyPhy, PhyBack, WithMsi, MsiProgram,
     MsiOut, WithDart, DartCreate, DartRemove, DartMapFails, DartRevert,
     DartCheck, Check
<1>6. CASE Radio
  BY <1>6
     DEF Radio, Hardware, PulseBaseline, HoldReset, PowerOn, Held, PowerOff,
     ResetBack, PutGpio, Observe, ReleasePerst, EnableLtssm, PollLink,
     StopLink, ResetAgain, Check
<1>7. CASE Pci
  BY <1>7
     DEF Pci, Hardware, EnterEndpoint, Identify, SnapshotChip, BusBack,
     SaveControls, NodeCreate, CreateHost, ScanBus, BindFirmware, Watch,
     HoldEnds, Detach, ClearMaster, RemoveHost, RestoreConfig, RemoveNode,
     Check
<1>8. CASE HoldFault \/ DriverGivesUp \/ Signal
  BY <1>8 DEF HoldFault, DriverGivesUp, Signal
<1> QED
  BY <1>4, <1>5, <1>6, <1>7, <1>8 DEF Next, Call

LEMMA ResetKept ==
  ASSUME TypeOK, Next, pc \notin {"reset", "power", "poweroff", "resetback",
         "perst", "resetagain"}
  PROVE  hw'.pmu = hw.pmu /\ hw'.perst = hw.perst
<1>1. CASE Resume
  BY <1>1, ResumeShape DEF OneDomain, SameLayers
<1>2. CASE ForceActive
  BY <1>2, ForceShape DEF OneDomain, SameLayers
<1>3. CASE Release
  BY <1>3, ReleaseShape DEF OneDomain, SameLayers
<1> USE DEF TypeOK, Ok, Err, rest
<1>4. CASE Domains
  BY <1>4, <1>1, <1>2, <1>3
     DEF Domains, InitModule, Baseline, Attach, Recheck, Turn, ToRelease
<1>5. CASE Layers
  BY <1>5
     DEF Layers, Hardware, WithPhy, ReadyPhy, PhyBack, WithMsi, MsiProgram,
     MsiOut, WithDart, DartCreate, DartRemove, DartMapFails, DartRevert,
     DartCheck, Check
<1>6. CASE Radio
  BY <1>6
     DEF Radio, Hardware, PulseBaseline, HoldReset, PowerOn, Held, PowerOff,
     ResetBack, PutGpio, Observe, ReleasePerst, EnableLtssm, PollLink,
     StopLink, ResetAgain, Check
<1>7. CASE Pci
  BY <1>7
     DEF Pci, Hardware, EnterEndpoint, Identify, SnapshotChip, BusBack,
     SaveControls, NodeCreate, CreateHost, ScanBus, BindFirmware, Watch,
     HoldEnds, Detach, ClearMaster, RemoveHost, RestoreConfig, RemoveNode,
     Check
<1>8. CASE HoldFault \/ DriverGivesUp \/ Signal
  BY <1>8 DEF HoldFault, DriverGivesUp, Signal
<1> QED
  BY <1>4, <1>5, <1>6, <1>7, <1>8 DEF Next, Call

LEMMA MsiKept ==
  ASSUME TypeOK, Next, pc \notin {"msiprogram", "msiout"}
  PROVE  hw'.msi = hw.msi
<1>1. CASE Resume
  BY <1>1, ResumeShape DEF OneDomain, SameLayers
<1>2. CASE ForceActive
  BY <1>2, ForceShape DEF OneDomain, SameLayers
<1>3. CASE Release
  BY <1>3, ReleaseShape DEF OneDomain, SameLayers
<1> USE DEF TypeOK, Ok, Err, rest
<1>4. CASE Domains
  BY <1>4, <1>1, <1>2, <1>3
     DEF Domains, InitModule, Baseline, Attach, Recheck, Turn, ToRelease
<1>5. CASE Layers
  BY <1>5
     DEF Layers, Hardware, WithPhy, ReadyPhy, PhyBack, WithMsi, MsiProgram,
     MsiOut, WithDart, DartCreate, DartRemove, DartMapFails, DartRevert,
     DartCheck, Check
<1>6. CASE Radio
  BY <1>6
     DEF Radio, Hardware, PulseBaseline, HoldReset, PowerOn, Held, PowerOff,
     ResetBack, PutGpio, Observe, ReleasePerst, EnableLtssm, PollLink,
     StopLink, ResetAgain, Check
<1>7. CASE Pci
  BY <1>7
     DEF Pci, Hardware, EnterEndpoint, Identify, SnapshotChip, BusBack,
     SaveControls, NodeCreate, CreateHost, ScanBus, BindFirmware, Watch,
     HoldEnds, Detach, ClearMaster, RemoveHost, RestoreConfig, RemoveNode,
     Check
<1>8. CASE HoldFault \/ DriverGivesUp \/ Signal
  BY <1>8 DEF HoldFault, DriverGivesUp, Signal
<1> QED
  BY <1>4, <1>5, <1>6, <1>7, <1>8 DEF Next, Call

LEMMA LinkKept ==
  ASSUME TypeOK, Next, pc \notin {"train", "stoplink"}
  PROVE  hw'.ltssm = hw.ltssm
<1>1. CASE Resume
  BY <1>1, ResumeShape DEF OneDomain, SameLayers
<1>2. CASE ForceActive
  BY <1>2, ForceShape DEF OneDomain, SameLayers
<1>3. CASE Release
  BY <1>3, ReleaseShape DEF OneDomain, SameLayers
<1> USE DEF TypeOK, Ok, Err, rest
<1>4. CASE Domains
  BY <1>4, <1>1, <1>2, <1>3
     DEF Domains, InitModule, Baseline, Attach, Recheck, Turn, ToRelease
<1>5. CASE Layers
  BY <1>5
     DEF Layers, Hardware, WithPhy, ReadyPhy, PhyBack, WithMsi, MsiProgram,
     MsiOut, WithDart, DartCreate, DartRemove, DartMapFails, DartRevert,
     DartCheck, Check
<1>6. CASE Radio
  BY <1>6
     DEF Radio, Hardware, PulseBaseline, HoldReset, PowerOn, Held, PowerOff,
     ResetBack, PutGpio, Observe, ReleasePerst, EnableLtssm, PollLink,
     StopLink, ResetAgain, Check
<1>7. CASE Pci
  BY <1>7
     DEF Pci, Hardware, EnterEndpoint, Identify, SnapshotChip, BusBack,
     SaveControls, NodeCreate, CreateHost, ScanBus, BindFirmware, Watch,
     HoldEnds, Detach, ClearMaster, RemoveHost, RestoreConfig, RemoveNode,
     Check
<1>8. CASE HoldFault \/ DriverGivesUp \/ Signal
  BY <1>8 DEF HoldFault, DriverGivesUp, Signal
<1> QED
  BY <1>4, <1>5, <1>6, <1>7, <1>8 DEF Next, Call

LEMMA BusKept ==
  ASSUME TypeOK, Next, pc \notin {"endpoint", "busback"}
  PROVE  hw'.bus = hw.bus
<1>1. CASE Resume
  BY <1>1, ResumeShape DEF OneDomain, SameLayers
<1>2. CASE ForceActive
  BY <1>2, ForceShape DEF OneDomain, SameLayers
<1>3. CASE Release
  BY <1>3, ReleaseShape DEF OneDomain, SameLayers
<1> USE DEF TypeOK, Ok, Err, rest
<1>4. CASE Domains
  BY <1>4, <1>1, <1>2, <1>3
     DEF Domains, InitModule, Baseline, Attach, Recheck, Turn, ToRelease
<1>5. CASE Layers
  BY <1>5
     DEF Layers, Hardware, WithPhy, ReadyPhy, PhyBack, WithMsi, MsiProgram,
     MsiOut, WithDart, DartCreate, DartRemove, DartMapFails, DartRevert,
     DartCheck, Check
<1>6. CASE Radio
  BY <1>6
     DEF Radio, Hardware, PulseBaseline, HoldReset, PowerOn, Held, PowerOff,
     ResetBack, PutGpio, Observe, ReleasePerst, EnableLtssm, PollLink,
     StopLink, ResetAgain, Check
<1>7. CASE Pci
  BY <1>7
     DEF Pci, Hardware, EnterEndpoint, Identify, SnapshotChip, BusBack,
     SaveControls, NodeCreate, CreateHost, ScanBus, BindFirmware, Watch,
     HoldEnds, Detach, ClearMaster, RemoveHost, RestoreConfig, RemoveNode,
     Check
<1>8. CASE HoldFault \/ DriverGivesUp \/ Signal
  BY <1>8 DEF HoldFault, DriverGivesUp, Signal
<1> QED
  BY <1>4, <1>5, <1>6, <1>7, <1>8 DEF Next, Call

LEMMA ConfigKept ==
  ASSUME TypeOK, Next, pc \notin {"chip", "scan", "restorecfg"}
  PROVE  hw'.cfg = hw.cfg
<1>1. CASE Resume
  BY <1>1, ResumeShape DEF OneDomain, SameLayers
<1>2. CASE ForceActive
  BY <1>2, ForceShape DEF OneDomain, SameLayers
<1>3. CASE Release
  BY <1>3, ReleaseShape DEF OneDomain, SameLayers
<1> USE DEF TypeOK, Ok, Err, rest
<1>4. CASE Domains
  BY <1>4, <1>1, <1>2, <1>3
     DEF Domains, InitModule, Baseline, Attach, Recheck, Turn, ToRelease
<1>5. CASE Layers
  BY <1>5
     DEF Layers, Hardware, WithPhy, ReadyPhy, PhyBack, WithMsi, MsiProgram,
     MsiOut, WithDart, DartCreate, DartRemove, DartMapFails, DartRevert,
     DartCheck, Check
<1>6. CASE Radio
  BY <1>6
     DEF Radio, Hardware, PulseBaseline, HoldReset, PowerOn, Held, PowerOff,
     ResetBack, PutGpio, Observe, ReleasePerst, EnableLtssm, PollLink,
     StopLink, ResetAgain, Check
<1>7. CASE Pci
  BY <1>7
     DEF Pci, Hardware, EnterEndpoint, Identify, SnapshotChip, BusBack,
     SaveControls, NodeCreate, CreateHost, ScanBus, BindFirmware, Watch,
     HoldEnds, Detach, ClearMaster, RemoveHost, RestoreConfig, RemoveNode,
     Check
<1>8. CASE HoldFault \/ DriverGivesUp \/ Signal
  BY <1>8 DEF HoldFault, DriverGivesUp, Signal
<1> QED
  BY <1>4, <1>5, <1>6, <1>7, <1>8 DEF Next, Call

\* DomainInv is kept: each loop has finished all domains when it ends.
LEMMA DomainStep ==
  ASSUME TypeOK, OptionInv, DomainInv, Next
  PROVE  DomainInv'
<1>a. 1 \in Doms /\ NDoms \in Doms /\ \A d \in Doms : d \in Nat /\ 1 <= d /\ d <= NDoms
  BY ProbeAssumption DEF Doms
<1>b. i \in Doms
  BY DEF TypeOK
<1> USE DEF DomainInv, FirstOf, DriverPcs, HostPcs, NodePcs, BusPcs, LinkPcs,
      PowerPcs, ResetPcs, GpioPcs, RadioPcs, DartPcs, MsiPcs, PhyPcs, AheadPcs
<1>1. CASE Attach
  <2>1. OneDomain /\ hw' = hw /\ (pc' # "release" => obj'.consumer[i])
    BY <1>1, AttachShape
  <2> QED
    BY <1>1, <1>a, <1>b, <2>1 DEF OneDomain, Attach, Turn, ToRelease
<1>2. CASE Resume
  <2>1. OneDomain /\ obj' = obj /\ (pc' # "release" => hw'.dom[i].on)
    BY <1>2, ResumeShape
  <2>2. hw'.phy = hw.phy /\ hw.phy = "off"
    BY <1>2, <2>1 DEF OneDomain, SameLayers, Resume, Turn, ToRelease
  <2>3. CASE pc' = "release"
    BY <2>2, <2>3
  <2>4. CASE pc' # "release"
    <3>1. hw'.dom[i].on
      BY <2>1, <2>4
    <3> QED
      BY <1>2, <1>a, <1>b, <2>1, <2>2, <2>4, <3>1 DEF OneDomain, Resume, Turn,
         ToRelease
  <2> QED
    BY <2>3, <2>4
<1>3. CASE ForceActive
  <2>1. OneDomain /\ obj' = obj /\ hw'.dom[i].on = hw.dom[i].on
    BY <1>3, ForceShape
  <2>2. hw'.phy = hw.phy /\ pc = "force"
    BY <1>3, <2>1 DEF OneDomain, SameLayers, ForceActive, Turn, ToRelease
  <2>3. \A d \in Doms : hw'.dom[d].on = hw.dom[d].on
    BY <2>1, <1>b DEF OneDomain
  <2> QED
    BY <1>3, <2>1, <2>2, <2>3 DEF ForceActive, Turn, ToRelease
<1>4. CASE Release
  <2>1. hw'.phy = hw.phy
    BY <1>4, ReleaseShape DEF OneDomain, SameLayers
  <2> QED
    BY <1>4, <2>1 DEF Release
<1>5. CASE WithPhy
  BY <1>5, DomsKept, ConsumersKept DEF WithPhy, Ok, Err, TypeOK, Hardware
<1>6. CASE PhyBack
  BY <1>6 DEF PhyBack, TypeOK, Hardware
<1>7. CASE Baseline
  BY <1>7, <1>a DEF Baseline, Ok, Err, rest
<1>8. CASE \/ InitModule \/ Recheck \/ ReadyPhy \/ WithMsi \/ MsiProgram
           \/ MsiOut \/ WithDart \/ DartCreate \/ DartRemove \/ DartRevert
           \/ DartCheck \/ PulseBaseline \/ HoldReset \/ PowerOn \/ Held
           \/ PowerOff \/ ResetBack \/ PutGpio \/ Observe \/ ReleasePerst
           \/ EnableLtssm \/ PollLink \/ StopLink \/ ResetAgain
           \/ EnterEndpoint \/ Identify \/ SnapshotChip \/ BusBack
           \/ SaveControls \/ NodeCreate \/ CreateHost \/ ScanBus
           \/ BindFirmware \/ Watch \/ HoldEnds \/ Detach \/ ClearMaster
           \/ RemoveHost \/ RestoreConfig \/ RemoveNode \/ HoldFault
           \/ DriverGivesUp \/ Signal
  <2>2. pc \notin {"attach", "resume", "force", "release", "phy", "phyback"}
    BY <1>8 DEF Ok, Err, Check, InitModule, Recheck, ReadyPhy, WithMsi,
       MsiProgram, MsiOut, WithDart, DartCreate, DartRemove, DartMapFails,
       DartRevert,
       DartCheck, PulseBaseline, HoldReset, PowerOn, Held, PowerOff,
       ResetBack, PutGpio, Observe, ReleasePerst, EnableLtssm, PollLink,
       StopLink, ResetAgain, EnterEndpoint, Identify, SnapshotChip, BusBack,
       SaveControls, NodeCreate, CreateHost, ScanBus, BindFirmware, Watch,
       HoldEnds, Detach, ClearMaster, RemoveHost, RestoreConfig, RemoveNode,
       HoldFault, DriverGivesUp, Signal
  <2>1. hw'.phy = hw.phy /\ hw'.dom = hw.dom /\ obj'.consumer = obj.consumer
    BY <2>2, PhyKept, DomsKept, ConsumersKept
  <2>3. CASE \/ InitModule \/ Recheck \/ ReadyPhy \/ WithMsi \/ MsiProgram
             \/ MsiOut \/ WithDart \/ DartCreate \/ DartRemove \/ DartRevert
             \/ DartCheck \/ PulseBaseline
    BY <2>1, <2>2, <2>3 DEF Ok, Err, Check, rest, InitModule, Recheck,
       ReadyPhy, WithMsi, MsiProgram, MsiOut, WithDart, DartCreate,
       DartRemove, DartMapFails, DartRevert, DartCheck, PulseBaseline,
       FirstLayer, LeavePhy,
       MsiAfter, LeaveMsi, LeaveDartLayer, Valid, DartAfter, LeaveDart,
       LeaveRadio
  <2>4. CASE \/ HoldReset \/ PowerOn \/ Held \/ PowerOff \/ ResetBack
             \/ PutGpio \/ Observe \/ ReleasePerst \/ EnableLtssm \/ PollLink
             \/ StopLink \/ ResetAgain
    BY <2>1, <2>2, <2>4 DEF Ok, Err, Check, rest, HoldReset, PowerOn, Held,
       PowerOff, ResetBack, PutGpio, Observe, ReleasePerst, EnableLtssm,
       PollLink, StopLink, ResetAgain, LeaveRadio, LeaveDart, LeavePhy, Valid
  <2>5. CASE \/ EnterEndpoint \/ Identify \/ SnapshotChip \/ BusBack
             \/ SaveControls \/ NodeCreate \/ CreateHost \/ ScanBus
             \/ BindFirmware \/ Watch \/ HoldEnds \/ Detach
    BY <2>1, <2>2, <2>5 DEF Ok, Err, Check, rest, EnterEndpoint, Identify,
       SnapshotChip, BusBack, SaveControls, NodeCreate, CreateHost, ScanBus,
       BindFirmware, Watch, HoldEnds, Detach
  <2>6. CASE \/ ClearMaster \/ RemoveHost \/ RestoreConfig \/ RemoveNode
             \/ HoldFault \/ DriverGivesUp \/ Signal
    BY <2>1, <2>2, <2>6 DEF Ok, Err, Check, rest, ClearMaster, RemoveHost,
       RestoreConfig, RemoveNode, HoldFault, DriverGivesUp, Signal
  <2> QED
    BY <1>8, <2>3, <2>4, <2>5, <2>6
<1> QED
  BY <1>1, <1>2, <1>3, <1>4, <1>5, <1>6, <1>7, <1>8
     DEF Next, Call, Domains, Layers, Radio, Pci

\* ResetInv is kept: power goes on after reset, and off before it.
LEMMA ResetStep ==
  ASSUME TypeOK, OptionInv, ResetInv, PowerInv, Next
  PROVE  ResetInv'
<1> USE DEF ResetInv, NeverUnreset, PowerInv, OptionInv, DriverPcs, HostPcs,
      NodePcs, BusPcs, LinkPcs, PowerPcs, ResetPcs, GpioPcs, RadioPcs,
      DartPcs, MsiPcs, PhyPcs, AheadPcs
<1>1. CASE HoldReset
  BY <1>1, OptionsKept DEF HoldReset, Ok, Err, rest, TypeOK, Hardware
<1>2. CASE PowerOn
  BY <1>2, OptionsKept DEF PowerOn, Ok, Err, rest, TypeOK, Hardware
<1>3. CASE PowerOff
  BY <1>3, OptionsKept DEF PowerOff, Ok, Err, rest, TypeOK, Hardware
<1>4. CASE ResetBack
  BY <1>4, OptionsKept DEF ResetBack, Ok, Err, rest, TypeOK, Hardware
<1>5. CASE ReleasePerst
  BY <1>5, OptionsKept DEF ReleasePerst, Ok, Err, rest, TypeOK, Hardware
<1>6. CASE ResetAgain
  BY <1>6, OptionsKept DEF ResetAgain, Ok, Err, rest, TypeOK, Hardware
<1>7. CASE Domains
  BY <1>7, ResetKept, OptionsKept
     DEF Domains, Ok, Err, Check, rest, InitModule, Baseline, Attach, Resume,
     ForceActive, Release, Recheck, Turn, ToRelease
<1>8. CASE Layers
  BY <1>8, ResetKept, OptionsKept
     DEF Layers, Ok, Err, Check, rest, WithPhy, ReadyPhy, PhyBack, WithMsi,
     MsiProgram, MsiOut, WithDart, DartCreate, DartRemove, DartMapFails,
     DartRevert,
     DartCheck, FirstLayer, LeavePhy, MsiAfter, LeaveMsi, LeaveDartLayer,
     Valid, DartAfter, LeaveDart
<1>9. CASE Radio
  BY <1>9, <1>1, <1>2, <1>3, <1>4, <1>5, <1>6, ResetKept, OptionsKept
     DEF Radio, Ok, Err, Check, rest, PulseBaseline, Held, PutGpio, Observe,
     EnableLtssm, PollLink, StopLink, LeaveRadio, LeaveDart, LeavePhy, Valid
<1>10. CASE Pci
  BY <1>10, ResetKept, OptionsKept
     DEF Pci, Ok, Err, Check, rest, EnterEndpoint, Identify, SnapshotChip,
     BusBack, SaveControls, NodeCreate, CreateHost, ScanBus, BindFirmware,
     Watch, HoldEnds, Detach, ClearMaster, RemoveHost, RestoreConfig,
     RemoveNode
<1>11. CASE HoldFault \/ DriverGivesUp \/ Signal
  BY <1>11, ResetKept, OptionsKept DEF Err, rest, HoldFault, DriverGivesUp,
     Signal
<1> QED
  BY <1>7, <1>8, <1>9, <1>10, <1>11 DEF Next, Call

\* The parts of the hardware, each while nothing fails.
LEMMA PhyStep ==
  ASSUME TypeOK, OptionInv, DomainInv, PhyInv, Next
  PROVE  PhyInv'
<1> USE DEF PhyInv, DomainInv, OptionInv, DriverPcs, HostPcs, NodePcs, BusPcs,
      LinkPcs, PowerPcs, ResetPcs, GpioPcs, RadioPcs, DartPcs, MsiPcs, PhyPcs,
      AheadPcs
<1>1. CASE WithPhy
  BY <1>1, OptionsKept DEF WithPhy, Ok, Err, rest, TypeOK, Hardware
<1>2. CASE PhyBack
  BY <1>2, OptionsKept DEF PhyBack, Ok, Err, rest, TypeOK, Hardware
<1>3. CASE Domains
  BY <1>3, PhyKept, OptionsKept
     DEF Domains, Ok, Err, Check, rest, InitModule, Baseline, Attach, Resume,
     ForceActive, Release, Recheck, Turn, ToRelease
<1>4. CASE Layers
  BY <1>4, <1>1, <1>2, PhyKept, OptionsKept
     DEF Layers, Ok, Err, Check, rest, ReadyPhy, WithMsi, MsiProgram, MsiOut,
     WithDart, DartCreate, DartRemove, DartMapFails, DartRevert, DartCheck,
     FirstLayer,
     LeavePhy, MsiAfter, LeaveMsi, LeaveDartLayer, Valid, DartAfter, LeaveDart
<1>5. CASE Radio
  BY <1>5, PhyKept, OptionsKept
     DEF Radio, Ok, Err, Check, rest, PulseBaseline, HoldReset, PowerOn, Held,
     PowerOff, ResetBack, PutGpio, Observe, ReleasePerst, EnableLtssm,
     PollLink, StopLink, ResetAgain, LeaveRadio, LeaveDart, LeavePhy, Valid
<1>6. CASE Pci
  BY <1>6, PhyKept, OptionsKept
     DEF Pci, Ok, Err, Check, rest, EnterEndpoint, Identify, SnapshotChip,
     BusBack, SaveControls, NodeCreate, CreateHost, ScanBus, BindFirmware,
     Watch, HoldEnds, Detach, ClearMaster, RemoveHost, RestoreConfig,
     RemoveNode
<1>7. CASE HoldFault \/ DriverGivesUp \/ Signal
  BY <1>7, PhyKept, OptionsKept DEF Err, rest, HoldFault, DriverGivesUp,
     Signal
<1> QED
  BY <1>3, <1>4, <1>5, <1>6, <1>7 DEF Next, Call

LEMMA MsiStep ==
  ASSUME TypeOK, OptionInv, MsiInv, Next
  PROVE  MsiInv'
<1> USE DEF MsiInv, InMsi, OptionInv, Has, DriverPcs, HostPcs, NodePcs,
      BusPcs, LinkPcs, PowerPcs, ResetPcs, GpioPcs, RadioPcs, DartPcs, MsiPcs,
      PhyPcs, AheadPcs
<1>1. CASE MsiProgram
  BY <1>1, OptionsKept DEF MsiProgram, MsiAfter, LeaveMsi, Ok, Err, rest,
     TypeOK, Hardware, Valid
<1>2. CASE MsiOut
  BY <1>2, OptionsKept DEF MsiOut, LeavePhy, Ok, Err, rest, TypeOK, Hardware
<1>3. CASE Domains
  BY <1>3, MsiKept, OptionsKept
     DEF Domains, Ok, Err, Check, rest, InitModule, Baseline, Attach, Resume,
     ForceActive, Release, Recheck, Turn, ToRelease, Valid
<1>4. CASE Layers
  BY <1>4, <1>1, <1>2, MsiKept, OptionsKept
     DEF Layers, Ok, Err, Check, rest, WithPhy, ReadyPhy, PhyBack, WithMsi,
     WithDart, DartCreate, DartRemove, DartMapFails, DartRevert, DartCheck,
     FirstLayer,
     LeavePhy, LeaveDartLayer, LeaveMsi, Valid, DartAfter, LeaveDart, Valid
<1>5. CASE Radio
  BY <1>5, MsiKept, OptionsKept
     DEF Radio, Ok, Err, Check, rest, PulseBaseline, HoldReset, PowerOn, Held,
     PowerOff, ResetBack, PutGpio, Observe, ReleasePerst, EnableLtssm,
     PollLink, StopLink, ResetAgain, LeaveRadio, LeaveDart, LeavePhy, Valid,
     Valid
<1>6. CASE Pci
  BY <1>6, MsiKept, OptionsKept
     DEF Pci, Ok, Err, Check, rest, EnterEndpoint, Identify, SnapshotChip,
     BusBack, SaveControls, NodeCreate, CreateHost, ScanBus, BindFirmware,
     Watch, HoldEnds, Detach, ClearMaster, RemoveHost, RestoreConfig,
     RemoveNode, Valid
<1>7. CASE HoldFault \/ DriverGivesUp \/ Signal
  BY <1>7, MsiKept, OptionsKept DEF Err, rest, HoldFault, DriverGivesUp,
     Signal
<1> QED
  BY <1>3, <1>4, <1>5, <1>6, <1>7 DEF Next, Call

LEMMA PowerStep ==
  ASSUME TypeOK, OptionInv, ResetInv, PowerInv, Next
  PROVE  PowerInv'
<1> USE DEF PowerInv, ResetInv, OptionInv, DriverPcs, HostPcs, NodePcs,
      BusPcs, LinkPcs, PowerPcs, ResetPcs, GpioPcs, RadioPcs, DartPcs, MsiPcs,
      PhyPcs, AheadPcs
<1>1. CASE HoldReset
  BY <1>1, OptionsKept DEF HoldReset, Ok, Err, rest, TypeOK, Hardware
<1>2. CASE PowerOn
  BY <1>2, OptionsKept DEF PowerOn, Ok, Err, rest, TypeOK, Hardware
<1>3. CASE PowerOff
  BY <1>3, OptionsKept DEF PowerOff, Ok, Err, rest, TypeOK, Hardware
<1>4. CASE ResetBack
  BY <1>4, OptionsKept DEF ResetBack, Ok, Err, rest, TypeOK, Hardware
<1>5. CASE ReleasePerst
  BY <1>5, OptionsKept DEF ReleasePerst, Ok, Err, rest, TypeOK, Hardware
<1>6. CASE ResetAgain
  BY <1>6, OptionsKept DEF ResetAgain, Ok, Err, rest, TypeOK, Hardware
<1>7. CASE Domains
  BY <1>7, ResetKept, OptionsKept
     DEF Domains, Ok, Err, Check, rest, InitModule, Baseline, Attach, Resume,
     ForceActive, Release, Recheck, Turn, ToRelease
<1>8. CASE Layers
  BY <1>8, ResetKept, OptionsKept
     DEF Layers, Ok, Err, Check, rest, WithPhy, ReadyPhy, PhyBack, WithMsi,
     MsiProgram, MsiOut, WithDart, DartCreate, DartRemove, DartMapFails,
     DartRevert,
     DartCheck, FirstLayer, LeavePhy, MsiAfter, LeaveMsi, LeaveDartLayer,
     Valid, DartAfter, LeaveDart
<1>9. CASE Radio
  BY <1>9, <1>1, <1>2, <1>3, <1>4, <1>5, <1>6, ResetKept, OptionsKept
     DEF Radio, Ok, Err, Check, rest, PulseBaseline, Held, PutGpio, Observe,
     EnableLtssm, PollLink, StopLink, LeaveRadio, LeaveDart, LeavePhy, Valid
<1>10. CASE Pci
  BY <1>10, ResetKept, OptionsKept
     DEF Pci, Ok, Err, Check, rest, EnterEndpoint, Identify, SnapshotChip,
     BusBack, SaveControls, NodeCreate, CreateHost, ScanBus, BindFirmware,
     Watch, HoldEnds, Detach, ClearMaster, RemoveHost, RestoreConfig,
     RemoveNode
<1>11. CASE HoldFault \/ DriverGivesUp \/ Signal
  BY <1>11, ResetKept, OptionsKept DEF Err, rest, HoldFault, DriverGivesUp,
     Signal
<1> QED
  BY <1>7, <1>8, <1>9, <1>10, <1>11 DEF Next, Call

LEMMA LinkStep ==
  ASSUME TypeOK, OptionInv, LinkInv, Next
  PROVE  LinkInv'
<1> USE DEF LinkInv, OptionInv, DriverPcs, HostPcs, NodePcs, BusPcs, LinkPcs,
      PowerPcs, ResetPcs, GpioPcs, RadioPcs, DartPcs, MsiPcs, PhyPcs, AheadPcs
<1>1. CASE EnableLtssm
  BY <1>1, OptionsKept DEF EnableLtssm, Ok, Err, rest, TypeOK, Hardware
<1>2. CASE StopLink
  BY <1>2, OptionsKept DEF StopLink, Ok, Err, rest, TypeOK, Hardware
<1>3. CASE Domains
  BY <1>3, LinkKept, OptionsKept
     DEF Domains, Ok, Err, Check, rest, InitModule, Baseline, Attach, Resume,
     ForceActive, Release, Recheck, Turn, ToRelease
<1>4. CASE Layers
  BY <1>4, LinkKept, OptionsKept
     DEF Layers, Ok, Err, Check, rest, WithPhy, ReadyPhy, PhyBack, WithMsi,
     MsiProgram, MsiOut, WithDart, DartCreate, DartRemove, DartMapFails,
     DartRevert,
     DartCheck, FirstLayer, LeavePhy, MsiAfter, LeaveMsi, LeaveDartLayer,
     Valid, DartAfter, LeaveDart
<1>5. CASE Radio
  BY <1>5, <1>1, <1>2, LinkKept, OptionsKept
     DEF Radio, Ok, Err, Check, rest, PulseBaseline, HoldReset, PowerOn, Held,
     PowerOff, ResetBack, PutGpio, Observe, ReleasePerst, PollLink,
     ResetAgain, LeaveRadio, LeaveDart, LeavePhy, Valid
<1>6. CASE Pci
  BY <1>6, LinkKept, OptionsKept
     DEF Pci, Ok, Err, Check, rest, EnterEndpoint, Identify, SnapshotChip,
     BusBack, SaveControls, NodeCreate, CreateHost, ScanBus, BindFirmware,
     Watch, HoldEnds, Detach, ClearMaster, RemoveHost, RestoreConfig,
     RemoveNode
<1>7. CASE HoldFault \/ DriverGivesUp \/ Signal
  BY <1>7, LinkKept, OptionsKept DEF Err, rest, HoldFault, DriverGivesUp,
     Signal
<1> QED
  BY <1>3, <1>4, <1>5, <1>6, <1>7 DEF Next, Call

LEMMA BusStep ==
  ASSUME TypeOK, OptionInv, BusInv, Next
  PROVE  BusInv'
<1> USE DEF BusInv, OptionInv, DriverPcs, HostPcs, NodePcs, BusPcs, LinkPcs,
      PowerPcs, ResetPcs, GpioPcs, RadioPcs, DartPcs, MsiPcs, PhyPcs, AheadPcs
<1>1. CASE EnterEndpoint
  BY <1>1, OptionsKept DEF EnterEndpoint, Ok, Err, rest, TypeOK, Hardware
<1>2. CASE BusBack
  BY <1>2, OptionsKept DEF BusBack, Ok, Err, rest, TypeOK, Hardware
<1>3. CASE Domains
  BY <1>3, BusKept, OptionsKept
     DEF Domains, Ok, Err, Check, rest, InitModule, Baseline, Attach, Resume,
     ForceActive, Release, Recheck, Turn, ToRelease
<1>4. CASE Layers
  BY <1>4, BusKept, OptionsKept
     DEF Layers, Ok, Err, Check, rest, WithPhy, ReadyPhy, PhyBack, WithMsi,
     MsiProgram, MsiOut, WithDart, DartCreate, DartRemove, DartMapFails,
     DartRevert,
     DartCheck, FirstLayer, LeavePhy, MsiAfter, LeaveMsi, LeaveDartLayer,
     Valid, DartAfter, LeaveDart
<1>5. CASE Radio
  BY <1>5, BusKept, OptionsKept
     DEF Radio, Ok, Err, Check, rest, PulseBaseline, HoldReset, PowerOn, Held,
     PowerOff, ResetBack, PutGpio, Observe, ReleasePerst, EnableLtssm,
     PollLink, StopLink, ResetAgain, LeaveRadio, LeaveDart, LeavePhy, Valid
<1>6. CASE Pci
  BY <1>6, <1>1, <1>2, BusKept, OptionsKept
     DEF Pci, Ok, Err, Check, rest, Identify, SnapshotChip, SaveControls,
     NodeCreate, CreateHost, ScanBus, BindFirmware, Watch, HoldEnds, Detach,
     ClearMaster, RemoveHost, RestoreConfig, RemoveNode
<1>7. CASE HoldFault \/ DriverGivesUp \/ Signal
  BY <1>7, BusKept, OptionsKept DEF Err, rest, HoldFault, DriverGivesUp,
     Signal
<1> QED
  BY <1>3, <1>4, <1>5, <1>6, <1>7 DEF Next, Call

LEMMA ConfigStep ==
  ASSUME TypeOK, OptionInv, ConfigInv, Next
  PROVE  ConfigInv'
<1> USE DEF ConfigInv, OptionInv, DriverPcs, HostPcs, NodePcs, BusPcs,
      LinkPcs, PowerPcs, ResetPcs, GpioPcs, RadioPcs, DartPcs, MsiPcs, PhyPcs,
      AheadPcs
<1>1. CASE SnapshotChip
  BY <1>1, OptionsKept DEF SnapshotChip, Ok, Err, rest, TypeOK, Hardware
<1>2. CASE ScanBus
  BY <1>2, OptionsKept DEF ScanBus, Ok, Err, rest, TypeOK, Hardware
<1>3. CASE RestoreConfig
  BY <1>3, OptionsKept DEF RestoreConfig, Ok, Err, rest, TypeOK, Hardware
<1>4. CASE Domains
  BY <1>4, ConfigKept, OptionsKept
     DEF Domains, Ok, Err, Check, rest, InitModule, Baseline, Attach, Resume,
     ForceActive, Release, Recheck, Turn, ToRelease
<1>5. CASE Layers
  BY <1>5, ConfigKept, OptionsKept
     DEF Layers, Ok, Err, Check, rest, WithPhy, ReadyPhy, PhyBack, WithMsi,
     MsiProgram, MsiOut, WithDart, DartCreate, DartRemove, DartMapFails,
     DartRevert,
     DartCheck, FirstLayer, LeavePhy, MsiAfter, LeaveMsi, LeaveDartLayer,
     Valid, DartAfter, LeaveDart
<1>6. CASE Radio
  BY <1>6, ConfigKept, OptionsKept
     DEF Radio, Ok, Err, Check, rest, PulseBaseline, HoldReset, PowerOn, Held,
     PowerOff, ResetBack, PutGpio, Observe, ReleasePerst, EnableLtssm,
     PollLink, StopLink, ResetAgain, LeaveRadio, LeaveDart, LeavePhy, Valid
<1>7. CASE Pci
  BY <1>7, <1>1, <1>2, <1>3, ConfigKept, OptionsKept
     DEF Pci, Ok, Err, Check, rest, EnterEndpoint, Identify, BusBack,
     SaveControls, NodeCreate, CreateHost, BindFirmware, Watch, HoldEnds,
     Detach, ClearMaster, RemoveHost, RemoveNode
<1>8. CASE HoldFault \/ DriverGivesUp \/ Signal
  BY <1>8, ConfigKept, OptionsKept DEF Err, rest, HoldFault, DriverGivesUp,
     Signal
<1> QED
  BY <1>4, <1>5, <1>6, <1>7, <1>8 DEF Next, Call

\* BaseInv is kept: a cycle goes on only with all domains off.
LEMMA BaseStep ==
  ASSUME TypeOK, BaseInv, Next
  PROVE  BaseInv'
<1> USE OptionsKept DEF BaseInv
<1>1. CASE InitModule
  BY <1>1 DEF InitModule, Ok, Err, rest
<1>2. CASE Baseline
  BY <1>2 DEF Baseline, Ok, Err, rest
<1>3. CASE \/ Attach \/ Resume \/ ForceActive \/ Release \/ Recheck
           \/ WithPhy \/ ReadyPhy \/ PhyBack \/ WithMsi \/ MsiProgram
           \/ MsiOut \/ WithDart \/ DartCreate \/ DartRemove \/ DartRevert
           \/ DartCheck \/ PulseBaseline \/ HoldReset \/ PowerOn \/ Held
           \/ PowerOff \/ ResetBack \/ PutGpio \/ Observe \/ ReleasePerst
           \/ EnableLtssm \/ PollLink \/ StopLink \/ ResetAgain
           \/ EnterEndpoint \/ Identify \/ SnapshotChip \/ BusBack
           \/ SaveControls \/ NodeCreate \/ CreateHost \/ ScanBus
           \/ BindFirmware \/ Watch \/ HoldEnds \/ Detach \/ ClearMaster
           \/ RemoveHost \/ RestoreConfig \/ RemoveNode \/ HoldFault
           \/ DriverGivesUp \/ Signal
  <2>1. pc \notin {"init", "baseline", "done"}
    BY <1>3 DEF Ok, Err, Check, Turn, ToRelease, Attach, Resume, ForceActive,
       Release, Recheck, WithPhy, ReadyPhy, PhyBack, WithMsi, MsiProgram,
       MsiOut, WithDart, DartCreate, DartRemove, DartMapFails, DartRevert,
       DartCheck,
       PulseBaseline, HoldReset, PowerOn, Held, PowerOff, ResetBack, PutGpio,
       Observe, ReleasePerst, EnableLtssm, PollLink, StopLink, ResetAgain,
       EnterEndpoint, Identify, SnapshotChip, BusBack, SaveControls,
       NodeCreate, CreateHost, ScanBus, BindFirmware, Watch, HoldEnds, Detach,
       ClearMaster, RemoveHost, RestoreConfig, RemoveNode, HoldFault,
       DriverGivesUp, Signal
  <2>2. pc' \notin {"init", "baseline"}
    BY <1>3 DEF Ok, Err, Check, rest, Attach, Resume, ForceActive, Release,
       Recheck, WithPhy, ReadyPhy, PhyBack, WithMsi, MsiProgram, MsiOut,
       WithDart, DartCreate, DartRemove, DartMapFails, DartRevert, DartCheck,
       PulseBaseline,
       HoldReset, PowerOn, Held, PowerOff, ResetBack, PutGpio, Observe,
       ReleasePerst, EnableLtssm, PollLink, StopLink, ResetAgain,
       EnterEndpoint, Identify, SnapshotChip, BusBack, SaveControls,
       NodeCreate, CreateHost, ScanBus, BindFirmware, Watch, HoldEnds, Detach,
       ClearMaster, RemoveHost, RestoreConfig, RemoveNode, HoldFault,
       DriverGivesUp, Signal, Turn, ToRelease, FirstLayer, LeavePhy, MsiAfter,
       LeaveMsi, LeaveDartLayer, DartAfter, LeaveDart, LeaveRadio
  <2> QED
    BY <2>1, <2>2
<1> QED
  BY <1>1, <1>2, <1>3
     DEF Next, Call, Domains, Layers, Radio, Pci

\* Which steps add and remove the two device-tree nodes.
LEMMA NodeKept ==
  ASSUME TypeOK, Next, pc \notin {"node", "removenode"}
  PROVE  obj'.node = obj.node
<1>1. CASE Attach
  BY <1>1, AttachShape DEF OneDomain, SameObjects
<1>2. CASE Release
  BY <1>2, ReleaseShape DEF OneDomain, SameObjects
<1> USE DEF TypeOK, Ok, Err, rest
<1>3. CASE Domains
  BY <1>3, <1>1, <1>2
     DEF Domains, InitModule, Baseline, Resume, ForceActive, Recheck, Turn,
     ToRelease
<1>4. CASE Layers
  BY <1>4
     DEF Layers, Objects, WithPhy, ReadyPhy, PhyBack, WithMsi, MsiProgram,
     MsiOut, WithDart, DartCreate, DartRemove, DartMapFails, DartRevert,
     DartCheck, Check
<1>5. CASE Radio
  BY <1>5
     DEF Radio, Objects, PulseBaseline, HoldReset, PowerOn, Held, PowerOff,
     ResetBack, PutGpio, Observe, ReleasePerst, EnableLtssm, PollLink,
     StopLink, ResetAgain, Check
<1>6. CASE Pci
  BY <1>6
     DEF Pci, Objects, EnterEndpoint, Identify, SnapshotChip, BusBack,
     SaveControls, NodeCreate, CreateHost, ScanBus, BindFirmware, Watch,
     HoldEnds, Detach, ClearMaster, RemoveHost, RestoreConfig, RemoveNode,
     Check
<1>7. CASE HoldFault \/ DriverGivesUp \/ Signal
  BY <1>7 DEF Objects, HoldFault, DriverGivesUp, Signal
<1> QED
  BY <1>3, <1>4, <1>5, <1>6, <1>7 DEF Next, Call

LEMMA DartNodeKept ==
  ASSUME TypeOK, Next, pc \notin {"dart", "dartrevert"}
  PROVE  obj'.dartnode = obj.dartnode
<1>1. CASE Attach
  BY <1>1, AttachShape DEF OneDomain, SameObjects
<1>2. CASE Release
  BY <1>2, ReleaseShape DEF OneDomain, SameObjects
<1> USE DEF TypeOK, Ok, Err, rest
<1>3. CASE Domains
  BY <1>3, <1>1, <1>2
     DEF Domains, InitModule, Baseline, Resume, ForceActive, Recheck, Turn,
     ToRelease
<1>4. CASE Layers
  BY <1>4
     DEF Layers, Objects, WithPhy, ReadyPhy, PhyBack, WithMsi, MsiProgram,
     MsiOut, WithDart, DartCreate, DartRemove, DartMapFails, DartRevert,
     DartCheck, Check
<1>5. CASE Radio
  BY <1>5
     DEF Radio, Objects, PulseBaseline, HoldReset, PowerOn, Held, PowerOff,
     ResetBack, PutGpio, Observe, ReleasePerst, EnableLtssm, PollLink,
     StopLink, ResetAgain, Check
<1>6. CASE Pci
  BY <1>6
     DEF Pci, Objects, EnterEndpoint, Identify, SnapshotChip, BusBack,
     SaveControls, NodeCreate, CreateHost, ScanBus, BindFirmware, Watch,
     HoldEnds, Detach, ClearMaster, RemoveHost, RestoreConfig, RemoveNode,
     Check
<1>7. CASE HoldFault \/ DriverGivesUp \/ Signal
  BY <1>7 DEF Objects, HoldFault, DriverGivesUp, Signal
<1> QED
  BY <1>3, <1>4, <1>5, <1>6, <1>7 DEF Next, Call

\* While nothing fails the nodes go with their layers.
LEMMA NodeStep ==
  ASSUME TypeOK, OptionInv, ObjectInv, NodeInv, Next
  PROVE  NodeInv'
<1> USE DEF NodeInv, ObjectInv, OptionInv, Has, DriverPcs, HostPcs, NodePcs,
      BusPcs, LinkPcs, PowerPcs, ResetPcs, GpioPcs, RadioPcs, DartPcs, MsiPcs,
      PhyPcs, AheadPcs
<1>1. CASE NodeCreate
  BY <1>1, OptionsKept DEF NodeCreate, Ok, Err, rest, TypeOK, Objects
<1>2. CASE RemoveNode
  BY <1>2, OptionsKept DEF RemoveNode, Ok, Err, rest, TypeOK, Objects
<1>3. CASE Domains
  BY <1>3, NodeKept, OptionsKept
     DEF Domains, Ok, Err, Check, rest, InitModule, Baseline, Attach, Resume,
     ForceActive, Release, Recheck, Turn, ToRelease
<1>4. CASE Layers
  BY <1>4, NodeKept, OptionsKept
     DEF Layers, Ok, Err, Check, rest, WithPhy, ReadyPhy, PhyBack, WithMsi,
     MsiProgram, MsiOut, WithDart, DartCreate, DartRemove, DartMapFails,
     DartRevert,
     DartCheck, FirstLayer, LeavePhy, MsiAfter, LeaveMsi, LeaveDartLayer,
     Valid, DartAfter, LeaveDart
<1>5. CASE Radio
  BY <1>5, NodeKept, OptionsKept
     DEF Radio, Ok, Err, Check, rest, PulseBaseline, HoldReset, PowerOn, Held,
     PowerOff, ResetBack, PutGpio, Observe, ReleasePerst, EnableLtssm,
     PollLink, StopLink, ResetAgain, LeaveRadio, LeaveDart, LeavePhy, Valid
<1>6. CASE Pci
  BY <1>6, <1>1, <1>2, NodeKept, OptionsKept
     DEF Pci, Ok, Err, Check, rest, EnterEndpoint, Identify, SnapshotChip,
     BusBack, SaveControls, CreateHost, ScanBus, BindFirmware, Watch,
     HoldEnds, Detach, ClearMaster, RemoveHost, RestoreConfig
<1>7. CASE HoldFault \/ DriverGivesUp \/ Signal
  BY <1>7, NodeKept, OptionsKept DEF Err, rest, HoldFault, DriverGivesUp,
     Signal
<1> QED
  BY <1>3, <1>4, <1>5, <1>6, <1>7 DEF Next, Call

LEMMA DartStep ==
  ASSUME TypeOK, OptionInv, DartInv, Next
  PROVE  DartInv'
<1> USE DEF DartInv, InDart, OptionInv, Has, DriverPcs, HostPcs, NodePcs,
      BusPcs, LinkPcs, PowerPcs, ResetPcs, GpioPcs, RadioPcs, DartPcs, MsiPcs,
      PhyPcs, AheadPcs
<1>1. CASE WithDart
  BY <1>1, OptionsKept DEF WithDart, LeaveDartLayer, LeaveMsi, Valid, Ok, Err,
     rest, TypeOK, Objects, Valid
<1>2. CASE DartRevert
  BY <1>2, OptionsKept DEF DartRevert, LeaveDartLayer, LeaveMsi, Valid, Ok,
     Err, rest, TypeOK, Objects, Valid
<1>3. CASE Domains
  BY <1>3, DartNodeKept, OptionsKept
     DEF Domains, Ok, Err, Check, rest, InitModule, Baseline, Attach, Resume,
     ForceActive, Release, Recheck, Turn, ToRelease, Valid
<1>4. CASE Layers
  BY <1>4, <1>1, <1>2, DartNodeKept, OptionsKept
     DEF Layers, Ok, Err, Check, rest, WithPhy, ReadyPhy, PhyBack, WithMsi,
     MsiProgram, MsiOut, DartCreate, DartRemove, DartMapFails, DartCheck,
     FirstLayer,
     LeavePhy, MsiAfter, LeaveMsi, DartAfter, LeaveDart, Valid, Valid
<1>5. CASE Radio
  BY <1>5, DartNodeKept, OptionsKept
     DEF Radio, Ok, Err, Check, rest, PulseBaseline, HoldReset, PowerOn, Held,
     PowerOff, ResetBack, PutGpio, Observe, ReleasePerst, EnableLtssm,
     PollLink, StopLink, ResetAgain, LeaveRadio, LeaveDart, LeavePhy, Valid,
     Valid
<1>6. CASE Pci
  BY <1>6, DartNodeKept, OptionsKept
     DEF Pci, Ok, Err, Check, rest, EnterEndpoint, Identify, SnapshotChip,
     BusBack, SaveControls, NodeCreate, CreateHost, ScanBus, BindFirmware,
     Watch, HoldEnds, Detach, ClearMaster, RemoveHost, RestoreConfig,
     RemoveNode, Valid
<1>7. CASE HoldFault \/ DriverGivesUp \/ Signal
  BY <1>7, DartNodeKept, OptionsKept DEF Err, rest, HoldFault, DriverGivesUp,
     Signal
<1> QED
  BY <1>3, <1>4, <1>5, <1>6, <1>7 DEF Next, Call

\* The release loop leaves no consumer behind it.
LEMMA ConsumerStep ==
  ASSUME TypeOK, ConsumerInv, Next
  PROVE  ConsumerInv'
<1>a. /\ NDoms \in Doms /\ i \in Doms
      /\ \A d \in Doms : d \in Nat /\ 1 <= d /\ d <= NDoms
  BY ProbeAssumption DEF Doms, TypeOK
<1>b. pc' = "release" /\ pc # "release" => i' = NDoms
  BY DEF Ok, Err, Check, FirstOf, Next, Call, Domains, Layers, Radio, Pci,
     InitModule, Baseline, Attach, Resume, ForceActive, Release, Recheck,
     WithPhy, ReadyPhy, PhyBack, WithMsi, MsiProgram, MsiOut, WithDart,
     DartCreate, DartRemove, DartMapFails, DartRevert, DartCheck,
     PulseBaseline, HoldReset,
     PowerOn, Held, PowerOff, ResetBack, PutGpio, Observe, ReleasePerst,
     EnableLtssm, PollLink, StopLink, ResetAgain, EnterEndpoint, Identify,
     SnapshotChip, BusBack, SaveControls, NodeCreate, CreateHost, ScanBus,
     BindFirmware, Watch, HoldEnds, Detach, ClearMaster, RemoveHost,
     RestoreConfig, RemoveNode, HoldFault, DriverGivesUp, Signal, Turn,
     ToRelease, FirstLayer, LeavePhy, MsiAfter, LeaveMsi, LeaveDartLayer,
     DartAfter, LeaveDart, LeaveRadio
<1>1. CASE Release
  <2>1. OneDomain /\ (ret' = "ok" => ret = "ok" /\ ~obj'.consumer[i])
    BY <1>1, ReleaseShape
  <2> QED
    BY <1>1, <1>a, <2>1 DEF Release, OneDomain, ConsumerInv
<1>2. CASE pc # "release"
  <2>1. pc' # "recheck"
    BY <1>2 DEF Ok, Err, Check, FirstOf, Next, Call, Domains, Layers, Radio,
       Pci, InitModule, Baseline, Attach, Resume, ForceActive, Release,
       Recheck, WithPhy, ReadyPhy, PhyBack, WithMsi, MsiProgram, MsiOut,
       WithDart, DartCreate, DartRemove, DartMapFails, DartRevert, DartCheck,
       PulseBaseline,
       HoldReset, PowerOn, Held, PowerOff, ResetBack, PutGpio, Observe,
       ReleasePerst, EnableLtssm, PollLink, StopLink, ResetAgain,
       EnterEndpoint, Identify, SnapshotChip, BusBack, SaveControls,
       NodeCreate, CreateHost, ScanBus, BindFirmware, Watch, HoldEnds, Detach,
       ClearMaster, RemoveHost, RestoreConfig, RemoveNode, HoldFault,
       DriverGivesUp, Signal, Turn, ToRelease, FirstLayer, LeavePhy, MsiAfter,
       LeaveMsi, LeaveDartLayer, DartAfter, LeaveDart, LeaveRadio
  <2> QED
    BY <1>2, <1>a, <1>b, <2>1 DEF ConsumerInv
<1>3. CASE pc = "release" /\ ~Release
  BY <1>3 DEF Ok, Err, Check, Turn, ToRelease, Next, Call, Domains, Layers,
     Radio, Pci, InitModule, Baseline, Attach, Resume, ForceActive, Recheck,
     WithPhy, ReadyPhy, PhyBack, WithMsi, MsiProgram, MsiOut, WithDart,
     DartCreate, DartRemove, DartMapFails, DartRevert, DartCheck,
     PulseBaseline, HoldReset,
     PowerOn, Held, PowerOff, ResetBack, PutGpio, Observe, ReleasePerst,
     EnableLtssm, PollLink, StopLink, ResetAgain, EnterEndpoint, Identify,
     SnapshotChip, BusBack, SaveControls, NodeCreate, CreateHost, ScanBus,
     BindFirmware, Watch, HoldEnds, Detach, ClearMaster, RemoveHost,
     RestoreConfig, RemoveNode, HoldFault, DriverGivesUp, Signal
<1> QED
  BY <1>1, <1>2, <1>3

\* At the end of a call all parts are together as they were found.
LEMMA SuccessStep ==
  ASSUME ProbeInv, Next
  PROVE  FoundInv' /\ SuccessIsClean'
<1>1. CASE InitModule
  BY <1>1 DEF InitModule, Ok, Err, FoundInv, SuccessIsClean, ProbeInv
<1>2. CASE Baseline
  BY <1>2 DEF Baseline, Ok, Err, rest, FoundInv, SuccessIsClean, ProbeInv,
     BaseInv
<1>3. CASE Recheck
  <2>1. ret' = "ok" => hw = base
    <3>1. SUFFICES ASSUME ret' = "ok" PROVE hw = base
      OBVIOUS
    <3>2. pc = "recheck" /\ ret = "ok" /\ \A d \in Doms : hw.dom[d] = Off
      BY <1>3, <3>1 DEF Recheck, Ok, Err
    <3>3. hw.dom = base.dom
      <4>1. /\ hw.dom \in [Doms -> [on : BOOLEAN, auto : BOOLEAN]]
            /\ base.dom \in [Doms -> [on : BOOLEAN, auto : BOOLEAN]]
        BY DEF ProbeInv, TypeOK, Hardware
      <4>2. \A d \in Doms : hw.dom[d] = base.dom[d]
        BY <3>2 DEF ProbeInv, BaseInv
      <4> QED
        BY <4>1, <4>2
    <3>4. /\ hw.phy = base.phy /\ hw.msi = base.msi /\ hw.pmu = base.pmu
          /\ hw.perst = base.perst /\ hw.ltssm = base.ltssm /\ hw.bus = base.bus
      BY <3>2 DEF ProbeInv, BaseInv, PhyInv, MsiInv, PowerInv, LinkInv,
         BusInv, InMsi,
         DriverPcs, HostPcs, NodePcs, BusPcs, LinkPcs, PowerPcs, ResetPcs,
     GpioPcs, RadioPcs, DartPcs, MsiPcs, PhyPcs, AheadPcs
    <3>5. hw.cfg = base.cfg /\ hw.master = base.master
      <4>1. hw.cfg # "changed" /\ ~hw.master
        BY <3>2 DEF ProbeInv, ConfigInv, ObjectInv, HostPcs, DriverPcs
      <4> QED
        BY <4>1 DEF ProbeInv, BaseInv, TypeOK, Hardware
    <3> QED
      BY <3>3, <3>4, <3>5 DEF ProbeInv, TypeOK, Hardware
  <2>2. ret' = "ok" => obj = None
    <3>1. SUFFICES ASSUME ret' = "ok" PROVE obj = None
      OBVIOUS
    <3>2. pc = "recheck" /\ ret = "ok"
      BY <1>3, <3>1 DEF Recheck, Ok, Err
    <3>3. obj.consumer = [d \in Doms |-> FALSE]
      <4>1. obj.consumer \in [Doms -> BOOLEAN]
        BY DEF ProbeInv, TypeOK, Objects
      <4>2. \A d \in Doms : ~obj.consumer[d]
        BY <3>2 DEF ProbeInv, ConsumerInv
      <4> QED
        BY <4>1, <4>2
    <3>4. /\ ~obj.msi /\ ~obj.dart /\ ~obj.dartnode /\ ~obj.gpio
          /\ ~obj.host /\ ~obj.node /\ ~obj.driver
      BY <3>2 DEF ProbeInv, ObjectInv, NodeInv, DartInv, InMsi, InDart,
         DriverPcs, HostPcs, NodePcs, BusPcs, LinkPcs, PowerPcs, ResetPcs,
     GpioPcs, RadioPcs, DartPcs, MsiPcs, PhyPcs, AheadPcs
    <3>5. obj \in Objects
      BY DEF ProbeInv, TypeOK
    <3> QED
      BY <3>3, <3>4, <3>5 DEF Objects, None
  <2> QED
    BY <1>3, <2>1, <2>2, OptionsKept DEF Recheck, Ok, Err, FoundInv,
       SuccessIsClean
<1>4. CASE \/ Attach \/ Resume \/ ForceActive \/ Release \/ WithPhy
           \/ ReadyPhy \/ PhyBack \/ WithMsi \/ MsiProgram \/ MsiOut
           \/ WithDart \/ DartCreate \/ DartRemove \/ DartRevert \/ DartCheck
           \/ PulseBaseline \/ HoldReset \/ PowerOn \/ Held \/ PowerOff
           \/ ResetBack \/ PutGpio \/ Observe \/ ReleasePerst \/ EnableLtssm
           \/ PollLink \/ StopLink \/ ResetAgain \/ EnterEndpoint \/ Identify
           \/ SnapshotChip \/ BusBack \/ SaveControls \/ NodeCreate
           \/ CreateHost \/ ScanBus \/ BindFirmware \/ Watch \/ HoldEnds
           \/ Detach \/ ClearMaster \/ RemoveHost \/ RestoreConfig
           \/ RemoveNode \/ HoldFault \/ DriverGivesUp \/ Signal
  <2>1. pc' \notin {"init", "baseline", "done"}
    BY <1>4 DEF Ok, Err, Check, rest, Attach, Resume, ForceActive, Release,
       WithPhy, ReadyPhy, PhyBack, WithMsi, MsiProgram, MsiOut, WithDart,
       DartCreate, DartRemove, DartMapFails, DartRevert, DartCheck,
       PulseBaseline,
       HoldReset, PowerOn, Held, PowerOff, ResetBack, PutGpio, Observe,
       ReleasePerst, EnableLtssm, PollLink, StopLink, ResetAgain,
       EnterEndpoint, Identify, SnapshotChip, BusBack, SaveControls,
       NodeCreate, CreateHost, ScanBus, BindFirmware, Watch, HoldEnds, Detach,
       ClearMaster, RemoveHost, RestoreConfig, RemoveNode, HoldFault,
       DriverGivesUp, Signal, Turn, ToRelease, FirstLayer, LeavePhy, MsiAfter,
       LeaveMsi, LeaveDartLayer, DartAfter, LeaveDart, LeaveRadio
  <2> QED
    BY <2>1 DEF FoundInv, SuccessIsClean
<1> QED
  BY <1>1, <1>2, <1>3, <1>4
     DEF Next, Call, Domains, Layers, Radio, Pci

\* The invariant holds when the call begins.
LEMMA ProbeStarts ==
  ASSUME Init
  PROVE  ProbeInv
<1>1. /\ NDoms \in Nat \ {0} /\ opts \subseteq Flags /\ hw \in Hardware /\ base = hw
      /\ hw.phy = "off" /\ hw.cfg = "found" /\ ~hw.master
  BY ProbeAssumption DEF Init
<1>2. TypeOK
  <2>1. obj \in Objects
    BY DEF Init, None, Objects
  <2>2. done \in [Doms -> SUBSET {"attached", "resumed", "forced", "auto"}]
    BY DEF Init
  <2>3. i \in Doms
    BY <1>1 DEF Init, Doms
  <2> QED
    BY <1>1, <2>1, <2>2, <2>3 DEF Init, TypeOK, Pcs
<1>3. pc = "init" /\ ret = "ok" /\ obj = None /\ i = 1
  BY DEF Init
<1>4. /\ ~obj.msi /\ ~obj.dart /\ ~obj.dartnode /\ ~obj.gpio
      /\ ~obj.host /\ ~obj.node /\ ~obj.driver
  BY <1>3 DEF None
<1>5. OptionInv /\ ObjectInv /\ DomainInv /\ ResetInv /\ BaseInv
  BY <1>1, <1>3, <1>4 DEF OptionInv, ObjectInv, DomainInv, ResetInv,
     NeverUnreset,
     BaseInv, InMsi, DriverPcs, HostPcs, NodePcs, BusPcs, LinkPcs, PowerPcs,
     ResetPcs,
     GpioPcs, RadioPcs, DartPcs, MsiPcs, PhyPcs, AheadPcs
<1>6. PhyInv /\ MsiInv /\ PowerInv /\ LinkInv /\ BusInv /\ ConfigInv
  BY <1>1, <1>3 DEF PhyInv, MsiInv, PowerInv, LinkInv, BusInv, ConfigInv,
     InMsi,
     DriverPcs, HostPcs, NodePcs, BusPcs, LinkPcs, PowerPcs, ResetPcs,
     GpioPcs, RadioPcs, DartPcs, MsiPcs, PhyPcs, AheadPcs
<1>7. NodeInv /\ DartInv /\ ConsumerInv /\ FoundInv /\ SuccessIsClean
  BY <1>3, <1>4 DEF NodeInv, DartInv, ConsumerInv, FoundInv, SuccessIsClean
<1> QED
  BY <1>2, <1>5, <1>6, <1>7 DEF ProbeInv

\* The invariant of the call, for any number of domains, all sets of options
\* and all hardware states it may find.
THEOREM ProbeCorrect == Spec => []ProbeInv
<1>1. ASSUME ProbeInv, Next PROVE ProbeInv'
  BY <1>1, TypeStep, OptionStep, ObjectStep, DomainStep, ResetStep, BaseStep,
     PhyStep, MsiStep, PowerStep, LinkStep, BusStep, ConfigStep, NodeStep,
     DartStep, ConsumerStep, SuccessStep DEF ProbeInv
<1>2. ASSUME ProbeInv, UNCHANGED vars PROVE ProbeInv'
  <2>1. TypeOK' /\ OptionInv' /\ ObjectInv'
    BY <1>2 DEF vars, ProbeInv, TypeOK, OptionInv, ObjectInv, InMsi, Valid,
       Has
  <2>2. DomainInv' /\ ResetInv' /\ BaseInv' /\ PhyInv' /\ MsiInv' /\ PowerInv'
    BY <1>2 DEF vars, ProbeInv, DomainInv, ResetInv, NeverUnreset, BaseInv,
       PhyInv,
       MsiInv, PowerInv, InMsi, Has
  <2>3. /\ LinkInv' /\ BusInv' /\ ConfigInv' /\ NodeInv' /\ DartInv'
        /\ ConsumerInv' /\ FoundInv' /\ SuccessIsClean'
    BY <1>2 DEF vars, ProbeInv, LinkInv, BusInv, ConfigInv, NodeInv, DartInv,
       ConsumerInv, FoundInv, SuccessIsClean, InDart, Has
  <2> QED
    BY <2>1, <2>2, <2>3 DEF ProbeInv
<1> QED
  BY <1>1, <1>2, ProbeStarts, PTL DEF Spec

\* TypeOK: types, for any number of domains.
THEOREM ProbeTypeCorrect == Spec => []TypeOK
BY ProbeCorrect, PTL DEF ProbeInv

\* SuccessIsClean: a call of a1625_pcie_domains that succeeds leaves the
\* hardware as it was found and no kernel object, whatever options it had.
THEOREM ProbeSuccessIsClean == Spec => []SuccessIsClean
BY ProbeCorrect, PTL DEF ProbeInv

\* NeverUnreset: no failure leaves the radio powered with the reset pin in
\* the configuration it was found in.
THEOREM ProbeNeverUnreset == Spec => []NeverUnreset
BY ProbeCorrect, PTL DEF ProbeInv, ResetInv

\* ObjectsOutlive: driver, host bridge, node, DART, MSI domain, PHY and
\* domains go in the reverse order of their use.
THEOREM ProbeObjectsOutlive == Spec => []ObjectsOutlive
<1>1. ASSUME ProbeInv PROVE ObjectsOutlive
  <2>1. obj.driver => obj.host
    BY <1>1 DEF ProbeInv, ObjectInv, HostPcs
  <2>2. obj.host => pc \in RadioPcs /\ pc \in PhyPcs
    BY <1>1 DEF ProbeInv, ObjectInv, DriverPcs, HostPcs, NodePcs, BusPcs,
       LinkPcs, PowerPcs, ResetPcs,
     GpioPcs, RadioPcs, DartPcs, MsiPcs, PhyPcs, AheadPcs
  <2>3. /\ obj.host /\ Has("scan_iommu") => obj.node /\ obj.dart
        /\ obj.host /\ Has("scan_msi") => obj.msi
    BY <1>1, <2>2 DEF ProbeInv, ObjectInv, InMsi
  <2>4. obj.dart => hw.phy = "ready"
    BY <1>1 DEF ProbeInv, ObjectInv, DomainInv, PhyPcs, DartPcs
  <2>5. hw.master => obj.dart /\ obj.host /\ Has("scan_iommu")
    <3>1. hw.master => pc \in HostPcs /\ obj.host /\ Has("bind_firmware") /\ Valid
      BY <1>1 DEF ProbeInv, ObjectInv, OptionInv, HostPcs, DriverPcs
    <3>2. Has("bind_firmware") /\ Valid => Has("scan_iommu")
      BY DEF Valid
    <3> QED
      BY <2>3, <3>1, <3>2
  <2>6. hw.phy = "ready" => \A d \in Doms : obj.consumer[d] /\ hw.dom[d].on
    BY <1>1 DEF ProbeInv, DomainInv
  <2> QED
    BY <2>1, <2>3, <2>4, <2>5, <2>6 DEF ObjectsOutlive
<1> QED
  BY <1>1, ProbeCorrect, PTL

\* LayersNested: until something fails, link, radio, PHY, bus numbers and
\* configuration are nested as the calls are.
THEOREM ProbeLayersNested == Spec => []LayersNested
<1>1. ASSUME ProbeInv PROVE LayersNested
  <2>1. SUFFICES ASSUME ret = "ok", base = Clean
                 PROVE  /\ hw.ltssm => hw.pmu = "on" /\ hw.perst = "high"
                        /\ hw.pmu = "on" => hw.phy = "ready" /\ obj.gpio
                        /\ hw.bus = "set" \/ hw.cfg = "changed" => hw.ltssm
                        /\ hw.msi = "set" => hw.phy = "ready"
    BY DEF LayersNested
  <2>2. /\ base.msi = "zero" /\ base.pmu = "off" /\ ~base.ltssm
        /\ base.bus = "zero"
    BY <2>1 DEF Clean
  <2>3. hw.ltssm => hw.pmu = "on" /\ hw.perst = "high"
    BY <1>1, <2>1, <2>2 DEF ProbeInv, LinkInv, PowerInv, PowerPcs
  <2>4. hw.pmu = "on" => hw.phy = "ready" /\ obj.gpio
    BY <1>1, <2>1, <2>2
       DEF ProbeInv, PowerInv, DomainInv, ObjectInv, PhyPcs, RadioPcs,
       GpioPcs, ResetPcs
  <2>5. hw.bus = "set" \/ hw.cfg = "changed" => hw.ltssm
    BY <1>1, <2>1, <2>2
       DEF ProbeInv, LinkInv, BusInv, ConfigInv, LinkPcs, BusPcs, NodePcs,
       HostPcs
  <2>6. hw.msi = "set" => hw.phy = "ready"
    BY <1>1, <2>1, <2>2 DEF ProbeInv, MsiInv, DomainInv, InMsi, PhyPcs
  <2> QED
    BY <2>3, <2>4, <2>5, <2>6
<1> QED
  BY <1>1, ProbeCorrect, PTL

=============================================================================
