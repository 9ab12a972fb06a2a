--------------------------- MODULE PciSessionProofs ---------------------------
(***************************************************************************)
(* The session as a whole, with any number of threads that unbind the      *)
(* driver, whatever the size of the bitmap and whatever is written to      *)
(* configuration space.  Its steps are steps of FirmwareFence, whose       *)
(* theorems therefore hold of it; from these, and from who may hold a      *)
(* vector at which stage, follows that nothing is taken down in use, and   *)
(* that a success leaves nothing behind.                                   *)
(***************************************************************************)
EXTENDS PciSession, FiniteSetTheorems, TLAPS

-----------------------------------------------------------------------------
(* The fence alone: with any number of threads unbinding the driver,       *)
(* devinfo and the caller's hardware outlive the firmware callback and     *)
(* every removal.                                                          *)

LEMMA FenceInit == Init => FenceInv
BY ThreadsAssumption DEF Init, FenceInv, TypeOK, LockInv, Threads

\* Steps of the attaching thread.
LEMMA AttachKeeps ==
  ASSUME FenceInv, Attach
  PROVE  FenceInv'
<1> USE ThreadsAssumption DEF FenceInv, TypeOK, LockInv, Threads, Goto
<1>1. CASE Probe
  BY <1>1 DEF Probe
<1>2. CASE ProbeReturns
  BY <1>2 DEF ProbeReturns
<1>3. CASE ProbeFails
  BY <1>3 DEF ProbeFails
<1>4. CASE Observed
  BY <1>4 DEF Observed
<1>5. CASE TakeDown
  BY <1>5 DEF TakeDown
<1> QED
  BY <1>1, <1>2, <1>3, <1>4, <1>5 DEF Attach

\* Steps of the callback.
LEMMA SetupKeeps ==
  ASSUME FenceInv, Setup
  PROVE  FenceInv'
<1> USE ThreadsAssumption DEF FenceInv, TypeOK, LockInv, Threads, Goto
<1>1. CASE SetupSucceeds
  BY <1>1 DEF SetupSucceeds
<1>2. CASE SetupFails
  BY <1>2 DEF SetupFails
<1>3. CASE SignalFailure
  BY <1>3 DEF SignalFailure
<1> QED
  BY <1>1, <1>2, <1>3 DEF Setup

\* Steps of a thread that releases the driver.
LEMMA ReleaseKeeps ==
  ASSUME FenceInv, NEW t \in Threads, Unbind(t) \/ Release(t)
  PROVE  FenceInv'
<1> USE ThreadsAssumption DEF FenceInv, TypeOK, LockInv, Threads, Goto
<1>1. CASE Unbind(t)
  BY <1>1 DEF Unbind
<1>2. CASE Lock(t)
  BY <1>2 DEF Lock
<1>3. CASE NothingBound(t)
  BY <1>3 DEF NothingBound, After
<1>4. CASE WaitForSetup(t)
  BY <1>4 DEF WaitForSetup
<1>5. CASE Remove(t)
  BY <1>5 DEF Remove, After
<1> QED
  BY <1>1, <1>2, <1>3, <1>4, <1>5 DEF Release

\* The invariant of the fence holds in every reachable state.
THEOREM FenceCorrect == Spec => []FenceInv
<1>1. FenceInv /\ [Next]_vars => FenceInv'
  <2> SUFFICES ASSUME FenceInv, [Next]_vars PROVE FenceInv'
    OBVIOUS
  <2>1. CASE UNCHANGED vars
    BY <2>1 DEF vars, FenceInv, TypeOK, LockInv
  <2> QED
    BY <2>1, AttachKeeps, SetupKeeps, ReleaseKeeps DEF Next
<1> QED
  BY <1>1, FenceInit, PTL DEF Spec

\* Neither the callback nor a removal runs on a freed devinfo or on hardware
\* whose teardown has begun, whoever releases the driver and when.
THEOREM FenceProtects == Spec => []NoUseAfterFree
<1>1. FenceInv => NoUseAfterFree
  BY ThreadsAssumption DEF FenceInv, TypeOK, NoUseAfterFree, Threads
<1> QED
  BY <1>1, FenceCorrect, PTL

-----------------------------------------------------------------------------
(* The session implements the fence.                                       *)

\* A step of the calling thread, seen from the fence.
LEMMA CallerKeepsFence ==
  ASSUME CallerStep
  PROVE  Attach \/ UNCHANGED vars
<1> USE DEF NoFence, fenceVars, vars
<1>1. CASE CreateDomain
  BY <1>1 DEF CreateDomain
<1>2. CASE ProgramPort
  BY <1>2 DEF ProgramPort
<1>3. CASE SelfAlloc \/ SelfCheck \/ SelfRefused
  BY <1>3 DEF SelfAlloc, SelfCheck, SelfRefused
<1>4. CASE CallerFree \/ CallerFreed \/ Operate
  BY <1>4 DEF CallerFree, CallerFreed, Operate
<1>5. CASE ScanBaseline \/ CreateHost \/ Scanned \/ Identify
  BY <1>5 DEF ScanBaseline, CreateHost, Scanned, Identify
<1>6. CASE EndpointAlloc \/ EndpointMapped \/ EndpointRefused \/ EndpointDone
  BY <1>6 DEF EndpointAlloc, EndpointMapped, EndpointRefused, EndpointDone
<1>7. CASE AttachDriver
  BY <1>7 DEF AttachDriver, Attach
<1>8. CASE ReleasedDriver
  BY <1>8 DEF ReleasedDriver, Attach
<1>9. CASE Override \/ RemoveHost \/ RestoreConfig \/ RemoveNode \/ MsiOut
  BY <1>9 DEF Override, RemoveHost, RestoreConfig, RemoveNode, MsiOut
<1> QED
  BY <1>1, <1>2, <1>3, <1>4, <1>5, <1>6, <1>7, <1>8, <1>9 DEF CallerStep

\* A step of the firmware callback.
LEMMA CallbackKeepsFence ==
  ASSUME SetupStep
  PROVE  Setup \/ UNCHANGED vars
<1> USE DEF NoFence, fenceVars, vars, Setup
<1>1. CASE DriverAlloc \/ DriverMapped \/ DriverRefused
  BY <1>1 DEF DriverAlloc, DriverMapped, DriverRefused
<1>2. CASE SetupDriver \/ SetupReports
  BY <1>2 DEF SetupDriver, SetupReports
<1> QED
  BY <1>1, <1>2 DEF SetupStep

\* A step of a thread that unbinds or releases the driver.
LEMMA ReleaseKeepsFence ==
  ASSUME NEW t \in Threads, ReleaseStep(t) \/ UnbindDriver(t)
  PROVE  Unbind(t) \/ Release(t) \/ UNCHANGED vars
BY DEF ReleaseStep, WaitRelease, DriverFree, DriverFreed, RemoveDriver,
       UnbindDriver, NoFence, fenceVars, vars, Release

\* The session implements the fence: "all caller-owned PCI/DART/MSI/power
\* objects remain alive through driver removal and firmware completion".
THEOREM SessionKeepsFence == SessionSpec => FenceKept
<1>1. SessionInit => Init
  BY DEF SessionInit
<1>2. [SessionNext]_allVars => [Next]_vars
  <2> SUFFICES ASSUME [SessionNext]_allVars PROVE Next \/ UNCHANGED vars
    OBVIOUS
  <2>1. CASE UNCHANGED allVars
    BY <2>1 DEF allVars, fenceVars, vars
  <2>2. CASE ScanWrite \/ DriverWrite
    BY <2>2 DEF ScanWrite, DriverWrite, NoFence, fenceVars, vars
  <2> QED
    BY <2>1, <2>2, CallerKeepsFence, CallbackKeepsFence, ReleaseKeepsFence
       DEF SessionNext, Next
<1> QED
  BY <1>1, <1>2, PTL DEF SessionSpec, FenceKept, Spec

\* So neither the callback nor a removal runs on freed state, or on hardware
\* that the session has begun to take down.
THEOREM SessionProtects == SessionSpec => []NoUseAfterFree
BY SessionKeepsFence, FenceProtects, PTL DEF FenceKept
-----------------------------------------------------------------------------
(* The vectors.                                                            *)

All == owned["caller"] \cup owned["driver"]

\* During an allocation the slot is taken and not yet mapped; during a
\* release it is mapped and no longer taken.
MsiInv ==
  /\ Msi!VectorsTypeOK
  /\ owned["caller"] \cap owned["driver"] = {}
  /\ parent = All
  /\ op.step = "none" => used = All
  /\ op.step = "alloc" => op.slot \notin All /\ used = All \cup {op.slot}
  /\ op.step = "free" => op.slot \in owned[op.who] /\ used = All \ {op.slot}

LEMMA MsiKeeps ==
  ASSUME MsiInv, NEW who \in Owners,
         \/ Msi!AllocFind(who) \/ Msi!AllocMapped \/ Msi!AllocRefused
         \/ (\E s \in owned[who] : Msi!FreeBit(who, s)) \/ Msi!FreeMapped
         \/ UNCHANGED msiVars
  PROVE  MsiInv'
<1> USE SessionAssumption DEF MsiInv, All, Msi!VectorsTypeOK, Msi!Slots, Msi!NoOp, Owners
<1>1. CASE Msi!AllocFind(who)
  BY <1>1 DEF Msi!AllocFind
<1>2. CASE Msi!AllocMapped
  BY <1>2 DEF Msi!AllocMapped
<1>3. CASE Msi!AllocRefused
  BY <1>3 DEF Msi!AllocRefused
<1>4. ASSUME NEW s \in owned[who], Msi!FreeBit(who, s) PROVE MsiInv'
  BY <1>4 DEF Msi!FreeBit
<1>5. CASE Msi!FreeMapped
  BY <1>5 DEF Msi!FreeMapped
<1>6. CASE UNCHANGED msiVars
  BY <1>6 DEF msiVars
<1> QED
  BY <1>1, <1>2, <1>3, <1>4, <1>5, <1>6
-----------------------------------------------------------------------------
(* Who may hold what at which stage.                                       *)

\* The stages after the driver was released, or was never bound.
Leaving == {"removehost", "restore", "node", "msiout", "done"}

\* The stages in which the caller may be calling alloc or free.
Vectored == {"selftest", "selffree", "endpoint", "endfree", "msiout"}

Busy(who) == op.step # "none" /\ op.who = who

\* Where the calling thread is in the fence, and what exists by then.
StageInv ==
  /\ stage \in Stages /\ opts \in OptionSets
  /\ stage \notin {"fence"} \cup Leaving => pc[Caller] = "idle"
  /\ stage \in Leaving => pc[Caller] \in {"idle", "end"}
  /\ stage = "fence" => pc[Caller] # "end"
  /\ stage \in Vectored \cup {"msi", "program", "override", "fence"} => "msi" \in opts
  /\ stage \notin {"msi", "done"} /\ "msi" \in opts => domain
  /\ stage \in {"scan", "identify", "endpoint", "endfree", "override", "fence",
                 "removehost"} => host
  /\ active => stage \in {"fence"} \cup Leaving

\* Vectors of the caller belong to its stage, those of the driver to a
\* driver that is bound or being bound.
HolderInv ==
  /\ Busy("caller") => stage \in Vectored
  /\ owned["caller"] # {} => stage \in Vectored \ {"endpoint"}
  /\ Busy("driver") \/ owned["driver"] # {} => bound \/ pc[Caller] = "probe"
  /\ Busy("driver") /\ op.step = "alloc" => pc[Loader] = "setup"

\* The radio masters the bus only while its driver may run.
MasterInv ==
  /\ caps \subseteq {"msihigh", "msimask"}
  /\ 1 \in master => stage = "fence"
  /\ <<1, "cmd">> \notin saved

SessionInv == FenceInv /\ MsiInv /\ StageInv /\ HolderInv /\ MasterInv

LEMMA DriverInFence ==
  ASSUME FenceInv, StageInv, bound \/ pc[Caller] = "probe" \/ pc[Loader] = "setup"
  PROVE  stage = "fence" /\ (bound \/ pc[Caller] = "probe")
BY ThreadsAssumption DEF FenceInv, TypeOK, Threads, StageInv, Leaving

\* Nobody holds a vector where the caller is in no stage that may.
LEMMA NoVectors ==
  ASSUME SessionInv, stage \notin Vectored \cup {"fence"}
  PROVE  op.step = "none" /\ All = {} /\ used = {} /\ parent = {}
<1>1. ~(bound \/ pc[Caller] = "probe")
  BY DriverInFence DEF SessionInv
<1>2. ~Busy("caller") /\ ~Busy("driver") /\ All = {}
  BY <1>1 DEF SessionInv, HolderInv, All
<1>3. op.step = "none"
  BY <1>2 DEF SessionInv, MsiInv, Msi!VectorsTypeOK, Msi!NoOp, Busy, Owners
<1> QED
  BY <1>2, <1>3 DEF SessionInv, MsiInv

\* Steps of the caller that only move it, without vectors.
LEMMA MovesKeep ==
  ASSUME SessionInv,
         \/ CreateDomain \/ ProgramPort \/ ScanBaseline \/ CreateHost
         \/ Scanned \/ Identify \/ Override \/ RemoveHost
         \/ RestoreConfig \/ RemoveNode
  PROVE  StageInv' /\ HolderInv' /\ MasterInv'
<1> USE DEF SessionInv, StageInv, HolderInv, MasterInv, Stages, Leaving,
            Vectored, Busy, NoFence, fenceVars, NoMsi, msiVars, NoCfg, cfgVars,
            NoCall, callVars, At
<1>1. CASE CreateDomain
  BY <1>1 DEF CreateDomain
<1>2. CASE ProgramPort
  BY <1>2 DEF ProgramPort
<1>3. CASE ScanBaseline
  BY <1>3 DEF ScanBaseline, LeaveMsi, Cfg!Save, Cfg!Controls, Cfg!Common,
              Cfg!RootWindows, Cfg!Firmware, Cfg!MsiRegs
<1>4. CASE CreateHost
  BY <1>4 DEF CreateHost
<1>5. CASE Scanned
  BY <1>5 DEF Scanned
<1>6. CASE Identify
  BY <1>6 DEF Identify, Identified, OptionSets
<1>7. CASE Override
  BY <1>7 DEF Override
<1>8. CASE RemoveHost
  BY <1>8 DEF RemoveHost
<1>9. CASE RestoreConfig
  BY <1>9 DEF RestoreConfig, Cfg!Restore
<1>10. CASE RemoveNode
  BY <1>10 DEF RemoveNode, LeaveMsi
<1> QED
  BY <1>1, <1>2, <1>3, <1>4, <1>5, <1>6, <1>7, <1>8, <1>9, <1>10

\* Steps of the caller that allocate or free vectors.
LEMMA VectorsKeep ==
  ASSUME SessionInv,
         \/ SelfAlloc \/ SelfCheck \/ SelfRefused \/ CallerFree \/ CallerFreed
         \/ Operate \/ EndpointAlloc \/ EndpointMapped \/ EndpointRefused
         \/ EndpointDone \/ MsiOut
  PROVE  StageInv' /\ HolderInv' /\ MasterInv'
<1>0. /\ stage # "fence" => ~(bound \/ pc[Caller] = "probe")
      /\ stage # "fence" => ~Busy("driver") /\ owned["driver"] = {}
      /\ op.step # "none" => op.who \in Owners
      /\ owned \in [Owners -> SUBSET Msi!Slots]
  BY DriverInFence
     DEF SessionInv, HolderInv, MsiInv, Msi!VectorsTypeOK, Msi!NoOp
<1> USE <1>0 DEF SessionInv, StageInv, HolderInv, MasterInv, Stages, Leaving,
            Vectored, Busy, Owners, NoFence, fenceVars, NoMsi, msiVars, NoCfg,
            cfgVars, NoCall, callVars, At, FreeStages, Msi!NoOp, AllFreed
<1>1. CASE SelfAlloc
  BY <1>1 DEF SelfAlloc, Msi!AllocFind
<1>2. CASE SelfCheck
  BY <1>2 DEF SelfCheck, Msi!AllocMapped
<1>3. CASE SelfRefused
  BY <1>3 DEF SelfRefused, Msi!AllocRefused
<1>4. CASE CallerFree
  BY <1>4 DEF CallerFree, Msi!FreeBit
<1>5. CASE CallerFreed
  BY <1>5 DEF CallerFreed, Msi!FreeMapped
<1>6. CASE Operate
  BY <1>6 DEF Operate
<1>7. CASE EndpointAlloc
  BY <1>7 DEF EndpointAlloc, Msi!AllocFind
<1>8. CASE EndpointMapped
  BY <1>8 DEF EndpointMapped, Msi!AllocMapped, Cfg!WriteAll
<1>9. CASE EndpointRefused
  BY <1>9 DEF EndpointRefused, Msi!AllocRefused
<1>10. CASE EndpointDone
  BY <1>10 DEF EndpointDone
<1>11. CASE MsiOut
  BY <1>11 DEF MsiOut
<1> QED
  BY <1>1, <1>2, <1>3, <1>4, <1>5, <1>6, <1>7, <1>8, <1>9, <1>10, <1>11

\* Steps of the caller inside the fence.
LEMMA FenceStagesKeep ==
  ASSUME SessionInv, AttachDriver \/ ReleasedDriver
  PROVE  StageInv' /\ HolderInv' /\ MasterInv'
<1> USE ThreadsAssumption
        DEF SessionInv, StageInv, HolderInv, MasterInv, Stages, Leaving,
            Vectored, Busy, NoMsi, msiVars, NoCfg, cfgVars, NoCall, callVars,
            At, Goto, FenceInv, TypeOK, Threads
<1>1. CASE AttachDriver
  BY <1>1 DEF AttachDriver, Rest, Probe, ProbeReturns, ProbeFails, Observed
<1>2. CASE ReleasedDriver
  BY <1>2 DEF ReleasedDriver, TakeDown, Cfg!ClearMaster
<1> QED
  BY <1>1, <1>2

\* Steps of the callback and of the releasing threads.
LEMMA DriverKeeps ==
  ASSUME SessionInv,
         SetupStep \/ \E t \in Threads : ReleaseStep(t) \/ UnbindDriver(t)
  PROVE  StageInv' /\ HolderInv' /\ MasterInv'
<1>0. /\ op.step # "none" => op.who \in Owners
      /\ owned \in [Owners -> SUBSET Msi!Slots]
      /\ pc[Loader] = "setup" => bound \/ pc[Caller] = "probe"
  BY DriverInFence DEF SessionInv, MsiInv, Msi!VectorsTypeOK, Msi!NoOp
<1> USE <1>0, ThreadsAssumption
        DEF SessionInv, StageInv, HolderInv, MasterInv, Stages, Leaving,
            Vectored, Busy, Owners, NoFence, fenceVars, NoMsi, msiVars, NoCfg,
            cfgVars, NoCall, callVars, Goto, FenceInv, TypeOK, LockInv, Threads,
            Rest, Msi!NoOp
<1>1. CASE DriverAlloc
  BY <1>1 DEF DriverAlloc, Msi!AllocFind
<1>2. CASE DriverMapped
  BY <1>2 DEF DriverMapped, Msi!AllocMapped, Cfg!WriteAll
<1>3. CASE DriverRefused
  BY <1>3 DEF DriverRefused, Msi!AllocRefused, SetupFails
<1>4. CASE SetupDriver
  BY <1>4 DEF SetupDriver, SetupSucceeds, SetupFails
<1>5. CASE SetupReports
  BY <1>5 DEF SetupReports, SignalFailure
<1>6. ASSUME NEW t \in Threads, DriverFree(t) PROVE StageInv' /\ HolderInv' /\ MasterInv'
  BY <1>6 DEF DriverFree, Msi!FreeBit
<1>7. ASSUME NEW t \in Threads, DriverFreed(t) PROVE StageInv' /\ HolderInv' /\ MasterInv'
  BY <1>7 DEF DriverFreed, Msi!FreeMapped
<1>8. ASSUME NEW t \in Threads, RemoveDriver(t) PROVE StageInv' /\ HolderInv' /\ MasterInv'
  BY <1>8 DEF RemoveDriver, Remove, After
<1>9. ASSUME NEW t \in Threads, WaitRelease(t) PROVE StageInv' /\ HolderInv' /\ MasterInv'
  BY <1>9 DEF WaitRelease, Lock, NothingBound, WaitForSetup, After
<1>10. ASSUME NEW t \in Threads, UnbindDriver(t) PROVE StageInv' /\ HolderInv' /\ MasterInv'
  BY <1>10 DEF UnbindDriver, Unbind
<1> QED
  BY <1>1, <1>2, <1>3, <1>4, <1>5, <1>6, <1>7, <1>8, <1>9, <1>10
     DEF SetupStep, ReleaseStep

\* Writes: before the driver is active the policy lets nobody set mastering.
LEMMA WritesKeep ==
  ASSUME SessionInv, ScanWrite \/ DriverWrite
  PROVE  StageInv' /\ HolderInv' /\ MasterInv'
<1> USE DEF SessionInv, StageInv, HolderInv, MasterInv, Busy, NoFence,
            fenceVars, NoMsi, msiVars
<1>1. CASE ScanWrite
  <2>1. ~active
    BY <1>1 DEF ScanWrite, Leaving
  <2>2. 1 \notin master /\ stage = "scan"
    BY <1>1 DEF ScanWrite
  <2>3. PICK reg \in Cfg!Regs, value \in {"plain", "danger"} :
          Cfg!Write(active, reg, value)
    BY <1>1 DEF ScanWrite
  <2>4. 1 \notin master'
    <3>1. CASE reg = <<1, "cmd">> /\ value = "danger"
      BY <2>1, <2>2, <2>3, <3>1 DEF Cfg!Write, Cfg!Allowed
    <3>2. CASE ~(reg = <<1, "cmd">> /\ value = "danger")
      <4>1. reg[2] = "cmd" => reg \in {<<0, "cmd">>, <<1, "cmd">>}
        BY DEF Cfg!Regs, Cfg!Named, Cfg!Commands, Cfg!Common, Cfg!RootWindows,
               Cfg!Firmware, Cfg!MsiRegs
      <4>2. CASE reg[2] # "cmd"
        BY <2>2, <2>3, <4>2 DEF Cfg!Write, Cfg!Masters
      <4>3. CASE reg = <<0, "cmd">>
        <5>1. Cfg!Masters(reg, value) \subseteq master \cup {0}
          BY <4>3 DEF Cfg!Masters
        <5> QED
          BY <2>2, <2>3, <5>1 DEF Cfg!Write
      <4>4. CASE reg = <<1, "cmd">> /\ value = "plain"
        <5>1. Cfg!Masters(reg, value) \subseteq master
          BY <4>4 DEF Cfg!Masters
        <5> QED
          BY <2>2, <2>3, <5>1 DEF Cfg!Write
      <4> QED
        BY <3>2, <4>1, <4>2, <4>3, <4>4
    <3> QED
      BY <3>1, <3>2
  <2> QED
    BY <1>1, <2>2, <2>3, <2>4 DEF ScanWrite, Cfg!Write
<1>2. CASE DriverWrite
  <2>1. stage = "fence"
    BY <1>2, DriverInFence DEF DriverWrite, DriverRuns
  <2>2. saved' = saved
    BY <1>2 DEF DriverWrite, Cfg!Write, Cfg!Replay
  <2> QED
    BY <1>2, <2>1, <2>2 DEF DriverWrite
<1> QED
  BY <1>1, <1>2
-----------------------------------------------------------------------------
(* The session's invariant.                                                *)

LEMMA SessionStarts == SessionInit => SessionInv
<1> SUFFICES ASSUME SessionInit PROVE SessionInv
  OBVIOUS
<1>1. FenceInv
  BY FenceInit DEF SessionInit
<1>2. MsiInv
  BY DEF SessionInit, MsiInv, All, Msi!VectorsInit, Msi!VectorsTypeOK, Msi!NoOp,
         Msi!Slots, Owners
<1>3. StageInv /\ HolderInv
  BY ThreadsAssumption
     DEF SessionInit, Init, Threads, StageInv, HolderInv, Busy, Stages, Leaving,
         Vectored, Msi!VectorsInit, Msi!NoOp, Owners
<1>4. MasterInv
  BY DEF SessionInit, MasterInv, Cfg!ConfigInit
<1> QED
  BY <1>1, <1>2, <1>3, <1>4 DEF SessionInv

\* The calls of the interrupt core in a step of the session.
LEMMA StepOfMsi ==
  ASSUME SessionNext
  PROVE  \E who \in Owners :
           \/ Msi!AllocFind(who) \/ Msi!AllocMapped \/ Msi!AllocRefused
           \/ (\E s \in owned[who] : Msi!FreeBit(who, s)) \/ Msi!FreeMapped
           \/ UNCHANGED msiVars
<1> USE DEF Owners, NoMsi, Rest
<1>1. CASE CallerStep
  BY <1>1 DEF CallerStep, CreateDomain, ProgramPort, SelfAlloc, SelfCheck,
       SelfRefused, CallerFree, CallerFreed, Operate, ScanBaseline, CreateHost,
       Scanned, Identify, EndpointAlloc, EndpointMapped, EndpointRefused,
       EndpointDone, Override, AttachDriver, ReleasedDriver, RemoveHost,
       RestoreConfig, RemoveNode, MsiOut
<1>2. CASE SetupStep
  BY <1>2 DEF SetupStep, DriverAlloc, DriverMapped, DriverRefused, SetupDriver,
       SetupReports
<1>3. CASE ScanWrite \/ DriverWrite
  BY <1>3 DEF ScanWrite, DriverWrite
<1>4. ASSUME NEW t \in Threads, ReleaseStep(t) \/ UnbindDriver(t)
      PROVE  \/ \E s \in owned["driver"] : Msi!FreeBit("driver", s)
             \/ Msi!FreeMapped
             \/ UNCHANGED msiVars
  BY <1>4 DEF ReleaseStep, WaitRelease, DriverFree, DriverFreed, RemoveDriver,
       UnbindDriver
<1> QED
  BY <1>1, <1>2, <1>3, <1>4 DEF SessionNext

LEMMA SessionKeeps ==
  ASSUME SessionInv, [SessionNext]_allVars
  PROVE  SessionInv'
<1>1. CASE UNCHANGED allVars
  BY <1>1 DEF allVars, fenceVars, msiVars, cfgVars, callVars, SessionInv,
       FenceInv, TypeOK, LockInv, MsiInv, All, Msi!VectorsTypeOK, StageInv,
       HolderInv, Busy, MasterInv
<1>2. CASE SessionNext
  <2>1. FenceInv'
    <3>1. CASE ScanWrite \/ DriverWrite
      BY <3>1 DEF ScanWrite, DriverWrite, NoFence, fenceVars, SessionInv,
           FenceInv, TypeOK, LockInv
    <3>2. CASE UNCHANGED vars
      BY <3>2 DEF vars, SessionInv, FenceInv, TypeOK, LockInv
    <3> QED
      BY <1>2, <3>1, <3>2, CallerKeepsFence, CallbackKeepsFence,
         ReleaseKeepsFence, AttachKeeps, SetupKeeps, ReleaseKeeps
         DEF SessionNext, SessionInv
  <2>2. MsiInv'
    BY <1>2, StepOfMsi, MsiKeeps DEF SessionInv
  <2>3. StageInv' /\ HolderInv' /\ MasterInv'
    BY <1>2, MovesKeep, VectorsKeep, FenceStagesKeep, DriverKeeps, WritesKeep
       DEF SessionNext, CallerStep
  <2> QED
    BY <2>1, <2>2, <2>3 DEF SessionInv
<1> QED
  BY <1>1, <1>2

\* The invariant of the session holds in every reachable state.
THEOREM SessionCorrect == SessionSpec => []SessionInv
BY SessionStarts, SessionKeeps, PTL DEF SessionSpec

\* Whatever allocations fail, and whoever frees first, the bitmap, the parent's
\* mappings and the vectors handed out are the same slots between calls.
THEOREM SessionVectors == SessionSpec => []VectorsMatch
<1>1. SessionInv => VectorsMatch
  <2> SUFFICES ASSUME SessionInv PROVE VectorsMatch
    OBVIOUS
  <2>1. UNION {owned[w] : w \in Owners} = All
    BY DEF Owners, All
  <2> QED
    BY <2>1 DEF SessionInv, MsiInv, VectorsMatch, Msi!VectorsMatch, Msi!NoOp,
         Owners
<1> QED
  BY <1>1, SessionCorrect, PTL

\* The MSI domain outlives every vector and the host bridge the driver's,
\* also when the callback allocates one after the caller began to leave.
THEOREM SessionDomain == SessionSpec => []VectorsInDomain
<1>1. SessionInv => VectorsInDomain
  <2> SUFFICES ASSUME SessionInv PROVE VectorsInDomain
    OBVIOUS
  <2>1. used \cup parent # {} => domain
    BY NoVectors DEF SessionInv, StageInv, Vectored
  <2>2. owned["driver"] # {} => host
    BY DriverInFence DEF SessionInv, HolderInv, StageInv
  <2> QED
    BY <2>1, <2>2 DEF VectorsInDomain
<1> QED
  BY <1>1, SessionCorrect, PTL

\* Once the caller has cleared the radio's bus mastering, neither the driver
\* nor its callback sets it again.
THEOREM SessionMaster == SessionSpec => []MasterCleared
<1>1. SessionInv => MasterCleared
  BY DEF SessionInv, MasterInv, MasterCleared
<1> QED
  BY <1>1, SessionCorrect, PTL

\* With any number of threads releasing the driver, at any moment of its
\* firmware's callback, the caller takes nothing down that is still in use.
THEOREM SessionTeardown == SessionSpec => []TeardownSafe
<1>1. NoUseAfterFree /\ VectorsInDomain /\ MasterCleared => TeardownSafe
  BY DEF TeardownSafe
<1> QED
  BY <1>1, SessionProtects, SessionDomain, SessionMaster, PTL
-----------------------------------------------------------------------------
(* Configuration space at the end.                                         *)

\* The stages in which the table of controls may be in use, and those after
\* the restoration.
Lent == {"scan", "identify", "endpoint", "endfree", "override", "fence",
         "removehost", "restore"}

Given == {"node", "msiout", "done"}

\* Until the scan nothing is written; then whatever is written is in the table
\* or in the named registers, so that the restoration reaches it; after it a
\* session without an error has left nothing behind.
RestoreInv ==
  /\ stage \notin Lent \cup Given => dirty = {} /\ master = {} /\ ~rejected
  /\ stage \in Lent \cup {"host"} => saved = Cfg!Controls(opts, caps)
  /\ stage \in Lent => dirty \subseteq saved \cup Cfg!Named
  /\ stage \in Given /\ ret = "ok" => dirty = {} /\ master = {} /\ ~rejected
  /\ rejected \in BOOLEAN
  /\ stage \in {"override", "fence"} => "firmware" \in opts
  /\ "msi" \notin opts => port = "zero" /\ ~domain /\ stage # "msiout"
  /\ stage = "msi" => port = "zero" /\ ~domain
  /\ stage = "done" /\ ret = "ok" => port = "zero" /\ ~domain

\* What a write through the policy may change is restored.
LEMMA AllowedIsRestored ==
  ASSUME NEW a, NEW reg \in Cfg!Regs, NEW value, Cfg!Allowed(a, reg, value),
         <<1, "lnkctl">> \in saved
  PROVE  {Cfg!Target(reg)} \ Cfg!Commands \subseteq saved \cup Cfg!Named
<1>1. CASE reg[2] = "bar"
  BY <1>1 DEF Cfg!Regs, Cfg!Named, Cfg!Commands, Cfg!Common, Cfg!RootWindows,
       Cfg!Firmware, Cfg!MsiRegs, Cfg!Target
<1>2. CASE reg[2] = "cmd"
  BY <1>2 DEF Cfg!Regs, Cfg!Named, Cfg!Commands, Cfg!Common, Cfg!RootWindows,
       Cfg!Firmware, Cfg!MsiRegs, Cfg!Target
<1>3. CASE reg \in saved \cup Cfg!Named
  BY <1>3 DEF Cfg!Target
<1>4. CASE reg \in {<<1, "linkword">>, <<1, "mailbox">>, <<0, "secstatus">>}
  BY <1>4 DEF Cfg!Target, Cfg!Commands
<1> QED
  BY <1>1, <1>2, <1>3, <1>4 DEF Cfg!Allowed

\* What the watchdog replay writes past the policy is in the table too.
LEMMA ReplayIsRestored ==
  ASSUME "firmware" \in opts, opts \in OptionSets, saved = Cfg!Controls(opts, caps)
  PROVE  Cfg!Replayed(caps) \subseteq saved \cup Cfg!Named
BY DEF OptionSets, Cfg!Replayed, Cfg!Controls, Cfg!Named, Cfg!MsiRegs,
       Cfg!Firmware, Cfg!Common

LEMMA LinkIsSaved ==
  ASSUME saved = Cfg!Controls(opts, caps)
  PROVE  <<1, "lnkctl">> \in saved
BY DEF Cfg!Controls, Cfg!Common

LEMMA MsiIsSaved ==
  ASSUME "msi" \in opts, saved = Cfg!Controls(opts, caps)
  PROVE  Cfg!MsiRegs(caps) \subseteq saved
BY DEF Cfg!Controls

LEMMA RestoreStarts == SessionInit => RestoreInv
BY DEF SessionInit, RestoreInv, Lent, Given, OptionSets, Cfg!ConfigInit

LEMMA WritesRestore ==
  ASSUME SessionInv, RestoreInv, ScanWrite \/ DriverWrite
  PROVE  RestoreInv'
<1>1. stage \in Lent /\ (stage = "scan" \/ "firmware" \in opts)
  BY DriverInFence DEF ScanWrite, DriverWrite, DriverRuns, Lent, SessionInv, RestoreInv
<1>2. saved = Cfg!Controls(opts, caps) /\ dirty \subseteq saved \cup Cfg!Named
  BY <1>1 DEF RestoreInv
<1>3. saved' = saved /\ rejected' \in BOOLEAN /\ dirty' \subseteq saved \cup Cfg!Named
  <2>1. ASSUME NEW reg \in Cfg!Regs, NEW value, Cfg!Write(active, reg, value)
        PROVE  saved' = saved /\ rejected' \in BOOLEAN
               /\ dirty' \subseteq saved \cup Cfg!Named
    BY <1>2, <2>1, AllowedIsRestored, LinkIsSaved DEF Cfg!Write, RestoreInv
  <2>2. ASSUME NEW reg \in Cfg!Replayed(caps), Cfg!Replay(reg), stage # "scan"
        PROVE  saved' = saved /\ rejected' \in BOOLEAN
               /\ dirty' \subseteq saved \cup Cfg!Named
    BY <1>1, <1>2, <2>2, ReplayIsRestored
       DEF Cfg!Replay, RestoreInv, SessionInv, StageInv
  <2>3. DriverWrite => stage # "scan"
    BY DriverInFence DEF DriverWrite, DriverRuns, SessionInv
  <2> QED
    BY <2>1, <2>2, <2>3 DEF ScanWrite, DriverWrite
<1>4. UNCHANGED <<stage, ret, opts, caps, port, domain>>
  BY DEF ScanWrite, DriverWrite
<1> QED
  BY <1>1, <1>2, <1>3, <1>4 DEF RestoreInv, Lent, Given

\* The endpoint's and the driver's MSI set-up.
LEMMA MsiRestores ==
  ASSUME SessionInv, RestoreInv, EndpointMapped \/ DriverMapped
  PROVE  RestoreInv'
<1>1. "msi" \in opts /\ stage \in {"endpoint", "fence"} /\ (DriverMapped => stage = "fence")
  BY DriverInFence
     DEF EndpointMapped, DriverMapped, At, SessionInv, StageInv, HolderInv,
         Vectored, Busy, Msi!AllocMapped
<1>2. saved = Cfg!Controls(opts, caps) /\ dirty \subseteq saved \cup Cfg!Named
  BY <1>1 DEF RestoreInv, Lent
<1>3. saved' = saved /\ rejected' \in BOOLEAN /\ dirty' \subseteq saved \cup Cfg!Named
  BY <1>1, <1>2, MsiIsSaved DEF EndpointMapped, DriverMapped, Cfg!WriteAll, RestoreInv
<1>4. /\ UNCHANGED <<opts, caps, port, domain>>
      /\ stage' \in {"endfree", "fence"} /\ (stage' = "fence" => stage = "fence")
  BY <1>1 DEF EndpointMapped, DriverMapped, At, NoCall, callVars
<1> QED
  BY <1>1, <1>2, <1>3, <1>4 DEF RestoreInv, Lent, Given

\* Steps of the caller before the host bridge is there.
LEMMA EntryRestores ==
  ASSUME SessionInv, RestoreInv,
         \/ CreateDomain \/ ProgramPort \/ SelfAlloc \/ SelfCheck \/ SelfRefused
         \/ CallerFree \/ CallerFreed \/ Operate \/ ScanBaseline \/ CreateHost
  PROVE  RestoreInv'
<1> USE DEF RestoreInv, SessionInv, StageInv, Lent, Given, At, Goes, Fails,
            NoCfg, cfgVars, NoCall, callVars
<1>1. CASE CreateDomain \/ ProgramPort
  BY <1>1 DEF CreateDomain, ProgramPort, Vectored
<1>2. CASE SelfAlloc \/ SelfCheck \/ SelfRefused
  BY <1>2 DEF SelfAlloc, SelfCheck, SelfRefused, Vectored
<1>3. CASE CallerFree \/ CallerFreed
  BY <1>3 DEF CallerFree, CallerFreed
<1>4. CASE Operate
  BY <1>4 DEF Operate, Vectored
<1>5. CASE ScanBaseline
  BY <1>5 DEF ScanBaseline, LeaveMsi, Cfg!Save
<1>6. CASE CreateHost
  BY <1>6 DEF CreateHost
<1> QED
  BY <1>1, <1>2, <1>3, <1>4, <1>5, <1>6

\* Steps of the caller with the host bridge, and on the way out.
LEMMA ExitRestores ==
  ASSUME SessionInv, RestoreInv,
         \/ Scanned \/ Identify \/ EndpointAlloc \/ EndpointRefused
         \/ EndpointDone \/ Override \/ AttachDriver \/ ReleasedDriver
         \/ RemoveHost \/ RestoreConfig \/ RemoveNode \/ MsiOut
  PROVE  RestoreInv'
<1> USE DEF RestoreInv, SessionInv, StageInv, Lent, Given, At, Goes, Fails,
            NoCfg, cfgVars, NoCall, callVars
<1>1. CASE Scanned
  BY <1>1 DEF Scanned
<1>2. CASE EndpointAlloc
  BY <1>2 DEF EndpointAlloc
<1>3. CASE EndpointRefused
  BY <1>3 DEF EndpointRefused
<1>4. CASE EndpointDone
  BY <1>4 DEF EndpointDone
<1>5. CASE Identify
  BY <1>5 DEF Identify, Identified
<1>6. CASE Override \/ AttachDriver
  BY <1>6 DEF Override, AttachDriver, Rest
<1>7. CASE ReleasedDriver
  BY <1>7 DEF ReleasedDriver, Cfg!ClearMaster
<1>8. CASE RemoveHost
  BY <1>8 DEF RemoveHost
<1>9. CASE RestoreConfig
  BY <1>9 DEF RestoreConfig, Cfg!Restore
<1>10. CASE RemoveNode
  BY <1>10 DEF RemoveNode, LeaveMsi
<1>11. CASE MsiOut
  BY <1>11 DEF MsiOut
<1> QED
  BY <1>1, <1>2, <1>3, <1>4, <1>5, <1>6, <1>7, <1>8, <1>9, <1>10, <1>11

\* Steps of the other threads.
LEMMA DriverRestores ==
  ASSUME RestoreInv,
         \/ DriverAlloc \/ DriverRefused \/ SetupDriver \/ SetupReports
         \/ \E t \in Threads : ReleaseStep(t) \/ UnbindDriver(t)
  PROVE  RestoreInv'
BY DEF RestoreInv, DriverAlloc, DriverRefused, SetupDriver, SetupReports,
       ReleaseStep, WaitRelease, DriverFree, DriverFreed, RemoveDriver,
       UnbindDriver, Rest, NoCfg, cfgVars, NoCall, callVars

\* What the calls leave in configuration space can always be put back.
THEOREM SessionRestoreInv == SessionSpec => []RestoreInv
<1>1. SessionInv /\ RestoreInv /\ [SessionNext]_allVars => RestoreInv'
  <2> SUFFICES ASSUME SessionInv, RestoreInv, [SessionNext]_allVars
               PROVE  RestoreInv'
    OBVIOUS
  <2>1. CASE UNCHANGED allVars
    BY <2>1 DEF allVars, cfgVars, callVars, RestoreInv
  <2> QED
    BY <2>1, WritesRestore, MsiRestores, EntryRestores, ExitRestores,
       DriverRestores DEF SessionNext, CallerStep, SetupStep
<1> QED
  BY <1>1, RestoreStarts, SessionCorrect, PTL DEF SessionSpec

\* A session that reports success has put configuration space back, whatever
\* the core, the driver and its watchdog replay wrote, and has given back
\* every vector, the MSI registers and the domain.
THEOREM SessionRestores == SessionSpec => []ConfigRestored
<1>1. SessionInv /\ RestoreInv => ConfigRestored
  <2> SUFFICES ASSUME SessionInv, RestoreInv, stage = "done", ret = "ok"
               PROVE  /\ dirty = {} /\ master = {} /\ ~rejected
                      /\ used = {} /\ parent = {} /\ port = "zero" /\ ~domain
    BY DEF ConfigRestored
  <2>1. used = {} /\ parent = {}
    BY NoVectors DEF Vectored
  <2> QED
    BY <2>1 DEF RestoreInv, Given
<1> QED
  BY <1>1, SessionCorrect, SessionRestoreInv, PTL
-----------------------------------------------------------------------------
(* Types.                                                                  *)

\* What SessionInv does not say of the types.
CallTypes ==
  /\ ret \in {"ok", "err"} /\ port \in {"zero", "set"}
  /\ active \in BOOLEAN /\ domain \in BOOLEAN /\ host \in BOOLEAN
  /\ writes \in 0 .. MaxWrites

LEMMA ControlsAreRegs ==
  ASSUME caps \subseteq {"msihigh", "msimask"}
  PROVE  /\ Cfg!Controls(opts, caps) \subseteq Cfg!Regs
         /\ Cfg!MsiRegs(caps) \subseteq Cfg!Regs
         /\ Cfg!Replayed(caps) \subseteq Cfg!Regs
         /\ Cfg!Named \subseteq Cfg!Regs
<1> USE DEF Cfg!Regs
<1>1. Cfg!MsiRegs(caps) \subseteq Cfg!Regs
  BY DEF Cfg!MsiRegs
<1>2. Cfg!Controls(opts, caps) \subseteq Cfg!Regs
  BY <1>1 DEF Cfg!Controls
<1>3. Cfg!MsiRegs(caps \ {"msimask"}) \subseteq Cfg!Regs
  BY DEF Cfg!MsiRegs
<1>4. Cfg!Replayed(caps) \subseteq Cfg!Regs
  BY <1>3 DEF Cfg!Replayed, Cfg!Common, Cfg!Named
<1> QED
  BY <1>1, <1>2, <1>4

\* Registers are written by a write, a replay, an MSI set-up or the
\* restoration, and the table by its one assignment.
ConfigStep ==
  \/ UNCHANGED <<saved, dirty, master>>
  \/ Cfg!Save(opts, caps) \/ Cfg!ClearMaster \/ Cfg!WriteAll(Cfg!MsiRegs(caps))
  \/ \E reg \in Cfg!Regs, value \in {"plain", "danger"} : Cfg!Write(active, reg, value)
  \/ \E reg \in Cfg!Replayed(caps) : Cfg!Replay(reg)
  \/ \E stuck \in SUBSET dirty : Cfg!Restore(stuck)

LEMMA ConfigTypes ==
  ASSUME Cfg!ConfigTypeOK, ConfigStep, caps \subseteq {"msihigh", "msimask"},
         rejected' \in BOOLEAN
  PROVE  Cfg!ConfigTypeOK'
<1> USE ControlsAreRegs DEF Cfg!ConfigTypeOK
<1>1. CASE UNCHANGED <<saved, dirty, master>> \/ Cfg!Save(opts, caps) \/ Cfg!ClearMaster
  BY <1>1 DEF Cfg!Save, Cfg!ClearMaster
<1>2. CASE Cfg!WriteAll(Cfg!MsiRegs(caps))
  BY <1>2 DEF Cfg!WriteAll
<1>3. ASSUME NEW reg \in Cfg!Regs, NEW value \in {"plain", "danger"},
             Cfg!Write(active, reg, value)
      PROVE  Cfg!ConfigTypeOK'
  <2>1. reg[1] \in {0, 1}
    BY DEF Cfg!Regs, Cfg!Named, Cfg!Commands, Cfg!MsiRegs
  <2>2. Cfg!Target(reg) \in Cfg!Regs
    BY DEF Cfg!Target, Cfg!Regs, Cfg!Common
  <2> QED
    BY <1>3, <2>1, <2>2 DEF Cfg!Write, Cfg!Masters
<1>4. ASSUME NEW reg \in Cfg!Replayed(caps), Cfg!Replay(reg) PROVE Cfg!ConfigTypeOK'
  BY <1>4 DEF Cfg!Replay
<1>5. ASSUME NEW stuck \in SUBSET dirty, Cfg!Restore(stuck) PROVE Cfg!ConfigTypeOK'
  BY <1>5 DEF Cfg!Restore
<1> QED
  BY <1>1, <1>2, <1>3, <1>4, <1>5 DEF ConfigStep

\* The caller's steps, by what they do to configuration space.
LEMMA CallerTypes ==
  ASSUME SessionInv, RestoreInv, CallTypes, CallerStep
  PROVE  CallTypes' /\ ConfigStep
<1> USE DEF CallTypes, ConfigStep, At, Goes, Fails, NoCfg, cfgVars, NoCall, callVars
<1>1. CASE CreateDomain \/ ProgramPort
  BY <1>1 DEF CreateDomain, ProgramPort
<1>2. CASE SelfAlloc \/ SelfCheck \/ SelfRefused \/ CallerFree \/ CallerFreed \/ Operate
  BY <1>2 DEF SelfAlloc, SelfCheck, SelfRefused, CallerFree, CallerFreed, Operate
<1>3. CASE ScanBaseline \/ CreateHost \/ Scanned \/ Identify
  BY <1>3 DEF ScanBaseline, CreateHost, Scanned, Identify
<1>4. CASE EndpointAlloc \/ EndpointMapped \/ EndpointRefused \/ EndpointDone
  BY <1>4 DEF EndpointAlloc, EndpointMapped, EndpointRefused, EndpointDone
<1>5. CASE Override \/ AttachDriver \/ ReleasedDriver
  BY <1>5 DEF Override, AttachDriver, Rest, ReleasedDriver
<1>6. CASE RemoveHost \/ RemoveNode \/ MsiOut
  BY <1>6 DEF RemoveHost, RemoveNode, MsiOut
<1>7. CASE RestoreConfig
  BY <1>7 DEF RestoreConfig
<1> QED
  BY <1>1, <1>2, <1>3, <1>4, <1>5, <1>6, <1>7 DEF CallerStep

LEMMA OtherTypes ==
  ASSUME CallTypes,
         \/ SetupStep \/ ScanWrite \/ DriverWrite
         \/ \E t \in Threads : ReleaseStep(t) \/ UnbindDriver(t)
  PROVE  CallTypes' /\ ConfigStep
<1> USE SessionAssumption
        DEF CallTypes, ConfigStep, NoCfg, cfgVars, NoCall, callVars, Rest
<1>1. CASE SetupStep
  BY <1>1 DEF SetupStep, DriverAlloc, DriverMapped, DriverRefused, SetupDriver,
       SetupReports
<1>2. CASE ScanWrite
  BY <1>2 DEF ScanWrite
<1>3. CASE DriverWrite
  BY <1>3 DEF DriverWrite
<1>4. ASSUME NEW t \in Threads, ReleaseStep(t) \/ UnbindDriver(t)
      PROVE  CallTypes' /\ ConfigStep
  BY <1>4 DEF ReleaseStep, WaitRelease, DriverFree, DriverFreed, RemoveDriver,
       UnbindDriver
<1> QED
  BY <1>1, <1>2, <1>3, <1>4

\* The variables of the session keep their types, and the driver's writes
\* their bound.
THEOREM SessionTypeCorrect == SessionSpec => []SessionTypeOK
<1> DEFINE Typed == CallTypes /\ Cfg!ConfigTypeOK
<1>1. SessionInit => Typed
  <2> SUFFICES ASSUME SessionInit PROVE Typed
    OBVIOUS
  <2>1. CallTypes
    <3>1. writes \in 0 .. MaxWrites
      BY SessionAssumption DEF SessionInit
    <3>2. active \in BOOLEAN /\ domain \in BOOLEAN /\ host \in BOOLEAN
      BY DEF SessionInit
    <3> QED
      BY <3>1, <3>2 DEF SessionInit, CallTypes
  <2>2. Cfg!ConfigTypeOK
    BY DEF SessionInit, Cfg!ConfigTypeOK, Cfg!ConfigInit
  <2> QED
    BY <2>1, <2>2
<1>2. SessionInv /\ RestoreInv /\ RestoreInv' /\ Typed /\ [SessionNext]_allVars => Typed'
  <2> SUFFICES ASSUME SessionInv, RestoreInv, RestoreInv', Typed, [SessionNext]_allVars
               PROVE  Typed'
    OBVIOUS
  <2>1. CASE UNCHANGED allVars
    BY <2>1 DEF allVars, cfgVars, callVars, CallTypes, Cfg!ConfigTypeOK
  <2>2. CASE SessionNext
    <3>1. CallTypes' /\ ConfigStep
      BY <2>2, CallerTypes, OtherTypes DEF SessionNext
    <3> QED
      BY <3>1, ConfigTypes DEF SessionInv, MasterInv, RestoreInv
  <2> QED
    BY <2>1, <2>2
<1>3. SessionInv /\ Typed => SessionTypeOK
  BY DEF SessionInv, StageInv, MasterInv, MsiInv, CallTypes, SessionTypeOK
<1> QED
  BY <1>1, <1>2, <1>3, SessionCorrect, SessionRestoreInv, PTL DEF SessionSpec

-----------------------------------------------------------------------------
(* The table of controls.                                                  *)

LEMMA AtMostFive ==
  ASSUME NEW a, NEW b, NEW c, NEW d, NEW e
  PROVE  IsFiniteSet({a, b, c, d, e}) /\ Cardinality({a, b, c, d, e}) <= 5
<1>1. IsFiniteSet({a}) /\ Cardinality({a}) = 1
  BY FS_Singleton
<1>2. IsFiniteSet({a} \cup {b}) /\ Cardinality({a} \cup {b}) \in {1, 2}
  BY <1>1, FS_AddElement
<1>3. IsFiniteSet({a} \cup {b} \cup {c}) /\ Cardinality({a} \cup {b} \cup {c}) \in 1 .. 3
  BY <1>2, FS_AddElement
<1>4. /\ IsFiniteSet({a} \cup {b} \cup {c} \cup {d})
      /\ Cardinality({a} \cup {b} \cup {c} \cup {d}) \in 1 .. 4
  BY <1>3, FS_AddElement
<1>5. /\ IsFiniteSet({a} \cup {b} \cup {c} \cup {d} \cup {e})
      /\ Cardinality({a} \cup {b} \cup {c} \cup {d} \cup {e}) \in 1 .. 5
  BY <1>4, FS_AddElement
<1>6. {a} \cup {b} \cup {c} \cup {d} \cup {e} = {a, b, c, d, e}
  OBVIOUS
<1> QED
  BY <1>5, <1>6

LEMMA UnionBound ==
  ASSUME NEW S, NEW T, IsFiniteSet(S), IsFiniteSet(T)
  PROVE  /\ IsFiniteSet(S \cup T) /\ Cardinality(S \cup T) \in Nat
         /\ Cardinality(S \cup T) <= Cardinality(S) + Cardinality(T)
<1>1. IsFiniteSet(S \cap T) /\ IsFiniteSet(S \cup T)
  BY FS_Intersection, FS_Union
<1>2. /\ Cardinality(S) \in Nat /\ Cardinality(T) \in Nat
      /\ Cardinality(S \cap T) \in Nat /\ Cardinality(S \cup T) \in Nat
  BY <1>1, FS_CardinalityType
<1>3. Cardinality(S \cup T) = Cardinality(S) + Cardinality(T) - Cardinality(S \cap T)
  BY FS_Union
<1> QED
  BY <1>1, <1>2, <1>3

\* All that the options and the capabilities may ask for.
AllControls == Cfg!Controls({"memory", "msi", "firmware"}, {"msihigh", "msimask"})

LEMMA AllControlsFit == IsFiniteSet(AllControls) /\ Cardinality(AllControls) <= 26
<1> DEFINE R0 == {<<0, "pm">>, <<0, "devctl2">>, <<0, "lnkctl">>, <<0, "l1ss1">>, <<0, "l1ss2">>}
           R1 == {<<1, "pm">>, <<1, "devctl2">>, <<1, "lnkctl">>, <<1, "l1ss1">>, <<1, "l1ss2">>}
           W  == {<<0, "io">>, <<0, "pref">>, <<0, "memory">>, <<0, "prefbase">>,
                  <<0, "preflimit">>}
           I  == {<<0, "iohigh">>}
           M  == {<<1, "msiflags">>, <<1, "msilow">>, <<1, "msidata">>, <<1, "msihigh">>,
                  <<1, "msimask">>}
           F  == {<<1, "window">>, <<1, "dc">>, <<1, "228">>, <<1, "4e0">>, <<1, "4f4">>}
<1>1. AllControls = R0 \cup R1 \cup W \cup I \cup M \cup F
  <2>1. {<<b, name>> : b \in {0, 1}, name \in Cfg!Common} = R0 \cup R1
    BY DEF Cfg!Common
  <2>2. {<<0, "io">>, <<0, "pref">>} \cup {<<0, name>> : name \in Cfg!RootWindows} = W \cup I
    BY DEF Cfg!RootWindows
  <2>3. Cfg!MsiRegs({"msihigh", "msimask"}) = M
    BY DEF Cfg!MsiRegs
  <2>4. {<<1, name>> : name \in Cfg!Firmware} = F
    BY DEF Cfg!Firmware
  <2> HIDE DEF R0, R1, W, I, M, F
  <2> QED
    BY <2>1, <2>2, <2>3, <2>4 DEF AllControls, Cfg!Controls
<1>2. /\ IsFiniteSet(R0) /\ Cardinality(R0) <= 5 /\ IsFiniteSet(R1) /\ Cardinality(R1) <= 5
      /\ IsFiniteSet(W) /\ Cardinality(W) <= 5 /\ IsFiniteSet(M) /\ Cardinality(M) <= 5
      /\ IsFiniteSet(F) /\ Cardinality(F) <= 5
  BY AtMostFive
<1>3. IsFiniteSet(I) /\ Cardinality(I) = 1
  <2>1. \A x : IsFiniteSet({x}) /\ Cardinality({x}) = 1
    BY FS_Singleton
  <2> QED
    BY <2>1
<1> HIDE DEF R0, R1, W, I, M, F
<1> DEFINE A == R0 \cup R1
           B == A \cup W
           C == B \cup I
           D == C \cup M
           E == D \cup F
<1>4. /\ Cardinality(R0) \in Nat /\ Cardinality(R1) \in Nat /\ Cardinality(W) \in Nat
      /\ Cardinality(M) \in Nat /\ Cardinality(F) \in Nat
  BY <1>2, FS_CardinalityType
<1>5. /\ IsFiniteSet(A) /\ Cardinality(A) \in Nat
      /\ Cardinality(A) <= Cardinality(R0) + Cardinality(R1)
  BY <1>2, UnionBound
<1> HIDE DEF A
<1>6. /\ IsFiniteSet(B) /\ Cardinality(B) \in Nat
      /\ Cardinality(B) <= Cardinality(A) + Cardinality(W)
  BY <1>2, <1>5, UnionBound
<1> HIDE DEF B
<1>7. /\ IsFiniteSet(C) /\ Cardinality(C) \in Nat
      /\ Cardinality(C) <= Cardinality(B) + Cardinality(I)
  BY <1>3, <1>6, UnionBound
<1> HIDE DEF C
<1>8. /\ IsFiniteSet(D) /\ Cardinality(D) \in Nat
      /\ Cardinality(D) <= Cardinality(C) + Cardinality(M)
  BY <1>2, <1>7, UnionBound
<1> HIDE DEF D
<1>9. /\ IsFiniteSet(E) /\ Cardinality(E) \in Nat
      /\ Cardinality(E) <= Cardinality(D) + Cardinality(F)
  BY <1>2, <1>8, UnionBound
<1> HIDE DEF E
<1>10. Cardinality(E) <= 26
  BY <1>2, <1>3, <1>4, <1>5, <1>6, <1>7, <1>8, <1>9
<1> QED
  BY <1>1, <1>9, <1>10 DEF A, B, C, D, E

\* With the 26 entries of the code the table never overflows, whatever the
\* options of the call and the endpoint's capabilities.
THEOREM SessionControlsFit ==
  ASSUME Capacity >= 26
  PROVE  SessionSpec => []ControlsFit
<1>1. SessionInit => saved \subseteq AllControls
  BY DEF SessionInit, Cfg!ConfigInit
<1>2. SessionInv /\ RestoreInv /\ SessionTypeOK /\ [SessionNext]_allVars
        /\ saved \subseteq AllControls => (saved \subseteq AllControls)'
  <2> SUFFICES ASSUME SessionInv, RestoreInv, SessionTypeOK, [SessionNext]_allVars,
                      saved \subseteq AllControls
               PROVE  saved' \subseteq AllControls
    BY DEF AllControls, Cfg!Controls, Cfg!MsiRegs
  <2>1. CASE UNCHANGED allVars
    BY <2>1 DEF allVars, cfgVars
  <2>2. CASE SessionNext
    <3>1. CallTypes
      BY DEF SessionTypeOK, CallTypes
    <3>2. ConfigStep
      BY <2>2, <3>1, CallerTypes, OtherTypes DEF SessionNext
    <3>3. saved' = saved \/ saved' = Cfg!Controls(opts, caps)
      BY <3>2 DEF ConfigStep, Cfg!Save, Cfg!ClearMaster, Cfg!WriteAll, Cfg!Write,
         Cfg!Replay, Cfg!Restore
    <3>4. Cfg!Controls(opts, caps) \subseteq AllControls
      <4>1. Cfg!MsiRegs(caps) \subseteq Cfg!MsiRegs({"msihigh", "msimask"})
        BY DEF SessionTypeOK, Cfg!MsiRegs
      <4> QED
        BY <4>1 DEF AllControls, Cfg!Controls
    <3> QED
      BY <3>3, <3>4
  <2> QED
    BY <2>1, <2>2
<1>3. saved \subseteq AllControls => ControlsFit
  <2> SUFFICES ASSUME saved \subseteq AllControls PROVE Cardinality(saved) <= Capacity
    BY DEF ControlsFit
  <2>1. IsFiniteSet(saved) /\ Cardinality(saved) <= Cardinality(AllControls)
    BY AllControlsFit, FS_Subset
  <2>2. Cardinality(saved) \in Nat /\ Cardinality(AllControls) \in Nat
    BY <2>1, AllControlsFit, FS_CardinalityType
  <2> QED
    BY <2>1, <2>2, AllControlsFit, SessionAssumption
<1> QED
  BY <1>1, <1>2, <1>3, SessionCorrect, SessionRestoreInv, SessionTypeCorrect, PTL
     DEF SessionSpec
=============================================================================
