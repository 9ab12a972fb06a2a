---------------------------- MODULE FirmwareFence ----------------------------
(***************************************************************************)
(* The completion fence that kernel patch 0003 adds to brcmfmac, and its   *)
(* use by a1625_scan_firmware.                                             *)
(*                                                                         *)
(* brcmf_pcie_probe starts the firmware request; its callback,             *)
(* brcmf_pcie_setup, runs on the firmware loader's thread and uses devinfo *)
(* and the hardware.  Any thread may release the driver: the caller of the *)
(* probe module after its observation, the callback itself when it fails,  *)
(* and a user through sysfs.  device_release_driver holds the device lock  *)
(* around brcmf_pcie_remove, which frees devinfo.  What the patch does not *)
(* show of the driver and of the driver core is external.                  *)
(***************************************************************************)

CONSTANTS
  Unbinders,       \* threads that unbind the driver through sysfs
  Caller, Loader,  \* the probe module's thread and the firmware loader's
  NoOne            \* nobody holds the device lock

ASSUME ThreadsAssumption ==
  /\ Caller # Loader
  /\ {Caller, Loader} \cap Unbinders = {}
  /\ NoOne \notin Unbinders \cup {Caller, Loader}

VARIABLES
  pc, lock,
  bound,           \* the device has a driver
  info,            \* devinfo: "none", "live" or "freed"
  done             \* the completion fw_setup_done

vars == <<pc, lock, bound, info, done>>

Threads == Unbinders \cup {Caller, Loader}

TypeOK ==
  /\ pc \in [Threads -> {"idle", "probe", "observe", "setup", "failed",
                         "release", "locked", "remove", "down", "end"}]
  /\ lock \in Threads \cup {NoOne}
  /\ bound \in BOOLEAN
  /\ info \in {"none", "live", "freed"}
  /\ done \in BOOLEAN

Init ==
  /\ pc = [t \in Threads |-> "idle"]
  /\ lock = NoOne
  /\ bound = FALSE
  /\ info = "none"
  /\ done = FALSE

Goto(t, from, to) == pc[t] = from /\ pc' = [pc EXCEPT ![t] = to]

-----------------------------------------------------------------------------
(* device_attach: probe runs under the device lock.                        *)

\* devinfo is allocated, its completion initialised, and the firmware
\* requested: from here on the callback may run.
Probe ==
  /\ lock = NoOne
  /\ pc[Caller] = "idle"
  /\ pc' = [pc EXCEPT ![Caller] = "probe", ![Loader] = "setup"]
  /\ lock' = Caller
  /\ info' = "live"
  /\ done' = FALSE
  /\ UNCHANGED bound

ProbeReturns ==
  /\ Goto(Caller, "probe", "observe")
  /\ bound' = TRUE
  /\ lock' = NoOne
  /\ UNCHANGED <<info, done>>

\* Probe fails before it has requested the firmware, or nothing binds.
ProbeFails ==
  /\ Goto(Caller, "idle", "observe")
  /\ UNCHANGED <<lock, bound, info, done>>

\* The observation and the hold end; the driver is released.
Observed ==
  /\ Goto(Caller, "observe", "release")
  /\ UNCHANGED <<lock, bound, info, done>>

-----------------------------------------------------------------------------
(* brcmf_pcie_setup, the callback.                                         *)

SetupSucceeds ==
  /\ Goto(Loader, "setup", "end")
  /\ done' = TRUE
  /\ UNCHANGED <<lock, bound, info>>

\* The failure is logged through devinfo ...
SetupFails ==
  /\ Goto(Loader, "setup", "failed")
  /\ UNCHANGED <<lock, bound, info, done>>

\* Mutated: the completion is left to the release.
FailWithoutSignal ==
  /\ Goto(Loader, "failed", "release")
  /\ UNCHANGED <<lock, bound, info, done>>

\* ... and signalled before device_release_driver.
SignalFailure ==
  /\ Goto(Loader, "failed", "release")
  /\ done' = TRUE
  /\ UNCHANGED <<lock, bound, info>>

-----------------------------------------------------------------------------
(* device_release_driver and brcmf_pcie_remove.                            *)

Unbind(t) ==
  /\ t \in Unbinders
  /\ Goto(t, "idle", "release")
  /\ UNCHANGED <<lock, bound, info, done>>

Lock(t) ==
  /\ lock = NoOne
  /\ Goto(t, "release", "locked")
  /\ lock' = t
  /\ UNCHANGED <<bound, info, done>>

\* Where a thread goes after the release.
After(t) == IF t = Caller THEN "down" ELSE "end"

NothingBound(t) ==
  /\ ~bound
  /\ Goto(t, "locked", After(t))
  /\ lock' = NoOne
  /\ UNCHANGED <<bound, info, done>>

\* Mutated: remove does not wait for the callback.
RemoveAtOnce(t) ==
  /\ bound
  /\ Goto(t, "locked", "remove")
  /\ UNCHANGED <<lock, bound, info, done>>

\* wait_for_completion, with the device lock held.
WaitForSetup(t) ==
  /\ bound /\ done
  /\ Goto(t, "locked", "remove")
  /\ UNCHANGED <<lock, bound, info, done>>

\* The rest of remove, which frees devinfo; the lock is dropped.
Remove(t) ==
  /\ Goto(t, "remove", After(t))
  /\ info' = "freed"
  /\ bound' = FALSE
  /\ lock' = NoOne
  /\ UNCHANGED done

\* The caller goes on to remove host bridge, DART, MSI and power.
TakeDown ==
  /\ Goto(Caller, "down", "end")
  /\ UNCHANGED <<lock, bound, info, done>>

-----------------------------------------------------------------------------
Release(t) == Lock(t) \/ NothingBound(t) \/ WaitForSetup(t) \/ Remove(t)

Attach == Probe \/ ProbeReturns \/ ProbeFails \/ Observed \/ TakeDown

Setup == SetupSucceeds \/ SetupFails \/ SignalFailure

Next ==
  \/ Attach \/ Setup
  \/ \E t \in Threads : Unbind(t) \/ Release(t)

Spec == Init /\ [][Next]_vars

-----------------------------------------------------------------------------
(* Properties.                                                             *)

\* Who holds the lock, and in which step of the release.
LockInv ==
  \A t \in Threads :
    /\ pc[t] \in {"probe", "locked", "remove"} => lock = t
    /\ lock = t => pc[t] \in {"probe", "locked", "remove"}

\* The inductive invariant: a live devinfo belongs to a bound driver or a
\* probe that has not returned; until the callback has signalled nobody is
\* past the wait, and the caller is not past the release.
FenceInv ==
  /\ TypeOK
  /\ LockInv
  /\ pc[Caller] \in {"idle", "probe"} => ~bound
  /\ pc[Caller] = "idle" => pc[Loader] = "idle" /\ info = "none"
  /\ pc[Caller] = "probe" => info = "live"
  /\ bound => info = "live"
  /\ pc[Loader] \in {"setup", "failed"} => ~done
  /\ ~done /\ pc[Caller] \notin {"idle", "probe"} =>
       pc[Loader] = "idle" \/ bound
  /\ pc[Loader] = "idle" => ~bound /\ info = "none"
  /\ pc[Loader] \in {"release", "locked", "remove", "end"} => done
  /\ \A t \in Threads : pc[t] = "remove" => done /\ bound
  /\ pc[Caller] \in {"down", "end"} => ~bound

\* "All caller-owned PCI/DART/MSI/power objects remain alive through driver
\* removal and firmware completion": while the callback or a removal runs,
\* devinfo is live and the caller has not begun to take the hardware down.
NoUseAfterFree ==
  /\ pc[Loader] \in {"setup", "failed"} =>
       info = "live" /\ pc[Caller] \notin {"down", "end"}
  /\ \A t \in Threads : pc[t] = "remove" =>
       info = "live" /\ pc[Caller] \notin {"down", "end"}
=============================================================================
