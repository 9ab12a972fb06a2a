----------------------------- MODULE PhyRollback -----------------------------
(***************************************************************************)
(* a1625_with_pcie_phy (pmu-probe/a1625_pcie_phy.h): program the PHY of    *)
(* PCIe port 1 step by step, run a callback while it is ready, and undo    *)
(* the steps in reverse order.                                             *)
(*                                                                         *)
(* A step is a read-modify-write of the bits under its mask.  Masks of one *)
(* register that differ do not overlap, so the bits under a mask are a     *)
(* cell of their own, and the other bits of a register are never changed.  *)
(* The hardware may answer any read with all ones ("dead"), and a write    *)
(* may leave any value in its cell.                                        *)
(***************************************************************************)
EXTENDS Integers, Sequences

CONSTANTS
  Cells, Vals,     \* the register bits under a mask, and their values
  Steps,           \* the table: a sequence of [cell, bits]
  Prefix           \* how many of them inspect_prefix runs

ASSUME StepsAssumption ==
  /\ Steps \in Seq([cell : Cells, bits : Vals])
  /\ Prefix \in Nat
  /\ Len(Steps) = Prefix + 2

VARIABLES
  mode,            \* the module options prepare_port, inspect_prefix, test_refclk
  pc, ret,
  owned,           \* memory regions requested
  regs,            \* the cells of the PHY
  saved,           \* steps[k].saved
  applied, changed, restored,
  orig,            \* (history) the cells before the first step
  hist             \* (history) hist[k]: the cells before step k

vars == <<mode, pc, ret, owned, regs, saved, applied, changed, restored, orig,
          hist>>

Indices == 1 .. Len(Steps)

Modes == [prepare : BOOLEAN, prefix : BOOLEAN, refclk : BOOLEAN]

Errors == {"EINVAL", "ENODEV", "EBUSY", "ENOMEM", "EIO"}

TypeOK ==
  /\ mode \in Modes
  /\ pc \in {"start", "core", "port", "map", "radio", "apply", "inspect",
             "operate", "rollback", "unmap", "done"}
  /\ ret \in Errors \cup {"ok"}
  /\ owned \subseteq {"core", "port"}
  /\ regs \in [Cells -> Vals]
  /\ saved \in [Indices -> Vals]
  /\ applied \in 0 .. Len(Steps)
  /\ changed \in BOOLEAN
  /\ restored \in BOOLEAN
  /\ orig \in [Cells -> Vals]
  /\ hist \in [Indices -> [Cells -> Vals]]

Init ==
  /\ mode \in Modes
  /\ pc = "start"
  /\ ret = "EBUSY"
  /\ owned = {}
  /\ orig \in [Cells -> Vals]
  /\ regs = orig
  /\ saved = [k \in Indices |-> CHOOSE v \in Vals : TRUE]
  /\ applied = 0
  /\ changed = FALSE
  /\ restored = TRUE
  /\ hist = [k \in Indices |-> orig]

-----------------------------------------------------------------------------
(* The steps that run: all; without the last two; or without the last but  *)
(* one, in whose place the last one runs.                                  *)

LastStep ==
  IF ~mode.prefix THEN Len(Steps)
  ELSE IF mode.refclk THEN Prefix + 1 ELSE Prefix

StepAt(k) ==
  IF mode.prefix /\ k = Prefix + 1 THEN Steps[k + 1] ELSE Steps[k]

hardware == <<regs, saved, applied, changed, restored, orig, hist>>

Go(from, to) == pc = from /\ pc' = to

\* goto out with an error.
Fail(from, errors) ==
  /\ Go(from, "rollback")
  /\ ret' \in errors
  /\ UNCHANGED <<mode, owned, hardware>>

\* Options that do not go together, or another board, are refused.
Start ==
  /\ \/ /\ ~(mode.prefix /\ ~mode.prepare) /\ ~(mode.refclk /\ ~mode.prefix)
        /\ Go("start", "core")
        /\ UNCHANGED ret
     \/ Go("start", "done") /\ ret' \in {"EINVAL", "ENODEV"}
  /\ UNCHANGED <<mode, owned, hardware>>

RequestRegion(region, to) ==
  /\ Go(region, to)
  /\ owned' = owned \cup {region}
  /\ UNCHANGED <<mode, ret, hardware>>

RequestCore == RequestRegion("core", "port") \/ Fail("core", {"EBUSY"})
RequestPort == RequestRegion("port", "map") \/ Fail("port", {"EBUSY"})

Ioremap ==
  \/ /\ Go("map", IF mode.prepare THEN "radio" ELSE "inspect")
     /\ UNCHANGED <<mode, ret, owned, hardware>>
  \/ Fail("map", {"ENOMEM"})

\* The steps run only while the PMU says that the radio is off.
RadioIsOff ==
  \/ Go("radio", "apply") /\ ret' = "ok" /\ UNCHANGED <<mode, owned, hardware>>
  \/ Fail("radio", {"ENODEV", "EBUSY", "EIO"})

\* One turn of the loop: read, save, write, read back.
ApplyStep ==
  /\ applied < LastStep
  /\ LET k == applied + 1
         c == StepAt(k).cell
     IN \E v \in Vals, dead \in BOOLEAN :
          /\ IF ~dead /\ v = StepAt(k).bits
               THEN pc' = "apply" /\ UNCHANGED ret
               ELSE pc' = "rollback" /\ ret' = "EIO"
          /\ pc = "apply"
          /\ saved' = [saved EXCEPT ![k] = regs[c]]
          /\ hist' = [hist EXCEPT ![k] = regs]
          /\ regs' = [regs EXCEPT ![c] = v]
          /\ applied' = k
  /\ changed' = TRUE
  /\ UNCHANGED <<mode, owned, restored, orig>>

\* The read before a step finds the core dead: nothing was written.
ApplyDead == applied < LastStep /\ Fail("apply", {"ENODEV"})

ApplyEnd ==
  /\ applied = LastStep
  /\ Go("apply", "inspect")
  /\ UNCHANGED <<mode, ret, owned, hardware>>

\* Core and port registers are read and logged.
Inspect ==
  \/ Go("inspect", "operate") /\ UNCHANGED <<mode, ret, owned, hardware>>
  \/ Fail("inspect", {"ENODEV"})

\* The callback returns; it does not touch the core's cells.
Operate ==
  /\ Go("operate", "rollback")
  /\ ret' \in Errors \cup {"ok"}
  /\ UNCHANGED <<mode, owned, hardware>>

\* One turn of the undo loop; a dead core ends it.
RollbackStep ==
  /\ pc = "rollback" /\ applied > 0
  /\ applied' = applied - 1
  /\ LET c == StepAt(applied).cell
     IN \/ /\ pc' = "unmap"
           /\ restored' = FALSE /\ ret' = "EIO"
           /\ UNCHANGED regs
        \/ \E v \in Vals, dead \in BOOLEAN :
             /\ pc' = "rollback"
             /\ regs' = [regs EXCEPT ![c] = v]
             /\ IF ~dead /\ v = saved[applied]
                  THEN UNCHANGED <<restored, ret>>
                  ELSE restored' = FALSE /\ ret' = "EIO"
  /\ UNCHANGED <<mode, owned, saved, changed, orig, hist>>

\* Mutated: the loop ends before it undoes the first step.
RollbackEndEarly ==
  /\ applied \in {0, 1}
  /\ Go("rollback", "unmap")
  /\ UNCHANGED <<mode, ret, owned, hardware>>

RollbackEnd ==
  /\ applied = 0
  /\ Go("rollback", "unmap")
  /\ UNCHANGED <<mode, ret, owned, hardware>>

Unmap ==
  /\ Go("unmap", "done")
  /\ owned' = {}
  /\ UNCHANGED <<mode, ret, hardware>>

Next ==
  \/ Start \/ RequestCore \/ RequestPort \/ Ioremap \/ RadioIsOff
  \/ ApplyStep \/ ApplyDead \/ ApplyEnd \/ Inspect \/ Operate
  \/ RollbackStep \/ RollbackEnd \/ Unmap

Spec == Init /\ [][Next]_vars

-----------------------------------------------------------------------------
(* Properties.                                                             *)

\* The inductive invariant: the saved values and the present cells determine
\* the cells before the first step.  hist[k] and hist[k + 1] differ at most
\* in the cell of step k, and saved[k] is what that cell held; the cells now
\* differ from hist[applied] at most in the cell of the last step.
SameBut(f, g, c) == \A d \in Cells : d # c => f[d] = g[d]

Undoable ==
  /\ applied <= LastStep
  /\ applied = 0 => regs = orig
  /\ applied > 0 => hist[1] = orig /\ SameBut(regs, hist[applied], StepAt(applied).cell)
  /\ \A k \in 1 .. applied : saved[k] = hist[k][StepAt(k).cell]
  /\ \A k \in 1 .. applied - 1 : SameBut(hist[k + 1], hist[k], StepAt(k).cell)

\* Each cell holds what the last of the applied steps on it wrote.
Written ==
  \A k \in 1 .. applied :
    (\A j \in k + 1 .. applied : StepAt(j).cell # StepAt(k).cell) =>
      regs[StepAt(k).cell] = StepAt(k).bits

PhyInv ==
  /\ restored => Undoable
  /\ pc \notin {"rollback", "unmap", "done"} => restored
  /\ pc \in {"unmap", "done"} /\ restored => applied = 0
  /\ ~restored => ret = "EIO"
  /\ pc \in {"start", "core", "port", "map", "radio"} => applied = 0
  /\ pc \in {"radio", "apply"} => mode.prepare
  /\ pc \in {"apply", "inspect", "operate"} /\ mode.prepare => Written
  /\ pc \in {"inspect", "operate"} /\ mode.prepare => applied = LastStep
  /\ pc \in {"start", "core", "done"} => owned = {}

\* What the callback relies on: it runs only after every step was verified,
\* each cell holding what the last step on it wrote.  Steps 3 and 4 write the
\* same cell, 2 and 5, 1 and 6, 7 and 11 do too: the order matters.
PhyReady ==
  pc = "operate" /\ mode.prepare => applied = LastStep /\ Written

\* Whatever failed and wherever, the function either has put every cell back
\* or returns -EIO; with "restored" it has.
RestoredOrReported ==
  pc = "done" => owned = {} /\ (regs = orig \/ ret = "EIO")
                 /\ (restored => regs = orig)
=============================================================================
