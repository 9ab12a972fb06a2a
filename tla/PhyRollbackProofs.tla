-------------------------- MODULE PhyRollbackProofs --------------------------
(* Theorems about PhyRollback, for every table of steps.                   *)
EXTENDS PhyRollback, TLAPS

\* An element of a sequence.
LEMMA ElementType ==
  ASSUME NEW S, NEW s \in Seq(S), NEW k \in 1 .. Len(s)
  PROVE  s[k] \in S
OBVIOUS

\* The table that runs is part of the table, whatever the options.
LEMMA StepTypes ==
  ASSUME TypeOK
  PROVE  /\ LastStep \in 0 .. Len(Steps)
         /\ \A k \in 1 .. LastStep :
              StepAt(k).cell \in Cells /\ StepAt(k).bits \in Vals
<1>1. /\ Len(Steps) \in Nat /\ Prefix \in Nat /\ Len(Steps) = Prefix + 2
      /\ \A k \in 1 .. Len(Steps) : Steps[k] \in [cell : Cells, bits : Vals]
  <2>1. \A k \in 1 .. Len(Steps) : Steps[k] \in [cell : Cells, bits : Vals]
    BY StepsAssumption, ElementType, Zenon
  <2> QED
    BY <2>1, StepsAssumption
<1>2. LastStep \in 0 .. Len(Steps)
  BY <1>1 DEF LastStep, TypeOK, Modes
<1>3. ASSUME NEW k \in 1 .. LastStep
      PROVE  StepAt(k) \in [cell : Cells, bits : Vals]
  <2>1. mode.prefix /\ k = Prefix + 1 => k + 1 \in 1 .. Len(Steps)
    BY <1>1
  <2>2. k \in 1 .. Len(Steps)
    BY <1>1, <1>2
  <2> QED
    BY <1>1, <2>1, <2>2 DEF StepAt
<1> QED
  BY <1>2, <1>3

\* Types are kept by every step, as no more than LastStep steps are applied.
Bounded == applied <= LastStep

LEMMA TypeStep ==
  ASSUME TypeOK, Bounded, [Next]_vars
  PROVE  TypeOK' /\ Bounded'
<1> USE DEF TypeOK, Bounded
<1>0. /\ LastStep \in 0 .. Len(Steps)
      /\ \A k \in 1 .. LastStep :
           StepAt(k).cell \in Cells /\ StepAt(k).bits \in Vals
  BY StepTypes
<1>1. Len(Steps) \in Nat /\ Prefix \in Nat
  BY StepsAssumption
<1>2. mode' = mode => LastStep' = LastStep
  BY DEF LastStep
<1>3. CASE Start
  BY <1>2, <1>3 DEF Start, Go, hardware, Errors
<1>4. CASE RequestCore
  BY <1>2, <1>4 DEF RequestCore, RequestRegion, Fail, Go, hardware, Errors
<1>5. CASE RequestPort
  BY <1>2, <1>5 DEF RequestPort, RequestRegion, Fail, Go, hardware, Errors
<1>6. CASE Ioremap
  BY <1>2, <1>6 DEF Ioremap, Fail, Go, hardware, Errors
<1>7. CASE RadioIsOff
  BY <1>2, <1>7 DEF RadioIsOff, Fail, Go, hardware, Errors
<1>8. CASE ApplyStep
  <2>1. PICK v \in Vals, dead \in BOOLEAN :
          /\ IF ~dead /\ v = StepAt(applied + 1).bits
               THEN pc' = "apply" /\ UNCHANGED ret
               ELSE pc' = "rollback" /\ ret' = "EIO"
          /\ saved' = [saved EXCEPT ![applied + 1] = regs[StepAt(applied + 1).cell]]
          /\ hist' = [hist EXCEPT ![applied + 1] = regs]
          /\ regs' = [regs EXCEPT ![StepAt(applied + 1).cell] = v]
          /\ applied' = applied + 1
    BY <1>8 DEF ApplyStep
  <2>2. applied + 1 \in 1 .. LastStep /\ applied + 1 \in Indices
    BY <1>0, <1>1, <1>8 DEF ApplyStep, Indices
  <2>3. StepAt(applied + 1).cell \in Cells
    BY <1>0, <2>2
  <2>4. changed' = TRUE /\ mode' = mode /\ UNCHANGED <<owned, restored, orig>>
    BY <1>8 DEF ApplyStep
  <2>5. saved' \in [Indices -> Vals] /\ hist' \in [Indices -> [Cells -> Vals]]
    BY <2>1, <2>2, <2>3
  <2> QED
    BY <1>0, <1>1, <1>2, <2>1, <2>2, <2>3, <2>4, <2>5 DEF Errors
<1>9. CASE ApplyDead
  BY <1>2, <1>9 DEF ApplyDead, Fail, Go, hardware, Errors
<1>10. CASE ApplyEnd
  BY <1>2, <1>10 DEF ApplyEnd, Go, hardware, Errors
<1>11. CASE Inspect
  BY <1>2, <1>11 DEF Inspect, Fail, Go, hardware, Errors
<1>12. CASE Operate
  BY <1>2, <1>12 DEF Operate, Go, hardware, Errors
<1>13. CASE RollbackStep
  <2>1. applied \in 1 .. LastStep /\ applied' = applied - 1 /\ mode' = mode
    BY <1>0, <1>1, <1>13 DEF RollbackStep
  <2>2. StepAt(applied).cell \in Cells
    BY <1>0, <2>1
  <2>3. regs' \in [Cells -> Vals]
    BY <1>13, <2>2 DEF RollbackStep
  <2>4. pc' \in {"rollback", "unmap"} /\ restored' \in BOOLEAN
    BY <1>13 DEF RollbackStep
  <2>5. ret' \in Errors \cup {"ok"}
    BY <1>13 DEF RollbackStep, Errors
  <2>6. UNCHANGED <<mode, owned, saved, changed, orig, hist>>
    BY <1>13 DEF RollbackStep
  <2>7. applied' \in 0 .. Len(Steps) /\ applied' <= LastStep
    BY <1>0, <1>1, <2>1
  <2> QED
    BY <1>2, <2>1, <2>3, <2>4, <2>5, <2>6, <2>7
<1>14. CASE RollbackEnd
  BY <1>2, <1>14 DEF RollbackEnd, Go, hardware, Errors
<1>15. CASE Unmap
  BY <1>2, <1>15 DEF Unmap, Go, hardware, Errors
<1>16. CASE UNCHANGED vars
  BY <1>2, <1>16 DEF vars
<1> QED
  BY <1>3, <1>4, <1>5, <1>6, <1>7, <1>8, <1>9, <1>10, <1>11, <1>12, <1>13,
     <1>14, <1>15, <1>16 DEF Next

LEMMA TypeInit == Init => TypeOK /\ Bounded
<1> SUFFICES ASSUME Init PROVE TypeOK /\ Bounded
  OBVIOUS
<1>1. Len(Steps) \in Nat
  BY StepsAssumption
<1>2. orig \in [Cells -> Vals] /\ regs \in [Cells -> Vals]
  BY DEF Init
<1>3. saved \in [Indices -> Vals]
  <2>1. CASE Indices = {}
    BY <2>1 DEF Init
  <2>2. CASE Indices # {}
    <3>1. 1 \in 1 .. Len(Steps)
      BY <1>1, <2>2 DEF Indices
    <3>2. Steps[1].bits \in Vals
      <4>1. Steps[1] \in [cell : Cells, bits : Vals]
        BY <3>1, StepsAssumption, ElementType, Zenon
      <4> QED
        BY <4>1
    <3>3. (CHOOSE v \in Vals : TRUE) \in Vals
      BY <3>2
    <3> QED
      BY <3>3 DEF Init
  <2> QED
    BY <2>1, <2>2
<1>4. hist \in [Indices -> [Cells -> Vals]]
  BY <1>2 DEF Init
<1>5. TypeOK
  <2>1. mode \in Modes /\ applied \in 0 .. Len(Steps) /\ owned \subseteq {"core", "port"}
    BY <1>1 DEF Init
  <2>2. ret \in Errors \cup {"ok"} /\ changed \in BOOLEAN /\ restored \in BOOLEAN
    BY DEF Init, Errors
  <2> QED
    BY <1>2, <1>3, <1>4, <2>1, <2>2 DEF Init, TypeOK
<1>6. Bounded
  BY <1>1, <1>5, StepTypes DEF Init, Bounded
<1> QED
  BY <1>5, <1>6

\* Type correctness of the driver's state, for any table of steps.
THEOREM PhyTypeCorrect == Spec => []TypeOK
<1>1. Init => TypeOK /\ Bounded
  BY TypeInit
<1>2. TypeOK /\ Bounded /\ [Next]_vars => TypeOK' /\ Bounded'
  BY TypeStep
<1> QED
  BY <1>1, <1>2, PTL DEF Spec

-----------------------------------------------------------------------------
(* The undo invariant.                                                     *)

Inv == TypeOK /\ Bounded /\ PhyInv

LEMMA InvInit == Init => Inv
<1> SUFFICES ASSUME Init PROVE PhyInv
  BY TypeInit DEF Inv
<1>1. TypeOK /\ LastStep \in 0 .. Len(Steps) /\ Len(Steps) \in Nat
  BY TypeInit, StepTypes, StepsAssumption
<1>2. Undoable
  BY <1>1 DEF Init, Undoable
<1> QED
  BY <1>1, <1>2 DEF Init, PhyInv, Written

\* A step that changes neither the cells nor the options keeps them
\* undoable.
LEMMA SameHardware ==
  ASSUME UNCHANGED <<mode, hardware>>
  PROVE  Undoable' = Undoable /\ Written' = Written /\ LastStep' = LastStep
BY DEF hardware, Undoable, Written, LastStep, StepAt, SameBut

\* The step's read, save and write leave the cells undoable, and if the
\* value read back is the one wanted, written.
LEMMA ApplyKeeps ==
  ASSUME Inv, ApplyStep
  PROVE  Undoable' /\ (pc' = "apply" => Written')
<1> DEFINE k == applied + 1
           c == StepAt(k).cell
<1>1. PICK v \in Vals, dead \in BOOLEAN :
        /\ IF ~dead /\ v = StepAt(k).bits
             THEN pc' = "apply" /\ UNCHANGED ret
             ELSE pc' = "rollback" /\ ret' = "EIO"
        /\ saved' = [saved EXCEPT ![k] = regs[c]]
        /\ hist' = [hist EXCEPT ![k] = regs]
        /\ regs' = [regs EXCEPT ![c] = v]
        /\ applied' = k
  BY DEF ApplyStep
<1>2. mode' = mode /\ orig' = orig /\ applied < LastStep /\ pc = "apply"
  BY DEF ApplyStep
<1>3. LastStep' = LastStep /\ \A j : StepAt(j)' = StepAt(j)
  BY <1>2 DEF LastStep, StepAt
<1>4. TypeOK /\ restored /\ Undoable /\ Written
  BY <1>2 DEF Inv, PhyInv
<1>5. /\ LastStep \in Nat /\ applied \in Nat /\ Len(Steps) \in Nat
      /\ k \in 1 .. LastStep /\ k \in Indices /\ 1 .. k \subseteq Indices
      /\ c \in Cells
  BY <1>2, <1>4, StepTypes, StepsAssumption DEF TypeOK, Indices
<1>6. regs \in [Cells -> Vals] /\ saved \in [Indices -> Vals]
      /\ hist \in [Indices -> [Cells -> Vals]]
  BY <1>4 DEF TypeOK
<1> HIDE DEF k, c
<1>7. hist'[k] = regs /\ saved'[k] = regs[c] /\ regs'[c] = v
  BY <1>1, <1>5, <1>6
<1>8. \A j \in 1 .. applied : hist'[j] = hist[j] /\ saved'[j] = saved[j]
  BY <1>1, <1>5, <1>6 DEF k
<1>9. \A d \in Cells : d # c => regs'[d] = regs[d]
  BY <1>1, <1>6
<1>10. Undoable'
  <2>1. applied' <= LastStep' /\ applied' = k /\ applied' > 0
    BY <1>1, <1>3, <1>5
  <2>2. hist'[1] = orig'
    <3>1. CASE applied = 0
      BY <3>1, <1>2, <1>4, <1>7 DEF Undoable, k
    <3>2. CASE applied > 0
      BY <3>2, <1>2, <1>4, <1>5, <1>8 DEF Undoable
    <3> QED
      BY <3>1, <3>2, <1>5
  <2>3. SameBut(regs', hist'[k], c)
    BY <1>7, <1>9 DEF SameBut
  <2>4. \A j \in 1 .. k : saved'[j] = hist'[j][StepAt(j).cell]
    <3>1. \A j \in 1 .. applied : saved'[j] = hist'[j][StepAt(j).cell]
      BY <1>4, <1>8 DEF Undoable
    <3> QED
      BY <3>1, <1>5, <1>7 DEF k, c
  <2>5. \A j \in 1 .. k - 1 : SameBut(hist'[j + 1], hist'[j], StepAt(j).cell)
    <3>1. \A j \in 1 .. applied - 1 :
            SameBut(hist'[j + 1], hist'[j], StepAt(j).cell)
      BY <1>4, <1>5, <1>8 DEF Undoable
    <3>2. applied > 0 => SameBut(hist'[k], hist'[applied], StepAt(applied).cell)
      BY <1>4, <1>5, <1>7, <1>8 DEF Undoable
    <3> QED
      BY <3>1, <3>2, <1>5 DEF k
  <2> QED
    BY <2>1, <2>2, <2>3, <2>4, <2>5, <1>3, <1>5 DEF Undoable, SameBut, c
<1>11. ASSUME pc' = "apply" PROVE Written'
  <2>1. v = StepAt(k).bits
    BY <1>1, <1>11
  <2>2. SUFFICES ASSUME NEW j \in 1 .. k,
                        \A m \in j + 1 .. k : StepAt(m).cell # StepAt(j).cell
                 PROVE  regs'[StepAt(j).cell] = StepAt(j).bits
    BY <1>1, <1>3 DEF Written
  <2>3. CASE j = k
    BY <2>1, <2>3, <1>7 DEF c
  <2>4. CASE j # k
    <3>1. j \in 1 .. applied /\ k \in j + 1 .. k
      BY <2>4, <1>5 DEF k
    <3>2. StepAt(j).cell # c
      BY <2>2, <3>1 DEF c
    <3>3. regs[StepAt(j).cell] = StepAt(j).bits
      BY <2>2, <3>1, <1>4, <1>5 DEF Written, k
    <3>4. StepAt(j).cell \in Cells
      BY <3>1, <1>4, <1>5, StepTypes DEF k
    <3> QED
      BY <3>2, <3>3, <3>4, <1>9
  <2> QED
    BY <2>3, <2>4
<1> QED
  BY <1>10, <1>11

\* Undoing the last step leaves one step less to undo.
LEMMA RollbackKeeps ==
  ASSUME Inv, RollbackStep, restored'
  PROVE  Undoable' /\ pc' = "rollback"
<1> DEFINE c == StepAt(applied).cell
<1>1. /\ applied > 0 /\ applied' = applied - 1 /\ pc = "rollback"
      /\ UNCHANGED <<mode, owned, saved, changed, orig, hist>>
  BY DEF RollbackStep
<1>2. /\ regs' = [regs EXCEPT ![c] = saved[applied]]
      /\ pc' = "rollback" /\ restored' = restored
  BY DEF RollbackStep
<1>3. LastStep' = LastStep /\ \A j : StepAt(j)' = StepAt(j)
  BY <1>1 DEF LastStep, StepAt
<1>4. TypeOK /\ Undoable
  BY <1>2 DEF Inv, PhyInv
<1>5. LastStep \in Nat /\ applied \in 1 .. LastStep /\ c \in Cells
      /\ 1 .. applied \subseteq Indices
  BY <1>1, <1>4, StepTypes, StepsAssumption DEF TypeOK, Undoable, Indices
<1>6. regs \in [Cells -> Vals] /\ hist \in [Indices -> [Cells -> Vals]]
  BY <1>4 DEF TypeOK
<1>7. saved[applied] = hist[applied][c]
  BY <1>4, <1>5 DEF Undoable
<1>8. \A d \in Cells : d # c => regs[d] = hist[applied][d]
  BY <1>1, <1>4 DEF Undoable, SameBut
<1>9. \A d \in Cells : regs'[d] = hist[applied][d]
  BY <1>2, <1>5, <1>6, <1>7, <1>8
<1>10. regs' = hist[applied]
  <2>1. hist[applied] \in [Cells -> Vals] /\ regs' \in [Cells -> Vals]
    BY <1>2, <1>5, <1>6, <1>7
  <2> QED
    BY <1>9, <2>1
<1> HIDE DEF c
<1>11. CASE applied = 1
  <2>1. regs' = orig' /\ applied' = 0
    BY <1>1, <1>4, <1>10, <1>11 DEF Undoable
  <2> QED
    BY <2>1, <1>2, <1>3, <1>5 DEF Undoable
<1>12. CASE applied > 1
  <2>1. SameBut(hist[applied], hist[applied - 1], StepAt(applied - 1).cell)
    <3>1. applied - 1 \in 1 .. applied - 1 /\ (applied - 1) + 1 = applied
      BY <1>5, <1>12
    <3> QED
      BY <3>1, <1>4 DEF Undoable
  <2>2. /\ applied' > 0 /\ applied' <= LastStep /\ hist[1] = orig
        /\ 1 .. applied' \subseteq 1 .. applied
        /\ 1 .. applied' - 1 \subseteq 1 .. applied - 1
    BY <1>1, <1>4, <1>5, <1>12 DEF Undoable
  <2>3. /\ \A k \in 1 .. applied : saved[k] = hist[k][StepAt(k).cell]
        /\ \A k \in 1 .. applied - 1 :
             SameBut(hist[k + 1], hist[k], StepAt(k).cell)
    BY <1>4 DEF Undoable
  <2>4. SameBut(regs', hist'[applied'], StepAt(applied - 1).cell)
    BY <2>1, <1>1, <1>10
  <2>5. \A k \in 1 .. applied' : saved'[k] = hist'[k][StepAt(k).cell]
    BY <2>2, <2>3, <1>1
  <2>6. \A k \in 1 .. applied' - 1 :
          SameBut(hist'[k + 1], hist'[k], StepAt(k).cell)
    BY <2>2, <2>3, <1>1
  <2>7. StepAt(applied)' = StepAt(applied - 1)
    BY <1>1 DEF StepAt
  <2>8. applied' # 0
    BY <1>1, <1>5, <1>12
  <2> QED
    BY <2>2, <2>4, <2>5, <2>6, <2>7, <2>8, <1>1, <1>2, <1>3
       DEF Undoable, SameBut
<1> QED
  BY <1>2, <1>5, <1>11, <1>12

LEMMA InvStep ==
  ASSUME Inv, [Next]_vars
  PROVE  Inv'
<1> SUFFICES PhyInv'
  BY TypeStep DEF Inv
<1>0. TypeOK /\ PhyInv
  BY DEF Inv
<1>1. CASE Start
  BY <1>0, <1>1, SameHardware DEF Start, Go, hardware, PhyInv
<1>2. CASE RequestCore
  BY <1>0, <1>2, SameHardware
     DEF RequestCore, RequestRegion, Fail, Go, hardware, PhyInv
<1>3. CASE RequestPort
  BY <1>0, <1>3, SameHardware
     DEF RequestPort, RequestRegion, Fail, Go, hardware, PhyInv
<1>4. CASE Ioremap
  <2>1. applied = 0 /\ UNCHANGED <<mode, hardware>> /\ restored
    BY <1>0, <1>4 DEF Ioremap, Fail, Go, PhyInv
  <2> QED
    BY <1>0, <1>4, <2>1, SameHardware DEF Ioremap, Fail, Go, hardware, PhyInv
<1>5. CASE RadioIsOff
  <2>1. applied = 0 /\ UNCHANGED <<mode, hardware>> /\ restored
    BY <1>0, <1>5 DEF RadioIsOff, Fail, Go, PhyInv
  <2>2. Written
    BY <2>1 DEF Written
  <2> QED
    BY <1>0, <1>5, <2>1, <2>2, SameHardware
       DEF RadioIsOff, Fail, Go, hardware, PhyInv
<1>6. CASE ApplyStep
  <2>1. Undoable' /\ (pc' = "apply" => Written') /\ pc' \in {"apply", "rollback"}
    BY <1>6, ApplyKeeps DEF ApplyStep
  <2>2. pc = "apply" /\ mode' = mode /\ restored' = restored
    BY <1>6 DEF ApplyStep
  <2> QED
    BY <1>0, <2>1, <2>2 DEF PhyInv
<1>7. CASE ApplyDead
  BY <1>0, <1>7, SameHardware DEF ApplyDead, Fail, Go, hardware, PhyInv
<1>8. CASE ApplyEnd
  BY <1>0, <1>8, SameHardware DEF ApplyEnd, Go, hardware, PhyInv
<1>9. CASE Inspect
  BY <1>0, <1>9, SameHardware DEF Inspect, Fail, Go, hardware, PhyInv
<1>10. CASE Operate
  BY <1>0, <1>10, SameHardware DEF Operate, Go, hardware, PhyInv
<1>11. CASE RollbackStep
  <2>1. pc' \in {"rollback", "unmap"} /\ mode' = mode /\ restored' \in BOOLEAN
    BY <1>11, TypeStep DEF RollbackStep, Next, TypeOK, Inv
  <2>2. restored' => Undoable' /\ pc' = "rollback"
    BY <1>11, RollbackKeeps
  <2>3. ~restored' => ret' = "EIO"
    BY <1>0, <1>11 DEF RollbackStep, PhyInv, TypeOK
  <2> QED
    BY <2>1, <2>2, <2>3 DEF PhyInv
<1>12. CASE RollbackEnd
  BY <1>0, <1>12, SameHardware DEF RollbackEnd, Go, hardware, PhyInv
<1>13. CASE Unmap
  BY <1>0, <1>13, SameHardware DEF Unmap, Go, hardware, PhyInv
<1>14. CASE UNCHANGED vars
  <2>1. UNCHANGED <<mode, hardware>> /\ UNCHANGED <<pc, ret, owned>>
    BY <1>14 DEF vars, hardware
  <2> QED
    BY <1>0, <2>1, SameHardware DEF hardware, PhyInv
<1> QED
  BY <1>1, <1>2, <1>3, <1>4, <1>5, <1>6, <1>7, <1>8, <1>9, <1>10, <1>11,
     <1>12, <1>13, <1>14 DEF Next

\* The rollback stack always suffices to put the PHY back.
THEOREM PhyUndoable == Spec => []PhyInv
<1>1. Init => Inv
  BY InvInit
<1>2. Inv /\ [Next]_vars => Inv'
  BY InvStep
<1>3. Inv => PhyInv
  BY DEF Inv
<1> QED
  BY <1>1, <1>2, <1>3, PTL DEF Spec

\* The callback runs with the PHY in its final configuration only.
THEOREM PhyReadyInOperate == Spec => []PhyReady
<1>1. PhyInv => PhyReady
  BY DEF PhyInv, PhyReady
<1> QED
  BY <1>1, PhyUndoable, PTL

\* a1625_with_pcie_phy restores every masked bit or returns -EIO.
THEOREM PhyRestoredOrReported == Spec => []RestoredOrReported
<1>1. PhyInv /\ TypeOK => RestoredOrReported
  BY DEF PhyInv, TypeOK, RestoredOrReported, Undoable
<1> QED
  BY <1>1, PhyUndoable, PhyTypeCorrect, PTL
=============================================================================
