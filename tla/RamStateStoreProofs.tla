-------------------------- MODULE RamStateStoreProofs --------------------------
(***************************************************************************)
(* The store with any number of saves, restorations and inputs.  What a    *)
(* save has written is known from its program counter; what other saves    *)
(* may have done to the pointer files is known while none overlapped.      *)
(***************************************************************************)
EXTENDS RamStateStore, TLAPS

Fixed == {"current", "previous"}

Active == SaverPcs \ {"idle", "saved", "failed"}

\* Before InstallCipher a save has no file under its final name, after it
\* the whole file; what is there has reached the disk.
CipherInv ==
  \A s \in Savers :
    /\ cipher[s] \in {Missing, s}
    /\ cipher[s] = s => <<"cipher", s>> \notin unflushed
    /\ spc[s] \in {"idle", "gencreate", "genwrite", "genflush", "geninstall"}
         => cipher[s] = Missing
    /\ spc[s] \in {"genflush", "geninstall"} => cipherNext[s] = s
    /\ spc[s] = "geninstall" => <<"cipher", s>> \notin unflushed
    /\ spc[s] \in {"ptrcreate", "ptrwrite", "ptrflush", "ptrtest", "move",
                   "replace", "replace2", "saved"} => cipher[s] = s

\* A pointer file that is whole names a generation in the store, and the
\* renames never leave both files missing.
NamedInv ==
  /\ \A f \in PointerFiles : pointer[f] \in Savers => cipher[pointer[f]] = pointer[f]
  /\ last # Missing => \E f \in Fixed : pointer[f] # Missing

\* What a restoration has verified stays true: a generation that was
\* selected has been sealed, and keeps its fingerprint.
ReaderInv ==
  \A r \in Restorers :
    /\ rpc[r] \in {"selected", "read", "matched", "uploaded"} =>
         selected[r] \in Savers /\ spc[selected[r]] # "idle"
    /\ rpc[r] \in {"read", "matched", "uploaded"} => held[r] = selected[r]
    /\ rpc[r] \in {"matched", "uploaded"} => print[held[r]] = inputs[r]

\* While no two saves overlapped: one of them is at work, current.next is
\* its own from CreatePointer on, and what the other two files name was
\* flushed by a save that has been reported.
AloneInv ==
  ~overlapped =>
    /\ \A s, t \in Savers : spc[s] \in Active /\ spc[t] \in Active => s = t
    /\ \A s \in Savers :
         /\ spc[s] \in {"ptrflush", "ptrtest", "move", "replace", "replace2"}
              => pointer["next"] = s
         /\ spc[s] \in {"ptrtest", "move", "replace", "replace2"}
              => <<"pointer", s>> \notin unflushed
    /\ \A f \in Fixed : pointer[f] # Missing =>
         /\ pointer[f] \in Savers /\ spc[pointer[f]] = "saved"
         /\ <<"pointer", pointer[f]>> \notin unflushed
    /\ LastSaveRecoverable

StoreInv == CipherInv /\ NamedInv /\ ReaderInv /\ AloneInv

-----------------------------------------------------------------------------
LEMMA TypeStep ==
  ASSUME TypeOK, StoreInv, [Next]_vars
  PROVE  TypeOK'
<1> USE StoreAssumption DEF TypeOK, PointerFiles
<1>1. ASSUME NEW s \in Savers, Save(s) PROVE TypeOK'
  <2> USE DEF Advance, SaverPcs, readers
  <2>1. CASE Snapshot(s)
    BY <2>1 DEF Snapshot
  <2>2. CASE CreateCipher(s)
    BY <2>2 DEF CreateCipher
  <2>3. CASE WriteCipher(s)
    BY <2>3 DEF WriteCipher
  <2>4. CASE FlushCipher(s)
    BY <2>4 DEF FlushCipher
  <2>5. CASE InstallCipher(s)
    BY <2>5 DEF InstallCipher
  <2>6. CASE CreatePointer(s)
    BY <2>6 DEF CreatePointer
  <2>7. CASE WritePointer(s)
    BY <2>7 DEF WritePointer
  <2>8. CASE FlushPointer(s)
    BY <2>8 DEF FlushPointer
  <2>9. CASE TestPointer(s)
    BY <2>9 DEF TestPointer
  <2>10. CASE MovePointer(s)
    BY <2>10 DEF MovePointer
  <2>11. CASE ReplaceBackup(s)
    BY <2>11 DEF ReplaceBackup
  <2>12. CASE ReplaceCurrent(s)
    BY <2>12 DEF ReplaceCurrent
  <2> QED
    BY <1>1, <2>1, <2>2, <2>3, <2>4, <2>5, <2>6, <2>7, <2>8, <2>9, <2>10, <2>11, <2>12 DEF Save
<1>2. ASSUME NEW s \in Savers, SaveFails(s) \/ Rot(s) PROVE TypeOK'
  BY <1>2 DEF SaveFails, Rot, SaverPcs, readers, store
<1>3. ASSUME NEW r \in Restorers,
             Select(r) \/ ReadCipher(r) \/ OpenEnvelope(r) \/ Upload(r)
      PROVE  TypeOK'
  <2>1. CASE Select(r)
    BY <2>1 DEF Select, RestoreStep, store
  <2>2. CASE ReadCipher(r)
    <3>1. Bytes(selected[r]) \in Savers \cup {Missing, Torn}
      BY <2>2 DEF ReadCipher, RestoreStep, Bytes, StoreInv, ReaderInv
    <3> QED
      BY <2>2, <3>1 DEF ReadCipher, RestoreStep, store
  <2>3. CASE OpenEnvelope(r) \/ Upload(r)
    BY <2>3 DEF OpenEnvelope, Upload, RestoreStep, store
  <2> QED
    BY <1>3, <2>1, <2>2, <2>3
<1>4. CASE PowerLoss
  BY <1>4 DEF PowerLoss, SaverPcs
<1>5. CASE ChangeBase \/ UNCHANGED vars
  BY <1>5 DEF ChangeBase, vars, store, readers
<1> QED
  BY <1>1, <1>2, <1>3, <1>4, <1>5 DEF Next

LEMMA CipherStep ==
  ASSUME TypeOK, StoreInv, [Next]_vars
  PROVE  CipherInv'
<1> USE StoreAssumption DEF TypeOK, StoreInv, CipherInv, PointerFiles
<1>1. ASSUME NEW s \in Savers, Save(s) PROVE CipherInv'
  <2> USE DEF Advance, SaverPcs, readers, Saving
  <2>1. CASE Snapshot(s)
    BY <2>1 DEF Snapshot
  <2>2. CASE CreateCipher(s)
    BY <2>2 DEF CreateCipher
  <2>3. CASE WriteCipher(s)
    BY <2>3 DEF WriteCipher
  <2>4. CASE FlushCipher(s)
    BY <2>4 DEF FlushCipher
  <2>5. CASE InstallCipher(s)
    BY <2>5 DEF InstallCipher
  <2>6. CASE CreatePointer(s)
    BY <2>6 DEF CreatePointer
  <2>7. CASE WritePointer(s)
    BY <2>7 DEF WritePointer
  <2>8. CASE FlushPointer(s)
    BY <2>8 DEF FlushPointer
  <2>9. CASE TestPointer(s)
    BY <2>9 DEF TestPointer
  <2>10. CASE MovePointer(s)
    BY <2>10 DEF MovePointer
  <2>11. CASE ReplaceBackup(s)
    BY <2>11 DEF ReplaceBackup
  <2>12. CASE ReplaceCurrent(s)
    BY <2>12 DEF ReplaceCurrent
  <2> QED
    BY <1>1, <2>1, <2>2, <2>3, <2>4, <2>5, <2>6, <2>7, <2>8, <2>9, <2>10, <2>11, <2>12 DEF Save
<1>2. ASSUME NEW s \in Savers, SaveFails(s) \/ Rot(s) PROVE CipherInv'
  <2>1. CASE SaveFails(s)
    BY <2>1 DEF SaveFails
  <2>2. CASE Rot(s)
    BY <2>2 DEF Rot, store
  <2> QED
    BY <1>2, <2>1, <2>2
<1>3. ASSUME NEW r \in Restorers,
             Select(r) \/ ReadCipher(r) \/ OpenEnvelope(r) \/ Upload(r)
      PROVE  CipherInv'
  BY <1>3 DEF Select, ReadCipher, OpenEnvelope, Upload, RestoreStep, Bytes,
     DigestMatches, FingerprintMatches, store
<1>4. CASE PowerLoss
  BY <1>4 DEF PowerLoss, SaverPcs
<1>5. CASE ChangeBase \/ UNCHANGED vars
  BY <1>5 DEF ChangeBase, vars, store, readers
<1> QED
  BY <1>1, <1>2, <1>3, <1>4, <1>5 DEF Next

LEMMA NamedStep ==
  ASSUME TypeOK, StoreInv, [Next]_vars
  PROVE  NamedInv'
<1> USE StoreAssumption DEF TypeOK, StoreInv, NamedInv, CipherInv, PointerFiles
<1>1. ASSUME NEW s \in Savers, Save(s) PROVE NamedInv'
  <2> USE DEF Advance, SaverPcs, readers, Saving
  <2>1. CASE Snapshot(s)
    BY <2>1 DEF Snapshot
  <2>2. CASE CreateCipher(s)
    BY <2>2 DEF CreateCipher
  <2>3. CASE WriteCipher(s)
    BY <2>3 DEF WriteCipher
  <2>4. CASE FlushCipher(s)
    BY <2>4 DEF FlushCipher
  <2>5. CASE InstallCipher(s)
    BY <2>5 DEF InstallCipher
  <2>6. CASE CreatePointer(s)
    BY <2>6 DEF CreatePointer
  <2>7. CASE WritePointer(s)
    <3>1. cipher[s] = s /\ cipher' = cipher /\ last' = last
      BY <2>7 DEF WritePointer
    <3>2. \A f \in PointerFiles : pointer'[f] = IF f = "next" THEN s ELSE pointer[f]
      BY <2>7 DEF WritePointer
    <3> QED
      BY <3>1, <3>2 DEF Fixed
  <2>8. CASE FlushPointer(s)
    BY <2>8 DEF FlushPointer
  <2>9. CASE TestPointer(s)
    BY <2>9 DEF TestPointer
  <2>10. CASE MovePointer(s)
    <3>1. cipher' = cipher /\ pointer["next"] # Missing
      BY <2>10 DEF MovePointer
    <3>2. /\ pointer'["current"] = pointer["next"] /\ pointer'["next"] = Missing
          /\ pointer'["previous"] = pointer["previous"]
      BY <2>10 DEF MovePointer
    <3> QED
      BY <3>1, <3>2 DEF Fixed
  <2>11. CASE ReplaceBackup(s)
    <3>1. cipher' = cipher /\ pointer["current"] # Missing /\ last' = last
      BY <2>11 DEF ReplaceBackup
    <3>2. /\ pointer'["previous"] = pointer["current"]
          /\ pointer'["current"] = Missing /\ pointer'["next"] = pointer["next"]
      BY <2>11 DEF ReplaceBackup
    <3> QED
      BY <3>1, <3>2 DEF Fixed
  <2>12. CASE ReplaceCurrent(s)
    <3>1. cipher' = cipher /\ pointer["next"] # Missing
      BY <2>12 DEF ReplaceCurrent
    <3>2. /\ pointer'["current"] = pointer["next"] /\ pointer'["next"] = Missing
          /\ pointer'["previous"] = pointer["previous"]
      BY <2>12 DEF ReplaceCurrent
    <3> QED
      BY <3>1, <3>2 DEF Fixed
  <2> QED
    BY <1>1, <2>1, <2>2, <2>3, <2>4, <2>5, <2>6, <2>7, <2>8, <2>9, <2>10, <2>11, <2>12 DEF Save
<1>2. ASSUME NEW s \in Savers, SaveFails(s) \/ Rot(s) PROVE NamedInv'
  BY <1>2 DEF SaveFails, Rot, SaverPcs, readers, store
<1>3. ASSUME NEW r \in Restorers,
             Select(r) \/ ReadCipher(r) \/ OpenEnvelope(r) \/ Upload(r)
      PROVE  NamedInv'
  BY <1>3 DEF Select, ReadCipher, OpenEnvelope, Upload, RestoreStep, Bytes,
     DigestMatches, FingerprintMatches, store
<1>4. CASE PowerLoss
  <2>1. \A s \in Savers : cipher'[s] = cipher[s]
    BY <1>4 DEF PowerLoss
  <2>2. \A f \in PointerFiles :
          pointer'[f] = pointer[f] \/ (pointer[f] \in Savers /\ pointer'[f] = Torn)
    <3>1. \A x : <<"pointer", x>> \in unflushed => x \in Savers
      OBVIOUS
    <3>2. \A f \in PointerFiles :
            pointer'[f] = IF <<"pointer", pointer[f]>> \in unflushed
                            THEN Torn ELSE pointer[f]
      BY <1>4 DEF PowerLoss
    <3> QED
      BY <3>1, <3>2
  <2>3. last' = last
    BY <1>4 DEF PowerLoss
  <2> QED
    BY <2>1, <2>2, <2>3 DEF Fixed
<1>5. CASE ChangeBase \/ UNCHANGED vars
  BY <1>5 DEF ChangeBase, vars, store, readers
<1> QED
  BY <1>1, <1>2, <1>3, <1>4, <1>5 DEF Next

LEMMA ReaderStep ==
  ASSUME TypeOK, StoreInv, [Next]_vars
  PROVE  ReaderInv'
<1> USE StoreAssumption DEF TypeOK, StoreInv, ReaderInv, CipherInv, NamedInv, PointerFiles
<1>1. ASSUME NEW s \in Savers, Save(s) PROVE ReaderInv'
  <2> USE DEF Advance, SaverPcs, readers, Saving
  <2>1. CASE Snapshot(s)
    BY <2>1 DEF Snapshot
  <2>2. CASE CreateCipher(s)
    BY <2>2 DEF CreateCipher
  <2>3. CASE WriteCipher(s)
    BY <2>3 DEF WriteCipher
  <2>4. CASE FlushCipher(s)
    BY <2>4 DEF FlushCipher
  <2>5. CASE InstallCipher(s)
    BY <2>5 DEF InstallCipher
  <2>6. CASE CreatePointer(s)
    BY <2>6 DEF CreatePointer
  <2>7. CASE WritePointer(s)
    BY <2>7 DEF WritePointer
  <2>8. CASE FlushPointer(s)
    BY <2>8 DEF FlushPointer
  <2>9. CASE TestPointer(s)
    BY <2>9 DEF TestPointer
  <2>10. CASE MovePointer(s)
    BY <2>10 DEF MovePointer
  <2>11. CASE ReplaceBackup(s)
    BY <2>11 DEF ReplaceBackup
  <2>12. CASE ReplaceCurrent(s)
    BY <2>12 DEF ReplaceCurrent
  <2> QED
    BY <1>1, <2>1, <2>2, <2>3, <2>4, <2>5, <2>6, <2>7, <2>8, <2>9, <2>10, <2>11, <2>12 DEF Save
<1>2. ASSUME NEW s \in Savers, SaveFails(s) \/ Rot(s) PROVE ReaderInv'
  BY <1>2 DEF SaveFails, Rot, SaverPcs, readers, store
<1>3. ASSUME NEW r \in Restorers,
             Select(r) \/ ReadCipher(r) \/ OpenEnvelope(r) \/ Upload(r)
      PROVE  ReaderInv'
  <2> USE DEF RestoreStep, store
  <2>1. CASE Select(r)
    <3>1. pointer["current"] \in Savers => spc[pointer["current"]] # "idle"
      OBVIOUS
    <3>2. /\ spc' = spc /\ held' = held /\ inputs' = inputs /\ print' = print
          /\ \A q \in Restorers : q # r =>
               rpc'[q] = rpc[q] /\ selected'[q] = selected[q]
          /\ rpc'[r] \in {"selected", "failed"}
          /\ rpc'[r] = "selected" =>
               selected'[r] = pointer["current"] /\ pointer["current"] \in Savers
      BY <2>1 DEF Select
    <3> QED
      BY <3>1, <3>2
  <2>2. CASE ReadCipher(r)
    BY <2>2 DEF ReadCipher, DigestMatches
  <2>3. CASE OpenEnvelope(r)
    BY <2>3 DEF OpenEnvelope, FingerprintMatches
  <2>4. CASE Upload(r)
    BY <2>4 DEF Upload
  <2> QED
    BY <1>3, <2>1, <2>2, <2>3, <2>4
<1>4. CASE PowerLoss
  BY <1>4 DEF PowerLoss, SaverPcs
<1>5. CASE ChangeBase \/ UNCHANGED vars
  BY <1>5 DEF ChangeBase, vars, store, readers
<1> QED
  BY <1>1, <1>2, <1>3, <1>4, <1>5 DEF Next

LEMMA AloneStep ==
  ASSUME TypeOK, StoreInv, [Next]_vars
  PROVE  AloneInv'
<1> USE StoreAssumption DEF TypeOK, StoreInv, AloneInv, CipherInv, LastSaveRecoverable, Fixed, Active, PointerFiles
<1>1. ASSUME NEW s \in Savers, Save(s) PROVE AloneInv'
  <2> USE DEF Advance, SaverPcs, readers, Saving
  <2>1. CASE Snapshot(s)
    <3> SUFFICES ASSUME ~overlapped' PROVE AloneInv'
      OBVIOUS
    <3>1. ~overlapped /\ \A t \in Savers : spc[t] \notin Active
      BY <2>1 DEF Snapshot
    <3>2. \A t \in Savers : spc'[t] = IF t = s THEN "gencreate" ELSE spc[t]
      BY <2>1 DEF Snapshot
    <3>3. spc[s] = "idle" /\ pointer' = pointer /\ unflushed' = unflushed /\ last' = last
      BY <2>1 DEF Snapshot
    <3>4. \A f \in Fixed : pointer[f] # Missing => pointer[f] # s
      BY <3>1, <3>3
    <3> QED
      BY <3>1, <3>2, <3>3, <3>4
  <2>2. CASE CreateCipher(s)
    BY <2>2 DEF CreateCipher
  <2>3. CASE WriteCipher(s)
    BY <2>3 DEF WriteCipher
  <2>4. CASE FlushCipher(s)
    BY <2>4 DEF FlushCipher
  <2>5. CASE InstallCipher(s)
    BY <2>5 DEF InstallCipher
  <2>6. CASE CreatePointer(s)
    BY <2>6 DEF CreatePointer
  <2>7. CASE WritePointer(s)
    BY <2>7 DEF WritePointer
  <2>8. CASE FlushPointer(s)
    BY <2>8 DEF FlushPointer
  <2>9. CASE TestPointer(s)
    BY <2>9 DEF TestPointer
  <2>10. CASE MovePointer(s)
    <3> SUFFICES ASSUME ~overlapped' PROVE AloneInv'
      OBVIOUS
    <3>1. /\ spc[s] = "move" /\ ~overlapped /\ last' = s
          /\ unflushed' = unflushed
      BY <2>10 DEF MovePointer
    <3>2. /\ pointer'["current"] = pointer["next"] /\ pointer'["next"] = Missing
          /\ pointer'["previous"] = pointer["previous"]
      BY <2>10 DEF MovePointer
    <3>3. \A t \in Savers : spc'[t] = IF t = s THEN "saved" ELSE spc[t]
      BY <2>10 DEF MovePointer
    <3>4. pointer["next"] = s /\ <<"pointer", s>> \notin unflushed
      BY <3>1
    <3>5. \A t \in Savers : t # s => spc[t] \notin Active
      BY <3>1
    <3> QED
      BY <3>1, <3>2, <3>3, <3>4, <3>5
  <2>11. CASE ReplaceBackup(s)
    BY <2>11 DEF ReplaceBackup
  <2>12. CASE ReplaceCurrent(s)
    <3> SUFFICES ASSUME ~overlapped' PROVE AloneInv'
      OBVIOUS
    <3>1. /\ spc[s] = "replace2" /\ ~overlapped /\ last' = s
          /\ unflushed' = unflushed
      BY <2>12 DEF ReplaceCurrent
    <3>2. /\ pointer'["current"] = pointer["next"] /\ pointer'["next"] = Missing
          /\ pointer'["previous"] = pointer["previous"]
      BY <2>12 DEF ReplaceCurrent
    <3>3. \A t \in Savers : spc'[t] = IF t = s THEN "saved" ELSE spc[t]
      BY <2>12 DEF ReplaceCurrent
    <3>4. pointer["next"] = s /\ <<"pointer", s>> \notin unflushed
      BY <3>1
    <3>5. \A t \in Savers : t # s => spc[t] \notin Active
      BY <3>1
    <3> QED
      BY <3>1, <3>2, <3>3, <3>4, <3>5
  <2> QED
    BY <1>1, <2>1, <2>2, <2>3, <2>4, <2>5, <2>6, <2>7, <2>8, <2>9, <2>10, <2>11, <2>12 DEF Save
<1>2. ASSUME NEW s \in Savers, SaveFails(s) \/ Rot(s) PROVE AloneInv'
  BY <1>2 DEF SaveFails, Rot, SaverPcs, readers, store
<1>3. ASSUME NEW r \in Restorers,
             Select(r) \/ ReadCipher(r) \/ OpenEnvelope(r) \/ Upload(r)
      PROVE  AloneInv'
  BY <1>3 DEF Select, ReadCipher, OpenEnvelope, Upload, RestoreStep, Bytes,
     DigestMatches, FingerprintMatches, store
<1>4. CASE PowerLoss
  BY <1>4 DEF PowerLoss, SaverPcs
<1>5. CASE ChangeBase \/ UNCHANGED vars
  BY <1>5 DEF ChangeBase, vars, store, readers
<1> QED
  BY <1>1, <1>2, <1>3, <1>4, <1>5 DEF Next

LEMMA StoreStarts == Init => TypeOK /\ StoreInv
<1> USE StoreAssumption DEF Init, PointerFiles, SaverPcs
<1>1. Init => TypeOK
  BY DEF TypeOK
<1>2. Init => CipherInv /\ NamedInv /\ ReaderInv
  BY DEF CipherInv, NamedInv, ReaderInv
<1>3. Init => AloneInv
  BY DEF AloneInv, LastSaveRecoverable, Fixed, Active
<1> QED
  BY <1>1, <1>2, <1>3 DEF StoreInv

-----------------------------------------------------------------------------
\* The inductive invariant of the store and its types, for any number of
\* saves that are killed, cut by a power loss or overlapping.
THEOREM StoreCorrect == Spec => [](TypeOK /\ StoreInv)
<1>1. (TypeOK /\ StoreInv) /\ [Next]_vars => (TypeOK /\ StoreInv)'
  BY TypeStep, CipherStep, NamedStep, ReaderStep, AloneStep DEF StoreInv
<1> QED
  BY <1>1, StoreStarts, PTL DEF Spec

\* While saves do not overlap, current and current.previous are never torn
\* and name generations whose ciphertext is whole and on the disk.
THEOREM StoreNamesWhole == Spec => []PointerNamesWhole
<1>1. TypeOK /\ StoreInv => PointerNamesWhole
  BY StoreAssumption DEF TypeOK, StoreInv, CipherInv, NamedInv, AloneInv,
     PointerNamesWhole, Fixed, PointerFiles
<1> QED
  BY <1>1, StoreCorrect, PTL

\* While saves do not overlap, and whatever cuts them short, "current" names
\* the generation that was reported last, or nothing while "current.previous"
\* still names it: a restoration never gets an older generation, and one that
\* finds no "current" can be recovered by hand.
THEOREM StoreKeepsLast == Spec => []LastSaveRecoverable
<1>1. StoreInv => LastSaveRecoverable
  BY DEF StoreInv, AloneInv, LastSaveRecoverable
<1> QED
  BY <1>1, StoreCorrect, PTL

\* Even with overlapping saves a pointer file stays once a save was reported,
\* and one that is whole names a generation in the store.
THEOREM StoreKeepsPointer == Spec => []GenerationReachable
<1>1. StoreInv => GenerationReachable
  BY DEF StoreInv, NamedInv, GenerationReachable, Fixed, PointerFiles
<1> QED
  BY <1>1, StoreCorrect, PTL

\* A restoration sends only a whole generation, with the digest of its name
\* and the fingerprint of the inputs it found, whatever changes meanwhile.
THEOREM StoreUploadsVerified == Spec => []OnlyVerifiedUploaded
<1>1. StoreInv => OnlyVerifiedUploaded
  BY DEF StoreInv, ReaderInv, OnlyVerifiedUploaded
<1> QED
  BY <1>1, StoreCorrect, PTL
=============================================================================
