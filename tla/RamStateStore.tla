---------------------------- MODULE RamStateStore ----------------------------
(***************************************************************************)
(* The host's store of encrypted RAM-state generations                     *)
(* (ram-state/Save-A1625RamState.ps1, Restore-A1625RamState.ps1 and        *)
(* Write-A1625AtomicBytes of codex-state).                                 *)
(*                                                                         *)
(* A save writes its ciphertext to a file named by the ciphertext's own    *)
(* digest and then points the file "current" at it; both writes go through *)
(* a ".next" file.  Ciphertexts of two saves are never equal, so a         *)
(* generation is identified with the save that made it.  Nothing on the    *)
(* host keeps two saves apart: those in Careful start only while no other  *)
(* one runs, the others at any time, and overlapped remembers whether two  *)
(* ever ran together.  A process may be killed and the machine lose power  *)
(* at any step, and restorations run at any time.                          *)
(***************************************************************************)
EXTENDS FiniteSets

CONSTANTS
  Savers, Restorers,   \* processes, each of which runs its script once
  Bases,               \* immutable inputs: payload, tools bundle, installers
  Missing, Torn,       \* no such file; a file without its whole content
  NoOne,
  Careful              \* the savers whose user waits for the others to end

ASSUME StoreAssumption ==
  /\ {Missing, Torn} \cap Savers = {}
  /\ Missing # Torn
  /\ NoOne \notin Savers
  /\ Careful \subseteq Savers

VARIABLES
  base,      \* the immutable inputs on the host now
  print,     \* the fingerprint that generation s was bound to
  cipher,    \* cipher[s]: the file state-<digest of s>.dpapi
  cipherNext,\* cipherNext[s]: its ".next" file
  pointer,   \* the files current, current.next and current.previous
  open,      \* who has current.next open, with no sharing
  unflushed, \* data that a power loss would still take: <<kind, saver>>
  rotten,    \* generations the disk has damaged since they were written
  spc, rpc,  \* program counters of savers and restorers
  selected,  \* the generation a restorer read from the pointer
  held,      \* the ciphertext a restorer read into memory
  inputs,    \* the fingerprint a restorer computed of the inputs
  last,      \* (history) the save reported last
  overlapped \* (history) has a save run while another one did?

vars == <<base, print, cipher, cipherNext, pointer, open, unflushed, rotten,
          spc, rpc, selected, held, inputs, last, overlapped>>

readers == <<rpc, selected, held, inputs>>

store == <<cipher, cipherNext, pointer, open, unflushed>>

SaverPcs == {"idle", "gencreate", "genwrite", "genflush", "geninstall",
             "ptrcreate", "ptrwrite", "ptrflush", "ptrtest", "move", "replace",
             "replace2", "saved", "failed"}

PointerFiles == {"current", "next", "previous"}

TypeOK ==
  /\ base \in Bases
  /\ print \in [Savers -> Bases]
  /\ cipher \in [Savers -> Savers \cup {Missing, Torn}]
  /\ cipherNext \in [Savers -> Savers \cup {Missing, Torn}]
  /\ pointer \in [PointerFiles -> Savers \cup {Missing, Torn}]
  /\ open \in Savers \cup {NoOne}
  /\ unflushed \subseteq {"cipher", "pointer"} \X Savers
  /\ rotten \subseteq Savers
  /\ spc \in [Savers -> SaverPcs]
  /\ rpc \in [Restorers -> {"idle", "selected", "read", "matched", "uploaded",
                           "failed"}]
  /\ selected \in [Restorers -> Savers \cup {Missing}]
  /\ held \in [Restorers -> Savers \cup {Missing, Torn}]
  /\ inputs \in [Restorers -> Bases]
  /\ last \in Savers \cup {Missing}
  /\ overlapped \in BOOLEAN

Init ==
  /\ base \in Bases
  /\ print = [s \in Savers |-> base]
  /\ cipher = [s \in Savers |-> Missing]
  /\ cipherNext = [s \in Savers |-> Missing]
  /\ pointer = [f \in PointerFiles |-> Missing]
  /\ open = NoOne
  /\ unflushed = {}
  /\ rotten = {}
  /\ spc = [s \in Savers |-> "idle"]
  /\ rpc = [r \in Restorers |-> "idle"]
  /\ selected = [r \in Restorers |-> Missing]
  /\ held = [r \in Restorers |-> Missing]
  /\ inputs = [r \in Restorers |-> base]
  /\ last = Missing
  /\ overlapped = FALSE

-----------------------------------------------------------------------------
Saving == \E s \in Savers : spc[s] \notin {"idle", "saved", "failed"}

Advance(s, from, to) ==
  /\ spc[s] = from
  /\ spc' = [spc EXCEPT ![s] = to]
  /\ last' = IF to = "saved" THEN s ELSE last
  /\ overlapped' = (overlapped \/ (from = "idle" /\ Saving))
  /\ UNCHANGED <<base, rotten, readers>>

\* The snapshot is downloaded, its archive checked, and sealed in an
\* envelope with the fingerprint of the inputs the host has now.
Snapshot(s) ==
  /\ s \in Careful => ~Saving
  /\ Advance(s, "idle", "gencreate")
  /\ print' = [print EXCEPT ![s] = base]
  /\ UNCHANGED <<cipher, cipherNext, pointer, open, unflushed>>

-----------------------------------------------------------------------------
(* Write-A1625AtomicBytes, for the generation and then for the pointer.    *)

CreateCipher(s) ==
  /\ Advance(s, "gencreate", "genwrite")
  /\ cipherNext' = [cipherNext EXCEPT ![s] = Torn]
  /\ UNCHANGED <<print, cipher, pointer, open, unflushed>>

WriteCipher(s) ==
  /\ Advance(s, "genwrite", "genflush")
  /\ cipherNext' = [cipherNext EXCEPT ![s] = s]
  /\ unflushed' = unflushed \cup {<<"cipher", s>>}
  /\ UNCHANGED <<print, cipher, pointer, open>>

\* Mutated: the stream is closed without Flush(true).
FlushNothing(s) ==
  /\ Advance(s, "genflush", "geninstall")
  /\ UNCHANGED <<print, cipher, cipherNext, pointer, open, unflushed>>

FlushCipher(s) ==
  /\ Advance(s, "genflush", "geninstall")
  /\ unflushed' = unflushed \ {<<"cipher", s>>}
  /\ UNCHANGED <<print, cipher, cipherNext, pointer, open>>

\* The name is the digest of fresh ciphertext: no file has it yet, and the
\* ".next" file is moved there.
InstallCipher(s) ==
  /\ Advance(s, "geninstall", "ptrcreate")
  /\ cipher' = [cipher EXCEPT ![s] = cipherNext[s]]
  /\ cipherNext' = [cipherNext EXCEPT ![s] = Missing]
  /\ UNCHANGED <<print, pointer, open, unflushed>>

\* FileMode.Create with FileShare.None: truncates what is there, and throws
\* while another process has the file open.
CreatePointer(s) ==
  /\ open = NoOne
  /\ Advance(s, "ptrcreate", "ptrwrite")
  /\ open' = s
  /\ pointer' = [pointer EXCEPT !["next"] = Torn]
  /\ UNCHANGED <<print, cipher, cipherNext, unflushed>>

\* Mutated: the pointer is written with the fingerprint, not the name.
WriteFingerprint(s) ==
  /\ Advance(s, "ptrwrite", "ptrflush")
  /\ pointer' = [pointer EXCEPT !["next"] = print[s]]
  /\ unflushed' = unflushed \cup {<<"pointer", s>>}
  /\ UNCHANGED <<print, cipher, cipherNext, open>>

WritePointer(s) ==
  /\ Advance(s, "ptrwrite", "ptrflush")
  /\ pointer' = [pointer EXCEPT !["next"] = s]
  /\ unflushed' = unflushed \cup {<<"pointer", s>>}
  /\ UNCHANGED <<print, cipher, cipherNext, open>>

\* Flush to the disk, then Dispose closes the file.
FlushPointer(s) ==
  /\ Advance(s, "ptrflush", "ptrtest")
  /\ unflushed' = unflushed \ {<<"pointer", s>>}
  /\ open' = NoOne
  /\ UNCHANGED <<print, cipher, cipherNext, pointer>>

TestPointer(s) ==
  /\ Advance(s, "ptrtest",
             IF pointer["current"] = Missing THEN "move" ELSE "replace")
  /\ UNCHANGED <<print, cipher, cipherNext, pointer, open, unflushed>>

\* File.Move throws when the target exists or the source is gone or open.
MovePointer(s) ==
  /\ pointer["current"] = Missing
  /\ pointer["next"] # Missing
  /\ open = NoOne
  /\ Advance(s, "move", "saved")
  /\ pointer' = [pointer EXCEPT !["current"] = pointer["next"],
                                !["next"] = Missing]
  /\ UNCHANGED <<print, cipher, cipherNext, open, unflushed>>

\* Mutated: the old pointer is deleted, with no backup.
ReplaceDeletes(s) ==
  /\ pointer["current"] # Missing
  /\ pointer["next"] # Missing
  /\ open = NoOne
  /\ Advance(s, "replace", "replace2")
  /\ pointer' = [pointer EXCEPT !["current"] = Missing]
  /\ UNCHANGED <<print, cipher, cipherNext, open, unflushed>>

\* File.Replace (ReplaceFile of Windows): the replaced file becomes the
\* backup, then the replacement takes its name.  When the second rename fails
\* or the process is cut in between, only the backup is left.
ReplaceBackup(s) ==
  /\ pointer["current"] # Missing
  /\ pointer["next"] # Missing
  /\ open = NoOne
  /\ Advance(s, "replace", "replace2")
  /\ pointer' = [pointer EXCEPT !["previous"] = pointer["current"],
                                !["current"] = Missing]
  /\ UNCHANGED <<print, cipher, cipherNext, open, unflushed>>

ReplaceCurrent(s) ==
  /\ pointer["current"] = Missing
  /\ pointer["next"] # Missing
  /\ open = NoOne
  /\ Advance(s, "replace2", "saved")
  /\ pointer' = [pointer EXCEPT !["current"] = pointer["next"],
                                !["next"] = Missing]
  /\ UNCHANGED <<print, cipher, cipherNext, open, unflushed>>

\* A step throws, or the process is killed; the system closes its files.
SaveFails(s) ==
  /\ spc[s] \notin {"saved", "failed"}
  /\ spc' = [spc EXCEPT ![s] = "failed"]
  /\ open' = IF open = s THEN NoOne ELSE open
  /\ UNCHANGED <<base, print, cipher, cipherNext, pointer, unflushed, rotten,
                 readers, last, overlapped>>

-----------------------------------------------------------------------------
\* Power fails: every process ends, and data that was not flushed is lost.
PowerLoss ==
  /\ LET lost(kind, x) == IF <<kind, x>> \in unflushed THEN Torn ELSE x
     IN /\ cipher' = [s \in Savers |-> lost("cipher", cipher[s])]
        /\ cipherNext' = [s \in Savers |-> lost("cipher", cipherNext[s])]
        /\ pointer' = [f \in PointerFiles |-> lost("pointer", pointer[f])]
  /\ unflushed' = {}
  /\ open' = NoOne
  /\ spc' = [s \in Savers |->
               IF spc[s] \in {"idle", "saved"} THEN spc[s] ELSE "failed"]
  /\ rpc' = [r \in Restorers |->
               IF rpc[r] \in {"idle", "uploaded"} THEN rpc[r] ELSE "failed"]
  /\ UNCHANGED <<base, print, rotten, selected, held, inputs, last, overlapped>>

\* The disk damages a generation that was written.
Rot(s) ==
  /\ cipher[s] = s
  /\ rotten' = rotten \cup {s}
  /\ UNCHANGED <<base, print, store, spc, readers, last, overlapped>>

\* The payload, the tools bundle or an installer is replaced.
ChangeBase ==
  /\ base' \in Bases
  /\ UNCHANGED <<print, store, rotten, spc, readers, last, overlapped>>

-----------------------------------------------------------------------------
(* Restore-A1625RamState; Test-A1625RamStateSnapshot makes the same checks *)
(* before the boot and changes nothing.                                    *)

RestoreStep(r, from, cond, to) ==
  /\ rpc[r] = from
  /\ rpc' = [rpc EXCEPT ![r] = IF cond THEN to ELSE "failed"]
  /\ UNCHANGED <<base, print, store, rotten, spc, last, overlapped>>

\* The pointer is read; what is no generation's name is refused.
Select(r) ==
  /\ RestoreStep(r, "idle", pointer["current"] \in Savers, "selected")
  /\ selected' = [selected EXCEPT ![r] =
                    IF pointer["current"] \in Savers THEN pointer["current"]
                                                     ELSE Missing]
  /\ UNCHANGED <<held, inputs>>

\* The bytes read must have the digest that the file's name says.
Bytes(s) == IF s \in rotten THEN Torn ELSE cipher[s]

DigestMatches(bytes, s) == bytes = s

ReadCipher(r) ==
  /\ RestoreStep(r, "selected",
                 DigestMatches(Bytes(selected[r]), selected[r]), "read")
  /\ held' = [held EXCEPT ![r] = Bytes(selected[r])]
  /\ UNCHANGED <<selected, inputs>>

\* Mutated: the fingerprint is not compared.
AnyFingerprint(bytes, b) == TRUE

\* The envelope must carry the fingerprint of the inputs.
FingerprintMatches(bytes, b) == print[bytes] = b

OpenEnvelope(r) ==
  /\ RestoreStep(r, "read", FingerprintMatches(held[r], base), "matched")
  /\ inputs' = [inputs EXCEPT ![r] = base]
  /\ UNCHANGED <<selected, held>>

\* The device is checked and the archive in memory sent to it.
Upload(r) ==
  /\ RestoreStep(r, "matched", TRUE, "uploaded")
  /\ UNCHANGED <<selected, held, inputs>>

-----------------------------------------------------------------------------
Save(s) ==
  \/ Snapshot(s) \/ CreateCipher(s) \/ WriteCipher(s) \/ FlushCipher(s)
  \/ InstallCipher(s) \/ CreatePointer(s) \/ WritePointer(s) \/ FlushPointer(s)
  \/ TestPointer(s) \/ MovePointer(s) \/ ReplaceBackup(s) \/ ReplaceCurrent(s)

Next ==
  \/ \E s \in Savers : Save(s) \/ SaveFails(s) \/ Rot(s)
  \/ \E r \in Restorers : Select(r) \/ ReadCipher(r) \/ OpenEnvelope(r) \/ Upload(r)
  \/ PowerLoss
  \/ ChangeBase

Spec == Init /\ [][Next]_vars

-----------------------------------------------------------------------------
(* Properties.                                                             *)

\* While saves do not overlap, and whatever kills and power losses cut
\* short, "current" and "current.previous" are never torn and name a
\* generation whose whole ciphertext is in the store (README: "an interrupted
\* save cannot pair new ciphertext with old metadata").
PointerNamesWhole ==
  ~overlapped =>
    \A f \in {"current", "previous"} :
      pointer[f] # Missing =>
        /\ pointer[f] \in Savers
        /\ cipher[pointer[f]] = pointer[f]
        /\ <<"cipher", pointer[f]>> \notin unflushed

\* While saves do not overlap, "current" never names another generation than
\* the one reported last: a restoration, which reads only "current", gets that
\* one or fails.  It fails after a save that was cut between the two renames
\* of File.Replace; "current.previous" then keeps the name for the recovery
\* by hand that the README describes.
LastSaveRecoverable ==
  last # Missing /\ ~overlapped =>
    \/ pointer["current"] = last
    \/ pointer["current"] = Missing /\ pointer["previous"] = last

\* README: "An interrupted host save leaves the previous current generation
\* intact": when no save is at work, "current" names the generation that was
\* reported last.
InterruptedKeepsCurrent ==
  last # Missing /\ ~overlapped /\ ~Saving => pointer["current"] = last

\* Even when saves overlap, and one truncates or takes the ".next" file of
\* the other, once a save was reported a pointer file stays, and a pointer
\* file that is whole names a generation that is in the store.
GenerationReachable ==
  /\ last # Missing => \E f \in {"current", "previous"} : pointer[f] # Missing
  /\ \A f \in {"current", "previous"} :
       pointer[f] \in Savers => cipher[pointer[f]] = pointer[f]

\* What is sent to the device is one whole generation, undamaged, that was
\* saved under the inputs the restoration found: README, "Corrupt or
\* incompatible state is never silently accepted".
OnlyVerifiedUploaded ==
  \A r \in Restorers : rpc[r] = "uploaded" =>
    /\ held[r] \in Savers
    /\ held[r] = selected[r]
    /\ print[held[r]] = inputs[r]
=============================================================================
