----------------------------- MODULE PongoUpload -----------------------------
(***************************************************************************)
(* atv-pongo-uploader (pongo-uploader/src/main.rs): validate the payload   *)
(* file, open the USB session, announce the size, send the file in chunks, *)
(* and tell PongoOS to boot it.                                            *)
(*                                                                         *)
(* A byte is its offset in the file.  The file may change its length       *)
(* between any two steps (it is read by name twice: once for its metadata, *)
(* once for its content).  A read may be short, a bulk transfer may be     *)
(* partial, and a transfer that is reported as failed may have reached the *)
(* device.  PongoOS is external: it keeps what it was sent.                *)
(***************************************************************************)
EXTENDS Integers, Sequences

CONSTANTS
  MaxUpload,     \* MAX_UPLOAD_SIZE
  Chunk,         \* UPLOAD_CHUNK_SIZE
  Word,          \* one more than the largest length of the length field
  MaxFile        \* bound on the file's length

ASSUME SizesAssumption ==
  /\ MaxUpload \in Nat /\ Chunk \in Nat \ {0} /\ MaxFile \in Nat
  /\ Word \in Nat /\ MaxUpload < Word

VARIABLES
  command,       \* "validate", "probe" or "upload"
  pc, result,
  flen,          \* the file's length now
  size,          \* the length that validate_payload saw
  start, count,  \* the buffer holds the file's bytes start .. start+count-1
  offset,        \* how many of them were sent
  total,
  claimed,       \* the session holds the interface
  announced,     \* PongoOS: the length it was told
  received,      \* PongoOS: the bytes it was sent
  booted         \* PongoOS: it got the boot command

vars == <<command, pc, result, flen, size, start, count, offset, total,
          claimed, announced, received, booted>>

Commands == {"validate", "probe", "upload"}

TypeOK ==
  /\ command \in Commands
  /\ pc \in {"validate", "open", "announce", "file", "read", "send", "compare",
             "boot", "done"}
  /\ result \in {"none", "ok", "err"}
  /\ flen \in 0 .. MaxFile
  /\ size \in Nat
  /\ start \in Nat /\ count \in Nat /\ offset \in Nat /\ total \in Nat
  /\ claimed \in BOOLEAN
  /\ announced \in Nat
  /\ received \in Seq(Nat)
  /\ booted \in BOOLEAN

Init ==
  /\ command \in Commands
  /\ pc = IF command = "probe" THEN "open" ELSE "validate"
  /\ result = "none"
  /\ flen \in 0 .. MaxFile
  /\ size = 0
  /\ start = 0 /\ count = 0 /\ offset = 0 /\ total = 0
  /\ claimed = FALSE
  /\ announced = 0
  /\ received = <<>>
  /\ booted = FALSE

-----------------------------------------------------------------------------
reading == <<start, count, offset, total>>
device  == <<announced, received, booted>>

\* The process ends; dropping the session releases the interface.
Return(from, r) ==
  /\ pc = from
  /\ pc' = "done"
  /\ result' = r
  /\ claimed' = FALSE
  /\ UNCHANGED <<command, flen, size, reading>>

Go(from, to) ==
  /\ pc = from
  /\ pc' = to
  /\ UNCHANGED <<command, result, flen>>

ValidSize(n) == n # 0 /\ n <= MaxUpload /\ n < Word

ValidatePayload ==
  \/ /\ ValidSize(flen)
     /\ IF command = "upload"
          THEN /\ Go("validate", "open") /\ size' = flen
               /\ UNCHANGED <<claimed, reading>>
          ELSE Return("validate", "ok")
     /\ UNCHANGED device
  \/ Return("validate", "err") /\ UNCHANGED device

\* Mutated: an upload goes on when the interface cannot be claimed.
OpenUnclaimed ==
  \/ Go("open", "announce") /\ UNCHANGED <<size, claimed, reading, device>>
  \/ command = "probe" /\ Return("open", "ok") /\ UNCHANGED device

\* libusb is loaded and the device opened; probe stops here, upload claims
\* the interface.
SessionOpen ==
  \/ /\ command = "upload"
     /\ Go("open", "announce")
     /\ claimed' = TRUE
     /\ UNCHANGED <<size, reading, device>>
  \/ command = "probe" /\ Return("open", "ok") /\ UNCHANGED device
  \/ Return("open", "err") /\ UNCHANGED device

\* Control request 1 with the length, as 32 bits.
Announce ==
  \/ /\ Go("announce", "file")
     /\ announced' = size % Word
     /\ UNCHANGED <<size, claimed, reading, received, booted>>
  \/ /\ Return("announce", "err")
     /\ announced' \in {announced, size % Word}
     /\ UNCHANGED <<received, booted>>

OpenFile ==
  \/ Go("file", "read") /\ UNCHANGED <<size, claimed, reading, device>>
  \/ Return("file", "err") /\ UNCHANGED device

\* The next bytes of the file, at least one unless it ends here.
ReadChunk ==
  \/ /\ Go("read", "send")
     /\ start + count < flen
     /\ \E n \in 1 .. Chunk :
          /\ start + count + n <= flen
          /\ count' = n
     /\ start' = start + count
     /\ offset' = 0
     /\ UNCHANGED <<size, total, claimed, device>>
  \/ /\ Go("read", "compare")
     /\ start + count >= flen
     /\ UNCHANGED <<size, claimed, reading, device>>
  \/ Return("read", "err") /\ UNCHANGED device

\* Mutated: after a partial transfer the buffer is sent from its beginning.
CarriedFromStart(n) == [k \in 1 .. n |-> start + (k - 1)]

\* The bytes of the buffer that a transfer of n bytes carries.
Carried(n) == [k \in 1 .. n |-> start + offset + (k - 1)]

\* One bulk transfer; it may carry less than it was given.
BulkTransfer ==
  \/ \E n \in 1 .. count - offset :
       /\ Go("send", IF offset + n < count THEN "send" ELSE "read")
       /\ received' = received \o Carried(n)
       /\ offset' = offset + n
       /\ total' = total + n
       /\ UNCHANGED <<size, start, count, claimed, announced, booted>>
  \/ \E n \in 0 .. count - offset :
       /\ Return("send", "err")
       /\ received' = received \o Carried(n)
       /\ UNCHANGED <<announced, booted>>

\* Mutated: the length sent is not compared with the length announced.
CompareNothing ==
  Go("compare", "boot") /\ UNCHANGED <<size, claimed, reading, device>>

CompareTotal ==
  \/ total = size /\ Go("compare", "boot")
     /\ UNCHANGED <<size, claimed, reading, device>>
  \/ total # size /\ Return("compare", "err") /\ UNCHANGED device

\* Control request 3, "bootm".
BootCommand ==
  \/ /\ Return("boot", "ok")
     /\ booted' = TRUE
     /\ UNCHANGED <<announced, received>>
  \/ /\ Return("boot", "err")
     /\ booted' \in BOOLEAN
     /\ UNCHANGED <<announced, received>>

\* Someone rebuilds or truncates the payload.
FileChanges ==
  /\ pc # "done"
  /\ flen' \in 0 .. MaxFile
  /\ UNCHANGED <<command, pc, result, size, reading, claimed, device>>

Run ==
  \/ ValidatePayload \/ SessionOpen \/ Announce \/ OpenFile \/ ReadChunk
  \/ BulkTransfer \/ CompareTotal \/ BootCommand

Next == Run \/ FileChanges

Spec == Init /\ [][Next]_vars

-----------------------------------------------------------------------------
(* Properties.                                                             *)

\* Whatever reads are short and transfers partial, the device gets the
\* file's bytes in order, none twice and none left out.
InOrder == \A k \in DOMAIN received : received[k] = k - 1

\* PongoOS is told to boot only after exactly the announced number of bytes,
\* a length that passed validation, however the file changed meanwhile.
BootExact ==
  booted =>
    /\ command = "upload"
    /\ Len(received) = announced
    /\ announced \in 1 .. MaxUpload

\* "probe opens and immediately closes; it sends no transfers": only an
\* upload that holds the interface talks to the device.
OnlyUploadTalks ==
  [][UNCHANGED device \/ (command = "upload" /\ claimed)]_vars

\* The inductive invariant: total counts what the device has, and is where
\* the unsent part of the buffer begins.
UploadInv ==
  /\ InOrder
  /\ offset <= count
  /\ pc = "send" => offset < count
  /\ pc \in {"validate", "open", "announce", "file"} =>
       total = 0 /\ start + count = 0 /\ received = <<>>
  /\ pc \in {"read", "send", "compare", "boot"} =>
       Len(received) = total /\ start + offset = total
  /\ pc \in {"file", "read", "send", "compare", "boot"} =>
       announced = size % Word
  /\ pc \in {"read", "compare", "boot"} => offset = count
  /\ pc \in {"announce", "file", "read", "send", "compare", "boot"} =>
       command = "upload" /\ ValidSize(size) /\ claimed
  /\ pc = "open" /\ command = "upload" => ValidSize(size)
  /\ pc = "boot" => total = size
  /\ pc # "done" => ~booted
  /\ command # "upload" => announced = 0 /\ received = <<>>
  /\ BootExact
=============================================================================
