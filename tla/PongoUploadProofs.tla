-------------------------- MODULE PongoUploadProofs --------------------------
(***************************************************************************)
(* For files, chunks and limits of any size: PongoOS gets the file's bytes *)
(* in order and is told to boot only after exactly the announced number.   *)
(***************************************************************************)
EXTENDS PongoUpload, SequenceTheorems, TLAPS

\* What a transfer of n bytes carries is a sequence of n offsets.
LEMMA CarriedSeq ==
  ASSUME TypeOK, NEW n \in Nat
  PROVE  /\ Carried(n) \in Seq(Nat)
         /\ Len(Carried(n)) = n
         /\ \A k \in 1 .. n : Carried(n)[k] = start + offset + (k - 1)
<1>1. \A k \in 1 .. n : start + offset + (k - 1) \in Nat
  BY DEF TypeOK
<1> QED
  BY <1>1 DEF Carried

\* Appending the next n bytes keeps what was received in order.
LEMMA AppendInOrder ==
  ASSUME TypeOK, InOrder, NEW n \in Nat,
         Len(received) = start + offset,
         received' = received \o Carried(n)
  PROVE  /\ InOrder'
         /\ Len(received') = Len(received) + n
         /\ received' \in Seq(Nat)
<1> DEFINE c == Carried(n)
<1>1. c \in Seq(Nat) /\ Len(c) = n
      /\ \A k \in 1 .. n : c[k] = start + offset + (k - 1)
  BY CarriedSeq
<1>2. received \in Seq(Nat) /\ Len(received) \in Nat
  BY DEF TypeOK
<1> HIDE DEF c
<1>3. received' = received \o c
  BY DEF c
<1>4. /\ Len(received') = Len(received) + n /\ received' \in Seq(Nat)
      /\ \A k \in 1 .. Len(received) + n :
           received'[k] = IF k <= Len(received) THEN received[k]
                                                ELSE c[k - Len(received)]
  <2>1. /\ received \o c \in Seq(Nat)
        /\ Len(received \o c) = Len(received) + Len(c)
        /\ \A k \in 1 .. Len(received) + Len(c) :
             (received \o c)[k] = IF k <= Len(received)
                                    THEN received[k]
                                    ELSE c[k - Len(received)]
    BY <1>1, <1>2, ConcatProperties, Zenon
  <2>2. Len(c) = n
    BY <1>1
  <2> QED
    BY <1>3, <2>1, <2>2, Zenon
<1>5. ASSUME NEW k \in DOMAIN received'
      PROVE  received'[k] = k - 1
  <2>1. k \in 1 .. Len(received) + n
    BY <1>4
  <2>2. CASE k <= Len(received)
    <3>1. received'[k] = received[k]
      BY <1>2, <1>4, <2>1, <2>2
    <3>2. k \in DOMAIN received
      BY <1>2, <2>1, <2>2
    <3> QED
      BY <3>1, <3>2 DEF InOrder
  <2>3. CASE k > Len(received)
    <3>0. ~ (k <= Len(received))
      BY <1>2, <2>1, <2>3
    <3>1. received'[k] = c[k - Len(received)]
      BY <1>4, <2>1, <3>0, Zenon
    <3>2. k - Len(received) \in 1 .. n
      BY <1>2, <2>1, <2>3
    <3>3. c[k - Len(received)] = start + offset + ((k - Len(received)) - 1)
      BY <1>1, <3>2
    <3> QED
      BY <1>2, <2>1, <3>1, <3>3
  <2> QED
    BY <1>2, <2>1, <2>2, <2>3
<1> QED
  BY <1>4, <1>5 DEF InOrder

LEMMA UploadInit ==
  Init => TypeOK /\ UploadInv
<1> SUFFICES ASSUME Init PROVE TypeOK /\ UploadInv
  OBVIOUS
<1>1. received = <<>> /\ DOMAIN received = {} /\ received \in Seq(Nat)
  BY DEF Init
<1>2. TypeOK
  BY <1>1 DEF Init, TypeOK, Commands
<1>3. UploadInv
  BY <1>1 DEF Init, UploadInv, InOrder, BootExact, Commands
<1> QED
  BY <1>2, <1>3

\* Ending without another word to the device keeps the invariant.
LEMMA ReturnKeeps ==
  ASSUME TypeOK, UploadInv, NEW from, from # "done", NEW r \in {"ok", "err"},
         Return(from, r), UNCHANGED device
  PROVE  TypeOK' /\ UploadInv'
<1>1. InOrder'
  BY DEF UploadInv, InOrder, device
<1>2. TypeOK'
  BY DEF TypeOK, Return, reading, device
<1>3. BootExact'
  BY DEF UploadInv, BootExact, Return, device
<1> QED
  BY <1>1, <1>2, <1>3 DEF UploadInv, Return, reading, device

\* A step of an unfinished upload that leaves the device alone and is not
\* the reading of a chunk changes pc only.
LEMMA GoKeeps ==
  ASSUME TypeOK, UploadInv, NEW from, NEW to,
         Go(from, to), UNCHANGED <<size, reading, device>>,
         \/ from = "open" /\ to = "announce" /\ command = "upload" /\ claimed'
         \/ from = "file" /\ to = "read" /\ claimed' = claimed
         \/ from = "read" /\ to = "compare" /\ claimed' = claimed
         \/ from = "compare" /\ to = "boot" /\ claimed' = claimed /\ total = size,
         claimed' \in BOOLEAN
  PROVE  TypeOK' /\ UploadInv'
<1>1. InOrder'
  BY DEF UploadInv, InOrder, device
<1>2. TypeOK'
  BY DEF TypeOK, Go, reading, device
<1>3. BootExact'
  BY DEF UploadInv, BootExact, Go, device
<1>4. from = "file" => Len(received) = 0
  BY DEF UploadInv, Go
<1> QED
  BY <1>1, <1>2, <1>3, <1>4 DEF UploadInv, Go, reading, device, TypeOK, ValidSize

\* Every step keeps the types and the invariant.
LEMMA UploadStep ==
  TypeOK /\ UploadInv /\ [Next]_vars => TypeOK' /\ UploadInv'
<1> SUFFICES ASSUME TypeOK, UploadInv, [Next]_vars
             PROVE  TypeOK' /\ UploadInv'
  OBVIOUS
<1>0. received' = received => InOrder'
  BY DEF UploadInv, InOrder
<1>a. size % Word \in Nat /\ (ValidSize(size) => size % Word = size)
  BY SizesAssumption DEF TypeOK, ValidSize
<1>1. CASE ValidatePayload
  <2>1. CASE /\ ValidSize(flen) /\ command = "upload"
             /\ Go("validate", "open") /\ size' = flen
             /\ UNCHANGED <<claimed, reading>> /\ UNCHANGED device
    <3>1. InOrder' /\ BootExact'
      BY <1>0, <2>1 DEF UploadInv, BootExact, Go, device
    <3>2. TypeOK'
      BY <2>1, SizesAssumption DEF TypeOK, Go, reading, device
    <3>3. ValidSize(size')
      BY <2>1
    <3> QED
      BY <2>1, <3>1, <3>2, <3>3 DEF UploadInv, Go, reading, device
  <2>2. CASE /\ Return("validate", "ok") \/ Return("validate", "err")
             /\ UNCHANGED device
    BY <2>2, ReturnKeeps
  <2> QED
    BY <1>1, <2>1, <2>2 DEF ValidatePayload
<1>2. CASE SessionOpen
  <2>1. CASE /\ command = "upload" /\ Go("open", "announce")
             /\ claimed' = TRUE /\ UNCHANGED <<size, reading, device>>
    BY <2>1, GoKeeps
  <2>2. CASE /\ Return("open", "ok") \/ Return("open", "err")
             /\ UNCHANGED device
    BY <2>2, ReturnKeeps
  <2> QED
    BY <1>2, <2>1, <2>2 DEF SessionOpen
<1>3. CASE Announce
  <2>1. received' = received /\ InOrder' /\ booted' = booted
    BY <1>0, <1>3 DEF Announce
  <2>2. announced' \in Nat /\ command = "upload" /\ ~booted
    BY <1>3, <1>a DEF Announce, Go, Return, TypeOK, UploadInv
  <2>3. TypeOK'
    BY <1>3, <2>1, <2>2 DEF Announce, Go, Return, reading, TypeOK
  <2> QED
    BY <1>3, <2>1, <2>2, <2>3
    DEF Announce, Go, Return, reading, UploadInv, BootExact, ValidSize
<1>4. CASE OpenFile
  <2>1. CASE Go("file", "read") /\ UNCHANGED <<size, claimed, reading, device>>
    BY <2>1, GoKeeps DEF TypeOK
  <2>2. CASE Return("file", "err") /\ UNCHANGED device
    BY <2>2, ReturnKeeps
  <2> QED
    BY <1>4, <2>1, <2>2 DEF OpenFile
<1>5. CASE ReadChunk
  <2>1. CASE /\ Go("read", "send")
             /\ \E n \in 1 .. Chunk : count' = n
             /\ start' = start + count /\ offset' = 0
             /\ UNCHANGED <<size, total, claimed, device>>
    <3>1. InOrder' /\ BootExact'
      BY <1>0, <2>1 DEF UploadInv, BootExact, Go, device
    <3>2. count' \in Nat \ {0} /\ start' \in Nat
      BY <2>1, SizesAssumption DEF TypeOK
    <3>3. TypeOK'
      BY <2>1, <3>2 DEF TypeOK, Go, device
    <3>4. start' + offset' = total'
      BY <2>1 DEF UploadInv, TypeOK, Go
    <3> QED
      BY <2>1, <3>1, <3>2, <3>3, <3>4 DEF UploadInv, Go, device, ValidSize
  <2>2. CASE Go("read", "compare") /\ UNCHANGED <<size, claimed, reading, device>>
    BY <2>2, GoKeeps DEF TypeOK
  <2>3. CASE Return("read", "err") /\ UNCHANGED device
    BY <2>3, ReturnKeeps
  <2> QED
    BY <1>5, <2>1, <2>2, <2>3 DEF ReadChunk
<1>6. CASE BulkTransfer
  <2>1. /\ pc = "send" /\ Len(received) = start + offset
        /\ InOrder /\ offset < count /\ ~booted /\ command = "upload"
        /\ count - offset \in Nat
    <3>1. pc = "send"
      BY <1>6 DEF BulkTransfer, Go, Return
    <3> QED
      BY <3>1 DEF UploadInv, TypeOK
  <2>2. CASE \E n \in 1 .. count - offset :
               /\ Go("send", IF offset + n < count THEN "send" ELSE "read")
               /\ received' = received \o Carried(n)
               /\ offset' = offset + n
               /\ total' = total + n
               /\ UNCHANGED <<size, start, count, claimed, announced, booted>>
    <3>1. PICK n \in 1 .. count - offset :
               /\ Go("send", IF offset + n < count THEN "send" ELSE "read")
               /\ received' = received \o Carried(n)
               /\ offset' = offset + n
               /\ total' = total + n
               /\ UNCHANGED <<size, start, count, claimed, announced, booted>>
      BY <2>2
    <3>2. n \in Nat /\ n <= count - offset /\ n >= 1
      BY <2>1
    <3>3. /\ InOrder' /\ Len(received') = Len(received) + n
          /\ received' \in Seq(Nat)
      BY <2>1, <3>1, <3>2, AppendInOrder
    <3>4. offset' \in Nat /\ total' \in Nat /\ offset' <= count'
      BY <3>1, <3>2 DEF TypeOK
    <3>5. pc' \in {"send", "read"} /\ (pc' = "send" <=> offset' < count')
      BY <3>1, <3>2, <3>4 DEF Go
    <3>6. TypeOK'
      BY <3>1, <3>3, <3>4, <3>5 DEF TypeOK, Go
    <3>7. Len(received') = total' /\ start' + offset' = total'
      BY <2>1, <3>1, <3>2, <3>3 DEF UploadInv, TypeOK
    <3>8. pc' = "read" => offset' = count'
      BY <3>1, <3>4, <3>5 DEF TypeOK
    <3> QED
      BY <2>1, <3>1, <3>3, <3>4, <3>5, <3>6, <3>7, <3>8
      DEF UploadInv, BootExact, Go, ValidSize
  <2>3. CASE \E n \in 0 .. count - offset :
               /\ Return("send", "err")
               /\ received' = received \o Carried(n)
               /\ UNCHANGED <<announced, booted>>
    <3>1. PICK n \in 0 .. count - offset :
               /\ Return("send", "err")
               /\ received' = received \o Carried(n)
               /\ UNCHANGED <<announced, booted>>
      BY <2>3
    <3>a. n \in Nat
      BY <2>1
    <3>2. InOrder' /\ received' \in Seq(Nat)
      BY <2>1, <3>1, <3>a, AppendInOrder
    <3>3. TypeOK'
      BY <3>1, <3>2 DEF TypeOK, Return, reading
    <3> QED
      BY <2>1, <3>1, <3>2, <3>3 DEF UploadInv, BootExact, Return, reading
  <2> QED
    BY <1>6, <2>2, <2>3 DEF BulkTransfer
<1>7. CASE CompareTotal
  <2>1. CASE /\ total = size /\ Go("compare", "boot")
             /\ UNCHANGED <<size, claimed, reading, device>>
    BY <2>1, GoKeeps DEF TypeOK
  <2>2. CASE Return("compare", "err") /\ UNCHANGED device
    BY <2>2, ReturnKeeps
  <2> QED
    BY <1>7, <2>1, <2>2 DEF CompareTotal
<1>8. CASE BootCommand
  <2>1. /\ received' = received /\ announced' = announced /\ InOrder'
        /\ booted' \in BOOLEAN /\ pc = "boot" /\ pc' = "done"
    BY <1>0, <1>8 DEF BootCommand, Return
  <2>2. TypeOK'
    BY <1>8, <2>1 DEF BootCommand, Return, reading, TypeOK
  <2>3. Len(received) = announced /\ announced \in 1 .. MaxUpload
    BY <1>a, <2>1, SizesAssumption DEF UploadInv, TypeOK, ValidSize
  <2>4. BootExact'
    BY <1>8, <2>1, <2>3 DEF BootCommand, Return, UploadInv, BootExact
  <2> QED
    BY <1>8, <2>1, <2>2, <2>4 DEF BootCommand, Return, reading, UploadInv
<1>9. CASE FileChanges
  <2>1. InOrder' /\ BootExact'
    BY <1>0, <1>9 DEF FileChanges, UploadInv, BootExact, device
  <2>2. TypeOK'
    BY <1>9 DEF FileChanges, TypeOK, reading, device
  <2> QED
    BY <1>9, <2>1, <2>2 DEF FileChanges, UploadInv, ValidSize, reading, device
<1>10. CASE UNCHANGED vars
  BY <1>0, <1>10 DEF vars, TypeOK, UploadInv, BootExact, ValidSize
<1> QED
  BY <1>1, <1>2, <1>3, <1>4, <1>5, <1>6, <1>7, <1>8, <1>9, <1>10
  DEF Next, Run

\* The inductive invariant of the uploader: total counts what the device has
\* received, and is where the unsent part of the buffer begins in the file.
THEOREM UploadCorrect == Spec => [](TypeOK /\ UploadInv)
  BY UploadInit, UploadStep, PTL DEF Spec

\* For every file, chunk size and limit, and every pattern of short reads
\* and partial transfers, PongoOS receives the file's bytes in order.
THEOREM UploadInOrder == Spec => []InOrder
<1>1. UploadInv => InOrder
  BY DEF UploadInv
<1> QED
  BY <1>1, UploadCorrect, PTL

\* PongoOS is told to boot only after exactly the number of bytes it was
\* announced, a length that validate_payload accepted.
THEOREM BootIsExact == Spec => []BootExact
<1>1. UploadInv => BootExact
  BY DEF UploadInv
<1> QED
  BY <1>1, UploadCorrect, PTL

\* Only an upload that holds the claimed interface talks to the device.
THEOREM OnlyUploads == Spec => OnlyUploadTalks
<1>1. TypeOK /\ UploadInv /\ [Next]_vars
        => [UNCHANGED device \/ (command = "upload" /\ claimed)]_vars
  BY DEF UploadInv, Next, Run, ValidatePayload, SessionOpen, Announce,
     OpenFile, ReadChunk, BulkTransfer, CompareTotal, BootCommand,
     FileChanges, Go, Return, vars, device
<1> QED
  BY <1>1, UploadCorrect, PTL DEF Spec, OnlyUploadTalks
=============================================================================
