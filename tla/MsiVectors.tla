------------------------------ MODULE MsiVectors ------------------------------
(***************************************************************************)
(* The MSI vector allocator of a1625_msi.h: a bitmap of slots, each backed *)
(* by an interrupt of the parent controller.  The interrupt core calls     *)
(* alloc and free with its own mutex held (external), which op stands for; *)
(* the bitmap's lock is taken only inside those calls.  Every caller in    *)
(* this program asks for one vector.                                       *)
(***************************************************************************)
EXTENDS Integers

CONSTANTS
  NSlots,          \* slots of the bitmap; eight in the code
  Owners           \* who holds vectors

VARIABLES
  used,            \* the bitmap
  parent,          \* slots with a mapping in the parent domain
  owned,           \* per owner, the slots of its interrupts
  op               \* the call in progress and the slot it works on

Slots == 0 .. NSlots - 1

NoOp == [step |-> "none"]

VectorsTypeOK ==
  /\ used \subseteq Slots /\ parent \subseteq Slots
  /\ owned \in [Owners -> SUBSET Slots]
  /\ op \in {NoOp} \cup [step : {"alloc", "free"}, who : Owners, slot : Slots]

VectorsInit ==
  /\ used = {} /\ parent = {}
  /\ owned = [w \in Owners |-> {}]
  /\ op = NoOp

\* bitmap_find_free_region takes the lowest free slot.
AllocFind(who) ==
  /\ op = NoOp
  /\ \E s \in Slots \ used :
       /\ \A t \in Slots \ used : s <= t
       /\ used' = used \cup {s}
       /\ op' = [step |-> "alloc", who |-> who, slot |-> s]
  /\ UNCHANGED <<parent, owned>>

\* irq_domain_alloc_irqs_parent, then the slot's number and chip are set.
AllocMapped ==
  /\ op.step = "alloc"
  /\ parent' = parent \cup {op.slot}
  /\ owned' = [owned EXCEPT ![op.who] = @ \cup {op.slot}]
  /\ op' = NoOp
  /\ UNCHANGED used

\* Mutated: the slot is not given back.
AllocLeaks ==
  /\ op.step = "alloc"
  /\ op' = NoOp
  /\ UNCHANGED <<used, parent, owned>>

\* The parent refuses: the region is released.
AllocRefused ==
  /\ op.step = "alloc"
  /\ used' = used \ {op.slot}
  /\ op' = NoOp
  /\ UNCHANGED <<parent, owned>>

\* free clears the bit first ...
FreeBit(who, slot) ==
  /\ op = NoOp
  /\ slot \in owned[who]
  /\ used' = used \ {slot}
  /\ op' = [step |-> "free", who |-> who, slot |-> slot]
  /\ UNCHANGED <<parent, owned>>

\* ... and then gives the parent's interrupt back.
FreeMapped ==
  /\ op.step = "free"
  /\ parent' = parent \ {op.slot}
  /\ owned' = [owned EXCEPT ![op.who] = @ \ {op.slot}]
  /\ op' = NoOp
  /\ UNCHANGED used

-----------------------------------------------------------------------------
\* Between calls the bitmap, the parent's mappings and the vectors handed out
\* are the same slots, none of them handed out twice: a slot lost by a failed
\* allocation, or freed while mapped, would show.
VectorsMatch ==
  /\ op = NoOp => used = parent /\ used = UNION {owned[w] : w \in Owners}
  /\ \A v, w \in Owners : v # w => owned[v] \cap owned[w] = {}
=============================================================================
