------------------------------ MODULE Binding ------------------------------
(***************************************************************************)
(* What the slot allocator promises to the cameras over the life of a      *)
(* storage directory: each gets at most one endpoint slot, keeps it for    *)
(* ever, and no other camera is ever given it.  The abstract specification *)
(* of crates/bridge/src/slot_persistence.rs, which SlotMap implements.     *)
(*                                                                         *)
(* `intact` says that the promise still stands: once the record of the     *)
(* slots was damaged, nothing is promised.                                 *)
(***************************************************************************)
EXTENDS CameraIds

CONSTANTS Slots,   \* the slots there are
          NoSlot   \* the camera has been given none

VARIABLES bound,   \* the slot each camera was given
          intact

BindingInit ==
  /\ bound = [c \in Cameras |-> NoSlot]
  /\ intact = TRUE

Give(c, s) ==
  /\ bound[c] = NoSlot
  /\ \A d \in Cameras : bound[d] # s
  /\ bound' = [bound EXCEPT ![c] = s]

BindingNext ==
  \/ ~intact'
  \/ intact /\ UNCHANGED intact /\ \E c \in Cameras, s \in Slots : Give(c, s)

Bindings == BindingInit /\ [][BindingNext]_<<bound, intact>>
=============================================================================
