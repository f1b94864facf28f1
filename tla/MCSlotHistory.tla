---------------------------- MODULE MCSlotHistory ----------------------------
(* SlotHistory over the instances of MCScheduleLoop. *)
EXTENDS MCScheduleLoop, SlotHistory
=============================================================================
