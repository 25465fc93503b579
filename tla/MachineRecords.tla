--------------------------- MODULE MachineRecords ---------------------------
(***************************************************************************)
(* What a machine records of itself in flash: its hour meters, its serial  *)
(* number and its first start.  The parts use different NVS keys and share *)
(* no other state, so that they run side by side.                          *)
(***************************************************************************)
EXTENDS RuntimeCounters, MachineIdentity

RecordsSpec == CountersSpec /\ IdentitySpec

(* What a machine records of itself in flash stays true: the hour meters    *)
(* (CountersHonest) and its serial number and first start (IdentityKept).   *)
RecordsStayTrue == CountersHonest /\ IdentityKept
=============================================================================
