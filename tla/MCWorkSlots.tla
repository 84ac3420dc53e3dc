----------------------------- MODULE MCWorkSlots -----------------------------
(* Small instances of WorkSlots.                                           *)
EXTENDS WorkSlots
=============================================================================
