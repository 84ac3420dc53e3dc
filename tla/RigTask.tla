-------------------------------- MODULE RigTask --------------------------------
(***************************************************************************)
(* What the daemon relies on of a rig's task once it has spawned it: the   *)
(* task is new until the runtime first polls it, and then it runs until it *)
(* was asked to stop.  To stop cannot be taken back.  StratumSession       *)
(* implements this, RigManager builds on it.                               *)
(***************************************************************************)
VARIABLES state, stop

Init == state = "new" /\ stop = FALSE

AskToStop == stop' = TRUE /\ UNCHANGED state

\* A task that is asked to stop before it ever ran ends at its first poll.
Poll ==
  /\ state = "new"
  /\ state' = IF stop THEN "ended" ELSE "running"
  /\ UNCHANGED stop

End ==
  /\ state = "running" /\ stop
  /\ state' = "ended"
  /\ UNCHANGED stop

Next == AskToStop \/ Poll \/ End

Spec == Init /\ [][Next]_<<state, stop>>
=============================================================================
