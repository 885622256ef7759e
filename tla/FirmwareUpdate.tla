--------------------------- MODULE FirmwareUpdate ---------------------------
(***************************************************************************)
(* What a firmware update promises, whatever happens on the link: sectors  *)
(* are confirmed one after the other, each only while the target's flash   *)
(* holds it, and the application is started only with the whole image in   *)
(* flash.  A target may fail to write the sector being transferred, and    *)
(* the host may give up as long as the application has not been started.   *)
(***************************************************************************)
EXTENDS Naturals

CONSTANT N                  \* number of sectors of the image

VARIABLES phase,            \* "idle", "flashing", "started", "done", "failed"
          programmed,       \* sectors the flash holds, of 1 .. N
          confirmed         \* sectors the host counts as written

vars == <<phase, programmed, confirmed>>

Init ==
  /\ phase = "idle"
  /\ programmed = {}
  /\ confirmed = 0

Connect ==
  /\ phase = "idle"
  /\ phase' = "flashing"
  /\ UNCHANGED <<programmed, confirmed>>

\* The target writes the sector in transfer, and may fail to.
Program ==
  /\ phase = "flashing"
  /\ confirmed < N
  /\ \/ programmed' = programmed \cup {confirmed + 1}
     \/ programmed' = programmed \ {confirmed + 1}
  /\ UNCHANGED <<phase, confirmed>>

Confirm ==
  /\ phase = "flashing"
  /\ confirmed + 1 \in programmed
  /\ confirmed' = confirmed + 1
  /\ UNCHANGED <<phase, programmed>>

Start ==
  /\ phase = "flashing"
  /\ confirmed = N
  /\ programmed = 1 .. N
  /\ phase' = "started"
  /\ UNCHANGED <<programmed, confirmed>>

Finish ==
  /\ phase = "started"
  /\ phase' = "done"
  /\ UNCHANGED <<programmed, confirmed>>

GiveUp ==
  /\ phase \in {"idle", "flashing"}
  /\ phase' = "failed"
  /\ UNCHANGED <<programmed, confirmed>>

Next == Connect \/ Program \/ Confirm \/ Start \/ Finish \/ GiveUp

Spec == Init /\ [][Next]_vars

=============================================================================
