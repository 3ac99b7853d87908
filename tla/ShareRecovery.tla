---------------------------- MODULE ShareRecovery ----------------------------
(***************************************************************************)
(* What proof-aware recovery promises its caller: one answer, made from    *)
(* the transcripts as a whole.  Either every one of them is acceptable to  *)
(* the participant and the answer is the sum of its unmasked shares, or    *)
(* there is no share at all; no order of the checks and no order of the    *)
(* transcripts shows in the answer.                                        *)
(***************************************************************************)
CONSTANTS Acceptable(_, _),   \* of the transcripts and the participant
          ShareOf(_, _)       \* the share they give it

VARIABLES transcripts, participant, outcome

vars == <<transcripts, participant, outcome>>

Pending == [state |-> "pending"]
Refused == [state |-> "refused"]
Share(v) == [state |-> "share", value |-> v]

Init == outcome = Pending

Answer ==
  /\ outcome = Pending
  /\ outcome' = IF Acceptable(transcripts, participant)
                THEN Share(ShareOf(transcripts, participant)) ELSE Refused
  /\ UNCHANGED <<transcripts, participant>>

Spec == Init /\ [][Answer]_vars

=============================================================================
