---------------------------- MODULE MCGuestParts ----------------------------
(***************************************************************************)
(* Two parts of MCGuest on three contexts in one run: the callouts, and the *)
(* scopes and stream callbacks.  A behaviour stays in the part it began in. *)
(***************************************************************************)
EXTENDS MCGuest

VARIABLE part

PartsSpec ==
    /\ Init /\ part \in {"Callouts", "Serving"}
    /\ [][/\ part' = part
          /\ \/ part = "Callouts" /\ CalloutNext
             \/ part = "Serving" /\ ServingNext]_<<vars, part>>
=============================================================================
