------------------------------ MODULE ABUpdate ------------------------------
(***************************************************************************)
(* What the A/B update promises, without boot loader, processes or power   *)
(* cuts: an image becomes final only after it was verified; until then it  *)
(* has a limited number of tries and the device changes slots when they    *)
(* are used up.                                                            *)
(***************************************************************************)
EXTENDS Naturals

CONSTANT Limit     \* tries of a slot on trial

Slots    == {"A", "B"}
Other(s) == IF s = "A" THEN "B" ELSE "A"

VARIABLES
    active,  \* the slot to start
    trial,   \* it is on trial
    tries,   \* tries used in the trial
    good,    \* the slots with a verified image
    void     \* somebody confirmed a slot that was not tried: no promise holds

vars == <<active, trial, tries, good>>

Init == active = "A" /\ trial = FALSE /\ tries = 0 /\ good = Slots /\ void = FALSE

\* A new image replaces the one in the inactive slot.
Install ==
    /\ good' = good \ {Other(active)}
    /\ UNCHANGED <<active, trial, tries>>

\* The new image is put on trial.
Activate ==
    /\ active' = Other(active) /\ trial' = TRUE /\ tries' = 0
    /\ UNCHANGED good

Try ==
    /\ trial /\ tries < Limit
    /\ tries' = tries + 1
    /\ UNCHANGED <<active, trial, good>>

Confirm ==
    /\ trial
    /\ trial' = FALSE /\ tries' = 0
    /\ good' = good \cup {active}
    /\ UNCHANGED active

\* The tries are used up: the other slot gets its own.
Rollback ==
    /\ trial /\ tries = Limit
    /\ active' = Other(active) /\ tries' = 0
    /\ UNCHANGED <<trial, good>>

Next == Install \/ Activate \/ Try \/ Confirm \/ Rollback

\* until the promise is void
Spec == Init /\ [][void' \/ Next]_vars

=============================================================================
