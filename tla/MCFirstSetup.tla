---------------------------- MODULE MCFirstSetup ----------------------------
(* An instance of FirstSetup for TLC. *)
EXTENDS FirstSetup

\* two files that may be put on the card, one after the other
TwoConfigs == {"home", "office"}

=============================================================================
