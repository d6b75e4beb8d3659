--------------------------- MODULE MCComponentUpdate ---------------------------
(* Instances of ComponentUpdate for TLC. *)
EXTENDS ComponentUpdate

AllComponents == {"app", "plugin", "web"}
AppOnly       == {"app"}
PluginOnly    == {"plugin"}
WebOnly       == {"web"}
AllOffers     == Kinds
PlainOffers   == {"plain"}
=============================================================================
