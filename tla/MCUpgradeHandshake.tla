------------------------- MODULE MCUpgradeHandshake -------------------------
(* An instance of UpgradeHandshake for TLC.                                   *)
EXTENDS UpgradeHandshake
=============================================================================
