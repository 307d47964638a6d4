--------------------------- MODULE MCIdentityVault ---------------------------
(* Instance of IdentityVault for TLC.                                      *)
EXTENDS IdentityVault
=============================================================================
