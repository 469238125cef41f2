-------------------------- MODULE MCRegistryCutover --------------------------
(* Small instances of RegistryCutover; the constants are numbers.          *)
EXTENDS RegistryCutover
=============================================================================
