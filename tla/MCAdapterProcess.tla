-------------------------- MODULE MCAdapterProcess --------------------------
(***************************************************************************)
(* A cap of three bytes, reads of two and pipes of two, and a child that   *)
(* may write up to four bytes to each of its streams.                     *)
(***************************************************************************)
EXTENDS AdapterProcess
=============================================================================
