------------------------------ MODULE MCStock ------------------------------
(***************************************************************************)
(* Stock for TLC.  Terminals, codes, versions and row identities are model *)
(* values.                                                                 *)
(***************************************************************************)
EXTENDS Stock
=============================================================================
