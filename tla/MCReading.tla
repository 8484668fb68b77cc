------------------------------ MODULE MCReading -------------------------------
(***************************************************************************)
(* Readers beside the writers of MCWriting.                                *)
(***************************************************************************)
EXTENDS ReadProtocol, MCWriting
=============================================================================
