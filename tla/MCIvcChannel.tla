---------------------------- MODULE MCIvcChannel ----------------------------
(***************************************************************************)
(* IvcChannel for TLC.  The two ends are interchangeable when both or      *)
(* neither may reset, and so are the payloads.                             *)
(***************************************************************************)
EXTENDS IvcChannel, TLC

Symmetry == Permutations({A, B}) \cup Permutations(Payload)
=============================================================================
