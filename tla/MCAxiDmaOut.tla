---------------------------- MODULE MCAxiDmaOut ----------------------------
(***************************************************************************)
(* Instances of AxiDmaOut for TLC.                                         *)
(***************************************************************************)
EXTENDS AxiDmaOut, TLC

\* The threads are interchangeable: no definition tells them apart.
ProcSymmetry == Permutations(Procs)
=============================================================================
