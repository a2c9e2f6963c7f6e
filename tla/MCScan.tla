------------------------------- MODULE MCScan -------------------------------
(***************************************************************************)
(* Finite instances of ScanLifecycle for TLC.                              *)
(***************************************************************************)
EXTENDS ScanLifecycle, TLC

CONSTANTS a1, a2, a3, main, dev, w1, w2, disk

\* Two attempts on one branch, one on another.
BranchesOfThree == a1 :> main @@ a2 :> main @@ a3 :> dev
BranchesOfTwo   == a1 :> main @@ a2 :> dev

\* Docker Compose: every worker mounts the same volume.
SharedVolume == [w \in Workers |-> disk]

WorkerSymmetry == Permutations(Workers)
=============================================================================
