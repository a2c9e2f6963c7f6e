---------------------------- MODULE MCScanCenter ----------------------------
(***************************************************************************)
(* Finite instances of ScanCenter for TLC.                                 *)
(***************************************************************************)
EXTENDS ScanCenter, TLC

CONSTANTS main, acme, beta

\* One branch, scanned again and again; a second workspace without projects.
OneTarget   == {main}
OneHome     == main :> acme
AllOnMain   == [s \in Scans |-> main]
=============================================================================
