----------------------------- MODULE ScanLedger -----------------------------
(***************************************************************************)
(* What the scan endpoints promise their callers (routers/scans.py): idle, *)
(* queued, running, then done, error or cancelled for good, and a result   *)
(* for exactly the scans that are done.  One scan per branch is active,    *)
(* and the workspace's queue and running slots are bounded.                *)
(*                                                                         *)
(* A request or a claim tidies up in its own transaction: whatever it      *)
(* does, a set of active scans may fail in the same step.                  *)
(***************************************************************************)
EXTENDS Naturals, FiniteSets

CONSTANTS Scans, BranchOf, MaxRunning, MaxQueued

VARIABLES phase, results

Active == {a \in Scans : phase[a] \in {"queued", "running"}}

Init == phase = [a \in Scans |-> "none"] /\ results = {}

After(a, p, failed) ==
    phase' = [o \in Scans |-> IF o = a THEN p
                              ELSE IF o \in failed THEN "error" ELSE phase[o]]

Left(p, failed) == {o \in Scans \ failed : phase[o] = p}

Queue(a, failed) ==
    /\ phase[a] = "none"
    /\ \A o \in Active \ failed : BranchOf[o] # BranchOf[a]
    /\ Cardinality(Left("queued", failed)) < MaxQueued
    /\ After(a, "queued", failed)
    /\ UNCHANGED results

Run(a, failed) ==
    /\ phase[a] = "queued"
    /\ Cardinality(Left("running", failed)) < MaxRunning
    /\ After(a, "running", failed)
    /\ UNCHANGED results

Finish(a) ==
    /\ phase[a] = "running"
    /\ After(a, "done", {})
    /\ results' = results \cup {a}

Stop(a) ==
    /\ a \in Active
    /\ After(a, "cancelled", {})
    /\ UNCHANGED results

Fail(failed) ==
    /\ phase' = [o \in Scans |-> IF o \in failed THEN "error" ELSE phase[o]]
    /\ UNCHANGED results

Next ==
    \/ \E a \in Scans : Finish(a) \/ Stop(a)
    \/ \E failed \in SUBSET Active :
          \/ Fail(failed)
          \/ \E a \in Scans \ failed : Queue(a, failed) \/ Run(a, failed)

Spec == Init /\ [][Next]_<<phase, results>>
=============================================================================
