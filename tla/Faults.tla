------------------------------- MODULE Faults -------------------------------
(***************************************************************************)
(* The environment's budget of failures: a process that dies, a database   *)
(* call that raises.  The budget bounds only how many failures one         *)
(* behaviour contains; every module says for itself which of its steps may *)
(* fail and what the code then does.                                       *)
(***************************************************************************)
EXTENDS Naturals

CONSTANT MaxFaults      \* how many failures a behaviour may contain

ASSUME MaxFaultsAssumption == MaxFaults \in Nat

VARIABLE faults         \* the failures so far

FaultsTypeOK == faults \in 0 .. MaxFaults

FaultsInit == faults = 0

\* One more failure, if the budget allows it.
Fault ==
    /\ faults < MaxFaults
    /\ faults' = faults + 1
=============================================================================
