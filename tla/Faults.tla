--------------------------------- MODULE Faults ---------------------------------
(***************************************************************************)
(* The faults of an environment.  Which kinds there are, each module says  *)
(* where its actions take one; which of them may happen, and how many in   *)
(* all, an instance of it chooses.                                         *)
(***************************************************************************)
EXTENDS Naturals

CONSTANTS
  FaultKinds,   (* the kinds of fault that may happen                      *)
  MaxFaults     (* bound: how many faults happen in all                    *)

ASSUME FaultAssumption == MaxFaults \in Nat

VARIABLE faults (* faults so far                                           *)

(* One fault of a kind happens.                                            *)
Fault(kind) == kind \in FaultKinds /\ faults < MaxFaults /\ faults' = faults + 1

=============================================================================
