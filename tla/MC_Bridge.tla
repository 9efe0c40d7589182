------------------------------ MODULE MC_Bridge ------------------------------
(* Model-checking instance of Bridge: heap addresses given by the cfg (four *)
(* in every run) and the host's calling contract given by the run.        *)
EXTENDS Bridge, TLC

\* The host obeys every rule.
MCContractFull == Rules

\* The host never clears the `connection` field after doDisconnect.
MCContractKeepField == Rules \ {"ClearOnDisconnect"}

\* The host may disconnect while it still holds VMs or blobs.
MCContractAnyOrder == Rules \ {"ChildrenFirst"}

\* Addresses are interchangeable model values.
MCSymmetry == Permutations(Addr)

=============================================================================
