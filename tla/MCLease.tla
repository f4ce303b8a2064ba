------------------------------ MODULE MCLease ------------------------------
(* Lease on a small instance: two rows, so that one clock step can end two *)
(* leases at once, and enough fences and time for a claimant to stall, be  *)
(* overtaken and come back.                                                *)
EXTENDS Lease, TLC

Symmetry == Permutations(Gateways) \cup Permutations(Workflows)

=============================================================================
