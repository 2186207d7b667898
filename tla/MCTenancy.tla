------------------------------ MODULE MCTenancy ------------------------------
(* Tenancy on a small instance.                                            *)
EXTENDS Tenancy
=============================================================================
