------------------------------ MODULE VendorSsoMC ------------------------------
(* One vendor, one employee of its domain, and an administrator of         *)
(* Masterclass; nobody administers the LMS.                                *)
EXTENDS VendorSso, TLC

CONSTANTS a1, e1, vd

ProductsMC == {"masterclass", "lms"}
RowsMC == {AdminRow(a1, "masterclass"), AdminRow(a1, "lms"), VendorRow(e1)}
SeedsMC == {AdminRow(a1, "masterclass")}
DomainMC == [x \in {e1, vd} |-> "vendor.example"]

Symmetry ==
  Permutations(Requests) \cup Permutations(Providers) \cup Permutations(Logins)
=============================================================================
