-------------------------- MODULE MC_DeliveryPackage --------------------------
(* Instances of DeliveryPackage for TLC.                                   *)
EXTENDS DeliveryPackageProperties, TLC

\* requests and packages are interchangeable
Symmetry == Permutations(Requests) \cup Permutations(Packages)
=============================================================================
