--------------------------- MODULE MCOrphanedIpam ---------------------------
(* The instances of MCGroutCNI with orphaned IPAM children. *)
EXTENDS MCGroutCNI, OrphanedIpam
=============================================================================
