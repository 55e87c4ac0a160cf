-------------------------- MODULE MCNetlinkClient --------------------------
(***************************************************************************)
(* Instances of NetlinkClient for TLC.                                     *)
(***************************************************************************)
EXTENDS NetlinkClient, TLC

\* Callers behave alike and so do devices; descriptors are ordered and do not.
Symmetric == Permutations(Callers) \cup Permutations(Devices)
=============================================================================
