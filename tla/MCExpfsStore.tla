---------------------------- MODULE MCExpfsStore ----------------------------
(* Instances of ExpfsStore with snapshots of different lengths.                *)
EXTENDS ExpfsStore, TLC

CONSTANTS small, big

MCSnapshots == {small, big}
MCSectorsOf == (small :> 2) @@ (big :> 3)
MCOneSnapshot == {big}
MCOneSectorsOf == [s \in MCOneSnapshot |-> 2]
MCLegacySectorsOf == (small :> 1) @@ (big :> 4)
=============================================================================
