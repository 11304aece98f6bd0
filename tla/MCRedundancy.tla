---------------------------- MODULE MCRedundancy ----------------------------
(***************************************************************************)
(* Transcripts of a task with a module and a cache file, and two public     *)
(* checks that may rewrite the module.                                       *)
(***************************************************************************)
EXTENDS Redundancy

AsItIs == [t \in Text |-> t]
Replaced == [c \in Content |-> [t \in Content |-> IF t = Absent THEN Refused ELSE t]]
SeedWithoutCache == {[f \in File |-> IF f \in CacheFile THEN Absent ELSE "old"]}
=============================================================================
