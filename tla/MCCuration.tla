----------------------------- MODULE MCCuration -----------------------------
(***************************************************************************)
(* Curation of two trajectories.  In the first export one needs human      *)
(* clearance and the other has a redundant turn; a re-run of the           *)
(* evaluation yields other evidence.                                       *)
(***************************************************************************)
EXTENDS Curation, TLC

Fine == [trainable |-> TRUE, finding |-> "none", redundancy |-> "clean"]
Suspect == [Fine EXCEPT !.finding = "ambiguous"]
Redundant == [Fine EXCEPT !.redundancy = "blocks"]
Stuck == [Fine EXCEPT !.redundancy = "stuck"]
Leaky == [Fine EXCEPT !.trainable = FALSE]

Reruns == {"t1" :> Suspect @@ "t2" :> Redundant,
           "t1" :> Leaky @@ "t2" :> Stuck}

Seen == {[decision |-> "accepted", hack |-> "cleared"],
         [decision |-> "rejected", hack |-> "confirmed"]}

Prefixes == {[decision |-> "accepted", boundary |-> 3, efficiency |-> "accepted"],
             [decision |-> "accepted", boundary |-> 1, efficiency |-> "rejected"],
             [decision |-> "rejected", boundary |-> 0, efficiency |-> "none"]}
=============================================================================
