---------------------------- MODULE MCPreferences ----------------------------
(***************************************************************************)
(* Two rollouts of one task begin alike and part at the second turn; a     *)
(* third, which is not trusted, parts at the first.                        *)
(***************************************************************************)
EXTENDS Preferences, TLC

Turn(a, r) == [action |-> a, result |-> r]

Tasks == [r \in {"r1", "r2", "r3"} |-> "t1"]
Transcripts == "r1" :> <<Turn("look", "ok"), Turn("fix", "ok")>>
            @@ "r2" :> <<Turn("look", "ok"), Turn("stop", "ok")>>
            @@ "r3" :> <<Turn("guess", "ok")>>
=============================================================================
