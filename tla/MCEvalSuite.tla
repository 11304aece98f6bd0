---------------------------- MODULE MCEvalSuite ----------------------------
(***************************************************************************)
(* EvalSuite with a scripted control policy, which is replayed, and a      *)
(* model policy, which is not.  A scorer policy takes the same steps as a  *)
(* scripted one.                                                           *)
(***************************************************************************)
EXTENDS EvalSuite

ControlThenModel == <<"control", "model">>
ModelThenScorer == <<"model", "scorer">>
ModelOnly == <<"model">>
OnlyFirst == {1}
=============================================================================
