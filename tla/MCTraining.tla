----------------------------- MODULE MCTraining -----------------------------
(***************************************************************************)
(* Runs over snapshots of up to two examples.  Example "b" is tokenized in *)
(* two ways, and "c" belongs to another task.                              *)
(***************************************************************************)
EXTENDS Training

A == [id |-> "a", task |-> "t1", tokens |-> 2]
B == [id |-> "b", task |-> "t1", tokens |-> 1]
LongB == [B EXCEPT !.tokens = 2]
C == [id |-> "c", task |-> "t2", tokens |-> 1]
P == [id |-> "p", task |-> "t3", tokens |-> 1]

Snapshots == [sft |-> {<<A, B>>, <<C>>}, dpo |-> {<<P>>}]
Retokenized == [Snapshots EXCEPT !.sft = @ \cup {<<A, LongB>>}]
Generations == [sft |-> 2, dpo |-> 2]
Revisions == [sft |-> 1, dpo |-> 0]
TaskSets == {{"t1"}, {"t2"}, {"t3"}}
=============================================================================
