------------------------------ MODULE Training ------------------------------
(***************************************************************************)
(* The two trainers of src/agentenv/training and what is evaluated of      *)
(* them: a positive-SFT LoRA run over a materialized snapshot, a DPO run   *)
(* over another snapshot that starts from the SFT run's adapter, and the   *)
(* admission of an evaluation whose policies carry either adapter.         *)
(*                                                                         *)
(* A run owns a directory for minutes or hours.  Meanwhile its snapshot    *)
(* may be materialized anew in place, its configuration edited, its parent *)
(* run again, and the process may fail at any stage or be killed.          *)
(*                                                                         *)
(* The weights of an adapter are the set of examples it was trained on,    *)
(* its parent's included; the hash of a manifest is its run or generation. *)
(***************************************************************************)
EXTENDS Integers, Sequences

CONSTANTS
    Batches,    \* [kind -> contents a snapshot may have, in training order]
    Steps,      \* values of max_steps
    Target, Tolerance,  \* supervised tokens a run must be exposed to
    Evals,      \* sets of tasks an evaluation may run
    Policies,   \* policies of an evaluation
    MaxGen,     \* [kind -> bound on materializing its snapshot]
    MaxRev,     \* [kind -> bound on revisions of its configuration]
    MaxRuns     \* bound on runs, both kinds together

VARIABLES
    source,     \* the materialized snapshots
    config,     \* the training configuration files
    dir,        \* the run directories
    proc,       \* the training processes
    runs        \* runs started

trainingVars == <<source, config, dir, proc, runs>>

Nothing == [nothing |-> TRUE]
Kinds == {"sft", "dpo"}
Items(k) == UNION {{s[i] : i \in DOMAIN s} : s \in Batches[k]}
AllItems == Items("sft") \cup Items("dpo")

\* The id of an example is a hash of what it was made from, its task included.
ASSUME TrainingAssumption ==
    /\ \A k \in Kinds : \A s \in Batches[k] : s \in Seq(Items(k))
    /\ \A x, y \in AllItems : x.id = y.id => x.task = y.task
    /\ Steps \subseteq Nat \ {0}
    /\ MaxGen \in [Kinds -> Nat] /\ MaxRev \in [Kinds -> Nat] /\ MaxRuns \in Nat

Snapshot(k) == [gen : 1..MaxGen[k], items : Batches[k], authorized : BOOLEAN]
Config(k) == [rev : 0..MaxRev[k], steps : Steps]

NoAdapter == [at |-> "none", run |-> 0, weights |-> {}]
Adapter == [at : {"none", "incomplete", "canonical", "failed"},
            run : 0..MaxRuns, weights : SUBSET AllItems]

Result(k) == [run : 1..MaxRuns, status : {"completed", "failed"},
              selected : Batches[k], requested : Steps, completed : Nat]

\* What a manifest pins: its sources, config and parent by hash, its own
\* result, steps and adapter by their contents.
Manifest(k) == [run : 1..MaxRuns, status : {"completed", "failed"},
                gen : 1..MaxGen[k], items : Batches[k], rev : 0..MaxRev[k],
                parent : 0..MaxRuns, parentFile : 0..MaxRuns,
                result : Result(k), steps : Seq(Items(k)), adapter : Adapter]

Directory(k) == [steps : Seq(Items(k)), adapter : Adapter,
                 result : Result(k) \cup {Nothing}, manifest : Manifest(k) \cup {Nothing}]

EmptyDir == [steps |-> <<>>, adapter |-> NoAdapter,
             result |-> Nothing, manifest |-> Nothing]

Stages == {"idle", "validation", "reference", "policy", "qualification",
           "training", "persistence", "reload", "publish", "result", "manifest"}

Process(k) == [pc : Stages, run : 0..MaxRuns, status : {"completed", "failed"},
               items : Batches[k] \cup {<<>>}, gen : 0..MaxGen[k],
               steps : Steps \cup {0}, parent : Adapter, done : Seq(Items(k))]

Idle == [pc |-> "idle", run |-> 0, status |-> "completed", items |-> <<>>,
         gen |-> 0, steps |-> 0, parent |-> NoAdapter, done |-> <<>>]

-----------------------------------------------------------------------------
(* Data order and exposure                                                 *)

Seen(s) == {s[i] : i \in DOMAIN s}
Ids(s) == {x.id : x \in Seen(s)}

\* Step n trains on the n-th selected item, cyclically.
Scheduled(items, n) == items[((n - 1) % Len(items)) + 1]

Exposure(items, steps) ==
    LET tokens[n \in 0..steps] ==
            IF n = 0 THEN 0 ELSE tokens[n - 1] + Scheduled(items, n).tokens
    IN  tokens[steps]

Exposed(items, steps) ==
    Exposure(items, steps) \in (Target - Tolerance)..(Target + Tolerance)

InOrder(steps, selected) ==
    \A n \in DOMAIN steps : selected # <<>> /\ steps[n] = Scheduled(selected, n)

-----------------------------------------------------------------------------
(* Loading a run directory                                                 *)

\* The hash of a directory does not depend on its name.
SameAdapter(a, b) == a.run = b.run /\ a.weights = b.weights

ResultPinned(k) ==
    LET d == dir[k] IN
    /\ d.manifest # Nothing
    /\ d.result = d.manifest.result /\ d.steps = d.manifest.steps
    /\ d.result.run = d.manifest.run
    /\ Len(d.steps) = d.result.completed
    /\ d.manifest.status = "completed"
          => d.adapter.at = "canonical" /\ SameAdapter(d.adapter, d.manifest.adapter)

SourcePinned(k) ==
    /\ source[k] # Nothing
    /\ source[k].gen = dir[k].manifest.gen
    /\ source[k].items = dir[k].manifest.items

ConfigPinned(k) == config[k].rev = dir[k].manifest.rev

SFTLoads ==
    /\ ResultPinned("sft")
    /\ ConfigPinned("sft")
    /\ config["sft"].steps = dir["sft"].result.requested
    /\ InOrder(dir["sft"].steps, dir["sft"].result.selected)
    /\ SourcePinned("sft")

Completed(k) == dir[k].manifest.status = "completed"

\* Faulty: the parent is identified by the file the manifest pins alone.
ParentPinned_FileOnly ==
    SFTLoads /\ dir["sft"].manifest.run = dir["dpo"].manifest.parentFile

ParentPinned ==
    /\ SFTLoads
    /\ dir["sft"].manifest.run = dir["dpo"].manifest.parentFile
    /\ dir["sft"].manifest.run = dir["dpo"].manifest.parent

DPOLoads ==
    /\ ResultPinned("dpo")
    /\ ConfigPinned("dpo")
    /\ ParentPinned
    /\ SourcePinned("dpo")

\* The tasks of the examples named by ids, as the snapshot now has them.
TasksOf(k, ids) == {x.task : x \in {y \in Seen(source[k].items) : y.id \in ids}}

\* Every id must resolve; a task set is only known when all do.
SFTTasksKnown ==
    SFTLoads /\ Ids(dir["sft"].result.selected) \subseteq Ids(source["sft"].items)
SFTTasks == TasksOf("sft", Ids(dir["sft"].result.selected))

DPOTasksKnown ==
    /\ DPOLoads /\ SFTTasksKnown
    /\ Ids(dir["dpo"].steps) \subseteq Ids(source["dpo"].items)
\* Faulty: the tasks of the parent's run are forgotten.
DPOTasks_OwnOnly == TasksOf("dpo", Ids(dir["dpo"].steps))

DPOTasks == SFTTasks \cup TasksOf("dpo", Ids(dir["dpo"].steps))

-----------------------------------------------------------------------------
(* A process moves on, ends, or fails                                      *)

At(k, pc) == proc[k].pc = pc
Goto(k, pc) == proc' = [proc EXCEPT ![k].pc = pc]
Exit(k) == proc' = [proc EXCEPT ![k] = Idle]
KeepInputs == UNCHANGED <<source, config>>

StartRun == runs < MaxRuns /\ runs' = runs + 1

\* Faulty: the output directory is reused as it is.
StartSFT_KeepsDir ==
    /\ At("sft", "idle") /\ StartRun
    /\ source["sft"] # Nothing /\ source["sft"].authorized
    /\ source["sft"].items # <<>>
    /\ Exposed(source["sft"].items, config["sft"].steps)
    /\ proc' = [proc EXCEPT !["sft"] =
                  [Idle EXCEPT !.pc = "qualification", !.run = runs + 1,
                               !.items = source["sft"].items,
                               !.gen = source["sft"].gen,
                               !.steps = config["sft"].steps]]
    /\ UNCHANGED dir /\ KeepInputs

\* SFT validates its inputs before it takes its directory.
StartSFT ==
    /\ At("sft", "idle") /\ StartRun
    /\ source["sft"] # Nothing /\ source["sft"].authorized
    /\ source["sft"].items # <<>>
    /\ Exposed(source["sft"].items, config["sft"].steps)
    /\ dir' = [dir EXCEPT !["sft"] = EmptyDir]
    /\ proc' = [proc EXCEPT !["sft"] =
                  [Idle EXCEPT !.pc = "qualification", !.run = runs + 1,
                               !.items = source["sft"].items,
                               !.gen = source["sft"].gen,
                               !.steps = config["sft"].steps]]
    /\ KeepInputs

\* DPO empties its directory first, then reads configuration and inputs.
StartDPO ==
    /\ At("dpo", "idle") /\ StartRun
    /\ dir' = [dir EXCEPT !["dpo"] = EmptyDir]
    /\ proc' = [proc EXCEPT !["dpo"] =
                  [Idle EXCEPT !.pc = "validation", !.run = runs + 1,
                               !.steps = config["dpo"].steps]]
    /\ KeepInputs

ValidateDPO ==
    /\ At("dpo", "validation")
    /\ source["dpo"] # Nothing /\ source["dpo"].authorized
    /\ source["dpo"].items # <<>>
    /\ SFTLoads /\ Completed("sft")
    /\ proc' = [proc EXCEPT !["dpo"].pc = "reference",
                            !["dpo"].items = source["dpo"].items,
                            !["dpo"].gen = source["dpo"].gen,
                            !["dpo"].parent = dir["sft"].adapter]
    /\ UNCHANGED <<dir, runs>> /\ KeepInputs

\* The parent's adapter, read from its directory, is the one validated.
ParentUnchanged ==
    /\ dir["sft"].adapter.at = "canonical"
    /\ SameAdapter(dir["sft"].adapter, proc["dpo"].parent)

LoadReference ==
    /\ At("dpo", "reference") /\ ParentUnchanged
    /\ Goto("dpo", "policy")
    /\ UNCHANGED <<dir, runs>> /\ KeepInputs

LoadPolicy ==
    /\ At("dpo", "policy") /\ ParentUnchanged
    /\ Goto("dpo", "training")
    /\ UNCHANGED <<dir, runs>> /\ KeepInputs

Qualify ==
    /\ At("sft", "qualification")
    /\ Goto("sft", "training")
    /\ UNCHANGED <<dir, runs>> /\ KeepInputs

\* SFT appends each step to the file, DPO keeps them until the end.
TrainStep(k) ==
    /\ At(k, "training")
    /\ LET done == Append(proc[k].done,
                          Scheduled(proc[k].items, Len(proc[k].done) + 1))
       IN  /\ proc' = [proc EXCEPT
                         ![k].done = done,
                         ![k].pc = IF Len(done) < proc[k].steps THEN "training"
                                                              ELSE "persistence"]
           /\ dir' = IF k = "sft" THEN [dir EXCEPT ![k].steps = done] ELSE dir
    /\ UNCHANGED runs /\ KeepInputs

Persist(k) ==
    /\ At(k, "persistence")
    /\ dir' = [dir EXCEPT ![k].adapter =
                 [at |-> IF k = "sft" THEN "incomplete" ELSE "canonical",
                  run |-> proc[k].run,
                  weights |-> proc[k].parent.weights \cup Seen(proc[k].done)]]
    /\ Goto(k, "reload")
    /\ UNCHANGED runs /\ KeepInputs

Reload(k) ==
    /\ At(k, "reload")
    /\ Goto(k, IF k = "sft" THEN "publish" ELSE "result")
    /\ UNCHANGED <<dir, runs>> /\ KeepInputs

Publish ==
    /\ At("sft", "publish")
    /\ dir' = [dir EXCEPT !["sft"].adapter.at = "canonical"]
    /\ Goto("sft", "result")
    /\ UNCHANGED runs /\ KeepInputs

\* An exception of a stage; the record of a published SFT run may raise too.
FailSFT ==
    /\ proc["sft"].pc \in {"qualification", "training", "persistence", "reload",
                           "publish", "result"}
    /\ proc["sft"].status = "completed"
    /\ dir' = [dir EXCEPT !["sft"].adapter.at =
                 IF @ = "canonical" THEN "failed" ELSE @]
    /\ proc' = [proc EXCEPT !["sft"].pc = "result", !["sft"].status = "failed"]
    /\ UNCHANGED runs /\ KeepInputs

\* Faulty: the executed examples are recorded as the selected ones.
WriteResult_Executed(k) ==
    /\ At(k, "result")
    /\ dir' = [dir EXCEPT
                 ![k].result = [run |-> proc[k].run, status |-> proc[k].status,
                                selected |-> proc[k].done,
                                requested |-> proc[k].steps,
                                completed |-> Len(proc[k].done)],
                 ![k].steps = proc[k].done]
    /\ Goto(k, "manifest")
    /\ UNCHANGED runs /\ KeepInputs

WriteResult(k) ==
    /\ At(k, "result")
    /\ dir' = [dir EXCEPT
                 ![k].result = [run |-> proc[k].run, status |-> proc[k].status,
                                selected |-> proc[k].items,
                                requested |-> proc[k].steps,
                                completed |-> Len(proc[k].done)],
                 ![k].steps = proc[k].done]
    /\ Goto(k, "manifest")
    /\ UNCHANGED runs /\ KeepInputs

\* The SFT manifest hashes its sources' files as they are now; the DPO
\* manifest takes the JSONL's hash and the parent's run from what it loaded.
PinnedSnapshot(k) ==
    [gen   |-> source[k].gen,
     items |-> IF k = "sft" THEN source[k].items ELSE proc[k].items]

PinnedParent(k) ==
    IF k = "sft" THEN [run |-> 0, file |-> 0]
    ELSE [run |-> proc[k].parent.run, file |-> dir["sft"].manifest.run]

WriteManifest(k) ==
    /\ At(k, "manifest")
    /\ source[k] # Nothing
    /\ k = "dpo" => dir["sft"].manifest # Nothing
    /\ dir' = [dir EXCEPT ![k].manifest =
                 [run |-> proc[k].run, status |-> proc[k].status,
                  gen |-> PinnedSnapshot(k).gen, items |-> PinnedSnapshot(k).items,
                  rev |-> config[k].rev,
                  parent |-> PinnedParent(k).run,
                  parentFile |-> PinnedParent(k).file,
                  result |-> dir[k].result, steps |-> dir[k].steps,
                  adapter |-> IF proc[k].status = "completed" THEN dir[k].adapter
                                                            ELSE NoAdapter]]
    /\ Exit(k)
    /\ UNCHANGED runs /\ KeepInputs

\* Any exception of DPO, one of SFT outside the stages, and a kill: the
\* directory stays as it is.
Die(k) ==
    /\ ~At(k, "idle")
    /\ Exit(k)
    /\ UNCHANGED <<dir, runs>> /\ KeepInputs

-----------------------------------------------------------------------------
(* Around the runs                                                         *)

Gen(k) == IF source[k] = Nothing THEN 0 ELSE source[k].gen

Rematerialize(k, items, authorized) ==
    /\ Gen(k) < MaxGen[k]
    /\ source' = [source EXCEPT ![k] = [gen |-> Gen(k) + 1, items |-> items,
                                        authorized |-> authorized]]
    /\ UNCHANGED <<config, dir, proc, runs>>

EditConfig(k, steps) ==
    /\ config[k].rev < MaxRev[k]
    /\ config' = [config EXCEPT ![k] = [rev |-> @.rev + 1, steps |-> steps]]
    /\ UNCHANGED <<source, dir, proc, runs>>

TasksKnown(k) == IF k = "sft" THEN SFTTasksKnown ELSE DPOTasksKnown
TrainingTasks(k) == IF k = "sft" THEN SFTTasks ELSE DPOTasks

\* The run whose adapter a policy's model carries; the base model has none.
AdapterOf == [Policies -> Kinds \cup {"none"}]
Adapted(adapter) == {p \in Policies : adapter[p] \in Kinds}

\* adapter_training_task_scope; a configuration may leave it out.
DeclaredScopes == {"disjoint", "matched_and_disjoint"}

\* Each policy's adapter counts, the same adapter twice included.
Disjoint(tasks, adapter) ==
    /\ Adapted(adapter) # {}
    /\ \A p \in Adapted(adapter) : TasksKnown(adapter[p]) /\ Completed(adapter[p])
    /\ \A p \in Adapted(adapter) : tasks \cap TrainingTasks(adapter[p]) = {}

Matched(adapter) ==
    /\ \E p, q \in Adapted(adapter) : p # q
    /\ \A p, q \in Adapted(adapter) :
          TrainingTasks(adapter[p]) = TrainingTasks(adapter[q])

\* validate_eval_config_paths: without a scope no adapter's tasks are read.
Admitted(tasks, adapter, scope) ==
    /\ scope \in DeclaredScopes => Disjoint(tasks, adapter)
    /\ scope = "matched_and_disjoint" => Matched(adapter)

-----------------------------------------------------------------------------
Init ==
    /\ source = [k \in Kinds |-> Nothing]
    /\ \E steps \in Steps : config = [k \in Kinds |-> [rev |-> 0, steps |-> steps]]
    /\ dir = [k \in Kinds |-> EmptyDir]
    /\ proc = [k \in Kinds |-> Idle]
    /\ runs = 0

SFTRun == StartSFT \/ Qualify \/ Publish \/ FailSFT
DPORun == StartDPO \/ ValidateDPO \/ LoadReference \/ LoadPolicy

AnyRun(k) ==
    \/ TrainStep(k)
    \/ Persist(k)
    \/ Reload(k)
    \/ WriteResult(k)
    \/ WriteManifest(k)
    \/ Die(k)

Operator ==
    \/ \E k \in Kinds : \E items \in Batches[k], a \in BOOLEAN :
          Rematerialize(k, items, a)
    \/ \E k \in Kinds, steps \in Steps : EditConfig(k, steps)

Next == SFTRun \/ DPORun \/ (\E k \in Kinds : AnyRun(k)) \/ Operator

Spec == Init /\ [][Next]_trainingVars

-----------------------------------------------------------------------------
(* Properties *)

TypeOK ==
    /\ DOMAIN source = Kinds /\ DOMAIN config = Kinds
    /\ DOMAIN dir = Kinds /\ DOMAIN proc = Kinds
    /\ \A k \in Kinds :
          /\ source[k] \in Snapshot(k) \cup {Nothing}
          /\ config[k] \in Config(k)
          /\ dir[k] \in Directory(k)
          /\ proc[k] \in Process(k)
    /\ runs \in 0..MaxRuns

\* A manifest is the last thing a run writes: with it the directory holds the
\* whole run and no process writes there, a completed run has its adapter in
\* the canonical place after every requested step, and the weights are those
\* of the steps; a failed run has none there (training/README.md).
ManifestIsWhole ==
    \A k \in Kinds : LET d == dir[k] IN d.manifest # Nothing =>
        /\ At(k, "idle")
        /\ d.result = d.manifest.result /\ d.steps = d.manifest.steps
        /\ InOrder(d.steps, d.result.selected)
        /\ d.manifest.status = "completed" <=> d.adapter.at = "canonical"
        /\ d.manifest.status = "completed" =>
              /\ d.adapter = d.manifest.adapter
              /\ Len(d.steps) = d.result.requested
              /\ k = "sft" => d.adapter.weights = Seen(d.steps)

\* A DPO run that loads continues the very adapter its parent directory holds,
\* whatever was run again there meanwhile.
LineageIsExact ==
    DPOLoads => dir["dpo"].adapter.weights
                    = dir["sft"].adapter.weights \cup Seen(dir["dpo"].steps)

\* No evaluation that declares an adapter_training_task_scope and is admitted
\* runs a task one of its adapters was trained on, in its own run or its
\* parent's.  Of one that declares none the code promises nothing.
HeldOut ==
    \A tasks \in Evals, adapter \in AdapterOf, scope \in DeclaredScopes :
        Admitted(tasks, adapter, scope)
            => \A p \in Adapted(adapter) : \A x \in dir[adapter[p]].adapter.weights :
                  x.task \notin tasks

\* "The run pins every exact materialization manifest and token file"
\* (training/README.md): the examples a completed SFT run that loads was trained on
\* are examples of the snapshot its manifest pins.
PinsWhatItTrainedOn ==
    SFTLoads /\ Completed("sft") =>
        Seen(dir["sft"].result.selected) \subseteq Seen(dir["sft"].manifest.items)
=============================================================================
