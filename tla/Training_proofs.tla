--------------------------- MODULE Training_proofs ---------------------------
(***************************************************************************)
(* What the runs of both trainers leave behind, for any snapshots, any     *)
(* numbers of steps, runs, revisions and materializations.                 *)
(***************************************************************************)
EXTENDS Training, TLAPS

-----------------------------------------------------------------------------
(* Lemmas about the schedule                                               *)

LEMMA Remainder ==
    ASSUME NEW n \in Nat, NEW m \in Nat \ {0}
    PROVE  (n % m) \in 0..(m - 1)
OBVIOUS

LEMMA ScheduledIsSeen ==
    ASSUME NEW k \in Kinds, NEW items \in Batches[k], items # <<>>, NEW n \in Nat \ {0}
    PROVE  Scheduled(items, n) \in Seen(items) /\ Scheduled(items, n) \in Items(k)
<1>1. items \in Seq(Items(k)) /\ Len(items) \in Nat \ {0}
  BY TrainingAssumption
<1>2. (n - 1) \in Nat
  OBVIOUS
<1>3. ((n - 1) % Len(items)) + 1 \in DOMAIN items
  BY <1>1, <1>2, Remainder
<1> QED  BY <1>1, <1>3 DEF Scheduled, Seen

\* A step appended on schedule keeps the order.
LEMMA AppendInOrder ==
    ASSUME NEW k \in Kinds, NEW items \in Batches[k], items # <<>>,
           NEW done \in Seq(Items(k)), InOrder(done, items)
    PROVE  LET more == Append(done, Scheduled(items, Len(done) + 1))
           IN  /\ more \in Seq(Items(k)) /\ Len(more) = Len(done) + 1
               /\ InOrder(more, items)
<1> DEFINE next == Scheduled(items, Len(done) + 1)
<1>1. Len(done) \in Nat /\ next \in Items(k)
  BY ScheduledIsSeen
<1>2. \A n \in DOMAIN done : done[n] = Scheduled(items, n)
  BY DEF InOrder
<1>3. \A n \in 1..(Len(done) + 1) :
          Append(done, next)[n] = IF n = Len(done) + 1 THEN next ELSE done[n]
  BY <1>1
<1>4. Append(done, next) \in Seq(Items(k)) /\ Len(Append(done, next)) = Len(done) + 1
      /\ DOMAIN Append(done, next) = 1..(Len(done) + 1)
  BY <1>1
<1>5. \A n \in DOMAIN Append(done, next) : Append(done, next)[n] = Scheduled(items, n)
  BY <1>1, <1>2, <1>3, <1>4
<1> QED  BY <1>4, <1>5 DEF InOrder

\* Steps in the order of a selection are of the selection.
LEMMA InOrderIsSeen ==
    ASSUME NEW k \in Kinds, NEW items \in Batches[k], NEW done \in Seq(Items(k)),
           InOrder(done, items)
    PROVE  Seen(done) \subseteq Seen(items)
<1> SUFFICES ASSUME NEW n \in DOMAIN done
             PROVE  done[n] \in Seen(items)
  BY DEF Seen
<1>1. n \in Nat \ {0} /\ items # <<>> /\ done[n] = Scheduled(items, n)
  BY DEF InOrder
<1> QED  BY <1>1, ScheduledIsSeen

-----------------------------------------------------------------------------
(* The inductive invariant: a run and its directory                        *)

\* Before its adapter is saved a run has none; a saved adapter holds the weights
\* of the steps, and it is in its place exactly when the run is a success.
AdapterTrue(k, d, p) ==
    /\ d.adapter.at = "none" => d.adapter = NoAdapter
    /\ d.adapter.at # "none" =>
          d.adapter.run = p.run /\ d.adapter.weights = p.parent.weights \cup Seen(p.done)
    /\ p.pc \in {"validation", "reference", "policy", "qualification", "training",
                 "persistence"} => d.adapter.at = "none"
    /\ p.pc \in {"reload", "publish"} =>
          d.adapter.at = IF k = "sft" THEN "incomplete" ELSE "canonical"
    /\ p.pc \in {"result", "manifest"} =>
          (p.status = "completed" <=> d.adapter.at = "canonical")

RunTrue(k, d, p) ==
    /\ p.pc # "validation" => InOrder(p.done, p.items) /\ p.items # <<>> /\ p.gen # 0
    /\ k = "sft" => p.parent = NoAdapter /\ p.pc # "validation"
    /\ k = "dpo" => p.status = "completed" /\ p.pc # "publish"
    /\ p.pc \notin {"result", "manifest"} => p.status = "completed"
    /\ p.pc \in {"validation", "reference", "policy", "qualification"} => p.done = <<>>
    /\ p.pc = "training" => Len(p.done) < p.steps
    /\ p.pc \in {"persistence", "reload", "publish", "result", "manifest"}
          /\ p.status = "completed" => Len(p.done) = p.steps
    /\ AdapterTrue(k, d, p)
    /\ p.run # 0 /\ p.steps \in Steps
    /\ p.pc = "manifest" =>
          /\ d.steps = p.done
          /\ d.result = [run |-> p.run, status |-> p.status, selected |-> p.items,
                         requested |-> p.steps, completed |-> Len(p.done)]

ManifestTrue(k, d) ==
    /\ d.result = d.manifest.result /\ d.steps = d.manifest.steps
    /\ InOrder(d.steps, d.result.selected)
    /\ d.manifest.status = "completed" <=> d.adapter.at = "canonical"
    /\ d.manifest.status = "completed" =>
          /\ d.adapter = d.manifest.adapter
          /\ Len(d.steps) = d.result.requested
          /\ d.adapter.run = d.manifest.run
          /\ k = "sft" => d.adapter.weights = Seen(d.steps)
    /\ k = "sft" => d.adapter.weights \subseteq Seen(d.steps)

DirTrue(k, d, p) ==
    /\ p.pc = "idle" => p = Idle
    /\ p.pc # "idle" => RunTrue(k, d, p) /\ d.manifest = Nothing
    /\ d.manifest # Nothing => ManifestTrue(k, d)

DirsTrue == \A k \in Kinds : DirTrue(k, dir[k], proc[k])

\* A step of a run of one kind.
LEMMA StepOfKind ==
    ASSUME TypeOK, DirsTrue, NEW k \in Kinds, NEW d \in Directory(k), NEW p \in Process(k),
           DirTrue(k, d, p), DOMAIN dir' = Kinds, DOMAIN proc' = Kinds,
           dir'[k] = d, proc'[k] = p,
           \A j \in Kinds \ {k} : dir'[j] = dir[j] /\ proc'[j] = proc[j],
           KeepInputs, runs' \in 0..MaxRuns
    PROVE  TypeOK' /\ DirsTrue'
<1>1. \A j \in Kinds : dir'[j] \in Directory(j) /\ proc'[j] \in Process(j)
                       /\ DirTrue(j, dir'[j], proc'[j])
  BY DEF TypeOK, DirsTrue
<1> QED  BY <1>1 DEF TypeOK, DirsTrue, KeepInputs

LEMMA TypesOfKind ==
    ASSUME TypeOK, NEW k \in Kinds
    PROVE  dir[k] \in Directory(k) /\ proc[k] \in Process(k) /\ runs \in 0..MaxRuns
BY DEF TypeOK

LEMMA IdleType ==
    ASSUME NEW k \in Kinds
    PROVE  Idle \in Process(k) /\ NoAdapter \in Adapter
<1>1. <<>> \in Seq(Items(k))
  OBVIOUS
<1> QED
  BY <1>1, TrainingAssumption DEF Idle, Process, NoAdapter, Adapter, Stages

\* A process that ends leaves its directory as it is, or with a manifest that
\* tells what is there.
LEMMA DieStep ==
    ASSUME TypeOK, DirsTrue, NEW k \in Kinds, Die(k)
    PROVE  TypeOK' /\ DirsTrue'
<1>1. DirTrue(k, dir[k], Idle)
  BY DEF DirsTrue, DirTrue, Idle, Die, At
<1>2. /\ DOMAIN dir' = Kinds /\ DOMAIN proc' = Kinds
      /\ dir'[k] = dir[k] /\ proc'[k] = Idle
      /\ \A j \in Kinds \ {k} : dir'[j] = dir[j] /\ proc'[j] = proc[j]
      /\ KeepInputs /\ runs' \in 0..MaxRuns
  BY DEF TypeOK, Die, Exit
<1>3. dir[k] \in Directory(k) /\ Idle \in Process(k)
  BY TypesOfKind, IdleType
<1> QED  BY <1>1, <1>2, <1>3, StepOfKind

\* A run that goes on, its directory as it is.
LEMMA Moved ==
    ASSUME TypeOK, NEW k \in Kinds, NEW pc \in Stages, Goto(k, pc)
    PROVE  LET p == [proc[k] EXCEPT !.pc = pc]
           IN  /\ p \in Process(k)
               /\ DOMAIN proc' = Kinds /\ proc'[k] = p
               /\ \A j \in Kinds \ {k} : proc'[j] = proc[j]
<1>1. proc[k] \in Process(k)
  BY TypesOfKind
<1>2. [proc[k] EXCEPT !.pc = pc] \in Process(k)
  BY <1>1 DEF Process
<1>3. /\ DOMAIN proc' = Kinds /\ proc'[k] = [proc[k] EXCEPT !.pc = pc]
      /\ \A j \in Kinds \ {k} : proc'[j] = proc[j]
  BY DEF Goto, TypeOK
<1> QED  BY <1>2, <1>3

LEMMA GoOn ==
    ASSUME TypeOK, DirsTrue, NEW k \in Kinds, NEW pc \in Stages \ {"idle"}, Goto(k, pc),
           ~At(k, "idle"), RunTrue(k, dir[k], [proc[k] EXCEPT !.pc = pc]),
           UNCHANGED <<dir, runs>>, KeepInputs
    PROVE  TypeOK' /\ DirsTrue'
<1> DEFINE p == [proc[k] EXCEPT !.pc = pc]
<1>1. /\ p \in Process(k)
      /\ DOMAIN proc' = Kinds /\ proc'[k] = p
      /\ \A j \in Kinds \ {k} : proc'[j] = proc[j]
  BY Moved
<1>2. p.pc = pc
  BY TypesOfKind DEF Process
<1>3. DirTrue(k, dir[k], p)
  BY <1>2 DEF DirsTrue, DirTrue, At
<1>4. dir[k] \in Directory(k) /\ DOMAIN dir' = Kinds /\ runs' \in 0..MaxRuns
      /\ \A j \in Kinds : dir'[j] = dir[j]
  BY DEF TypeOK
<1> QED  BY <1>1, <1>3, <1>4, StepOfKind

LEMMA MoveStep ==
    ASSUME TypeOK, DirsTrue,
           LoadReference \/ LoadPolicy \/ Qualify \/ (\E k \in Kinds : Reload(k))
    PROVE  TypeOK' /\ DirsTrue'
<1> DEFINE Allowed(k, pc) ==
        \/ k = "dpo" /\ At(k, "reference") /\ pc = "policy"
        \/ k = "dpo" /\ At(k, "policy") /\ pc = "training"
        \/ k = "sft" /\ At(k, "qualification") /\ pc = "training"
        \/ k = "sft" /\ At(k, "reload") /\ pc = "publish"
        \/ k = "dpo" /\ At(k, "reload") /\ pc = "result"
<1>1. \E k \in Kinds, pc \in Stages \ {"idle"} :
         Allowed(k, pc) /\ Goto(k, pc) /\ UNCHANGED <<dir, runs>> /\ KeepInputs
  BY DEF LoadReference, LoadPolicy, Qualify, Reload, Kinds, Stages
<1>2. PICK k \in Kinds, pc \in Stages \ {"idle"} :
         Allowed(k, pc) /\ Goto(k, pc) /\ UNCHANGED <<dir, runs>> /\ KeepInputs
  BY <1>1
<1> DEFINE p == [proc[k] EXCEPT !.pc = pc]
<1>3. /\ p.pc = pc /\ p.run = proc[k].run /\ p.status = proc[k].status
      /\ p.items = proc[k].items /\ p.gen = proc[k].gen /\ p.steps = proc[k].steps
      /\ p.parent = proc[k].parent /\ p.done = proc[k].done
  BY TypesOfKind DEF Process
<1>4. RunTrue(k, dir[k], proc[k]) /\ proc[k] \in Process(k)
  BY <1>2, TypesOfKind DEF DirsTrue, DirTrue, At
<1>5. Steps \subseteq Nat \ {0}
  BY TrainingAssumption
<1>6. AdapterTrue(k, dir[k], p)
  BY <1>2, <1>3, <1>4 DEF RunTrue, AdapterTrue, At
<1>7. At(k, "policy") \/ At(k, "qualification") => Len(p.done) < p.steps
  BY <1>3, <1>4, <1>5 DEF RunTrue, Process, At
<1>8. RunTrue(k, dir[k], p)
  <2> HIDE DEF p
  <2> QED  BY <1>2, <1>3, <1>4, <1>6, <1>7 DEF RunTrue, At
<1>9. ~At(k, "idle")
  BY <1>2 DEF At
<1> QED  BY <1>2, <1>8, <1>9, GoOn

LEMMA TrainStepStep ==
    ASSUME TypeOK, DirsTrue, NEW k \in Kinds, TrainStep(k)
    PROVE  TypeOK' /\ DirsTrue'
<1> DEFINE done == Append(proc[k].done, Scheduled(proc[k].items, Len(proc[k].done) + 1))
           pc == IF Len(done) < proc[k].steps THEN "training" ELSE "persistence"
           p == [proc[k] EXCEPT !.done = done, !.pc = pc]
           d == IF k = "sft" THEN [dir[k] EXCEPT !.steps = done] ELSE dir[k]
<1>1. /\ proc[k] \in Process(k) /\ dir[k] \in Directory(k)
      /\ RunTrue(k, dir[k], proc[k]) /\ dir[k].manifest = Nothing
  BY TypesOfKind DEF DirsTrue, DirTrue, TrainStep, At
<1>2. /\ proc[k].pc = "training" /\ proc[k].items # <<>> /\ proc[k].items \in Batches[k]
      /\ InOrder(proc[k].done, proc[k].items) /\ proc[k].done \in Seq(Items(k))
  BY <1>1 DEF RunTrue, Process, TrainStep, At
<1>3. /\ done \in Seq(Items(k)) /\ Len(done) = Len(proc[k].done) + 1
      /\ InOrder(done, proc[k].items)
  BY <1>2, AppendInOrder
<1>4. /\ DOMAIN dir' = Kinds /\ DOMAIN proc' = Kinds /\ proc'[k] = p /\ dir'[k] = d
      /\ \A j \in Kinds \ {k} : dir'[j] = dir[j] /\ proc'[j] = proc[j]
      /\ KeepInputs /\ runs' \in 0..MaxRuns
  BY DEF TypeOK, TrainStep
<1> HIDE DEF done
<1>5. p \in Process(k) /\ d \in Directory(k)
  BY <1>1, <1>3 DEF Process, Directory, Stages
<1>6. /\ p.pc = pc /\ p.done = done /\ p.run = proc[k].run /\ p.status = proc[k].status
      /\ p.items = proc[k].items /\ p.gen = proc[k].gen /\ p.steps = proc[k].steps
      /\ p.parent = proc[k].parent
      /\ d.adapter = dir[k].adapter /\ d.manifest = Nothing
  BY <1>1 DEF Process, Directory
<1>7. dir[k].adapter.at = "none" /\ dir[k].adapter = NoAdapter
  BY <1>1, <1>2 DEF RunTrue, AdapterTrue
<1>8. AdapterTrue(k, d, p)
  BY <1>6, <1>7 DEF AdapterTrue, NoAdapter
<1>9. /\ Len(done) \in Nat /\ Len(proc[k].done) < proc[k].steps /\ proc[k].steps \in Nat
      /\ Len(proc[k].done) \in Nat
  BY <1>1, <1>2, <1>3, TrainingAssumption DEF RunTrue
<1>10. pc = "persistence" => Len(done) = proc[k].steps
  BY <1>3, <1>9
<1>11. pc = "training" => Len(done) < proc[k].steps
  OBVIOUS
<1>12. pc \in {"training", "persistence"}
  OBVIOUS
<1> HIDE DEF pc, p, d
<1>13. RunTrue(k, d, p)
  BY <1>1, <1>2, <1>3, <1>6, <1>8, <1>10, <1>11, <1>12 DEF RunTrue
<1>14. DirTrue(k, d, p)
  BY <1>6, <1>12, <1>13 DEF DirTrue
<1> QED  BY <1>4, <1>5, <1>14, StepOfKind

LEMMA PersistStep ==
    ASSUME TypeOK, DirsTrue, NEW k \in Kinds, Persist(k)
    PROVE  TypeOK' /\ DirsTrue'
<1> DEFINE at == IF k = "sft" THEN "incomplete" ELSE "canonical"
           weights == proc[k].parent.weights \cup Seen(proc[k].done)
           saved == [at |-> at, run |-> proc[k].run, weights |-> weights]
           p == [proc[k] EXCEPT !.pc = "reload"]
           d == [dir[k] EXCEPT !.adapter = saved]
<1>1. /\ proc[k] \in Process(k) /\ dir[k] \in Directory(k)
      /\ RunTrue(k, dir[k], proc[k]) /\ dir[k].manifest = Nothing
      /\ proc[k].pc = "persistence"
  BY TypesOfKind DEF DirsTrue, DirTrue, Persist, At
<1>2. Goto(k, "reload") /\ "reload" \in Stages
  BY DEF Persist, Stages
<1>3. /\ DOMAIN proc' = Kinds /\ proc'[k] = p /\ p \in Process(k)
      /\ \A j \in Kinds \ {k} : proc'[j] = proc[j]
  BY <1>2, Moved
<1>4. /\ DOMAIN dir' = Kinds /\ dir'[k] = d
      /\ \A j \in Kinds \ {k} : dir'[j] = dir[j]
      /\ KeepInputs /\ runs' \in 0..MaxRuns
  BY DEF TypeOK, Persist
<1>5. weights \in SUBSET AllItems /\ proc[k].run \in 0..MaxRuns
  <2>1. Items(k) \subseteq AllItems
    BY DEF Kinds, AllItems
  <2>2. /\ proc[k].done \in Seq(Items(k)) /\ proc[k].parent.weights \in SUBSET AllItems
        /\ proc[k].run \in 0..MaxRuns
    BY <1>1 DEF Process, Adapter
  <2> QED  BY <2>1, <2>2 DEF Seen
<1> HIDE DEF weights
<1>6. saved \in Adapter
  BY <1>5 DEF Adapter
<1>7. /\ saved.at = at /\ saved.run = proc[k].run /\ saved.weights = weights
      /\ p.pc = "reload" /\ p.done = proc[k].done /\ p.run = proc[k].run
      /\ p.status = proc[k].status
      /\ p.items = proc[k].items /\ p.gen = proc[k].gen /\ p.steps = proc[k].steps
      /\ p.parent = proc[k].parent
      /\ d.adapter = saved /\ d.manifest = Nothing
  BY <1>1 DEF Process, Directory
<1> HIDE DEF saved
<1>8. d \in Directory(k)
  BY <1>1, <1>6 DEF Directory
<1> HIDE DEF p, d
<1>9. AdapterTrue(k, d, p)
  BY <1>7 DEF AdapterTrue, weights
<1>10. RunTrue(k, d, p)
  BY <1>1, <1>7, <1>9 DEF RunTrue
<1>11. DirTrue(k, d, p)
  BY <1>7, <1>10 DEF DirTrue
<1> QED  BY <1>3, <1>4, <1>8, <1>11, StepOfKind

LEMMA PublishStep ==
    ASSUME TypeOK, DirsTrue, Publish
    PROVE  TypeOK' /\ DirsTrue'
<1> DEFINE k == "sft"
           p == [proc[k] EXCEPT !.pc = "result"]
           a == [dir[k].adapter EXCEPT !.at = "canonical"]
           d == [dir[k] EXCEPT !.adapter = a]
<1>1. /\ k \in Kinds /\ proc[k] \in Process(k) /\ dir[k] \in Directory(k)
      /\ RunTrue(k, dir[k], proc[k]) /\ dir[k].manifest = Nothing
      /\ proc[k].pc = "publish"
  BY TypesOfKind DEF DirsTrue, DirTrue, Publish, At, Kinds
<1>2. Goto(k, "result") /\ "result" \in Stages
  BY DEF Publish, Stages
<1>3. /\ DOMAIN proc' = Kinds /\ proc'[k] = p /\ p \in Process(k)
      /\ \A j \in Kinds \ {k} : proc'[j] = proc[j]
  BY <1>1, <1>2, Moved
<1>4. /\ DOMAIN dir' = Kinds /\ dir'[k] = d
      /\ \A j \in Kinds \ {k} : dir'[j] = dir[j]
      /\ KeepInputs /\ runs' \in 0..MaxRuns
  BY <1>1 DEF TypeOK, Publish
<1>5. /\ a \in Adapter /\ a.at = "canonical" /\ a.run = dir[k].adapter.run
      /\ a.weights = dir[k].adapter.weights
  BY <1>1 DEF Adapter, Directory
<1> HIDE DEF a
<1>6. /\ p.pc = "result" /\ p.done = proc[k].done /\ p.run = proc[k].run
      /\ p.status = proc[k].status
      /\ p.items = proc[k].items /\ p.gen = proc[k].gen /\ p.steps = proc[k].steps
      /\ p.parent = proc[k].parent
      /\ d.adapter = a /\ d.manifest = Nothing /\ d \in Directory(k)
  BY <1>1, <1>5 DEF Process, Directory
<1> HIDE DEF p, d
<1>7. proc[k].status = "completed" /\ dir[k].adapter.at = "incomplete"
  BY <1>1 DEF RunTrue, AdapterTrue
<1>8. AdapterTrue(k, d, p)
  BY <1>1, <1>5, <1>6, <1>7 DEF RunTrue, AdapterTrue
<1>9. RunTrue(k, d, p)
  BY <1>1, <1>6, <1>8 DEF RunTrue
<1>10. DirTrue(k, d, p)
  BY <1>6, <1>9 DEF DirTrue
<1> QED  BY <1>1, <1>3, <1>4, <1>6, <1>10, StepOfKind

LEMMA FailSFTStep ==
    ASSUME TypeOK, DirsTrue, FailSFT
    PROVE  TypeOK' /\ DirsTrue'
<1> DEFINE k == "sft"
           at == IF dir[k].adapter.at = "canonical" THEN "failed" ELSE dir[k].adapter.at
           p == [proc[k] EXCEPT !.pc = "result", !.status = "failed"]
           a == [dir[k].adapter EXCEPT !.at = at]
           d == [dir[k] EXCEPT !.adapter = a]
<1>1. /\ k \in Kinds /\ proc[k] \in Process(k) /\ dir[k] \in Directory(k)
      /\ RunTrue(k, dir[k], proc[k]) /\ dir[k].manifest = Nothing
      /\ proc[k].pc \in {"qualification", "training", "persistence", "reload",
                         "publish", "result"}
  BY TypesOfKind DEF DirsTrue, DirTrue, FailSFT, At, Kinds
<1>2. p \in Process(k)
  BY <1>1 DEF Process, Stages
<1>3. /\ DOMAIN dir' = Kinds /\ dir'[k] = d /\ DOMAIN proc' = Kinds /\ proc'[k] = p
      /\ \A j \in Kinds \ {k} : dir'[j] = dir[j] /\ proc'[j] = proc[j]
      /\ KeepInputs /\ runs' \in 0..MaxRuns
  BY <1>1 DEF TypeOK, FailSFT
<1>4. dir[k].adapter \in Adapter
  BY <1>1 DEF Directory
<1>5. at \in {"none", "incomplete", "canonical", "failed"} /\ at # "canonical"
  BY <1>4 DEF Adapter
<1>6. /\ a \in Adapter /\ a.at = at /\ a.run = dir[k].adapter.run
      /\ a.weights = dir[k].adapter.weights
  BY <1>4, <1>5 DEF Adapter
<1>7. at = "none" => dir[k].adapter.at = "none"
  OBVIOUS
<1>8. at # "none" => dir[k].adapter.at # "none"
  OBVIOUS
<1>9. dir[k].adapter.at = "none" => a = dir[k].adapter
  BY <1>4 DEF Adapter
<1> HIDE DEF a, at
<1>10. /\ p.pc = "result" /\ p.done = proc[k].done /\ p.run = proc[k].run
       /\ p.status = "failed"
       /\ p.items = proc[k].items /\ p.gen = proc[k].gen /\ p.steps = proc[k].steps
       /\ p.parent = proc[k].parent
       /\ d.adapter = a /\ d.manifest = Nothing /\ d \in Directory(k)
  BY <1>1, <1>6 DEF Process, Directory
<1> HIDE DEF p, d
<1>11. AdapterTrue(k, d, p)
  BY <1>1, <1>5, <1>6, <1>7, <1>8, <1>9, <1>10 DEF RunTrue, AdapterTrue
<1>12. RunTrue(k, d, p)
  BY <1>1, <1>10, <1>11 DEF RunTrue
<1>13. DirTrue(k, d, p)
  BY <1>10, <1>12 DEF DirTrue
<1> QED  BY <1>1, <1>2, <1>3, <1>10, <1>13, StepOfKind

LEMMA WriteResultStep ==
    ASSUME TypeOK, DirsTrue, NEW k \in Kinds, WriteResult(k)
    PROVE  TypeOK' /\ DirsTrue'
<1> DEFINE p == [proc[k] EXCEPT !.pc = "manifest"]
           r == [run |-> proc[k].run, status |-> proc[k].status,
                 selected |-> proc[k].items, requested |-> proc[k].steps,
                 completed |-> Len(proc[k].done)]
           d == [dir[k] EXCEPT !.result = r, !.steps = proc[k].done]
<1>1. /\ proc[k] \in Process(k) /\ dir[k] \in Directory(k)
      /\ RunTrue(k, dir[k], proc[k]) /\ dir[k].manifest = Nothing
      /\ proc[k].pc = "result"
  BY TypesOfKind DEF DirsTrue, DirTrue, WriteResult, At
<1>2. Goto(k, "manifest") /\ "manifest" \in Stages
  BY DEF WriteResult, Stages
<1>3. /\ DOMAIN proc' = Kinds /\ proc'[k] = p /\ p \in Process(k)
      /\ \A j \in Kinds \ {k} : proc'[j] = proc[j]
  BY <1>2, Moved
<1>4. /\ DOMAIN dir' = Kinds /\ dir'[k] = d
      /\ \A j \in Kinds \ {k} : dir'[j] = dir[j]
      /\ KeepInputs /\ runs' \in 0..MaxRuns
  BY DEF TypeOK, WriteResult
<1>5. /\ proc[k].items \in Batches[k] /\ proc[k].run \in 1..MaxRuns
      /\ proc[k].status \in {"completed", "failed"} /\ proc[k].steps \in Steps
      /\ proc[k].done \in Seq(Items(k)) /\ Len(proc[k].done) \in Nat
  BY <1>1 DEF Process, RunTrue
<1>6. r \in Result(k)
  BY <1>5 DEF Result
<1> HIDE DEF r
<1>7. /\ p.pc = "manifest" /\ p.done = proc[k].done /\ p.run = proc[k].run
      /\ p.status = proc[k].status
      /\ p.items = proc[k].items /\ p.gen = proc[k].gen /\ p.steps = proc[k].steps
      /\ p.parent = proc[k].parent
      /\ d.adapter = dir[k].adapter /\ d.manifest = Nothing /\ d.result = r
      /\ d.steps = proc[k].done /\ d \in Directory(k)
  BY <1>1, <1>5, <1>6 DEF Process, Directory
<1> HIDE DEF p, d
<1>8. AdapterTrue(k, d, p)
  BY <1>1, <1>7 DEF RunTrue, AdapterTrue
<1>9. r = [run |-> p.run, status |-> p.status, selected |-> p.items,
           requested |-> p.steps, completed |-> Len(p.done)]
  BY <1>7 DEF r
<1>10. RunTrue(k, d, p)
  BY <1>1, <1>7, <1>8, <1>9 DEF RunTrue
<1>11. DirTrue(k, d, p)
  BY <1>7, <1>10 DEF DirTrue
<1> QED  BY <1>3, <1>4, <1>7, <1>11, StepOfKind

LEMMA WriteManifestStep ==
    ASSUME TypeOK, DirsTrue, NEW k \in Kinds, WriteManifest(k)
    PROVE  TypeOK' /\ DirsTrue'
<1> DEFINE m == [run |-> proc[k].run, status |-> proc[k].status,
                 gen |-> PinnedSnapshot(k).gen, items |-> PinnedSnapshot(k).items,
                 rev |-> config[k].rev,
                 parent |-> PinnedParent(k).run,
                 parentFile |-> PinnedParent(k).file,
                 result |-> dir[k].result, steps |-> dir[k].steps,
                 adapter |-> IF proc[k].status = "completed" THEN dir[k].adapter
                                                            ELSE NoAdapter]
           d == [dir[k] EXCEPT !.manifest = m]
<1>1. /\ proc[k] \in Process(k) /\ dir[k] \in Directory(k)
      /\ RunTrue(k, dir[k], proc[k]) /\ dir[k].manifest = Nothing
      /\ proc[k].pc = "manifest"
  BY TypesOfKind DEF DirsTrue, DirTrue, WriteManifest, At
<1>2. /\ DOMAIN dir' = Kinds /\ dir'[k] = d /\ DOMAIN proc' = Kinds /\ proc'[k] = Idle
      /\ \A j \in Kinds \ {k} : dir'[j] = dir[j] /\ proc'[j] = proc[j]
      /\ KeepInputs /\ runs' \in 0..MaxRuns
  BY DEF TypeOK, WriteManifest, Exit
<1>3. /\ proc[k].run \in 1..MaxRuns /\ proc[k].status \in {"completed", "failed"}
      /\ proc[k].items \in Batches[k]
  BY <1>1 DEF Process, RunTrue
<1>4. PinnedSnapshot(k).gen \in 1..MaxGen[k] /\ PinnedSnapshot(k).items \in Batches[k]
  <2>1. source[k] \in Snapshot(k)
    BY DEF TypeOK, WriteManifest
  <2> QED  BY <1>3, <2>1 DEF PinnedSnapshot, Snapshot
<1>5. PinnedParent(k).run \in 0..MaxRuns /\ PinnedParent(k).file \in 0..MaxRuns
  <2>1. CASE k = "sft"
    BY <2>1, TrainingAssumption DEF PinnedParent
  <2>2. CASE k = "dpo"
    <3>1. dir["sft"].manifest \in Manifest("sft")
      BY <2>2 DEF WriteManifest, TypeOK, Kinds, Directory
    <3>2. dir["sft"].manifest.run \in 0..MaxRuns
      BY <3>1, TrainingAssumption DEF Manifest
    <3>3. proc[k].parent.run \in 0..MaxRuns
      BY <1>1 DEF Process, Adapter
    <3> QED  BY <2>2, <3>2, <3>3 DEF PinnedParent
  <2> QED  BY <2>1, <2>2 DEF Kinds
<1>6. config[k].rev \in 0..MaxRev[k]
  BY DEF TypeOK, Config
<1>7. /\ dir[k].result \in Result(k) /\ dir[k].steps \in Seq(Items(k))
      /\ dir[k].adapter \in Adapter
  <2>1. dir[k].result = [run |-> proc[k].run, status |-> proc[k].status,
                         selected |-> proc[k].items, requested |-> proc[k].steps,
                         completed |-> Len(proc[k].done)]
    BY <1>1 DEF RunTrue
  <2>2. proc[k].steps \in Steps /\ Len(proc[k].done) \in Nat
    BY <1>1 DEF RunTrue, Process
  <2> QED  BY <1>1, <1>3, <2>1, <2>2 DEF Directory, Result
<1>8. m \in Manifest(k)
  BY <1>3, <1>4, <1>5, <1>6, <1>7, IdleType DEF Manifest
<1>9. /\ m.run = proc[k].run /\ m.status = proc[k].status /\ m.result = dir[k].result
      /\ m.steps = dir[k].steps
      /\ m.status = "completed" => m.adapter = dir[k].adapter
  OBVIOUS
<1> HIDE DEF m
<1>10. /\ d \in Directory(k) /\ d.manifest = m /\ d.steps = dir[k].steps
       /\ d.result = dir[k].result /\ d.adapter = dir[k].adapter
  BY <1>1, <1>8 DEF Directory
<1> HIDE DEF d
<1>11. /\ dir[k].steps = proc[k].done /\ dir[k].result.selected = proc[k].items
       /\ dir[k].result.requested = proc[k].steps
  BY <1>1 DEF RunTrue
<1>12. /\ InOrder(proc[k].done, proc[k].items)
       /\ proc[k].status = "completed" => Len(proc[k].done) = proc[k].steps
       /\ proc[k].status = "completed" <=> dir[k].adapter.at = "canonical"
       /\ k = "sft" => proc[k].parent = NoAdapter
  BY <1>1 DEF RunTrue, AdapterTrue
<1>13. /\ dir[k].adapter.at = "none" => dir[k].adapter = NoAdapter
       /\ dir[k].adapter.at # "none" =>
             dir[k].adapter.run = proc[k].run
             /\ dir[k].adapter.weights = proc[k].parent.weights \cup Seen(proc[k].done)
  BY <1>1 DEF RunTrue, AdapterTrue
<1>14. k = "sft" => /\ dir[k].adapter.weights \subseteq Seen(proc[k].done)
                    /\ dir[k].adapter.at # "none" =>
                          dir[k].adapter.weights = Seen(proc[k].done)
  <2>1. NoAdapter.weights = {}
    BY DEF NoAdapter
  <2>2. k = "sft" /\ dir[k].adapter.at # "none" =>
           dir[k].adapter.weights = Seen(proc[k].done)
    BY <1>12, <1>13, <2>1
  <2>3. dir[k].adapter.at = "none" => dir[k].adapter.weights = {}
    BY <1>13, <2>1
  <2> QED  BY <2>2, <2>3
<1>15. ManifestTrue(k, d)
  BY <1>9, <1>10, <1>11, <1>12, <1>13, <1>14 DEF ManifestTrue
<1>16. DirTrue(k, d, Idle)
  BY <1>15 DEF DirTrue, Idle
<1> QED  BY <1>2, <1>10, <1>16, IdleType, StepOfKind

-----------------------------------------------------------------------------
(* A run starts in an empty directory                                      *)

LEMMA EmptyDirectory ==
    ASSUME NEW k \in Kinds
    PROVE  /\ EmptyDir \in Directory(k)
           /\ EmptyDir.manifest = Nothing /\ EmptyDir.adapter = NoAdapter
<1>1. <<>> \in Seq(Items(k))
  OBVIOUS
<1> QED  BY <1>1, IdleType DEF EmptyDir, Directory

LEMMA StartSFTStep ==
    ASSUME TypeOK, DirsTrue, StartSFT
    PROVE  TypeOK' /\ DirsTrue'
<1> DEFINE k == "sft"
           p == [Idle EXCEPT !.pc = "qualification", !.run = runs + 1,
                             !.items = source["sft"].items,
                             !.gen = source["sft"].gen,
                             !.steps = config["sft"].steps]
<1>1. /\ k \in Kinds /\ runs + 1 \in 1..MaxRuns
      /\ source["sft"] \in Snapshot(k) /\ config["sft"] \in Config(k)
  BY TrainingAssumption DEF TypeOK, StartSFT, StartRun, Kinds
<1>2. /\ source["sft"].items \in Batches[k] /\ source["sft"].gen \in 1..MaxGen[k]
      /\ config["sft"].steps \in Steps
  BY <1>1 DEF Snapshot, Config
<1>3. /\ DOMAIN dir' = Kinds /\ dir'[k] = EmptyDir /\ DOMAIN proc' = Kinds /\ proc'[k] = p
      /\ \A j \in Kinds \ {k} : dir'[j] = dir[j] /\ proc'[j] = proc[j]
      /\ KeepInputs /\ runs' \in 0..MaxRuns
  BY <1>1 DEF TypeOK, StartSFT, StartRun
<1>4. /\ p.pc = "qualification" /\ p.run = runs + 1 /\ p.items = source["sft"].items
      /\ p.gen = source["sft"].gen /\ p.steps = config["sft"].steps
      /\ p.status = "completed" /\ p.parent = NoAdapter /\ p.done = <<>>
  BY DEF Idle
<1>5. p \in Process(k)
  <2>1. Idle \in Process(k)
    BY <1>1, IdleType
  <2>2. /\ runs + 1 \in 0..MaxRuns /\ source["sft"].gen \in 0..MaxGen[k]
        /\ "qualification" \in Stages
    BY <1>1, <1>2, TrainingAssumption DEF Stages
  <2> QED  BY <1>2, <2>1, <2>2 DEF Process
<1> HIDE DEF p
<1>6. p.items # <<>> /\ p.gen # 0 /\ p.run # 0
  BY <1>1, <1>2, <1>4, TrainingAssumption DEF StartSFT
<1>7. InOrder(p.done, p.items)
  BY <1>4 DEF InOrder
<1>8. AdapterTrue(k, EmptyDir, p)
  BY <1>1, <1>4, EmptyDirectory DEF AdapterTrue, NoAdapter
<1>9. RunTrue(k, EmptyDir, p)
  BY <1>2, <1>4, <1>6, <1>7, <1>8 DEF RunTrue
<1>10. DirTrue(k, EmptyDir, p)
  BY <1>1, <1>4, <1>9, EmptyDirectory DEF DirTrue
<1> QED  BY <1>1, <1>3, <1>5, <1>10, EmptyDirectory, StepOfKind

LEMMA StartDPOStep ==
    ASSUME TypeOK, DirsTrue, StartDPO
    PROVE  TypeOK' /\ DirsTrue'
<1> DEFINE k == "dpo"
           p == [Idle EXCEPT !.pc = "validation", !.run = runs + 1,
                             !.steps = config["dpo"].steps]
<1>1. k \in Kinds /\ runs + 1 \in 1..MaxRuns /\ config["dpo"].steps \in Steps
  BY TrainingAssumption DEF TypeOK, StartDPO, StartRun, Kinds, Config
<1>2. /\ DOMAIN dir' = Kinds /\ dir'[k] = EmptyDir /\ DOMAIN proc' = Kinds /\ proc'[k] = p
      /\ \A j \in Kinds \ {k} : dir'[j] = dir[j] /\ proc'[j] = proc[j]
      /\ KeepInputs /\ runs' \in 0..MaxRuns
  BY <1>1 DEF TypeOK, StartDPO, StartRun
<1>3. /\ p.pc = "validation" /\ p.run = runs + 1 /\ p.steps = config["dpo"].steps
      /\ p.status = "completed" /\ p.done = <<>>
  BY DEF Idle
<1>4. p \in Process(k)
  <2>1. Idle \in Process(k)
    BY <1>1, IdleType
  <2>2. runs + 1 \in 0..MaxRuns /\ "validation" \in Stages
    BY <1>1, TrainingAssumption DEF Stages
  <2> QED  BY <1>1, <2>1, <2>2 DEF Process
<1> HIDE DEF p
<1>5. AdapterTrue(k, EmptyDir, p)
  BY <1>1, <1>3, EmptyDirectory DEF AdapterTrue, NoAdapter
<1>6. RunTrue(k, EmptyDir, p)
  BY <1>1, <1>3, <1>5 DEF RunTrue
<1>7. DirTrue(k, EmptyDir, p)
  BY <1>1, <1>3, <1>6, EmptyDirectory DEF DirTrue
<1> QED  BY <1>1, <1>2, <1>4, <1>7, EmptyDirectory, StepOfKind

LEMMA ValidateDPOStep ==
    ASSUME TypeOK, DirsTrue, ValidateDPO
    PROVE  TypeOK' /\ DirsTrue'
<1> DEFINE k == "dpo"
           p == [proc[k] EXCEPT !.pc = "reference", !.items = source[k].items,
                                !.gen = source[k].gen, !.parent = dir["sft"].adapter]
<1>1. /\ k \in Kinds /\ proc[k] \in Process(k) /\ dir[k] \in Directory(k)
      /\ RunTrue(k, dir[k], proc[k]) /\ dir[k].manifest = Nothing
      /\ proc[k].pc = "validation"
  BY TypesOfKind DEF DirsTrue, DirTrue, ValidateDPO, At, Kinds
<1>2. source[k] \in Snapshot(k) /\ dir["sft"].adapter \in Adapter
  BY DEF TypeOK, ValidateDPO, Kinds, Directory
<1>3. /\ source[k].items \in Batches[k] /\ source[k].gen \in 1..MaxGen[k]
      /\ source[k].items # <<>>
  BY <1>2 DEF Snapshot, ValidateDPO
<1>4. /\ DOMAIN dir' = Kinds /\ dir'[k] = dir[k] /\ DOMAIN proc' = Kinds /\ proc'[k] = p
      /\ \A j \in Kinds \ {k} : dir'[j] = dir[j] /\ proc'[j] = proc[j]
      /\ KeepInputs /\ runs' \in 0..MaxRuns
  BY <1>1 DEF TypeOK, ValidateDPO
<1>5. /\ p.pc = "reference" /\ p.items = source[k].items /\ p.gen = source[k].gen
      /\ p.run = proc[k].run /\ p.status = proc[k].status /\ p.steps = proc[k].steps
      /\ p.done = proc[k].done
  BY <1>1 DEF Process
<1>6. p \in Process(k)
  <2>1. source[k].gen \in 0..MaxGen[k] /\ "reference" \in Stages
    BY <1>1, <1>3, TrainingAssumption DEF Stages
  <2> QED  BY <1>1, <1>2, <1>3, <2>1 DEF Process
<1> HIDE DEF p
<1>7. p.items # <<>> /\ p.gen # 0 /\ p.done = <<>>
  BY <1>1, <1>3, <1>5, TrainingAssumption DEF RunTrue
<1>8. InOrder(p.done, p.items)
  BY <1>7 DEF InOrder
<1>9. AdapterTrue(k, dir[k], p)
  BY <1>1, <1>5 DEF RunTrue, AdapterTrue
<1>10. RunTrue(k, dir[k], p)
  BY <1>1, <1>5, <1>7, <1>8, <1>9 DEF RunTrue
<1>11. DirTrue(k, dir[k], p)
  BY <1>1, <1>5, <1>10 DEF DirTrue
<1> QED  BY <1>1, <1>4, <1>6, <1>11, StepOfKind

LEMMA InitOK ==
    Init => TypeOK /\ DirsTrue
<1> SUFFICES ASSUME Init PROVE TypeOK /\ DirsTrue
  OBVIOUS
<1>1. \A k \in Kinds :
         /\ dir[k] = EmptyDir /\ proc[k] = Idle /\ source[k] = Nothing
         /\ config[k] \in Config(k)
  BY TrainingAssumption DEF Init, Config
<1>2. DOMAIN source = Kinds /\ DOMAIN config = Kinds /\ DOMAIN dir = Kinds
      /\ DOMAIN proc = Kinds /\ runs \in 0..MaxRuns
  BY TrainingAssumption DEF Init
<1>3. TypeOK
  BY <1>1, <1>2, EmptyDirectory, IdleType DEF TypeOK
<1>4. DirsTrue
  BY <1>1, EmptyDirectory DEF DirsTrue, DirTrue, Idle
<1> QED  BY <1>3, <1>4

LEMMA RematerializeStep ==
    ASSUME TypeOK, DirsTrue, NEW k \in Kinds, NEW items \in Batches[k], NEW a \in BOOLEAN,
           Rematerialize(k, items, a)
    PROVE  TypeOK' /\ DirsTrue'
<1> DEFINE s == [gen |-> Gen(k) + 1, items |-> items, authorized |-> a]
<1>1. Gen(k) + 1 \in 1..MaxGen[k]
  <2>1. Gen(k) \in Nat /\ MaxGen[k] \in Nat
    BY TrainingAssumption DEF Gen, TypeOK, Snapshot
  <2> QED  BY <2>1 DEF Rematerialize
<1>2. s \in Snapshot(k)
  BY <1>1 DEF Snapshot
<1>3. /\ DOMAIN source' = Kinds /\ source'[k] = s
      /\ \A j \in Kinds \ {k} : source'[j] = source[j]
      /\ UNCHANGED <<config, dir, proc, runs>>
  BY DEF Rematerialize, TypeOK
<1> HIDE DEF s
<1>4. \A j \in Kinds : source'[j] \in Snapshot(j) \cup {Nothing}
  BY <1>2, <1>3 DEF TypeOK
<1> QED  BY <1>3, <1>4 DEF TypeOK, DirsTrue

LEMMA EditConfigStep ==
    ASSUME TypeOK, DirsTrue, NEW k \in Kinds, NEW steps \in Steps, EditConfig(k, steps)
    PROVE  TypeOK' /\ DirsTrue'
<1> DEFINE c == [rev |-> config[k].rev + 1, steps |-> steps]
<1>1. c \in Config(k)
  <2>1. config[k].rev \in Nat /\ MaxRev[k] \in Nat
    BY TrainingAssumption DEF TypeOK, Config
  <2> QED  BY <2>1 DEF EditConfig, Config
<1>2. /\ DOMAIN config' = Kinds /\ config'[k] = c
      /\ \A j \in Kinds \ {k} : config'[j] = config[j]
      /\ UNCHANGED <<source, dir, proc, runs>>
  BY DEF EditConfig, TypeOK
<1> HIDE DEF c
<1>3. \A j \in Kinds : config'[j] \in Config(j)
  BY <1>1, <1>2 DEF TypeOK
<1> QED  BY <1>2, <1>3 DEF TypeOK, DirsTrue

LEMMA StepOK ==
    ASSUME TypeOK, DirsTrue, [Next]_trainingVars
    PROVE  TypeOK' /\ DirsTrue'
<1>1. CASE UNCHANGED trainingVars
  BY <1>1 DEF trainingVars, TypeOK, DirsTrue
<1>2. CASE SFTRun
  BY <1>2, StartSFTStep, MoveStep, PublishStep, FailSFTStep DEF SFTRun
<1>3. CASE DPORun
  BY <1>3, StartDPOStep, ValidateDPOStep, MoveStep DEF DPORun
<1>4. ASSUME NEW k \in Kinds, AnyRun(k)
      PROVE  TypeOK' /\ DirsTrue'
  BY <1>4, TrainStepStep, PersistStep, MoveStep, WriteResultStep, WriteManifestStep,
     DieStep DEF AnyRun
<1>5. CASE Operator
  BY <1>5, RematerializeStep, EditConfigStep DEF Operator
<1> QED  BY <1>1, <1>2, <1>3, <1>4, <1>5 DEF Next

LEMMA RunsAreTrue ==
    Spec => [](TypeOK /\ DirsTrue)
<1>1. Init => TypeOK /\ DirsTrue
  BY InitOK
<1>2. TypeOK /\ DirsTrue /\ [Next]_trainingVars => (TypeOK /\ DirsTrue)'
  BY StepOK
<1> QED  BY <1>1, <1>2, PTL DEF Spec

\* Every snapshot, configuration, run directory and process is of its type.
THEOREM TypeCorrect ==
    Spec => []TypeOK
BY RunsAreTrue, PTL

\* Whatever fails, is killed or is edited under way, a run directory with a
\* manifest holds the whole run the manifest tells of (positive_sft/lora/workflow.py,
\* preferences/dpo/workflow.py).
THEOREM WholeManifests ==
    Spec => []ManifestIsWhole
<1>1. TypeOK /\ DirsTrue => ManifestIsWhole
  <2> SUFFICES ASSUME DirsTrue, NEW k \in Kinds, dir[k].manifest # Nothing
               PROVE  /\ At(k, "idle")
                      /\ ManifestTrue(k, dir[k])
    BY DEF ManifestIsWhole, ManifestTrue
  <2> QED  BY DEF DirsTrue, DirTrue, At
<1> QED  BY <1>1, RunsAreTrue, PTL

-----------------------------------------------------------------------------
(* The adapter a DPO run continues                                         *)

\* The number of a run is never used twice: while a manifest of the parent's
\* directory has the number a DPO run or manifest names as its parent's, the
\* adapter there is the one that was loaded.
LineageTrue ==
    LET p == proc["dpo"].parent
        s == dir["sft"]
        d == dir["dpo"]
        n == proc["sft"].run
    IN  /\ p.run <= runs /\ n <= runs
        /\ s.manifest # Nothing => s.manifest.run <= runs
        /\ d.manifest # Nothing => d.manifest.parent <= runs
        /\ ~At("sft", "idle") =>
              p.run # n /\ (d.manifest # Nothing => d.manifest.parent # n)
        /\ s.manifest # Nothing =>
              /\ p.run = s.manifest.run => p.weights = s.adapter.weights
              /\ d.manifest # Nothing /\ d.manifest.parent = s.manifest.run =>
                    d.adapter.weights = s.adapter.weights \cup Seen(d.steps)

\* A run under way has a number, and no manifest in its directory.
LEMMA UnderWay ==
    ASSUME TypeOK, DirsTrue, NEW k \in Kinds
    PROVE  /\ ~At(k, "idle") => dir[k].manifest = Nothing /\ proc[k].run \in 1..MaxRuns
           /\ dir[k].manifest # Nothing => dir[k].manifest.run \in 1..MaxRuns
           /\ NoAdapter.run = 0
<1>1. proc[k].run \in 0..MaxRuns
  BY TypesOfKind DEF Process
<1>2. ~At(k, "idle") => dir[k].manifest = Nothing /\ proc[k].run # 0
  BY DEF DirsTrue, DirTrue, RunTrue, At
<1>3. dir[k].manifest # Nothing => dir[k].manifest \in Manifest(k)
  BY TypesOfKind DEF Directory
<1>4. dir[k].manifest # Nothing => dir[k].manifest.run \in 1..MaxRuns
  BY <1>3 DEF Manifest
<1>5. proc[k].run # 0 => proc[k].run \in 1..MaxRuns
  BY <1>1, TrainingAssumption
<1> QED  BY <1>2, <1>4, <1>5 DEF NoAdapter

\* A step of an SFT run that leaves its directory without a manifest.
LEMMA QuietSFT ==
    ASSUME TypeOK, LineageTrue, UNCHANGED runs,
           dir'["dpo"] = dir["dpo"], proc'["dpo"] = proc["dpo"],
           dir'["sft"].manifest = Nothing,
           proc'["sft"] = Idle \/ (~At("sft", "idle") /\ proc'["sft"].run = proc["sft"].run)
    PROVE  LineageTrue'
<1>1. runs \in Nat /\ Idle.run = 0 /\ Idle.pc = "idle"
  BY TrainingAssumption DEF TypeOK, Idle
<1> QED  BY <1>1 DEF LineageTrue, At

\* A step of a DPO run that leaves its directory without a manifest.
LEMMA QuietDPO ==
    ASSUME TypeOK, DirsTrue, LineageTrue, runs' \in Nat, runs <= runs',
           dir'["sft"] = dir["sft"], proc'["sft"] = proc["sft"],
           dir'["dpo"].manifest = Nothing,
           \/ proc'["dpo"].parent = proc["dpo"].parent
           \/ proc'["dpo"].parent = NoAdapter
    PROVE  LineageTrue'
<1>1. /\ ~At("sft", "idle") => proc["sft"].run \in 1..MaxRuns
      /\ dir["sft"].manifest # Nothing => dir["sft"].manifest.run \in 1..MaxRuns
      /\ NoAdapter.run = 0
  BY UnderWay DEF Kinds
<1>2. runs \in Nat /\ proc["sft"].run \in Nat /\ proc["dpo"].parent.run \in Nat
  BY SMTT(30), TrainingAssumption DEF TypeOK, Kinds, Process, Adapter
<1> QED  BY <1>1, <1>2 DEF LineageTrue, At

LEMMA SFTLineage ==
    ASSUME TypeOK, DirsTrue, LineageTrue,
           \/ Qualify \/ Publish \/ FailSFT
           \/ TrainStep("sft") \/ Persist("sft") \/ Reload("sft") \/ WriteResult("sft")
           \/ Die("sft")
    PROVE  LineageTrue'
<1>1. ~At("sft", "idle") /\ dir["sft"].manifest = Nothing
  BY UnderWay DEF Kinds, Qualify, Publish, FailSFT, TrainStep, Persist, Reload,
     WriteResult, Die, At
<1>2. dir["sft"] \in Directory("sft") /\ proc["sft"] \in Process("sft")
  BY TypesOfKind DEF Kinds
<1>3. "sft" \in DOMAIN dir /\ "dpo" \in DOMAIN dir /\ "sft" \in DOMAIN proc
      /\ "dpo" \in DOMAIN proc
  BY DEF TypeOK, Kinds
<1>4. /\ UNCHANGED runs /\ dir'["dpo"] = dir["dpo"] /\ proc'["dpo"] = proc["dpo"]
      /\ dir'["sft"].manifest = dir["sft"].manifest
      /\ proc'["sft"] = Idle \/ proc'["sft"].run = proc["sft"].run
  <2>1. CASE Qualify
    BY <1>2, <1>3, <2>1 DEF Qualify, Goto, Process
  <2>2. CASE Publish
    BY <1>2, <1>3, <2>2 DEF Publish, Goto, Process, Directory
  <2>3. CASE FailSFT
    BY <1>2, <1>3, <2>3 DEF FailSFT, Process, Directory
  <2>4. CASE TrainStep("sft")
    BY <1>2, <1>3, <2>4 DEF TrainStep, Process, Directory
  <2>5. CASE Persist("sft")
    BY <1>2, <1>3, <2>5 DEF Persist, Goto, Process, Directory
  <2>6. CASE Reload("sft")
    BY <1>2, <1>3, <2>6 DEF Reload, Goto, Process
  <2>7. CASE WriteResult("sft")
    BY <1>2, <1>3, <2>7 DEF WriteResult, Goto, Process, Directory
  <2>8. CASE Die("sft")
    BY <1>3, <2>8 DEF Die, Exit
  <2> QED  BY <2>1, <2>2, <2>3, <2>4, <2>5, <2>6, <2>7, <2>8
<1> QED  BY <1>1, <1>4, QuietSFT

LEMMA DPOLineage ==
    ASSUME TypeOK, DirsTrue, LineageTrue,
           \/ StartDPO \/ LoadReference \/ LoadPolicy
           \/ TrainStep("dpo") \/ Persist("dpo") \/ Reload("dpo") \/ WriteResult("dpo")
           \/ Die("dpo")
    PROVE  LineageTrue'
<1>1. StartDPO \/ dir["dpo"].manifest = Nothing
  BY UnderWay DEF Kinds, LoadReference, LoadPolicy, TrainStep, Persist, Reload,
     WriteResult, Die, At
<1>2. dir["dpo"] \in Directory("dpo") /\ proc["dpo"] \in Process("dpo")
  BY TypesOfKind DEF Kinds
<1>3. "sft" \in DOMAIN dir /\ "dpo" \in DOMAIN dir /\ "sft" \in DOMAIN proc
      /\ "dpo" \in DOMAIN proc
  BY DEF TypeOK, Kinds
<1>4. /\ dir'["sft"] = dir["sft"] /\ proc'["sft"] = proc["sft"]
      /\ runs' = runs \/ runs' = runs + 1
      /\ dir'["dpo"].manifest = Nothing
      /\ \/ proc'["dpo"].parent = proc["dpo"].parent
         \/ proc'["dpo"].parent = NoAdapter
  <2>1. CASE StartDPO
    BY <1>3, <2>1 DEF StartDPO, StartRun, EmptyDir, Idle
  <2>2. CASE LoadReference
    BY <1>1, <1>2, <1>3, <2>2 DEF LoadReference, Goto, Process, StartDPO, At
  <2>3. CASE LoadPolicy
    BY <1>1, <1>2, <1>3, <2>3 DEF LoadPolicy, Goto, Process, StartDPO, At
  <2>4. CASE TrainStep("dpo")
    BY <1>1, <1>2, <1>3, <2>4 DEF TrainStep, Process, StartDPO, At
  <2>5. CASE Persist("dpo")
    BY <1>1, <1>2, <1>3, <2>5 DEF Persist, Goto, Process, Directory, StartDPO, At
  <2>6. CASE Reload("dpo")
    BY <1>1, <1>2, <1>3, <2>6 DEF Reload, Goto, Process, StartDPO, At
  <2>7. CASE WriteResult("dpo")
    BY <1>1, <1>2, <1>3, <2>7 DEF WriteResult, Goto, Process, Directory, StartDPO, At
  <2>8. CASE Die("dpo")
    BY <1>1, <1>3, <2>8 DEF Die, Exit, Idle, StartDPO, At
  <2> QED  BY <2>1, <2>2, <2>3, <2>4, <2>5, <2>6, <2>7, <2>8
<1>5. runs' \in Nat /\ runs <= runs'
  BY <1>4, TrainingAssumption DEF TypeOK
<1> QED  BY <1>4, <1>5, QuietDPO

LEMMA StartSFTLineage ==
    ASSUME TypeOK, DirsTrue, LineageTrue, StartSFT
    PROVE  LineageTrue'
<1>1. /\ dir'["dpo"] = dir["dpo"] /\ proc'["dpo"] = proc["dpo"]
      /\ dir'["sft"].manifest = Nothing /\ proc'["sft"].run = runs + 1
      /\ runs' = runs + 1
  BY DEF StartSFT, StartRun, TypeOK, Kinds, EmptyDir, Idle
<1>2. runs \in Nat /\ proc["dpo"].parent.run \in Nat
  BY TrainingAssumption DEF TypeOK, Kinds, Process, Adapter
<1>3. dir["dpo"].manifest # Nothing => dir["dpo"].manifest.parent \in Nat
  <2>1. dir["dpo"].manifest # Nothing => dir["dpo"].manifest \in Manifest("dpo")
    BY DEF TypeOK, Kinds, Directory
  <2> QED  BY <2>1, TrainingAssumption DEF Manifest
<1> QED  BY <1>1, <1>2, <1>3 DEF LineageTrue

LEMMA ValidateDPOLineage ==
    ASSUME TypeOK, DirsTrue, LineageTrue, ValidateDPO
    PROVE  LineageTrue'
<1> DEFINE s == dir["sft"]
<1>1. s.manifest # Nothing /\ s.manifest.status = "completed"
  BY DEF ValidateDPO, SFTLoads, ResultPinned, Completed
<1>2. s.adapter.run = s.manifest.run
  BY <1>1 DEF DirsTrue, DirTrue, ManifestTrue, Kinds
<1>3. At("sft", "idle") /\ dir["dpo"].manifest = Nothing
  BY <1>1, UnderWay DEF Kinds, ValidateDPO, At
<1>4. /\ UNCHANGED <<dir, runs>> /\ proc'["sft"] = proc["sft"]
      /\ proc'["dpo"].parent = s.adapter
  BY DEF ValidateDPO, TypeOK, Kinds, Process
<1> QED  BY <1>1, <1>2, <1>3, <1>4 DEF LineageTrue, At

LEMMA WriteSFTLineage ==
    ASSUME TypeOK, DirsTrue, LineageTrue, WriteManifest("sft")
    PROVE  LineageTrue'
<1>1. /\ dir'["dpo"] = dir["dpo"] /\ proc'["dpo"] = proc["dpo"] /\ UNCHANGED runs
      /\ proc'["sft"] = Idle
      /\ dir'["sft"].manifest.run = proc["sft"].run
  BY DEF WriteManifest, Exit, TypeOK, Kinds, Directory
<1>2. ~At("sft", "idle") /\ Idle.pc = "idle" /\ Idle.run = 0 /\ runs \in Nat
  BY TrainingAssumption DEF WriteManifest, At, Idle, TypeOK
<1> QED  BY <1>1, <1>2 DEF LineageTrue, At

LEMMA WriteDPOLineage ==
    ASSUME TypeOK, DirsTrue, LineageTrue, WriteManifest("dpo")
    PROVE  LineageTrue'
<1> DEFINE d == dir["dpo"]
           p == proc["dpo"]
<1>1. /\ p.pc = "manifest" /\ d \in Directory("dpo") /\ p \in Process("dpo")
      /\ RunTrue("dpo", d, p)
  BY TypesOfKind DEF DirsTrue, DirTrue, WriteManifest, At, Kinds
<1>2. d.steps = p.done /\ d.adapter.weights = p.parent.weights \cup Seen(p.done)
  <2>1. d.adapter.at # "none"
    BY <1>1 DEF RunTrue, AdapterTrue
  <2> QED  BY <1>1, <2>1 DEF RunTrue, AdapterTrue
<1>3. /\ dir'["sft"] = dir["sft"] /\ proc'["sft"] = proc["sft"] /\ UNCHANGED runs
      /\ proc'["dpo"] = Idle
      /\ dir'["dpo"].manifest.parent = p.parent.run
      /\ dir'["dpo"].steps = d.steps /\ dir'["dpo"].adapter = d.adapter
  BY <1>1 DEF WriteManifest, Exit, TypeOK, Kinds, Directory, PinnedParent
<1>4. Idle.parent = NoAdapter /\ NoAdapter.run = 0 /\ runs \in Nat
  BY TrainingAssumption DEF Idle, NoAdapter, TypeOK
<1>5. /\ ~At("sft", "idle") => proc["sft"].run \in 1..MaxRuns
      /\ dir["sft"].manifest # Nothing => dir["sft"].manifest.run \in 1..MaxRuns
  BY UnderWay DEF Kinds
<1> QED  BY <1>2, <1>3, <1>4, <1>5 DEF LineageTrue, At

LEMMA LineageStep ==
    ASSUME TypeOK, DirsTrue, LineageTrue, [Next]_trainingVars
    PROVE  LineageTrue'
<1>1. CASE UNCHANGED trainingVars \/ Operator
  BY <1>1 DEF trainingVars, LineageTrue, At, Operator, Rematerialize, EditConfig
<1>2. CASE SFTRun
  BY <1>2, StartSFTLineage, SFTLineage DEF SFTRun
<1>3. CASE DPORun
  BY <1>3, ValidateDPOLineage, DPOLineage DEF DPORun
<1>4. CASE AnyRun("sft")
  BY <1>4, SFTLineage, WriteSFTLineage DEF AnyRun
<1>5. CASE AnyRun("dpo")
  BY <1>5, DPOLineage, WriteDPOLineage DEF AnyRun
<1> QED  BY <1>1, <1>2, <1>3, <1>4, <1>5 DEF Next, Kinds

LEMMA LineageInit ==
    ASSUME Init
    PROVE  LineageTrue
<1>1. /\ dir["sft"].manifest = Nothing /\ dir["dpo"].manifest = Nothing
      /\ proc["sft"] = Idle /\ proc["dpo"] = Idle /\ runs = 0
  BY DEF Init, Kinds, EmptyDir
<1>2. Idle.pc = "idle" /\ Idle.run = 0 /\ Idle.parent.run = 0
  BY DEF Idle, NoAdapter
<1> QED  BY <1>1, <1>2 DEF LineageTrue, At

LEMMA LineagesAreTrue ==
    Spec => [](TypeOK /\ DirsTrue /\ LineageTrue)
<1>1. Init => TypeOK /\ DirsTrue /\ LineageTrue
  BY InitOK, LineageInit
<1>2. TypeOK /\ DirsTrue /\ LineageTrue /\ [Next]_trainingVars
         => (TypeOK /\ DirsTrue /\ LineageTrue)'
  BY StepOK, LineageStep
<1> QED  BY <1>1, <1>2, PTL DEF Spec

LEMMA LineageHolds ==
    ASSUME TypeOK, LineageTrue
    PROVE  LineageIsExact
<1> SUFFICES ASSUME DPOLoads
             PROVE  dir["dpo"].adapter.weights
                       = dir["sft"].adapter.weights \cup Seen(dir["dpo"].steps)
  BY DEF LineageIsExact
<1>1. /\ dir["dpo"].manifest # Nothing /\ dir["sft"].manifest # Nothing
      /\ dir["sft"].manifest.run = dir["dpo"].manifest.parent
  BY DEF DPOLoads, ParentPinned, SFTLoads, ResultPinned
<1> QED  BY <1>1 DEF LineageTrue

\* A DPO run that loads continues the very adapter its parent directory holds,
\* whatever was run again there meanwhile (preferences/dpo/workflow.py).
THEOREM ExactLineage ==
    Spec => []LineageIsExact
BY LineagesAreTrue, LineageHolds, PTL

-----------------------------------------------------------------------------
(* What the adapters were trained on is known                              *)

\* An example whose id resolves in the snapshot is of a task found there.
LEMMA TaskIsFound ==
    ASSUME TypeOK, NEW k \in Kinds, source[k] # Nothing, NEW x \in AllItems,
           NEW ids, x.id \in ids, ids \subseteq Ids(source[k].items)
    PROVE  x.task \in TasksOf(k, ids)
<1>1. source[k].items \in Batches[k]
  BY DEF TypeOK, Snapshot
<1>2. Seen(source[k].items) \subseteq AllItems
  <2>1. Seen(source[k].items) \subseteq Items(k)
    BY <1>1 DEF Items, Seen
  <2> QED  BY <2>1 DEF AllItems, Kinds
<1>3. PICK y \in Seen(source[k].items) : y.id = x.id
  BY DEF Ids
<1>4. y.task = x.task
  BY <1>2, <1>3, TrainingAssumption
<1> QED  BY <1>3, <1>4 DEF TasksOf

LEMMA SFTTasksCover ==
    ASSUME TypeOK, DirsTrue, SFTTasksKnown
    PROVE  \A x \in dir["sft"].adapter.weights : x.task \in SFTTasks
<1> DEFINE s == dir["sft"]
<1>1. /\ source["sft"] # Nothing /\ s.manifest # Nothing
      /\ Ids(s.result.selected) \subseteq Ids(source["sft"].items)
  BY DEF SFTTasksKnown, SFTLoads, ResultPinned, SourcePinned
<1>2. /\ s.adapter.weights \subseteq Seen(s.steps) /\ InOrder(s.steps, s.result.selected)
      /\ s.result = s.manifest.result
  BY <1>1 DEF DirsTrue, DirTrue, ManifestTrue, Kinds
<1>3. s.steps \in Seq(Items("sft")) /\ s.result.selected \in Batches["sft"]
  <2>1. s \in Directory("sft")
    BY DEF TypeOK, Kinds
  <2>2. s.manifest \in Manifest("sft")
    BY <1>1, <2>1 DEF Directory
  <2>3. s.manifest.result \in Result("sft")
    BY <2>2 DEF Manifest
  <2> QED  BY <1>2, <2>1, <2>3 DEF Directory, Result
<1>4. "sft" \in Kinds
  BY DEF Kinds
<1>5. Seen(s.steps) \subseteq Seen(s.result.selected)
  BY <1>2, <1>3, <1>4, InOrderIsSeen
<1>6. Seen(s.steps) \subseteq AllItems
  BY <1>3 DEF Seen, AllItems
<1> SUFFICES ASSUME NEW x \in s.adapter.weights
             PROVE  x.task \in SFTTasks
  OBVIOUS
<1>7. x \in AllItems /\ x \in Seen(s.result.selected)
  BY <1>2, <1>5, <1>6
<1>8. x.id \in Ids(s.result.selected)
  BY <1>7 DEF Ids
<1> QED  BY <1>1, <1>4, <1>7, <1>8, TaskIsFound DEF SFTTasks

LEMMA DPOTasksCover ==
    ASSUME TypeOK, DirsTrue, LineageTrue, DPOTasksKnown
    PROVE  \A x \in dir["dpo"].adapter.weights : x.task \in DPOTasks
<1> DEFINE d == dir["dpo"]
<1>1. d.adapter.weights = dir["sft"].adapter.weights \cup Seen(d.steps)
  BY LineageHolds DEF DPOTasksKnown, LineageIsExact
<1>2. \A x \in dir["sft"].adapter.weights : x.task \in SFTTasks
  BY SFTTasksCover DEF DPOTasksKnown
<1>3. source["dpo"] # Nothing /\ Ids(d.steps) \subseteq Ids(source["dpo"].items)
  BY DEF DPOTasksKnown, DPOLoads, SourcePinned
<1>4. d.steps \in Seq(Items("dpo")) /\ "dpo" \in Kinds
  BY DEF TypeOK, Kinds, Directory
<1>5. Seen(d.steps) \subseteq AllItems
  BY <1>4 DEF Seen, AllItems
<1>6. ASSUME NEW x \in Seen(d.steps)
      PROVE  x.task \in TasksOf("dpo", Ids(d.steps))
  <2>1. x.id \in Ids(d.steps) /\ x \in AllItems
    BY <1>5, <1>6 DEF Ids
  <2> QED  BY <1>3, <1>4, <2>1, TaskIsFound
<1> QED  BY <1>1, <1>2, <1>6 DEF DPOTasks

\* No evaluation that declares an adapter_training_task_scope and is admitted
\* runs a task one of its adapters was trained on, in its own run or its
\* parent's (validate_eval_config_paths of evals/validate.py).
THEOREM HeldOutTasks ==
    Spec => []HeldOut
<1>1. TypeOK /\ DirsTrue /\ LineageTrue => HeldOut
  <2> SUFFICES ASSUME TypeOK, DirsTrue, LineageTrue,
                      NEW tasks \in Evals, NEW adapter \in AdapterOf,
                      NEW scope \in DeclaredScopes, Admitted(tasks, adapter, scope),
                      NEW p \in Adapted(adapter),
                      NEW x \in dir[adapter[p]].adapter.weights
               PROVE  x.task \notin tasks
    BY DEF HeldOut
  <2> DEFINE k == adapter[p]
  <2>1. k \in Kinds /\ Disjoint(tasks, adapter)
    BY DEF Adapted, Admitted
  <2>2. TasksKnown(k) /\ tasks \cap TrainingTasks(k) = {}
    BY <2>1 DEF Disjoint
  <2>3. x.task \in TrainingTasks(k)
    <3>1. CASE k = "sft"
      BY <2>2, <3>1, SFTTasksCover DEF TasksKnown, TrainingTasks
    <3>2. CASE k = "dpo"
      BY <2>2, <3>2, DPOTasksCover DEF TasksKnown, TrainingTasks
    <3> QED  BY <2>1, <3>1, <3>2 DEF Kinds
  <2> QED  BY <2>2, <2>3
<1> QED  BY <1>1, LineagesAreTrue, PTL
-----------------------------------------------------------------------------
(* What a manifest pins and what was trained on                            *)

\* A step writes the manifest of a kind, removes it, or leaves it.
LEMMA ManifestStep ==
    ASSUME TypeOK, NEW k \in Kinds, [Next]_trainingVars
    PROVE  WriteManifest(k) \/ dir'[k].manifest \in {Nothing, dir[k].manifest}
<1>1. \A j \in Kinds : dir[j] \in Directory(j)
  BY TypesOfKind
<1>2. DOMAIN dir = Kinds
  BY DEF TypeOK
<1>3. CASE UNCHANGED trainingVars \/ Operator
  BY <1>3 DEF trainingVars, Operator, Rematerialize, EditConfig
<1>4. CASE SFTRun
  <2>1. CASE StartSFT
    BY <1>2, <2>1 DEF StartSFT, EmptyDir
  <2>2. CASE Qualify
    BY <2>2 DEF Qualify
  <2>3. CASE Publish
    BY <1>1, <1>2, <2>3 DEF Publish, Directory
  <2>4. CASE FailSFT
    BY <1>1, <1>2, <2>4 DEF FailSFT, Directory
  <2> QED  BY <1>4, <2>1, <2>2, <2>3, <2>4 DEF SFTRun
<1>5. CASE DPORun
  BY <1>1, <1>2, <1>5 DEF DPORun, StartDPO, ValidateDPO, LoadReference, LoadPolicy, EmptyDir
<1>6. ASSUME NEW j \in Kinds, AnyRun(j)
      PROVE  WriteManifest(k) \/ dir'[k].manifest \in {Nothing, dir[k].manifest}
  <2>1. CASE WriteManifest(j)
    BY <1>2, <2>1 DEF WriteManifest
  <2>2. CASE TrainStep(j) \/ Persist(j) \/ Reload(j) \/ WriteResult(j) \/ Die(j)
    BY <1>1, <1>2, <2>2 DEF TrainStep, Persist, Reload, WriteResult, Die, Directory
  <2> QED  BY <1>6, <2>1, <2>2 DEF AnyRun
<1> QED  BY <1>3, <1>4, <1>5, <1>6 DEF Next

\* The manifest a step writes: over the result of the process that writes it.
LEMMA ManifestWritten ==
    ASSUME TypeOK, DirsTrue, NEW k \in Kinds, WriteManifest(k)
    PROVE  /\ dir'[k].manifest.items = PinnedSnapshot(k).items
           /\ dir'[k].manifest.result.selected = proc[k].items
<1>1. dir'[k].manifest.items = PinnedSnapshot(k).items
      /\ dir'[k].manifest.result = dir[k].result
  BY DEF WriteManifest, TypeOK, Directory
<1>2. proc[k].pc = "manifest" /\ DirTrue(k, dir[k], proc[k])
  BY DEF WriteManifest, At, DirsTrue
<1>3. dir[k].result.selected = proc[k].items
  BY <1>2 DEF DirTrue, RunTrue
<1> QED  BY <1>1, <1>3

PinsSelected(k) ==
    dir[k].manifest # Nothing => dir[k].manifest.items = dir[k].manifest.result.selected

LEMMA PinsKept ==
    ASSUME TypeOK, NEW k \in Kinds, [Next]_trainingVars, ~WriteManifest(k), PinsSelected(k)
    PROVE  PinsSelected(k)'
<1>1. dir'[k].manifest \in {Nothing, dir[k].manifest}
  BY ManifestStep
<1> QED  BY <1>1 DEF PinsSelected

\* A DPO manifest takes its source from what the run loaded.
LEMMA DPOPinsStep ==
    ASSUME TypeOK, DirsTrue, PinsSelected("dpo"), [Next]_trainingVars
    PROVE  PinsSelected("dpo")'
<1>1. "dpo" \in Kinds
  BY DEF Kinds
<1>2. CASE WriteManifest("dpo")
  BY <1>1, <1>2, ManifestWritten DEF PinsSelected, PinnedSnapshot
<1> QED  BY <1>1, <1>2, PinsKept

LEMMA SelectedPinned ==
    ASSUME TypeOK, DirsTrue, NEW k \in Kinds, PinsSelected(k), ResultPinned(k)
    PROVE  /\ dir[k].result.selected = dir[k].manifest.items
           /\ Seen(dir[k].steps) \subseteq Seen(dir[k].manifest.items)
<1>1. dir[k].manifest # Nothing /\ dir[k].result = dir[k].manifest.result
  BY DEF ResultPinned
<1>2. dir[k].result.selected = dir[k].manifest.items
  BY <1>1 DEF PinsSelected
<1>3. dir[k] \in Directory(k) /\ dir[k].manifest \in Manifest(k)
  BY <1>1, TypesOfKind DEF Directory
<1>4. dir[k].steps \in Seq(Items(k)) /\ dir[k].manifest.items \in Batches[k]
  BY <1>3 DEF Directory, Manifest
<1>5. InOrder(dir[k].steps, dir[k].manifest.items)
  BY <1>1, <1>2 DEF DirsTrue, DirTrue, ManifestTrue
<1> QED  BY <1>2, <1>4, <1>5, InOrderIsSeen

\* What the documentation says of the trainers holds of DPO, whatever is
\* materialized, edited or run again meanwhile: the examples a DPO run that loads
\* selected are those its manifest pins, and every step trained on an example the
\* snapshot still has (run_dpo_training of preferences/dpo/workflow.py).
THEOREM DPOPinsWhatItTrainedOn ==
    Spec => [](DPOLoads =>
                 /\ dir["dpo"].result.selected = dir["dpo"].manifest.items
                 /\ Seen(dir["dpo"].steps) \subseteq Seen(source["dpo"].items))
<1> DEFINE P == DPOLoads =>
                  /\ dir["dpo"].result.selected = dir["dpo"].manifest.items
                  /\ Seen(dir["dpo"].steps) \subseteq Seen(source["dpo"].items)
<1>1. Init => PinsSelected("dpo")
  BY DEF Init, Kinds, EmptyDir, PinsSelected
<1>2. TypeOK /\ DirsTrue /\ PinsSelected("dpo") /\ [Next]_trainingVars => PinsSelected("dpo")'
  BY DPOPinsStep
<1>3. TypeOK /\ DirsTrue /\ PinsSelected("dpo") => P
  BY SelectedPinned DEF DPOLoads, SourcePinned, Kinds
<1> HIDE DEF P
<1>4. Spec => []P
  BY <1>1, <1>2, <1>3, RunsAreTrue, PTL DEF Spec
<1> QED  BY <1>4 DEF P

\* The operator leaves the SFT snapshot as it is while an SFT run is under way.
SnapshotKept == ~At("sft", "idle") => source'["sft"] = source["sft"]

\* Then the process trains on the snapshot its manifest is going to pin.
SFTPinsTrue ==
    /\ PinsSelected("sft")
    /\ ~At("sft", "idle") => source["sft"].items = proc["sft"].items

\* Only its start gives an SFT run its examples.
LEMMA SFTItemsStep ==
    ASSUME TypeOK, [Next]_trainingVars
    PROVE  \/ StartSFT
           \/ At("sft", "idle")'
           \/ ~At("sft", "idle") /\ proc'["sft"].items = proc["sft"].items
<1> DEFINE Goal == \/ StartSFT
                   \/ At("sft", "idle")'
                   \/ ~At("sft", "idle") /\ proc'["sft"].items = proc["sft"].items
<1>1. proc["sft"] \in Process("sft") /\ DOMAIN proc = Kinds /\ "sft" \in Kinds
  BY TypesOfKind DEF TypeOK, Kinds
<1>2. CASE proc'["sft"] = proc["sft"]
  BY <1>2 DEF At
<1>3. CASE UNCHANGED trainingVars \/ Operator
  BY <1>2, <1>3 DEF trainingVars, Operator, Rematerialize, EditConfig
<1>4. CASE SFTRun
  BY <1>1, <1>4 DEF SFTRun, Qualify, Publish, FailSFT, Goto, At, Process
<1>5. CASE DPORun \/ AnyRun("dpo")
  <2>1. proc'["sft"] = proc["sft"]
    BY <1>1, <1>5 DEF DPORun, StartDPO, ValidateDPO, LoadReference, LoadPolicy, AnyRun,
       TrainStep, Persist, Reload, WriteResult, WriteManifest, Die, Goto, Exit
  <2> QED  BY <1>2, <2>1
<1>6. CASE AnyRun("sft")
  <2>1. CASE TrainStep("sft") \/ Persist("sft") \/ Reload("sft") \/ WriteResult("sft")
    BY <1>1, <2>1 DEF TrainStep, Persist, Reload, WriteResult, Goto, At, Process
  <2>2. CASE WriteManifest("sft") \/ Die("sft")
    BY <1>1, <2>2 DEF WriteManifest, Die, Exit, At, Idle
  <2> QED  BY <1>6, <2>1, <2>2 DEF AnyRun
<1> QED  BY <1>3, <1>4, <1>5, <1>6 DEF Next, Kinds

LEMMA SFTPinsStep ==
    ASSUME TypeOK, DirsTrue, SFTPinsTrue, [Next]_trainingVars, SnapshotKept
    PROVE  SFTPinsTrue'
<1>1. "sft" \in Kinds
  BY DEF Kinds
<1>2. PinsSelected("sft")'
  <2>1. CASE WriteManifest("sft")
    <3>1. ~At("sft", "idle")
      BY <2>1 DEF WriteManifest, At
    <3> QED  BY <1>1, <2>1, <3>1, ManifestWritten DEF SFTPinsTrue, PinsSelected, PinnedSnapshot
  <2> QED  BY <1>1, <2>1, PinsKept DEF SFTPinsTrue
<1>3. (~At("sft", "idle") => source["sft"].items = proc["sft"].items)'
  <2>1. CASE StartSFT
    BY <1>1, <2>1 DEF StartSFT, KeepInputs, TypeOK, Idle
  <2>2. CASE ~At("sft", "idle") /\ proc'["sft"].items = proc["sft"].items
    BY <2>2 DEF SnapshotKept, SFTPinsTrue
  <2> QED  BY <2>1, <2>2, SFTItemsStep
<1> QED  BY <1>2, <1>3 DEF SFTPinsTrue

\* What the documentation says of SFT holds where nobody materializes the snapshot
\* anew while an SFT run is under way, and asks no more than that: configurations may
\* be edited, DPO snapshots replaced and runs killed (run_positive_sft_lora).
THEOREM SFTPinsIfSnapshotKept ==
    Spec /\ [][SnapshotKept]_trainingVars => []PinsWhatItTrainedOn
<1>1. Init => SFTPinsTrue
  BY DEF Init, Kinds, EmptyDir, Idle, At, SFTPinsTrue, PinsSelected
<1>2. TypeOK /\ DirsTrue /\ SFTPinsTrue /\ [Next]_trainingVars /\ [SnapshotKept]_trainingVars
         => SFTPinsTrue'
  <2>1. UNCHANGED trainingVars => SnapshotKept
    BY DEF trainingVars, SnapshotKept
  <2> QED  BY <2>1, SFTPinsStep
<1>3. TypeOK /\ DirsTrue /\ SFTPinsTrue => PinsWhatItTrainedOn
  BY SelectedPinned DEF SFTLoads, SFTPinsTrue, PinsWhatItTrainedOn, Kinds
<1> QED  BY <1>1, <1>2, <1>3, RunsAreTrue, PTL DEF Spec
=============================================================================
