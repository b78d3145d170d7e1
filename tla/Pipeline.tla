------------------------------- MODULE Pipeline -------------------------------
(***************************************************************************)
(* pipeline and pipeline_stage (decision_engine/pipelinebuilder.cpp): a    *)
(* pipeline owns its stages through raw pointers, a pipeline stage owns    *)
(* another pipeline, and each pipeline also keeps pointers to those of its *)
(* stages.                                                                 *)
(*                                                                         *)
(* Stages are numbered in the order they are made, like stage_id, which is *)
(* the time of day.  The pipeline of a pipeline stage is named by that     *)
(* stage.  Left out: next_stage and previous_stage, which nothing reads,   *)
(* get_next_stage and get_previous_stage, which nothing calls and which    *)
(* read beyond the list at its ends, what the stages compute, and the      *)
(* formats of files.                                                       *)
(***************************************************************************)
EXTENDS Integers, Sequences, FiniteSets, SequencesExt, Functions

CONSTANTS
  Roots,              \* pipelines of the application
  MaxStages, MaxRemovals

ASSUME PipelineAssumption ==
  /\ MaxStages \in Nat /\ MaxRemovals \in Nat /\ \A r \in Roots : r \notin Nat

Stages == 1..MaxStages

VARIABLES
  made, removals,     \* stages made, stages removed
  kind,               \* "plain" or "pipeline"
  alive,              \* the stages that are not deleted, and the pipelines
  stages,             \* _stages of each pipeline
  pipelines,          \* _pipelines of each pipeline
  inner,              \* stages removed that others followed
  fault               \* the memory of a deleted object was used, and how

vars == <<made, removals, kind, alive, stages, pipelines, inner, fault>>
----------------------------------------------------------------------------
Init ==
  /\ made = 0 /\ removals = 0 /\ kind = <<>> /\ alive = Roots
  /\ stages = [p \in Roots |-> <<>>] /\ pipelines = [p \in Roots |-> <<>>]
  /\ inner = 0 /\ fault = "none"

Pipelines == DOMAIN stages \cap alive

\* Everything the destructor of an object deletes: the stages of a pipeline,
\* and the pipeline of a stage.  Stages are younger than what they are in.
Below(object) ==
  LET below[o \in Roots \cup 1..made] ==
        {o} \cup IF o \in DOMAIN stages THEN UNION {below[s] : s \in Range(stages[o])} ELSE {}
  IN below[object]

\* delete, where an object that is deleted twice is a fault.
Delete(object) ==
  /\ alive' = alive \ Below(object)
  /\ fault' = IF Below(object) \subseteq alive THEN "none" ELSE "deleted twice"

\* add_stage(category, name) for the category "pipeline" writes to the last of
\* several stages.
BackAlive(p) == Len(stages[p]) > 1 => Last(stages[p]) \in alive

\* It adds a stage with an empty pipeline of its own, which the other list gets, too.
AddPipelineStage(p) ==
  /\ fault = "none" /\ made < MaxStages /\ p \in Pipelines /\ BackAlive(p)
  /\ made' = made + 1
  /\ kind' = Append(kind, "pipeline")
  /\ alive' = alive \cup {made'}
  /\ stages' = [q \in DOMAIN stages \cup {made'} |->
                  IF q = made' THEN <<>> ELSE IF q = p THEN Append(stages[q], made') ELSE stages[q]]
  /\ pipelines' = [q \in DOMAIN pipelines \cup {made'} |->
                     IF q = made' THEN <<>> ELSE IF q = p THEN Append(pipelines[q], made')
                     ELSE pipelines[q]]
  /\ UNCHANGED <<removals, inner, fault>>

AddBehindDeleted(p) ==
  /\ fault = "none" /\ p \in Pipelines /\ ~BackAlive(p)
  /\ fault' = "used after delete"
  /\ UNCHANGED <<made, removals, kind, alive, stages, pipelines, inner>>

\* add_stage(category, name) for the others: a stage made by the factory.
AddStage(p) ==
  /\ fault = "none" /\ made < MaxStages /\ p \in Pipelines
  /\ made' = made + 1
  /\ kind' = Append(kind, "plain")
  /\ alive' = alive \cup {made'}
  /\ stages' = [stages EXCEPT ![p] = Append(@, made')]
  /\ UNCHANGED <<removals, pipelines, inner, fault>>

\* add_stage(stage) for a pipeline stage the application has made.
AddStagePointer(p) ==
  /\ fault = "none" /\ made < MaxStages /\ p \in Pipelines
  /\ made' = made + 1
  /\ kind' = Append(kind, "pipeline")
  /\ alive' = alive \cup {made'}
  /\ stages' = [q \in DOMAIN stages \cup {made'} |->
                  IF q = made' THEN <<>> ELSE IF q = p THEN Append(stages[q], made') ELSE stages[q]]
  /\ pipelines' = [q \in DOMAIN pipelines \cup {made'} |-> IF q = made' THEN <<>> ELSE pipelines[q]]
  /\ UNCHANGED <<removals, inner, fault>>

\* find_if compares the id of every stage in front of the one it finds.
Searched(p, i) == \A j \in 1..i : stages[p][j] \in alive

\* Mutant: nothing is deleted.
RemoveOnly(p, i) ==
  /\ fault = "none" /\ removals < MaxRemovals /\ p \in Pipelines /\ i \in DOMAIN stages[p]
  /\ removals' = removals + 1
  /\ stages' = [stages EXCEPT ![p] = RemoveAt(@, i)]
  /\ inner' = inner + IF i < Len(stages[p]) THEN 1 ELSE 0
  /\ UNCHANGED <<alive, fault, made, kind, pipelines>>

(* remove_stage, for the stage at position i: the vector is shortened      *)
(* first, then what the iterator refers to is deleted.  That is the stage  *)
(* that has moved to the position, or the slot behind the end, where the   *)
(* vector of the library leaves the pointer to the last stage.             *)
remove_stage(p, i) ==
  /\ fault = "none" /\ removals < MaxRemovals /\ p \in Pipelines /\ i \in DOMAIN stages[p]
  /\ removals' = removals + 1
  /\ stages' = [stages EXCEPT ![p] = RemoveAt(@, i)]
  /\ inner' = inner + IF i < Len(stages[p]) THEN 1 ELSE 0
  /\ IF Searched(p, i)
     THEN Delete(stages[p][IF i < Len(stages[p]) THEN i + 1 ELSE i])
     ELSE fault' = "used after delete" /\ UNCHANGED alive
  /\ UNCHANGED <<made, kind, pipelines>>

\* get_stage, by id or by name, searches in the same way.
get_stage(p, i) ==
  /\ fault = "none" /\ p \in Pipelines /\ i \in DOMAIN stages[p]
  /\ ~Searched(p, i)
  /\ fault' = "used after delete"
  /\ UNCHANGED <<made, removals, kind, alive, stages, pipelines, inner>>

Plus(m, n) == m + n

\* Mutant: only the pipelines that have stages are subtracted.
NumberOfFilled(p) ==
  LET number[q \in DOMAIN stages] ==
        Len(stages[q]) + FoldLeft(Plus, 0, [i \in DOMAIN pipelines[q] |-> number[pipelines[q][i]]])
          - Len(SelectSeq(pipelines[q], LAMBDA r : stages[r] # <<>>))
  IN number[p]

(* get_number_of_stages: "the stages of the current pipeline minus the     *)
(* stages that describes the pipelines", and those of these pipelines.     *)
(* Its numbers are unsigned: one below zero stands for the one it wraps    *)
(* around to, which is "> 0" and is added as well.                         *)
get_number_of_stages(p) ==
  LET number[q \in DOMAIN stages] ==
        Len(stages[q]) + FoldLeft(Plus, 0, [i \in DOMAIN pipelines[q] |-> number[pipelines[q][i]]])
          - Len(pipelines[q])
  IN number[p]

\* The pipelines get_number_of_stages asks.
Asked(p) ==
  LET asked[q \in DOMAIN stages] == {q} \cup UNION {asked[r] : r \in Range(pipelines[q])}
  IN asked[p]

\* A call of it that comes to a pipeline that is gone.
CountDeleted(p) ==
  /\ fault = "none" /\ p \in Pipelines /\ ~(Asked(p) \subseteq alive)
  /\ fault' = "counted after delete"
  /\ UNCHANGED <<made, removals, kind, alive, stages, pipelines, inner>>

\* The application deletes a pipeline of its own.
Destroy(p) ==
  /\ fault = "none" /\ p \in Roots \cap alive
  /\ Delete(p)
  /\ UNCHANGED <<made, removals, kind, stages, pipelines, inner>>

Next ==
  \/ \E p \in Roots \cup Stages :
       \/ AddPipelineStage(p) \/ AddBehindDeleted(p) \/ AddStage(p) \/ AddStagePointer(p)
       \/ \E i \in Stages : remove_stage(p, i) \/ get_stage(p, i)
       \/ CountDeleted(p)
  \/ \E p \in Roots : Destroy(p)

Spec == Init /\ [][Next]_vars
----------------------------------------------------------------------------
Held == UNION {Range(stages[p]) : p \in Pipelines}
Leaked == (alive \cap 1..made) \ Held
Dangling == Held \ alive

(* remove_stage has the right effect on the last stage only.  Every removal *)
(* of another one leaks the stage that was to go and leaves its successor in *)
(* the list, deleted: there are as many leaked stages and as many dangling  *)
(* pointers in the lists of stages as such removals, up to the first use of *)
(* one.  Without such a removal no search, no addition and no destructor    *)
(* comes to the memory of a deleted object.  Counting the stages may: as    *)
(* remove_stage does not touch _pipelines, that list keeps its pointer to   *)
(* the pipeline of a stage that is deleted, also of the last one.           *)
LeakForEachDangling ==
  /\ fault = "none" => Cardinality(Leaked) = inner /\ Cardinality(Dangling) = inner
  /\ fault \in {"used after delete", "deleted twice"} => inner > 0

\* get_number_of_stages returns the number of stages that are not pipelines,
\* at every depth, as long as the two lists agree on what the pipelines are:
\* a pipeline stage that was added by pointer, or removed, spoils the count.
Agree(p) ==
  \A q \in Below(p) \cap DOMAIN stages :
    q \in alive /\ Range(pipelines[q]) = {s \in Range(stages[q]) : kind[s] = "pipeline"}

CountsPlainStages ==
  \A p \in Pipelines :
    Agree(p) => get_number_of_stages(p) = Cardinality({s \in Below(p) \cap 1..made : kind[s] = "plain"})
=============================================================================
