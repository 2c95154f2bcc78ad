------------------------------ MODULE ModelFree ------------------------------
(* Quantizing a checkpoint without a model definition                        *)
(* (entrypoints/model_free): reindex_fused_weights moves the weights that    *)
(* are fused at inference (gate and up, q, k and v) into one safetensors     *)
(* file, its files written by a thread pool; model_free_ptq then validates   *)
(* and quantizes the files in two rounds of concurrent jobs and rewrites the *)
(* index.  A tensor is a record of its layer and its role; a file is its     *)
(* position in the sorted list of file names.                                *)
EXTENDS Naturals, FiniteSets, SequencesExt

CONSTANTS
  Names,         \* the tensors: records [layer, role]
  RoleOrder,     \* the roles in the order of their names
  FusedMappings, \* the sets of roles that are fused (DEFAULT_FUSED_MAPPINGS)
  LayerOrders,   \* the orders in which a writer of checkpoints lists the layers
  NumFiles,      \* files of the largest checkpoint
  Checkpoints,   \* the sets of tensors a checkpoint may hold
  Ignores,       \* the sets of tensors the ignore list may match
  Malformed,     \* the sets of tensors that may have an unusable shape
  MaxWorkers,    \* threads that run jobs
  MaxFailures,   \* bound on the file saves that fail
  None           \* what is read of a file or an index nobody has saved

ASSUME ModelFreeAssumption ==
  /\ NumFiles \in Nat \ {0} /\ MaxWorkers \in Nat \ {0} /\ MaxFailures \in Nat
  /\ \A m1, m2 \in FusedMappings : m1 # m2 => m1 \cap m2 = {}
  /\ Checkpoints \cup Ignores \cup Malformed \subseteq SUBSET Names

ASSUME NamesAssumption ==
  /\ RoleOrder \in Seq(Range(RoleOrder)) /\ LayerOrders \subseteq Seq(Nat)
  /\ Names \subseteq [layer : Nat, role : Range(RoleOrder)] /\ IsFiniteSet(Names)
  /\ \A order \in LayerOrders, n \in Names : n.layer \in Range(order)

ASSUME NoneAssumption ==
  \A S \in SUBSET Names :
    None # S /\ None \notin [S -> 1 .. NumFiles] \cup [S -> SUBSET Names]

Files == 1 .. NumFiles

VARIABLES
  input,     \* the request: where each tensor is, and how to quantize
  pc,        \* what the main thread does
  position,  \* the file reindex_fused_weights is at
  carry,     \* carry_over_tensors
  weightMap, \* final_weight_map
  writers,   \* the jobs of the writer pool that have not run
  disk,      \* the files model_free_ptq reads
  index,     \* the safetensors index beside them
  jobs,      \* the state of each job of exec_jobs
  saved,     \* the weight files of the save directory
  savedIndex,\* the safetensors index of the save directory
  failures   \* the saves that failed, of either program

reindexVars == <<position, carry, weightMap, writers>>
saveVars == <<saved, savedIndex>>
vars == <<input, pc, reindexVars, disk, index, jobs, saveVars, failures>>

-----------------------------------------------------------------------------
(* Names and fused sets                                                      *)

RoleRank(r) == CHOOSE i \in DOMAIN RoleOrder : RoleOrder[i] = r

NaturallyBefore(a, b) ==
  \/ a.layer < b.layer
  \/ a.layer = b.layer /\ RoleRank(a.role) < RoleRank(b.role)

ListedBefore(order, a, b) ==
  LET Rank(l) == CHOOSE i \in DOMAIN order : order[i] = l
  IN \/ Rank(a.layer) < Rank(b.layer)
     \/ a.layer = b.layer /\ RoleRank(a.role) < RoleRank(b.role)

RolesOf(S) == {n.role : n \in S}

\* The names in natural order: by how many come before.
InNaturalOrder(S) ==
  [i \in 1 .. Cardinality(S) |->
     CHOOSE n \in S : Cardinality({m \in S : NaturallyBefore(m, n)}) = i - 1]

\* Matching that lets a later tensor replace an earlier one of its role.
MatchNamesSetEager_Replaced(S, mapping) ==
  LET names == InNaturalOrder({n \in S : n.role \in mapping})
      step[i \in 0 .. Len(names)] ==
        IF i = 0 THEN [matched |-> {}, open |-> {}, twice |-> FALSE]
        ELSE LET s == step[i - 1]
                 open == {n \in s.open : n.role # names[i].role} \cup {names[i]}
             IN IF RolesOf(open) = mapping
                THEN [s EXCEPT !.matched = @ \cup {open}, !.open = {}]
                ELSE [s EXCEPT !.open = open]
  IN step[Len(names)]

\* The loop body: a name is added to the open set, which is grouped as soon as
\* it is full, unless the set has a name of its role already.
MatchName(s, name, mapping) ==
  LET open == s.open \cup {name}
  IN IF s.twice \/ name.role \in RolesOf(s.open)
     THEN [s EXCEPT !.twice = TRUE]
     ELSE IF RolesOf(open) = mapping
          THEN [s EXCEPT !.matched = @ \cup {open}, !.open = {}]
          ELSE [s EXCEPT !.open = open]

NothingMatched == [matched |-> {}, open |-> {}, twice |-> FALSE]

\* The n names one after the other: the full sets, what is left open, and
\* whether a role came twice before its set was full.
MatchEagerly(names, n, mapping) ==
  LET step[i \in 0 .. n] == IF i = 0 THEN NothingMatched
                                     ELSE MatchName(step[i - 1], names[i], mapping)
  IN step[n]

MatchNamesSetEager(S, mapping) ==
  LET fused == {n \in S : n.role \in mapping}
  IN MatchEagerly(InNaturalOrder(fused), Cardinality(fused), mapping)

FusedSets(S) == UNION {MatchNamesSetEager(S, m).matched : m \in FusedMappings}
Unmatched(S) == {n \in S : \E m \in FusedMappings : n \in MatchNamesSetEager(S, m).open}
MatchedTwice(S) == \E m \in FusedMappings : MatchNamesSetEager(S, m).twice

\* The set of the fused tensors n really belongs to.
FusedWith(n) ==
  {[layer |-> n.layer, role |-> r] : r \in UNION {f \in FusedMappings : n.role \in f}}

-----------------------------------------------------------------------------
(* The checkpoint                                                            *)

\* The checkpoints a writer produces: it lists the tensors layer by layer, in
\* numerical or in alphabetical order, and cuts the list into files.
Placements ==
  UNION {{p \in [S -> Files] :
            /\ \E o \in LayerOrders : \A a, b \in S :
                 ListedBefore(o, a, b) => p[a] <= p[b]
            /\ Range(p) = 1 .. Cardinality(Range(p))} : S \in Checkpoints}

Tensors == DOMAIN input.place
ReadFiles == {f \in Files : disk[f] # None}
Complete == \A n \in Tensors : FusedWith(n) \subseteq Tensors

Content(place, f) == {n \in DOMAIN place : place[n] = f}

Init ==
  /\ \E place \in Placements, ignored \in Ignores, malformed \in Malformed,
        microscale, reindex \in BOOLEAN :
       LET sharded == Cardinality(Range(place)) > 1
       IN /\ input = [place |-> place, ignored |-> ignored,
                      malformed |-> malformed, microscale |-> microscale]
          /\ disk = [f \in Files |-> IF f \in Range(place) /\ ~reindex
                                     THEN Content(place, f) ELSE None]
          /\ index = (IF sharded THEN place ELSE None)
          /\ pc = (IF reindex THEN "reindex" ELSE "validate index")
  /\ position = 1 /\ carry = {} /\ weightMap = <<>> /\ writers = {}
  /\ jobs = [f \in Files |-> "none"]
  /\ saved = [f \in Files |-> None]
  /\ savedIndex = None
  /\ failures = {}

Raise == pc' = "raised"

-----------------------------------------------------------------------------
(* reindex_fused_weights                                                     *)

LastFile ==
  CHOOSE f \in Range(input.place) : \A g \in Range(input.place) : g <= f

\* The next file takes over the carried tensors; the incomplete sets are
\* carried on and the rest is handed to a writer.
ReindexFile ==
  LET tensors == Content(input.place, position) \cup carry
      kept == tensors \ Unmatched(tensors)
  IN /\ pc = "reindex" /\ index # None /\ position <= LastFile
     /\ IF MatchedTwice(tensors)
        THEN Raise /\ UNCHANGED <<reindexVars>>
        ELSE /\ carry' = Unmatched(tensors)
             /\ writers' = writers \cup {[file |-> position, tensors |-> kept]}
             /\ weightMap' = [n \in kept \cup DOMAIN weightMap |->
                              IF n \in kept THEN position ELSE weightMap[n]]
             /\ position' = position + 1
             /\ UNCHANGED pc
     /\ UNCHANGED <<input, disk, index, jobs, saveVars, failures>>

\* A checkpoint without an index needs no reindexing.
NothingToReindex ==
  /\ pc = "reindex" /\ index = None
  /\ Raise
  /\ UNCHANGED <<input, reindexVars, disk, index, jobs, saveVars, failures>>

\* The new index is written while the writers may still be at work.
WriteIndex ==
  /\ pc = "reindex" /\ index # None /\ position > LastFile
  /\ index' = weightMap
  /\ pc' = "shutdown"
  /\ UNCHANGED <<input, reindexVars, disk, jobs, saveVars, failures>>

\* A writer saves its file; nobody looks at its future when it cannot.
WriterSaves(w) ==
  /\ w \in writers
  /\ writers' = writers \ {w}
  /\ \/ disk' = [disk EXCEPT ![w.file] = w.tensors] /\ UNCHANGED failures
     \/ /\ Cardinality(failures) < MaxFailures
        /\ failures' = failures \cup {w}
        /\ UNCHANGED disk
  /\ UNCHANGED <<input, pc, position, carry, weightMap, index, jobs, saveVars>>

\* writers.shutdown(wait=True); then the user starts model_free_ptq.
ReindexEnd ==
  /\ pc = "shutdown" /\ writers = {}
  /\ pc' = "validate index"
  /\ UNCHANGED <<input, reindexVars, disk, index, jobs, saveVars, failures>>

-----------------------------------------------------------------------------
(* model_free_ptq                                                            *)

IndexValid ==
  \/ index = None \/ ~input.microscale
  \/ \A f \in Range(index) :
       /\ ~MatchedTwice(Content(index, f))
       /\ Unmatched(Content(index, f)) = {}

Enqueued == [f \in Files |-> IF f \in ReadFiles THEN "queued" ELSE "none"]

\* The index is checked, the other files are copied (the index among them) and
\* the validation jobs are submitted.
ValidateSafetensorsIndex ==
  /\ pc = "validate index"
  /\ IF IndexValid
     THEN pc' = "validate" /\ jobs' = Enqueued /\ savedIndex' = index
     ELSE Raise /\ UNCHANGED <<jobs, savedIndex>>
  /\ UNCHANGED <<input, reindexVars, disk, index, saved, failures>>

StartJob(f) ==
  /\ jobs[f] = "queued"
  /\ Cardinality({g \in Files : jobs[g] = "running"}) < MaxWorkers
  /\ jobs' = [jobs EXCEPT ![f] = "running"]
  /\ UNCHANGED <<input, pc, reindexVars, disk, index, saveVars, failures>>

\* match_quantizable_tensors: not in the ignore list.
Targeted(S) == S \ input.ignored

ValidateFile(f) ==
  /\ pc = "validate" /\ jobs[f] = "running"
  /\ jobs' = [jobs EXCEPT ![f] =
       IF Targeted(disk[f]) \cap input.malformed = {} THEN "done" ELSE "failed"]
  /\ UNCHANGED <<input, pc, reindexVars, disk, index, saveVars, failures>>

\* Each tensor keeps its own scale, as with the other schemes.
ScaleGroup_Own(S, n) == IF n \in Targeted(S) THEN {n} ELSE {}

\* The tensors whose global scale the tensor n is quantized with; empty when it
\* is not quantized.  The modules of a fused set share their smallest scale.
ScaleGroup(S, n) ==
  {m \in Targeted(S) : /\ n \in Targeted(S)
                       /\ m = n \/ /\ input.microscale
                                   /\ \E s \in FusedSets(S) : {m, n} \subseteq s}

\* A job that finds an incomplete set in its file fails before it saves.
ProcessFile(f) ==
  /\ pc = "quantize" /\ jobs[f] = "running"
  /\ IF input.microscale /\ (MatchedTwice(disk[f]) \/ Unmatched(disk[f]) # {})
     THEN /\ jobs' = [jobs EXCEPT ![f] = "failed"]
          /\ UNCHANGED <<saved, failures>>
     ELSE \/ /\ jobs' = [jobs EXCEPT ![f] = "done"]
             /\ saved' = [saved EXCEPT
                  ![f] = [n \in disk[f] |-> ScaleGroup(disk[f], n)]]
             /\ UNCHANGED failures
          \/ /\ Cardinality(failures) < MaxFailures
             /\ jobs' = [jobs EXCEPT ![f] = "failed"]
             /\ failures' = failures \cup {[file |-> f, tensors |-> disk[f]]}
             /\ UNCHANGED saved
  /\ UNCHANGED <<input, pc, reindexVars, disk, index, savedIndex>>

JobsEnded == \A f \in Files : jobs[f] \notin {"queued", "running"}

\* Results that are collected without asking for the exceptions.
JobsSucceeded_Unchecked == TRUE

JobsSucceeded == \A f \in Files : jobs[f] # "failed"

\* exec_jobs returns when every job has ended, and raises what one of them did.
ValidationEnds ==
  /\ pc = "validate" /\ JobsEnded
  /\ IF JobsSucceeded THEN pc' = "quantize" /\ jobs' = Enqueued
     ELSE Raise /\ UNCHANGED jobs
  /\ UNCHANGED <<input, reindexVars, disk, index, saveVars, failures>>

\* The weight maps of the files that were processed.
FinalIndex ==
  LET processed == {f \in Files : saved[f] # None}
  IN [n \in UNION {DOMAIN saved[f] : f \in processed} |->
       CHOOSE f \in processed : n \in DOMAIN saved[f]]

QuantizationEnds ==
  /\ pc = "quantize" /\ JobsEnded
  /\ IF JobsSucceeded THEN pc' = "done" /\ savedIndex' = FinalIndex
     ELSE Raise /\ UNCHANGED savedIndex
  /\ UNCHANGED <<input, reindexVars, disk, index, jobs, saved, failures>>

Next ==
  \/ ReindexFile \/ NothingToReindex \/ WriteIndex \/ ReindexEnd
  \/ \E w \in writers : WriterSaves(w)
  \/ ValidateSafetensorsIndex \/ ValidationEnds \/ QuantizationEnds
  \/ \E f \in Files : StartJob(f) \/ ValidateFile(f) \/ ProcessFile(f)

Spec == Init /\ [][Next]_vars

-----------------------------------------------------------------------------
(* Properties                                                                *)

Quantized(f, n) == saved[f] # None /\ n \in DOMAIN saved[f] /\ saved[f][n] # {}

\* What a failed writer of reindex_fused_weights had been given.
Dropped == UNION {w.tensors : w \in failures}

\* Once model_free_ptq has returned, the quantized members of every set that is
\* fused at inference share one global scale, whatever file boundaries the
\* checkpoint had and whether or not it was reindexed
\* (process_file_microscale_scheme, match_names_set_eager).
FusedSetsShareScale ==
  pc = "done" /\ input.microscale /\ Complete =>
    \A f \in Files, n \in Tensors :
      Quantized(f, n) /\ FusedWith(n) # {} =>
        saved[f][n] = FusedWith(n) \ input.ignored

\* Once model_free_ptq has returned, every tensor that reindex_fused_weights
\* has not left over and that no failed writer had is in the save directory, in
\* one file, the one the index names, and quantized unless it was ignored
\* (update_safetensors_index).
StoredOnce ==
  pc = "done" =>
    \A n \in Tensors \ (carry \cup Dropped) :
      /\ n \in DOMAIN savedIndex
      /\ {f \in Files : saved[f] # None /\ n \in DOMAIN saved[f]} = {savedIndex[n]}
      /\ Quantized(savedIndex[n], n) <=> n \notin input.ignored

\* Nothing of the checkpoint is lost: tensors are stored once, and a checkpoint
\* all of whose fused sets are complete is reindexed without a tensor left over
\* (reindex_fused_weights).
NothingLost == StoredOnce /\ (pc = "done" /\ Complete => carry = {})

\* No quantized file is ever written when a tensor of some file cannot be
\* quantized or some file holds an incomplete fused set: validation fails fast,
\* before the long-running quantization (model_free_ptq, validate_file,
\* validate_safetensors_index).
NothingWrittenUnlessValid ==
  (\E f \in Files : saved[f] # None) =>
    \A f \in ReadFiles :
      /\ Targeted(disk[f]) \cap input.malformed = {}
      /\ input.microscale => ~MatchedTwice(disk[f]) /\ Unmatched(disk[f]) = {}
=============================================================================
