-------------------------- MODULE CalibrationData --------------------------
(***************************************************************************)
(* The calibration samples of one rank (datasets/utils.py): positions of a *)
(* data set, from 1, that the sampler of a rank may draw.  0 stands for    *)
(* num_calibration_samples = None.                                         *)
(***************************************************************************)
EXTENDS Integers, Sequences, FiniteSets, FiniteSetsExt

(* Bounds of the part of num_samples that rank index has, the first one    *)
(* excluded; the code computes them as floats.                             *)
PartitionStart(num_samples, index, num_partitions) ==
  (num_samples * index) \div num_partitions

PartitionEnd_Inclusive(num_samples, index, num_partitions) ==
  (num_samples * (index + 1)) \div num_partitions + 1

PartitionEnd(num_samples, index, num_partitions) ==
  (num_samples * (index + 1)) \div num_partitions

(* What _make_sampler is left with: the positions a rank draws from, and   *)
(* how many.  The part of one rank may lie outside a data set shorter than *)
(* requested.                                                              *)
Requested(num_samples, length) == IF num_samples = 0 THEN length ELSE num_samples

Positions(num_samples, length, same, index, num_partitions) ==
  IF same
    THEN PartitionStart(Requested(num_samples, length), index, num_partitions) + 1
           .. PartitionEnd(Requested(num_samples, length), index, num_partitions)
    ELSE 1 .. length

(* Dataset.select refuses positions that the data set does not have.       *)
CanSelect(positions, length) == positions \subseteq 1 .. length

NumDrawn(num_samples, positions) ==
  IF num_samples = 0 \/ num_samples > Cardinality(positions)
    THEN Cardinality(positions) ELSE num_samples

(* RandomSampler draws any, LengthAwareSampler the longest, in the order   *)
(* of their lengths: either is some order of some positions.               *)
Draws(positions, n) ==
  {draw \in [1 .. n -> positions] : \A i, j \in 1 .. n : draw[i] = draw[j] => i = j}

=============================================================================
