----------------------------- MODULE Slicing -----------------------------
(***************************************************************************)
(* How a file's size decides the way it travels: the method chosen for it  *)
(* and the slices of a sliced upload, in closed form. Module SlicePlan     *)
(* checks and proves that the loops of the code cut the same slices.       *)
(***************************************************************************)
EXTENDS Integers

\* SizePolicy: the thresholds; parse() lets min_slice be any integer.
SizePolicies ==
  [single_shot_max: Int, resumable_max: Int, min_slice: Int, max_components: Nat \ {0}]

Smaller(a, b) == IF a <= b THEN a ELSE b
Larger(a, b) == IF a <= b THEN b ELSE a

\* choose_method
ChooseMethod(policy, size) ==
  IF size <= policy.single_shot_max THEN "single_shot"
  ELSE IF size <= policy.resumable_max THEN "resumable" ELSE "sliced"

\* Division rounded up, -(-a // b) in the code.
CeilDiv(a, b) == (a + b - 1) \div b

\* Every slice but the last has this size.
SliceSize(policy, size) == Larger(policy.min_slice, CeilDiv(size, policy.max_components))

\* plan_slices: how many slices there are, and slice i's place; an empty file
\* has one empty slice.
SliceCount(policy, size) == IF size = 0 THEN 1 ELSE CeilDiv(size, SliceSize(policy, size))
SliceOffset(policy, size, i) == IF size = 0 THEN 0 ELSE i * SliceSize(policy, size)
SliceLength(policy, size, i) ==
  IF size = 0 THEN 0 ELSE Smaller(SliceSize(policy, size), size - i * SliceSize(policy, size))
=============================================================================
