---------------------------- MODULE SlicePlan ----------------------------
(***************************************************************************)
(* The loops that cut a file: plan_slices for an upload, plan_ranges for a *)
(* download. One step is one turn of the loop. (The names say "Plan" where  *)
(* they would be those of a module that is extended beside this one.)      *)
(***************************************************************************)
EXTENDS Slicing, Sequences

CONSTANTS
  Sizes,         \* file sizes
  CutPolicies,   \* size policies
  RangeSizes     \* download_range_bytes

ASSUME PlanAssumption ==
  /\ Sizes \subseteq Nat /\ CutPolicies \subseteq SizePolicies
  /\ RangeSizes \subseteq Nat \ {0}

VARIABLES
  plan,    \* "slices" or "ranges"
  size, policy, range_bytes,   \* the arguments
  cuts, offset                 \* the loop's locals: slices or ranges; index is Len(cuts)

arguments == <<plan, size, policy, range_bytes>>
plan_vars == <<arguments, cuts, offset>>

Slice == [index: Nat, offset: Nat, length: Nat]
PlanTypeOK ==
  /\ plan \in {"slices", "ranges"} /\ size \in Sizes
  /\ policy \in CutPolicies /\ range_bytes \in RangeSizes
  /\ cuts \in Seq(Slice) /\ offset \in Nat

\* The only slice of an empty file; a download of one has no range.
Empty == IF plan = "slices" /\ size = 0 THEN <<[index |-> 0, offset |-> 0, length |-> 0]>> ELSE <<>>

PlanInit ==
  /\ plan \in {"slices", "ranges"} /\ size \in Sizes
  /\ policy \in CutPolicies /\ range_bytes \in RangeSizes
  /\ cuts = Empty /\ offset = 0

Full == IF plan = "slices" THEN SliceSize(policy, size) ELSE range_bytes
AlwaysFull == Full
CutLength == Smaller(Full, size - offset)

Cut ==
  /\ offset < size
  /\ cuts' = Append(cuts, [index |-> Len(cuts), offset |-> offset, length |-> CutLength])
  /\ offset' = offset + CutLength
  /\ UNCHANGED arguments

PlanNext == Cut
PlanSpec == PlanInit /\ [][PlanNext]_plan_vars

---------------------------------------------------------------------------
(* Properties *)

\* The slices follow each other from byte 0 to the loop's offset, without a gap
\* or an overlap, and none is empty unless the file is (core/slicing.py:85-93,
\* gcs/downloader.py:63-70): the checksums of the parts combine to the file's
\* only then. So every turn of the loop gets on, also for a policy whose minimum
\* is zero or negative (core/slicing.py:47-57 accepts one).
Contiguous ==
  /\ \A i \in 1..Len(cuts) :
       /\ cuts[i].index = i - 1
       /\ cuts[i].offset = (IF i = 1 THEN 0 ELSE cuts[i - 1].offset + cuts[i - 1].length)
       /\ size > 0 => cuts[i].length > 0
  /\ offset = IF cuts = <<>> THEN 0 ELSE cuts[Len(cuts)].offset + cuts[Len(cuts)].length
  /\ offset <= size

\* One compose call takes at most max_components temporary objects: no file,
\* whatever its size and the policy's minimum, is cut into more slices
\* (core/slicing.py:3-4).
AtMostMaxComponents == plan = "slices" => Len(cuts) <= policy.max_components

\* The k-th slice is where the closed form of module Slicing says, and when the
\* loop is over there are as many as it says.
ClosedForm ==
  plan = "slices" =>
    /\ \A i \in 1..Len(cuts) :
         /\ cuts[i].offset = SliceOffset(policy, size, i - 1)
         /\ cuts[i].length = SliceLength(policy, size, i - 1)
    /\ offset = size => Len(cuts) = SliceCount(policy, size)

\* The three together: the slices of every file, at every boundary of its size, cover
\* it, are as many as one compose takes, and are where the closed form has them
\* that the uploads reckon with (core/slicing.py:76-94).
SlicesFit == Contiguous /\ AtMostMaxComponents /\ ClosedForm
=============================================================================
