------------------------------ MODULE QuickSort ------------------------------
(***************************************************************************)
(* The quicksort of d-tree.c, which orders the clauses by probability, the *)
(* largest first, with the median of medians as pivot.  Positions count    *)
(* from 1.  left and right are the bounds of the part that is sorted.      *)
(***************************************************************************)
EXTENDS Sequences, SequencesExt, Rationals

swap(a, x, y) == [a EXCEPT ![x] = a[y], ![y] = a[x]]

(* Positions first, first + shift, ... up to last. *)
Strided(first, last, shift) ==
    [k \in 1..((last - first) \div shift + 1) |-> first + (k - 1) * shift]

MedianIndex(left, right, shift) ==
    left + (((right - left) \div shift + 1) \div 2) * shift

(* The first of the largest elements at the positions from i on. *)
Largest(a, i, right, shift) ==
    FoldLeft(LAMBDA best, j : IF QLess(a[best].prob, a[j].prob) THEN j ELSE best,
             i, Strided(i, right, shift))

(* Selection sort of every shift-th element as far as the median. *)
findMedianIndex(a, left, right, shift) ==
    FoldLeft(LAMBDA b, i : swap(b, i, Largest(b, i, right, shift)),
             a, Strided(left, MedianIndex(left, right, shift), shift))

(* The median of the group that starts at i moves to its front. *)
GroupMedian(a, i, last, shift) ==
    swap(findMedianIndex(a, i, last, shift), i, MedianIndex(i, last, shift))

MedianRound(a, left, right, shift) ==
    FoldLeft(LAMBDA b, i : GroupMedian(b, i, Min({i + shift * 5 - 1, right}), shift),
             a, Strided(left, right, shift * 5))

RECURSIVE Medians(_, _, _, _)
Medians(a, left, right, shift) ==
    IF shift > right - left THEN a
    ELSE Medians(MedianRound(a, left, right, shift), left, right, shift * 5)

findMedianOfMedians(a, left, right) == Medians(a, left, right, 1)

(* What is above the pivot, now at the end, moves to the front. *)
MoveUp(a, left, right, pivot) ==
    FoldLeft(LAMBDA x, i : IF QLess(pivot, x.a[i].prob)
                           THEN [a |-> swap(x.a, i, x.index), index |-> x.index + 1] ELSE x,
             [a |-> a, index |-> left], [k \in 1..(right - left) |-> left + k - 1])

PivotInPlace(x, right) == [x EXCEPT !.a = swap(x.a, right, x.index)]

(* Mutant: the pivot is left at the end. *)
partition_NoSwapBack(a, left, right) == MoveUp(swap(a, left, right), left, right, a[left].prob)

(* The leftmost element is the pivot; the index it ends up at is returned. *)
partition(a, left, right) ==
    PivotInPlace(MoveUp(swap(a, left, right), left, right, a[left].prob), right)

RECURSIVE quicksort(_, _, _)

Halves(x, left, right) ==
    quicksort(quicksort(x.a, left, x.index - 1), x.index + 1, right)

quicksort(a, left, right) ==
    IF left >= right THEN a
    ELSE Halves(partition(findMedianOfMedians(a, left, right), left, right), left, right)
=============================================================================
