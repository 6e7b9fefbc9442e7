------------------------------ MODULE Sorting ------------------------------
(***************************************************************************)
(* The quicksort that CraAList and CraLList share but for the way they     *)
(* reach their elements, and the binary search of CraAList.  Positions     *)
(* count from 1; the elements are compared as numbers.                     *)
(*                                                                         *)
(* An operator whose comment starts with MUTANT is no part of the model:   *)
(* it is a slip the code could have, which the runs must notice.           *)
(***************************************************************************)
EXTENDS Integers, Sequences, FiniteSetsExt

\* Where the scan from the right ends: at an element below temp, or at left.
StopsBelow(s, left, right, temp) == Max({left} \cup {i \in left .. right : s[i] < temp})

\* Where the scan from the left ends.
StopsBeyond(s, left, right, temp) == Min({right} \cup {i \in left .. right : s[i] > temp})

\* One round of the loop of partition, which ends when left and right have met.
Meet(m, temp) ==
  LET l  == StopsBeyond(m.s, m.left, m.right, temp)
      up == [m.s EXCEPT ![m.right] = m.s[l]]
      r  == StopsBelow(up, l, m.right, temp)
  IN  IF m.left = m.right THEN m ELSE [s |-> [up EXCEPT ![l] = up[r]], left |-> l, right |-> r]

Parted(s, left, right, temp) ==
  LET meeting[n \in 0 .. right - left] ==
        IF n = 0 THEN [s |-> s, left |-> left, right |-> right] ELSE Meet(meeting[n - 1], temp)
      met == meeting[right - left]
  IN  [s |-> [met.s EXCEPT ![met.left] = temp], middle |-> met.left]

\* MUTANT: a part of two elements is left as it is.
SortsFromThree(begin, end) == begin + 1 < end

\* A part is sorted if it has two elements.
WorthSorting(begin, end) == begin < end

\* One call of quick_sort; the calls still to be made are the parts in todo.
SortPart(m) ==
  LET begin  == Head(m.todo)[1]
      end    == Head(m.todo)[2]
      parted == Parted(m.s, begin, end, m.s[end])
      Part(b, e) == IF WorthSorting(b, e) THEN <<<<b, e>>>> ELSE << >>
  IN  IF m.todo = << >> THEN m
      ELSE [s    |-> parted.s,
            todo |-> Part(begin, parted.middle - 1) \o Part(parted.middle + 1, end) \o Tail(m.todo)]

QuickSorted(s, begin, end) ==
  LET sorting[n \in 0 .. end - begin] ==
        IF n = 0 THEN [s |-> s, todo |-> <<<<begin, end>>>>] ELSE SortPart(sorting[n - 1])
  IN  sorting[end - begin].s

Sorted(s) == IF Len(s) > 1 THEN QuickSorted(s, 1, Len(s)) ELSE s

\* One comparison of the binary search.  At the first element the code leaves,
\* as right would be less than 0; here right may be 0.
Halved(m, s, v) ==
  LET mid == m.left + (m.right - m.left) \div 2
  IN  IF m.left > m.right THEN m
      ELSE IF s[mid] < v THEN [m EXCEPT !.left = mid + 1]
      ELSE [m EXCEPT !.right = mid - 1]

\* cra_alist_binary_seach: the position to insert v at, in a sorted sequence
\* the first that holds no smaller element.
Searched(s, v) ==
  LET halved[n \in 0 .. Len(s)] ==
        IF n = 0 THEN [left |-> 1, right |-> Len(s)] ELSE Halved(halved[n - 1], s, v)
  IN  halved[Len(s)].left
=============================================================================
