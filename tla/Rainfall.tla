------------------------------ MODULE Rainfall ------------------------------
(***************************************************************************)
(* The rainfall program CSMCS26A017_Lab2_1.c: it loads a table of years,   *)
(* then finds a month's extremes (part A), sorts by annual rainfall with   *)
(* merge sort and a randomized quick sort (part B), and lists the years    *)
(* within a range (part C).  Arrays count from 1; of the twelve months one *)
(* is kept.                                                                *)
(***************************************************************************)
EXTENDS Integers, SequencesExt, FiniteSetsExt

CONSTANTS Files,          \* sequences of rows [year, month, annual, cells]
          Amounts,        \* rainfall; also what an unset cell may hold
          MAX_RECORDS

ASSUME RainfallAssumption ==
    /\ MAX_RECORDS \in Nat \ {0} /\ Amounts \subseteq Nat
    /\ Files \subseteq Seq([year : Nat, month : Amounts, annual : Amounts,
                            cells : {"all", "no annual", "no month"}])

VARIABLES file, doing,    \* the input; "load", "menu", "sort", or "exit"
          records,        \* [year, month, annual]
          quickArr, pending,   \* part B's array; the ranges quickSortRec has yet to sort
          sortedRecords,  \* part C's own sorted copy, made once
          extremes, found \* what part A (least, most) or C has just printed

rainVars == <<file, doing, records, quickArr, pending, sortedRecords, extremes, found>>

recordCount == Len(records)
Years(arr) == [i \in DOMAIN arr |-> arr[i].year]
Ranges(n) == {p \in (1..n) \X (1..n) : p[1] <= p[2]}

-----------------------------------------------------------------------------
(* Part A.  On a tie the linear scan keeps the first year, the recursive   *)
(* one the last.                                                           *)

Middle(p) == (p[1] + p[2] - 2) \div 2 + 1          \* counted from 1

Better(least, a, b) == IF least THEN a < b ELSE a > b
BetterOf(least, best, r) == IF Better(least, r.month, best.month) THEN r ELSE best
findMinMaxLinear(least) ==
    FoldLeft(LAMBDA best, r : BetterOf(least, best, r), records[1], Tail(records))

findMinMaxDC(least) ==
    LET dc[p \in Ranges(recordCount)] ==
            IF p[1] = p[2] THEN records[p[1]]
            ELSE BetterOf(least, dc[<<Middle(p) + 1, p[2]>>], dc[<<p[1], Middle(p)>>])
    IN  dc[<<1, recordCount>>]

-----------------------------------------------------------------------------
(* Part B. *)

merge(a, b) ==
    LET from[p \in (1..(Len(a) + 1)) \X (1..(Len(b) + 1))] ==
            LET i == p[1]  j == p[2]
            IN  IF i > Len(a) THEN SubSeq(b, j, Len(b))
                ELSE IF j > Len(b) THEN SubSeq(a, i, Len(a))
                ELSE IF a[i].annual <= b[j].annual THEN <<a[i]>> \o from[<<i + 1, j>>]
                ELSE <<b[j]>> \o from[<<i, j + 1>>]
    IN  from[<<1, 1>>]

mergeSorted(arr) ==
    LET sort[p \in Ranges(Len(arr))] ==
            IF p[1] = p[2] THEN <<arr[p[1]]>>
            ELSE merge(sort[<<p[1], Middle(p)>>], sort[<<Middle(p) + 1, p[2]>>])
    IN  IF arr = <<>> THEN <<>> ELSE sort[<<1, Len(arr)>>]

swapRecords(arr, i, j) == [arr EXCEPT ![i] = arr[j], ![j] = arr[i]]

(* One round of the loop: an element not above the pivot joins the first i. *)
PartitionStep(s, j, pivot) ==
    IF s.arr[j].annual <= pivot THEN [arr |-> swapRecords(s.arr, s.i + 1, j), i |-> s.i + 1] ELSE s

(* The array and where the pivot has come to lie. *)
partition(arr, low, high, randIdx) ==
    LET start == swapRecords(arr, randIdx, high)
        pivot == start[high].annual
        end == FoldLeft(LAMBDA s, j : PartitionStep(s, j, pivot), [arr |-> start, i |-> low - 1],
                        [n \in 1..(high - low) |-> low + n - 1])
    IN  [arr |-> swapRecords(end.arr, end.i + 1, high), at |-> end.i + 1]

-----------------------------------------------------------------------------
(* Part C.  Both return the number of records before the bound. *)

Before(r, val, strictly) == IF strictly THEN r.annual < val ELSE r.annual <= val
Search(arr, val, strictly) ==
    LET search[p \in (0..Len(arr)) \X (0..Len(arr))] ==
            LET mid == (p[1] + p[2]) \div 2
            IN  IF p[1] >= p[2] THEN p[1]
                ELSE IF Before(arr[mid + 1], val, strictly) THEN search[<<mid + 1, p[2]>>] ELSE search[<<p[1], mid>>]
    IN  search[<<0, Len(arr)>>]
lower_bound(arr, val) == Search(arr, val, TRUE)
upper_bound_bug(arr, val) == Search(arr, val, TRUE)
upper_bound(arr, val) == Search(arr, val, FALSE)

-----------------------------------------------------------------------------
RainInit ==
    /\ file \in Files /\ doing = "load" /\ records = <<>>
    /\ quickArr = <<>> /\ pending = <<>> /\ sortedRecords = <<>>
    /\ extremes = <<>> /\ found = <<>>

(* A row that ends early leaves months unset, and annual zero. *)
Loaded(row, junk) ==
    [year |-> row.year,
     month |-> IF row.cells = "no month" THEN junk ELSE row.month,
     annual |-> IF row.cells = "all" THEN row.annual ELSE 0]
readCSV ==
    /\ doing = "load"
    /\ LET n == IF Len(file) < MAX_RECORDS THEN Len(file) ELSE MAX_RECORDS
       IN  \E junk \in Amounts : records' = [i \in 1..n |-> Loaded(file[i], junk)]
    /\ doing' = IF file = <<>> THEN "exit" ELSE "menu"
    /\ UNCHANGED <<file, quickArr, pending, sortedRecords, extremes, found>>

doPartA ==
    /\ doing = "menu"
    /\ extremes' = <<<<findMinMaxLinear(TRUE), findMinMaxDC(TRUE)>>,
                  <<findMinMaxLinear(FALSE), findMinMaxDC(FALSE)>>>>
    /\ found' = <<>> /\ UNCHANGED <<file, doing, records, quickArr, pending, sortedRecords>>

doPartB ==
    /\ doing = "menu" /\ doing' = "sort"
    /\ quickArr' = records /\ pending' = <<<<1, recordCount>>>>
    /\ extremes' = <<>> /\ found' = <<>> /\ UNCHANGED <<file, records, sortedRecords>>

(* One call of quickSortRec, with any pivot. *)
quickSortRec ==
    /\ doing = "sort" /\ pending # <<>>
    /\ LET low == Head(pending)[1]
           high == Head(pending)[2]
       IN  IF low < high
           THEN \E randIdx \in low..high :
                    LET p == partition(quickArr, low, high, randIdx)
                    IN  /\ quickArr' = p.arr
                        /\ pending' = <<<<low, p.at - 1>>, <<p.at + 1, high>>>> \o Tail(pending)
           ELSE pending' = Tail(pending) /\ UNCHANGED quickArr
    /\ UNCHANGED <<file, doing, records, sortedRecords, extremes, found>>
SortDone ==
    /\ doing = "sort" /\ pending = <<>> /\ doing' = "menu" /\ quickArr' = <<>>
    /\ UNCHANGED <<file, records, pending, sortedRecords, extremes, found>>

doPartC ==
    /\ doing = "menu"
    /\ sortedRecords' = IF sortedRecords = <<>> THEN mergeSorted(records) ELSE sortedRecords
    /\ \E low, high \in Amounts :
        found' = <<[low |-> low, high |-> high,
                    years |-> Years(SubSeq(sortedRecords', lower_bound(sortedRecords', low) + 1,
                                           upper_bound(sortedRecords', high)))]>>
    /\ extremes' = <<>> /\ UNCHANGED <<file, doing, records, quickArr, pending>>

Leave ==
    /\ doing = "menu" /\ doing' = "exit"
    /\ UNCHANGED <<file, records, quickArr, pending, sortedRecords, extremes, found>>

RainNext == readCSV \/ doPartA \/ doPartB \/ quickSortRec \/ SortDone \/ doPartC \/ Leave
RainSpec == RainInit /\ [][RainNext]_rainVars

-----------------------------------------------------------------------------
InOrder(arr) == \A i, j \in DOMAIN arr : i <= j => arr[i].annual <= arr[j].annual
(* ... and of two equal ones the first in the file comes first. *)
Stable(arr) ==
    \A i, j \in DOMAIN arr : i < j /\ arr[i].annual = arr[j].annual =>
        \E p, q \in DOMAIN records : p < q /\ arr[i] = records[p] /\ arr[j] = records[q]
CountIn(arr, r) == Cardinality({i \in DOMAIN arr : arr[i] = r})
SameRecords(a, b) == Len(a) = Len(b) /\ \A i \in DOMAIN b : CountIn(a, b[i]) = CountIn(b, b[i])

(* Whatever the random pivots, quick sort never loses a record and ends    *)
(* with all in order; the merge sort's copy is in order too, and stable;   *)
(* the two searches for a month's extremes agree on the amount; and the    *)
(* years listed for a range are just those within it.                      *)
RainfallExact ==
    /\ doing = "sort" => SameRecords(quickArr, records)
    /\ doing = "sort" /\ pending = <<>> => InOrder(quickArr)
    /\ sortedRecords # <<>> =>
        SameRecords(sortedRecords, records) /\ InOrder(sortedRecords) /\ Stable(sortedRecords)
    /\ \A k \in DOMAIN extremes : \A r \in ToSet(extremes[k]) :
        r \in ToSet(records) /\ \A s \in ToSet(records) : ~Better(k = 1, s.month, r.month)
    /\ \A f \in ToSet(found) : \E first \in 1..(Len(sortedRecords) + 1), last \in 0..Len(sortedRecords) :
        /\ f.years = Years(SubSeq(sortedRecords, first, last))
        /\ \A i \in DOMAIN sortedRecords :
            i \in first..last <=> f.low <= sortedRecords[i].annual /\ sortedRecords[i].annual <= f.high
=============================================================================
