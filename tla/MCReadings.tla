----------------------------- MODULE MCReadings -----------------------------
(* Ten samples of three kinds, as P90 leaves the largest sample at the tenth; of *)
(* markers a negative figure, a zero, two others, NaN and one beyond a Duration, *)
(* enough to tell which one counts.                                              *)
EXTENDS Readings, TLC

MCReadingSet == {SampleOf(2, NoUsage, 1), SampleOf(3, 7, -10), SampleOf(9, 4, 5)}

MCSort(s) == SortSeq(s, <)

MCNumbers == {-1, 0, 3, 5}
=============================================================================
