------------------------------ MODULE MCTexts -------------------------------
(***************************************************************************)
(* Durations and times of a small clock: six seconds to the minute, two    *)
(* minutes to the hour, two hours to the day, a hundredth of a second as   *)
(* the smallest unit.                                                      *)
(*                                                                         *)
(* For durations the largest word is 4095 of them: two hours and two       *)
(* minutes fit, two hours and five minutes and two days do not; 5000 is    *)
(* beyond the word; 005 has a digit too many.                              *)
(*                                                                         *)
(* For times a year has two months, of three and two days, and 1972 is a   *)
(* leap year; the word ends within its leap day.                           *)
(***************************************************************************)
EXTENDS CheckpointTime

MCNumbers == {Number(0, 1), Number(2, 1), Number(5, 3), Number(5000, 4)}
MCMonthStart == [year \in 1969 .. 1973 |-> IF year = 1972 THEN <<0, 3, 6>> ELSE <<0, 3, 5>>]
MCYearStart == [year \in 1969 .. 1973 |-> 5 * (year - 1970) + IF year = 1973 THEN 1 ELSE 0]

(* The epoch and the instants around every boundary: a hundredth, a        *)
(* second, a minute, an hour, a day, a month, a year, the leap day and the *)
(* end of the word.                                                        *)
MCLandmarks ==
    {0, 1, 5, 50, 99, 100, 599, 600, 1200, 2399, 2400, 7199, 7200, 11999, 12000, 12050,
     24000, 31199, 31200, 33599, 35999, 36000, 36999, 37000}
=============================================================================
