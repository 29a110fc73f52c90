------------------------- MODULE NearestIntervalBin -------------------------
(***************************************************************************)
(* a17/utils/nearest_interval_bin: the nearest of ten round numbers per    *)
(* decade.  Bins are kept in sixtieths, in which all of them are whole.    *)
(***************************************************************************)
EXTENDS Integers

kIntervalBins == <<60, 80, 100, 120, 150, 180, 240, 300, 400, 600>>

kIntervalBinsSize == 10

(* of the 64 bits of the code, those that TLC's integers have *)
kTenToThe == <<1, 10, 100, 1000, 10000, 100000, 1000000, 10000000, 100000000, 1000000000>>

guess == <<0, 0, 0, 0, 1, 1, 1, 2, 2, 2, 3, 3, 3, 3, 4, 4, 4, 5, 5, 5, 6, 6, 6, 6, 7, 7,
           7, 8, 8, 8, 9, 9>>

Abs(x) == IF x < 0 THEN -x ELSE x

baseTwoDigits(x) == CHOOSE n \in 0..31 : (n = 0 \/ 2 ^ (n - 1) <= x) /\ (n = 31 \/ x < 2 ^ n)

baseTenDigits(x) ==
    LET digits == guess[baseTwoDigits(x) + 1]
    IN  IF x >= kTenToThe[digits + 1] THEN digits + 1 ELSE digits

(* the power of ten that interval is divided by *)
exp(interval) == kTenToThe[baseTenDigits(interval)]

(* 60 * exp times the distance of interval from bin i, for i from 0 *)
Diff(interval, i) == Abs(60 * interval - kIntervalBins[i + 1] * exp(interval))

(* variant: one step at most *)
searchOneStep(interval, index) ==
    LET nearer(i, j) == i \in 0..9 /\ Diff(interval, i) < Diff(interval, j)
    IN  IF nearer(index - 1, index)
          THEN index - 1
          ELSE IF nearer(index + 1, index) THEN index + 1 ELSE index

(* The search from index, in the direction in which the bins come nearer,  *)
(* for as long as they do.  On reaching an end of the table the code reads *)
(* the bin beyond it, and then leaves the loop whatever it has read.       *)
search(interval, index) ==
    LET bins == 0..kIntervalBinsSize - 1
        nearer(i, j) == Diff(interval, i) < Diff(interval, j)
        left[i \in bins] ==
            IF i > 0 /\ nearer(i - 1, i) THEN left[i - 1] ELSE i
        right[i \in bins] ==
            IF i < kIntervalBinsSize - 1 /\ nearer(i + 1, i) THEN right[i + 1] ELSE i
    IN  IF index > 0 /\ nearer(index - 1, index) THEN left[index] ELSE right[index]

(* its value, truncated *)
binValue(interval, i) == (kIntervalBins[i + 1] * exp(interval)) \div 60
=============================================================================
