----------------------------- MODULE RateMeasure -----------------------------
(***************************************************************************)
(* a17/utils/rate_measure: average interval, nearest round interval and    *)
(* jitter of the samples of a window.  Samples come with the time since    *)
(* the last one.                                                           *)
(***************************************************************************)
EXTENDS NearestIntervalBin, Sequences
LOCAL INSTANCE SequencesExt

CONSTANTS
    SampleWindow,   \* sample_window_
    Samples,        \* what is marked: <<time since the last sample, size>>
    MaxMarks        \* bound: samples in a behaviour

(* The window is one of the bins, like the default of two seconds: see     *)
(* WindowHoldsTarget.                                                      *)
ASSUME WindowAssumption ==
    /\ SampleWindow \in Nat \ {0}
    /\ Samples \subseteq Nat \X Nat
    /\ MaxMarks \in Nat
    /\ \E i \in 0..kIntervalBinsSize - 1 : SampleWindow = binValue(SampleWindow, i)

VARIABLES
    rate,       \* the members of the RateMeasure
    marked      \* last_time_ is set

rateVars == <<rate, marked>>

RateInit ==
    /\ rate = [intervals |-> <<>>, interval_acc |-> 0, jitters |-> <<>>, jitter_acc |-> 0,
               sizes |-> <<>>, size_acc |-> 0, ticks |-> 0, index |-> 0,
               target |-> 0, avg |-> 0, max_jitter |-> 0]
    /\ marked = FALSE

Sum(s) == FoldLeft(+, 0, s)

LastN(s, n) == SubSeq(s, Len(s) - n + 1, Len(s))

(* variant: drops one interval at most *)
keptOne(intervals, acc) ==
    IF acc > SampleWindow THEN Len(intervals) - 1 ELSE Len(intervals)

(* how many of the latest intervals the first loop leaves: it drops the    *)
(* oldest while the accumulated ones exceed the window                     *)
kept(intervals, acc) ==
    CHOOSE n \in 0..Len(intervals) :
        LET accAt(k) == acc - Sum(SubSeq(intervals, 1, Len(intervals) - k))
        IN  accAt(n) <= SampleWindow /\ \A k \in n + 1..Len(intervals) : accAt(k) > SampleWindow

(* markSize() of a sample that has a predecessor *)
markInterval(r, interval, size) ==
    LET all    == Append(r.intervals, interval)
        n      == kept(all, r.interval_acc + interval)
        gone   == Sum(SubSeq(all, 1, Len(all) - n))
        acc    == r.interval_acc + interval - gone
        avg    == IF n > 0 THEN acc \div n ELSE r.avg
        index  == IF n > 0 /\ avg > 0 THEN search(avg, r.index) ELSE r.index
        target == IF n = 0 THEN r.target
                  ELSE IF avg = 0 THEN 0 ELSE binValue(avg, index)
        jitter == Abs(interval - target)
        js     == Append(r.jitters, jitter)
        ss     == Append(r.sizes, size)
    IN  [intervals |-> LastN(all, n), interval_acc |-> acc,
         jitters |-> LastN(js, n),
         jitter_acc |-> r.jitter_acc + jitter - Sum(SubSeq(js, 1, Len(js) - n)),
         sizes |-> LastN(ss, n),
         size_acc |-> r.size_acc + size - Sum(SubSeq(ss, 1, Len(ss) - n)),
         ticks |-> r.ticks + 1, index |-> index, target |-> target, avg |-> avg,
         max_jitter |-> IF jitter > r.max_jitter THEN jitter ELSE r.max_jitter]

markSize(interval, size) ==
    /\ rate.ticks < MaxMarks
    /\ rate' = IF marked
                 THEN markInterval(rate, interval, size)
                 ELSE [rate EXCEPT !.ticks = @ + 1]
    /\ marked' = TRUE

(* variant: forgets the sums, and not the samples *)
resetSums ==
    /\ rate' = [rate EXCEPT !.index = 0, !.target = 0, !.avg = 0, !.max_jitter = 0,
                            !.interval_acc = 0]
    /\ marked' = FALSE

(* reset() keeps the samples of the window *)
reset ==
    /\ rate' = [rate EXCEPT !.index = 0, !.target = 0, !.avg = 0, !.max_jitter = 0]
    /\ marked' = FALSE

resetMaxJitter ==
    /\ rate' = [rate EXCEPT !.max_jitter = 0]
    /\ UNCHANGED marked

(* the divisor of isAtWindow() *)
ticksPerWindow == SampleWindow \div rate.target
=============================================================================
