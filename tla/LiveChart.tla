------------------------------ MODULE LiveChart ------------------------------
(***************************************************************************)
(* The tallies that responses and events carry, and what                   *)
(* components/LiveChart.jsx draws of one.                                  *)
(***************************************************************************)
EXTENDS Integers, FiniteSets

CONSTANT Options

ASSUME ChartAssumption == IsFiniteSet(Options)

\* results and total_votes, as the server sends them.
Tallies(Totals) == [total : Totals, results : [Options -> Nat]]
NoVotes == [total |-> 0, results |-> [o \in Options |-> 0]]
Counted(t, o) == [total |-> t.total + 1, results |-> [t.results EXCEPT ![o] = @ + 1]]

MaxCount(t) ==
    CHOOSE n \in {0} \cup {t.results[o] : o \in Options} :
        \A o \in Options : t.results[o] <= n

\* Math.round rounds a half up; the quotient is exact here, where a half in binary
\* floating point may come out just below it.
Percentage(t, o) ==
    IF t.total > 0 THEN (200 * t.results[o] + t.total) \div (2 * t.total) ELSE 0

Leaders(t) == {o \in Options : MaxCount(t) > 0 /\ t.results[o] = MaxCount(t)}

OneOf(T) == CHOOSE o \in T : TRUE

SumOver(f, S) ==
    LET sum[T \in SUBSET S] ==
            IF T = {} THEN 0 ELSE f[OneOf(T)] + sum[T \ {OneOf(T)}]
    IN  sum[S]

\* The chart is of one tally: the percentages add up to 100 but for what each loses
\* or gains in the rounding, and the leaders' bars are the longest.
DrawsATally(t) ==
    LET sum == SumOver([o \in Options |-> Percentage(t, o)], Options)
    IN  /\ t.total > 0 => 2 * (sum - 100) \in -Cardinality(Options) .. Cardinality(Options)
        /\ t.total > 0 <=> Leaders(t) # {}
        /\ \A l \in Leaders(t), o \in Options : Percentage(t, o) <= Percentage(t, l)

=============================================================================
