-------------------------- MODULE MCChartCollections --------------------------
(* One chart with ids in any order, with and without history, in every     *)
(* mode, that is resized without trend lines; or two charts of one series  *)
(* and one point that share the budget and get and lose trend lines.       *)
EXTENDS ChartCollections, TLC

CONSTANTS c1, c2

AnyChart ==
    {Start(s, p, m, ls, lp, a) :
        s \in {<<>>, <<2>>, <<3, 2>>}, p \in {<<>>, <<2, 1>>},
        m \in Modes \cup {"none"}, ls \in {0, 3}, lp \in {0, 2},
        a \in {Absent, Undefined, 1, 2}}

NoChart == Start(<<>>, <<>>, "none", 0, 0, Absent)
SmallCharts == {NoChart, Start(<<2>>, <<1>>, "none", 0, 0, Absent),
                Start(<<2>>, <<>>, "source", 0, 0, Absent)}
MCForms == AnyChart \cup SmallCharts

OneChart ==
    /\ chart[c2] = NoChart
    /\ \A o \in Owners(chart[c1]) : chart[c1].nextTrend[o] = 1
TwoCharts ==
    \A n \in Charts : /\ chart[n].series \in {<<>>, <<2>>}
                      /\ chart[n].points \in {<<>>, <<1>>}
                      /\ chart[n].mode \in {"none", "source"}

InView == OneChart \/ TwoCharts

MCInit == Init /\ (chart[c2] = NoChart \/ \A n \in Charts : chart[n] \in SmallCharts)

MCNext == Next /\ InView'

MCSpec == MCInit /\ [][MCNext]_vars
=============================================================================
