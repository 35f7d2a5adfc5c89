------------------------ MODULE MCConditionalHandover ------------------------
(* Small instances of ConditionalHandover for TLC.                          *)
EXTENDS ConditionalHandover

CONSTANTS c1, c2

Levels == 0..2

M(c, x) == [cell |-> c, rsrp |-> x]
Lists == {<<>>} \cup { <<M(c, x)>> : c \in Cells, x \in Levels }
           \cup { <<M(p[1], x), M(p[2], y)>> :
                    p \in { q \in Cells \X Cells : q[1] # q[2] }, x \in Levels, y \in Levels }

\* Every report over three RSRP levels.
AllReports == [serving : {0, 1}, list : Lists]

TwoMargins == {0, 1}
=============================================================================
