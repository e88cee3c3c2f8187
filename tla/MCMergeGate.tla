----------------------------- MODULE MCMergeGate -----------------------------
EXTENDS MergeGate

CONSTANTS f1, f2, x1, o1, c1, c2, big

MCFixtureSeq == <<f1, f2>>

MCFirstFiles == [p \in Paths |-> IF p \in {f1, x1} THEN c1 ELSE Absent]

Report(line, branches) ==
  [m \in Measures |-> LET pair == IF m = "line" THEN line ELSE branches IN
                        [covered |-> pair[1], valid |-> pair[2]]]

\* 77.777... % of the branches, which rounds up; better branch coverage, which
\* rounds down; nothing recognised in the report.
RoundedUp == Report(<<9, 10>>, <<7, 9>>)
MCReports == {RoundedUp, Report(<<9, 10>>, <<5, 6>>), Report(<<0, 0>>, <<0, 0>>)}

\* o1 is one of the files every pull request may touch.
MCRadii == {{f1, f2, Manifest}, {x1, FloorFile}}

\* Written by hand: less than the first line floor; more than the first branch
\* floor, but less than either coverage of the branches would raise it to.
MCHandFloors == {[m \in Measures |-> IF m = "line" THEN 8000 ELSE 7600]}
=============================================================================
