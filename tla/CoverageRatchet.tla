--------------------------- MODULE CoverageRatchet ---------------------------
(***************************************************************************)
(* The coverage ratchet of the repository (tools/coverage_ratchet.py).     *)
(* Floors are in hundredths of a percent, as coverage-floor.json holds     *)
(* them; a coverage is the pair of counts it is computed from, so that     *)
(* comparing and rounding it lose nothing.                                 *)
(***************************************************************************)
EXTENDS Integers

Measures == {"line", "branch"}

\* Counts over the gated packages: hit and present lines, taken and possible
\* branches.
Counts == [covered : Nat, valid : Nat]
Reports == [Measures -> {c \in Counts : c.covered <= c.valid}]

Floors == [Measures -> Nat]

FloorFile == "coverage-floor.json"

\* INITIAL_LINE_FLOOR, INITIAL_BRANCH_FLOOR
InitialFloor == [m \in Measures |-> IF m = "line" THEN 8500 ELSE 7500]

\* Where nothing is counted, measure() returns 100 %.
Below(count, floor) ==
  IF count.valid = 0 THEN 10000 < floor ELSE 10000 * count.covered < floor * count.valid

\* round(pct, 2), for a pct that is no tie
Rounded(count) ==
  IF count.valid = 0 THEN 10000
  ELSE (20000 * count.covered + count.valid) \div (2 * count.valid)

\* No gated statement in the report: the ratchet is idle and passes.
Idle(report) == report["line"].valid = 0

Holds(report, floor) == Idle(report) \/ \A m \in Measures : ~Below(report[m], floor[m])

\* --update, once the ratchet holds; an idle one changes nothing.
Raised(report, floor) ==
  IF Idle(report) THEN floor
  ELSE [m \in Measures |->
          IF Rounded(report[m]) > floor[m] THEN Rounded(report[m]) ELSE floor[m]]
=============================================================================
