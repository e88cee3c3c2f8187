----------------------------- MODULE BlastRadius -----------------------------
(***************************************************************************)
(* The guardrails of the repository (tools/check_blast_radius.py): which   *)
(* changes of a branch need an explanation in a commit message, and which  *)
(* lie outside the files its pull request declares.                        *)
(***************************************************************************)
EXTENDS FixtureGate

CONSTANTS
  Expected,      \* paths under tests/differential/expected/
  Elsewhere,     \* all other paths
  Paperwork      \* ALWAYS_ALLOWED

\* provenance.toml: under fixtures/, but one of NON_FIXTURE_NAMES.
Manifest == "provenance.toml"

Protected == Fixtures \cup Expected
Paths == Protected \cup Elsewhere

ASSUME RadiusAssumption ==
  /\ Paperwork \subseteq Elsewhere
  /\ Absent \notin Paths /\ Manifest \notin Paths

AddedIn(base, head) == {p \in Paths : base[p] = Absent /\ head[p] # Absent}
DeletedIn(base, head) == {p \in Paths : base[p] # Absent /\ head[p] = Absent}
ModifiedIn(base, head) ==
  {p \in Paths : base[p] # Absent /\ head[p] # Absent /\ base[p] # head[p]}

\* The rename detection of git diff: an added path may be the new name of a
\* deleted one.  Equal contents are always paired, similar ones may be.
Renames(base, head) ==
  LET added == AddedIn(base, head)
      deleted == DeletedIn(base, head)
  IN {from \in [added -> deleted \cup {Absent}] :
        /\ \A p, q \in added : from[p] = from[q] /\ p # q => from[p] = Absent
        /\ \A p \in added, q \in deleted :
             head[p] = base[q] => from[p] # Absent \/ \E r \in added : from[r] = q}

\* changed_files(): of a renamed file only the new name is kept.
Changes(base, head, from) ==
  {<<"M", p>> : p \in ModifiedIn(base, head)}
    \cup {<<IF from[p] = Absent THEN "A" ELSE "R", p>> : p \in AddedIn(base, head)}
    \cup {<<"D", p>> : p \in {q \in DeletedIn(base, head) :
                                \A r \in AddedIn(base, head) : from[r] # q}}

\* Mutant of ModifiedProtected: a removed oracle needs no explanation.
ModifiedOnly(changes) == {c[2] : c \in {d \in changes : d[1] = "M" /\ d[2] \in Protected}}

\* modified_protected_fixtures()
ModifiedProtected(changes) ==
  {c[2] : c \in {d \in changes : d[1] \in {"M", "D", "R"} /\ d[2] \in Protected}}

\* Mutant of OutsideRadius: only new files are held to the radius.
NewOutsideRadius(changes, declared) ==
  IF declared = {} THEN {}
  ELSE {c[2] : c \in {d \in changes : d[1] = "A"}} \ (declared \cup Paperwork)

\* A declaration names files; one that names none (no BLAST_RADIUS, no
\* "Allowed:" in it, an empty list) restricts nothing.
OutsideRadius(changes, declared) ==
  IF declared = {} THEN {} ELSE {c[2] : c \in changes} \ (declared \cup Paperwork)
=============================================================================
