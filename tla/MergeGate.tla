------------------------------ MODULE MergeGate ------------------------------
(***************************************************************************)
(* A pull request of the repository: a branch made from main, edited by    *)
(* hand and by the two --update commands, and merged when the fixture      *)
(* gate, the guardrails and the coverage ratchet pass on it.  One branch   *)
(* at a time: main does not move while a branch is open.                   *)
(***************************************************************************)
EXTENDS BlastRadius, CoverageRatchet

CONSTANTS
  FirstFiles,        \* the tree that main starts with
  FirstReport,       \* its coverage
  CoverageReports,   \* what the tests of a branch may cover
  Radii,             \* what a pull request may declare
  HandFloors,        \* what somebody may write into coverage-floor.json
  MaxEdits,          \* bound on the steps of one branch
  MaxMerges          \* bound on the pull requests merged

ASSUME MergeAssumption ==
  /\ FirstFiles \in [Paths -> Contents \cup {Absent}]
  /\ CoverageReports \subseteq Reports /\ FirstReport \in CoverageReports
  /\ FloorFile \notin Paths
  /\ \A r \in Radii : r \subseteq Paths \cup {Manifest, FloorFile}
  /\ HandFloors \subseteq Floors
  /\ MaxEdits \in Nat /\ MaxMerges \in Nat

VARIABLES
  main,        \* files, manifest, coverage report and floor of main
  branch,      \* the same of the open branch
  explained,   \* "fixture-change:" is in a commit message of the branch, in any case
  declared,    \* the files the pull request may touch
  by_hand,     \* history: the branch wrote or removed coverage-floor.json by hand
  edits,       \* steps made on the branch
  merges       \* pull requests merged

vars == <<main, branch, explained, declared, by_hand, edits, merges>>

NoFloorFile == <<>>

\* load_floor()
FloorOf(tree) == IF tree.floor = NoFloorFile THEN InitialFloor ELSE tree.floor

Vouched(p) ==
  [Stub(p, FirstFiles[p]) EXCEPT !.form = "filled", !.verified = FirstFiles[p]]

FirstManifest == [i \in FileLines(FirstFiles) |-> Vouched(FixtureSeq[i])]

Init ==
  /\ main = [files |-> FirstFiles, manifest |-> FirstManifest, report |-> FirstReport,
             floor |-> InitialFloor]
  /\ branch = main
  /\ explained = FALSE /\ by_hand = FALSE
  /\ declared = {}
  /\ edits = 0 /\ merges = 0

Step == edits < MaxEdits /\ edits' = edits + 1 /\ UNCHANGED <<main, merges>>

Edit == Step /\ UNCHANGED declared

-----------------------------------------------------------------------------
(* Work on the branch                                                      *)

\* A file is added or its content changed.
WriteFile(p, c) ==
  /\ Edit /\ branch.files[p] # c
  /\ branch' = [branch EXCEPT !.files[p] = c]
  /\ UNCHANGED <<explained, by_hand>>

RemoveFile(p) ==
  /\ Edit /\ branch.files[p] # Absent
  /\ branch' = [branch EXCEPT !.files[p] = Absent]
  /\ UNCHANGED <<explained, by_hand>>

MoveFile(p, q) ==
  /\ Edit /\ branch.files[p] # Absent /\ branch.files[q] = Absent
  /\ branch' = [branch EXCEPT !.files[q] = branch.files[p], !.files[p] = Absent]
  /\ UNCHANGED <<explained, by_hand>>

\* check_fixtures.py --update
UpdateManifest ==
  /\ Edit
  /\ branch' = [branch EXCEPT !.manifest = Updated(branch.files, branch.manifest)]
  /\ UNCHANGED <<explained, by_hand>>

\* Somebody looks at the file that the entry describes and fills in its fields.
FillIn(i, form) ==
  /\ Edit
  /\ LET entry == branch.manifest[i]
         content == branch.files[entry.path]
     IN /\ content = entry.sha256
        /\ branch' = [branch EXCEPT !.manifest[i] =
                        [entry EXCEPT !.form = form, !.verified = content,
                                      !.rewritten = FALSE]]
  /\ UNCHANGED <<explained, by_hand>>

\* An entry ends up in the manifest twice, by a merge of text for example.
RepeatEntry(i, line) ==
  /\ Edit /\ line \notin DOMAIN branch.manifest
  /\ branch' = [branch EXCEPT !.manifest =
                  [j \in DOMAIN branch.manifest \cup {line} |->
                     IF j = line THEN branch.manifest[i] ELSE branch.manifest[j]]]
  /\ UNCHANGED <<explained, by_hand>>

RemoveEntry(i) ==
  /\ Edit
  /\ branch' = [branch EXCEPT !.manifest =
                  [j \in DOMAIN branch.manifest \ {i} |-> branch.manifest[j]]]
  /\ UNCHANGED <<explained, by_hand>>

Explain ==
  /\ Edit /\ ~explained
  /\ explained' = TRUE
  /\ UNCHANGED <<branch, by_hand>>

\* The body of the pull request names the files it may touch.
Declare(r) ==
  /\ Step /\ declared = {}
  /\ declared' = r
  /\ UNCHANGED <<branch, explained, by_hand>>

ChangeCoverage(r) ==
  /\ Edit /\ branch.report # r
  /\ branch' = [branch EXCEPT !.report = r]
  /\ UNCHANGED <<explained, by_hand>>

\* Mutant of RaiseFloor: the floor is set whether or not the ratchet holds.
SetFloor ==
  /\ Edit
  /\ branch' = [branch EXCEPT !.floor = [m \in Measures |-> Rounded(branch.report[m])]]
  /\ UNCHANGED <<explained, by_hand>>

\* coverage_ratchet.py --update
RaiseFloor ==
  /\ Edit /\ Holds(branch.report, FloorOf(branch))
  /\ LET raised == Raised(branch.report, FloorOf(branch)) IN
       branch' = IF raised = FloorOf(branch) THEN branch ELSE [branch EXCEPT !.floor = raised]
  /\ UNCHANGED <<explained, by_hand>>

\* Nothing but review keeps a branch from writing its own floor, or none.
WriteFloor(floor) ==
  /\ Edit /\ branch.floor # floor
  /\ branch' = [branch EXCEPT !.floor = floor]
  /\ by_hand' = TRUE
  /\ UNCHANGED explained

DropFloor ==
  /\ Edit /\ branch.floor # NoFloorFile
  /\ branch' = [branch EXCEPT !.floor = NoFloorFile]
  /\ by_hand' = TRUE
  /\ UNCHANGED explained

-----------------------------------------------------------------------------
(* The gates                                                               *)

\* The changes of the two files that the gates themselves read; their status
\* makes no difference.
RecordChanges ==
  (IF branch.manifest = main.manifest THEN {} ELSE {<<"M", Manifest>>})
    \cup (IF branch.floor = main.floor THEN {} ELSE {<<"M", FloorFile>>})

\* check_blast_radius.main(), with the renames that git reports
GuardrailsPass(from) ==
  LET changes == Changes(main.files, branch.files, from) \cup RecordChanges IN
    /\ ModifiedProtected(changes) # {} => explained
    /\ OutsideRadius(changes, declared) = {}

GatesPass ==
  /\ Faults(branch.files, branch.manifest) = {}
  /\ \E from \in Renames(main.files, branch.files) : GuardrailsPass(from)
  /\ Holds(branch.report, FloorOf(branch))

Merge ==
  /\ merges < MaxMerges /\ branch # main /\ GatesPass
  /\ main' = branch
  /\ explained' = FALSE /\ by_hand' = FALSE /\ declared' = {}
  /\ edits' = 0 /\ merges' = merges + 1
  /\ UNCHANGED branch

Next ==
  \/ \E p \in Paths, c \in Contents : WriteFile(p, c)
  \/ \E p \in Paths : RemoveFile(p)
  \/ \E p, q \in Paths : MoveFile(p, q)
  \/ UpdateManifest
  \/ \E i \in DOMAIN branch.manifest, form \in {"filled", "odd_origin"} : FillIn(i, form)
  \/ \E i \in DOMAIN branch.manifest, line \in Lines : RepeatEntry(i, line)
  \/ \E i \in DOMAIN branch.manifest : RemoveEntry(i)
  \/ Explain
  \/ \E r \in Radii : Declare(r)
  \/ \E r \in CoverageReports : ChangeCoverage(r)
  \/ RaiseFloor \/ DropFloor
  \/ \E floor \in HandFloors : WriteFloor(floor)
  \/ Merge

Spec == Init /\ [][Next]_vars

-----------------------------------------------------------------------------
(* Properties                                                              *)

Trees == [files : [Paths -> Contents \cup {Absent}], manifest : Manifests,
          report : CoverageReports, floor : Floors \cup {NoFloorFile}]

TypeOK ==
  /\ main \in Trees /\ branch \in Trees
  /\ explained \in BOOLEAN /\ by_hand \in BOOLEAN
  /\ declared \in Radii \cup {{}}
  /\ edits \in 0..MaxEdits /\ merges \in 0..MaxMerges

\* p left, under a new name in S that git reports.
MovedInto(S, from, p) == \E q \in S \cap DOMAIN from : from[q] = p

\* No oracle of main is changed or removed without the explanation, but for the
\* old names of the renames that git reports to paths that hold no oracles: of
\* those the gate sees the new name alone.
OraclesExplained ==
  [][main' # main =>
       \E from \in Renames(main.files, main'.files) :
         \A p \in Protected :
           main.files[p] # Absent /\ main'.files[p] # main.files[p] =>
             explained \/ MovedInto(Elsewhere, from, p)]_vars

\* A merge changes nothing outside a declared radius, the manifest and the floor
\* included, but for the old names of the renames to paths inside it.
RadiusRespected ==
  [][main' # main /\ declared # {} =>
       LET inside == declared \cup Paperwork IN
         /\ \E from \in Renames(main.files, main'.files) :
              \A p \in Paths \ inside :
                main'.files[p] # main.files[p] => MovedInto(inside, from, p)
         /\ main'.manifest # main.manifest => Manifest \in declared
         /\ main'.floor # main.floor => FloorFile \in declared]_vars

\* The content of every fixture on main is the one that the person named in
\* its entry looked at, unless --update has rewritten the hash since.
VouchedOrRewritten ==
  \A p \in OnDisk(main.files) :
    \E i \in DOMAIN main.manifest :
      /\ main.manifest[i].path = p
      /\ main.manifest[i].verified = main.files[p] \/ main.manifest[i].rewritten
      /\ main.manifest[i].form = "filled"

\* After --update the gate has nothing left to say but what a person must do:
\* fill in fields, or make a fixture smaller.
UpdateSettles ==
  [][UpdateManifest =>
       \A p \in Faults(branch'.files, branch'.manifest) :
         \/ branch'.files[p] \in Oversized
         \/ \E i \in DOMAIN branch'.manifest :
              branch'.manifest[i].path = p /\ branch'.manifest[i].form # "filled"]_vars

\* Coverage once locked in is not given back behind anybody's back: the floor of
\* main falls only where the branch edited coverage-floor.json by hand, and as
\* long as it does not fall, what a merge leaves on main is covered as well as
\* the floor that main had asked for (or has nothing to measure).
FloorStands == \A m \in Measures : FloorOf(main')[m] >= FloorOf(main)[m]

LockedIn ==
  [][main' # main =>
       /\ by_hand \/ FloorStands
       /\ FloorStands =>
            Idle(main'.report)
              \/ \A m \in Measures : ~Below(main'.report[m], FloorOf(main)[m])]_vars

-----------------------------------------------------------------------------
(* The inductive invariant behind VouchedOrRewritten and LockedIn.         *)

\* An entry that the gate lets pass carries the name of somebody who looked.
Signed(entry) ==
  entry.form = "filled" =>
    /\ entry.verified # Absent
    /\ entry.verified = entry.sha256 \/ entry.rewritten

SignedTree(tree) == \A i \in DOMAIN tree.manifest : Signed(tree.manifest[i])

FloorKept == by_hand \/ \A m \in Measures : FloorOf(branch)[m] >= FloorOf(main)[m]

MergeInv ==
  TypeOK /\ SignedTree(branch) /\ FloorKept /\ VouchedOrRewritten
=============================================================================
