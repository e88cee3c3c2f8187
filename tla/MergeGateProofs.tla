--------------------------- MODULE MergeGateProofs ---------------------------
(***************************************************************************)
(* Proofs about MergeGate: for any fixtures, contents, coverage and number *)
(* of pull requests.                                                       *)
(***************************************************************************)
EXTENDS MergeGate, FiniteSetTheorems, WellFoundedInduction, TLAPS

-----------------------------------------------------------------------------
(* The gates, whatever the branch                                          *)

\* Every nonempty set of lines has a last one: mirrored, it has a first one.
LEMMA LastLine ==
  ASSUME NEW some \in SUBSET Lines, some # {}
  PROVE  \E i \in some : \A j \in some : j <= i
PROOF
  <1> DEFINE Mirror == {MaxLines - i : i \in some}
             Less == {pair \in Nat \X Nat : pair[1] < pair[2]}
  <1>1. MaxLines \in Nat /\ some \subseteq 1..MaxLines
    BY FixtureAssumption DEF Lines
  <1>2. Mirror \subseteq Nat
    BY <1>1
  <1>3. Mirror # {}
    OBVIOUS
  <1>4. IsWellFoundedOn(Less, Nat)
    <2>1. OpToRel(<, Nat) = Less
      BY Zenon DEF OpToRel
    <2> QED
      BY <2>1, NatLessThanWellFounded, Zenon
  <1> HIDE DEF Less
  <1>5. PICK first \in Mirror : \A m \in Mirror : <<m, first>> \notin Less
    <2> HIDE DEF Mirror
    <2> QED
      BY <1>2, <1>3, <1>4, WFMin, Zenon
  <1>6. PICK i \in some : first = MaxLines - i
    OBVIOUS
  <1>7. ASSUME NEW j \in some
        PROVE  j <= i
    <2>1. <<MaxLines - j, MaxLines - i>> \notin Less
      BY <1>5, <1>6
    <2>2. i \in 1..MaxLines /\ j \in 1..MaxLines /\ MaxLines - i \in Nat /\ MaxLines - j \in Nat
      BY <1>1
    <2> QED
      BY <1>1, <2>1, <2>2 DEF Less
  <1> QED
    BY <1>7

\* The lines that --update writes are lines of a manifest.
LEMMA FileLinesAreLines ==
  ASSUME NEW files
  PROVE  FileLines(files) \in SUBSET Lines
BY FixtureAssumption DEF FileLines, Lines

\* The last of the entries with a path is an entry with that path.
LEMMA ByPathIsEntry ==
  ASSUME NEW manifest \in Manifests, NEW p \in Recorded(manifest)
  PROVE  \E i \in Places(manifest, p) : ByPath(manifest, p) = manifest[i]
PROOF
  <1>1. Places(manifest, p) \in SUBSET Lines /\ Places(manifest, p) # {}
    BY DEF Manifests, Places, Recorded
  <1>2. PICK i \in Places(manifest, p) : \A j \in Places(manifest, p) : j <= i
    BY <1>1, LastLine
  <1> DEFINE last == CHOOSE k \in Places(manifest, p) : \A j \in Places(manifest, p) : j <= k
  <1>3. last \in Places(manifest, p)
    BY <1>2
  <1>4. ByPath(manifest, p) = manifest[last]
    BY DEF ByPath
  <1> QED
    BY <1>3, <1>4

\* A protected path that differs and needs no explanation went to a path that
\* is not protected.
LEMMA UnexplainedMoved ==
  ASSUME NEW base, NEW head, NEW from \in Renames(base, head), NEW more,
         ModifiedProtected(Changes(base, head, from) \cup more) = {},
         NEW p \in Protected, base[p] # Absent, head[p] # base[p]
  PROVE  MovedInto(Elsewhere, from, p)
PROOF
  <1> DEFINE changes == Changes(base, head, from) \cup more
  <1>0. DOMAIN from = AddedIn(base, head)
    BY DEF Renames
  <1>1. p \in Paths
    BY DEF Paths
  <1>2. \A status \in {"M", "D", "R"}, q \in Protected : <<status, q>> \notin changes
    BY DEF ModifiedProtected
  <1>3. head[p] = Absent
    <2>1. SUFFICES ASSUME head[p] # Absent PROVE FALSE
      OBVIOUS
    <2>2. p \in ModifiedIn(base, head)
      BY <1>1, <2>1 DEF ModifiedIn
    <2>3. <<"M", p>> \in changes
      BY <2>2 DEF Changes
    <2> QED
      BY <1>2, <2>3
  <1>4. p \in DeletedIn(base, head)
    BY <1>1, <1>3 DEF DeletedIn
  <1>5. PICK q \in AddedIn(base, head) : from[q] = p
    <2>1. SUFFICES ASSUME \A q \in AddedIn(base, head) : from[q] # p PROVE FALSE
      OBVIOUS
    <2>2. <<"D", p>> \in changes
      BY <1>4, <2>1 DEF Changes
    <2> QED
      BY <1>2, <2>2
  <1>6. from[q] # Absent
    BY <1>1, <1>5, RadiusAssumption
  <1>7. <<"R", q>> \in changes
    BY <1>5, <1>6 DEF Changes
  <1>8. q \in Elsewhere
    BY <1>2, <1>5, <1>7 DEF AddedIn, Paths
  <1> QED
    BY <1>0, <1>5, <1>8 DEF MovedInto

\* Where every change is inside some set of paths, a path outside that differs
\* went to a path inside.
LEMMA OutsideMoved ==
  ASSUME NEW base, NEW head, NEW from \in Renames(base, head), NEW inside,
         \A c \in Changes(base, head, from) : c[2] \in inside,
         NEW p \in Paths, p \notin inside, head[p] # base[p]
  PROVE  MovedInto(inside, from, p)
PROOF
  <1> DEFINE changes == Changes(base, head, from)
  <1>0. DOMAIN from = AddedIn(base, head)
    BY DEF Renames
  <1>1. \A c \in changes : c[2] \in inside
    OBVIOUS
  <1>2. \A status \in {"M", "D", "R", "A"} : <<status, p>> \notin changes
    BY <1>1
  <1>3. p \notin ModifiedIn(base, head)
    BY <1>2 DEF Changes
  <1>4. p \notin AddedIn(base, head)
    <2>1. SUFFICES ASSUME p \in AddedIn(base, head) PROVE FALSE
      OBVIOUS
    <2>2. <<IF from[p] = Absent THEN "A" ELSE "R", p>> \in changes
      BY <2>1 DEF Changes
    <2> QED
      BY <1>2, <2>2
  <1>5. head[p] = Absent /\ p \in DeletedIn(base, head)
    BY <1>3, <1>4 DEF ModifiedIn, AddedIn, DeletedIn
  <1>6. PICK q \in AddedIn(base, head) : from[q] = p
    <2>1. SUFFICES ASSUME \A q \in AddedIn(base, head) : from[q] # p PROVE FALSE
      OBVIOUS
    <2>2. <<"D", p>> \in changes
      BY <1>5, <2>1 DEF Changes
    <2> QED
      BY <1>2, <2>2
  <1>7. <<"R", q>> \in changes
    BY <1>6, RadiusAssumption DEF Changes
  <1>8. q \in inside
    BY <1>1, <1>7
  <1> QED
    BY <1>0, <1>6, <1>8 DEF MovedInto

\* Counts that are not below a floor are not below a lower one.
LEMMA BelowMonotone ==
  ASSUME NEW count \in Counts, NEW high \in Int, NEW low \in Int,
         low <= high, ~Below(count, high)
  PROVE  ~Below(count, low)
PROOF
  <1>1. count.covered \in Nat /\ count.valid \in Nat
    BY DEF Counts
  <1>2. CASE count.valid = 0
    BY <1>2 DEF Below
  <1>3. CASE count.valid # 0
    <2> DEFINE v == count.valid
               c == count.covered
    <2>1. 10000 * c >= high * v
      BY <1>1, <1>3 DEF Below
    <2>2. low * v <= high * v
      BY <1>1
    <2>3. 10000 * c >= low * v
      BY <1>1, <2>1, <2>2
    <2> QED
      BY <1>1, <1>3, <2>3 DEF Below
  <1> QED
    BY <1>2, <1>3

LEMMA RoundedType ==
  ASSUME NEW count \in Counts
  PROVE  Rounded(count) \in Nat
PROOF
  <1>1. count.covered \in Nat /\ count.valid \in Nat
    BY DEF Counts
  <1>2. \A a \in Nat, b \in Nat \ {0} : a \div b \in Nat
    OBVIOUS
  <1>3. CASE count.valid = 0
    BY <1>3 DEF Rounded
  <1>4. CASE count.valid # 0
    <2>1. 20000 * count.covered + count.valid \in Nat /\ 2 * count.valid \in Nat \ {0}
      BY <1>1, <1>4
    <2>2. Rounded(count) = (20000 * count.covered + count.valid) \div (2 * count.valid)
      BY <1>4 DEF Rounded
    <2> QED
      BY <1>2, <2>1, <2>2
  <1> QED
    BY <1>3, <1>4

-----------------------------------------------------------------------------
(* The types                                                               *)

LEMMA UpdatedType ==
  ASSUME NEW files \in [Paths -> Contents \cup {Absent}], NEW manifest \in Manifests
  PROVE  Updated(files, manifest) \in Manifests
PROOF
  <1>1. FileLines(files) \in SUBSET Lines
    BY FileLinesAreLines
  <1>2. SUFFICES ASSUME NEW i \in FileLines(files)
                 PROVE  EntryFor(FixtureSeq[i], files, manifest) \in Entries
    BY <1>1 DEF Updated, Manifests
  <1> DEFINE p == FixtureSeq[i]
  <1>3. p \in Fixtures /\ files[p] \in Contents
    BY <1>2 DEF FileLines, Fixtures, Paths, Protected
  <1> HIDE DEF p
  <1>4. CASE p \in Recorded(manifest)
    <2>1. PICK j \in Places(manifest, p) : ByPath(manifest, p) = manifest[j]
      BY <1>4, ByPathIsEntry
    <2>2. ByPath(manifest, p) \in Entries
      BY <2>1 DEF Manifests, Places
    <2>3. Refreshed(ByPath(manifest, p), files[p]) \in Entries
      BY <1>3, <2>2 DEF Refreshed, Entries
    <2> QED
      BY <1>4, <2>3 DEF EntryFor, p
  <1>5. CASE p \notin Recorded(manifest)
    <2>1. Stub(p, files[p]) \in Entries
      BY <1>3 DEF Stub, Entries
    <2> QED
      BY <1>5, <2>1 DEF EntryFor, p
  <1> QED
    BY <1>4, <1>5

\* The entry that update() writes for a path has this path and the hash of its
\* file.
LEMMA EntryForPath ==
  ASSUME NEW f \in [Paths -> Contents \cup {Absent}], NEW m \in Manifests, NEW p \in Fixtures
  PROVE  EntryFor(p, f, m).path = p /\ EntryFor(p, f, m).sha256 = f[p]
PROOF
  <1>1. CASE p \in Recorded(m)
    <2>1. PICK j \in Places(m, p) : ByPath(m, p) = m[j]
      BY <1>1, ByPathIsEntry
    <2>2. ByPath(m, p) \in Entries /\ ByPath(m, p).path = p
      BY <2>1 DEF Manifests, Places
    <2>3. Refreshed(ByPath(m, p), f[p]).path = p /\ Refreshed(ByPath(m, p), f[p]).sha256 = f[p]
      BY <2>2 DEF Refreshed, Entries
    <2> QED
      BY <1>1, <2>3 DEF EntryFor
  <1>2. CASE p \notin Recorded(m)
    BY <1>2 DEF EntryFor, Stub
  <1> QED
    BY <1>1, <1>2

\* After update() the gate finds fault with nothing but fields and sizes.
LEMMA UpdateMends ==
  ASSUME NEW f \in [Paths -> Contents \cup {Absent}], NEW m \in Manifests,
         NEW p \in Faults(f, Updated(f, m))
  PROVE  \/ f[p] \in Oversized
         \/ \E i \in DOMAIN Updated(f, m) :
              Updated(f, m)[i].path = p /\ Updated(f, m)[i].form # "filled"
PROOF
  <1> DEFINE new == Updated(f, m)
  <1>1. new \in Manifests
    BY UpdatedType
  <1>2. /\ DOMAIN new = FileLines(f)
        /\ \A k \in FileLines(f) : new[k].path = FixtureSeq[k] /\ new[k].sha256 = f[FixtureSeq[k]]
    <2>1. \A k \in FileLines(f) : FixtureSeq[k] \in Fixtures
      BY DEF FileLines, Fixtures
    <2> QED
      BY <2>1, EntryForPath DEF Updated
  <1>3. Recorded(new) = OnDisk(f)
    BY <1>2 DEF Recorded, OnDisk, FileLines, Fixtures
  <1>4. \A q \in Fixtures : Cardinality(Places(new, q)) \in {0, 1}
    <2>1. SUFFICES ASSUME NEW q \in Fixtures PROVE Cardinality(Places(new, q)) \in {0, 1}
      OBVIOUS
    <2>2. \A i, j \in Places(new, q) : i = j
      BY <1>2, FixtureAssumption DEF Places, FileLines, IsInjective
    <2>3. Places(new, q) = {} \/ \E i : Places(new, q) = {i}
      BY <2>2
    <2> QED
      BY <2>3, FS_EmptySet, FS_Singleton
  <1> HIDE DEF new
  <1>5. p \in OnDisk(f) /\ WrongIn(ByPath(new, p), f[p])
    <2>1. p \in Fixtures => ~(Cardinality(Places(new, p)) > 1)
      BY <1>4
    <2> QED
      BY <1>3, <2>1 DEF Faults, new
  <1>6. PICK i \in Places(new, p) : ByPath(new, p) = new[i]
    BY <1>1, <1>3, <1>5, ByPathIsEntry
  <1>7. i \in DOMAIN new /\ new[i].path = p /\ new[i].sha256 = f[p]
    BY <1>2, <1>6 DEF Places
  <1>8. new[i].form # "filled" \/ f[p] \in Oversized
    BY <1>5, <1>6, <1>7 DEF WrongIn
  <1> QED
    BY <1>7, <1>8 DEF new

LEMMA RaisedType ==
  ASSUME NEW r \in CoverageReports, NEW low \in Floors
  PROVE  Raised(r, low) \in Floors /\ \A m \in Measures : Raised(r, low)[m] >= low[m]
PROOF
  <1>1. \A m \in Measures : Rounded(r[m]) \in Nat
    BY RoundedType, MergeAssumption DEF Reports
  <1>2. \A m \in Measures : low[m] \in Nat
    BY DEF Floors
  <1> QED
    BY <1>1, <1>2 DEF Raised, Floors

LEMMA InitialFloorType == InitialFloor \in Floors
BY DEF InitialFloor, Floors

LEMMA FloorType ==
  ASSUME NEW tree \in Trees
  PROVE  FloorOf(tree) \in Floors
BY InitialFloorType DEF FloorOf, Trees

LEMMA SetFiles ==
  ASSUME NEW tree \in Trees, NEW f \in [Paths -> Contents \cup {Absent}]
  PROVE  [tree EXCEPT !.files = f] \in Trees
BY DEF Trees

LEMMA SetManifest ==
  ASSUME NEW tree \in Trees, NEW m \in Manifests
  PROVE  /\ [tree EXCEPT !.manifest = m] \in Trees
         /\ [tree EXCEPT !.manifest = m].manifest = m
BY DEF Trees

LEMMA SetReport ==
  ASSUME NEW tree \in Trees, NEW r \in CoverageReports
  PROVE  [tree EXCEPT !.report = r] \in Trees
BY DEF Trees

LEMMA SetFloorTo ==
  ASSUME NEW tree \in Trees, NEW low \in Floors \cup {NoFloorFile}
  PROVE  [tree EXCEPT !.floor = low] \in Trees
BY DEF Trees

LEMMA FirstTreeType == Init => branch \in Trees
PROOF
  <1> SUFFICES ASSUME Init PROVE branch \in Trees
    OBVIOUS
  <1>1. InitialFloor \in Floors
    BY InitialFloorType
  <1>2. FirstManifest \in [FileLines(FirstFiles) -> Entries]
    <2>1. SUFFICES ASSUME NEW i \in FileLines(FirstFiles)
                   PROVE  Vouched(FixtureSeq[i]) \in Entries
      BY DEF FirstManifest
    <2>2. FixtureSeq[i] \in Fixtures /\ FirstFiles[FixtureSeq[i]] \in Contents
      BY <2>1, MergeAssumption DEF FileLines, Fixtures, Paths, Protected
    <2> QED
      BY <2>2 DEF Vouched, Stub, Entries
  <1>3. FirstManifest \in Manifests
    BY <1>2, FileLinesAreLines DEF Manifests
  <1> QED
    BY <1>1, <1>3, MergeAssumption DEF Init, Trees

\* Every step of the branch leaves it a tree.
LEMMA BranchType ==
  ASSUME TypeOK, Next
  PROVE  branch' \in Trees
PROOF
  <1>1. branch \in Trees
    BY DEF TypeOK
  <1>2. /\ branch.files \in [Paths -> Contents \cup {Absent}]
        /\ branch.manifest \in Manifests
    BY <1>1 DEF Trees
  <1>3. ASSUME NEW p \in Paths, NEW c \in Contents, WriteFile(p, c)
        PROVE  branch' \in Trees
    <2>1. [branch.files EXCEPT ![p] = c] \in [Paths -> Contents \cup {Absent}]
      BY <1>2
    <2>2. branch' = [branch EXCEPT !.files = [branch.files EXCEPT ![p] = c]]
      BY <1>3 DEF WriteFile
    <2> QED
      BY <1>1, <2>1, <2>2, SetFiles
  <1>4. ASSUME NEW p \in Paths, RemoveFile(p)
        PROVE  branch' \in Trees
    <2>1. [branch.files EXCEPT ![p] = Absent] \in [Paths -> Contents \cup {Absent}]
      BY <1>2
    <2>2. branch' = [branch EXCEPT !.files = [branch.files EXCEPT ![p] = Absent]]
      BY <1>4 DEF RemoveFile
    <2> QED
      BY <1>1, <2>1, <2>2, SetFiles
  <1>5. ASSUME NEW p \in Paths, NEW q \in Paths, MoveFile(p, q)
        PROVE  branch' \in Trees
    <2> DEFINE moved == [branch.files EXCEPT ![q] = branch.files[p], ![p] = Absent]
    <2>1. moved \in [Paths -> Contents \cup {Absent}]
      BY <1>2
    <2>2. branch' = [branch EXCEPT !.files = moved]
      BY <1>5 DEF MoveFile
    <2> QED
      BY <1>1, <2>1, <2>2, SetFiles
  <1>6. CASE UpdateManifest
    BY <1>1, <1>2, <1>6, UpdatedType, SetManifest DEF UpdateManifest
  <1>7. ASSUME NEW i \in DOMAIN branch.manifest, NEW form \in {"filled", "odd_origin"},
               FillIn(i, form)
        PROVE  branch' \in Trees
    <2> DEFINE entry == branch.manifest[i]
               filled == [entry EXCEPT !.form = form, !.verified = branch.files[entry.path],
                                       !.rewritten = FALSE]
               manifest == [branch.manifest EXCEPT ![i] = filled]
    <2>1. entry \in Entries
      BY <1>2 DEF Manifests
    <2>2. filled \in Entries
      BY <1>2, <1>7, <2>1 DEF FillIn, Entries
    <2>3. manifest \in Manifests
      BY <1>2, <2>2 DEF Manifests
    <2>4. branch' = [branch EXCEPT !.manifest = manifest]
      BY <1>7 DEF FillIn
    <2> QED
      BY <1>1, <2>3, <2>4, SetManifest
  <1>8. ASSUME NEW i \in DOMAIN branch.manifest, NEW line \in Lines, RepeatEntry(i, line)
        PROVE  branch' \in Trees
    <2> DEFINE manifest == [j \in DOMAIN branch.manifest \cup {line} |->
                              IF j = line THEN branch.manifest[i] ELSE branch.manifest[j]]
    <2>1. PICK lines \in SUBSET Lines : branch.manifest \in [lines -> Entries]
      BY <1>2 DEF Manifests
    <2>2. manifest \in [lines \cup {line} -> Entries]
      BY <2>1
    <2>3. manifest \in Manifests
      BY <2>2 DEF Manifests
    <2> QED
      BY <1>1, <1>8, <2>3, SetManifest DEF RepeatEntry
  <1>9. ASSUME NEW i \in DOMAIN branch.manifest, RemoveEntry(i)
        PROVE  branch' \in Trees
    <2> DEFINE manifest == [j \in DOMAIN branch.manifest \ {i} |-> branch.manifest[j]]
    <2>1. PICK lines \in SUBSET Lines : branch.manifest \in [lines -> Entries]
      BY <1>2 DEF Manifests
    <2>2. manifest \in [lines \ {i} -> Entries]
      BY <2>1
    <2>3. manifest \in Manifests
      BY <2>2 DEF Manifests
    <2> QED
      BY <1>1, <1>9, <2>3, SetManifest DEF RemoveEntry
  <1>10. CASE Explain \/ (\E r \in Radii : Declare(r)) \/ Merge
    BY <1>1, <1>10 DEF Explain, Declare, Merge
  <1>11. ASSUME NEW r \in CoverageReports, ChangeCoverage(r)
         PROVE  branch' \in Trees
    BY <1>1, <1>11, SetReport DEF ChangeCoverage
  <1>12. CASE RaiseFloor
    <2>1. Raised(branch.report, FloorOf(branch)) \in Floors
      <3>1. branch.report \in CoverageReports
        BY <1>1 DEF Trees
      <3> QED
        BY <1>1, <3>1, FloorType, RaisedType
    <2> QED
      BY <1>1, <1>12, <2>1, SetFloorTo DEF RaiseFloor
  <1>13. CASE DropFloor
    BY <1>1, <1>13, SetFloorTo DEF DropFloor
  <1>14. ASSUME NEW floor \in HandFloors, WriteFloor(floor)
         PROVE  branch' \in Trees
    <2>1. floor \in Floors
      BY MergeAssumption
    <2> QED
      BY <1>1, <1>14, <2>1, SetFloorTo DEF WriteFloor
  <1> QED
    BY <1>3, <1>4, <1>5, <1>6, <1>7, <1>8, <1>9, <1>10, <1>11, <1>12, <1>13, <1>14 DEF Next

LEMMA TypeStep ==
  ASSUME TypeOK, [Next]_vars
  PROVE  TypeOK'
PROOF
  <1>1. CASE UNCHANGED vars
    BY <1>1 DEF TypeOK, vars
  <1>2. CASE Next
    <2>1. branch' \in Trees
      BY <1>2, BranchType
    <2>2. main' \in Trees
      <3>1. main' = main \/ main' = branch
        BY <1>2 DEF Next, Edit, Step, WriteFile, RemoveFile, MoveFile, UpdateManifest, FillIn,
           RepeatEntry, RemoveEntry, Explain, Declare, ChangeCoverage, RaiseFloor, DropFloor,
           WriteFloor, Merge
      <3> QED
        BY <3>1 DEF TypeOK
    <2>3. CASE Merge
      <3>1. explained' = FALSE /\ by_hand' = FALSE /\ declared' = {}
        BY <2>3 DEF Merge
      <3>2. edits' \in 0..MaxEdits /\ merges' \in 0..MaxMerges
        BY <2>3, MergeAssumption DEF TypeOK, Merge
      <3> QED
        BY <2>1, <2>2, <3>1, <3>2 DEF TypeOK
    <2>4. ASSUME NEW r \in Radii, Declare(r)
          PROVE  TypeOK'
      <3>1. explained' = explained /\ by_hand' = by_hand /\ merges' = merges
        BY <2>4 DEF Declare, Step
      <3>2. declared' \in Radii
        BY <2>4 DEF Declare
      <3>3. edits' \in 0..MaxEdits
        BY <2>4, MergeAssumption DEF TypeOK, Declare, Step
      <3> QED
        BY <2>1, <2>2, <3>1, <3>2, <3>3 DEF TypeOK
    <2>5. CASE Edit
      <3>1. explained' \in BOOLEAN /\ by_hand' \in BOOLEAN
        BY <1>2, <2>5, Zenon
        DEF TypeOK, Next, WriteFile, RemoveFile, MoveFile, UpdateManifest, FillIn, RepeatEntry,
            RemoveEntry, Explain, Declare, ChangeCoverage, RaiseFloor, DropFloor, WriteFloor,
            Merge
      <3> QED
        BY <2>1, <2>2, <2>5, <3>1, MergeAssumption DEF TypeOK, Edit, Step
    <2>6. Edit \/ Merge \/ \E r \in Radii : Declare(r)
      BY <1>2
      DEF Next, WriteFile, RemoveFile, MoveFile, UpdateManifest, FillIn, RepeatEntry,
          RemoveEntry, Explain, ChangeCoverage, RaiseFloor, DropFloor, WriteFloor
    <2> QED
      BY <2>3, <2>4, <2>5, <2>6
  <1> QED
    BY <1>1, <1>2

-----------------------------------------------------------------------------
(* Who looked at what                                                      *)

LEMMA InitSigned == Init => SignedTree(branch) /\ VouchedOrRewritten
PROOF
  <1> SUFFICES ASSUME Init PROVE SignedTree(branch) /\ VouchedOrRewritten
    OBVIOUS
  <1>1. branch.manifest = FirstManifest /\ main.manifest = FirstManifest /\ main.files = FirstFiles
    BY DEF Init
  <1>2. \A i \in DOMAIN FirstManifest :
          LET p == FixtureSeq[i]
              entry == FirstManifest[i]
          IN /\ entry.path = p /\ entry.sha256 = FirstFiles[p] /\ entry.form = "filled"
             /\ entry.verified = FirstFiles[p] /\ FirstFiles[p] # Absent
    BY DEF FirstManifest, FileLines, Vouched, Stub
  <1>3. SignedTree(branch)
    BY <1>1, <1>2 DEF SignedTree, Signed
  <1>4. VouchedOrRewritten
    <2>1. SUFFICES ASSUME NEW p \in OnDisk(FirstFiles)
                   PROVE  \E i \in DOMAIN FirstManifest : FixtureSeq[i] = p
      BY <1>1, <1>2 DEF VouchedOrRewritten
    <2> QED
      BY <2>1 DEF OnDisk, Fixtures, FirstManifest, FileLines
  <1> QED
    BY <1>3, <1>4

\* --update leaves signed what was signed.
LEMMA UpdatedSigned ==
  ASSUME NEW f, NEW m \in Manifests, \A i \in DOMAIN m : Signed(m[i]),
         NEW k \in FileLines(f)
  PROVE  Signed(EntryFor(FixtureSeq[k], f, m))
PROOF
  <1> DEFINE p == FixtureSeq[k]
  <1>1. CASE p \in Recorded(m)
    <2>1. PICK j \in Places(m, p) : ByPath(m, p) = m[j]
      BY <1>1, ByPathIsEntry
    <2> DEFINE old == ByPath(m, p)
               new == Refreshed(old, f[p])
    <2>2. old \in Entries /\ Signed(old)
      BY <2>1 DEF Manifests, Places
    <2>3. /\ new.form = old.form /\ new.verified = old.verified /\ new.sha256 = f[p]
          /\ new.rewritten = (old.rewritten \/ (old.verified # Absent /\ old.sha256 # f[p]))
      BY <2>2 DEF Refreshed, Entries
    <2>4. Signed(new)
      <3> HIDE DEF old, new
      <3> QED
        BY <2>2, <2>3 DEF Signed
    <2> QED
      BY <1>1, <2>4 DEF EntryFor
  <1>2. CASE p \notin Recorded(m)
    BY <1>2 DEF EntryFor, Stub, Signed
  <1> QED
    BY <1>1, <1>2

LEMMA SignedStep ==
  ASSUME TypeOK, SignedTree(branch), Next
  PROVE  SignedTree(branch)'
PROOF
  <1>1. branch \in Trees /\ branch.manifest \in Manifests
    BY DEF TypeOK, Trees
  <1>2. \A i \in DOMAIN branch.manifest : Signed(branch.manifest[i])
    BY DEF SignedTree
  <1>3. SUFFICES \A i \in DOMAIN branch'.manifest : Signed(branch'.manifest[i])
    BY DEF SignedTree, Signed
  <1>4. CASE UpdateManifest
    <2>1. branch'.manifest = Updated(branch.files, branch.manifest)
      BY <1>1, <1>4, UpdatedType, SetManifest DEF UpdateManifest, Trees
    <2> QED
      BY <1>1, <1>2, <2>1, UpdatedSigned DEF Updated
  <1>5. ASSUME NEW i \in DOMAIN branch.manifest, NEW form \in {"filled", "odd_origin"},
               FillIn(i, form)
        PROVE  \A j \in DOMAIN branch'.manifest : Signed(branch'.manifest[j])
    <2> DEFINE entry == branch.manifest[i]
               filled == [entry EXCEPT !.form = form, !.verified = branch.files[entry.path],
                                       !.rewritten = FALSE]
    <2>1. entry \in Entries /\ branch.files[entry.path] = entry.sha256
      BY <1>1, <1>5 DEF Manifests, FillIn
    <2>2. filled.verified = entry.sha256 /\ filled.sha256 = entry.sha256
          /\ entry.sha256 # Absent
      BY <2>1, FixtureAssumption DEF Entries
    <2>3. Signed(filled)
      BY <2>2 DEF Signed
    <2>4. branch'.manifest = [branch.manifest EXCEPT ![i] = filled]
      BY <1>1, <1>5 DEF FillIn, Trees
    <2> QED
      BY <1>2, <2>3, <2>4
  <1>6. ASSUME NEW i \in DOMAIN branch.manifest, NEW line \in Lines, RepeatEntry(i, line)
        PROVE  \A j \in DOMAIN branch'.manifest : Signed(branch'.manifest[j])
    <2>1. branch'.manifest = [j \in DOMAIN branch.manifest \cup {line} |->
                                IF j = line THEN branch.manifest[i] ELSE branch.manifest[j]]
      BY <1>1, <1>6 DEF RepeatEntry, Trees
    <2> QED
      BY <1>2, <2>1
  <1>7. ASSUME NEW i \in DOMAIN branch.manifest, RemoveEntry(i)
        PROVE  \A j \in DOMAIN branch'.manifest : Signed(branch'.manifest[j])
    <2>1. branch'.manifest = [j \in DOMAIN branch.manifest \ {i} |-> branch.manifest[j]]
      BY <1>1, <1>7 DEF RemoveEntry, Trees
    <2> QED
      BY <1>2, <2>1
  <1>8. ASSUME branch'.manifest = branch.manifest
        PROVE  \A j \in DOMAIN branch'.manifest : Signed(branch'.manifest[j])
    BY <1>2, <1>8
  <1>9. CASE \/ \E p \in Paths, c \in Contents : WriteFile(p, c)
             \/ \E p \in Paths : RemoveFile(p)
             \/ \E p, q \in Paths : MoveFile(p, q)
    <2>1. branch'.manifest = branch.manifest
      BY <1>1, <1>9 DEF WriteFile, RemoveFile, MoveFile, Trees
    <2> QED
      BY <1>8, <2>1
  <1>10. CASE \/ \E r \in CoverageReports : ChangeCoverage(r)
              \/ RaiseFloor \/ DropFloor \/ \E floor \in HandFloors : WriteFloor(floor)
    <2>1. branch'.manifest = branch.manifest
      BY <1>1, <1>10 DEF ChangeCoverage, RaiseFloor, DropFloor, WriteFloor, Trees
    <2> QED
      BY <1>8, <2>1
  <1>11. CASE Explain \/ Merge \/ \E r \in Radii : Declare(r)
    BY <1>8, <1>11 DEF Explain, Merge, Declare
  <1> QED
    BY <1>4, <1>5, <1>6, <1>7, <1>9, <1>10, <1>11 DEF Next

\* What the gate lets pass is signed for.
LEMMA MergedVouched ==
  ASSUME TypeOK, SignedTree(branch), Merge
  PROVE  VouchedOrRewritten'
PROOF
  <1>1. main' = branch /\ Faults(branch.files, branch.manifest) = {}
    BY DEF Merge, GatesPass
  <1>2. branch.manifest \in Manifests
    BY DEF TypeOK, Trees
  <1>3. SUFFICES ASSUME NEW p \in OnDisk(branch.files)
                 PROVE  \E i \in DOMAIN branch.manifest :
                          /\ branch.manifest[i].path = p
                          /\ \/ branch.manifest[i].verified = branch.files[p]
                             \/ branch.manifest[i].rewritten
                          /\ branch.manifest[i].form = "filled"
    BY <1>1 DEF VouchedOrRewritten
  <1>4. p \in Fixtures
    BY <1>3 DEF OnDisk
  <1>5. p \in Recorded(branch.manifest)
    BY <1>1, <1>3, <1>4 DEF Faults
  <1>6. ~WrongIn(ByPath(branch.manifest, p), branch.files[p])
    BY <1>1, <1>3, <1>4, <1>5 DEF Faults
  <1>7. PICK i \in Places(branch.manifest, p) : ByPath(branch.manifest, p) = branch.manifest[i]
    BY <1>2, <1>5, ByPathIsEntry
  <1> DEFINE entry == branch.manifest[i]
  <1>8. i \in DOMAIN branch.manifest /\ entry.path = p /\ entry \in Entries
    BY <1>2, <1>7 DEF Places, Manifests
  <1>9. Signed(entry)
    BY <1>8 DEF SignedTree
  <1>10. entry.form = "filled" /\ entry.sha256 = branch.files[p]
    <2>1. entry.form \in {"blank", "odd_origin", "filled"}
      BY <1>8 DEF Entries
    <2> QED
      BY <1>6, <1>7, <2>1 DEF WrongIn
  <1> QED
    BY <1>8, <1>9, <1>10 DEF Signed

-----------------------------------------------------------------------------
(* The floor                                                               *)

LEMMA InitFloor == Init => FloorKept
PROOF
  <1> SUFFICES ASSUME Init PROVE FloorKept
    OBVIOUS
  <1>1. branch = main /\ FloorOf(main) \in Floors
    BY InitialFloorType DEF Init, FloorOf
  <1> QED
    BY <1>1 DEF FloorKept, Floors

LEMMA FloorStep ==
  ASSUME TypeOK, FloorKept, Next
  PROVE  FloorKept'
PROOF
  <1>1. branch \in Trees /\ main \in Trees /\ branch.report \in CoverageReports
    BY DEF TypeOK, Trees
  <1>2. /\ FloorOf(branch) \in Floors /\ FloorOf(main) \in Floors
    BY <1>1, FloorType
  <1>3. ASSUME branch'.floor = branch.floor, main' = main, by_hand' = by_hand
        PROVE  FloorKept'
    BY <1>3 DEF FloorKept, FloorOf
  <1>4. CASE \/ \E p \in Paths, c \in Contents : WriteFile(p, c)
             \/ \E p \in Paths : RemoveFile(p)
             \/ \E p, q \in Paths : MoveFile(p, q)
    BY <1>1, <1>3, <1>4 DEF WriteFile, RemoveFile, MoveFile, Edit, Step, Trees
  <1>5. CASE \/ UpdateManifest
             \/ \E i \in DOMAIN branch.manifest, form \in {"filled", "odd_origin"} :
                  FillIn(i, form)
             \/ \E i \in DOMAIN branch.manifest, line \in Lines : RepeatEntry(i, line)
             \/ \E i \in DOMAIN branch.manifest : RemoveEntry(i)
    BY <1>1, <1>3, <1>5 DEF UpdateManifest, FillIn, RepeatEntry, RemoveEntry, Edit, Step, Trees
  <1>6. CASE Explain \/ \E r \in Radii : Declare(r)
    BY <1>3, <1>6 DEF Explain, Declare, Edit, Step
  <1>7. CASE \E r \in CoverageReports : ChangeCoverage(r)
    BY <1>1, <1>3, <1>7 DEF ChangeCoverage, Edit, Step, Trees
  <1>8. CASE RaiseFloor
    <2> DEFINE raised == Raised(branch.report, FloorOf(branch))
    <2>1. main' = main /\ by_hand' = by_hand
      BY <1>8 DEF RaiseFloor, Edit, Step
    <2>2. raised \in Floors /\ \A m \in Measures : raised[m] >= FloorOf(branch)[m]
      BY <1>1, <1>2, RaisedType
    <2>3. FloorOf(branch)' = raised
      <3>1. CASE raised = FloorOf(branch)
        BY <1>8, <3>1 DEF RaiseFloor, FloorOf
      <3>2. CASE raised # FloorOf(branch)
        <4>1. branch'.floor = raised
          BY <1>1, <1>8, <3>2 DEF RaiseFloor, Trees
        <4>2. raised # NoFloorFile
          <5>1. DOMAIN raised = Measures /\ Measures # {}
            BY <2>2 DEF Floors, Measures
          <5>2. DOMAIN NoFloorFile = {}
            BY DEF NoFloorFile
          <5> QED
            BY <5>1, <5>2
        <4> QED
          BY <4>1, <4>2 DEF FloorOf
      <3> QED
        BY <3>1, <3>2
    <2>4. CASE by_hand
      BY <2>1, <2>4 DEF FloorKept
    <2>5. CASE ~by_hand
      <3>1. \A m \in Measures : raised[m] >= FloorOf(main)[m]
        <4>1. \A m \in Measures :
                /\ raised[m] \in Nat /\ FloorOf(branch)[m] \in Nat /\ FloorOf(main)[m] \in Nat
                /\ raised[m] >= FloorOf(branch)[m] /\ FloorOf(branch)[m] >= FloorOf(main)[m]
          BY <1>2, <2>2, <2>5 DEF FloorKept, Floors
        <4> HIDE DEF raised
        <4> QED
          BY <4>1
      <3>2. FloorOf(main)' = FloorOf(main)
        BY <2>1 DEF FloorOf
      <3> QED
        BY <2>3, <3>1, <3>2 DEF FloorKept
    <2> QED
      BY <2>4, <2>5
  <1>9. CASE DropFloor \/ \E floor \in HandFloors : WriteFloor(floor)
    BY <1>9 DEF DropFloor, WriteFloor, FloorKept
  <1>10. CASE Merge
    <2>1. main' = branch /\ branch' = branch
      BY <1>10 DEF Merge
    <2>2. FloorOf(main)' = FloorOf(branch) /\ FloorOf(branch)' = FloorOf(branch)
      BY <2>1 DEF FloorOf
    <2>3. \A m \in Measures : FloorOf(branch)[m] >= FloorOf(branch)[m]
      BY <1>2 DEF Floors
    <2> QED
      BY <2>2, <2>3 DEF FloorKept
  <1> QED
    BY <1>4, <1>5, <1>6, <1>7, <1>8, <1>9, <1>10 DEF Next

-----------------------------------------------------------------------------
(* The theorems                                                            *)

LEMMA MainMovesByMerge ==
  ASSUME [Next]_vars, main' # main
  PROVE  Merge
BY DEF vars, Next, Edit, Step, WriteFile, RemoveFile, MoveFile, UpdateManifest, FillIn,
   RepeatEntry, RemoveEntry, Explain, Declare, ChangeCoverage, RaiseFloor, DropFloor, WriteFloor

LEMMA MergeInvInit == Init => MergeInv
PROOF
  <1> SUFFICES ASSUME Init PROVE MergeInv
    OBVIOUS
  <1>1. branch \in Trees /\ main = branch
    BY FirstTreeType DEF Init
  <1>2. TypeOK
    <2>1. explained = FALSE /\ by_hand = FALSE /\ declared = {}
      BY DEF Init
    <2>2. edits \in 0..MaxEdits /\ merges \in 0..MaxMerges
      BY MergeAssumption DEF Init
    <2> QED
      BY <1>1, <2>1, <2>2 DEF TypeOK
  <1> QED
    BY <1>2, InitSigned, InitFloor DEF MergeInv

LEMMA MergeInvStep ==
  ASSUME MergeInv, [Next]_vars
  PROVE  MergeInv'
PROOF
  <1>1. TypeOK'
    BY TypeStep DEF MergeInv
  <1>2. CASE UNCHANGED vars
    BY <1>1, <1>2 DEF MergeInv, vars, SignedTree, Signed, FloorKept, FloorOf, VouchedOrRewritten
  <1>3. CASE Next
    <2>1. SignedTree(branch)' /\ FloorKept'
      BY <1>3, SignedStep, FloorStep DEF MergeInv
    <2>2. VouchedOrRewritten'
      <3>1. CASE main' = main
        BY <3>1 DEF MergeInv, VouchedOrRewritten
      <3>2. CASE main' # main
        BY <3>2, MainMovesByMerge, MergedVouched DEF MergeInv
      <3> QED
        BY <3>1, <3>2
    <2> QED
      BY <1>1, <2>1, <2>2 DEF MergeInv
  <1> QED
    BY <1>2, <1>3

LEMMA MergeInvariant == Spec => []MergeInv
PROOF
  <1>1. MergeInv /\ [Next]_vars => MergeInv'
    BY MergeInvStep
  <1> QED
    BY MergeInvInit, <1>1, PTL DEF Spec

\* main and the branch stay trees: whatever is edited, the manifest maps lines
\* to entries, the files have contents and a floor is one.
THEOREM TypeCorrect == Spec => []TypeOK
PROOF
  <1>1. MergeInv => TypeOK
    BY DEF MergeInv
  <1> QED
    BY MergeInvariant, <1>1, PTL

\* However many pull requests are merged and whatever is done on their
\* branches, by hand or by --update: for every fixture on main there is an
\* entry whose signer looked at this content, or whose hash --update rewrote.
THEOREM FixturesVouchedFor == Spec => []VouchedOrRewritten
PROOF
  <1>1. MergeInv => VouchedOrRewritten
    BY DEF MergeInv
  <1> QED
    BY MergeInvariant, <1>1, PTL

\* --update leaves the gate with nothing to say but what is for a person to do,
\* however muddled the manifest was before.
THEOREM UpdateLeavesPeople == Spec => UpdateSettles
PROOF
  <1> DEFINE Good ==
        UpdateManifest =>
          \A p \in Faults(branch'.files, branch'.manifest) :
            \/ branch'.files[p] \in Oversized
            \/ \E i \in DOMAIN branch'.manifest :
                 branch'.manifest[i].path = p /\ branch'.manifest[i].form # "filled"
  <1>1. MergeInv => Good
    <2> SUFFICES ASSUME MergeInv, UpdateManifest PROVE Good
      OBVIOUS
    <2>1. /\ branch \in Trees /\ branch.files \in [Paths -> Contents \cup {Absent}]
          /\ branch.manifest \in Manifests
      BY DEF MergeInv, TypeOK, Trees
    <2>2. branch'.files = branch.files /\ branch'.manifest = Updated(branch.files, branch.manifest)
      BY <2>1 DEF UpdateManifest, Trees
    <2> QED
      BY <2>1, <2>2, UpdateMends
  <1> QED
    BY MergeInvariant, <1>1, PTL DEF Spec, UpdateSettles

\* The guardrails let an oracle of main change only with the explanation; what
\* escapes them are exactly the old names of renames to paths that hold none.
THEOREM OraclesNeedExplanation == Spec => OraclesExplained
PROOF
  <1> DEFINE Good ==
        main' # main =>
          \E from \in Renames(main.files, main'.files) :
            \A p \in Protected :
              main.files[p] # Absent /\ main'.files[p] # main.files[p] =>
                explained \/ MovedInto(Elsewhere, from, p)
  <1>1. [Next]_vars => Good
    <2> SUFFICES ASSUME [Next]_vars, main' # main
                 PROVE  \E from \in Renames(main.files, main'.files) :
                          \A p \in Protected :
                            main.files[p] # Absent /\ main'.files[p] # main.files[p] =>
                              explained \/ MovedInto(Elsewhere, from, p)
      OBVIOUS
    <2>1. Merge /\ main' = branch
      BY MainMovesByMerge DEF Merge
    <2>2. PICK from \in Renames(main.files, branch.files) : GuardrailsPass(from)
      BY <2>1 DEF Merge, GatesPass
    <2>3. ASSUME NEW p \in Protected, main.files[p] # Absent, branch.files[p] # main.files[p],
                 ~explained
          PROVE  MovedInto(Elsewhere, from, p)
      <3>1. ModifiedProtected(Changes(main.files, branch.files, from) \cup RecordChanges) = {}
        BY <2>2, <2>3 DEF GuardrailsPass
      <3> QED
        BY <2>3, <3>1, UnexplainedMoved
    <2> QED
      BY <2>1, <2>2, <2>3
  <1> QED
    BY <1>1, PTL DEF Spec, OraclesExplained

\* A declared radius holds, for the two files that the gates read as for all
\* others; what escapes it are exactly the old names of renames to paths inside.
THEOREM RadiusHolds == Spec => RadiusRespected
PROOF
  <1> DEFINE inside == declared \cup Paperwork
             Good ==
               main' # main /\ declared # {} =>
                 /\ \E from \in Renames(main.files, main'.files) :
                      \A p \in Paths \ inside :
                        main'.files[p] # main.files[p] => MovedInto(inside, from, p)
                 /\ main'.manifest # main.manifest => Manifest \in declared
                 /\ main'.floor # main.floor => FloorFile \in declared
  <1>1. [Next]_vars => Good
    <2> SUFFICES ASSUME [Next]_vars, main' # main, declared # {}
                 PROVE  Good
      OBVIOUS
    <2>1. Merge /\ main' = branch
      BY MainMovesByMerge DEF Merge
    <2>2. PICK from \in Renames(main.files, branch.files) : GuardrailsPass(from)
      BY <2>1 DEF Merge, GatesPass
    <2>3. \A c \in Changes(main.files, branch.files, from) \cup RecordChanges : c[2] \in inside
      BY <2>2 DEF GuardrailsPass, OutsideRadius
    <2>4. ASSUME NEW p \in Paths \ inside, branch.files[p] # main.files[p]
          PROVE  MovedInto(inside, from, p)
      <3>1. /\ p \in Paths /\ p \notin inside /\ branch.files[p] # main.files[p]
            /\ \A c \in Changes(main.files, branch.files, from) : c[2] \in inside
        BY <2>3, <2>4
      <3> HIDE DEF inside
      <3> QED
        BY <3>1, OutsideMoved
    <2>5. Manifest \notin Paperwork /\ FloorFile \notin Paperwork
      BY RadiusAssumption, MergeAssumption DEF Paths
    <2>6. branch.manifest # main.manifest => Manifest \in declared
      <3>1. branch.manifest # main.manifest => <<"M", Manifest>> \in RecordChanges
        BY DEF RecordChanges
      <3> QED
        BY <2>3, <2>5, <3>1
    <2>7. branch.floor # main.floor => FloorFile \in declared
      <3>1. branch.floor # main.floor => <<"M", FloorFile>> \in RecordChanges
        BY DEF RecordChanges
      <3> QED
        BY <2>3, <2>5, <3>1
    <2>8. \E f \in Renames(main.files, branch.files) :
            \A p \in Paths \ inside : branch.files[p] # main.files[p] => MovedInto(inside, f, p)
      BY <2>2, <2>4
    <2> QED
      BY <2>1, <2>6, <2>7, <2>8
  <1> QED
    BY <1>1, PTL DEF Spec, RadiusRespected

\* Whatever a branch does to its coverage and to the file that keeps the floor:
\* a floor falls only by a hand edit of that file, and while it stands what is
\* merged is covered as main's floor asks.
THEOREM CoverageLockedIn == Spec => LockedIn
PROOF
  <1> DEFINE Good ==
        main' # main =>
          /\ by_hand \/ FloorStands
          /\ FloorStands =>
               Idle(main'.report)
                 \/ \A m \in Measures : ~Below(main'.report[m], FloorOf(main)[m])
  <1>1. MergeInv /\ [Next]_vars => Good
    <2> SUFFICES ASSUME MergeInv, [Next]_vars, main' # main
                 PROVE  Good
      OBVIOUS
    <2>1. Merge /\ main' = branch
      BY MainMovesByMerge DEF Merge
    <2>2. branch \in Trees /\ main \in Trees
      BY DEF MergeInv, TypeOK
    <2>3. FloorStands <=> \A m \in Measures : FloorOf(branch)[m] >= FloorOf(main)[m]
      BY <2>1 DEF FloorStands, FloorOf
    <2>4. by_hand \/ FloorStands
      BY <2>3 DEF MergeInv, FloorKept
    <2>5. ASSUME FloorStands, ~Idle(branch.report), NEW m \in Measures
          PROVE  ~Below(branch.report[m], FloorOf(main)[m])
      <3>1. ~Below(branch.report[m], FloorOf(branch)[m])
        BY <2>1, <2>5 DEF Merge, GatesPass, Holds
      <3>2. branch.report[m] \in Counts
        BY <2>2, MergeAssumption DEF Trees, Reports
      <3>3. FloorOf(branch)[m] \in Int /\ FloorOf(main)[m] \in Int
        BY <2>2, FloorType DEF Floors
      <3>4. FloorOf(main)[m] <= FloorOf(branch)[m]
        BY <2>3, <2>5, <3>3
      <3> QED
        BY <3>1, <3>2, <3>3, <3>4, BelowMonotone
    <2> QED
      BY <2>1, <2>4, <2>5
  <1> QED
    BY MergeInvariant, <1>1, PTL DEF Spec, LockedIn
=============================================================================
