----------------------------- MODULE FixtureGate -----------------------------
(***************************************************************************)
(* The fixture gate of the repository (tools/check_fixtures.py): the files *)
(* under fixtures/ against their entries in provenance.toml.  A content    *)
(* stands for its SHA-256, and a manifest maps the lines of the file at    *)
(* which an entry stands to the entries: only the order of the lines       *)
(* counts.  What a person did is part of an entry although no tool sees    *)
(* it: which content whoever is named in verified_by looked at, and        *)
(* whether --update has rewritten the hash since.                          *)
(***************************************************************************)
EXTENDS FiniteSets, Sequences, Integers, Functions

CONSTANTS
  FixtureSeq,    \* the paths that may hold a fixture, in the order of fixture_files()
  Contents,      \* what a file may contain
  Oversized,     \* the contents of more than MAX_FIXTURE_BYTES
  Absent,        \* the path is not in the tree
  MaxLines       \* bound on the lines of a manifest

Fixtures == {FixtureSeq[i] : i \in DOMAIN FixtureSeq}

ASSUME FixtureAssumption ==
  /\ FixtureSeq \in Seq(Fixtures) /\ IsInjective(FixtureSeq)
  /\ Oversized \subseteq Contents
  /\ Absent \notin Contents
  /\ MaxLines \in Nat /\ Len(FixtureSeq) <= MaxLines

\* The lines at which an entry may stand.
Lines == 1..MaxLines

\* An entry is blank after --update stubbed it; its origin may be one that
\* VALID_ORIGINS does not list.
Entries == [path : Fixtures, sha256 : Contents, form : {"blank", "odd_origin", "filled"},
            verified : Contents \cup {Absent}, rewritten : BOOLEAN]

Manifests == UNION {[lines -> Entries] : lines \in SUBSET Lines}

Stub(path, content) ==
  [path |-> path, sha256 |-> content, form |-> "blank", verified |-> Absent, rewritten |-> FALSE]

OnDisk(files) == {p \in Fixtures : files[p] # Absent}

Places(manifest, path) == {i \in DOMAIN manifest : manifest[i].path = path}

Recorded(manifest) == {manifest[i].path : i \in DOMAIN manifest}

\* by_path keeps the last of several entries.
ByPath(manifest, path) ==
  manifest[CHOOSE i \in Places(manifest, path) : \A j \in Places(manifest, path) : j <= i]

\* Mutant of WrongIn: the hash is not compared.
WrongInUnhashed(entry, content) ==
  \/ entry.form \in {"blank", "odd_origin"}
  \/ content \in Oversized

\* What verify() finds wrong with a file that has an entry.
WrongIn(entry, content) ==
  \/ entry.form \in {"blank", "odd_origin"}
  \/ entry.sha256 # content
  \/ content \in Oversized

\* The paths verify() has an error about; the gate passes when there is none.
Faults(files, manifest) ==
  LET disk == OnDisk(files) IN
    {p \in Fixtures : Cardinality(Places(manifest, p)) > 1}
      \cup (disk \ Recorded(manifest))
      \cup (Recorded(manifest) \ disk)
      \cup {p \in disk \cap Recorded(manifest) : WrongIn(ByPath(manifest, p), files[p])}

\* An entry whose file is known keeps the human's fields and gets the present
\* hash.
Refreshed(entry, content) ==
  [entry EXCEPT !.sha256 = content,
                !.rewritten = @ \/ (entry.verified # Absent /\ entry.sha256 # content)]

\* What update() writes for a path.
EntryFor(path, files, manifest) ==
  IF path \in Recorded(manifest) THEN Refreshed(ByPath(manifest, path), files[path])
  ELSE Stub(path, files[path])

\* The lines of the manifest that update() writes, one per file and in order.
FileLines(files) == {i \in DOMAIN FixtureSeq : files[FixtureSeq[i]] # Absent}

\* Mutants of Updated: what stood on the other lines stays there (a fault like
\* the one that the comment at check_fixtures.py:191-202 remembers), and an
\* entry is made for a path without a file.
UpdatedInPlace(files, manifest) ==
  [i \in FileLines(files) \cup DOMAIN manifest |->
     IF i \in FileLines(files) THEN EntryFor(FixtureSeq[i], files, manifest) ELSE manifest[i]]

UpdatedForAll(files, manifest) ==
  [i \in DOMAIN FixtureSeq |-> EntryFor(FixtureSeq[i], files, manifest)]

\* update()
Updated(files, manifest) ==
  [i \in FileLines(files) |-> EntryFor(FixtureSeq[i], files, manifest)]
=============================================================================
