----------------------------- MODULE Versioning -----------------------------
(***************************************************************************)
(* Semantic versions and the version a release gets (versioning.py and     *)
(* contractops/version_authority.py).  A version is <<major, minor, patch>>.*)
(***************************************************************************)
EXTENDS Naturals

Version == Nat \X Nat \X Nat

RequiredBump == {"none", "minor", "major"}
ActualBump == {"patch", "minor", "major"}

VersionRank == [none |-> 0, patch |-> 1, minor |-> 2, major |-> 3]

\* Python's order of the parsed tuples.
Exceeds(v, w) ==
  \/ v[1] > w[1]
  \/ v[1] = w[1] /\ v[2] > w[2]
  \/ v[1] = w[1] /\ v[2] = w[2] /\ v[3] > w[3]

\* classify_version_bump, for a target that exceeds the current version.
ClassifyBump(current, target) ==
  IF target[1] > current[1] THEN "major"
  ELSE IF target[2] > current[2] THEN "minor"
  ELSE "patch"

IncrementVersion(v, bump) ==
  IF bump = "major" THEN <<v[1] + 1, 0, 0>>
  ELSE IF bump = "minor" THEN <<v[1], v[2] + 1, 0>>
  ELSE <<v[1], v[2], v[3] + 1>>

BumpSatisfies(actual, required) == VersionRank[actual] >= VersionRank[required]

\* _resolve_semapact_version: even a revision with no required bump needs a
\* version of its own.
SemapactVersion(current, required) ==
  IncrementVersion(current, IF required = "none" THEN "patch" ELSE required)

\* The Git authority takes the version of the repository's release tag, if
\* it moves far enough.
GitAccepts(current, required, tag) ==
  Exceeds(tag, current) /\ BumpSatisfies(ClassifyBump(current, tag), required)

\* resolve_release_version: the versions a release of a contract now at
\* version current may get; tags is empty under the SemaPact authority.
SelectableVersions(current, required, tags) ==
  IF tags = {} THEN {SemapactVersion(current, required)}
  ELSE {tag \in tags : GitAccepts(current, required, tag)}
=============================================================================
