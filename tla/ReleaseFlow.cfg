CONSTANTS
  f1 = f1
  f2 = f2
  Finalizers = {f1}
  Changes <- FixAndRetire
  Bump <- MCBump
  Verdict <- MCVerdict
  Retiring <- MCRetiring
  Revisions = {1}
  Tags = {}
  First <- MCFirst
  MaxReviews = 2
  MaxBundles = 2
  None = None
  Torn = Torn
SPECIFICATION FairSpec
INVARIANTS ReleasesAuthorized RejectionHonoured VersionIdentifiesContent TornIsUnfinished
PROPERTIES ReleaseMaterializes
