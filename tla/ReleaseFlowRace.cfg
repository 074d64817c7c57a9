CONSTANTS
  f1 = f1
  f2 = f2
  Finalizers = {f1, f2}
  Changes <- FixAddDrop
  Bump <- MCBump
  Verdict <- MCVerdict
  Retiring <- MCRetiring
  Revisions = {1}
  Tags <- MCTags
  First <- MCFirst
  MaxReviews = 1
  MaxBundles = 2
  None = None
  Torn = Torn
SPECIFICATION Spec
SYMMETRY Symmetry
INVARIANTS Lineage BumpsAccumulate
