\* Three runs: one to publish, one to fail, one to publish again.
CONSTANTS
  Jobs <- MCJobs
  MaxFragment = 2
  MaxRuns = 3
SPECIFICATION Spec
INVARIANTS
  ManifestLast
  NotMixed
  ListedServed
CHECK_DEADLOCK FALSE
