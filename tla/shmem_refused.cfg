SPECIFICATION Spec
CONSTANTS
  Arena = 12
  Header = 1
  min_size = 2
  max_size = 6
  factor = 2
  LevelTypes = {"linear"}
  Requests = {1, 2, 3, 5}
  Thresholds = {0}
INVARIANTS
  RefusedOnlyWhenNoneFits
