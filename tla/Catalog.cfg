\* The catalog of a Studio with its load thread, and of a second process.
SPECIFICATION Spec
CONSTANTS
  s1 = s1
  p1 = p1
  t1 = t1
  c1 = c1
  o1 = o1
  m1 = m1
  Absent = none
  none = none
  Empty = empty
  empty = empty
  Mixed = mixed
  mixed = mixed
  Sources <- MCSources
  Projects <- MCProjects
  Targets <- MCTargets
  Providers <- MCProviders
  Overlays <- MCOverlays
  Mappings <- MCMappings
  Levels <- MCLevels
  Actors <- MCActors
  MaxHandlers = 2
  MaxCrashes = 1
  MaxPolls = 1
INVARIANTS
  ProjectsHaveSources
  HistoryIsTrue
  LatestIsAsStrict
PROPERTIES
  LoadsEnd
  StreamsEnd
CHECK_DEADLOCK FALSE
