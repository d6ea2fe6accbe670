SPECIFICATION Spec
CONSTANTS
  Apps = {a1}
  Files = {main, manifest}
  Main = main
  Manifest = manifest
  Versions = {v1, v2}
  Inventoried = {v1, v2}
  Faults <- WornCard
  NoApp = NoApp
  NoFile = NoFile
  NoDir = NoDir
  Absent = Absent
  Torn = Torn
INVARIANT NoMixedVersions
SYMMETRY VersionSymmetry
VIEW WithoutHistory
