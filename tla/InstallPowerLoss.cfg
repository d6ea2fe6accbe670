SPECIFICATION Spec
CONSTANTS
  Apps = {a1, a2}
  Files = {main, manifest}
  Main = main
  Manifest = manifest
  Versions = {v1, v2}
  Inventoried = {v1, v2}
  Faults <- PowerLoss
  NoApp = NoApp
  NoFile = NoFile
  NoDir = NoDir
  Absent = Absent
  Torn = Torn
INVARIANTS NoHalfPackage NeverLost Settled
PROPERTY FailedEndRestores
SYMMETRY AppSymmetry
