SPECIFICATION Spec
CONSTANTS
    Procs = {p1, p2}
    LastVersion = 2
    f1 = f1
    f2 = f2
    h1 = h1
    h2 = h2
    Premirrors <- UsedPremirrors
    Mirrors <- UsedMirrors
    FileMirrors = {f1, f2}
    Serves <- UsedServes
    WriteTarballs = TRUE
    MaxCrashes = 1
    MaxCleans = 1
    NoProc = NoProc
    NoFile = NoFile
    Broken = Broken
    Old = Old
INVARIANTS
  Stands
  TarballCurrent
PROPERTIES
  FetchRecovers
