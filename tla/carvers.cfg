SPECIFICATION Spec
CONSTANTS
  Jobs <- AllJobs
  U32 = 65537
  OggPages = 2
  Mp3Frames = 5
  Mp3Max = 1000
  DirSteps = 3
  NoSector = 99
  OleMax = 100000
  BufSize = 16
  MinRead = 15
  Preview = 22
  IcoImage = 40
  IcoMax = 60
  WebmScan = 30
  RarHeader = 50
  TiffData = 64
INVARIANTS
  TypeOK
  SizeWithinLimit
  ValidMeansWhole
  WholeFileCarved
  FileIffCarved
PROPERTIES
  Termination
