\* Footers of 2 and 3 bytes, buffers of 4, reads as short as the carry.
SPECIFICATION Spec
CONSTANTS
  MaxFooterLen = 3
  BufSize = 4
  MinRead = 2
  Jobs <- SmallJobs
  Lens = {3, 10}
  FooterSizes = {2, 3}
  Headers = {{3}, {2, 3}}
  MaxSizes = {0, 2, 7}
  MinSizes = {0, 5}
INVARIANTS
  TypeOK
  NoFooterMissed
  FooterEndsInBuffer
  FileIffCarved
