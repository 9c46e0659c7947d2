\* Every decision over bounded inputs, and each machine on a small instance.
CONSTANTS
  Owners = {"o1", "o2"}
  FileIds = {"f1", "f2"}
  Sides = {1, 299, 300, 399, 400, 401, 800, 1280, 1281, 1599, 1600, 1920, 4096, 5000, 20000}
  Pages = {1, 2, 6, 300, 301}
  Times = {0, 1, 5, 10, 11, 12, 99, 100, 101, 200, 250}
  MaxDuration = 100
  Lengths = {0, 1, 5, 6, 7, 11, 12, 13, 17, 18, 19}
  HeaderSize = 4
  ChunkSize = 6
  OverlapSize = 3
  MaxFiles = 3
  MaxSize = 4
  MaxImage = 3
  MaxBulk = 4
  ReadSize = 2
  MaxParallel = 2
  QrScales = {1, 2, 10, 20}
  MaxStream = 3
  ShareRequests = {"r1", "r2", "r3"}
  RowIds = {1, 2, 3, 4}
  Stamps = {1, 2}
  Limits = {1, 2}
  Callers = {"c1", "c2", "c3"}
SPECIFICATION Spec
INVARIANTS
  AccessLadder
  RenditionsFit
  RecordDescribesEncode
  StoredTypeFits
  BulkInOrder
  UploadsWithinCaps
  LogoLeavesCodeReadable
  LinksFollowOwner
  PagesCoverListing
  NoClientLeaks
\* A decision is made once, and an answered request is over.
CHECK_DEADLOCK FALSE
