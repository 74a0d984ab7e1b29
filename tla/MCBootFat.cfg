\* The volumes, and files of three clusters.  The reader stops after one request.
CONSTANTS
  BYTES_PER_SECTOR = 4
  DirPerSector = 2
  Limit12 = 5
  Limit16 = 7
  Sector24 = 16
  ChainLen = 3
  Volumes <- MCVolumes
  Requests <- MCRequests
SPECIFICATION Spec
INVARIANTS TypeOK Recognised BufferIsFile StaysInChain FindsBootFile
PROPERTY Ends
CHECK_DEADLOCK FALSE
