\* Two files, a session and its restart, two concurrent readers, one restart of
\* the server and a database that fails.
SPECIFICATION Spec
CONSTANTS
  Files = {f1, f2}
  Sessions = {s1, s2}
  Readers = {q1, q2}
  MaxUploads = 2
  MaxId = 4
  MaxReboots = 1
  DBMayFail = TRUE
SYMMETRY Symmetry
INVARIANTS UploadsAreKept ListingsStoreNothing CopyIsComplete
CHECK_DEADLOCK FALSE
