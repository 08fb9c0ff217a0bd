\* One user who uploads a file, deletes it and lists the materials.
SPECIFICATION Spec
CONSTANTS
  Files = {f1}
  Sessions = {s1}
  Readers = {q1}
  MaxUploads = 1
  MaxId = 3
  MaxReboots = 0
  DBMayFail = FALSE
INVARIANT DeletedIsGone
CHECK_DEADLOCK FALSE
