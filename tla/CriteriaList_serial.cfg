SPECIFICATION Spec
CONSTANTS
  t1 = t1
  t2 = t2
  t3 = t3
  Session = {s1}
  Text = {t1, t2, t3}
  NoText = none
  First = 1
  Last = 4
  Planned <- ThreeThenFree
  Operations = {"add_ac", "delete_ac", "update_ac", "mark_ac", "mark_ac_batch", "import_spec"}
  Concurrent = FALSE
  MaxBatch = 2
  MaxFailures = 2
INVARIANT LossesAreFailures
PROPERTIES DeleteClosesTheGap CleanBatchIsRecorded
