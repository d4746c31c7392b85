\* Two tasks over a string of two halves.
SPECIFICATION Spec
CONSTANTS
  Tasks = {t1, t2}
  Values = {v0, v1}
  Start = v0
INVARIANTS
  LockedCopyIsWhole
  NoCallAfterUnload
