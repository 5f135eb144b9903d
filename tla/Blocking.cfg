CONSTANTS
  Main = main
  Workers = {w1}
  Others = {"deny"}
  Hit = hit
  Miss = miss
  BusyReplies = {TRUE, FALSE}
  MaxDelay = 1
  MaxChanges = 2
SPECIFICATION Spec
INVARIANTS VerdictsAreCurrent CopiesAreCurrent
PROPERTIES  BlockingResumes
CHECK_DEADLOCK FALSE
