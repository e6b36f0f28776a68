SPECIFICATION Spec
CONSTANTS
  p1 = p1
  p2 = p2
  a1 = a1
  Pages = {p1, p2}
  Fresh = {p2}
  Apps = {a1}
  MaxCommits = 3
  MaxUpsets = 2
  None = None
CHECK_DEADLOCK FALSE
INVARIANT ShowsCommitted
PROPERTIES
  NeverBack
  AnswerIsShown
