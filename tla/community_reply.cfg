SPECIFICATION FeedSpec
CONSTANTS
  Texts = {x1, x2}
  Others = {o1}
  Demos = {d1}
  NoParent = NoParent
  MaxLoads = 2
INVARIANTS ReplyKept
CHECK_DEADLOCK FALSE
