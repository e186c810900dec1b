SPECIFICATION FairSpec
CONSTANTS
  d1 = d1  d2 = d2  m1 = m1  m2 = m2
  Starts = {d1, d2}
  Messages = {m1}
  Participants = 2
  Turns = 3
  Summary = TRUE
  MaxCrashes = 1
INVARIANTS OneDiscussion RunningHasOwner StopsSoon
PROPERTIES DiscussionEnds
\* Once every request is answered the chat may rest.
CHECK_DEADLOCK FALSE
