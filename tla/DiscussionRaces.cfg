SPECIFICATION Spec
CONSTANTS
  d1 = d1  d2 = d2  m1 = m1  m2 = m2
  Starts = {d1, d2}
  Messages = {m1}
  Participants = 2
  Turns = 3
  Summary = TRUE
  MaxCrashes = 1
\* One at a time: for the others, put their line in the place of this one.
INVARIANTS NoRunBeside
\* PROPERTIES CancelStays
\* PROPERTIES InterjectionIsAnswered
\* Once every request is answered the chat may rest.
CHECK_DEADLOCK FALSE
