\* One of each kind of input; both platforms; reliable and unreliable links.
SPECIFICATION FairSpec
CONSTANTS
  Keys = {k}
  Modifiers = {m}
  Buttons = {b}
  Positions = {p}
  Outside = Outside
  Nothing = Nothing
  UserSteps = 4
 
PROPERTIES InUsersOrder LastWordArrives
\* The user may be done, and both sides gone.
CHECK_DEADLOCK FALSE
