SPECIFICATION PhoneSpec
CONSTANTS
  a = a
  b = b
  User = {a, b}
  None = None
  Mood <- AllMoods
  Plans <- AllPlans
  Answers = {b}
  Mortal = {b}
  MaxLink = 4
INVARIANT OneReply
PROPERTIES DialSettles ClosedTogether
CHECK_DEADLOCK FALSE
