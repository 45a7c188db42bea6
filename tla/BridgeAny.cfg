SPECIFICATION FairSpec
CONSTANTS
  MaxIn = 2
  MaxOut = 2
  Error500 = Error500
  Worlds <- AnyWorld
CHECK_DEADLOCK FALSE
INVARIANTS TypeOK ErrorHonest AnswerWhole
PROPERTIES ExchangeSpec ConnectionsEnd
