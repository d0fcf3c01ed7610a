CONSTANTS
  BANK = 2  HEADER = 1  CARDS = 2  TRIES = 2
  o = o  k = k
  Names <- MCNames
  Cards <- MCCards
SPECIFICATION FairSpec
INVARIANTS TypeOK BanksApart HeardInOrder SaidWhole LeftAtRest
PROPERTY AnswerEnds
