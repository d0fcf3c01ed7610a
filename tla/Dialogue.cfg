CONSTANTS
  sheila = sheila  on = on  one = one  stop = stop
  Word <- Vocabulary
  NameWord <- Names
  Begins <- Beginnings
  None = None
  MAX_RETRIES = 3
SPECIFICATION FairSpec
INVARIANTS TypeOK FlagFollowsState AnswersCounted CommandIsConfirmed
           SentWasConfirmed NoStaleCommand
PROPERTY DialogueEnds
