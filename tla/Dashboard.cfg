CONSTANTS
  Call = {1, 2, 3, 4}
  NoFilter = NoFilter
  NoStage = NoStage
  ListLimit = 3
  Page = {b1}
  Socket = {s1, s2}
  NoSocket = NoSocket
  History <- MCHistory
  Filters <- MCFilters
  Earlier = {1, 2, 3}
  MaxVersion = 3
  MaxDrops = 1
SPECIFICATION FairSpec
INVARIANTS TypeOK CardsMatchTable CardsAddUp AnswersAreNews
PROPERTIES ToldPagesCatchUp DeadSocketsForgotten
CHECK_DEADLOCK FALSE
