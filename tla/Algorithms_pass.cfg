SPECIFICATION Spec
CONSTANTS
  MaxChunks = 5
  MaxMessages = 5
  MaxScript = 4
  MaxFiles = 3
  MaxEntries = 4
  MaxLines = 5
  MaxWindow = 3
  MaxPieces = 2
  MaxEvents = 6
  MaxLayers = 3
INVARIANTS AnswersReachTheTurn ConversationSurvives ChangesAreExact SearchesHideNothing ExecutedMeansGoverned ReportsTellTheRun LastLayerWins
CHECK_DEADLOCK FALSE
