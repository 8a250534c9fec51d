SPECIFICATION FairSpec
CONSTANT MaxPush = 2
INVARIANTS CleanStopIsGraceful AnswersAreTrue NothingLeft
PROPERTIES TerminalSignalled NobodyHangs
