\* Two rows, two steps, a budget of two small steps, up to five keys of which
\* two may wait in the terminal, one change by another client.
CONSTANTS
  Rows <- ModelRows
  Steps <- ModelSteps
  DefaultStep = 1
  Budget = 2
  IdleRounds = 1
  Keys = {"t", "o", "q", "esc", "enter", "up", "down", "tab", "wider", "zero"}
  OthersMoves <- ModelMoves
  MaxPresses = 5
  MaxOthers = 1
  MaxTyped = 2
SPECIFICATION ConsoleSpec
INVARIANT CommitWithinBudget
PROPERTY ArmedModesEnd
CHECK_DEADLOCK FALSE
