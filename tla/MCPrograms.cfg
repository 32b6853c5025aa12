SPECIFICATION Spec
CONSTANTS
  Commands <- AllPrograms
  Expressions <- AllExpressions
  EMPTY_NUM <- EmptyNum
  Width = 3
  MaxTotal = 30
  Size = 3
  Bombs = 2
  MaxLooks = 3
  MAX = 6
  EndLength = 5
INVARIANTS
  CalculatorTrue
  TicTacToeSound
  MinesTrue
  SnakeWhole
PROPERTY
  TurnsByTheRules
