CONSTANTS
  World = World
  Moon = Moon
  Lines = 3
  Edition = {"lab1", "lab1.2", "none"}
  Free = Free
  mq_maxmsg = 2
  MaxTexts = 4
  MaxRuns = 4
  Nobody = Nobody
  END = END
  MAXMSG = 2
  MaxTyped = 6
  MaxRestarts = 3
SPECIFICATION Lab1Spec
INVARIANTS OneTurn LagStays OnlyLeftoversStop OnlyFullOrLeftoverStops CleanEnd
PROPERTIES PrintsInTurn TextsPrinted
