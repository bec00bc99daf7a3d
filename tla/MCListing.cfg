SPECIFICATION Spec
CONSTANTS
  Ids = {1, 2, 3}
  Statuses = {"up", "down"}
  Writers = {w1, w2}
  Limits = {0, 3}
  MaxPage = 2
  MaxTime = 2
  TimeText <- MCTimeText
  IdText <- MCIdText
SYMMETRY Sym
INVARIANTS TypeOK StillRowsAreListed RepeatedOnlyWhenOvertaken PagesDescend
PROPERTIES HasMoreIsExact
