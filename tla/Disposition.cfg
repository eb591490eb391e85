CONSTANTS
  Days <- MCDays
  Bodies <- MCBodies
  DateOffsets <- MCDateOffsets
  MonthDays <- MCMonthDays
  DayNumbers <- MCDayNumbers
  MaxDaysAhead = 90
  NoDate = NoDate
  NoResult = NoResult
  Absent = Absent
  Blank = Blank
SPECIFICATION Spec
INVARIANTS NothingInvented SpokenDayIsNext ShapesAgree
PROPERTIES PromiseIsDated Revalidates StableOverDays
CHECK_DEADLOCK FALSE
