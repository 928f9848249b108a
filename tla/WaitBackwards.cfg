SPECIFICATION Spec
CONSTANTS
  Day = 3
  Week = 4
  Year = 13
  Duration = 4
  Start = 0
  End = 2
  Holidays = {5}
  MaxWait = 48
PROPERTIES
  StaysPassed
