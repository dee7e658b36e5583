\* One command at a time, one of them interrupted.
SPECIFICATION Spec
CHECK_DEADLOCK FALSE
CONSTANTS
  i1 = i1  i2 = i2  i3 = i3  sh1 = sh1  sh2 = sh2  None = None
  MaxPort = 3
  MaxNumber = 7
  MaxInteger = 5
  Shells = {sh1}
  Inodes = {i1, i2}
  Edits <- SomeEdits
  Answers <- SomeAnswers
  FirstFiles <- HandTexts
  FirstLegacy <- LegacyTexts
  MaxCommands = 3
  MaxKills = 1
INVARIANTS AlwaysStartable StartAndServeAgree
PROPERTIES ReportedIsThere EditsAreSettings
