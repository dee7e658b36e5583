\* Two commands at a time.
SPECIFICATION Spec
CHECK_DEADLOCK FALSE
CONSTANTS
  i1 = i1  i2 = i2  i3 = i3  sh1 = sh1  sh2 = sh2  None = None
  MaxPort = 3
  MaxNumber = 7
  MaxInteger = 5
  Shells = {sh1, sh2}
  Inodes = {i1, i2, i3}
  Edits <- TwoEdits
  Answers <- NoAnswers
  FirstFiles <- HandTexts
  FirstLegacy <- NoTexts
  MaxCommands = 2
  MaxKills = 0
PROPERTIES EditsAreSettings
