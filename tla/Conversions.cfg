\* The cases, and every day from 1970 to the end of LastYear; the cases have no successor.
CONSTANTS
  Cases <- AllCases
  LastYear = 2101
  LongestName = 3
  I64 = 8388608
  AuthToken <- TheToken
  MaxSourceBytes = 4
  BodySlack = 4
CHECK_DEADLOCK FALSE
SPECIFICATION Spec
INVARIANTS CalendarIsRight MetadataSurvives TextSurvives LinksReachTheService AgeSaysWhatGoes RequestsAreJudged
