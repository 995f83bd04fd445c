SPECIFICATION FairSpec
CONSTANTS
  Codes = {a, b, c}
  NoCode = none
  Details = {x}
  NoDetail = blank
  ReportLevels = {"WARNING", "FAULT"}
INVARIANT TypeOK
INVARIANT AgentInStep
INVARIANT ListShape
INVARIANT NoOrphanAlarm
PROPERTY FeedSpec
