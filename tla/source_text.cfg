SPECIFICATION Spec
CONSTANTS
  MaxNesting = 12
  Sources <- AllTexts
  MaxHandlers = 6
INVARIANTS
  TokensAsWritten
  TreeAsWritten
  AcceptsScripts
  DemosPass
PROPERTIES
  MembersConsume
