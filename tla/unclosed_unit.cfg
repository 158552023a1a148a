SPECIFICATION Spec
CONSTANTS
  MaxNesting = 12
  Sources <- UnclosedUnits
  MaxHandlers = 6
PROPERTIES
  MembersConsume
