CONSTANTS
  Requests = {"a", "b", "j", "r", "u"}
  Clients = {"c1", "c2"}
  From <- MCFrom
  Kind <- MCKind
  Limit = 2
  Ticks = 2
SPECIFICATION FairSpec
INVARIANT TwiceTheLimit
PROPERTY ClientsGetThrough
PROPERTY OnlyParsingEndsTheProcess
