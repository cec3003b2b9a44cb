SPECIFICATION Spec
CONSTANTS
  Link = {a, b}
  Name = {X, Y}
  MaxInput = 1
  StrayRoutes = FALSE
  None = None
CHECK_DEADLOCK FALSE
INVARIANTS
  TypeOK
  ListsAgree
PROPERTIES
  ImplementsLinkTable
  EveryLinkIsRead
