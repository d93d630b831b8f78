SPECIFICATION Spec
CONSTANTS
  Ids = {i1, i2, i3}
  NoId = noid
  RoleNames = {"ADMIN", "CLERK", "CUSTOMER"}
  Positions = {"ADMIN", "CLERK"}
  Permissions = {"p"}
  Emails = {e}
  Gone = gone
  Handlers = {h1, h2}
  MaxAttempts = 2
  MaxRequests = 2
SYMMETRY Symmetry
INVARIANTS TypeOK DirectoryFollowsStaff OneRunPerTask PermissionsAreFresh
PROPERTIES LastAdminIsKept
CHECK_DEADLOCK FALSE
