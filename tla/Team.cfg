CONSTANTS
  People = {p1,p2}
  Founder = p1
  Admins = {a1}
  Visitors = {v1,v2}
  Owner = "OWNER"
  OtherRoles = {"MANAGER", "STAFF"}
  Grants <- SmallGrants
  Manage = "users.manage"
  MaxInvitations = 2
  MaxEpoch = 2
  p1 = p1
  p2 = p2
  a1 = a1
  v1 = v1
  v2 = v2

\* Nothing is left to do once the bounded invitations are used up and withdrawn.
CHECK_DEADLOCK FALSE

SPECIFICATION Spec

PROPERTY PermissionsAreHandedOn
PROPERTY RemovalEndsSessions
PROPERTY InvitationsWorkOnce
