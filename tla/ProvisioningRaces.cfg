SPECIFICATION Spec
CONSTANTS
  p1 = p1
  p2 = p2
  admin = admin
  user = user
  org = org
  super = super
  orgadm = orgadm
  custom = custom
  nothing = nothing
  Proc <- TwoHandlers
  User <- TwoUsers
  Org <- OneOrg
  Role <- ThreeRoles
  Admin = admin
  DefaultRole <- SystemRoles
  SuperRole = super
  OrgAdminRole = orgadm
  Perm <- TwoPerms
  Name <- ThreeNames
  Ref <- SomeRefs
  NameOf <- SystemNames
  DefaultPerm <- SystemPerms
  None = nothing
  MaxRequests = 3
SYMMETRY Symmetry
INVARIANTS TypeOK AbsentRolesGrantNothing
PROPERTIES NothingOlderSurvives ErrorGrantsNothing AloneAsAsked
