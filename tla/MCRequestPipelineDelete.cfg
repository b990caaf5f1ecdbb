SPECIFICATION Spec
CONSTANTS
  Requests = {r1}
  Routers = {"service"}
  Routes = {"create", "list", "login", "query", "update", "role", "disable", "delete"}
  SampleEvery = 2
INVARIANT OwnerOrAdminMayDelete
