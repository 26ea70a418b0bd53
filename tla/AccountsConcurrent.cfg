SPECIFICATION Spec
CONSTANTS
  Platforms = {github, discord}
  AccountIds = {a1, a2}
  Usernames = {n1, n2, www}
  Reserved = {www}
  Requests = {r1, r2}
  None = None
  MaxUsers = 2
  MaxAccounts = 3
  MaxCrashes = 1
INVARIANTS
  UsersCanLogin
  OneBindingPerPlatform
PROPERTIES
  RegisteredSkipsSignup
  LoginKeepsUser
SYMMETRY Symmetry
