CONSTANTS
  a1 = a1
  a2 = a2
  Admins = {a1, a2}
  Urls = {"u1", "u2"}
  Offered <- MCOffered
  Allowed = {{}, {"y"}}
  CustomRefs = {"x", "c"}
  Definitions <- MCAll
  BadCodes = {"bad"}
  Builtins = {"b"}
  EnvServer = Unset
  MaxChanges = 3
  MaxRestarts = 1
  Unset = Unset
SPECIFICATION ControlSpec
INVARIANTS Aligned ToolsAreRegistered
SYMMETRY AdminSymmetry
