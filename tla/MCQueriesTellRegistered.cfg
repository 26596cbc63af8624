SPECIFICATION Spec
CONSTANTS
  Key = {"fan19", "grewe11", "grewe13"}
  Object = {fs1, fs2}
  Null = Null
INVARIANT QueriesTellRegistered
