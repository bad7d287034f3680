SPECIFICATION Spec
CONSTANTS
  s1 = s1
  s2 = s2
  test = test
  plugin = plugin
  Services = {s1, s2}
  DryIces = {d1, d2}
  Clients = {k1, k2}
  Factories = {f1, f2}
  Names = {test, plugin}
  Plugins = {plugin}
  Adds <- MCAdds
  TypeOf <- MCTypeOf
  MaxRuns = 2
  None = None
INVARIANT ClientFindsService
CHECK_DEADLOCK FALSE
SYMMETRY Interchangeable
