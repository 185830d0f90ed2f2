SPECIFICATION Spec
CONSTANTS
  Instances = {i1, i2}
  References = {r1, r2, r3, r4}
  Asked = {"path", "url", "unknown", "foreign"}
INVARIANTS
  RefCountExact
  FactoryExact
  Callable
