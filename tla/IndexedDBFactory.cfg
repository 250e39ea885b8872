SPECIFICATION Spec
CONSTANTS
  Database = {d1, d2, d3}
  Blob = {b1, b2}
  MaxConnections = 3
INVARIANT StoreOutlivesItsUsers
PROPERTY LastUserLeavesItTimed
