\* One struct that is leased again and again, or replaced by a new one; and
\* heaps of up to six entries.
SPECIFICATION MCSpec
CONSTANTS
  Worlds = {w1}
  Floors = {f1, f2}
  MaxLinked = 1
  Cells = {a, b}
  PortalCosts = {1, 2}
  MaxSubs = 3
  MaxPortals = 2
  Elems = {e1, e2, e3, e4, e5, e6}
  Alike = {e1, e2, e3}
  None = None
SYMMETRY Symmetry
INVARIANTS
  SubscriptionsFollowLease
  FloorsAreFresh
  PortalsMirror
PROPERTIES
  QueueImplementsContract
