CONSTANTS
  Pub = pub
  Subs = {s1}
  Sizes = {512}
  MaxFaults = 0
SPECIFICATION Spec
INVARIANTS
  Reachable
