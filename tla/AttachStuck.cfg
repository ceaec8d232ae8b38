CONSTANTS
  Pub = pub
  Subs = {}
  Sizes = {512}
  MaxFaults = 1
SPECIFICATION FairSpec
PROPERTIES
  PublisherGetsIn
