CONSTANTS
  Pub = pub
  Subs = {s1}
  Sizes = {512, 1024}
  MaxFaults = 2
SPECIFICATION FairSpec
INVARIANTS
  TypeOK
  ReachableInTurn
  AgreeUnlessRecreated
  PublisherOnRing
PROPERTIES
  SubscriberGetsIn
  PublisherGetsInInTurn
  PublisherRecovers
