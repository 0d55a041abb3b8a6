\* Two workers that share the table, one undeliverable event, two faults.
CONSTANTS
  w1 = w1  w2 = w2
  Event = {1, 2, 3}
  Poison = {1}
  Worker = {w1, w2}
  BatchSize = 2
  MaxFaults = 2
SPECIFICATION FairSpec
INVARIANTS
  PublishedWasDelivered
  DuplicatesBounded
PROPERTY
  EventuallyPublished
