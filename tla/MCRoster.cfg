\* One place on the link, a free seat and a paid one, three seekers.
SPECIFICATION Spec
CONSTANTS
  w1 = w1
  w2 = w2
  founder = founder
  ann = ann
  bob = bob
  cat = cat
  l1 = l1
  Workers = {w1, w2}
  Persons = {founder, ann, bob, cat}
  Founder = founder
  Links = {l1}
  Cap <- OneUse
  FreeSeats = 1
  PaidSeats = 2
  Elsewhere = {founder}
  Seekers = {ann, bob, cat}
  Deputies = {founder}
  Seasonal = {founder}
  None = None
SYMMETRY Symmetry
INVARIANTS
  SeatsBounded
  LinkBounded
  QueueTruthful
