\* Two admins: may the chapter be left without one?
SPECIFICATION Spec
CONSTANTS
  w1 = w1
  w2 = w2
  founder = founder
  ann = ann
  l1 = l1
  Workers = {w1, w2}
  Persons = {founder, ann}
  Founder = founder
  Links = {l1}
  Cap <- OneUse
  FreeSeats = 2
  PaidSeats = 2
  Elsewhere = {ann}
  Seekers = {founder, ann}
  Deputies = {ann}
  Seasonal = {}
  None = None
PROPERTY
  LastAdminStays
