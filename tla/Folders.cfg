\* Two sets with one slug, two run ids, two processes at a time.
SPECIFICATION Spec
CONSTANTS
  mine = mine
  other = other
  f1 = f1
  f2 = f2
  f3 = f3
  r1 = r1
  r2 = r2
  p1 = p1
  p2 = p2
  Nobody = Nobody
  Set = {mine, other}
  File = {f1, f2, f3}
  Contents <- Plans
  SlugSet <- OneSlug
  Id = {r1, r2}
  Proc = {p1, p2}
INVARIANTS
  OnePlanOneRun

  
SYMMETRY Symmetric
CHECK_DEADLOCK FALSE
