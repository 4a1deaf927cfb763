SPECIFICATION Spec
CONSTANTS
  c = c
  p = p
  d = d
  r1 = r1
  r2 = r2
  r3 = r3
  Works = {p, c, d}
  NoWork = none
  Atlas = atlas
  Free = free
  Parent <- Family
  Depth <- Depths
  Id <- Ids
  Review = {p}
  Required = {d}
  Request = {r1, r2, r3}
  Mixes <- Together
  Starts <- Estates
  Attempts = 3
INVARIANT
  NoCircularWait
