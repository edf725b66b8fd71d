CONSTANTS
  r1 = r1
  r2 = r2
  d1 = d1
  t1 = t1
  t2 = t2
  c1 = c1
  c2 = c2
  w1 = w1
  w2 = w2
  Request = {r1}
  Key = {d1}
  KeyOf <- MCKeyOne
  Teacher = {t1}
  Client = {c1}
  Runner = {w1}
  Nobody = Nobody
  MaxTries = 3
  MaxStalls = 1
  Kinds = {"mark"}
  TroubleCap = 1

SPECIFICATION FairSpec

PROPERTY ReviewSettles
