SPECIFICATION AuthSpec
CONSTANTS
  c1 = c1
  c2 = c2
  k1 = k1
  k2 = k2
  short = short
  t1 = t1
  t2 = t2
  w1 = w1
  w2 = w2
  w3 = w3
  adminKey = adminKey
  None = None
  AdminKey = adminKey
  Tokens = {t1, t2}
  ShortKeys = {short}
  Workers = {w1, w2}
  Clients = {c1, c2}
  Keys = {k1, k2}
  Requests <- requests
  EnableAdmin = TRUE
  AllowSelfRegistration = FALSE
SYMMETRY symmetry
INVARIANTS OneTokenPerClient TokenBacked
PROPERTIES PurgesOnlyExpired
