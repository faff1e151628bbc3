CONSTANTS
  wa = wa  wb = wb  Nobody = Nobody
  Tabs = {t1, t2}
  Users = {u1, u2}
  Keys = {k1, k2}
  Works = {wa, wb}
  Contents <- Mixed
  SoftFailureLimit = 2
  MaxSubmissions = 1
  MaxPosts = 2
  MaxEvents = 1
SYMMETRY Symmetric
SPECIFICATION ReplaySpec
INVARIANT HelperBookedOnce
CHECK_DEADLOCK FALSE
