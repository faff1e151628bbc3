\* Person: two requests at a time, three in all, two links, one of everything else.
\* Queue: two pages, users and keys, two works; one booking, two requests, one event.
\* Requests and tabs share two values, and so do links and users: one symmetry for both.
CONSTANTS
  wa = wa  wb = wb  None = None  Nobody = Nobody
  Worker = {x1, x2}
  Link = {y1, y2}
  Entry = {e}
  Posting = {p}
  Image = {i}
  Field = {f}
  Invoice = {k}
  FeedbackPerDay = 1
  MaxText = 2
  MaxRequests = 3
  Tabs = {x1, x2}
  Users = {y1, y2}
  Keys = {k1, k2}
  Works = {wa, wb}
  Contents <- Mixed
  SoftFailureLimit = 2
  MaxSubmissions = 1
  MaxPosts = 2
  MaxEvents = 1
SYMMETRY Symmetric
SPECIFICATION MCSpec
INVARIANTS ErasedHoldsNothing AnswersWithinAllowance BookedByAuthor
PROPERTIES NothingLost
CHECK_DEADLOCK FALSE
