CONSTANTS
  None = None
  Worker = {w1, w2}
  Entry = {e}
  Posting = {p}
  Image = {i}
  Field = {f}
  Link = {l1}
  Invoice = {k}
  FeedbackPerDay = 1
  MaxText = 1
  MaxRequests = 2
SPECIFICATION Spec
INVARIANT FieldsErased
