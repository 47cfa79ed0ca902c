SPECIFICATION Spec
CONSTANTS
  r1 = r1
  r2 = r2
  Requests = {r1}
  Retries = 2
  PageCounts = {1, 2}
  Faults <- AllKinds
  Most = 2
  lead = lead
  other = other
  ByName = other
  term = term
  Terms <- MCTerms
  Unknown = Unknown
  Absent = Absent
  Blank = Blank
  Sorts <- MCSorts
  Allowed <- MCAllowed
  Default <- MCDefault
  Visits <- MCVisitsAlone
INVARIANT
  PartialRowsTolerated
