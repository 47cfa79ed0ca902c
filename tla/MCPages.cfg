SPECIFICATION Spec
CONSTANTS
  Requests = {r1, r2}
  r1 = r1
  r2 = r2
  Retries = 2
  PageCounts = {1, 2}
  Faults <- TwoKinds
  Most = 2
  lead = lead
  other = other
  ByName = other
  term = term
  Terms <- MCTerms
  Unknown = Unknown
  Absent = Absent
  Blank = Blank
  Sorts <- MCSorts
  Allowed <- MCAllowed
  Default <- MCDefault
  Visits <- MCVisits
INVARIANTS
  TypeOK
  CacheBounded
  ShowsItsOwn
  NoServerError
  LinksLeadOn
PROPERTY
  AllAnswered
