SPECIFICATION Spec
CONSTANTS
  q1 = q1
  q2 = q2
  q3 = q3
  p1 = p1
  p2 = p2
  e1 = e1
  e2 = e2
  Requests = {q1, q2, q3}
  Phones = {p1, p2}
  Emails = {e1, e2}
  PhoneOf <- ThePhones
  EmailOf <- TheEmails
  Nobody = Nobody
  Refreshes = {f1, f2}
  MaxSessions = 4
SYMMETRY Symmetry
CONSTRAINT OneSide
INVARIANTS
  LinkIsMutual
  OneLivePerLogin
  StoredIsLive
  StoredIsOfLastLogin
PROPERTIES
  EndedStaysEnded
CHECK_DEADLOCK FALSE
