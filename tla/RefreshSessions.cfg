\* Two requests at once from two browsers of two users, with outages and expiry.
CONSTANTS
  User = {u1, u2}
  Client = {c1, c2}
  Request = {r1, r2}
  MaxSessions = 3
  NoRow = NoRow
SYMMETRY Symmetry
SPECIFICATION Spec
INVARIANTS
  CookiesAreKnown
  HeirsInLine
  SessionsAccounted
