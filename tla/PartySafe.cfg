SPECIFICATION Spec
CONSTANTS
  Chars = {a, b, c, d}
  Parties = {p, q}
  NoChar = NoChar
  NoParty = NoParty
SYMMETRY Symmetry
INVARIANTS TypeOK MembersLinked LedByMember
PROPERTIES OwnConsent Seniority
