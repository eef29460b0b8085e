\* SQLAlchemy's session: no reset link is ever stored.
SPECIFICATION Spec
CONSTANTS
  Callers = {a1, a2}
  Addresses = {e1}
  Passwords = {x, y}
  MaxLinks = 2
  MaxKeys = 2
  LinkLife = 1
  TokenLife = 1
  Autobegin = TRUE
  Faults = FALSE
  None = None
PROPERTIES ForgotServesAccounts
