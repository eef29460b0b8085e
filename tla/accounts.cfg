\* Two callers of one account: registrations, new keys, links and resets in any order.
SPECIFICATION FairSpec
CONSTANTS
  Callers = {a1, a2}
  Addresses = {e1}
  Passwords = {x, y}
  MaxLinks = 2
  MaxKeys = 2
  LinkLife = 1
  TokenLife = 1
  Autobegin = FALSE
  Faults = TRUE
  None = None
INVARIANTS TypeOK HeldKeyOpens UsedLinkIsDead NewestLinkWorks
PROPERTIES OnlyTheMailedLink EveryCallEnds OldSessionsDie
