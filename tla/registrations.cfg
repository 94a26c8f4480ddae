SPECIFICATION Spec
CONSTANTS
  m1 = m1
  m2 = m2
  Threads = {t1, t2}
  Mailboxes <- MCMailboxes
  AdminEmails <- MCAdminEmails
  MaxRestarts = 1
  LabelMax = 3
  NameMax = 6
  RawNames <- MCRawNames
  MaxDomains = 2
SYMMETRY Symmetry
INVARIANTS
  RegistrationInvariant
  SeedSucceeds
  OneAccountPerMailbox
  StoredNamesAreFqdns
  InvalidMeansMalformed
PROPERTIES
  AccountsAreARegistry
  NamesAreARegistry
