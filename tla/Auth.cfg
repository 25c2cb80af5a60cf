\* Two requests race for an email and a Google account.
CONSTANTS
  None = None
  NoEmail = NoEmail
  t1 = t1
  t2 = t2
  e1 = e1
  s1 = s1
  s2 = s2
  r1 = r1
  r2 = r2
  k1 = k1
  Tenants <- MCTenants
  Emails <- MCEmails
  Subs <- MCSubs
  GoogleEmail <- MCGoogleEmail
  Requests <- MCRequests
  Keys <- MCKeys
  RefusesLong = TRUE
SPECIFICATION Spec
SYMMETRY Symmetry
CHECK_DEADLOCK FALSE
INVARIANTS
  TypeOK
  IdentitiesAreUnique
  OneCredential
  PasswordErrorsHaveCauses
PROPERTY
  RevocationIsFinal
  ImplementsRegistry
