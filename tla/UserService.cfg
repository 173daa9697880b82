\* Three requests, each free to ask for anything, and anything may break.
CONSTANTS
  r1 = r1
  r2 = r2
  r3 = r3
  usr = usr
  adm = adm
  NoRow = NoRow
  NoCall = NoCall
  NoId = NoId
  Requests = {r1, r2, r3}
  Known <- MCKnown
  Accounts <- MCAccounts
  Emails <- MCEmails
  Secrets <- MCSecrets
  Names <- MCNames
  Calls <- MCCalls
  Lower <- MCLower
  Faults = TRUE
SPECIFICATION ServiceSpec
SYMMETRY Symmetry
INVARIANTS
  ServiceIInv
  NeverDeadlocked
  EmailsUnique
PROPERTIES
  DisabledIsFinal
  ImplementsAccounts
