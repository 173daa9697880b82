\* Registrations of one address, with nothing broken.
CONSTANTS
  r1 = r1
  r2 = r2
  r3 = r3
  usr = usr
  adm = adm
  NoRow = NoRow
  NoCall = NoCall
  NoId = NoId
  Requests = {r1, r2, r3}
  Known <- MCKnown
  Accounts <- MCAccounts
  Emails <- MCEmails
  Secrets <- MCSecrets
  Names <- MCNames
  Calls <- RegisterCalls
  Lower <- MCLower
  Faults = FALSE
SPECIFICATION ServiceSpec
SYMMETRY Symmetry
INVARIANT DuplicateIsConflict
