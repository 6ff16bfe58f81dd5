\* Two accounts, to be confused with each other; one command; one edit at any time, to anything.
CONSTANTS
  Accounts = {a1, a2}
  Commands = {c1}
  MaxEdits = 1
  Absent = Absent
  Garbled = Garbled
SPECIFICATION AuthSpec
INVARIANTS AuthTypeOK KeyFitsAccount
