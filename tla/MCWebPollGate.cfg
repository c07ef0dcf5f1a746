CONSTANTS
  a1 = a1
  a2 = a2
  k1 = k1
  i1 = i1
  Attempts <- MCBoth
  WithReference <- MCNone
  Accounts <- MCAccounts
  AccountOf <- MCAccountOf
  Limit <- MCLimit
  Images <- MCImages
  Uploaded = uploaded
  DoubleCheck = TRUE
  MaxUploads = 2
  MaxPrepares = 2
  MaxStarts = 2
  MaxResumes = 2
  Nobody = Nobody
SPECIFICATION Spec
INVARIANT SubmittedGetsItsTime
