CONSTANTS
  c1 = c1
  c2 = c2
  c3 = c3
  Callers <- MCCallers
  Limits <- MCLimits
SPECIFICATION FairSpec
INVARIANTS NoLostWakeup
PROPERTIES ImplementsSlots WaitersMeanAdmissions
