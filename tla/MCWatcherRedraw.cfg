CONSTANTS
  s1 = s1
  phone = phone
  tablet = tablet
  Sessions <- OneSession
  Devices <- OneDevice
  Attentions <- Attention
  Wants <- Preferences
  Faults <- NoFault
  SlowPolls = FALSE
  MaxScreens = 3
  MaxMarks = 1
  MaxEvents = 0
SPECIFICATION Spec
INVARIANTS NeverTwice
