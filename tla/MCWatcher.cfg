CONSTANTS
  s1 = s1
  phone = phone
  tablet = tablet
  Sessions <- OneSession
  Devices <- TwoDevices
  Attentions <- Attention
  Wants <- Preferences
  Faults <- EveryFault
  SlowPolls = FALSE
  MaxScreens = 4
  MaxMarks = 1
  MaxEvents = 1
SPECIFICATION Spec
INVARIANTS OncePerTurn DismissedStaysQuiet
PROPERTIES AnsweredIsNotPushed ClosedIsHeard  NothingStaysOpen
