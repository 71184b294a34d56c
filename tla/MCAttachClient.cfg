CONSTANTS
  MinimumRows = 4
  Sessions <- ThreeSessions
  Self = 2
  Nested = 1
  OthersFirst <- OlderSession
  Items <- Written
  Normalized <- Rows
  Sizes <- Windows
  FirstSize = 24
  Keys <- Typing
  MaxTyped = 4
  MaxKeys = 2
  MaxItems = 1
  MaxChanges = 2
  MaxEvents = 3
SPECIFICATION Spec
INVARIANTS StreamIntact  NothingCovered GeometryAgrees InputShown MenuOwnsKeyboard LeavesOnlyAtExit 
PROPERTY KeysIntact
