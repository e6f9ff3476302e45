CONSTANTS
  Pin <- Relays
  Sensor <- One
  Esp <- Zero
  Picked <- Colours
  Dragged <- Drags
  Percent <- Half
  Area <- Third
  Visit <- Visits
  MaxRequests = 6
  MaxWaiting = 4
  MaxInputs <- Inputs
  MaxAlarms = 1
SPECIFICATION GuiFairSpec
INVARIANTS GuiTypeOK LoadingMeansAsked RelayShown LampShown SliderShown OneInterval AlarmsRecent
PROPERTY LoadingEnds
CHECK_DEADLOCK FALSE
