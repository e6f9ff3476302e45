SPECIFICATION PickerSpec
CONSTANTS
  A = A
  B = B
  NoPicker = NoPicker
  Picker <- MCPicker
  Option <- MCOption
  Initially <- MCInitially
  Parent <- MCParent
  Typed <- MCTyped
  PointerX <- MCPointerX
  PointerY <- MCPointerY
  Width = 3
  Height = 3
  MaxInputs = 3
  Opened <- MCOpened
  Resized <- MCResized
INVARIANTS
  PickerTypeOK OwnerInControl PanelShows FieldShows PageHears BlurIsIdle
  PlacedInView
