SPECIFICATION Spec
CONSTANTS
  Kinds = {"aircon", "tunable", "bulb", "strip", "dimmer", "relay", "cover", "fan"}
  Brightness = {1, 128, 255}
  Kelvins = {2700, 5990}
  Percents = {0, 1, 50, 51, 100}
  Temps = {160, 265}
  Choices = 3
  None = None
CHECK_DEADLOCK FALSE
INVARIANTS TypeOK KnownChoicesStay
