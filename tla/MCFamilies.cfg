SPECIFICATION FamiliesSpec
CONSTANTS
  gw1 = gw1
  gw2 = gw2
  NoGateway = NoGateway
  Whos = {4, 5, 6, 7, 13, 98, 99, 1004}
  Numbers = {0, 1, 9, 14, 27}
  MaxFields = 4
  Houses <- MCHouses
  LightWheres = {"11"}
  HeatingWheres <- MCHeatingWheres
  Quarters <- MCQuarters
  Temperatures <- MCTemperatures
  HeatingWire = 1
  SoundNumbers = {0, 1, 2, 5, 6, 9, 10, 15, 16, 31, 32, 100, 101}
  Frequencies = {0, 9, 10, 531, 87499, 87500, 98765, 108000, 108001}
  SoundWire = 1
  StartDays = {20231231, 20240101, 20240228, 20240229, 20240615, 20250131, 20250228}
  MaxTicks = 1
  Dates <- MCDates
  MeterNumbers <- MCMeterNumbers
  MeterWire = 1
  DoorAddresses = {0, 73, 4}
  DoorWire = 1
  HalfHours = 6
  TimeZones = {"east", "west", "half"}
  Before <- MCBefore
  After <- MCAfter
  SwitchMoment = 39
  Years = {1}
  Moments = {37, 43}
  Start = 35
  End = 46
  ClockWire = 1
CHECK_DEADLOCK FALSE
INVARIANTS
  LinesReadOneWay
  EventsTellTheTruth
  CommandsAreObeyed
  DatesAreRight
