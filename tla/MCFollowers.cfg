SPECIFICATION Spec
CONSTANTS
  AlarmZones <- MCZones
  AlarmSensors <- MCAlarmSensors
  AlarmNotices = {3, 10}
  AlarmWire = 3
  MaxAlarms = 2
  KeyPoints <- MCPoints
  KeyObjects <- MCPoints
  KeySensors <- MCContacts
  KeyButtons = {1, 31}
  KeyWire = 2
  MaxPress = 1
  Advanced <- MCAdvanced
  Basic <- MCBasic
  LockBases <- MCBases
  BusSpelled <- MCSpelled
  Levels = {50, 101}
  Unknowns = {101}
  ShutterWire = 2
  Modules = {"11"}
  Scenarios = {1, 31}
  Scenes = {"s"}
  SceneWire = 2
  MaxLaunch = 1
  Loads = {1, 8}
  LoadsTried = {0, 3, 8, 9}
  Readings = {0, 230}
  LoadWire = 2
  Devices <- MCDevices
  Faults = {16}
  DevicesAsked <- MCDevicesAsked
  MaxFaulty = 2
  DeviceWire = 2
CHECK_DEADLOCK FALSE
INVARIANTS
  ConsumerKnows
  ActsArriveOnce
