CONSTANTS
  unit = unit
  crate = crate
  fg = fg
  sub = sub
  rm = rm
  profile = profile
  spare = spare
  setting = setting
  bought = bought
  day = day
  night = night
  press = press
  oven = oven
  steel = steel
  scrap = scrap
  v1 = v1
  v2 = v2
  r1 = r1
  r2 = r2
  act = act
  slot1 = slot1
  slot2 = slot2
  api = api
  none = none
  Units = {unit, crate}
  Items = {fg, sub, rm}
  Profiles = {profile, spare}
  Settings = {setting, bought}
  Calendars = {day, night}
  Resources = {press, oven}
  Slots = {slot1, slot2}
  Api = api
  None = none
  MaxChanges = 3
  Days = {1, 2, 3}
CONSTANTS
  Sources <- MCSources
  Boms <- MCBoms
  Routings <- MCRoutings
  Asked <- MCAsked
  Imports <- MCImports
  Initially <- MCInitially
SPECIFICATION SpecMasters
SYMMETRY Symmetry
CHECK_DEADLOCK FALSE
INVARIANTS
  NoLoop
  RevisionsApart
  InUseIsActive
