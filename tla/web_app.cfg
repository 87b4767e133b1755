SPECIFICATION Spec
CONSTANTS
  MaxInFlight = 2
  MaxCalls <- MCCalls
  Sensors = {s1, s2}
  PageSensor = s1
  NoSensor = NoSensor
  Kinds = {"text", "toggle"}
  WidgetIds = {1, 2}
  MaxEdits = 1
  MaxTimers = 1
  Periods = {1, 7}
  Positions = {0, 1, 2}
  Bodies = {"", "good", "bad"}
  adm = adm
  bob = bob
  Windows = {w1, w2}
  Users = {adm, bob}
  Companies = {c1, c2}
  Admin = adm
  First = c1
  Role <- MCRole
  Nobody = Nobody
  None = None
  MaxBoots = 3
  Missing = Missing
  Ids = {id1}
  Now = 7
  Week = 5
  MaxPoints = 2
  e1 = e1
  e2 = e2
  Devices = {e1, e2}
  DeviceType <- MCType
  Boards = {b1, b2}
  Moments = {1, 7}
  r1 = r1
  r2 = r2
  m1 = m1
  p1 = p1
  p2 = p2
  n1 = n1
  n2 = n2
  Records = {r1, r2}
  NoRecord = NoRecord
  Places <- MCPlaces
  MaxMoves = 5
  Emails = {m1}
  Passwords = {p1}
  Names = {n1, n2}
  Blank = Blank
  Workplaces = {c1, c2}
  root = root
  head = head
  guest = guest
  f1 = f1
  f2 = f2
  f3 = f3
  People = {root, head, guest}
  Firms = {f1, f2, f3}
  Super = {root}
  Unowned = Unowned
  Founders <- MCFounders
  Offered = {"admin"}
  Batches <- MCBatches
  FirstYear = 2015
  StartDays = {27, 30, 45, 424}
  Todays <- MCTodays
  MaxDays = 40
INVARIANTS
  RegistryCovers LiveInViewMode DrawnIsPressed SessionAgrees ImpersonationStays
  HistoryWindow DialogIsOfSensor PlaceIsTold AccountAgrees MembersAgree RunsAsPromised
CHECK_DEADLOCK FALSE
