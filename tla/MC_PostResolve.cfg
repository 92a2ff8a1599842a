CONSTANTS
  o1 = o1
  o2 = o2
  o3 = o3
  o4 = o4
  d1 = d1
  nofile = nofile
  x = x
  y = y
  z = z
  w = w
  v = v
  u = u
  Objs = {o1, o2, o3, o4}
  Dylibs = {d1}
  Names = {x, y, z, w, v, u}
  NoFile = nofile
  Prio <- PostPrio
  ArchiveMembers = {o3, o4}
  StrippedDylibs = {}
  HiddenObjs = {}
  WeakDylibs = {}
  ObjTab <- PostObjTab
  DylibTab <- PostDylibTab

SPECIFICATION FairSpec

\* The link goes on to layout once the duplicate check is done.
CHECK_DEADLOCK FALSE

INVARIANTS
  PostTypeOK
  CommonsCleared
  CommonsMaterialised
  DuplicatesReported

PROPERTIES
  Termination
