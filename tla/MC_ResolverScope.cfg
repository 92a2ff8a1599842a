CONSTANTS
  o1 = o1
  o2 = o2
  o3 = o3
  o4 = o4
  d1 = d1
  d2 = d2
  nofile = nofile
  x = x
  y = y
  z = z
  w = w
  v = v
  Objs <- MCObjs
  Dylibs <- MCDylibs
  Names <- MCNames
  NoFile = nofile
  Prio <- MCPrio
  ArchiveMembers = {o2, o3, o4}
  StrippedDylibs = {d2}
  HiddenObjs = {o2}
  WeakDylibs = {}
  ObjTab <- MCObjTab
  DylibTab <- MCDylibTab

INIT Init
NEXT Next

\* Resolution ends; the link goes on to layout, which is not modelled.
CHECK_DEADLOCK FALSE

INVARIANT
  ScopeFromLiveDefiners
