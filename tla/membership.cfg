SPECIFICATION Spec

CONSTANTS
  v1 = v1
  v2 = v2
  p1 = p1
  everything = everything
  Org <- everything
  f1 = f1
  f2 = f2
  Fibers = {f1, f2}
  Workspaces = {v1, v2}
  Projects = {p1}
  Parent <- FirstOf
  Requests <- Asked
  Nobody = nobody
  MaxInvites = 2
  MaxUpsets = 4

SYMMETRY Alike

INVARIANTS
  AcceptedOnce
  SerialInvitations
  ListsAgree

PROPERTY
  ReplacedWhole

CHECK_DEADLOCK FALSE
