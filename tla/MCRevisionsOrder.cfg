SPECIFICATION Spec
CONSTANTS
  Last = 3
  Aur <- MCAur
  Vcs <- MCVcs
  Tree <- MCTree
  Syncers = {loop, request}
  Loop = loop
  MaxEvents = 1
INVARIANT
  SupersededByNewer
