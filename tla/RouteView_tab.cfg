\* One tab: up to two packs, failures.
CONSTANTS
  old = old
  new = new
  Packs = {old, new}
  NoPack = NoPack
  Names = {1, 2}
  PageSize = 1
  Rosters <- MCRosters
  FirstNames <- MCNames
  MaxRevisions = 2
  MaxClicks = 3
SPECIFICATION FairSpec
INVARIANTS
  RouteTypeOK
  AtRestShowsService
  SelectedPackIsShown
PROPERTIES
  RouteComesToRest
