CONSTANTS
  Pods = {p1, p2}
  Nothing = Nothing
SPECIFICATION FairSpec
INVARIANTS CacheMatchesFile RememberedIsLoaded
PROPERTIES RoutesFollow ReloadsCease
