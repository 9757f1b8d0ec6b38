SPECIFICATION PluginsSpec
CONSTANTS
  Plugin = {p1, p2}
  Signer = {k1}
  Unsigned = Unsigned
  Refresh = {r1}
  Nothing = Nothing
  Gone = Gone
  Overlap = {}
  MaxRevision = 2
  MaxLocks = 1
  MaxKills = 1
SYMMETRY MCSymmetry
INVARIANTS StaysOff OnlyInstalledCode StopsWhatIsOff
