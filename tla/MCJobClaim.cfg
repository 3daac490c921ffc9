SPECIFICATION Spec
CONSTANTS
  Sessions = {s1}
  Reconcilers = {r1, r2}
  Jobs = {1, 2}
  Images = {pinned}
  NoImage = NoImage
  NoSession = NoSession
  Free = Free
  Orphan = Orphan
  MaxBinding = 2
  MaxCas = 2
SYMMETRY Symmetry
INVARIANTS TypeOK RefMatchesBinding OnePoolJobPerBinding
PROPERTIES ClaimIsFinal
