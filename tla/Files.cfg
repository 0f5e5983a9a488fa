SPECIFICATION Spec
CONSTANTS
  Photos = {p1, p2}
  Tasks = {t1, t2}
  Extensions = {png, jpg}
  MaxFailures = 1
  MaxCrashes = 1
  None = None
SYMMETRY Symmetry
INVARIANTS NoOrphanPhotos LogoHasItsFile
PROPERTIES FilesOutliveRows
