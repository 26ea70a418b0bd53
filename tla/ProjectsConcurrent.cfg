SPECIFICATION Spec
CONSTANTS
  Names = {n1}
  Engines = {"rm2k3e", "mt", "html", "downloadable"}
  FileNames = {f1, f2}
  Archives <- FourArchives
  Requests = {r1, r2}
  None = None
  MaxUploads = 2
INVARIANTS
  ArchivedWasSaved
  
  
SYMMETRY Symmetry
