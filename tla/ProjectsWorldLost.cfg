SPECIFICATION Spec
CONSTANTS
  Names = {n1}
  Engines = {"rm2k3e", "mt", "downloadable"}
  FileNames = {f1, f2}
  Archives <- FourArchives
  Requests = {r1}
  None = None
  MaxUploads = 3
PROPERTIES
  WorldKept
