CONSTANTS
  Archivers = {v1, v2}
  LastBatch = 1
  MaxArchiveStops = 0

SPECIFICATION ArchiveSpec

INVARIANT ArchiveIsTransparent

CHECK_DEADLOCK FALSE
