\* Bodies of up to seven characters, compressed or not, in every way of reading.
CONSTANTS
  Bodies <- TheBodies
  ChunkSizes = {2}
  MaxEventSize = 2
  CompressedLength = 3
  None = None
SPECIFICATION Spec
INVARIANTS CutsDoNotMatter LimitPerEvent ContentWhole ReleasedAtEnd
CHECK_DEADLOCK FALSE
