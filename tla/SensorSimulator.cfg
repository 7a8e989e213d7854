CONSTANTS
  SpikeStarts = {110, 111, 112, 113, 114, 115, 116, 117, 118, 119, 120, 121, 122, 123, 124, 125, 126, 127, 128, 129, 130, 131, 132, 133, 134, 135, 136, 137, 138, 139, 140, 141, 142, 143, 144, 145, 146, 147, 148, 149, 150}
  DropStarts = {220, 232, 250}
  GlitchStarts = {155, 205}
SPECIFICATION Spec
INVARIANTS
  WarningsWhereHot
PROPERTIES
  AnomaliesRecur
