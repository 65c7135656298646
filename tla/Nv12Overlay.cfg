SPECIFICATION Spec
CONSTANTS
  Widths = {4, 8}
  Heights = {4, 6}
  Coords <- MCCoords
  Lengths = {1, 3}
  Border = 2
  Cell = 1
  text_scale = 2
  Margin = 1
  Corner = 1
  INPUT_W = 4
  INPUT_H = 3
  MaxDraws = 2
INVARIANT InBuffer
INVARIANT WholeChroma
