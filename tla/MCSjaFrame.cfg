CONSTANTS
  Ids <- MCIds
  Bytes <- MCBytes
  Filters <- MCFilters
  Lengths = {0, 1, 2, 9}
  Dlcs = {0, 1, 15}
SPECIFICATION FrameSpec
INVARIANTS RoundTrip FilterExact
