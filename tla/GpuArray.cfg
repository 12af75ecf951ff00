\* A small, a large and an empty array, up to three writes of each.
SPECIFICATION ArraySpec
CONSTANTS
  small = small
  large = large
  empty = empty
  Arrays <- MCArrays
  Empty <- MCEmpty
  Large <- MCLarge
  Habits <- MCNoHabits
  MaxWrites = 3
INVARIANT ArrayTypeOK
PROPERTY ImplementsOneCopy
