\* The host keeps a view of an array that a kernel writes.
SPECIFICATION AnyProgram
CONSTANTS
  small = small
  large = large
  empty = empty
  Arrays <- MCArrays
  Empty <- MCEmpty
  Large <- MCLarge
  Habits <- MCHoldViews
  MaxWrites = 2
INVARIANT ViewsAreStable
