CONSTANTS
  Descriptors = {f1, f2}
  Timeouts = {0, 1, 2}
  Forever = Forever
SPECIFICATION FlagsSpec
SYMMETRY Symmetric
INVARIANTS NeverBlocks UserView
