SPECIFICATION LinkSpec
CONSTANTS
  Values <- MCValues
INVARIANTS NoDebris AloneIntact
