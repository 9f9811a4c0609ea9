\* Every header built from edge values, cut to every length.
CONSTANTS
  U16Values <- MCU16Values
  U32Values <- MCU32Values
SPECIFICATION Spec
INVARIANTS TypeOK RoundTrip
