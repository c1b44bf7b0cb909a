CONSTANTS
  Element = {1, 2, 3}
  MaxLength = 5
  Vectors <- ShortVectors
SPECIFICATION Spec
INVARIANTS TypeOK FindsFirst PlacesElement Logarithmic
PROPERTIES Returns
