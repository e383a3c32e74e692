\* Rings of one to four places, on three-bit unsigned integers, the smallest
\* that hold every sum.
SPECIFICATION Spec
CONSTANTS
  a = a
  b = b
  Elem <- MCElem
  Moduli <- MCModuli
  Word = 8
PROPERTY
  ImplementsSequence
