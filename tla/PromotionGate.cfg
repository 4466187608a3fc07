\* Every manifest with two kinds of evidence and one owner.
SPECIFICATION Spec
CONSTANTS
  Evidence = {need, parity}
  Owners = {sre}
SYMMETRY Symmetry
INVARIANTS
  ReadyIffComplete
