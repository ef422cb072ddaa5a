SPECIFICATION Spec
CONSTANTS
  Session = {s1, s2}
  Backend = {freeform, native}
  Native = native
  NoBackend = none
  MaxTrouble = 2
SYMMETRY Symm
PROPERTIES SuccessIsWhole ErrorRestores MirrorKeepsPrimary
