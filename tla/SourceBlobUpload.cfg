SPECIFICATION Spec
CONSTANTS
  Uploaders = {u1, u2, u3}
  Contents = {c1, c2}
  Nothing = Nothing
  Nobody = Nobody
SYMMETRY Symmetry
INVARIANTS
  TypeOK
  SinglePut
  UploadedBytesAreDescribed
  ErasureIsFinal
  TombstoneClosesUpload
