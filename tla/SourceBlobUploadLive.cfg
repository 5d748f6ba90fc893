SPECIFICATION FairSpec
CONSTANTS
  Uploaders = {u1, u2}
  Contents = {c1}
  Nothing = Nothing
  Nobody = Nobody
PROPERTIES
  ErasureSettles
  ReservationSettles
  ImplementsErasureReceipt
