CONSTANTS
  BufLen = 3
  MaxLen = 4
  SliceLen = 2
  MinLen = 2
  LenMod = 6
  Pool = 3
  QSize = 2
  Pbufs = {p1, p2}
SPECIFICATION Spec
INVARIANTS DeliveredIntact GoodFrameDelivered NoRxLeak TxRefsExact
