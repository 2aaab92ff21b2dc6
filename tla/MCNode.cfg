\* Two nodes' keys, two listeners, two processes that may generate a key; up to three override files, two addresses of two bits.
CONSTANTS
  Key = {k1, k2}
  NoKey = NoKey
  Listener = {l1, l2}
  Generator = {g1, g2}
  File <- MCFile
  MaxFiles = 3
  MaxAddrs = 2
  Width = 2
SPECIFICATION NodeSpec
INVARIANTS OneKey TrustAgrees ReportsAgree MergeTakesWholeFiles FacingIsClosest
PROPERTIES WindowCloses TrustsItself
