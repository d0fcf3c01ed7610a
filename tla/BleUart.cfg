CONSTANTS
  SIZE = 3  CONSOLE = 3  READS = 2  TXDEPTH = 2  RXDEPTH = 1
  NL = NL  Chr = Chr  Nul = Nul
  Message <- Messages
  Banner <- BannerChunks
SPECIFICATION FairSpec
INVARIANTS TypeOK LineIntact MessageWhole
PROPERTIES TransmissionEnds InitEnds
