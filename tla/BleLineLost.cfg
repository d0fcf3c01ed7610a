CONSTANTS
  SIZE = 3  CONSOLE = 3  READS = 2  TXDEPTH = 3  RXDEPTH = 2
  NL = NL  Chr = Chr  Nul = Nul
  Message <- Messages
  Banner <- BannerChunks
SPECIFICATION Spec
PROPERTY LineHandedOver
