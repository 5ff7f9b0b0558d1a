CONSTANTS
  Conns = {1, 2, 3}
  Size <- Sizes
  TAMANHO_CABECALHO = 2
SPECIFICATION FairSpec
CHECK_DEADLOCK FALSE
INVARIANTS
  PublishedAsSent
  HeldBlocksStay
  OnlyDroppedConnectionsLeak
PROPERTY FilesArePublished
