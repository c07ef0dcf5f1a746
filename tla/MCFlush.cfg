CONSTANTS
  u1 = u1
  u2 = u2
  Worker = Worker
  Closer = Closer
  Nobody = Nobody
  Updaters <- MCUpdaters
  MaxRevision = 3
SPECIFICATION PersistSpec
PROPERTIES FlushPersistsAll
