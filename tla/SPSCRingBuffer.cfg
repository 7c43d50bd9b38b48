SPECIFICATION FairSpec
CONSTANTS
  BufferSize = 4
  Junk = Junk
  MaxSize = 2
  MaxWritten = 4
PROPERTY EverythingIsRead
