SPECIFICATION LoadSpec
CONSTANTS
  MaxFd = 5
  Image = a
  ByteSpace = 64
  MaxFails = 3
  Early = TRUE
  Bmp <- MCBmp
  MaxPos = 1
  File = {a, b}
  Nowhere = nowhere
  Handle = {h1, h2}
  Mode <- MCMode
  NoDev = NoDev
  NoFile = NoFile
INVARIANTS TypeOK NoSlotLost DescriptorRight OneHolder PictureStored
PROPERTIES LockHonoured
SYMMETRY Alike
