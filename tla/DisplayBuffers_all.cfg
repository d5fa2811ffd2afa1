CONSTANTS
  Width = 3
  Height = 2
  AddressSpace = 7
  PenRange = 3
  ByteBits = 4
  BlankBefore = 2
  BlankAfter = 1
  Sprites <- MCSprites
  MaxDraws = 2
  MaxShows = 3
SPECIFICATION FairSpec
INVARIANTS
  TypeOK
  NoTearing
  ShownIsWhatWasDrawn
PROPERTIES
  EveryPictureIsSent
