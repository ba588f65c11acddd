\* Two frames of every shape: any pair of neighbours the parser can meet.
SPECIFICATION Spec
CONSTANTS
  Base = 2
  SizeModulus = 32
  MaxFrames = 2
  Sizes = {0, 1, 2, 4, 8, 16}
  Tags = {1, 3}
  Versions = {38, 40, 41}
  Streams <- MCStreams
INVARIANTS
  TypeOK
  FramesIntact
  NeverSpins
  NeverWaitsForNextFrame
PROPERTIES
  ImplementsDelivery
  ArrivedFrameIsHanded
