SPECIFICATION FairSpec
CONSTANTS
  Handshakes = {h1, h2}
  Startup = Startup
  MaxPairs = 3
INVARIANTS TypeOK RotationNoticed
PROPERTIES NeverOlder RotationServed
