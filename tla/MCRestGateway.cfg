\* The gRPC door with three deliveries to two concurrent requests, or one
\* route of the gateway.
CONSTANTS
  ku = ku
  ks = ks
  kr = kr
  n1 = n1
  n2 = n2
  c1 = c1
  c2 = c2
  Calls = {c1, c2}
  Keys <- MCKeys
  Nonces = {n1, n2}
  Algos = {"ed25519", "p256"}
  Registered = {"ed25519"}
  Rpcs <- MCRpcs
  AuthTable <- AUTH_TABLE
  KeyTable <- MCKeyTable
  RowAlgo <- MCRowAlgo
  Scopes <- MCScopes
  InitRows <- MCInitRows
  Messages <- MCMessages
  Window = 1
  Horizon = 1
  Slack = 0
  Capacity = 1
  MaxClock = 2
  MaxArrivals = 3
  I32Bits = 8
  MaxDepth = 2
  ContentNodes <- MCContentNodes
  ContentDocs <- MCContentDocs
  Depth <- MCDepth
  Http <- MCHttp
  Rows <- MCRows
  Traffics <- MCTraffics
SYMMETRY CallSymmetry
SPECIFICATION GatewaySpec
INVARIANTS HandledForSigner ReplayJustified
INVARIANTS GenuineVerified ExecutedAsMeant RepliesDistinguish ContentSurvives ErrorMeansNoEffect
PROPERTIES NonceOncePerHorizon
