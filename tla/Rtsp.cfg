SPECIFICATION MCSpec
CONSTANTS
  Addresses = {a}
  Modes = {"tcp", "multicast"}
  MaxQueue = 2
  MaxSessions = 1
  MaxPerAddress = 1
  MaxAuthFailures = 1
  MaxConnections = 2
  MaxRequests = 3
  MaxMedia = 1
  MaxLifecycles = 2
  Tracks = {"video", "audio"}
  VideoTracks = {"video"}
  Configured <- AllOrNone
  WaitForAllTracks = TRUE
  WaitForKeyframe = TRUE
  Interleaving = TRUE
  MaxPending = 2
  MaxBuffered = 2
  MaxSpan = 2
  ReconnectAttempts = 1
  MaxGenerations = 2
  MaxPackets <- FewPackets
  Stamps <- FewStamps
  MaxFaults = 1
  Streams <- SampleStreams
  Chunks = {1, 3, 100}
  MaxRequestLine = 12
  MaxHeaderLine = 5
  MaxHeaders = 14
  MaxBody = 3
  Configs <- SampleConfigs
  Methods = {"PLAY"}
  Uris = {"cam"}
  BasicHeaders <- SampleBasicHeaders
  DigestForms = {"plain", "spaced", "escaped", "doubled", "shortened", "open quote", "no comma", "twice", "again", "other method", "wrong secret", "other uri"}
  Ttl = 2
  MaxTicks = 2
  MaxWaiting = 2
  MaxAsked = 4
  MaxOdd = 1
  TrackIds = {1, 2}
  H264Tracks = {1}
  Enabled = {"tcp", "udp", "multicast"}
  TransportHeaders <- SampleTransports
  SharedGroup <- SampleGroup
  Remote = 1
  SameFamily = {1, 2}
  SequenceModulus = 4
  MaxSetups = 2
  MaxTraffic = 2
  Clients = {"c", "d"}
  Asked <- SampleGroupsAsked
  Options <- SampleOptions
  FirstSequence = 3
  Reporters = {"a", "b"}
  Datagrams <- SampleDatagrams
  MaxUnits = 1
  MaxJoins = 2
  MaxDatagrams = 1
CHECK_DEADLOCK FALSE
INVARIANTS
  RegistryAgrees
  MediaAsAnswered
  StreamsWhole
  RequestsUnderstood
PROPERTIES
  MediaOfLifecycle
