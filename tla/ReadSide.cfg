SPECIFICATION SceneSpec
CONSTANTS
    b1 = b1  b2 = b2  b3 = b3  o1 = o1  o2 = o2  c1 = c1
    Archives <- MCArchives
    NoManifest = NoManifest  NoList = NoList  NoEntry = NoEntry
    BlobBytes <- MCBytes
    MaxShardRecords = 2
    MaxShardBytes = 2
    MaxRecords = 14
    MaxEntries = 20
    MaxEntryBytes = 15
    MaxTotalBytes = 60
    Posts = {1, 2, 3}
    ChannelOf <- MCChannels
    PublishedAt <- MCPublished
    Score <- MCScore
    Listings <- MCListings
    PageLimits = {1, 2}
    FeedLimit = 2
    ShortWindow = 1
    ShortLimit = 1
    NoCursor = NoCursor  NoListing = NoListing  NoIngest = NoIngest  NoMedia = NoMedia
    TicksPerMs = 2
    MaxTick = 4
    MaxRevision = 2
    MaxWrites = 2
    ReadPriority <- MCReadPriority
    ObjectSize = 2
    MaxReadFaults = 1
    MaxAccessTick = 2
    CoalesceInterval = 1
    Blank = Blank  NoRange = NoRange  MalformedRange = MalformedRange  Unsatisfiable = Unsatisfiable
    Thumbs = {o1, o2}
    RenderedAs <- MCRenderedAs
    RenderedSize <- MCRenderedSize
    ThumbnailMaxBytes = 1
    OriginalSize = 1
    CacheMaxBytes = 3
    MakerTokens = {k1, k2}
    NoToken = NoToken  NoRendering = NoRendering
    MaxThumbAttempts = 1
INVARIANTS CleanIsCoherent CoherentIsClean WalksAreSound DownloadsAreSound ThumbnailsAddUp
CHECK_DEADLOCK FALSE
