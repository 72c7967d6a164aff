\* TimeoutMeansIdle for transfers that make progress.
SPECIFICATION Spec
CONSTANTS
    Chunk <- MCChunk
    Sha256 <- MCSha256
    Blob <- MCBlob
    Digest <- MCDigest
    PathBacked <- MCPathBacked
    Uploads <- MCUploads
    Budget = 2
    Threshold = 1
    MaxAttempts = 2
    IdleTimeout = 2
    MaxChunks = 3
PROPERTIES TimeoutMeansIdle
