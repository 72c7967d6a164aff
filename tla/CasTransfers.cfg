\* Uploads and downloads against a store that fails, stalls and refuses.
SPECIFICATION FairSpec
CONSTANTS
    Chunk <- MCChunk
    Sha256 <- MCSha256
    Blob <- MCBlob
    Digest <- MCDigest
    PathBacked <- MCPathBacked
    Uploads <- MCUploads
    Budget = 2
    Threshold = 1
    MaxAttempts = 2
    IdleTimeout = 2
    MaxChunks = 3
INVARIANTS UploadedMeansStored DownloadedMeansVerified BatchFits
PROPERTIES CallsReturn
