\* A ring of three packets, a start within the first or the second, and
\* thirds of a sample: reader and writer come round at every distance.
CONSTANTS
    MAX_PACKET = 4
    Unit = 3
    InPacket = 2
    OutPacket = 2
    BufferSizes = {1, 2}
    FirstSize = 2
    Volumes = {40, 90}
    FirstVolume = 90
SPECIFICATION FairSpec
INVARIANTS BufferInv VolumeKept
PROPERTIES PlaysWhatIsThere Resumes
