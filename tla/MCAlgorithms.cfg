SPECIFICATION Spec
CONSTANTS
    MaxOptions = 2
    MaxLines = 4
    MaxTime = 4
    MaxSets = 1
INVARIANTS
    ModSound
    TarSound
    PlatformSound
    DiffSound
    CacheSound
    ManifestSound
    HostsSound
CHECK_DEADLOCK FALSE
