SPECIFICATION Spec
CONSTANTS
    SourcePackages = {2, 3}
    SizeOf <- MCSizeOf
    Grows <- MCGrows
    MaxEntries = 1
    Empty = 1
    IndexSize = 1
    MaxSize = 6
    Saved = {"resolv.conf"}
    Writers = {"chroot"}
    HostHas = {"resolv.conf", "policy-rc.d"}
    Own = Own
    Host = Host
    None = None
    MaxFaults = 1
    MaxLater = 1
INVARIANTS TreeLeftClean RemovedUnused  VolumesFit
PROPERTIES BurntComplete
