------------------------------- MODULE CdRepo --------------------------------
(* The repository of a source CD-ROM (elbepack/repomanager.py, cdroms.py):    *)
(* packages go into the current volume until it would become larger than a    *)
(* disk, then a new volume is opened; at the end every volume is burnt. The   *)
(* directories of the volumes outlive the object that counts them.            *)
EXTENDS Integers, FiniteSetsExt

CONSTANTS
    SourcePackages,   \* source packages of the project
    SizeOf(_),        \* size of a package with all its files
    Grows(_),         \* by how much a volume grows with it: its files and its entries
                      \* in the database of reprepro
    MaxEntries,       \* the most that these entries take
    Empty,            \* size of a volume without packages
    IndexSize,        \* what the indices in dists have about a package
    MaxSize           \* size of a disk

ASSUME SizesAssumption ==
    /\ IsFiniteSet(SourcePackages)
    /\ MaxEntries \in Nat /\ Empty \in Nat /\ IndexSize \in Nat /\ MaxSize \in Nat
    /\ Empty <= MaxSize
    /\ \A p \in SourcePackages : /\ SizeOf(p) \in Nat /\ Grows(p) \in Nat
                                 /\ Grows(p) <= SizeOf(p) + MaxEntries

VARIABLES
    vols,             \* volume -> packages in it: the directories on disk
    volume_count,     \* RepoBase.volume_count: number of the current volume
    added,            \* packages the running job has added without an error
    left,             \* packages it has still to add
    isos              \* the sets of packages on the images of the last job

cdvars == <<vols, volume_count, added, left, isos>>

CdInit == vols = <<>> /\ volume_count = 0 /\ added = {} /\ left = {} /\ isos = {}

\* _disk_usage of a volume: its packages with the database, and the indices that an
\* export has written, for no package up to all of them.
Stored(packages) == Empty + MapThenSumSet(Grows, packages)
DiskUsage(v) == {Stored(vols[v]) + i : i \in 0..(IndexSize * Cardinality(vols[v]))}
volume_indexes == 0..volume_count

\* gen_repo_conf of a volume that is there already: mkdir raises.
VolumeExists(v) == v \in DOMAIN vols

\* RepoBase.__init__ reopens the first volume, whatever the last object did.
OpenRepo ==
    /\ volume_count' = 0 /\ added' = {} /\ left' = SourcePackages
    /\ vols' = IF VolumeExists(0) THEN vols ELSE [v \in {0} |-> {}]
    /\ UNCHANGED isos

\* The object is gone with its job, the volumes stay.
CloseRepo == /\ volume_count' = 0 /\ added' = {} /\ left' = {} /\ isos' = {}
             /\ UNCHANGED vols

\* Mutant: only what is there already is compared to the limit.
NeedsVolume_Late(p, usage) == usage >= MaxSize

\* _includedsc: the package with its files would not fit any more.
NeedsVolume(p, usage) == usage + SizeOf(p) > MaxSize

\* The volume that the package goes into.
Into(p, usage) == IF NeedsVolume(p, usage) THEN volume_count + 1 ELSE volume_count
Volume(v) == IF VolumeExists(v) THEN vols[v] ELSE {}

\* includedsc with force: when reprepro refuses the package it is removed from
\* the current volume and included again, with the check for the size.
IncludeDsc(p) ==
    \E usage \in DiskUsage(volume_count) :
        LET n == Into(p, usage)
        IN /\ p \in left
           /\ ~(NeedsVolume(p, usage) /\ VolumeExists(n))
           /\ volume_count' = n
           /\ vols' = [v \in DOMAIN vols \union {n} |->
                          IF v = n THEN Volume(n) \union {p} ELSE vols[v]]
           /\ added' = added \union {p} /\ left' = left \ {p}
           /\ UNCHANGED isos

\* The source is forbidden by the recipe, unknown, or cannot be downloaded.
SkipDsc(p) ==
    /\ p \in left
    /\ left' = left \ {p}
    /\ UNCHANGED <<vols, volume_count, added, isos>>

\* new_repo_volume raises after it has counted.
VolumeFails(p) ==
    /\ \E usage \in DiskUsage(volume_count) :
          p \in left /\ NeedsVolume(p, usage) /\ VolumeExists(volume_count + 1)
    /\ volume_count' = volume_count + 1
    /\ UNCHANGED <<vols, added, left, isos>>

\* Mutant: the last volume is forgotten.
BuildIso_OffByOne ==
    /\ left = {}
    /\ isos' = IF volume_count = 0 THEN {vols[0]}
               ELSE {vols[i] : i \in 0..(volume_count - 1)}
    /\ UNCHANGED <<vols, volume_count, added, left>>

\* finalize, which exports the indices of the current volume after the last check,
\* and buildiso: one image per volume of this object.
BuildIso ==
    /\ left = {}
    /\ isos' = IF volume_count = 0 THEN {vols[0]}
               ELSE {vols[i] : i \in volume_indexes}
    /\ UNCHANGED <<vols, volume_count, added, left>>

-----------------------------------------------------------------------------
\* The check before a package is added keeps a volume within a disk but for what
\* is written after it: the entries of the package added last, and the indices.
\* Only a volume with a single package may be larger.
VolumesFit ==
    \A v \in DOMAIN vols :
        Stored(vols[v]) <= MaxSize + MaxEntries \/ Cardinality(vols[v]) = 1

\* The inductive invariant behind VolumesFit and BurntComplete: as long as an
\* object adds packages its volumes exist, and what it added is in one of them.
CdInv ==
    /\ volume_count \in Nat /\ left \subseteq SourcePackages
    /\ \A v \in DOMAIN vols : vols[v] \subseteq SourcePackages
    /\ left # {} \/ added # {} => 0..volume_count \subseteq DOMAIN vols
    /\ \A p \in added : \E v \in 0..volume_count : p \in vols[v]
    /\ VolumesFit
=============================================================================
