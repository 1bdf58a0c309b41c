------------------------------ MODULE DiskImage ------------------------------
(* The images of a target (elbepack/hdimg.py, elbepack/fstab.py): do_hdimg    *)
(* moves what lies below a mount point out of the target into a directory of  *)
(* that file system, lays out every disk of the recipe sector by sector,      *)
(* writes the file systems and binaries into it, installs the boot loader     *)
(* with all file systems mounted, and moves everything back - also when a     *)
(* command failed in between.                                                 *)
(*                                                                            *)
(* A file is the sequence of names that leads to it, and the name of an image *)
(* the sequence of its name and suffixes; a sector is a number, its content   *)
(* the partition (or blob) that wrote it last.                                *)
EXTENDS Integers, SequencesExt

CONSTANTS
    Recipes,   \* set of recipes: [files, fstab, images, archives]
    Dot,       \* the names that begin with a dot, which `dir/*' leaves out
    Gap,       \* sectors before a logical partition: 2048
    GptTail,   \* sectors kept free for the backup table of a GPT disk: 35
    Remain     \* the size of a partition that takes what is left

IsSeq(s) == s \in Seq(ToSet(s))

PartTags == {"partition", "extended", "logical"}

\* A disk of the schema: sizes are numbers, and the <logical> elements are
\* children of the <extended> one, so that they come right after it.
IsDisk(d) ==
    /\ d.size \in Nat /\ d.first \in Nat /\ IsSeq(d.parts)
    /\ \A k \in DOMAIN d.parts :
          /\ d.parts[k].tag \in PartTags
          /\ d.parts[k].size = Remain \/ d.parts[k].size \in Nat
          /\ "binary" \in DOMAIN d.parts[k] => d.parts[k].binary \in Nat
          /\ d.parts[k].tag = "logical" =>
                k > 1 /\ d.parts[k - 1].tag \in {"extended", "logical"}

ASSUME SectorsAssumption == Gap \in Nat /\ GptTail \in Nat \ {0}
ASSUME RecipesAssumption ==
    \A r \in Recipes :
        /\ IsSeq(r.images) /\ IsSeq(r.archives) /\ IsSeq(r.fstab)
        /\ \A p \in r.files : IsSeq(p)
        /\ \A i \in DOMAIN r.fstab :
              /\ IsSeq(r.fstab[i].mount)
              /\ "packed" \in DOMAIN r.fstab[i] => r.fstab[i].packed \in Nat
        /\ \A i \in DOMAIN r.images : IF r.images[i].tag = "mtd" THEN IsSeq(r.images[i].vols)
                                       ELSE IsDisk(r.images[i])

VARIABLES
    recipe,    \* the recipe being built
    pc,        \* where do_hdimg is
    tree,      \* files and directories of the target
    fsdir,     \* file system id -> what lies in filesystems/<id>
    todo,      \* mount points still to be moved out, back, or mounted
    img, pos,  \* number of the image and of its partition
    sector,    \* current_sector of do_image_hd
    ext,       \* the open extended partition, with its current_sector
    table,     \* the partitions of the disk at hand
    geom,      \* label -> geometry of its fstabentry
    disk,      \* image -> sector -> number of the partition that wrote it
    grub,      \* keys of grub.fs: ids of the mount points of this disk
    mounted,   \* ids that are mounted below imagemnt, outermost first
    files,     \* the files of the build directory
    images,    \* the list of created images
    failed     \* an exception is on its way

diskvars == <<recipe, pc, tree, fsdir, todo, img, pos, sector, ext, table, geom,
              disk, grub, mounted, files, images, failed>>
-----------------------------------------------------------------------------
\* f[k] = v of a dictionary.
Put(f, k, v) == [x \in DOMAIN f \union {k} |-> IF x = k THEN v ELSE f[x]]

fstab == recipe.fstab
Labels == {fstab[i].label : i \in DOMAIN fstab}

\* fslabel: a label that occurs twice stands for its last entry.
Entry(l) == CHOOSE i \in DOMAIN fstab :
               /\ fstab[i].label = l
               /\ \A j \in DOMAIN fstab : fstab[j].label = l => j <= i

\* mountpoint_dict.register: entries whose mount point is spelt alike share an
\* id, which is here the number of the entry that came first.
Alike(i, j) == fstab[i].mount = fstab[j].mount /\ fstab[i].slash = fstab[j].slash
Id(i) == CHOOSE j \in DOMAIN fstab :
            /\ Alike(j, i)
            /\ \A k \in DOMAIN fstab : Alike(k, i) => j <= k
Ids == {Id(i) : i \in DOMAIN fstab}

\* mountdepth stops at the first empty name: a trailing slash gives depth 0.
MountDepth(i) == IF fstab[i].slash THEN 0 ELSE Len(fstab[i].mount)

\* Mutant: the mount points are taken in the order of the recipe.
DepthList_Unsorted(ids) == ids

\* The elements of a finite set in the order of a set of pairs: SetToSortSeq, defined
\* by the position of every element.
Sorted(S, order) ==
    [k \in 1..Cardinality(S) |->
        CHOOSE x \in S : Cardinality({y \in S : <<y, x>> \in order}) = k - 1]

\* depthlist: sorted() keeps the order of the dictionary for equal depths.
DepthList(ids) ==
    LET before == {e \in (DOMAIN ids) \X (DOMAIN ids) :
                      \/ MountDepth(ids[e[1]]) < MountDepth(ids[e[2]])
                      \/ MountDepth(ids[e[1]]) = MountDepth(ids[e[2]]) /\ e[1] < e[2]}
        order == Sorted(DOMAIN ids, before)
    IN [k \in DOMAIN ids |-> ids[order[k]]]

\* The keys of the dictionary in the order in which they were registered.
Registered == Sorted(Ids, {e \in Ids \X Ids : e[1] < e[2]})
fslist == DepthList(Registered)

Above(m) == {SubSeq(m, 1, k) : k \in 1..Len(m)}
Children(t, m) == {p \in t : IsStrictPrefix(m, p)}
Shown(t, m) == {p \in Children(t, m) : p[Len(m) + 1] \notin Dot}
Below(m, p) == SubSeq(p, Len(m) + 1, Len(p))

Image == recipe.images[img]
Part == Image.parts[pos]
Has(node, tag) == tag \in DOMAIN node
-----------------------------------------------------------------------------
Init ==
    /\ recipe \in Recipes
    /\ pc = IF recipe.images = <<>> THEN "archives" ELSE "moveout"
    /\ tree = recipe.files
    /\ fsdir = [i \in Ids |-> {}]
    /\ todo = Reverse(fslist)
    /\ img = 1 /\ pos = 1 /\ sector = 0 /\ ext = <<>>
    /\ table = <<>> /\ geom = <<>> /\ disk = <<>> /\ grub = <<>>
    /\ mounted = <<>> /\ files = {} /\ images = <<>> /\ failed = FALSE

\* An exception leaves the loop over the images through its finally clause.
Raise == /\ failed' = TRUE
         /\ pc' = "moveback"
         /\ todo' = fslist

\* mkdir -p and mv of one mount point, the deepest one first.
MoveOut ==
    /\ pc = "moveout" /\ todo # <<>>
    /\ LET m == fstab[Head(todo)].mount
           t == tree \union Above(m)
       IN /\ tree' = t \ Shown(t, m)
          /\ fsdir' = [fsdir EXCEPT ![Head(todo)] = {Below(m, p) : p \in Shown(t, m)}]
    /\ todo' = Tail(todo)
    /\ pc' = IF Len(todo) = 1 THEN "image" ELSE pc
    /\ UNCHANGED <<recipe, img, pos, sector, ext, table, geom, disk, grub, mounted,
                   files, images, failed>>

\* do_image_hd up to its loop: a fresh image file with an empty table.
StartDisk ==
    /\ pc = "image" /\ img <= Len(recipe.images) /\ Image.tag # "mtd"
    /\ files' = files \union {Image.name}
    /\ disk' = Put(disk, Image.name, [s \in 0..(Image.size - 1) |-> 0])
    /\ table' = <<>> /\ grub' = <<>> /\ ext' = <<>>
    /\ sector' = Image.first /\ pos' = 1
    /\ pc' = "part"
    /\ UNCHANGED <<recipe, tree, fsdir, todo, img, geom, mounted, images, failed>>

\* mkfs_mtd: a volume whose mkfs.ubifs fails is logged and left out.
MkfsMtd ==
    /\ pc = "image" /\ img <= Len(recipe.images) /\ Image.tag = "mtd"
    /\ \E ok \in SUBSET {v.label : v \in {x \in ToSet(Image.vols) :
                                              x.kind = "fs" /\ x.label \in Labels}} :
          /\ files' = files \union {<<l, "ubifs">> : l \in ok}
          /\ images' = images \o SetToSeq({<<l, "ubifs">> : l \in ok})
    /\ img' = img + 1
    /\ UNCHANGED <<recipe, pc, tree, fsdir, todo, pos, sector, ext, table, geom, disk,
                   grub, mounted, failed>>

-----------------------------------------------------------------------------
(* create_partition: geometry of the next partition of the disk.             *)
Logical == Part.tag = "logical"
Gpt == Image.tag = "gpthd"
Start == IF Logical THEN ext.sector + Gap ELSE sector
Limit == IF Logical THEN ext.end ELSE Image.size
Length ==
    IF Part.size = Remain
    THEN Limit - Start - (IF Gpt THEN GptTail ELSE 0)
    ELSE Part.size

\* disk.addPartition of libparted refuses what does not fit or overlaps.
Accepted ==
    /\ Length > 0
    /\ Start + Length <= Limit - (IF Gpt THEN GptTail - 1 ELSE 0)
    /\ \A n \in DOMAIN table :
          \/ table[n].end <= Start \/ Start + Length <= table[n].start
          \/ Logical /\ table[n].tag = "extended"

\* dd conv=notrunc of `len' sectors.
Written(d, from, len, n) ==
    [s \in DOMAIN d |-> IF from <= s /\ s < from + len THEN n ELSE d[s]]

HasContent ==
    /\ Part.tag # "extended"
    /\ Has(Part, "binary") \/ (Has(Part, "label") /\ Part.label \in Labels)

\* The length of the file create_label copies: mkfs fills a file as large as the
\* partition, mksquashfs and mkfs.erofs make one as long as the content needs.
PartImage(size) ==
    LET entry == fstab[Entry(Part.label)] IN IF Has(entry, "packed") THEN entry.packed ELSE size

\* The sectors of the partition that its file system takes.
Used ==
    IF ~HasContent \/ Has(Part, "binary") THEN 0
    ELSE IF PartImage(Length) <= Length THEN PartImage(Length) ELSE Length

AddToTable ==
    /\ Accepted
    /\ table' = Append(table, [tag |-> Part.tag, start |-> Start, end |-> Start + Length,
                               used |-> Used])
    /\ IF Logical
       THEN ext' = [ext EXCEPT !.sector = Start + Length] /\ UNCHANGED sector
       ELSE /\ sector' = Start + Length
            /\ ext' = IF Part.tag = "extended"
                      THEN [sector |-> Start, end |-> Start + Length] ELSE ext
    /\ pos' = pos + 1

\* A partition that is only reserved, and an extended one.
CreateEmpty ==
    /\ pc = "part" /\ pos <= Len(Image.parts) /\ ~HasContent
    /\ AddToTable
    /\ UNCHANGED <<recipe, pc, tree, fsdir, todo, img, geom, disk, grub, mounted, files,
                   images, failed>>

\* create_binary: the whole file is written, however long it is.
CreateBinary ==
    /\ pc = "part" /\ pos <= Len(Image.parts) /\ HasContent /\ Has(Part, "binary")
    /\ AddToTable
    /\ disk' = [disk EXCEPT ![Image.name] = Written(@, Start, Part.binary, pos)]
    /\ UNCHANGED <<recipe, pc, tree, fsdir, todo, img, geom, grub, mounted, files, images,
                   failed>>

\* fstabentry.set_geometry: the last partition with the label counts.
SetGeometry == Put(geom, Part.label, [offset |-> Start, size |-> Length])

\* Mutant: an fstab entry keeps its first geometry.
CreateLabel_FirstGeometry ==
    /\ pc = "part" /\ pos <= Len(Image.parts) /\ HasContent /\ ~Has(Part, "binary")
    /\ AddToTable
    /\ geom' = IF Part.label \in DOMAIN geom THEN geom ELSE SetGeometry
    /\ disk' = [disk EXCEPT ![Image.name] =
                    Written(@, geom'[Part.label].offset, PartImage(geom'[Part.label].size), pos)]
    /\ UNCHANGED <<recipe, pc, tree, fsdir, todo, img, grub, mounted, files, images, failed>>

\* create_label: mkfs in a file of its own, the whole of which goes to where the
\* geometry of the fstab entry says.
CreateLabel ==
    /\ pc = "part" /\ pos <= Len(Image.parts) /\ HasContent /\ ~Has(Part, "binary")
    /\ AddToTable
    /\ geom' = SetGeometry
    /\ disk' = [disk EXCEPT ![Image.name] =
                    Written(@, geom'[Part.label].offset, PartImage(geom'[Part.label].size), pos)]
    /\ LET id == Id(Entry(Part.label))
       IN grub' = IF id \in ToSet(grub) THEN grub ELSE Append(grub, id)
    /\ UNCHANGED <<recipe, pc, tree, fsdir, todo, img, mounted, files, images, failed>>

\* libparted refuses the partition, or mkfs, losetup, mount, cp or dd fails.
PartitionFails ==
    /\ pc = "part" /\ pos <= Len(Image.parts) /\ (~Accepted \/ HasContent)
    /\ Raise
    /\ UNCHANGED <<recipe, tree, fsdir, img, pos, sector, ext, table, geom, disk, grub,
                   mounted, files, images>>

\* The disk is complete; with a root file system on it grub.install goes on.
Root == {i \in Ids : fstab[i].mount = <<>>}
CommitDisk ==
    /\ pc = "part" /\ pos > Len(Image.parts)
    /\ IF Image.grub /\ Root \intersect ToSet(grub) # {}
       THEN pc' = "grub" /\ todo' = DepthList(grub) /\ UNCHANGED <<img, images>>
       ELSE pc' = "image" /\ img' = img + 1 /\ images' = Append(images, Image.name)
            /\ UNCHANGED todo
    /\ UNCHANGED <<recipe, tree, fsdir, pos, sector, ext, table, geom, disk, grub, mounted,
                   files, failed>>

\* The file systems are mounted in the order of depthlist.
GrubMount ==
    /\ pc = "grub" /\ todo # <<>>
    /\ mounted' = Append(mounted, Head(todo)) /\ todo' = Tail(todo)
    /\ UNCHANGED <<recipe, pc, tree, fsdir, img, pos, sector, ext, table, geom, disk, grub,
                   files, images, failed>>

\* All done, or a command failed, which is only logged: the ExitStack unmounts.
GrubLeave ==
    /\ pc = "grub"
    /\ mounted' = <<>> /\ todo' = <<>>
    /\ pc' = "image" /\ img' = img + 1 /\ images' = Append(images, Image.name)
    /\ UNCHANGED <<recipe, tree, fsdir, pos, sector, ext, table, geom, disk, grub, files,
                   failed>>

\* No shim in the image: next() raises what install does not catch.
GrubRaises ==
    /\ pc = "grub" /\ todo = <<>>
    /\ mounted' = <<>>
    /\ Raise
    /\ UNCHANGED <<recipe, tree, fsdir, img, pos, sector, ext, table, geom, disk, grub,
                   files, images>>

EndImages ==
    /\ pc = "image" /\ img > Len(recipe.images)
    /\ pc' = "moveback" /\ todo' = fslist
    /\ UNCHANGED <<recipe, tree, fsdir, img, pos, sector, ext, table, geom, disk, grub,
                   mounted, files, images, failed>>
-----------------------------------------------------------------------------
\* The finally clause: mv of one file system, the most shallow one first. A
\* directory does not replace one that is not empty, and mv needs its target.
MoveBack ==
    /\ pc = "moveback" /\ todo # <<>>
    /\ LET m == fstab[Head(todo)].mount
           free(p) == Children(tree, m \o <<Head(p)>>) = {}
           moved == IF m = <<>> \/ m \in tree
                    THEN {p \in fsdir[Head(todo)] : Head(p) \notin Dot /\ free(p)} ELSE {}
       IN /\ tree' = tree \union {m \o p : p \in moved}
          /\ fsdir' = [fsdir EXCEPT ![Head(todo)] = @ \ moved]
    /\ todo' = Tail(todo)
    /\ IF Len(todo) > 1 THEN UNCHANGED <<pc, img>>
       ELSE img' = 1 /\ pc' = IF failed THEN "failed" ELSE "ubinize"
    /\ UNCHANGED <<recipe, pos, sector, ext, table, geom, disk, grub, mounted, files,
                   images, failed>>

\* build_image_mtd. A binary that is not found raises; a failing ubinize, as
\* when a volume was not made, is logged.
Ubibins == {<<v.label, "ubibin">> : v \in {x \in ToSet(Image.vols) : x.kind = "binary"}}
Ubifs == {<<v.label, "ubifs">> : v \in {x \in ToSet(Image.vols) : x.kind = "fs"}}
BuildMtd ==
    /\ pc = "ubinize" /\ img <= Len(recipe.images) /\ Image.tag = "mtd"
    /\ \/ \E made \in SUBSET {Image.name} :
             /\ made # {} => Ubifs \subseteq files
             /\ files' = files \union Ubibins \union made
             /\ images' = images \o SetToSeq(Ubibins) \o SetToSeq(made)
             /\ img' = img + 1 /\ UNCHANGED <<pc, failed>>
       \/ /\ Ubibins # {}
          /\ failed' = TRUE /\ pc' = "failed" /\ UNCHANGED <<files, images, img>>
    /\ UNCHANGED <<recipe, tree, fsdir, todo, pos, sector, ext, table, geom, disk, grub,
                   mounted>>

\* The blobs are written one after the other, whatever lies there.
WithBlobs(d, blobs) == FoldLeft(LAMBDA e, b : Written(e, b.offset, b.len, -1), d, blobs)

\* add_binary_blob of one image: the recipe says where each blob goes.
AddBlobs ==
    /\ pc = "blobs" /\ img <= Len(recipe.images) /\ Image.tag # "mtd"
    /\ \/ /\ disk' = [disk EXCEPT ![Image.name] = WithBlobs(@, Image.blobs)]
          /\ img' = img + 1 /\ UNCHANGED <<pc, failed>>
       \/ /\ Image.blobs # <<>>
          /\ failed' = TRUE /\ pc' = "failed" /\ UNCHANGED <<disk, img>>
    /\ UNCHANGED <<recipe, tree, fsdir, todo, pos, sector, ext, table, geom, grub, mounted,
                   files, images>>

\* Both loops skip the other kind of image; at the end duplicates are removed.
SkipImage ==
    /\ \/ pc = "ubinize" /\ img <= Len(recipe.images) /\ Image.tag # "mtd"
       \/ pc = "blobs" /\ img <= Len(recipe.images) /\ Image.tag = "mtd"
    /\ img' = img + 1
    /\ UNCHANGED <<recipe, pc, tree, fsdir, todo, pos, sector, ext, table, geom, disk, grub,
                   mounted, files, images, failed>>

StartBlobs ==
    /\ pc = "ubinize" /\ img > Len(recipe.images)
    /\ pc' = "blobs" /\ img' = 1
    /\ UNCHANGED <<recipe, tree, fsdir, todo, pos, sector, ext, table, geom, disk, grub,
                   mounted, files, images, failed>>

\* Mutant: the list is returned with its duplicates.
ReturnImages_Duplicates ==
    /\ pc = "blobs" /\ img > Len(recipe.images)
    /\ pc' = "archives"
    /\ UNCHANGED <<recipe, tree, fsdir, todo, img, pos, sector, ext, table, geom, disk,
                   grub, mounted, files, images, failed>>

ReturnImages ==
    /\ pc = "blobs" /\ img > Len(recipe.images)
    /\ pc' = "archives" /\ images' = SetToSeq(ToSet(images))
    /\ UNCHANGED <<recipe, tree, fsdir, todo, img, pos, sector, ext, table, geom, disk,
                   grub, mounted, files, failed>>

DoHdimg ==
    \/ MoveOut \/ StartDisk \/ MkfsMtd \/ CreateEmpty \/ CreateBinary \/ CreateLabel
    \/ PartitionFails \/ CommitDisk \/ GrubMount \/ GrubLeave \/ GrubRaises \/ EndImages
    \/ MoveBack \/ BuildMtd \/ AddBlobs \/ SkipImage \/ StartBlobs \/ ReturnImages
-----------------------------------------------------------------------------
(* Properties.                                                               *)

\* The file system a file belongs to: the deepest mount point above it.
Owner(p) == CHOOSE i \in Ids :
    /\ IsStrictPrefix(fstab[i].mount, p)
    /\ \A j \in Ids : IsStrictPrefix(fstab[j].mount, p)
                       => Len(fstab[j].mount) <= Len(fstab[i].mount)
Owned(p) == \E i \in Ids : IsStrictPrefix(fstab[i].mount, p)
Hidden(p) == Owned(p) /\ p[Len(fstab[Owner(p)].mount) + 1] \in Dot

Apart(p) == Owned(p) => Below(fstab[Owner(p)].mount, p) \in fsdir[Owner(p)]

\* No mount point comes after one that lies inside of it.
OuterFirst(ids) ==
    \A a, b \in DOMAIN ids :
        a < b => ~IsStrictPrefix(fstab[ids[b]].mount, fstab[ids[a]].mount)

\* While images are made every file - but one whose name has a leading dot,
\* which `mv dir/*' leaves behind - lies in the directory of its own file system, and what is
\* mounted for the boot loader hides no other mount; afterwards, and after a
\* failure, the target is as it was.
OwnFileSystem ==
    /\ pc \in {"image", "part", "grub"} => \A p \in recipe.files : Hidden(p) \/ Apart(p)
    /\ OuterFirst(mounted)
    /\ pc \in {"ubinize", "blobs", "archives", "failed"} /\ recipe.images # <<>> =>
          tree = recipe.files \union UNION {Above(fstab[i].mount) : i \in Ids}

\* What a file system has inside of its partition is not damaged by anything that
\* is written later, before the blobs of the recipe: neither by a partition that
\* comes next, nor by a binary or a packed file system that is longer than its own
\* partition and runs into the one after it. (One that fits is whole, therefore;
\* of one that does not, the rest is lost to the partition that comes next.)
WrittenKept ==
    pc \in {"part", "grub"} =>
        \A n \in DOMAIN table :
            \A s \in table[n].start..(table[n].start + table[n].used - 1) :
                disk[Image.name][s] = n

\* The inductive invariant behind WrittenKept: what was written ends before the
\* sector that comes next, inside and outside of the extended partition.
InExtended == pos > 1 /\ Image.parts[pos - 1].tag \in {"extended", "logical"}
DiskInv ==
    /\ recipe \in Recipes /\ img \in Nat \ {0}
    /\ pc \in {"part", "grub"} =>
          /\ img <= Len(recipe.images) /\ Image.tag # "mtd"
          /\ table \in Seq([tag : PartTags, start : Int, end : Int, used : Nat])
          /\ pos = Len(table) + 1 /\ sector \in Nat
          /\ Image.name \in DOMAIN disk
          /\ DOMAIN disk[Image.name] = 0..(Image.size - 1)
          /\ \A n \in DOMAIN table : table[n].used > 0 =>
                /\ 0 <= table[n].start /\ table[n].start + table[n].used <= table[n].end
                /\ table[n].end <= sector /\ table[n].end <= Image.size
          /\ InExtended =>
                /\ ext \in [sector : Nat, end : Nat]
                /\ ext.end <= sector /\ ext.end <= Image.size
                /\ \A n \in DOMAIN table : table[n].used > 0 => table[n].end <= ext.sector

\* Where a file or directory belongs: to the deepest file system whose directory
\* shows it; All is what the target has while the file systems are in it.
All == recipe.files \union UNION {Above(fstab[i].mount) : i \in Ids}
Lifted(i, p) == IsStrictPrefix(fstab[i].mount, p) /\ p[Len(fstab[i].mount) + 1] \notin Dot
Taken(i) == {p \in All : Lifted(i, p) /\ \A j \in Ids : Lifted(j, p) =>
                             Len(fstab[j].mount) <= Len(fstab[i].mount)}

Dirs(out) == [i \in Ids |-> {Below(fstab[i].mount, p) : p \in IF i \in out THEN Taken(i) ELSE {}}]

\* With target t and directories d: the file systems of `out' have what belongs to them,
\* the target has the rest; the mount points of `made' exist.
MovedOut(t, d, made, out) ==
    /\ t = (recipe.files \union UNION {Above(fstab[i].mount) : i \in made})
               \ UNION {Taken(i) : i \in out}
    /\ d = Dirs(out)

\* The place of a mount point in the list of all of them.
Place(i) == CHOOSE k \in DOMAIN fslist : fslist[k] = i
Deepening(ids) == \A a, b \in DOMAIN ids : a < b => Place(ids[a]) <= Place(ids[b])
Rising(ids) == \A a, b \in DOMAIN ids : a < b => Place(ids[b]) <= Place(ids[a])

\* Partition k of an image is for file system i.
Fills(image, k, i) ==
    /\ Has(image.parts[k], "label") /\ image.parts[k].label \in Labels
    /\ Id(Entry(image.parts[k].label)) = i

\* Every mount point is spelt in one way. An inner one with a slash at its end has
\* depth 0: it comes after an outer one only if that has depth 0, too, and is the first
\* in the recipe and on the disk.
SlashInOrder ==
    /\ \A i, j \in Ids : fstab[i].mount = fstab[j].mount => i = j
    /\ \A i, j \in Ids :
        IsStrictPrefix(fstab[i].mount, fstab[j].mount) /\ fstab[j].slash =>
            /\ MountDepth(i) = 0 /\ i < j
            /\ \A n \in DOMAIN recipe.images :
                  recipe.images[n].tag # "mtd" /\ recipe.images[n].grub =>
                      \A k, l \in DOMAIN recipe.images[n].parts :
                          Fills(recipe.images[n], k, i) /\ Fills(recipe.images[n], l, j) => k < l

\* The keys of grub.fs, in the order of the partitions so far.
DoneParts == {k \in DOMAIN Image.parts : k < pos}
GrubKeys(ids) ==
    /\ ids \in Seq(Ids)
    /\ \A a \in DOMAIN ids : \E k \in DoneParts : Fills(Image, k, ids[a])
    /\ \A a, b \in DOMAIN ids : a < b =>
          \E k, l \in DoneParts : k < l /\ Fills(Image, k, ids[a]) /\ Fills(Image, l, ids[b])

\* The inductive invariant behind OwnFileSystem: every file is where it belongs, the
\* deeper file systems are moved out first and back last.
MovingOut(ids, t, d) ==
    /\ ids \in Seq(Ids) /\ IsInjective(ids) /\ Rising(ids)
    /\ \A i \in Ids \ ToSet(ids), j \in ToSet(ids) : Place(j) <= Place(i)
    /\ MovedOut(t, d, Ids \ ToSet(ids), Ids \ ToSet(ids))
MovingBack(ids, t, d) ==
    /\ ids \in Seq(Ids) /\ IsInjective(ids) /\ Deepening(ids)
    /\ \A i \in Ids \ ToSet(ids), j \in ToSet(ids) : Place(i) <= Place(j)
    /\ MovedOut(t, d, Ids, ToSet(ids))
Mounting(done, ids) ==
    done \in Seq(Ids) /\ ids \in Seq(Ids) /\ OuterFirst(done \o ids)
MoveInv ==
    /\ recipe \in Recipes
    /\ pc = "moveout" => MovingOut(todo, tree, fsdir)
    /\ pc \in {"image", "part", "grub"} => MovedOut(tree, fsdir, Ids, Ids)
    /\ pc = "part" => GrubKeys(grub)
    /\ IF pc = "grub" THEN Mounting(mounted, todo) ELSE mounted = <<>>
    /\ pc = "moveback" => MovingBack(todo, tree, fsdir)
    /\ pc \notin {"moveout", "image", "part", "grub", "moveback"} /\ recipe.images # <<>> =>
          tree = All

=============================================================================
