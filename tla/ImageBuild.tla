----------------------------- MODULE ImageBuild ------------------------------
(* The artifacts of a build, after do_hdimg: part_target adds the archives    *)
(* (elbepack/efilesystem.py), the project finetuning of the recipe adds,      *)
(* converts and removes artifacts (elbepack/finetuning.py), and pack_images   *)
(* hands every image to its packer (elbepack/packers.py).                     *)
(*                                                                            *)
(* A list of names and a dictionary of packers are kept side by side, and the *)
(* files they speak of lie in the build directory.                            *)
EXTENDS DiskImage

CONSTANTS
    Packers,    \* kinds of packers: default_packer and others
    Default, NoPacker,
    Names,      \* names a finetuning action may give to a new artifact
    MaxActions  \* actions of the project finetuning

VARIABLES
    archive,    \* number of the archive part_target is at
    packers,    \* target.image_packers: image -> packer
    actions,    \* finetuning actions done
    twice       \* history: names put on the list while they were on it

artifactvars == <<archive, packers, actions, twice>>
vars == <<diskvars, artifactvars>>
diskRest == <<recipe, tree, fsdir, todo, img, pos, sector, ext, table, geom, disk, grub,
              mounted>>

ASSUME PackersAssumption == {Default, NoPacker} \subseteq Packers

InitBuild == Init /\ archive = 0 /\ packers = <<>> /\ actions = 0 /\ twice = {}

Without(f, x) == [k \in DOMAIN f \ {x} |-> f[k]]
Packed(x, p) == IF p = NoPacker THEN x ELSE Append(x, p)
Listed == ToSet(images)

\* self.images.append of a list; nothing asks whether the name is on it already.
Listing(list, x) ==
    /\ images' = Append(list, x)
    /\ twice' = IF x \in ToSet(list) THEN twice \union {x} ELSE twice
-----------------------------------------------------------------------------
\* part_target: the images of do_hdimg get the default packer ...
TakeImages ==
    /\ pc = "archives" /\ archive = 0
    /\ packers' = [x \in Listed |-> Default]
    /\ archive' = 1
    /\ UNCHANGED <<diskvars, actions, twice>>

\* ... and the archives none; one that cannot be made is not listed.
MakeArchive ==
    /\ pc = "archives" /\ archive \in 1..Len(recipe.archives)
    /\ LET x == recipe.archives[archive]
       IN \/ files' = files \union {x} /\ Listing(images, x)
          \/ UNCHANGED <<files, images, twice>>
    /\ archive' = archive + 1
    /\ UNCHANGED <<diskRest, pc, failed, packers, actions>>

EndArchives ==
    /\ pc = "archives" /\ archive = Len(recipe.archives) + 1
    /\ pc' = "finetuning"
    /\ UNCHANGED <<diskRest, files, images, failed, artifactvars>>
-----------------------------------------------------------------------------
(* do_prj_finetuning: the actions the recipe may contain, in any order.      *)
Finetune ==
    /\ pc = "finetuning" /\ actions < MaxActions
    /\ actions' = actions + 1
    /\ UNCHANGED <<diskRest, archive>>

\* Any command or action may fail: do_prj_finetuning raises again.
FinetuningRaises ==
    /\ Finetune
    /\ pc' = "failed" /\ failed' = TRUE
    /\ UNCHANGED <<files, images, packers, twice>>

\* What changes the target, or an image in place: <command>, <copy_to_partition>,
\* <set_partition_type>, and the actions of the target finetuning.
ChangeContent == Finetune /\ UNCHANGED <<pc, failed, files, images, packers, twice>>

RmArtifact ==
    /\ Finetune
    /\ \E x \in Listed : images' = RemoveFirst(images, x)
    /\ UNCHANGED <<pc, failed, files, packers, twice>>

\* qemu-img writes over what is there. Without keep_src the source leaves list and
\* dictionary; del raises KeyError when it had no packer, which
\* do_prj_finetuning only logs.
ImgConvert ==
    /\ Finetune
    /\ \E src \in Listed, dst \in Names \union Listed, keep \in BOOLEAN :
          LET added == Put(packers, dst, Default)
          IN /\ files' = files \union {dst}
             /\ twice' = IF dst \in Listed THEN twice \union {dst} ELSE twice
             /\ IF keep
                THEN images' = Append(images, dst) /\ packers' = added
                ELSE /\ images' = RemoveFirst(Append(images, dst), src)
                     /\ packers' = Without(added, src)
    /\ UNCHANGED <<pc, failed>>

\* <set_packer> asks for no such artifact.
SetPacker ==
    /\ Finetune
    /\ \E x \in Names \union Listed, p \in Packers : packers' = Put(packers, x, p)
    /\ UNCHANGED <<pc, failed, files, images, twice>>

\* <losetup> with <extract_partition>: an image of its own, with a packer.
ExtractPartition ==
    /\ Finetune
    /\ \E x \in Names \union Listed :
          /\ files' = files \union {x} /\ Listing(images, x)
          /\ packers' = Put(packers, x, Default)
    /\ UNCHANGED <<pc, failed>>

\* <losetup> with <copy_from_partition>: a file without a packer.
CopyFromPartition ==
    /\ Finetune
    /\ \E x \in Names \union Listed : files' = files \union {x} /\ Listing(images, x)
    /\ UNCHANGED <<pc, failed, packers>>

\* <artifact>: a file of the build directory; one that is missing is logged, and
\* leaves everything as ChangeContent does.
Artifact ==
    /\ Finetune
    /\ \E x \in files : Listing(images, x)
    /\ UNCHANGED <<pc, failed, files, packers>>

EndFinetuning ==
    /\ pc = "finetuning" /\ pc' = "pack"
    /\ UNCHANGED <<diskRest, files, images, failed, artifactvars>>
-----------------------------------------------------------------------------
\* pack_file: an archive takes the place of the image. A packer that fails has
\* perhaps removed the image, which is not listed then.
PackFile(x, p) ==
    \/ /\ Listing(RemoveFirst(images, x), Packed(x, p))
       /\ files' = (files \ {x}) \union {Packed(x, p)}
    \/ /\ p # NoPacker
       /\ images' = RemoveFirst(images, x)
       /\ files' \in {files, files \ {x}} /\ UNCHANGED twice

\* One turn of pack_images. list.remove raises ValueError for a missing name.
PackImage ==
    /\ pc = "pack"
    /\ \E x \in DOMAIN packers :
          /\ packers' = Without(packers, x)
          /\ IF x \notin Listed
             THEN pc' = "notlisted" /\ failed' = TRUE /\ UNCHANGED <<files, images, twice>>
             ELSE PackFile(x, packers[x]) /\ UNCHANGED <<pc, failed>>
    /\ UNCHANGED <<diskRest, archive, actions>>

EndPack ==
    /\ pc = "pack" /\ packers = <<>>
    /\ pc' = "done"
    /\ UNCHANGED <<diskRest, files, images, failed, artifactvars>>

Next ==
    \/ DoHdimg /\ UNCHANGED artifactvars
    \/ TakeImages \/ MakeArchive \/ EndArchives
    \/ FinetuningRaises \/ ChangeContent \/ RmArtifact \/ ImgConvert \/ SetPacker
    \/ ExtractPartition \/ CopyFromPartition \/ Artifact \/ EndFinetuning
    \/ PackImage \/ EndPack

Spec == InitBuild /\ [][Next]_vars
-----------------------------------------------------------------------------
\* What a finished build offers for download exists, whatever was converted,
\* extracted, removed, repacked or failed on the way - unless the recipe put a
\* name on the list while it was on it: pack_images takes one entry and the file,
\* and the other entry stays. The images of do_hdimg are never listed twice.
ListedExist == pc = "done" => Listed \ twice \subseteq files

\* The inductive invariant behind ListedExist: once do_hdimg is done, a name that
\* was not listed again is on the list once and has its file.
Once(list, others) ==
    \A j, k \in DOMAIN list : list[j] = list[k] /\ list[j] \notin others => j = k
Building == {"moveout", "image", "part", "grub", "moveback", "ubinize", "blobs"}
ListInv ==
    /\ recipe \in Recipes /\ img \in Nat \ {0}
    /\ IsSeq(images)
    /\ Listed \ twice \subseteq files
    /\ pc \in Building => twice = {}
    /\ pc \in {"part", "grub"} => img <= Len(recipe.images) /\ Image.name \in files
    /\ pc \in {"archives", "finetuning", "pack"} => Once(images, twice)

=============================================================================
