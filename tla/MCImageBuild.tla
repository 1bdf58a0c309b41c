---------------------------- MODULE MCImageBuild -----------------------------
(* ImageBuild on small recipes: file systems inside each other, one of them  *)
(* twice on a disk and under two labels, binaries and packed file systems    *)
(* longer than their partition, logical partitions, flash images that share  *)
(* a volume, and two archives of one name.                                   *)
EXTENDS ImageBuild

MCDot == {".rc"}
MCFiles == {<<"etc">>, <<"boot">>, <<"boot", "img">>, <<"boot", "efi">>,
            <<"boot", "efi", "x">>, <<"boot", ".rc">>, <<".rc">>}
Fs(l, m, s) == [label |-> l, mount |-> m, slash |-> s]
PackedFs(l, m, n) == [label |-> l, mount |-> m, slash |-> FALSE, packed |-> n]

\* Root, /boot/ with a trailing slash, and /boot/efi, on an MSDOS disk with
\* logical partitions and a boot loader.
Nested == [files |-> MCFiles,
    fstab |-> <<Fs("root", <<>>, FALSE), Fs("boot", <<"boot">>, TRUE),
                PackedFs("efi", <<"boot", "efi">>, 4)>>,
    images |-> <<[tag |-> "msdoshd", name |-> <<"hd">>, size |-> 14, first |-> 1, grub |-> TRUE,
        blobs |-> <<[offset |-> 0, len |-> 3]>>,
        parts |-> <<[tag |-> "partition", size |-> 1, binary |-> 4],
                    [tag |-> "partition", size |-> 2, label |-> "efi"],
                    [tag |-> "extended", size |-> 7],
                    [tag |-> "logical", size |-> 2, label |-> "root"],
                    [tag |-> "logical", size |-> Remain, label |-> "boot"],
                    [tag |-> "partition", size |-> Remain]>>]>>,
    archives |-> <<<<"tgz">>>>]

\* The same root file system twice under one label and once under a second.
Twice == [files |-> MCFiles,
    fstab |-> <<Fs("efi", <<"boot", "efi">>, FALSE), PackedFs("a", <<>>, 3),
                PackedFs("b", <<>>, 1)>>,
    images |-> <<[tag |-> "gpthd", name |-> <<"hd">>, size |-> 12, first |-> 1, grub |-> TRUE,
        blobs |-> <<>>,
        parts |-> <<[tag |-> "partition", size |-> 2, label |-> "a"],
                    [tag |-> "partition", size |-> 2, label |-> "a"],
                    [tag |-> "partition", size |-> 1, label |-> "other"],
                    [tag |-> "partition", size |-> 2, label |-> "efi"],
                    [tag |-> "partition", size |-> Remain, label |-> "b"]>>]>>,
    archives |-> <<>>]

Vol(l, k) == [label |-> l, kind |-> k]
Flash == [files |-> MCFiles,
    fstab |-> <<Fs("root", <<>>, FALSE)>>,
    images |-> <<[tag |-> "mtd", name |-> <<"nand">>,
                  vols |-> <<Vol("root", "fs"), Vol("kernel", "binary")>>],
                 [tag |-> "mtd", name |-> <<"nor">>, vols |-> <<Vol("root", "fs")>>]>>,
    archives |-> <<>>]

Plain == [files |-> {<<"etc">>}, fstab |-> <<>>, images |-> <<>>,
          archives |-> <<<<"tgz">>, <<"tgz">>, <<"sqfs">>>>]

MCNames == {<<"part">>, <<"qcow">>}
MCRecipes == {Nested, Twice, Flash, Plain}
=============================================================================
