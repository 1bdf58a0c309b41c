------------------------------- MODULE MCSubmit -------------------------------
EXTENDS Submit

MCUsers == {"alice", "bob"}
MCModes == {"libvirt", "qemu"}
MCCommands == [u \in MCUsers |->
    IF u = "alice" THEN {"create", "submit"}
    ELSE {"start", "stop", "destroy", "control"}]
MCOptions == {{"sdk"}, {"skip"}, {"keep"}}
MCFiles == {"validation.txt", "disk.img", "data/disk.img"}
MCProducts == {{}, {"validation.txt"}, MCFiles}
MCBaseName == [f \in MCFiles |-> IF f = "data/disk.img" THEN "disk.img" ELSE f]

Item(tag, variant, id, attrs) ==
    [tag |-> tag, variant |-> variant, of |-> {id}, attrs |-> attrs]
Sec(kind, variant, items) == [sec |-> kind, variant |-> variant, items |-> items]
Asked == {{}, {"a"}, {"a", "b"}}

\* Sections written twice, with variants on them and on their items.
Sections ==
    {<<Sec("finetuning", v, <<Item("cp", {}, 1, {}), Item("adduser", w, 2, {"passwd"})>>),
       Sec("project", {}, <<Item("noauth", {}, 9, {})>>),
       Sec("finetuning", w, <<Item("rm", v, 3, {}), Item("mv", {}, 4, {})>>)>> :
        v \in {{}, {"a", "b"}}, w \in {{"a"}, {"b"}}}

\* Package directories of several variants between plain URLs, with old keys.
Mirrored ==
    {<<Sec("url-list", {}, <<Item("repodir", v, 11, {}), Item("url", w, 12, {"[option]"}),
                             Item("key", {}, 13, a)>>),
       Sec("url-list", w, <<Item("repodir", {}, 14, a)>>)>> :
        v \in {{"a"}, {"b"}}, <<w, a>> \in {<<{}, {}>>, <<{"b"}, {"broken"}>>}}

\* Archives, and the deprecated elements.
Archived ==
    {<<Sec("root", {}, <<Item("archivedir", v, 21, {}), Item("archivedir", {}, 22, {}),
                         Item("archive", {"b"}, 31, {}),
                         Item("debootstrapvariant", {}, 23, {}),
                         Item("debootstrapvariant", w, 33, {})>>),
       Sec("target", {}, <<Item("passwd", {}, 32, {})>>),
       Sec("src-cdrom", {}, <<Item("archivedir", v, 24, {"vol1"}),
                              Item("archivedir", {}, 25, {"vol2"}),
                              Item("opt", {}, 26, a)>>),
       Sec("pkg-list", v, <<Item("pkg", {}, 27, p)>>),
       Sec("images", {}, <<Item("tune2fs", {}, 28, {}), Item("check-script", {}, 29, {"location"}),
                           Item("mirror", {}, 30, {})>>)>> :
        v \in {{"a"}}, w \in {{"b"}, {}}, a \in {{"bad"}, {"bad", "strict"}},
        p \in {{"pin"}, {"pin", "version"}, {"pin", "release-name"}}}

MCInputs == [doc : Sections, variants : Asked]
            \union [doc : Mirrored \union Archived, variants : {{"a"}}]
=============================================================================
