----------------------------- MODULE Preprocess -----------------------------
(***************************************************************************)
(* What happens to an XML file on its way from the user to the daemon:     *)
(* repodir.py turns directories with Debian repositories into URLs of web  *)
(* servers, and xmlpreprocess.py selects the variants, merges the sections *)
(* that were written more than once, packs directories into archives and   *)
(* replaces everything deprecated.                                         *)
(*                                                                         *)
(* A document is a sequence of sections, a section a sequence of items, in *)
(* document order.  An item stands for an element the steps below look at: *)
(* its tag, the variants it is for ({} when it has no such attribute), the *)
(* attributes and sub-elements that matter, and in "of" what it was made   *)
(* of, which is what the user wrote.  Deeper nesting works like these two  *)
(* levels.                                                                 *)
(***************************************************************************)
EXTENDS Naturals, Sequences, FiniteSets, SequencesExt

\* mergepaths: the sections that may be written more than once.
Mergeable == {"finetuning", "hostsdk-pkg-list", "pkg-list", "url-list",
              "buildimage-pkg-list"}

\* What the schema of the daemon does not know, or only as deprecated.
Deprecated == {"repodir", "archivedir", "key", "debootstrapvariant", "tune2fs",
               "passwd", "unknown"}
DeprecatedAttrs(sec) ==
    {"passwd", "location"} \union IF sec = "pkg-list" THEN {"pin"} ELSE {}

\* What a document consists of.  The names the steps below write are strings
\* like all others; they are listed because the provers do not know that.
Names == STRING \union
         {"url", "served", "archive", "primary_proxy", "raw-key", "debootstrap",
          "device-command", "option", "trusted", "passwd_hashed", "release-name"}
Items == [tag : Names, variant : SUBSET Names, of : SUBSET Nat, attrs : SUBSET Names]
Section == [sec : Names, variant : SUBSET Names, items : Seq(Items)]
Document == Seq(Section)

\* The elements of a sequence that are in a set, in their order.
Select(s, Good) ==
    FlattenSeq([i \in DOMAIN s |-> IF s[i] \in Good THEN <<s[i]>> ELSE <<>>])
Tagged(items, tag) == {i \in ToSet(items) : i.tag = tag}
Only(items, tag) == Select(items, Tagged(items, tag))
Without(items, tag) == Select(items, ToSet(items) \ Tagged(items, tag))

Change(doc, Op(_)) ==
    [s \in DOMAIN doc |-> [doc[s] EXCEPT
        !.items = [i \in DOMAIN @ |-> Op(@[i])]]]
ChangeIn(doc, Op(_, _)) ==
    [s \in DOMAIN doc |-> [doc[s] EXCEPT
        !.items = [i \in DOMAIN @ |-> Op(doc[s].sec, @[i])]]]
ChangeSections(doc, Op(_)) == [s \in DOMAIN doc |-> [doc[s] EXCEPT !.items = Op(@)]]
ItemsOf(doc, kind) ==
    FlattenSeq([s \in DOMAIN doc |->
                   IF doc[s].sec = kind THEN doc[s].items ELSE <<>>])
AllItems(doc) == UNION {ToSet(doc[s].items) : s \in DOMAIN doc}
HasItem(doc, tag) == \E i \in AllItems(doc) : i.tag = tag
Retag(item, old, new) == IF item.tag = old THEN [item EXCEPT !.tag = new] ELSE item
Swap(S, old, new) == IF old \in S THEN (S \ {old}) \union {new} ELSE S

-----------------------------------------------------------------------------
(* repodir.py.                                                             *)

\* The web servers preprocess_repodir starts: one per <repodir>, of whatever
\* variant.
Served(doc) == UNION {i.of : i \in {j \in AllItems(doc) : j.tag = "repodir"}}

\* No suite and components in the text, or a key that cannot be read.
RepodirFails(doc) ==
    \E i \in AllItems(doc) : i.tag = "repodir" /\ "broken" \in i.attrs

\* Mutant: a new <url> without the variant attribute of its <repodir>.
NewUrl_ForgetVariant(repodir) ==
    [tag |-> "url", variant |-> {}, of |-> repodir.of, attrs |-> {"served"}]

\* Each <repodir> is removed and its <url> appended to the section.
NewUrl(repodir) ==
    [tag |-> "url", variant |-> repodir.variant, of |-> repodir.of, attrs |-> {"served"}]

Repodirs(doc) ==
    ChangeSections(doc, LAMBDA items :
        LET old == Only(items, "repodir")
        IN  Without(items, "repodir") \o [i \in DOMAIN old |-> NewUrl(old[i])])

-----------------------------------------------------------------------------
(* xmlpreprocess.py.                                                       *)

Wanted(x, variants) == x.variant = {} \/ x.variant \intersect variants # {}

WantedItems(items, variants) ==
    Select(items, {i \in ToSet(items) : Wanted(i, variants)})

\* Elements of other variants are removed, the rest loses the attribute.
Chosen(sec, variants) ==
    LET items == WantedItems(sec.items, variants)
    IN  [sec EXCEPT !.variant = {},
                    !.items = [i \in DOMAIN items |-> [items[i] EXCEPT !.variant = {}]]]
KeepVariants(doc, variants) ==
    FlattenSeq([s \in DOMAIN doc |->
        IF Wanted(doc[s], variants) THEN <<Chosen(doc[s], variants)>> ELSE <<>>])

IsFirst(doc, s) == \A r \in 1..(s - 1) : doc[r].sec # doc[s].sec

\* The children of the later sections are appended to the first.
Merge(doc) ==
    FlattenSeq([s \in DOMAIN doc |->
        IF doc[s].sec \notin Mergeable THEN <<doc[s]>>
        ELSE IF IsFirst(doc, s)
             THEN <<[doc[s] EXCEPT !.items = ItemsOf(doc, doc[s].sec)]>>
             ELSE <<>>])

\* combinearchivedir: the directories of a section, and on the source CD
\* those of one volume, are collected in one archive; an <archive> that is
\* there already gets the new content instead of its own.
Volume(sec, item) == IF sec.sec = "src-cdrom" THEN item.attrs ELSE {}
Dirs(sec) == Tagged(sec.items, "archivedir")
Packed(sec) == {Volume(sec, i) : i \in Dirs(sec)}
Archive(sec, volume) ==
    [tag |-> "archive", variant |-> {}, attrs |-> volume,
     of |-> UNION {i.of : i \in {j \in Dirs(sec) : Volume(sec, j) = volume}}]
FirstOfVolume(sec, n) ==
    LET item == sec.items[n]
    IN  item \in Dirs(sec) /\ \A m \in 1..(n - 1) :
            ~(sec.items[m] \in Dirs(sec) /\ Volume(sec, sec.items[m]) = Volume(sec, item))
Archives(sec) ==
    [sec EXCEPT !.items =
        Select(@, {i \in ToSet(@) :
                     /\ i.tag # "archivedir"
                     /\ ~(i.tag = "archive" /\ Volume(sec, i) \in Packed(sec))})
        \o FlattenSeq([n \in DOMAIN @ |->
               IF FirstOfVolume(sec, n) THEN <<Archive(sec, Volume(sec, @[n]))>>
               ELSE <<>>])]
CombineArchivedir(doc) == [s \in DOMAIN doc |-> Archives(doc[s])]

\* Only mirrors without a proxy get the one of the command line.
ProxyAdd(doc, proxy) ==
    Change(doc, LAMBDA i :
        IF i.tag = "mirror" /\ proxy # "none" /\ "primary_proxy" \notin i.attrs
        THEN [i EXCEPT !.attrs = @ \union {"primary_proxy"}] ELSE i)

\* Only the keys of the mirrors.
RawKey(sec, i) == IF sec = "url-list" THEN Retag(i, "key", "raw-key") ELSE i
PgpKey(doc) == ChangeIn(doc, RawKey)

\* Only the first in the document; items are told apart by what they were made of.
Bootstrap(doc) ==
    LET old == Only(FlattenSeq([s \in DOMAIN doc |-> doc[s].items]), "debootstrapvariant")
    IN  Change(doc, LAMBDA i :
            IF old # <<>> /\ i = old[1] THEN [i EXCEPT !.tag = "debootstrap"] ELSE i)

\* The command goes to the end of <fs-finetuning>.
Tune2fs(doc) ==
    ChangeSections(doc, LAMBDA items :
        LET old == Only(items, "tune2fs")
        IN  Without(items, "tune2fs")
            \o [i \in DOMAIN old |-> [old[i] EXCEPT !.tag = "device-command"]])

\* A strict section of ISO options may not contain a bad one.
IsoOptionFails(i) == i.tag = "opt" /\ {"bad", "strict"} \subseteq i.attrs

\* preprocess_initvm_ports compares the text of an element with the integer
\* of a command line option: no <forward> is ever taken for a default one.
SameText(text, number) == FALSE
InitvmPorts(doc, sshport, soapport) ==
    ChangeSections(doc, LAMBDA items :
        Select(items, {i \in ToSet(items) :
            ~(i.tag = "forward" /\ \/ SameText("ssh", sshport)
                                   \/ SameText("soap", soapport))}))

\* <noauth> makes every URL trusted; options in square brackets become
\* <option> elements.
Mirrors(doc) ==
    Change(doc, LAMBDA i :
        IF i.tag \notin {"url", "mirror"} THEN i
        ELSE [i EXCEPT !.attrs =
                Swap(@, "[option]", "option")
                \union (IF HasItem(doc, "noauth") THEN {"trusted"} ELSE {})])

\* Only the password of root, and those of the users finetuning adds.
Hashed(sec, i) ==
    IF sec = "target" THEN Retag(i, "passwd", "passwd_hashed")
    ELSE IF sec = "finetuning" /\ i.tag = "adduser"
    THEN [i EXCEPT !.attrs = Swap(@, "passwd", "passwd_hashed")] ELSE i
Passwd(doc) == ChangeIn(doc, Hashed)

\* Only in the list of the target.
Pinned(sec, i) ==
    IF sec = "pkg-list" /\ i.tag = "pkg"
    THEN [i EXCEPT !.attrs = Swap(@, "pin", "release-name")] ELSE i
PkgPinning(doc) == ChangeIn(doc, Pinned)
\* Both names for one thing, or more than one kind of pinning.
PkgPinningFails(i) ==
    i.tag = "pkg" /\
        \/ {"pin", "release-name"} \subseteq i.attrs
        \/ Cardinality(Swap(i.attrs, "pin", "release-name")
                       \intersect {"version", "origin", "release-name"}) > 1

CheckScript(doc) ==
    Change(doc, LAMBDA i :
        IF i.tag = "check-script" THEN [i EXCEPT !.attrs = @ \ {"location"}] ELSE i)

\* A key, a directory or a script that cannot be read.
Unreadable(i) ==
    i.tag \in {"key", "archivedir", "check-script"} /\ "broken" \in i.attrs
\* An element or an attribute that the schema does not know, or not there,
\* and that the passes leave as it is.
Invalid(sec, i) ==
    \/ i.tag = "unknown"
    \/ sec.sec \in Mergeable /\ i.tag = "archivedir"
    \/ sec.sec = "finetuning" /\ i.tag \in {"repodir", "tune2fs"}
    \/ "pin" \in i.attrs /\ i.tag # "pkg"
    \/ "location" \in i.attrs /\ i.tag # "check-script"
    \/ i.tag = "key" /\ sec.sec # "url-list"
    \/ i.tag = "passwd" /\ sec.sec # "target"
    \/ "passwd" \in i.attrs /\ ~(sec.sec = "finetuning" /\ i.tag = "adduser")
\* The second of them stays, too.
TwoBootstraps(doc, variants) ==
    \E s, t \in ToSet(doc) : Wanted(s, variants) /\ Wanted(t, variants) /\
        \E i \in ToSet(s.items), j \in ToSet(t.items) :
            /\ Wanted(i, variants) /\ Wanted(j, variants) /\ i # j
            /\ i.tag = "debootstrapvariant" /\ j.tag = "debootstrapvariant"

\* xmlpreprocess raises XMLPreprocessError for what is left of the document
\* after the selection of the variants.
PreprocessFails(doc, variants) ==
    \/ \E s \in ToSet(doc) : Wanted(s, variants) /\
           \E i \in ToSet(s.items) :
              /\ Wanted(i, variants)
              /\ \/ Unreadable(i)
                 \/ Invalid(s, i)
                 \/ IsoOptionFails(i)
                 \/ s.sec = "pkg-list" /\ PkgPinningFails(i)
    \/ TwoBootstraps(doc, variants)

\* The document it writes otherwise.
XmlPreprocess(doc, variants, proxy, sshport, soapport) ==
    CheckScript(PkgPinning(Passwd(Mirrors(InitvmPorts(Tune2fs(Bootstrap(PgpKey(
        ProxyAdd(CombineArchivedir(Merge(KeepVariants(doc, variants))), proxy)))),
        sshport, soapport)))))

-----------------------------------------------------------------------------
(* What the user may expect of all this.                                   *)

\* What the user wrote for these variants in the sections of a kind, in the
\* order of the file.
WantedFor(doc, kind, variants) ==
    WantedItems(FlattenSeq([s \in DOMAIN doc |->
                    IF doc[s].sec = kind /\ Wanted(doc[s], variants)
                    THEN doc[s].items ELSE <<>>]),
                variants)
Parts(items) == UNION {i.of : i \in ToSet(items)}
Kinds(doc) == {doc[s].sec : s \in DOMAIN doc}
Contents(items) == [i \in DOMAIN items |-> items[i].of]

\* The steps of finetuning are executed in the order they were written.
InOrder(doc, variants, out) ==
    Contents(ItemsOf(out, "finetuning"))
        = Contents(WantedFor(doc, "finetuning", variants))

\* Nothing that is wanted is missing, nothing else is there, and there is one
\* section of each mergeable kind.
Complete(doc, variants, out) ==
    \A kind \in Kinds(doc) :
        /\ Parts(ItemsOf(out, kind))
             = Parts(WantedFor(doc, kind, variants))
        /\ kind \in Mergeable =>
             \A r, s \in DOMAIN out : out[r].sec = kind /\ out[s].sec = kind => r = s

\* The daemon's schema accepts it, and it does not depend on variants.
UpToDate(out) ==
    \A s \in DOMAIN out :
        /\ out[s].variant = {}
        /\ \A i \in ToSet(out[s].items) :
              /\ i.variant = {}
              /\ i.tag \notin Deprecated
              /\ i.attrs \intersect DeprecatedAttrs(out[s].sec) = {}

\* `archive' and `archivedir' are mutually exclusive, where both are wanted.
ArchivesApart(doc, variants) ==
    \A s \in ToSet(doc) : \A a, d \in ToSet(s.items) :
        /\ a.tag = "archive" /\ Wanted(a, variants)
        /\ d.tag = "archivedir" /\ Wanted(d, variants)
        => Volume(s, a) # Volume(s, d)
=============================================================================
