----------------------------- MODULE ImageNames -----------------------------
(***************************************************************************)
(* Image references and the file each one is stored under                  *)
(* (image/reference.rs; image/store.rs, ImageStore's references).  A       *)
(* reference is parsed with defaults, stored as a file below metadata/     *)
(* whose last component has '_' for ':', and listed by turning the path    *)
(* back into a name.  Several references share a file, and a name may need *)
(* a directory where another one has its file.                             *)
(*                                                                         *)
(* A string is a sequence of words and of the separators / : @ . _ as      *)
(* words of their own; a path is such a string.                            *)
(***************************************************************************)
EXTENDS Naturals, Sequences, FiniteSets

CONSTANTS Inputs,   \* the references that commands name
          Digests   \* manifest digests

\* An empty tag, digest or repository is left out: no file can be made under it.
ASSUME InputsAreStrings ==
  \A s \in Inputs : s \in Seq(STRING) /\ s # <<>> /\ s[Len(s)] \notin {"/", ":", "@"}

VARIABLES refs      \* refs[p]: the digest in the file at path p

nameVars == <<refs>>

----------------------------------------------------------------------------
\* str::split_once and str::replace.
Places(s, sep) == {i \in DOMAIN s : s[i] = sep}
Has(s, sep) == Places(s, sep) # {}
FirstPlace(s, sep) == CHOOSE i \in Places(s, sep) : \A j \in Places(s, sep) : i <= j
LastPlace(s, sep) == CHOOSE i \in Places(s, sep) : \A j \in Places(s, sep) : j <= i
Preceding(s, sep) == IF Has(s, sep) THEN SubSeq(s, 1, FirstPlace(s, sep) - 1) ELSE s
Following(s, sep) == SubSeq(s, FirstPlace(s, sep) + 1, Len(s))
Replace(s, old, new) == [i \in DOMAIN s |-> IF s[i] = old THEN new ELSE s[i]]

DockerHub == <<"docker", ".", "io">>
HubAliases == {<<"index", ".">> \o DockerHub, <<"registry-1", ".">> \o DockerHub,
               <<"registry", ".", "hub", ".", "docker", ".", "com">>}
Latest == <<"latest">>
NoDigest == <<>>

\* ImageReference::parse.  "library/" is added before the aliases of Docker Hub are
\* replaced, so an image of an alias does not get it.
IsRegistry(first) == Has(first, ".") \/ Has(first, ":") \/ first = <<"localhost">>

WithLibrary(registry, repository) ==
  IF registry = DockerHub /\ ~Has(repository, "/")
    THEN <<"library", "/">> \o repository
    ELSE repository

Parse(s) ==
  LET name == Preceding(s, "@")
      named == Has(name, "/") /\ IsRegistry(Preceding(name, "/"))
      registry == IF named THEN Preceding(name, "/") ELSE DockerHub
      rest == IF named THEN Following(name, "/") ELSE name
  IN [registry |-> IF registry \in HubAliases THEN DockerHub ELSE registry,
      repository |-> WithLibrary(registry, Preceding(rest, ":")),
      tag |-> IF Has(rest, ":") THEN Following(rest, ":") ELSE Latest,
      digest |-> IF Has(s, "@") THEN Following(s, "@") ELSE NoDigest]

\* ImageStore::ref_path: a digest takes precedence over the tag.
FileName(ref) == Replace(IF ref.digest = NoDigest THEN ref.tag ELSE ref.digest, ":", "_")

RefPath(ref) ==
  ref.registry \o <<"/">> \o ref.repository \o <<"/">> \o FileName(ref)

\* The name list_image_refs prints for a file.
Listed_EveryUnderscore(path) ==
  LET slash == LastPlace(path, "/")
  IN Replace(SubSeq(path, 1, slash - 1) \o <<":">> \o SubSeq(path, slash + 1, Len(path)),
             "_", ":")

Listed(path) ==
  LET slash == LastPlace(path, "/")
  IN SubSeq(path, 1, slash - 1) \o <<":">>
       \o Replace(SubSeq(path, slash + 1, Len(path)), "_", ":")

----------------------------------------------------------------------------
NamesInit == refs = [p \in {} |-> {}]

\* A directory of `inner' is the file `outer'.
Inside(inner, outer) ==
  Len(outer) < Len(inner) /\ SubSeq(inner, 1, Len(outer) + 1) = outer \o <<"/">>

Conflicts(path) == \E p \in DOMAIN refs : Inside(path, p) \/ Inside(p, path)

\* store_image_ref: create_dir_all or the write fails over a conflicting path.
StoreImageRef(s, digest) ==
  LET path == RefPath(Parse(s))
  IN /\ ~Conflicts(path)
     /\ refs' = [p \in DOMAIN refs \cup {path} |-> IF p = path THEN digest ELSE refs[p]]

StoreFails(s) == Conflicts(RefPath(Parse(s))) /\ UNCHANGED refs

NamesNext == \E s \in Inputs : StoreFails(s) \/ \E d \in Digests : StoreImageRef(s, d)

NamesSpec == NamesInit /\ [][NamesNext]_nameVars

\* resolve_image_ref
Resolve(s) ==
  LET path == RefPath(Parse(s)) IN {refs[p] : p \in DOMAIN refs \cap {path}}

----------------------------------------------------------------------------
\* Properties.

\* An image pulled through an alias of Docker Hub without a namespace.
NoLibrary(path) ==
  /\ Len(path) > 4 /\ SubSeq(path, 1, 3) = DockerHub
  /\ Cardinality(Places(path, "/")) = 2

\* Every name that `qbuild ls` prints resolves to the digest printed next to it,
\* though the tag's '_' are printed as ':' and digests as tags: the two conversions
\* meet in one file (ref_path, list_image_refs).  The exception is an image of a
\* Docker Hub alias, stored without the "library/" that parsing its listed name adds.
ListedNamesResolve ==
  \A p \in DOMAIN refs : NoLibrary(p) \/ Resolve(Listed(p)) = {refs[p]}

============================================================================
