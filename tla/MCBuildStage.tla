----------------------------- MODULE MCBuildStage -----------------------------
EXTENDS BuildStage

\* Name 2 begins with a dot, and name 3 has two of them in a row.
SomePaths == {<<1>>, <<1, 2>>, <<1, 2, 1>>, <<1, 3>>}
Deepest == <<1, 2, 1>>

\* A directory in a directory, with nothing or a file in it.
SomeBases == {
    <<1>> :> "sticky" @@ <<1, 2>> :> "dir",
    <<1>> :> "sticky" @@ <<1, 2>> :> "dir" @@ <<1, 2, 1>> :> "f"}

\* The bases, and all trees in which what may be at a path is one of these.
SomeResults == SomeBases \cup {t \in BuildTrees :
    \A p \in DOMAIN t : t[p] \in CASE p = <<1>> -> {"f", "dir"}
                                   [] p = <<1, 2>> -> {"g", "dir", "sticky"}
                                   [] OTHER -> {"f"}}

\* A file, and directories of both modes with a file in them.
SomeSources == {
    <<1>> :> "f",
    <<1>> :> "dir" @@ <<1, 3>> :> "f",
    <<1>> :> "sticky" @@ <<1, 2>> :> "g"}

\* layers.rs says of a whiteout: "`.wh.filename` - delete `filename`".  What a step
\* removed is not in the image (append_whiteout, process_whiteouts).
RemovedIsGone ==
    pc \in {"ready", "done"} /\ Usable => DOMAIN Image \subseteq DOMAIN rootfs
=============================================================================
