----------------------------- MODULE MCImagePull -----------------------------
(* Model-checking instances of ImagePull.                                  *)
EXTENDS ImagePull, TLC

CONSTANTS p1, p2, cfg1, cfg2, layer1, layer2, man1, man2

\* A tag that moves to an image sharing one layer.
MovedTag == (p1 :> <<cfg1, layer1, layer2, man1>>) @@ (p2 :> <<cfg2, layer1, man2>>)

\* Two pulls of one image of two layers.
SameImage == (p1 :> <<cfg1, layer1, layer2, man1>>) @@ (p2 :> <<cfg1, layer1, layer2, man1>>)

\* One pull of an image that names a layer twice.
RepeatedLayer == p1 :> <<cfg1, layer1, layer1, man1>>

\* "Write atomically using temp file" (src/image/store.rs): a file that a
\* writer put under a blob's own name is whole.
BlobsAreAtomic ==
    \A d \in Digests : blob[d] \notin {NoFile, Old(d)} => whole[blob[d]]
=============================================================================
