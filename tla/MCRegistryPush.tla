--------------------------- MODULE MCRegistryPush ---------------------------
(* Model-checking instances of RegistryPush.                               *)
EXTENDS RegistryPush, TLC

CONSTANTS p1, p2, config1, config2, layer1, layer2, manifest1, manifest2

\* Two images with a layer in common.
SharedLayer == (p1 :> <<config1, layer1, layer2>>) @@ (p2 :> <<config2, layer1>>)
SharedManifests == (p1 :> manifest1) @@ (p2 :> manifest2)

\* One image.
Single == p1 :> <<config1, layer1>>
SingleManifest == p1 :> manifest1

\* The registry has any of the blobs.
AnyBlobs == SUBSET Blobs

\* Registries open to reads, or to nothing, or to all; a challenge to a write as
\* it is commonly sent, or with the one action; tokens that outlast the client's
\* cache, or do not.
Registries ==
    [protected : {{}, {"POST", "PUT"}, {"HEAD", "POST", "PUT"}},
     writing : {<<"pull", "push">>, <<"push">>},
     lifetime : {3, 5}]

\* One that wants a token for everything, with the common challenge.
Private ==
    {[protected |-> {"HEAD", "POST", "PUT"}, writing |-> <<"pull", "push">>, lifetime |-> 20]}
=============================================================================
