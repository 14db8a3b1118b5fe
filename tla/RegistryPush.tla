---------------------------- MODULE RegistryPush ----------------------------
(***************************************************************************)
(* `qbuild push`: the requests a push makes for the blobs of an image and  *)
(* for its manifest, the retry of each with a token after a 401, and the   *)
(* tokens a client caches.  The registry is external; it answers 401 to    *)
(* the protected methods unless the request carries a current token for    *)
(* every action in the scope it asked for.  Time is counted in minutes.    *)
(***************************************************************************)
EXTENDS Naturals, Sequences

CONSTANTS
    Pushers,   \* processes pushing an image each, with a token cache each
    Blobs,     \* the digests of configs and layers
    Image,     \* Image[p]: the image p pushes, config first, then the layers
    Manifest,  \* Manifest[p]: the digest of its manifest
    Present,   \* what the registry may hold to begin with: sets of blobs
    Policies,  \* the registries there may be: see Policy
    MaxTime,   \* bound on the time that passes
    Faults     \* the failures the environment may inject

Methods == {"HEAD", "POST", "PUT"}
FaultKinds == {"local", "network", "auth"}
Actions == {"pull", "push"}

\* What a registry wants a token for, the actions in the scope of its challenge
\* to a write, in their order, and how long its tokens last: expires_in.
Policy ==
    [protected : SUBSET Methods, writing : Seq(Actions) \ {<<>>}, lifetime : Nat]

ASSUME ImageAssumption ==
    /\ Image \in [Pushers -> Seq(Blobs)]
    /\ Present \subseteq SUBSET Blobs
    \* Images with the same manifest are the same image.
    /\ \A p, q \in Pushers : Manifest[p] = Manifest[q] => Image[p] = Image[q]
ASSUME RegistryAssumption ==
    /\ Policies \subseteq Policy
    /\ MaxTime \in Nat
    /\ Faults \subseteq FaultKinds

VARIABLES
    policy,     \* the registry's policy
    remote,     \* the blobs the registry holds
    manifests,  \* the manifests it holds
    now,        \* minutes passed
    pc,         \* pc[p]: the next step of p's push
    index,      \* index[p]: the blob of the image it is at
    phase,      \* phase[p]: where the current request stands
    credential, \* credential[p]: the token that goes with it
    tokens      \* tokens[p]: the tokens p has cached, by scope

registry == <<policy, remote, manifests>>
vars == <<registry, now, pc, index, phase, credential, tokens>>

\* The actions in the scope of a challenge: `repository:x:pull` to a read.
Asked(method) == IF method = "HEAD" THEN <<"pull">> ELSE policy.writing

\* The scope a token is requested and cached for: the challenge is split at
\* every comma, the one in `repository:x:pull,push` too.
ScopeOf(method) == Asked(method)[1]

Tokens == [scope : Actions, issued : 0..MaxTime]
NoToken == [scope |-> "none", issued |-> 0]

Requests == {"head", "post", "put", "manifest"}
\* A push ends refused by the registry, or because something broke.
Returned == {"ok", "refused", "broken"}

MethodOf(request) ==
    IF request = "head" THEN "HEAD" ELSE IF request = "post" THEN "POST" ELSE "PUT"

ManifestOf == {Manifest[p] : p \in Pushers}

TypeOK ==
    /\ policy \in Policies
    /\ remote \subseteq Blobs
    /\ manifests \subseteq ManifestOf
    /\ now \in 0..MaxTime
    /\ pc \in [Pushers -> Requests \cup Returned \cup {"read"}]
    /\ index \in [Pushers -> Nat \ {0}]
    /\ phase \in [Pushers -> {"anonymous", "challenged", "authorised"}]
    /\ credential \in [Pushers -> Tokens \cup {NoToken}]
    /\ tokens \in [Pushers -> [Actions -> Tokens \cup {NoToken}]]

Init ==
    /\ policy \in Policies
    /\ remote \in Present
    /\ manifests = {}
    /\ now = 0
    /\ pc = [p \in Pushers |-> "read"]
    /\ index = [p \in Pushers |-> 1]
    /\ phase = [p \in Pushers |-> "anonymous"]
    /\ credential = [p \in Pushers |-> NoToken]
    /\ tokens = [p \in Pushers |-> [s \in Actions |-> NoToken]]

Current(token) == token # NoToken /\ now < token.issued + policy.lifetime

-----------------------------------------------------------------------------
Goto(p, step) == pc' = [pc EXCEPT ![p] = step]
Blob(p) == Image[p][index[p]]

\* The next request starts without a token again, cached or not.
NewRequest(p) ==
    /\ phase' = [phase EXCEPT ![p] = "anonymous"]
    /\ credential' = [credential EXCEPT ![p] = NoToken]

\* push's loop: the next blob is read from the local store, which verifies it;
\* when there is none left the manifest goes out.
ReadBlob(p) ==
    /\ pc[p] = "read"
    /\ \/ Goto(p, IF index[p] <= Len(Image[p]) THEN "head" ELSE "manifest")
       \/ "local" \in Faults /\ Goto(p, "broken")
    /\ UNCHANGED <<registry, now, index, phase, credential, tokens>>

\* Mutant: what HEAD answers is not looked at.
HeadAnswered_Ignored(p, authorised) ==
    /\ Goto(p, "read")
    /\ index' = [index EXCEPT ![p] = @ + 1]
    /\ UNCHANGED registry

\* remote_blob_exists: 404 says no, but only to a request without a token;
\* with one every answer but success is an error.
HeadAnswered(p, authorised) ==
    /\ IF Blob(p) \in remote
       THEN Goto(p, "read") /\ index' = [index EXCEPT ![p] = @ + 1]
       ELSE Goto(p, IF authorised THEN "refused" ELSE "post") /\ UNCHANGED index
    /\ UNCHANGED registry

UploadOpened(p) ==
    /\ Goto(p, "put")
    /\ UNCHANGED <<registry, index>>

BlobUploaded(p) ==
    /\ remote' = remote \cup {Blob(p)}
    /\ Goto(p, "read")
    /\ index' = [index EXCEPT ![p] = @ + 1]
    /\ UNCHANGED <<policy, manifests>>

ManifestUploaded(p) ==
    /\ manifests' = manifests \cup {Manifest[p]}
    /\ Goto(p, "ok")
    /\ UNCHANGED <<policy, remote, index>>

\* The registry accepted the request and its answer arrived.
Answered(p, authorised) ==
    /\ \/ pc[p] = "head" /\ HeadAnswered(p, authorised)
       \/ pc[p] = "post" /\ UploadOpened(p)
       \/ pc[p] = "put" /\ BlobUploaded(p)
       \/ pc[p] = "manifest" /\ ManifestUploaded(p)
    /\ NewRequest(p)

\* No answer arrived.
Unanswered(p) ==
    /\ "network" \in Faults
    /\ Goto(p, "broken")
    /\ NewRequest(p)
    /\ UNCHANGED index

\* The registry carried out the request, but the answer was lost.
AnswerLost(p) ==
    /\ Unanswered(p)
    /\ remote' = IF pc[p] = "put" THEN remote \cup {Blob(p)} ELSE remote
    /\ manifests' = IF pc[p] = "manifest" THEN manifests \cup {Manifest[p]} ELSE manifests
    /\ UNCHANGED policy

RequestLost(p) ==
    /\ Unanswered(p)
    /\ UNCHANGED registry

\* authenticated_send, first half: never with a token.
SendAnonymous(p) ==
    /\ pc[p] \in Requests /\ phase[p] = "anonymous"
    /\ \/ /\ MethodOf(pc[p]) \notin policy.protected
          /\ Answered(p, FALSE) \/ AnswerLost(p)
       \/ /\ MethodOf(pc[p]) \in policy.protected
          /\ phase' = [phase EXCEPT ![p] = "challenged"]
          /\ UNCHANGED <<registry, pc, index, credential>>
       \/ RequestLost(p)
    /\ UNCHANGED <<now, tokens>>

\* Five minutes, whatever expires_in says.
CacheFor == 5

\* Mutant: one token for all scopes of a registry.
CachedToken_AnyScope(p) ==
    LET valid == {t \in {tokens[p][s] : s \in Actions} :
                    t # NoToken /\ now < t.issued + CacheFor}
    IN IF valid = {} THEN NoToken ELSE CHOOSE t \in valid : TRUE

\* The cached token for the scope the registry asked for, if it still counts
\* as valid.
CachedToken(p) ==
    LET t == tokens[p][ScopeOf(MethodOf(pc[p]))]
    IN IF t # NoToken /\ now < t.issued + CacheFor THEN t ELSE NoToken

\* get_token: from the cache, or from the authentication server.
GetToken(p) ==
    LET scope == ScopeOf(MethodOf(pc[p]))
        new == [scope |-> scope, issued |-> now]
    IN
    /\ phase[p] = "challenged"
    /\ \/ /\ CachedToken(p) # NoToken
          /\ credential' = [credential EXCEPT ![p] = CachedToken(p)]
          /\ phase' = [phase EXCEPT ![p] = "authorised"]
          /\ UNCHANGED <<pc, tokens>>
       \/ /\ CachedToken(p) = NoToken
          /\ credential' = [credential EXCEPT ![p] = new]
          /\ tokens' = [tokens EXCEPT ![p][scope] = new]
          /\ phase' = [phase EXCEPT ![p] = "authorised"]
          /\ UNCHANGED pc
       \/ /\ CachedToken(p) = NoToken /\ "auth" \in Faults
          /\ Goto(p, "broken")
          /\ NewRequest(p)
          /\ UNCHANGED tokens
    /\ UNCHANGED <<registry, now, index>>

\* The token is for the actions it was requested for, no more.
Accepts(method, token) ==
    /\ Current(token)
    /\ \A k \in DOMAIN Asked(method) : Asked(method)[k] = token.scope

\* authenticated_send, second half: a second 401 is an error like any other.
SendAuthorised(p) ==
    /\ phase[p] = "authorised"
    /\ \/ /\ Accepts(MethodOf(pc[p]), credential[p])
          /\ Answered(p, TRUE) \/ AnswerLost(p)
       \/ /\ ~Accepts(MethodOf(pc[p]), credential[p])
          /\ Goto(p, "refused")
          /\ NewRequest(p)
          /\ UNCHANGED <<registry, index>>
       \/ RequestLost(p)
    /\ UNCHANGED <<now, tokens>>

\* The user pushes again: a new process, with an empty token cache.
PushAgain(p) ==
    /\ pc[p] \in {"refused", "broken"}
    /\ Goto(p, "read")
    /\ index' = [index EXCEPT ![p] = 1]
    /\ tokens' = [tokens EXCEPT ![p] = [s \in Actions |-> NoToken]]
    /\ UNCHANGED <<registry, now, phase, credential>>

\* A request is sent within the minute its token was taken.
Tick ==
    /\ now < MaxTime
    /\ \A p \in Pushers : phase[p] # "authorised"
    /\ now' = now + 1
    /\ UNCHANGED <<registry, pc, index, phase, credential, tokens>>

-----------------------------------------------------------------------------
Next ==
    \/ \E p \in Pushers :
        \/ ReadBlob(p)
        \/ SendAnonymous(p) \/ GetToken(p) \/ SendAuthorised(p)
        \/ PushAgain(p)
    \/ Tick

Spec == Init /\ [][Next]_vars
-----------------------------------------------------------------------------
(* Properties.                                                             *)

\* The registry never holds a manifest of ours without every blob it names:
\* whatever requests and answers were lost, however often the push was tried
\* again and whoever else pushes the same blobs meanwhile.
ManifestsAreComplete ==
    \A p \in Pushers :
        Manifest[p] \in manifests =>
            \A k \in 1..Len(Image[p]) : Image[p][k] \in remote

\* A push is never refused: it fails only when the local store, a connection or
\* the authentication server did.
PushSucceeds == \A p \in Pushers : pc[p] # "refused"

\* The HEAD of a blob that is missing, where reading takes a token.
MissingBlob(p) ==
    pc[p] = "head" /\ "HEAD" \in policy.protected /\ Blob(p) \notin remote

\* A write whose challenge names more actions than the one the client asks for.
CutScope(p) ==
    /\ pc[p] # "head"
    /\ \E k \in DOMAIN policy.writing : policy.writing[k] # policy.writing[1]

\* A token that the cache keeps for longer than it is good for.
StaleToken(p) == policy.lifetime < CacheFor /\ ~Current(credential[p])

\* The registry refuses a user who may write in these three cases only: tokens of
\* another scope never are the reason, nor are lost answers, other pushers or
\* an earlier push that failed half-way.
RefusedInThreeCases ==
    [][\A p \in Pushers :
         pc[p] # "refused" /\ pc'[p] = "refused" =>
            MissingBlob(p) \/ CutScope(p) \/ StaleToken(p)]_vars
=============================================================================
