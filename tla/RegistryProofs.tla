---------------------------- MODULE RegistryProofs ----------------------------
(***************************************************************************)
(* Of RegistryPush: type correctness; that the registry never holds a      *)
(* manifest of ours without its blobs; and the three cases in which it may *)
(* refuse a push.  For any images, any number of pushing processes, any    *)
(* policy of the registry and whatever fails.                              *)
(*                                                                         *)
(* Of ImageNames: that every name listed resolves, for any inputs.         *)
(***************************************************************************)
EXTENDS RegistryPush, ImageNames, SequenceTheorems, FiniteSetTheorems,
        WellFoundedInduction, TLAPS

\* A push asks for the blobs of its image in turn, then sends the manifest; it
\* holds a token, or has been asked for one, only during a request.
InTurn == \A p \in Pushers :
    /\ pc[p] \in {"head", "post", "put"} => index[p] <= Len(Image[p])
    /\ pc[p] = "manifest" => index[p] > Len(Image[p])
    /\ phase[p] # "anonymous" => pc[p] \in Requests /\ MethodOf(pc[p]) \in policy.protected

\* A token is cached under its own scope.
CacheIsSorted == \A p \in Pushers : \A s \in Actions :
    tokens[p][s] # NoToken => tokens[p][s].scope = s

TypeInv == TypeOK /\ InTurn /\ CacheIsSorted

\* A challenge names some action, and the scope asked for is one.
LEMMA PolicyFacts ==
    ASSUME policy \in Policies
    PROVE  /\ policy.lifetime \in Nat
           /\ \A m : Asked(m) \in Seq(Actions) /\ Asked(m) # <<>> /\ ScopeOf(m) \in Actions
           /\ \A k \in DOMAIN Asked("HEAD") : Asked("HEAD")[k] = ScopeOf("HEAD")
<1>1. policy.lifetime \in Nat /\ policy.writing \in Seq(Actions) /\ policy.writing # <<>>
  BY RegistryAssumption DEF Policy
<1>2. <<"pull">> \in Seq(Actions) /\ <<"pull">> # <<>>
  BY DEF Actions
<1>3. ASSUME NEW m PROVE Asked(m) \in Seq(Actions) /\ Asked(m) # <<>>
  BY <1>1, <1>2 DEF Asked
<1>4. ASSUME NEW q \in Seq(Actions), q # <<>> PROVE q[1] \in Actions
  <2>1. Len(q) \in Nat /\ Len(q) # 0
    BY <1>4
  <2>2. 1 \in 1..Len(q)
    BY <2>1
  <2> QED
    BY <2>2
<1>5. \A k \in DOMAIN Asked("HEAD") : Asked("HEAD")[k] = ScopeOf("HEAD")
  BY DEF Asked, ScopeOf
<1> QED
  BY <1>1, <1>3, <1>4, <1>5 DEF ScopeOf

LEMMA RequestFacts == \A r \in Requests :
    /\ MethodOf(r) \in Methods
    /\ MethodOf(r) = "HEAD" <=> r = "head"
BY DEF Requests, MethodOf, Methods

LEMMA ImageFacts == \A p \in Pushers :
    /\ Len(Image[p]) \in Nat
    /\ \A k \in Nat \ {0} : k <= Len(Image[p]) => Image[p][k] \in Blobs
<1> SUFFICES ASSUME NEW p \in Pushers
             PROVE  /\ Len(Image[p]) \in Nat
                    /\ \A k \in Nat \ {0} : k <= Len(Image[p]) => Image[p][k] \in Blobs
  OBVIOUS
<1>1. Image[p] \in Seq(Blobs)
  BY ImageAssumption
<1>2. Len(Image[p]) \in Nat
  BY <1>1
<1>3. ASSUME NEW k \in Nat \ {0}, k <= Len(Image[p]) PROVE Image[p][k] \in Blobs
  <2>1. k \in 1..Len(Image[p])
    BY <1>2, <1>3
  <2> QED
    BY <1>1, <2>1
<1> QED
  BY <1>2, <1>3

LEMMA TokenFacts ==
    /\ NoToken \notin Tokens
    /\ \A t \in Tokens : t.scope \in Actions /\ t.issued \in Nat
    /\ \A s \in Actions, n \in 0..MaxTime : [scope |-> s, issued |-> n] \in Tokens
<1>1. NoToken.scope \notin Actions
  BY DEF NoToken, Actions
<1>2. \A t \in Tokens : t.scope \in Actions /\ t.issued \in 0..MaxTime
  BY DEF Tokens
<1>3. \A s \in Actions, n \in 0..MaxTime : [scope |-> s, issued |-> n] \in Tokens
  BY DEF Tokens
<1> QED
  BY <1>1, <1>2, <1>3, RegistryAssumption

LEMMA TypeInit == Init => TypeInv
BY ImageAssumption, RegistryAssumption
DEF Init, TypeInv, TypeOK, InTurn, CacheIsSorted, Requests, Returned, Actions

\* What an answer does, in the terms of the invariants.
LEMMA AnswerFacts ==
    ASSUME TypeInv, NEW p \in Pushers, NEW authorised, pc[p] \in Requests,
           Answered(p, authorised) \/ AnswerLost(p) \/ RequestLost(p)
    PROVE  /\ \E step \in {"read", "post", "put", "ok", "refused", "broken"} : Goto(p, step)
           /\ index'[p] \in {index[p], index[p] + 1} /\ index' = [index EXCEPT ![p] = index'[p]]
           /\ pc'[p] \in {"post", "put"} => index'[p] = index[p] /\ pc[p] \in {"head", "post"}
           /\ index'[p] = index[p] + 1 => Blob(p) \in remote' /\ pc[p] # "manifest"
           /\ NewRequest(p)
           /\ UNCHANGED policy
           /\ remote \subseteq remote' /\ remote' \subseteq Blobs
           /\ manifests' \in {manifests, manifests \cup {Manifest[p]}}
           /\ manifests' # manifests => pc[p] = "manifest"
           /\ pc'[p] = "refused" => pc[p] = "head" /\ authorised /\ Blob(p) \notin remote
<1> USE DEF TypeInv, TypeOK
<1>1. pc[p] = "put" => Blob(p) \in Blobs
  BY ImageFacts DEF InTurn, Blob
<1>2. CASE Answered(p, authorised)
  BY <1>1, <1>2 DEF Answered, HeadAnswered, UploadOpened, BlobUploaded, ManifestUploaded,
                 Goto, registry
<1>3. CASE AnswerLost(p) \/ RequestLost(p)
  BY <1>1, <1>3 DEF AnswerLost, RequestLost, Unanswered, Goto, registry
<1> QED
  BY <1>2, <1>3


LEMMA TypeStep == TypeInv /\ [Next]_vars => TypeInv'
<1> SUFFICES ASSUME TypeInv, [Next]_vars PROVE TypeInv'
  OBVIOUS
<1>1. ASSUME NEW p \in Pushers, ReadBlob(p) PROVE TypeInv'
  <2>1. /\ pc' \in [Pushers -> Requests \cup Returned \cup {"read"}]
        /\ \A q \in Pushers \ {p} : pc'[q] = pc[q]
        /\ pc[p] = "read"
        /\ pc'[p] \in {"head", "manifest", "broken"}
        /\ pc'[p] = "head" => index[p] <= Len(Image[p])
        /\ pc'[p] = "manifest" => ~(index[p] <= Len(Image[p]))
    BY <1>1 DEF ReadBlob, Goto, TypeInv, TypeOK, Requests, Returned
  <2>2. UNCHANGED <<registry, now, index, phase, credential, tokens>>
    BY <1>1 DEF ReadBlob
  <2>3. InTurn'
    BY <2>1, <2>2, ImageFacts DEF TypeInv, TypeOK, InTurn, Requests, registry
  <2> QED
    BY <2>1, <2>2, <2>3 DEF TypeInv, TypeOK, CacheIsSorted, registry
<1>2. ASSUME NEW p \in Pushers, NEW authorised, pc[p] \in Requests,
             Answered(p, authorised) \/ AnswerLost(p) \/ RequestLost(p),
             UNCHANGED <<now, tokens>>
      PROVE  TypeInv'
  <2>1. /\ \E step \in {"read", "post", "put", "ok", "refused", "broken"} : Goto(p, step)
        /\ index'[p] \in {index[p], index[p] + 1} /\ index' = [index EXCEPT ![p] = index'[p]]
        /\ pc'[p] \in {"post", "put"} => index'[p] = index[p] /\ pc[p] \in {"head", "post"}
        /\ NewRequest(p)
        /\ UNCHANGED policy
        /\ remote' \subseteq Blobs
        /\ manifests' \in {manifests, manifests \cup {Manifest[p]}}
    BY <1>2, AnswerFacts
  <2>2. TypeOK'
    BY <1>2, <2>1 DEF Goto, NewRequest, ManifestOf, TypeInv, TypeOK, Requests, Returned
  <2>3. InTurn'
    BY <1>2, <2>1 DEF Goto, NewRequest, TypeInv, TypeOK, InTurn, Requests
  <2>4. CacheIsSorted'
    BY <1>2 DEF TypeInv, CacheIsSorted
  <2> QED
    BY <2>2, <2>3, <2>4 DEF TypeInv
<1>3. ASSUME NEW p \in Pushers, SendAnonymous(p) PROVE TypeInv'
  <2>1. CASE /\ phase' = [phase EXCEPT ![p] = "challenged"]
             /\ MethodOf(pc[p]) \in policy.protected
             /\ UNCHANGED <<registry, pc, index, credential>>
    BY <1>3, <2>1
    DEF SendAnonymous, TypeInv, TypeOK, InTurn, CacheIsSorted, registry
  <2>2. CASE Answered(p, FALSE) \/ AnswerLost(p) \/ RequestLost(p)
    BY <1>2, <1>3, <2>2 DEF SendAnonymous
  <2> QED
    BY <1>3, <2>1, <2>2 DEF SendAnonymous
<1>4. ASSUME NEW p \in Pushers, GetToken(p) PROVE TypeInv'
  <2> DEFINE scope == ScopeOf(MethodOf(pc[p]))
             new == [scope |-> scope, issued |-> now]
  <2>1. pc[p] \in Requests /\ MethodOf(pc[p]) \in policy.protected /\ scope \in Actions
    BY <1>4, PolicyFacts DEF GetToken, TypeInv, TypeOK, InTurn
  <2>2. new \in Tokens /\ new.scope = scope
    BY <2>1, TokenFacts DEF TypeInv, TypeOK
  <2>3. CachedToken(p) \in Tokens \cup {NoToken}
    BY <2>1 DEF CachedToken, TypeInv, TypeOK
  <2>4. UNCHANGED <<registry, now, index>>
    BY <1>4 DEF GetToken
  <2>5. CASE /\ credential' = [credential EXCEPT ![p] = CachedToken(p)]
             /\ phase' = [phase EXCEPT ![p] = "authorised"]
             /\ UNCHANGED <<pc, tokens>>
    BY <2>1, <2>3, <2>4, <2>5 DEF TypeInv, TypeOK, InTurn, CacheIsSorted, registry
  <2>6. CASE /\ credential' = [credential EXCEPT ![p] = new]
             /\ tokens' = [tokens EXCEPT ![p][scope] = new]
             /\ phase' = [phase EXCEPT ![p] = "authorised"]
             /\ UNCHANGED pc
    <3> HIDE DEF new, scope
    <3>1. /\ credential' \in [Pushers -> Tokens \cup {NoToken}]
          /\ tokens' \in [Pushers -> [Actions -> Tokens \cup {NoToken}]]
          /\ phase' \in [Pushers -> {"anonymous", "challenged", "authorised"}]
      BY <2>1, <2>2, <2>6 DEF TypeInv, TypeOK
    <3>2. CacheIsSorted'
      BY <2>1, <2>2, <2>6 DEF TypeInv, TypeOK, CacheIsSorted
    <3>3. InTurn'
      BY <2>1, <2>4, <2>6 DEF TypeInv, TypeOK, InTurn, registry
    <3> QED
      BY <2>4, <2>6, <3>1, <3>2, <3>3 DEF TypeInv, TypeOK, registry
  <2>7. CASE Goto(p, "broken") /\ NewRequest(p) /\ UNCHANGED tokens
    BY <2>4, <2>7
    DEF Goto, NewRequest, TypeInv, TypeOK, InTurn, CacheIsSorted, Requests, Returned, registry
  <2> QED
    BY <1>4, <2>5, <2>6, <2>7 DEF GetToken
<1>5. ASSUME NEW p \in Pushers, SendAuthorised(p) PROVE TypeInv'
  <2>1. CASE Goto(p, "refused") /\ NewRequest(p) /\ UNCHANGED <<registry, index>>
    BY <1>5, <2>1
    DEF SendAuthorised, Goto, NewRequest, TypeInv, TypeOK, InTurn, CacheIsSorted, Requests,
        Returned, registry
  <2>2. CASE Answered(p, TRUE) \/ AnswerLost(p) \/ RequestLost(p)
    <3>1. pc[p] \in Requests
      BY <1>5 DEF SendAuthorised, TypeInv, InTurn
    <3> QED
      BY <1>2, <1>5, <2>2, <3>1 DEF SendAuthorised
  <2> QED
    BY <1>5, <2>1, <2>2 DEF SendAuthorised
<1>6. ASSUME NEW p \in Pushers, PushAgain(p) PROVE TypeInv'
  BY <1>6
  DEF PushAgain, Goto, TypeInv, TypeOK, InTurn, CacheIsSorted, Requests, Returned, registry
<1>7. CASE Tick
  BY <1>7, RegistryAssumption DEF Tick, TypeInv, TypeOK, InTurn, CacheIsSorted, registry
<1>8. CASE UNCHANGED vars
  BY <1>8 DEF vars, TypeInv, TypeOK, InTurn, CacheIsSorted, registry
<1> QED
  BY <1>1, <1>3, <1>4, <1>5, <1>6, <1>7, <1>8 DEF Next

\* The registry holds blobs and manifests of ours only, and a push is always at
\* a request of its image, with tokens the registry issued.
THEOREM PushTypeCorrect == Spec => []TypeOK
<1>1. TypeInv => TypeOK
  BY DEF TypeInv
<1> QED
  BY TypeInit, TypeStep, <1>1, PTL DEF Spec

LEMMA TypeInvariant == Spec => []TypeInv
BY TypeInit, TypeStep, PTL DEF Spec

-----------------------------------------------------------------------------
(***************************************************************************)
(* ManifestsAreComplete needs to know that the blobs a push has passed are *)
(* in the registry.                                                        *)
(***************************************************************************)

PassedAreThere == \A p \in Pushers : \A k \in 1..Len(Image[p]) :
    k < index[p] => Image[p][k] \in remote

CompleteInv == PassedAreThere /\ ManifestsAreComplete

LEMMA CompleteInit == Init => CompleteInv
BY ImageFacts DEF Init, CompleteInv, PassedAreThere, ManifestsAreComplete

LEMMA CompleteStep == TypeInv /\ CompleteInv /\ [Next]_vars => CompleteInv'
<1> SUFFICES ASSUME TypeInv, CompleteInv, [Next]_vars PROVE CompleteInv'
  OBVIOUS
<1>1. ASSUME remote \subseteq remote', UNCHANGED manifests,
             \A p \in Pushers : index'[p] \in {index[p], 1}
      PROVE  CompleteInv'
  BY <1>1, ImageFacts DEF CompleteInv, PassedAreThere, ManifestsAreComplete
<1>2. ASSUME NEW p \in Pushers, NEW authorised, pc[p] \in Requests,
             Answered(p, authorised) \/ AnswerLost(p) \/ RequestLost(p)
      PROVE  CompleteInv'
  <2>1. /\ index'[p] \in {index[p], index[p] + 1} /\ index' = [index EXCEPT ![p] = index'[p]]
        /\ index'[p] = index[p] + 1 => Blob(p) \in remote'
        /\ remote \subseteq remote'
        /\ manifests' \in {manifests, manifests \cup {Manifest[p]}}
        /\ manifests' # manifests => pc[p] = "manifest"
    BY <1>2, AnswerFacts
  <2>2. ASSUME NEW q \in Pushers, NEW k \in 1..Len(Image[q]), k < index'[q]
        PROVE  Image[q][k] \in remote'
    <3>1. index[q] \in Nat /\ k \in Nat
      BY ImageFacts DEF TypeInv, TypeOK
    <3>2. k < index[q] \/ (q = p /\ k = index[p] /\ index'[p] = index[p] + 1)
      BY <2>1, <2>2, <3>1 DEF TypeInv, TypeOK
    <3> QED
      BY <2>1, <2>2, <3>2 DEF CompleteInv, PassedAreThere, Blob
  <2>3. ASSUME NEW q \in Pushers, Manifest[q] \in manifests', NEW k \in 1..Len(Image[q])
        PROVE  Image[q][k] \in remote'
    <3>1. CASE Manifest[q] \in manifests
      BY <2>1, <2>3, <3>1 DEF CompleteInv, ManifestsAreComplete
    <3>2. CASE Manifest[q] \notin manifests
      <4>1. pc[p] = "manifest" /\ Image[q] = Image[p]
        BY <2>1, <2>3, <3>2, ImageAssumption
      <4>2. index[p] > Len(Image[p]) /\ index[p] \in Nat /\ Len(Image[p]) \in Nat
        BY <4>1, ImageFacts DEF TypeInv, TypeOK, InTurn
      <4>3. Image[p][k] \in remote
        BY <2>3, <4>1, <4>2 DEF CompleteInv, PassedAreThere
      <4> QED
        BY <2>1, <4>1, <4>3
    <3> QED
      BY <3>1, <3>2
  <2> QED
    BY <2>2, <2>3 DEF CompleteInv, PassedAreThere, ManifestsAreComplete
<1>3. ASSUME NEW p \in Pushers, ReadBlob(p) \/ GetToken(p) PROVE CompleteInv'
  BY <1>1, <1>3 DEF ReadBlob, GetToken, registry
<1>4. ASSUME NEW p \in Pushers, SendAnonymous(p) PROVE CompleteInv'
  <2>1. CASE UNCHANGED <<registry, pc, index, credential>>
    BY <1>1, <2>1 DEF registry
  <2>2. CASE Answered(p, FALSE) \/ AnswerLost(p) \/ RequestLost(p)
    BY <1>2, <1>4, <2>2 DEF SendAnonymous
  <2> QED
    BY <1>4, <2>1, <2>2 DEF SendAnonymous
<1>5. ASSUME NEW p \in Pushers, SendAuthorised(p) PROVE CompleteInv'
  <2>1. CASE UNCHANGED <<registry, index>>
    BY <1>1, <2>1 DEF registry
  <2>2. CASE Answered(p, TRUE) \/ AnswerLost(p) \/ RequestLost(p)
    <3>1. pc[p] \in Requests
      BY <1>5 DEF SendAuthorised, TypeInv, InTurn
    <3> QED
      BY <1>2, <1>5, <2>2, <3>1 DEF SendAuthorised
  <2> QED
    BY <1>5, <2>1, <2>2 DEF SendAuthorised
<1>6. ASSUME NEW p \in Pushers, PushAgain(p) PROVE CompleteInv'
  BY <1>1, <1>6 DEF PushAgain, registry, TypeInv, TypeOK
<1>7. CASE Tick \/ UNCHANGED vars
  BY <1>1, <1>7 DEF Tick, vars, registry
<1> QED
  BY <1>3, <1>4, <1>5, <1>6, <1>7 DEF Next

\* No manifest of ours is ever in the registry without every blob it names: for
\* any images and any number of processes pushing them at once and again,
\* whatever the registry protects and whichever requests and answers are lost.
THEOREM ManifestsComplete == Spec => []ManifestsAreComplete
<1>1. CompleteInv => ManifestsAreComplete
  BY DEF CompleteInv
<1> QED
  BY TypeInvariant, CompleteInit, CompleteStep, <1>1, PTL DEF Spec

-----------------------------------------------------------------------------
(***************************************************************************)
(* A request is sent again with a token of the scope the client asked for, *)
(* and tokens that last as long as the client keeps them are good then.    *)
(***************************************************************************)

\* A token to send with a request, as far as the client can tell.
Fits(method, token) ==
    /\ token \in Tokens
    /\ token.scope = ScopeOf(method)
    /\ CacheFor <= policy.lifetime => Current(token)

CredentialsFit == \A p \in Pushers :
    phase[p] = "authorised" => Fits(MethodOf(pc[p]), credential[p])

LEMMA TokenFits ==
    ASSUME TypeInv, NEW p \in Pushers, GetToken(p), phase'[p] = "authorised"
    PROVE  /\ Fits(MethodOf(pc[p]), credential'[p])
           /\ pc'[p] = pc[p]
<1> DEFINE scope == ScopeOf(MethodOf(pc[p]))
           new == [scope |-> scope, issued |-> now]
<1>1. pc[p] \in Requests /\ scope \in Actions /\ now \in 0..MaxTime
  BY PolicyFacts DEF GetToken, TypeInv, InTurn, TypeOK
<1>2. now \in Nat /\ policy.lifetime \in Nat
  BY <1>1, PolicyFacts, RegistryAssumption DEF TypeInv, TypeOK
<1>3. CASE CachedToken(p) # NoToken /\ credential'[p] = CachedToken(p) /\ UNCHANGED pc
  <2> DEFINE t == tokens[p][scope]
  <2>1. CachedToken(p) = t /\ t # NoToken /\ now < t.issued + CacheFor
    BY <1>3 DEF CachedToken
  <2>2. t \in Tokens /\ t.issued \in Nat /\ t.scope = scope
    BY <1>1, <2>1, TokenFacts DEF TypeInv, TypeOK, CacheIsSorted
  <2>3. CacheFor <= policy.lifetime => now < t.issued + policy.lifetime
    BY <1>2, <2>1, <2>2 DEF CacheFor
  <2> QED
    BY <1>3, <2>1, <2>2, <2>3 DEF Fits, Current
<1>4. CASE credential'[p] = new /\ UNCHANGED pc
  <2>1. new \in Tokens /\ new.scope = scope /\ new.issued = now
    BY <1>1, TokenFacts
  <2>2. new # NoToken
    BY <2>1, TokenFacts
  <2>3. CacheFor <= policy.lifetime => now < new.issued + policy.lifetime
    BY <1>2, <2>1 DEF CacheFor
  <2> QED
    BY <1>4, <2>1, <2>2, <2>3 DEF Fits, Current
<1>5. \/ CachedToken(p) # NoToken /\ credential'[p] = CachedToken(p) /\ UNCHANGED pc
      \/ credential'[p] = new /\ UNCHANGED pc
  BY DEF GetToken, NewRequest, TypeInv, TypeOK
<1> QED
  BY <1>3, <1>4, <1>5

LEMMA FitStep ==
    ASSUME TypeInv, CredentialsFit, [Next]_vars
    PROVE  CredentialsFit'
<1>1. ASSUME UNCHANGED <<now, policy>>,
             NEW p \in Pushers,
             \A q \in Pushers \ {p} : /\ pc'[q] = pc[q] /\ phase'[q] = phase[q]
                                      /\ credential'[q] = credential[q],
             phase'[p] = "authorised" => Fits(MethodOf(pc'[p]), credential'[p])
      PROVE  CredentialsFit'
  BY <1>1 DEF CredentialsFit, Fits, Current, ScopeOf, Asked
<1>2. ASSUME UNCHANGED <<now, policy, pc, phase, credential>> PROVE CredentialsFit'
  BY <1>2 DEF CredentialsFit, Fits, Current, ScopeOf, Asked
<1>3. ASSUME NEW p \in Pushers, ReadBlob(p) \/ PushAgain(p) PROVE CredentialsFit'
  <2>1. phase[p] # "authorised" /\ UNCHANGED <<now, policy, phase, credential>>
    BY <1>3 DEF ReadBlob, PushAgain, TypeInv, InTurn, Requests, registry
  <2>2. \A q \in Pushers \ {p} : pc'[q] = pc[q]
    BY <1>3 DEF ReadBlob, PushAgain, Goto, TypeInv, TypeOK
  <2> QED
    BY <1>1, <2>1, <2>2
<1>4. ASSUME NEW p \in Pushers, NEW authorised, pc[p] \in Requests,
             Answered(p, authorised) \/ AnswerLost(p) \/ RequestLost(p), UNCHANGED now
      PROVE  CredentialsFit'
  <2>1. /\ NewRequest(p)
        /\ UNCHANGED policy
        /\ \E step \in {"read", "post", "put", "ok", "refused", "broken"} : Goto(p, step)
    BY <1>4, AnswerFacts
  <2> QED
    BY <1>1, <1>4, <2>1 DEF NewRequest, Goto, TypeInv, TypeOK
<1>5. ASSUME NEW p \in Pushers, SendAnonymous(p) PROVE CredentialsFit'
  <2>1. CASE /\ phase' = [phase EXCEPT ![p] = "challenged"]
             /\ UNCHANGED <<registry, pc, index, credential>>
    BY <1>1, <1>5, <2>1 DEF SendAnonymous, TypeInv, TypeOK, registry
  <2>2. CASE Answered(p, FALSE) \/ AnswerLost(p) \/ RequestLost(p)
    BY <1>4, <1>5, <2>2 DEF SendAnonymous
  <2> QED
    BY <1>5, <2>1, <2>2 DEF SendAnonymous
<1>6. ASSUME NEW p \in Pushers, GetToken(p) PROVE CredentialsFit'
  <2>1. /\ UNCHANGED <<now, policy>>
        /\ \A q \in Pushers \ {p} : /\ pc'[q] = pc[q] /\ phase'[q] = phase[q]
                                     /\ credential'[q] = credential[q]
    BY <1>6 DEF GetToken, Goto, NewRequest, TypeInv, TypeOK, registry
  <2> QED
    BY <1>1, <1>6, <2>1, TokenFits
<1>7. ASSUME NEW p \in Pushers, SendAuthorised(p) PROVE CredentialsFit'
  <2>1. pc[p] \in Requests
    BY <1>7 DEF SendAuthorised, TypeInv, InTurn
  <2>2. CASE Goto(p, "refused") /\ NewRequest(p) /\ UNCHANGED registry
    BY <1>1, <1>7, <2>2 DEF SendAuthorised, Goto, NewRequest, TypeInv, TypeOK, registry
  <2>3. CASE Answered(p, TRUE) \/ AnswerLost(p) \/ RequestLost(p)
    BY <1>4, <1>7, <2>1, <2>3 DEF SendAuthorised
  <2> QED
    BY <1>7, <2>2, <2>3 DEF SendAuthorised
<1>8. CASE Tick
  BY <1>8 DEF Tick, CredentialsFit
<1>9. CASE UNCHANGED vars
  BY <1>2, <1>9 DEF vars, registry
<1> QED
  BY <1>3, <1>5, <1>6, <1>7, <1>8, <1>9 DEF Next

\* The registry refuses a push in three cases only: the HEAD of a blob that is
\* missing, where reading takes a token; a write whose challenge names several
\* actions, of which the client asks for the first; and a token the client kept
\* for longer than it was good for.
THEOREM RefusedInThreeCasesOnly == Spec => RefusedInThreeCases
<1> DEFINE Refusal == \A p \in Pushers :
             pc[p] # "refused" /\ pc'[p] = "refused" => MissingBlob(p) \/ CutScope(p) \/ StaleToken(p)
<1>1. TypeInv /\ CredentialsFit /\ [Next]_vars => [Refusal]_vars
  <2> SUFFICES ASSUME TypeInv, CredentialsFit, Next, NEW p \in Pushers,
                      pc[p] # "refused", pc'[p] = "refused"
               PROVE  MissingBlob(p) \/ CutScope(p) \/ StaleToken(p)
    OBVIOUS
  <2>1. ASSUME NEW q \in Pushers, ReadBlob(q) \/ GetToken(q) \/ PushAgain(q) PROVE FALSE
    BY <2>1 DEF ReadBlob, GetToken, PushAgain, Goto, TypeInv, TypeOK
  <2>2. ASSUME NEW q \in Pushers, NEW authorised, pc[q] \in Requests,
               Answered(q, authorised) \/ AnswerLost(q) \/ RequestLost(q)
        PROVE  pc[p] = "head" /\ authorised /\ Blob(p) \notin remote /\ q = p
    <3>1. /\ \E step \in {"read", "post", "put", "ok", "refused", "broken"} : Goto(q, step)
          /\ pc'[q] = "refused" => pc[q] = "head" /\ authorised /\ Blob(q) \notin remote
      BY <2>2, AnswerFacts
    <3>2. q = p
      BY <3>1 DEF Goto, TypeInv, TypeOK
    <3> QED
      BY <3>1, <3>2
  <2>3. ASSUME NEW q \in Pushers, SendAnonymous(q) PROVE FALSE
    <3>1. CASE UNCHANGED pc
      BY <3>1
    <3>2. CASE Answered(q, FALSE) \/ AnswerLost(q) \/ RequestLost(q)
      BY <2>2, <2>3, <3>2 DEF SendAnonymous
    <3> QED
      BY <2>3, <3>1, <3>2 DEF SendAnonymous
  <2>4. ASSUME NEW q \in Pushers, SendAuthorised(q)
        PROVE  MissingBlob(p) \/ CutScope(p) \/ StaleToken(p)
    <3>1. /\ pc[q] \in Requests /\ MethodOf(pc[q]) \in policy.protected
          /\ Fits(MethodOf(pc[q]), credential[q])
      BY <2>4 DEF SendAuthorised, TypeInv, InTurn, CredentialsFit
    <3>2. CASE Answered(q, TRUE) \/ AnswerLost(q) \/ RequestLost(q)
      <4>1. pc[p] = "head" /\ Blob(p) \notin remote /\ q = p
        BY <2>2, <3>1, <3>2
      <4> QED
        BY <3>1, <4>1, RequestFacts DEF MissingBlob
    <3>3. CASE ~Accepts(MethodOf(pc[q]), credential[q]) /\ Goto(q, "refused")
      <4>1. q = p
        BY <3>3 DEF Goto, TypeInv, TypeOK
      <4>2. CASE ~Current(credential[p])
        <5>1. ~(CacheFor <= policy.lifetime)
          BY <3>1, <4>1, <4>2 DEF Fits
        <5>2. policy.lifetime < CacheFor
          BY <5>1, PolicyFacts DEF CacheFor, TypeInv, TypeOK
        <5> QED
          BY <4>2, <5>2 DEF StaleToken
      <4>3. CASE Current(credential[p])
        <5>1. PICK k \in DOMAIN Asked(MethodOf(pc[p])) :
                Asked(MethodOf(pc[p]))[k] # ScopeOf(MethodOf(pc[p]))
          BY <3>1, <3>3, <4>1, <4>3 DEF Accepts, Fits
        <5>2. MethodOf(pc[p]) # "HEAD"
          BY <5>1, PolicyFacts DEF TypeInv, TypeOK
        <5>3. pc[p] # "head" /\ Asked(MethodOf(pc[p])) = policy.writing
          BY <3>1, <4>1, <5>2, RequestFacts DEF Asked
        <5> QED
          BY <5>1, <5>3 DEF ScopeOf, CutScope
      <4> QED
        BY <4>2, <4>3
    <3> QED
      BY <2>4, <3>2, <3>3 DEF SendAuthorised
  <2>5. CASE Tick
    BY <2>5 DEF Tick
  <2> QED
    BY <2>1, <2>3, <2>4, <2>5 DEF Next
<1>2. Init => CredentialsFit
  BY DEF Init, CredentialsFit
<1>3. TypeInv /\ CredentialsFit /\ [Next]_vars => CredentialsFit'
  BY FitStep
<1> QED
  BY TypeInvariant, <1>1, <1>2, <1>3, PTL DEF Spec, RefusedInThreeCases

-------------------------------------------------------------------------------
\* The words of strings.  Of a literal the provers do not know that it is a string.
Words == STRING \cup {"/", ":", "@", "_", ".", "latest", "library", "docker", "io"}

LEMMA SeparatorsAreWords == "/" \in Words /\ ":" \in Words /\ "_" \in Words
BY DEF Words

\* A set of places in a string has a first one, and a last one.
LEMMA PlacesFacts ==
  ASSUME NEW s \in Seq(Words), NEW sep, Has(s, sep)
  PROVE  /\ FirstPlace(s, sep) \in 1..Len(s) /\ s[FirstPlace(s, sep)] = sep
         /\ \A i \in 1..(FirstPlace(s, sep) - 1) : s[i] # sep
         /\ LastPlace(s, sep) \in 1..Len(s) /\ s[LastPlace(s, sep)] = sep
         /\ \A i \in (LastPlace(s, sep) + 1)..Len(s) : s[i] # sep
<1> DEFINE S == Places(s, sep)
           T == {Len(s) - i : i \in S}
<1>1. Len(s) \in Nat /\ DOMAIN s = 1..Len(s)
  OBVIOUS
<1>2. S = {i \in 1..Len(s) : s[i] = sep} /\ S # {}
  BY <1>1 DEF Places, Has
<1>3. S \in SUBSET Nat /\ T \in SUBSET Nat /\ T # {}
  BY <1>1, <1>2
<1> HIDE DEF S, T
<1>4. ASSUME NEW U, U \in SUBSET Nat, U # {}
      PROVE  \E x \in U : \A y \in U : x <= y
  <2>1. PICK x \in U : \A y \in U : ~(<<y, x>> \in OpToRel(<, Nat))
    BY <1>4, NatLessThanWellFounded, WFMin
  <2>2. \A y \in U : ~(y < x)
    BY <1>4, <2>1 DEF OpToRel
  <2> QED BY <1>4, <2>2
<1>5. \E x \in S : \A y \in S : x <= y
  BY <1>2, <1>3, <1>4
<1>6. \E x \in S : \A y \in S : y <= x
  <2>1. PICK t \in T : \A u \in T : t <= u
    BY <1>3, <1>4
  <2>2. PICK x \in S : t = Len(s) - x
    BY DEF T
  <2>3. \A y \in S : Len(s) - y \in T
    BY DEF T
  <2> QED BY <1>1, <1>3, <2>1, <2>2, <2>3
<1>7. /\ FirstPlace(s, sep) \in S /\ \A y \in S : FirstPlace(s, sep) <= y
      /\ LastPlace(s, sep) \in S /\ \A y \in S : y <= LastPlace(s, sep)
  BY <1>5, <1>6 DEF FirstPlace, LastPlace, S
<1> QED BY <1>1, <1>2, <1>7

LEMMA HasFacts ==
  ASSUME NEW s \in Seq(Words), NEW c
  PROVE  Has(s, c) <=> \E i \in 1..Len(s) : s[i] = c
BY DEF Has, Places

LEMMA ConcatFacts ==
  ASSUME NEW s \in Seq(Words), NEW t \in Seq(Words), NEW c
  PROVE  s \o t \in Seq(Words) /\ (Has(s \o t, c) <=> Has(s, c) \/ Has(t, c))
<1>1. /\ s \o t \in Seq(Words) /\ Len(s \o t) = Len(s) + Len(t)
      /\ Len(s) \in Nat /\ Len(t) \in Nat
      /\ \A i \in 1..Len(s) + Len(t) :
           (s \o t)[i] = IF i <= Len(s) THEN s[i] ELSE t[i - Len(s)]
  BY ConcatProperties
<1>2. ASSUME NEW i \in 1..Len(s) + Len(t), (s \o t)[i] = c PROVE Has(s, c) \/ Has(t, c)
  BY <1>1, <1>2, HasFacts
<1>3. ASSUME NEW i \in 1..Len(s), s[i] = c PROVE Has(s \o t, c)
  <2>1. i \in 1..Len(s \o t) /\ (s \o t)[i] = c
    BY <1>1, <1>3
  <2> QED BY <1>1, <2>1, HasFacts
<1>4. ASSUME NEW i \in 1..Len(t), t[i] = c PROVE Has(s \o t, c)
  <2>1. i + Len(s) \in 1..Len(s \o t) /\ (s \o t)[i + Len(s)] = c
    BY <1>1, <1>4
  <2> QED BY <1>1, <2>1, HasFacts
<1>5. /\ Has(s, c) <=> \E i \in 1..Len(s) : s[i] = c
      /\ Has(t, c) <=> \E i \in 1..Len(t) : t[i] = c
      /\ Has(s \o t, c) <=> \E i \in 1..Len(s) + Len(t) : (s \o t)[i] = c
  BY <1>1, HasFacts, ZenonT(60)
<1> QED BY <1>1, <1>2, <1>3, <1>4, <1>5

LEMMA WordFacts ==
  ASSUME NEW w \in Words, NEW c
  PROVE  <<w>> \in Seq(Words) /\ (Has(<<w>>, c) <=> w = c)
<1>1. <<w>> \in Seq(Words) /\ Len(<<w>>) = 1 /\ <<w>>[1] = w
  OBVIOUS
<1>2. Has(<<w>>, c) <=> \E i \in 1..1 : <<w>>[i] = c
  BY <1>1, HasFacts
<1> QED BY <1>1, <1>2

\* What comes before the first separator, and after it.
LEMMA SplitFacts ==
  ASSUME NEW s \in Seq(Words), NEW sep
  PROVE  /\ Preceding(s, sep) \in Seq(Words) /\ ~Has(Preceding(s, sep), sep)
         /\ \A c : Has(Preceding(s, sep), c) => Has(s, c)
         /\ Has(s, sep) =>
              /\ Following(s, sep) \in Seq(Words)
              /\ \A c : Has(Following(s, sep), c) => Has(s, c)
              /\ (\A i, j \in Places(s, sep) : i = j) => ~Has(Following(s, sep), sep)
<1>1. CASE ~Has(s, sep)
  BY <1>1 DEF Preceding
<1>2. CASE Has(s, sep)
  <2> DEFINE f == FirstPlace(s, sep)
             pre == SubSeq(s, 1, f - 1)
             post == SubSeq(s, f + 1, Len(s))
  <2>1. /\ f \in 1..Len(s) /\ Len(s) \in Nat /\ s[f] = sep
        /\ \A i \in 1..(f - 1) : s[i] # sep
    BY <1>2, PlacesFacts
  <2>2. Preceding(s, sep) = pre /\ Following(s, sep) = post
    BY <1>2 DEF Preceding, Following
  <2> HIDE DEF f
  <2>3. /\ pre \in Seq(Words) /\ Len(pre) = f - 1
        /\ \A i \in 1..(f - 1) : pre[i] = s[i]
    BY <2>1
  <2>4. /\ post \in Seq(Words) /\ Len(post) = Len(s) - f
        /\ \A i \in 1..(Len(s) - f) : post[i] = s[f + i]
    BY <2>1
  <2> HIDE DEF pre, post
  <2>5. ~Has(pre, sep) /\ \A c : Has(pre, c) => Has(s, c)
    BY <2>1, <2>3, HasFacts
  <2>6. \A c : Has(post, c) => Has(s, c)
    <3> SUFFICES ASSUME NEW c, Has(post, c) PROVE Has(s, c)
      OBVIOUS
    <3>1. PICK i \in 1..(Len(s) - f) : post[i] = c
      BY <2>4, HasFacts
    <3>2. f + i \in 1..Len(s) /\ s[f + i] = c
      BY <2>1, <2>4, <3>1
    <3> QED BY <3>2, HasFacts
  <2>7. ASSUME \A i, j \in Places(s, sep) : i = j, Has(post, sep) PROVE FALSE
    <3>1. PICK i \in 1..(Len(s) - f) : post[i] = sep
      BY <2>4, <2>7, HasFacts
    <3>2. f + i \in 1..Len(s) /\ s[f + i] = sep /\ f + i # f
      BY <2>1, <2>4, <3>1
    <3>3. f \in Places(s, sep) /\ f + i \in Places(s, sep)
      BY <2>1, <3>2 DEF Places
    <3> QED BY <2>7, <3>2, <3>3
  <2> QED BY <2>2, <2>3, <2>4, <2>5, <2>6, <2>7
<1> QED BY <1>1, <1>2

Join(a, sep, b) == a \o <<sep>> \o b

Joins(s, a, sep, b) ==
  /\ s \in Seq(Words) /\ Len(s) = Len(a) + 1 + Len(b)
  /\ \A i \in 1..Len(a) : s[i] = a[i]
  /\ s[Len(a) + 1] = sep
  /\ \A i \in 1..Len(b) : s[Len(a) + 1 + i] = b[i]

LEMMA JoinElements ==
  ASSUME NEW a \in Seq(Words), NEW sep \in Words, NEW b \in Seq(Words)
  PROVE  Joins(Join(a, sep, b), a, sep, b)
<1> DEFINE s == a \o <<sep>> \o b
           k == Len(a) + 1
<1>1. Len(a) \in Nat /\ Len(b) \in Nat
  OBVIOUS
<1>2. a \o <<sep>> \in Seq(Words) /\ Len(a \o <<sep>>) = k
  BY <1>1
<1>3. (\A i \in 1..Len(a) : (a \o <<sep>>)[i] = a[i]) /\ (a \o <<sep>>)[k] = sep
  BY <1>1
<1>4. /\ s \in Seq(Words) /\ Len(s) = k + Len(b)
      /\ \A i \in 1..k + Len(b) : s[i] = IF i <= k THEN (a \o <<sep>>)[i] ELSE b[i - k]
  BY <1>2, ConcatProperties
<1>5. (\A i \in 1..Len(a) : s[i] = a[i]) /\ s[k] = sep
  BY <1>1, <1>3, <1>4
<1>6. \A i \in 1..Len(b) : k + i \in 1..k + Len(b) /\ ~(k + i <= k) /\ (k + i) - k = i
  BY <1>1
<1>7. \A i \in 1..Len(b) : s[k + i] = b[i]
  BY <1>4, <1>6
<1> QED BY <1>4, <1>5, <1>7 DEF Join, Joins

LEMMA JoinHas ==
  ASSUME NEW a \in Seq(Words), NEW sep \in Words, NEW b \in Seq(Words)
  PROVE  \A c : Has(Join(a, sep, b), c) <=> Has(a, c) \/ Has(b, c) \/ c = sep
<1>1. <<sep>> \in Seq(Words) /\ \A c : Has(<<sep>>, c) <=> c = sep
  BY WordFacts
<1> QED BY <1>1, ConcatFacts DEF Join

\* Joined by a separator, two strings come apart at it: at the first one if the left
\* string has none, at the last one if the right string has none.
LEMMA JoinParts ==
  ASSUME NEW a \in Seq(Words), NEW sep \in Words, NEW b \in Seq(Words)
  PROVE  /\ SubSeq(Join(a, sep, b), 1, Len(a)) = a
         /\ SubSeq(Join(a, sep, b), Len(a) + 2, Len(Join(a, sep, b))) = b
<1> DEFINE s == Join(a, sep, b)
           k == Len(a) + 1
<1>1. /\ s \in Seq(Words) /\ Len(s) = k + Len(b) /\ Len(a) \in Nat /\ Len(b) \in Nat
      /\ \A i \in 1..Len(a) : s[i] = a[i]
      /\ \A i \in 1..Len(b) : s[k + i] = b[i]
  <2>1. Joins(s, a, sep, b)
    BY JoinElements
  <2> HIDE DEF s
  <2>2. Len(a) \in Nat /\ Len(b) \in Nat
    OBVIOUS
  <2> QED BY ONLY <2>1, <2>2 DEF Joins
<1> HIDE DEF s
<1>2. SubSeq(s, 1, Len(a)) = a
  <2>1. /\ SubSeq(s, 1, Len(a)) \in Seq(Words) /\ Len(SubSeq(s, 1, Len(a))) = Len(a)
        /\ \A i \in 1..Len(a) : SubSeq(s, 1, Len(a))[i] = s[i]
    BY <1>1
  <2> QED BY <1>1, <2>1, SeqEqual
<1>3. SubSeq(s, k + 1, Len(s)) = b
  <2>1. /\ SubSeq(s, k + 1, Len(s)) \in Seq(Words) /\ Len(SubSeq(s, k + 1, Len(s))) = Len(b)
        /\ \A i \in 1..Len(b) : SubSeq(s, k + 1, Len(s))[i] = s[k + i]
    BY <1>1
  <2> QED BY <1>1, <2>1, SeqEqual
<1>4. k + 1 = Len(a) + 2
  BY <1>1
<1> QED BY <1>2, <1>3, <1>4 DEF s

LEMMA JoinPlaces ==
  ASSUME NEW a \in Seq(Words), NEW sep \in Words, NEW b \in Seq(Words)
  PROVE  LET s == Join(a, sep, b)
         IN /\ ~Has(a, sep) =>
                 /\ FirstPlace(s, sep) = Len(a) + 1
                 /\ Places(s, sep) = {Len(a) + 1} \cup {Len(a) + 1 + i : i \in Places(b, sep)}
            /\ ~Has(b, sep) => LastPlace(s, sep) = Len(a) + 1
<1> DEFINE s == Join(a, sep, b)
           k == Len(a) + 1
           f == FirstPlace(s, sep)
           l == LastPlace(s, sep)
<1>1. /\ s \in Seq(Words) /\ Len(s) = k + Len(b) /\ Len(a) \in Nat /\ Len(b) \in Nat
      /\ \A i \in 1..Len(a) : s[i] = a[i]
      /\ s[k] = sep
      /\ \A i \in 1..Len(b) : s[k + i] = b[i]
  <2>1. Joins(s, a, sep, b)
    BY JoinElements
  <2> HIDE DEF s
  <2>2. Len(a) \in Nat /\ Len(b) \in Nat
    OBVIOUS
  <2> QED BY ONLY <2>1, <2>2 DEF Joins
<1>2. Has(s, sep)
  BY JoinHas
<1> HIDE DEF s
<1>3. /\ f \in 1..Len(s) /\ s[f] = sep /\ \A i \in 1..(f - 1) : s[i] # sep
      /\ l \in 1..Len(s) /\ s[l] = sep /\ \A i \in (l + 1)..Len(s) : s[i] # sep
  BY <1>1, <1>2, PlacesFacts
<1> HIDE DEF f, l
<1>4. ~Has(a, sep) => \A i \in 1..Len(a) : s[i] # sep
  BY <1>1, HasFacts
<1>5. ASSUME ~Has(a, sep) PROVE f = k
  <2>1. ~(f < k)
    BY <1>1, <1>3, <1>4, <1>5
  <2>2. ~(k < f)
    BY <1>1, <1>3
  <2>3. f \in Int /\ k \in Int
    BY <1>1, <1>3
  <2> HIDE DEF k
  <2> QED BY <2>1, <2>2, <2>3
<1>6. ASSUME ~Has(b, sep) PROVE l = k
  <2>1. \A i \in 1..Len(b) : s[k + i] # sep
    BY <1>1, <1>6, HasFacts
  <2>2. \A i \in (k + 1)..Len(s) : s[i] # sep
    <3> TAKE i \in (k + 1)..Len(s)
    <3>1. i - k \in 1..Len(b) /\ i = k + (i - k)
      BY <1>1
    <3> QED BY <2>1, <3>1
  <2>3. ~(k < l)
    BY <1>1, <1>3, <2>2
  <2>4. ~(l < k)
    BY <1>1, <1>3
  <2>5. l \in Int /\ k \in Int
    BY <1>1, <1>3
  <2> HIDE DEF k
  <2> QED BY <2>3, <2>4, <2>5
<1>7. ASSUME ~Has(a, sep)
      PROVE  Places(s, sep) = {k} \cup {k + i : i \in Places(b, sep)}
  <2>1. DOMAIN s = 1..(k + Len(b)) /\ DOMAIN b = 1..Len(b)
    BY <1>1
  <2>2. ASSUME NEW j \in DOMAIN s, s[j] = sep, j # k
        PROVE  j - k \in DOMAIN b /\ b[j - k] = sep /\ j = k + (j - k)
    <3>1. j - k \in 1..Len(b) /\ j = k + (j - k)
      BY <1>1, <1>4, <1>7, <2>1, <2>2
    <3> QED BY <1>1, <2>1, <2>2, <3>1
  <2>3. ASSUME NEW i \in DOMAIN b, b[i] = sep
        PROVE  k + i \in DOMAIN s /\ s[k + i] = sep
    <3>1. i \in 1..Len(b) /\ k + i \in 1..(k + Len(b))
      BY <1>1, <2>1
    <3> QED BY <1>1, <2>1, <2>3, <3>1
  <2>4. k \in DOMAIN s /\ s[k] = sep
    BY <1>1, <2>1
  <2> HIDE DEF k
  <2> QED BY <2>2, <2>3, <2>4 DEF Places
<1> QED BY <1>5, <1>6, <1>7 DEF s, f, l

LEMMA JoinSplits ==
  ASSUME NEW a \in Seq(Words), NEW sep \in Words, NEW b \in Seq(Words)
  PROVE  LET s == Join(a, sep, b)
             l == LastPlace(s, sep)
         IN /\ ~Has(a, sep) => Preceding(s, sep) = a /\ Following(s, sep) = b
            /\ ~Has(b, sep) => SubSeq(s, 1, l - 1) = a /\ SubSeq(s, l + 1, Len(s)) = b
<1> DEFINE s == Join(a, sep, b)
           f == FirstPlace(s, sep)
           l == LastPlace(s, sep)
           k == Len(a) + 1
<1>1. SubSeq(s, 1, k - 1) = a /\ SubSeq(s, k + 1, Len(s)) = b
  <2>1. SubSeq(s, 1, Len(a)) = a /\ SubSeq(s, Len(a) + 2, Len(s)) = b
    BY JoinParts
  <2>2. k - 1 = Len(a) /\ k + 1 = Len(a) + 2
    OBVIOUS
  <2> HIDE DEF s, k
  <2> QED BY <2>1, <2>2, Zenon
<1>2. Has(s, sep) /\ (~Has(a, sep) => f = k) /\ (~Has(b, sep) => l = k)
  BY JoinPlaces, JoinHas
<1>3. /\ Preceding(s, sep) = SubSeq(s, 1, f - 1)
      /\ Following(s, sep) = SubSeq(s, f + 1, Len(s))
  BY <1>2 DEF Preceding, Following
<1> HIDE DEF s, f, l, k
<1>4. ~Has(a, sep) => Preceding(s, sep) = a /\ Following(s, sep) = b
  BY ONLY <1>1, <1>2, <1>3, Zenon
<1>5. ~Has(b, sep) => SubSeq(s, 1, l - 1) = a /\ SubSeq(s, l + 1, Len(s)) = b
  BY ONLY <1>1, <1>2, Zenon
<1> QED BY <1>4, <1>5, Zenon DEF s, l

LEMMA LastSplit ==
  ASSUME NEW s \in Seq(Words), NEW sep \in Words, Has(s, sep)
  PROVE  \E a, b \in Seq(Words) : s = Join(a, sep, b) /\ ~Has(b, sep)
<1> DEFINE k == LastPlace(s, sep)
           a == SubSeq(s, 1, k - 1)
           b == SubSeq(s, k + 1, Len(s))
<1>1. /\ k \in 1..Len(s) /\ s[k] = sep /\ \A i \in (k + 1)..Len(s) : s[i] # sep
      /\ Len(s) \in Nat
  BY PlacesFacts
<1> HIDE DEF k
<1>2. a \in Seq(Words) /\ Len(a) = k - 1 /\ \A i \in 1..(k - 1) : a[i] = s[i]
  BY <1>1
<1>3. b \in Seq(Words) /\ Len(b) = Len(s) - k /\ \A i \in 1..(Len(s) - k) : b[i] = s[k + i]
  BY <1>1
<1> HIDE DEF a, b
<1>4. ~Has(b, sep)
  <2>1. ASSUME NEW i \in 1..(Len(s) - k), b[i] = sep PROVE FALSE
    <3>1. k + i \in (k + 1)..Len(s) /\ s[k + i] = sep
      BY <1>1, <1>3, <2>1
    <3> QED BY <1>1, <3>1
  <2> QED BY <1>3, <2>1, HasFacts
<1> DEFINE t == Join(a, sep, b)
<1>5. Joins(t, a, sep, b)
  BY <1>2, <1>3, JoinElements
<1> HIDE DEF t
<1>6. /\ t \in Seq(Words) /\ Len(t) = Len(s)
      /\ \A i \in 1..Len(a) : t[i] = a[i]
      /\ t[Len(a) + 1] = sep
      /\ \A i \in 1..Len(b) : t[Len(a) + 1 + i] = b[i]
  BY <1>1, <1>2, <1>3, <1>5 DEF Joins
<1>7. ASSUME NEW i \in 1..Len(s) PROVE t[i] = s[i]
  <2>1. CASE i < k
    <3>1. i \in 1..(k - 1) /\ i \in 1..Len(a)
      BY <1>1, <1>2, <2>1
    <3> QED BY <1>2, <1>6, <3>1
  <2>2. CASE i = k
    <3>1. Len(a) + 1 = k
      BY <1>1, <1>2
    <3> QED BY <1>1, <1>6, <2>2, <3>1
  <2>3. CASE i > k
    <3>1. i - k \in 1..(Len(s) - k) /\ i - k \in 1..Len(b) /\ k + (i - k) = i
      BY <1>1, <1>3, <2>3
    <3>2. Len(a) + 1 + (i - k) = i
      BY <1>1, <1>2, <2>3
    <3> QED BY <1>3, <1>6, <3>1, <3>2
  <2> QED BY <1>1, <2>1, <2>2, <2>3
<1>8. t = s
  BY <1>6, <1>7, SeqEqual
<1> QED BY <1>2, <1>3, <1>4, <1>8 DEF t

Joined(x, y) == x \o y

LEMMA JoinedFacts ==
  ASSUME NEW x \in Seq(Words), NEW y \in Seq(Words), NEW z \in Seq(Words)
  PROVE  Joined(Joined(x, y), z) = Joined(x, Joined(y, z)) /\ Joined(x, y) \in Seq(Words)
<1>1. (x \o y) \o z = x \o (y \o z)
  BY ConcatAssociative
<1>2. x \o y \in Seq(Words)
  OBVIOUS
<1> QED BY <1>1, <1>2 DEF Joined

LEMMA JoinIsAssociative ==
  ASSUME NEW a \in Seq(Words), NEW b \in Seq(Words), NEW c \in Seq(Words),
         NEW v \in Words, NEW w \in Words
  PROVE  Join(Join(a, v, b), w, c) = Join(a, v, Join(b, w, c))
<1>1. PICK x \in Seq(Words) : x = <<v>>
  BY WordFacts
<1>2. PICK y \in Seq(Words) : y = <<w>>
  BY WordFacts
<1>3. Joined(Joined(Joined(Joined(a, x), b), y), c)
        = Joined(Joined(a, x), Joined(Joined(b, y), c))
  BY JoinedFacts
<1> QED BY ONLY <1>1, <1>2, <1>3, Zenon DEF Join, Joined

LEMMA ReplaceFacts ==
  ASSUME NEW s \in Seq(Words), NEW old \in Words, NEW new \in Words, old # new
  PROVE  LET t == Replace(s, old, new)
         IN /\ t \in Seq(Words) /\ ~Has(t, old)
            /\ \A c : c # new /\ Has(t, c) => Has(s, c)
            /\ ~Has(s, new) => Replace(t, new, old) = s
<1> DEFINE t == Replace(s, old, new)
<1>1. s \in [1..Len(s) -> Words] /\ Len(s) \in Nat /\ DOMAIN s = 1..Len(s)
  OBVIOUS
<1>2. t = [i \in 1..Len(s) |-> IF s[i] = old THEN new ELSE s[i]]
  BY <1>1 DEF Replace
<1> HIDE DEF t
<1>3. t \in [1..Len(s) -> Words]
  BY <1>1, <1>2
<1>4. t \in Seq(Words) /\ Len(t) = Len(s)
  BY <1>1, <1>3
<1>5. ~Has(t, old) /\ \A c : c # new /\ Has(t, c) => Has(s, c)
  <2>1. \A c : Has(t, c) <=> \E i \in 1..Len(s) : t[i] = c
    BY <1>4, HasFacts
  <2>2. \A c : Has(s, c) <=> \E i \in 1..Len(s) : s[i] = c
    BY HasFacts
  <2> QED BY <1>2, <2>1, <2>2
<1>6. ASSUME ~Has(s, new) PROVE Replace(t, new, old) = s
  <2>1. \A i \in 1..Len(s) : s[i] # new
    BY <1>6, HasFacts
  <2>2. Replace(t, new, old) = [i \in 1..Len(s) |-> IF t[i] = new THEN old ELSE t[i]]
    BY <1>3 DEF Replace
  <2>3. \A i \in 1..Len(s) : (IF t[i] = new THEN old ELSE t[i]) = s[i]
    BY <1>2, <2>1
  <2> QED BY <1>1, <2>2, <2>3
<1> QED BY <1>4, <1>5, <1>6 DEF t

\* A registry host as the store writes it, and the rest of a path below it.
Host(r) == /\ r \in Seq(Words) /\ ~Has(r, "/") /\ ~Has(r, "@")
           /\ IsRegistry(r) /\ r \notin HubAliases
Below(t) == t \in Seq(Words) /\ Has(t, "/") /\ ~Has(t, ":") /\ ~Has(t, "@")

LEMMA HubFacts ==
  /\ DockerHub \in Seq(Words) /\ ~Has(DockerHub, "/") /\ ~Has(DockerHub, "@")
  /\ Len(DockerHub) = 3 /\ IsRegistry(DockerHub) /\ DockerHub \notin HubAliases
  /\ <<"library", "/">> \in Seq(Words)
  /\ ~Has(<<"library", "/">>, ":") /\ ~Has(<<"library", "/">>, "@")
<1>1. /\ "docker" \in Words /\ "." \in Words /\ "io" \in Words
      /\ "library" \in Words /\ "/" \in Words
  BY DEF Words
<1>2. /\ DockerHub \in Seq(Words) /\ Len(DockerHub) = 3
      /\ DockerHub[1] = "docker" /\ DockerHub[2] = "." /\ DockerHub[3] = "io"
  BY <1>1 DEF DockerHub
<1>3. \A c : Has(DockerHub, c) <=> \E i \in 1..3 : DockerHub[i] = c
  BY <1>2, HasFacts
<1>4. Has(DockerHub, ".") /\ ~Has(DockerHub, "/") /\ ~Has(DockerHub, "@")
  BY <1>2, <1>3
<1>5. DockerHub \notin HubAliases
  <2>1. /\ Len(<<"index", ".">> \o DockerHub) = 5
        /\ Len(<<"registry-1", ".">> \o DockerHub) = 5
        /\ Len(<<"registry", ".", "hub", ".", "docker", ".", "com">>) = 7
    BY DEF DockerHub
  <2> QED BY <1>2, <2>1 DEF HubAliases
<1> DEFINE l == <<"library", "/">>
<1>6. l \in Seq(Words) /\ Len(l) = 2 /\ l[1] = "library" /\ l[2] = "/"
  BY <1>1
<1> HIDE DEF l
<1>7. \A c : Has(l, c) <=> \E i \in 1..2 : l[i] = c
  BY <1>6, HasFacts
<1>8. ~Has(l, ":") /\ ~Has(l, "@")
  BY <1>6, <1>7
<1> QED BY <1>2, <1>4, <1>5, <1>6, <1>8 DEF IsRegistry, l

\* The path of an input that has at most one "@".
LEMMA PathOfInput ==
  ASSUME NEW s \in Seq(Words), \A i, j \in Places(s, "@") : i = j
  PROVE  \E r, t : Host(r) /\ Below(t) /\ RefPath(Parse(s)) = Join(r, "/", t)
<1> DEFINE ref == Parse(s)
           name == Preceding(s, "@")
           first == Preceding(name, "/")
           named == Has(name, "/") /\ IsRegistry(first)
           host == IF named THEN first ELSE DockerHub
           rest == IF named THEN Following(name, "/") ELSE name
           part == Preceding(rest, ":")
           tag == IF Has(rest, ":") THEN Following(rest, ":") ELSE Latest
           digest == IF Has(s, "@") THEN Following(s, "@") ELSE NoDigest
<1>1. /\ "/" \in Words /\ ":" \in Words /\ "_" \in Words /\ "." \in Words
      /\ "latest" \in Words /\ "library" \in Words
  BY DEF Words
<1>2. /\ ref.registry = IF host \in HubAliases THEN DockerHub ELSE host
      /\ ref.repository = WithLibrary(host, part)
      /\ ref.tag = tag /\ ref.digest = digest
  BY DEF Parse
<1>3. name \in Seq(Words) /\ ~Has(name, "@")
  BY SplitFacts
<1> HIDE DEF name
<1>4. /\ first \in Seq(Words) /\ ~Has(first, "/") /\ ~Has(first, "@")
      /\ Has(name, "/") => Following(name, "/") \in Seq(Words) /\ ~Has(Following(name, "/"), "@")
  BY <1>3, SplitFacts
<1>5. /\ DockerHub \in Seq(Words) /\ ~Has(DockerHub, "/") /\ ~Has(DockerHub, "@")
      /\ IsRegistry(DockerHub) /\ DockerHub \notin HubAliases
  BY HubFacts
<1> HIDE DEF first
<1>6. /\ host \in Seq(Words) /\ ~Has(host, "/") /\ ~Has(host, "@") /\ IsRegistry(host)
      /\ rest \in Seq(Words) /\ ~Has(rest, "@")
  BY <1>3, <1>4, <1>5
<1> HIDE DEF host, rest
<1>7. Host(ref.registry)
  BY <1>2, <1>5, <1>6 DEF Host
<1>8. part \in Seq(Words) /\ ~Has(part, ":") /\ ~Has(part, "@")
  BY <1>6, SplitFacts
<1> HIDE DEF part
<1>9. ref.repository \in Seq(Words) /\ ~Has(ref.repository, ":") /\ ~Has(ref.repository, "@")
  <2>1. /\ <<"library", "/">> \in Seq(Words)
        /\ ~Has(<<"library", "/">>, ":") /\ ~Has(<<"library", "/">>, "@")
    BY HubFacts
  <2>2. /\ <<"library", "/">> \o part \in Seq(Words)
        /\ ~Has(<<"library", "/">> \o part, ":") /\ ~Has(<<"library", "/">> \o part, "@")
    BY <1>8, <2>1, ConcatFacts
  <2> QED BY <1>2, <1>8, <2>2 DEF WithLibrary
<1>10. tag \in Seq(Words) /\ ~Has(tag, "@")
  <2>1. Latest \in Seq(Words) /\ ~Has(Latest, "@")
    <3>1. \A w \in Words : <<w>> \in Seq(Words) /\ (Has(<<w>>, "@") <=> w = "@")
      BY WordFacts
    <3>2. "latest" \in Words /\ "latest" # "@"
      BY <1>1
    <3> QED BY <3>1, <3>2 DEF Latest
  <2> QED BY <1>6, <2>1, SplitFacts
<1>11. digest \in Seq(Words) /\ ~Has(digest, "@")
  <2>1. NoDigest \in Seq(Words) /\ ~Has(NoDigest, "@")
    BY DEF NoDigest, Has, Places
  <2> QED BY <2>1, SplitFacts
<1> HIDE DEF tag, digest
<1> DEFINE chosen == IF ref.digest = NoDigest THEN ref.tag ELSE ref.digest
<1>12. chosen \in Seq(Words) /\ ~Has(chosen, "@")
  BY <1>2, <1>10, <1>11
<1>13. FileName(ref) = Replace(chosen, ":", "_")
  BY DEF FileName
<1> HIDE DEF chosen
<1>14. FileName(ref) \in Seq(Words) /\ ~Has(FileName(ref), ":") /\ ~Has(FileName(ref), "@")
  <2>1. LET f == Replace(chosen, ":", "_")
        IN f \in Seq(Words) /\ ~Has(f, ":") /\ \A c : c # "_" /\ Has(f, c) => Has(chosen, c)
    BY <1>1, <1>12, ReplaceFacts
  <2> QED BY <1>12, <1>13, <2>1
<1>15. PICK r \in Seq(Words), p \in Seq(Words), file \in Seq(Words) :
         r = ref.registry /\ p = ref.repository /\ file = FileName(ref)
  BY <1>7, <1>9, <1>14, Zenon DEF Host
<1>16. ~Has(p, ":") /\ ~Has(p, "@") /\ ~Has(file, ":") /\ ~Has(file, "@")
  BY <1>9, <1>14, <1>15
<1>17. RefPath(ref) = Join(Join(r, "/", p), "/", file)
  BY <1>15, Zenon DEF RefPath, Join
<1>18. PICK t : t = Join(p, "/", file)
  OBVIOUS
<1>19. t \in Seq(Words) /\ \A c : Has(t, c) <=> Has(p, c) \/ Has(file, c) \/ c = "/"
  BY <1>1, <1>18, JoinElements, JoinHas DEF Joins
<1>20. Below(t)
  BY <1>16, <1>19 DEF Below
<1>21. Join(Join(r, "/", p), "/", file) = Join(r, "/", t)
  <2>1. Join(Join(r, "/", p), "/", file) = Join(r, "/", Join(p, "/", file))
    <3>1. "/" \in Words
      BY SeparatorsAreWords
    <3> QED
      BY ONLY <3>1, r \in Seq(Words), p \in Seq(Words), file \in Seq(Words), JoinIsAssociative
  <2> QED BY ONLY <1>18, <2>1, Zenon
<1>22. RefPath(ref) = Join(r, "/", t)
  BY ONLY <1>17, <1>21, Zenon
<1> QED BY <1>7, <1>15, <1>20, <1>22, Zenon

\* The name listed for a path, and what it is parsed into.
LEMMA ListedName ==
  ASSUME NEW r \in Seq(Words), NEW m \in Seq(Words), NEW file \in Seq(Words), ~Has(file, "/")
  PROVE  Listed(Join(Join(r, "/", m), "/", file))
           = Join(r, "/", Join(m, ":", Replace(file, "_", ":")))
<1>0. PICK p : p = Join(Join(r, "/", m), "/", file)
  OBVIOUS
<1>1. "/" \in Words /\ ":" \in Words
  BY SeparatorsAreWords
<1>2. PICK dir : dir = Join(r, "/", m)
  OBVIOUS
<1>3. dir \in Seq(Words)
  BY <1>1, <1>2, JoinElements DEF Joins
<1>4. /\ SubSeq(p, 1, LastPlace(p, "/") - 1) = dir
      /\ SubSeq(p, LastPlace(p, "/") + 1, Len(p)) = file
  BY <1>0, <1>1, <1>2, <1>3, JoinSplits
<1>5. PICK tag : tag = Replace(file, "_", ":")
  OBVIOUS
<1>6. tag \in Seq(Words)
  BY <1>1, <1>5, SeparatorsAreWords, ReplaceFacts
<1>7. Listed(p) = Join(dir, ":", tag)
  BY <1>4, <1>5, Zenon DEF Listed, Join
<1>8. Join(Join(r, "/", m), ":", tag) = Join(r, "/", Join(m, ":", tag))
  BY ONLY <1>1, <1>6, r \in Seq(Words), m \in Seq(Words), JoinIsAssociative
<1> QED BY ONLY <1>0, <1>2, <1>5, <1>7, <1>8, Zenon

LEMMA ParsedName ==
  ASSUME NEW r, Host(r), NEW m \in Seq(Words), NEW tag \in Seq(Words),
         ~Has(m, ":"), ~Has(m, "@"), ~Has(tag, "@")
  PROVE  Parse(Join(r, "/", Join(m, ":", tag)))
           = [registry |-> r, repository |-> WithLibrary(r, m), tag |-> tag,
              digest |-> NoDigest]
<1>1. "/" \in Words /\ ":" \in Words
  BY DEF Words
<1>2. r \in Seq(Words) /\ ~Has(r, "/") /\ ~Has(r, "@") /\ IsRegistry(r) /\ r \notin HubAliases
  BY DEF Host
<1>3. PICK own : own = Join(m, ":", tag)
  OBVIOUS
<1>4. own \in Seq(Words) /\ \A c : Has(own, c) <=> Has(m, c) \/ Has(tag, c) \/ c = ":"
  BY <1>1, <1>3, JoinElements, JoinHas DEF Joins
<1>5. Preceding(own, ":") = m /\ Following(own, ":") = tag
  BY <1>1, <1>3, JoinSplits
<1>0. PICK named : named = Join(r, "/", own)
  OBVIOUS
<1>6. \A c : Has(named, c) <=> Has(r, c) \/ Has(own, c) \/ c = "/"
  BY <1>0, <1>1, <1>2, <1>4, JoinHas
<1>7. Preceding(named, "/") = r /\ Following(named, "/") = own
  BY <1>0, <1>1, <1>2, <1>4, JoinSplits
<1>8. Preceding(named, "@") = named /\ ~Has(named, "@")
  BY <1>2, <1>4, <1>6 DEF Preceding
<1>9. Has(named, "/") /\ Has(own, ":")
  BY <1>4, <1>6
<1>10. Parse(named) = [registry |-> r, repository |-> WithLibrary(r, m), tag |-> tag,
                        digest |-> NoDigest]
  BY <1>2, <1>5, <1>7, <1>8, <1>9 DEF Parse
<1> QED BY ONLY <1>0, <1>3, <1>10, Zenon

\* A path below Docker Hub with two separators is of a repository without a namespace.
LEMMA TwoPlaces ==
  ASSUME NEW r, r = DockerHub, NEW m \in Seq(Words), NEW file \in Seq(Words),
         ~Has(m, "/"), ~Has(file, "/"),
         NEW t, t = Join(m, "/", file), NEW p, p = Join(r, "/", t)
  PROVE  NoLibrary(p)
<1>1. /\ "/" \in Words /\ r \in Seq(Words) /\ Len(r) = 3 /\ ~Has(r, "/")
      /\ Len(m) \in Nat /\ Len(file) \in Nat
  <2>1. r \in Seq(Words) /\ Len(r) = 3 /\ ~Has(r, "/")
    BY ONLY r = DockerHub, HubFacts, Zenon
  <2>2. Len(m) \in Nat /\ Len(file) \in Nat
    BY ONLY m \in Seq(Words), file \in Seq(Words)
  <2> QED BY <2>1, <2>2, SeparatorsAreWords
<1>2. Joins(Join(m, "/", file), m, "/", file)
  BY ONLY <1>1, m \in Seq(Words), file \in Seq(Words), JoinElements
<1>3. t \in Seq(Words) /\ Len(t) = Len(m) + 1 + Len(file)
  BY ONLY <1>2, t = Join(m, "/", file) DEF Joins
<1>4. Joins(Join(r, "/", t), r, "/", t)
  BY ONLY <1>1, <1>3, JoinElements
<1>5. Len(p) = 3 + 1 + Len(t)
  BY ONLY <1>1, <1>4, p = Join(r, "/", t) DEF Joins
<1>6. Places(t, "/") = {Len(m) + 1} \cup {Len(m) + 1 + i : i \in Places(file, "/")}
  BY ONLY <1>1, m \in Seq(Words), file \in Seq(Words), ~Has(m, "/"),
          t = Join(m, "/", file), JoinPlaces
<1>7. Places(p, "/") = {Len(r) + 1} \cup {Len(r) + 1 + i : i \in Places(t, "/")}
  BY ONLY <1>1, <1>3, p = Join(r, "/", t), JoinPlaces
<1>8. Places(file, "/") = {}
  BY DEF Has
<1>9. Places(t, "/") = {Len(m) + 1}
  BY ONLY <1>6, <1>8
<1>10. Places(p, "/") = {4} \cup {4 + (Len(m) + 1)}
  <2>1. Len(r) + 1 = 4
    BY <1>1
  <2>2. Places(p, "/") = {4} \cup {4 + i : i \in {Len(m) + 1}}
    BY ONLY <1>7, <1>9, <2>1, Zenon
  <2>3. {4 + i : i \in {Len(m) + 1}} = {4 + (Len(m) + 1)}
    BY Zenon
  <2> QED BY ONLY <2>2, <2>3, Zenon
<1>11. Cardinality(Places(p, "/")) = 2
  <2>1. IsFiniteSet({4}) /\ Cardinality({4}) = 1
    BY FS_Singleton
  <2>2. 4 + (Len(m) + 1) \notin {4}
    BY ONLY <1>1
  <2>3. Cardinality({4} \cup {4 + (Len(m) + 1)}) = Cardinality({4}) + 1
    BY ONLY <2>1, <2>2, FS_AddElement
  <2>4. Cardinality(Places(p, "/")) = Cardinality({4}) + 1
    BY ONLY <1>10, <2>3, Zenon
  <2> QED BY ONLY <2>1, <2>4
<1>12. SubSeq(p, 1, 3) = DockerHub
  <2>1. SubSeq(Join(r, "/", t), 1, Len(r)) = r
    BY ONLY <1>1, <1>3, JoinParts
  <2> QED BY ONLY <1>1, <2>1, p = Join(r, "/", t), r = DockerHub, Zenon
<1>13. Len(p) > 4
  BY ONLY <1>1, <1>3, <1>5
<1> QED BY <1>11, <1>12, <1>13 DEF NoLibrary

\* The name listed for such a path is parsed back to it, but for a repository of
\* Docker Hub without a namespace.
LEMMA ListedIsParsedBack ==
  ASSUME NEW r, NEW t, Host(r), Below(t), NEW p, p = Join(r, "/", t), ~NoLibrary(p)
  PROVE  RefPath(Parse(Listed(p))) = p
<1>1. /\ "/" \in Words /\ ":" \in Words /\ "_" \in Words /\ ":" # "_"
  BY DEF Words
<1>2. /\ r \in Seq(Words) /\ ~Has(r, "/") /\ ~Has(r, "@") /\ IsRegistry(r) /\ r \notin HubAliases
      /\ t \in Seq(Words) /\ Has(t, "/") /\ ~Has(t, ":") /\ ~Has(t, "@")
  BY DEF Host, Below
<1>3. PICK m \in Seq(Words), file \in Seq(Words) : t = Join(m, "/", file) /\ ~Has(file, "/")
  BY <1>1, <1>2, LastSplit
<1>4. \A c : Has(t, c) <=> Has(m, c) \/ Has(file, c) \/ c = "/"
  BY <1>1, <1>3, JoinHas
<1>5. ~Has(m, ":") /\ ~Has(m, "@") /\ ~Has(file, ":") /\ ~Has(file, "@")
  BY <1>2, <1>4
<1>6. PICK tag : tag = Replace(file, "_", ":")
  OBVIOUS
<1>7. tag \in Seq(Words) /\ Replace(tag, ":", "_") = file /\ ~Has(tag, "@")
  <2>1. LET f == Replace(file, "_", ":")
        IN /\ f \in Seq(Words)
           /\ \A c : c # ":" /\ Has(f, c) => Has(file, c)
           /\ ~Has(file, ":") => Replace(f, ":", "_") = file
    BY <1>1, ReplaceFacts
  <2> QED BY <1>5, <1>6, <2>1
<1>8. p = Join(Join(r, "/", m), "/", file)
  <2>1. Join(Join(r, "/", m), "/", file) = Join(r, "/", Join(m, "/", file))
    <3>1. "/" \in Words
      BY SeparatorsAreWords
    <3> QED
      BY ONLY <1>2, <3>1, m \in Seq(Words), file \in Seq(Words), JoinIsAssociative
  <2> QED BY ONLY <1>3, <2>1, p = Join(r, "/", t), Zenon
<1>9. PICK named : named = Join(r, "/", Join(m, ":", tag))
  OBVIOUS
<1>10. Listed(p) = named
  <2>1. Listed(Join(Join(r, "/", m), "/", file))
          = Join(r, "/", Join(m, ":", Replace(file, "_", ":")))
    BY ONLY <1>2, <1>3, m \in Seq(Words), file \in Seq(Words), ListedName, ZenonT(60)
  <2> QED BY ONLY <1>6, <1>8, <1>9, <2>1, Zenon
<1>11. WithLibrary(r, m) = m
  <2>1. ~(r = DockerHub /\ ~Has(m, "/"))
    BY <1>3, TwoPlaces
  <2> QED BY <2>1 DEF WithLibrary
<1>12. Parse(named) = [registry |-> r, repository |-> m, tag |-> tag, digest |-> NoDigest]
  <2>1. Parse(Join(r, "/", Join(m, ":", tag)))
          = [registry |-> r, repository |-> WithLibrary(r, m), tag |-> tag, digest |-> NoDigest]
    BY ONLY Host(r), <1>5, <1>7, m \in Seq(Words), ParsedName
  <2> QED BY ONLY <1>9, <1>11, <2>1, Zenon
<1>13. /\ Parse(named).registry = r /\ Parse(named).repository = m
       /\ Parse(named).digest = NoDigest /\ Parse(named).tag = tag
  BY <1>12
<1>14. FileName(Parse(named)) = file
  BY <1>7, <1>13, Zenon DEF FileName
<1>15. RefPath(Parse(named)) = Join(Join(r, "/", m), "/", file)
  BY <1>13, <1>14, Zenon DEF RefPath, Join
<1> QED BY ONLY <1>8, <1>10, <1>15, Zenon

\* Every file of references is at the path of an input.
FilesAreNamed == \A p \in DOMAIN refs : \E s \in Inputs : p = RefPath(Parse(s))

\* What `qbuild ls` prints resolves, but for a Docker Hub image stored without its
\* "library/", whatever the inputs are that commands name; an input has one digest at
\* most, no digest has an "@".
THEOREM NamesResolve ==
  ASSUME \A s \in Inputs : \A i, j \in Places(s, "@") : i = j
  PROVE  NamesSpec => []ListedNamesResolve
<1>1. NamesInit => FilesAreNamed
  BY DEF NamesInit, FilesAreNamed
<1>2. FilesAreNamed /\ [NamesNext]_nameVars => FilesAreNamed'
  <2> SUFFICES ASSUME FilesAreNamed, [NamesNext]_nameVars PROVE FilesAreNamed'
    OBVIOUS
  <2>1. ASSUME NEW s \in Inputs, NEW d \in Digests, StoreImageRef(s, d) PROVE FilesAreNamed'
    BY <2>1 DEF StoreImageRef, FilesAreNamed
  <2>2. CASE UNCHANGED refs
    BY <2>2 DEF FilesAreNamed
  <2> QED BY <2>1, <2>2 DEF NamesNext, StoreFails, nameVars
<1>3. FilesAreNamed => ListedNamesResolve
  <2> SUFFICES ASSUME FilesAreNamed, NEW p \in DOMAIN refs, ~NoLibrary(p)
               PROVE  Resolve(Listed(p)) = {refs[p]}
    BY DEF ListedNamesResolve
  <2>1. PICK s \in Inputs : p = RefPath(Parse(s))
    BY DEF FilesAreNamed
  <2>2. s \in Seq(Words)
    <3>1. s \in Seq(STRING)
      BY InputsAreStrings
    <3>2. STRING \subseteq Words
      BY DEF Words
    <3> QED BY <3>1, <3>2, SeqMonotonic
  <2>3. PICK r, t : Host(r) /\ Below(t) /\ p = Join(r, "/", t)
    BY <2>1, <2>2, PathOfInput
  <2>4. RefPath(Parse(Listed(p))) = p
    BY <2>3, ListedIsParsedBack
  <2> QED BY <2>4 DEF Resolve
<1> QED BY <1>1, <1>2, <1>3, PTL DEF NamesSpec
=============================================================================
