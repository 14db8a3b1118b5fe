--------------------------- MODULE LayerCacheProofs ---------------------------
(***************************************************************************)
(* Proofs about LayerCache, for any number of extractors and rounds.       *)
(***************************************************************************)
EXTENDS LayerCache, TLAPS

LEMMA DirFacts ==
    /\ OldDir \in Dirs /\ NoDir \notin Dirs /\ OldDir # NoDir
    /\ \A e \in Extractors, n \in 1..Rounds :
          NewDir(e, n) \in Dirs /\ NewDir(e, n) # OldDir /\ NewDir(e, n) # NoDir
BY DEF OldDir, NoDir, NewDir, Dirs

\* An extractor that is past Begin has begun a round.
InRound == \A e \in Extractors : pc[e] # "idle" => round[e] # 0

TypeInv == TypeOK /\ InRound

\* The directory extractor e extracts to.
Own(e) == NewDir(e, round[e])

LEMMA OwnFacts ==
    ASSUME TypeInv, NEW e \in Extractors, pc[e] # "idle"
    PROVE  Own(e) \in Dirs /\ Own(e) # OldDir /\ Own(e) # NoDir
<1>1. round[e] \in 1..Rounds
  BY BoundAssumption DEF TypeInv, TypeOK, InRound
<1> QED
  BY <1>1, DirFacts DEF Own

LEMMA TypeInit == Init => TypeInv
<1> SUFFICES ASSUME Init PROVE TypeInv
  OBVIOUS
<1>1. dir \in Dirs \cup {NoDir}
  BY DirFacts DEF Init
<1>2. files \in [Dirs -> {"none", "part", "all"}]
  BY DEF Init
<1>3. 0 \in 0..Rounds
  BY BoundAssumption
<1> QED
  BY <1>1, <1>2, <1>3 DEF Init, TypeInv, TypeOK, InRound, Steps

LEMMA TypeStep == TypeInv /\ [Next]_vars => TypeInv'
<1> SUFFICES ASSUME TypeInv, [Next]_vars PROVE TypeInv'
  OBVIOUS
<1> USE DEF TypeInv, TypeOK, InRound, Steps, Goto
<1>1. ASSUME NEW e \in Extractors, Begin(e) PROVE TypeInv'
  <2>1. round[e] + 1 \in 0..Rounds /\ round[e] + 1 # 0
    BY <1>1, BoundAssumption DEF Begin
  <2> QED
    BY <1>1, <2>1 DEF Begin, setting, disk
<1>2. ASSUME NEW e \in Extractors,
             Recall(e) \/ Look(e) \/ Verify(e) \/ Reuse(e) \/ Judge(e) \/ Record(e)
             \/ Release(e) \/ Crash(e)
      PROVE  TypeInv'
  <2>1. CASE Recall(e) \/ Look(e) \/ Verify(e) \/ Reuse(e)
    BY <2>1 DEF Recall, Look, Verify, Reuse, setting, disk
  <2>2. CASE Judge(e) \/ Record(e) \/ Release(e) \/ Crash(e)
    BY <2>2 DEF Judge, Record, Release, Crash, setting, disk
  <2> QED
    BY <1>2, <2>1, <2>2
<1>3. ASSUME NEW e \in Extractors, OpenDir(e) PROVE TypeInv'
  BY <1>3 DEF OpenDir, RemovalFailed, setting, disk
<1>4. ASSUME NEW e \in Extractors, Unlink(e) PROVE TypeInv'
  BY <1>4 DEF Unlink, setting
<1>5. ASSUME NEW e \in Extractors, RemoveDir(e) PROVE TypeInv'
  BY <1>5 DEF RemoveDir, Removed, RemovalFailed, setting
<1>6. ASSUME NEW e \in Extractors, Extract(e) PROVE TypeInv'
  <2>1. Own(e) \in Dirs
    BY <1>6, OwnFacts DEF Extract
  <2> QED
    BY <1>6, <2>1 DEF Extract, Own, setting
<1>7. ASSUME NEW e \in Extractors, Rename(e) PROVE TypeInv'
  <2>1. Own(e) \in Dirs
    BY <1>7, OwnFacts DEF Rename
  <2> QED
    BY <1>7, <2>1 DEF Rename, Own, setting
<1>8. CASE UNCHANGED vars
  BY <1>8 DEF vars, setting, disk
<1> QED
  BY <1>1, <1>2, <1>3, <1>4, <1>5, <1>6, <1>7, <1>8 DEF Next

LEMMA TypeInvariant == Spec => []TypeInv
BY TypeInit, TypeStep, PTL DEF Spec

\* Every directory, and what each extractor has opened, is always of its type:
\* a removal that goes on always has a directory it opened.
THEOREM CacheTypeCorrect == Spec => []TypeOK
<1>1. TypeInv => TypeOK
  BY DEF TypeInv
<1> QED
  BY TypeInvariant, <1>1, PTL

-----------------------------------------------------------------------------
(***************************************************************************)
(* The remover of a torn layer.                                            *)
(***************************************************************************)

\* Extractor e has opened directory d to remove it, and may have died since.
Removes(e, d) == pc[e] \in {"unlink", "dead"} /\ removing[e] = d

\* TornLayerHasRemover of every directory, wherever it is: a rename may bring
\* any of them to the path.
TornIsRemoved == \A d \in Dirs :
    marker[d] /\ files[d] # "all" => \E e \in Extractors : Removes(e, d)

LEMMA TornInit == Init => TornIsRemoved
BY DEF Init, TornIsRemoved

LEMMA TornStep == TypeInv /\ TornIsRemoved /\ [Next]_vars => TornIsRemoved'
<1> SUFFICES ASSUME TypeInv, TornIsRemoved, [Next]_vars PROVE TornIsRemoved'
  OBVIOUS
<1>1. ASSUME UNCHANGED <<files, marker>>,
             \A e \in Extractors, d \in Dirs : Removes(e, d) => Removes(e, d)'
      PROVE  TornIsRemoved'
  BY <1>1 DEF TornIsRemoved
<1>2. ASSUME NEW e \in Extractors,
             Begin(e) \/ Recall(e) \/ Look(e) \/ Verify(e) \/ RemoveDir(e) \/ Rename(e)
             \/ Reuse(e) \/ Judge(e) \/ Record(e) \/ Release(e) \/ Crash(e)
      PROVE  TornIsRemoved'
  <2>1. UNCHANGED <<files, marker>>
    BY <1>2 DEF Begin, Recall, Look, Verify, RemoveDir, Rename, Reuse, Judge, Record,
                Release, Crash, disk
  <2>2. \A f \in Extractors \ {e} : pc'[f] = pc[f] /\ removing'[f] = removing[f]
    <3>1. CASE Begin(e) \/ Recall(e) \/ Look(e) \/ Verify(e) \/ Reuse(e)
      BY <3>1 DEF Begin, Recall, Look, Verify, Reuse, Goto, TypeInv, TypeOK
    <3>2. CASE RemoveDir(e)
      BY <3>2 DEF RemoveDir, Removed, RemovalFailed, Goto, TypeInv, TypeOK
    <3>3. CASE Rename(e) \/ Judge(e) \/ Record(e) \/ Release(e) \/ Crash(e)
      BY <3>3 DEF Rename, Judge, Record, Release, Crash, Goto, TypeInv, TypeOK
    <3> QED
      BY <1>2, <3>1, <3>2, <3>3
  <2>3. \A d \in Dirs : Removes(e, d) => Removes(e, d)'
    <3>1. CASE Crash(e)
      BY <3>1 DEF Crash, Goto, Removes, TypeInv, TypeOK
    <3>2. CASE ~Crash(e)
      BY <1>2, <3>2 DEF Begin, Recall, Look, Verify, RemoveDir, Rename, Reuse, Judge,
                        Record, Release, Removes
    <3> QED
      BY <3>1, <3>2
  <2> QED
    BY <1>1, <2>1, <2>2, <2>3 DEF Removes
<1>3. ASSUME NEW e \in Extractors, OpenDir(e) PROVE TornIsRemoved'
  <2>1. UNCHANGED <<files, marker>>
    BY <1>3 DEF OpenDir, disk
  <2>2. \A f \in Extractors \ {e} : pc'[f] = pc[f] /\ removing'[f] = removing[f]
    BY <1>3 DEF OpenDir, RemovalFailed, Goto, TypeInv, TypeOK
  <2>3. pc[e] = "clear"
    BY <1>3 DEF OpenDir
  <2> QED
    BY <1>1, <2>1, <2>2, <2>3 DEF Removes
<1>4. ASSUME NEW e \in Extractors, Unlink(e) PROVE TornIsRemoved'
  <2> DEFINE d == removing[e]
  <2>1. d \in Dirs /\ pc[e] = "unlink" /\ UNCHANGED removing
    BY <1>4 DEF Unlink, TypeInv, TypeOK
  <2>2. CASE Empty(d)
    <3>1. UNCHANGED <<files, marker>> /\ pc' = [pc EXCEPT ![e] = "rmdir"]
      BY <1>4, <2>2 DEF Unlink, Empty, Goto
    <3>2. ASSUME NEW t \in Dirs, marker[t], files[t] # "all"
          PROVE  \E f \in Extractors : Removes(f, t)'
      <4>1. PICK f \in Extractors : Removes(f, t)
        BY <3>2 DEF TornIsRemoved
      <4>2. f # e
        BY <2>2, <3>2, <4>1 DEF Removes, Empty
      <4> QED
        BY <2>1, <3>1, <4>1, <4>2 DEF Removes, TypeInv, TypeOK
    <3> QED
      BY <3>1, <3>2 DEF TornIsRemoved
  <2>3. CASE ~Empty(d)
    <3>1. UNCHANGED pc
      BY <1>4, <2>3 DEF Unlink
    <3>2. \A t \in Dirs \ {d} : files'[t] = files[t] /\ marker'[t] = marker[t]
      BY <1>4, <2>1 DEF Unlink, TypeInv, TypeOK
    <3> QED
      BY <2>1, <3>1, <3>2 DEF TornIsRemoved, Removes
  <2> QED
    BY <2>2, <2>3
<1>5. ASSUME NEW e \in Extractors, Extract(e) PROVE TornIsRemoved'
  <2>1. /\ UNCHANGED removing
        /\ \A t \in Dirs : \/ files'[t] = files[t] /\ marker'[t] = marker[t]
                           \/ files'[t] = "all"
    BY <1>5 DEF Extract, TypeInv, TypeOK
  <2>2. pc[e] = "extract" /\ \A f \in Extractors \ {e} : pc'[f] = pc[f]
    BY <1>5 DEF Extract, Goto, TypeInv, TypeOK
  <2> QED
    BY <2>1, <2>2 DEF TornIsRemoved, Removes
<1>6. CASE UNCHANGED vars
  BY <1>6 DEF vars, disk, TornIsRemoved, Removes
<1> QED
  BY <1>2, <1>3, <1>4, <1>5, <1>6 DEF Next

\* However many extractors race the removal of an unready directory: what looks
\* ready and is not whole is being removed, or was when its remover died.
THEOREM TornLayersHaveRemovers == Spec => []TornLayerHasRemover
<1>1. TypeInv /\ TornIsRemoved => TornLayerHasRemover
  BY DEF TypeInv, TypeOK, TornIsRemoved, Removes, TornLayerHasRemover, Ready
<1> QED
  BY TypeInvariant, TornInit, TornStep, <1>1, PTL DEF Spec

-----------------------------------------------------------------------------
(***************************************************************************)
(* The abstract cache.                                                     *)
(***************************************************************************)

\* What a removal that died left is still at the path.
Unready == turns /\ dir = OldDir /\ ~marker[OldDir]

\* At the path is nothing, the whole layer, or what was unready all along.
PathIsSettled == dir = NoDir \/ Available \/ Unready

Solo == turns => \A e, f \in Extractors : e = f \/ pc[e] \in AtRest \/ pc[f] \in AtRest

\* What extractor e may conclude from the step it is at.
StepFits(e) ==
    /\ pc[e] = "verify" => dir # NoDir
    /\ pc[e] \in {"reuse", "record", "using"} => Available
    /\ pc[e] \in {"clear", "unlink", "rmdir"} => Unready
    /\ pc[e] \in {"unlink", "rmdir"} => removing[e] = OldDir
    /\ pc[e] = "rmdir" => Empty(OldDir)
    /\ pc[e] \in {"extract", "rename"} /\ turns => dir = NoDir
    /\ pc[e] = "rename" => marker[Own(e)] /\ files[Own(e)] = "all"
    /\ pc[e] \notin {"judge", "lost"}
    /\ ~retried[e]

ServedInv == PathIsSettled /\ Solo /\ \A e \in Extractors : StepFits(e)

LEMMA ServedInit == Init /\ Settled => ServedInv
<1> SUFFICES ASSUME Init, Settled PROVE ServedInv
  OBVIOUS
<1>1. PathIsSettled
  BY DirFacts DEF Init, Settled, PathIsSettled, Available, Ready, Unready
<1>2. Solo /\ \A e \in Extractors : StepFits(e)
  BY DEF Init, Solo, AtRest, StepFits
<1> QED
  BY <1>1, <1>2 DEF ServedInv

\* Nothing of another extractor changes.
OnlyOf(e) == \A f \in Extractors \ {e} :
    /\ pc'[f] = pc[f]
    /\ round'[f] = round[f]
    /\ removing'[f] = removing[f]
    /\ retried'[f] = retried[f]

\* A step that leaves the disk alone need fit only its own extractor.
LEMMA LocalStep ==
    ASSUME ServedInv, NEW e \in Extractors, OnlyOf(e), UNCHANGED <<setting, disk>>,
           pc'[e] \in AtRest \/ pc[e] \notin AtRest, StepFits(e)'
    PROVE  ServedInv'
<1>1. PathIsSettled'
  BY DEF ServedInv, PathIsSettled, Available, Ready, Unready, setting, disk
<1>2. Solo'
  BY DEF ServedInv, Solo, OnlyOf, setting
<1>3. ASSUME NEW f \in Extractors \ {e} PROVE StepFits(f)'
  BY DEF ServedInv, StepFits, OnlyOf, Unready, Available, Ready, Empty, Own, setting, disk
<1> QED
  BY <1>1, <1>2, <1>3 DEF ServedInv

\* An extractor that is neither at rest nor racing is the only one that could
\* rely on what is at the path.
LEMMA OthersRest ==
    ASSUME ServedInv, turns, NEW e \in Extractors, pc[e] \notin AtRest, ~Available
    PROVE  \A f \in Extractors \ {e} : pc[f] \in {"idle", "broken", "dead"}
BY DEF ServedInv, Solo, StepFits, AtRest

LEMMA ServedStep == TypeInv /\ ServedInv /\ Settled /\ Next => ServedInv'
<1> SUFFICES ASSUME TypeInv, ServedInv, Settled, NEW e \in Extractors,
                    Begin(e) \/ Recall(e) \/ Look(e) \/ Verify(e)
                    \/ OpenDir(e) \/ Unlink(e) \/ RemoveDir(e)
                    \/ Extract(e) \/ Rename(e) \/ Reuse(e) \/ Judge(e) \/ Record(e)
                    \/ Release(e) \/ Crash(e)
             PROVE  ServedInv'
  BY DEF Next
<1>1. /\ StepFits(e) /\ PathIsSettled /\ Solo
  BY DEF ServedInv
<1>2. CASE Begin(e)
  <2>1. OnlyOf(e) /\ UNCHANGED <<setting, disk>>
    BY <1>2 DEF Begin, Goto, OnlyOf, TypeInv, TypeOK
  <2>2. pc'[e] \in {"recall", "look"} /\ ~retried'[e]
    BY <1>1, <1>2 DEF Begin, Goto, TypeInv, TypeOK, StepFits
  <2>3. StepFits(e)'
    BY <2>2 DEF StepFits
  <2>4. Solo'
    BY <1>2, <2>1 DEF Begin, Solo, OnlyOf, setting
  <2>5. PathIsSettled'
    BY <1>1, <2>1 DEF PathIsSettled, Available, Ready, Unready, setting, disk
  <2>6. ASSUME NEW f \in Extractors \ {e} PROVE StepFits(f)'
    BY <2>1 DEF ServedInv, StepFits, OnlyOf, Unready, Available, Ready, Empty, Own,
                setting, disk
  <2> QED
    BY <2>3, <2>4, <2>5, <2>6 DEF ServedInv
<1>3. CASE Recall(e)
  <2>1. OnlyOf(e) /\ UNCHANGED <<setting, disk>> /\ ~retried'[e] /\ pc[e] = "recall"
    BY <1>1, <1>3 DEF Recall, Goto, OnlyOf, TypeInv, TypeOK, StepFits
  <2>2. pc'[e] = "look" \/ (pc'[e] = "using" /\ Ready)
    BY <1>3 DEF Recall, Goto, TypeInv, TypeOK
  <2>3. Ready => Available
    BY <1>1 DEF PathIsSettled, Ready, Unready
  <2>4. StepFits(e)'
    BY <2>1, <2>2, <2>3 DEF StepFits, Available, Ready, disk
  <2> QED
    BY <2>1, <2>4, LocalStep DEF AtRest
<1>4. CASE Look(e)
  <2>1. OnlyOf(e) /\ UNCHANGED <<setting, disk>> /\ ~retried'[e] /\ pc[e] = "look"
    BY <1>1, <1>4 DEF Look, Goto, OnlyOf, TypeInv, TypeOK, StepFits
  <2>2. (pc'[e] = "extract" /\ dir = NoDir) \/ (pc'[e] = "verify" /\ dir # NoDir)
    BY <1>4 DEF Look, Goto, TypeInv, TypeOK
  <2>4. StepFits(e)'
    BY <2>1, <2>2 DEF StepFits, disk
  <2> QED
    BY <2>1, <2>4, LocalStep DEF AtRest
<1>5. CASE Verify(e)
  <2>1. OnlyOf(e) /\ UNCHANGED <<setting, disk>> /\ ~retried'[e] /\ pc[e] = "verify"
    BY <1>1, <1>5 DEF Verify, Goto, OnlyOf, TypeInv, TypeOK, StepFits
  <2>2. (pc'[e] = "record" /\ Ready) \/ (pc'[e] = "clear" /\ ~Ready)
    BY <1>5 DEF Verify, Goto, TypeInv, TypeOK
  <2>3. dir # NoDir /\ (Ready => Available) /\ (~Ready => Unready)
    BY <1>1, <2>1 DEF StepFits, PathIsSettled, Ready, Unready, Available
  <2>4. StepFits(e)'
    BY <2>1, <2>2, <2>3 DEF StepFits, Available, Ready, Unready, setting, disk
  <2> QED
    BY <2>1, <2>4, LocalStep DEF AtRest
<1>6. CASE OpenDir(e)
  <2>1. OnlyOf(e) /\ UNCHANGED <<setting, disk>> /\ ~retried'[e] /\ pc[e] = "clear"
    BY <1>1, <1>6 DEF OpenDir, RemovalFailed, Goto, OnlyOf, TypeInv, TypeOK, StepFits
  <2>2. Unready /\ dir # NoDir
    BY <1>1, <2>1, DirFacts DEF StepFits, Unready
  <2>3. pc'[e] = "unlink" /\ removing'[e] = OldDir
    BY <1>6, <2>2 DEF OpenDir, Goto, Unready, TypeInv, TypeOK
  <2>4. StepFits(e)'
    BY <2>1, <2>2, <2>3 DEF StepFits, Unready, setting, disk
  <2> QED
    BY <2>1, <2>4, LocalStep DEF AtRest
<1>7. CASE Unlink(e)
  <2>1. /\ pc[e] = "unlink" /\ Unready /\ removing[e] = OldDir /\ ~Available /\ turns
        /\ OldDir \in Dirs
    BY <1>1, <1>7, DirFacts DEF Unlink, StepFits, Unready, Available, Ready
  <2>2. /\ OnlyOf(e) /\ UNCHANGED <<setting, dir, marker, removing, retried, round>>
        /\ \A t \in Dirs \ {OldDir} : files'[t] = files[t]
        /\ pc'[e] = "unlink" \/ (pc'[e] = "rmdir" /\ Empty(OldDir)')
    BY <1>7, <2>1 DEF Unlink, Goto, OnlyOf, Empty, Unready, TypeInv, TypeOK
  <2>3. PathIsSettled' /\ Unready'
    BY <2>1, <2>2 DEF PathIsSettled, Unready, setting
  <2>4. \A f \in Extractors \ {e} : pc[f] \in {"idle", "broken", "dead"}
    BY <2>1, OthersRest DEF AtRest
  <2>5. Solo'
    BY <2>2, <2>4 DEF Solo, OnlyOf, AtRest
  <2>6. StepFits(e)'
    BY <1>1, <2>1, <2>2, <2>3 DEF StepFits
  <2>7. ASSUME NEW f \in Extractors \ {e} PROVE StepFits(f)'
    <3>1. ~retried'[f] /\ pc'[f] \in {"idle", "broken", "dead"}
      BY <2>2, <2>4 DEF OnlyOf, ServedInv, StepFits
    <3> QED
      BY <3>1 DEF StepFits
  <2> QED
    BY <2>3, <2>5, <2>6, <2>7 DEF ServedInv
<1>8. CASE RemoveDir(e)
  <2>1. /\ pc[e] = "rmdir" /\ Unready /\ Empty(dir) /\ ~Available /\ turns
    BY <1>1, <1>8 DEF RemoveDir, StepFits, Unready, Available, Ready
  <2>2. /\ OnlyOf(e) /\ UNCHANGED <<setting, retried>> /\ dir' = NoDir
        /\ pc'[e] = "extract"
    BY <1>1, <1>8, <2>1 DEF RemoveDir, Removed, Goto, OnlyOf, StepFits, TypeInv, TypeOK
  <2>4. \A f \in Extractors \ {e} : pc[f] \in {"idle", "broken", "dead"}
    BY <2>1, OthersRest DEF AtRest
  <2>5. Solo' /\ PathIsSettled'
    BY <2>2, <2>4 DEF Solo, OnlyOf, AtRest, PathIsSettled
  <2>6. StepFits(e)'
    BY <1>1, <2>2 DEF StepFits
  <2>7. ASSUME NEW f \in Extractors \ {e} PROVE StepFits(f)'
    <3>1. ~retried'[f] /\ pc'[f] \in {"idle", "broken", "dead"}
      BY <2>2, <2>4 DEF OnlyOf, ServedInv, StepFits
    <3> QED
      BY <3>1 DEF StepFits
  <2> QED
    BY <2>5, <2>6, <2>7 DEF ServedInv
<1>9. CASE Extract(e)
  <2>1. /\ pc[e] = "extract" /\ OnlyOf(e) /\ UNCHANGED <<setting, dir, removing, retried, round>>
        /\ Own(e) \in Dirs
        /\ \A t \in Dirs : \/ files'[t] = files[t] /\ marker'[t] = marker[t]
                           \/ t = Own(e) /\ files'[t] = "all" /\ marker'[t]
    BY <1>9, OwnFacts DEF Extract, Goto, OnlyOf, Own, TypeInv, TypeOK
  <2>2. \/ pc'[e] = "broken"
        \/ pc'[e] = "rename" /\ files'[Own(e)] = "all" /\ marker'[Own(e)]
    BY <1>9, <2>1 DEF Extract, Goto, Own, TypeInv, TypeOK
  <2>3. Own(e)' = Own(e)
    BY <2>1 DEF Own
  <2>4. Own(e) # OldDir
    BY <2>1, OwnFacts
  <2>5. (Available => Available') /\ (Unready => Unready')
    BY <2>1, <2>4, DirFacts DEF Available, Ready, Unready, setting, TypeInv, TypeOK
  <2>6. PathIsSettled'
    BY <1>1, <2>1, <2>5 DEF PathIsSettled
  <2>7. Solo'
    BY <1>1, <2>1, <2>2 DEF Solo, OnlyOf, AtRest, setting
  <2>8. StepFits(e)'
    <3>1. ~retried'[e] /\ (turns' => dir' = NoDir)
      BY <1>1, <2>1 DEF StepFits, setting
    <3> QED
      BY <2>2, <2>3, <3>1 DEF StepFits
  <2>9. ASSUME NEW f \in Extractors \ {e} PROVE StepFits(f)'
    <3>1. /\ pc'[f] = pc[f] /\ removing'[f] = removing[f] /\ retried'[f] = retried[f]
          /\ Own(f)' = Own(f)
      BY <2>1 DEF OnlyOf, Own
    <3>2. StepFits(f)
      BY DEF ServedInv
    <3>3. Empty(OldDir) => Empty(OldDir)'
      BY <2>1, <2>4, DirFacts DEF Empty
    <3>4. pc[f] = "rename" => marker'[Own(f)] /\ files'[Own(f)] = "all"
      BY <2>1, <3>2, OwnFacts DEF StepFits
    <3>5. UNCHANGED <<dir, turns>>
      BY <2>1 DEF setting
    <3> QED
      BY <2>5, <3>1, <3>2, <3>3, <3>4, <3>5 DEF StepFits
  <2> QED
    BY <2>6, <2>7, <2>8, <2>9 DEF ServedInv
<1>10. CASE Rename(e)
  <2>1. /\ pc[e] = "rename" /\ OnlyOf(e) /\ ~retried[e]
        /\ UNCHANGED <<setting, files, marker, removing, retried, round>>
        /\ Own(e) # NoDir /\ Own(e) # OldDir
        /\ marker[Own(e)] /\ files[Own(e)] = "all"
    BY <1>1, <1>10, OwnFacts DEF Rename, Goto, OnlyOf, StepFits, TypeInv, TypeOK
  <2>2. CASE dir = NoDir
    <3>1. pc'[e] = "record" /\ dir' = Own(e) /\ Available'
      BY <1>10, <2>1, <2>2 DEF Rename, Goto, Own, Available, Ready, TypeInv, TypeOK
    <3>2. PathIsSettled'
      BY <3>1 DEF PathIsSettled
    <3>3. Solo'
      BY <1>1, <2>1, <3>1 DEF Solo, OnlyOf, AtRest, setting
    <3>4. StepFits(e)'
      BY <2>1, <3>1 DEF StepFits
    <3>5. ASSUME NEW f \in Extractors \ {e} PROVE StepFits(f)'
      <4>1. /\ pc'[f] = pc[f] /\ retried'[f] = retried[f] /\ Own(f)' = Own(f)
        BY <2>1 DEF OnlyOf, Own
      <4>2. StepFits(f) /\ ~Unready
        BY <2>2, DirFacts DEF ServedInv, Unready
      <4>3. turns' => pc[f] \in AtRest
        BY <1>1, <2>1 DEF Solo, AtRest, setting
      <4>4. dir' # NoDir
        BY <2>1, <3>1
      <4> QED
        BY <2>1, <3>1, <4>1, <4>2, <4>3, <4>4 DEF StepFits, AtRest
    <3> QED
      BY <3>2, <3>3, <3>4, <3>5 DEF ServedInv
  <2>3. CASE dir # NoDir
    <3>1. Available
      BY <1>1, <2>1, <2>3 DEF StepFits, PathIsSettled, Unready
    <3>2. ~Empty(dir)
      BY <3>1 DEF Available, Ready, Empty
    <3>3. pc'[e] = "reuse" /\ UNCHANGED dir
      BY <1>10, <2>1, <2>3, <3>2 DEF Rename, Goto, TypeInv, TypeOK
    <3>4. UNCHANGED <<setting, disk>> /\ Available'
      BY <2>1, <3>1, <3>3 DEF disk, Available, Ready
    <3>5. StepFits(e)'
      BY <2>1, <3>3, <3>4 DEF StepFits
    <3> QED
      BY <2>1, <3>4, <3>5, LocalStep DEF AtRest
  <2> QED
    BY <2>2, <2>3
<1>11. CASE Reuse(e)
  <2>1. OnlyOf(e) /\ UNCHANGED <<setting, disk>> /\ ~retried'[e] /\ pc[e] = "reuse" /\ Available
    BY <1>1, <1>11 DEF Reuse, Goto, OnlyOf, TypeInv, TypeOK, StepFits
  <2>2. pc'[e] = "record"
    BY <1>11, <2>1 DEF Reuse, Goto, Available, TypeInv, TypeOK
  <2>3. Available'
    BY <2>1 DEF Available, Ready, disk
  <2>4. StepFits(e)'
    BY <2>1, <2>2, <2>3 DEF StepFits
  <2> QED
    BY <2>1, <2>4, LocalStep DEF AtRest
<1>12. CASE Judge(e)
  BY <1>1, <1>12 DEF Judge, StepFits
<1>13. CASE Record(e)
  <2>1. OnlyOf(e) /\ UNCHANGED <<setting, disk>> /\ ~retried'[e] /\ pc[e] = "record" /\ Available
    BY <1>1, <1>13 DEF Record, Goto, OnlyOf, TypeInv, TypeOK, StepFits
  <2>2. pc'[e] = "using"
    BY <1>13, <2>1 DEF Record, Goto, TypeInv, TypeOK
  <2>3. Available'
    BY <2>1 DEF Available, Ready, disk
  <2>4. StepFits(e)'
    BY <2>1, <2>2, <2>3 DEF StepFits
  <2> QED
    BY <2>1, <2>4, LocalStep DEF AtRest
<1>14. CASE Release(e) \/ Crash(e)
  <2>1. OnlyOf(e) /\ UNCHANGED <<setting, disk>> /\ ~retried'[e] /\ pc'[e] \in {"idle", "dead"}
    BY <1>1, <1>14 DEF Release, Crash, Goto, OnlyOf, TypeInv, TypeOK, StepFits
  <2>2. StepFits(e)'
    BY <2>1 DEF StepFits
  <2> QED
    BY <2>1, <2>2, LocalStep DEF AtRest
<1> QED
  BY <1>2, <1>3, <1>4, <1>5, <1>6, <1>7, <1>8, <1>9, <1>10, <1>11, <1>12, <1>13, <1>14

\* What a step of one extractor has to do with the layer and its own use of it
\* to be a step of the abstract cache.
LEMMA UsingStep ==
    ASSUME TypeInv, NEW e \in Extractors, OnlyOf(e),
           \/ Available' = Available /\ (pc[e] = "using" <=> pc'[e] = "using")
           \/ Available' = Available /\ Available /\ pc[e] # "using" /\ pc'[e] = "using"
           \/ Available' = Available /\ pc[e] = "using" /\ pc'[e] # "using"
           \/ ~Available /\ Available' /\ (pc[e] = "using" <=> pc'[e] = "using")
    PROVE  Service!Next \/ UNCHANGED Service!vars
<1> DEFINE Using == {f \in Extractors : pc[f] = "using"}
           Used == {f \in Extractors : pc'[f] = "using"}
<1>1. \A f \in Extractors \ {e} : f \in Used <=> f \in Using
  BY DEF OnlyOf
<1>2. CASE Available' = Available /\ (pc[e] = "using" <=> pc'[e] = "using")
  BY <1>1, <1>2 DEF Service!vars
<1>3. CASE Available' = Available /\ Available /\ pc[e] # "using" /\ pc'[e] = "using"
  <2>1. e \notin Using /\ Used = Using \cup {e}
    BY <1>1, <1>3
  <2>2. Service!Give(e)
    BY <1>3, <2>1 DEF Service!Give
  <2> QED
    BY <2>2 DEF Service!Next
<1>4. CASE Available' = Available /\ pc[e] = "using" /\ pc'[e] # "using"
  <2>1. e \in Using /\ Used = Using \ {e}
    BY <1>1, <1>4
  <2>2. Service!Release(e)
    BY <1>4, <2>1 DEF Service!Release
  <2> QED
    BY <2>2 DEF Service!Next
<1>5. CASE ~Available /\ Available' /\ (pc[e] = "using" <=> pc'[e] = "using")
  <2>1. Used = Using
    BY <1>1, <1>5
  <2>2. Service!Publish
    BY <1>5, <2>1 DEF Service!Publish, Available, Ready
  <2> QED
    BY <2>2 DEF Service!Next
<1> QED
  BY <1>2, <1>3, <1>4, <1>5

LEMMA ImplementsStep ==
    TypeInv /\ ServedInv /\ Settled /\ Next => Service!Next \/ UNCHANGED Service!vars
<1> SUFFICES ASSUME TypeInv, ServedInv, Settled, NEW e \in Extractors,
                    Begin(e) \/ Recall(e) \/ Look(e) \/ Verify(e)
                    \/ OpenDir(e) \/ Unlink(e) \/ RemoveDir(e)
                    \/ Extract(e) \/ Rename(e) \/ Reuse(e) \/ Judge(e) \/ Record(e)
                    \/ Release(e) \/ Crash(e)
             PROVE  Service!Next \/ UNCHANGED Service!vars
  BY DEF Next
<1>1. StepFits(e) /\ PathIsSettled
  BY DEF ServedInv
<1>2. ASSUME UNCHANGED disk PROVE Available' = Available
  BY <1>2 DEF disk, Available, Ready
<1>3. CASE Begin(e) \/ Look(e) \/ Verify(e) \/ Reuse(e) \/ Judge(e)
  <2>1. OnlyOf(e) /\ UNCHANGED disk /\ pc[e] # "using" /\ pc'[e] # "using"
    BY <1>3 DEF Begin, Look, Verify, Reuse, Judge, Goto, OnlyOf, TypeInv, TypeOK
  <2> QED
    BY <1>2, <2>1, UsingStep
<1>4. CASE OpenDir(e)
  <2>1. OnlyOf(e) /\ UNCHANGED disk /\ pc[e] # "using" /\ pc'[e] # "using"
    BY <1>4 DEF OpenDir, RemovalFailed, Goto, OnlyOf, TypeInv, TypeOK
  <2> QED
    BY <1>2, <2>1, UsingStep
<1>5. CASE Recall(e)
  <2>1. OnlyOf(e) /\ UNCHANGED disk /\ pc[e] = "recall"
    BY <1>5 DEF Recall, Goto, OnlyOf, TypeInv, TypeOK
  <2>2. pc'[e] = "look" \/ (pc'[e] = "using" /\ Ready)
    BY <1>5 DEF Recall, Goto, TypeInv, TypeOK
  <2>3. Ready => Available
    BY <1>1 DEF PathIsSettled, Ready, Unready
  <2> QED
    BY <1>2, <2>1, <2>2, <2>3, UsingStep
<1>6. CASE Record(e)
  <2>1. OnlyOf(e) /\ UNCHANGED disk /\ pc[e] = "record" /\ pc'[e] = "using"
    BY <1>6 DEF Record, Goto, OnlyOf, TypeInv, TypeOK
  <2> QED
    BY <1>1, <1>2, <2>1, UsingStep DEF StepFits
<1>7. CASE Release(e) \/ Crash(e)
  <2>1. OnlyOf(e) /\ UNCHANGED disk /\ pc'[e] # "using"
    BY <1>7 DEF Release, Crash, Goto, OnlyOf, TypeInv, TypeOK
  <2> QED
    BY <1>2, <2>1, UsingStep
<1>8. CASE Unlink(e)
  <2>1. OnlyOf(e) /\ UNCHANGED dir /\ pc[e] # "using" /\ pc'[e] # "using"
    BY <1>8 DEF Unlink, Goto, OnlyOf, TypeInv, TypeOK
  <2>2. Unready /\ removing[e] = OldDir
    BY <1>1, <1>8 DEF Unlink, StepFits
  <2>3. ~Available /\ ~Available'
    BY <1>8, <2>1, <2>2 DEF Unlink, Unready, Available, Ready
  <2> QED
    BY <2>1, <2>3, UsingStep DEF Available, Ready
<1>9. CASE RemoveDir(e)
  <2>1. OnlyOf(e) /\ pc[e] # "using" /\ pc'[e] # "using" /\ dir' \in {dir, NoDir}
    BY <1>9 DEF RemoveDir, Removed, RemovalFailed, Goto, OnlyOf, TypeInv, TypeOK
  <2>2. Unready /\ UNCHANGED marker
    BY <1>1, <1>9 DEF RemoveDir, StepFits
  <2>3. ~Available /\ ~Available'
    BY <2>1, <2>2 DEF Unready, Available, Ready
  <2> QED
    BY <2>1, <2>3, UsingStep DEF Available, Ready
<1>10. CASE Extract(e)
  <2>1. /\ OnlyOf(e) /\ UNCHANGED dir /\ pc[e] # "using" /\ pc'[e] # "using"
        /\ \A t \in Dirs : \/ files'[t] = files[t] /\ marker'[t] = marker[t]
                           \/ files'[t] = "all" /\ marker'[t]
    BY <1>10 DEF Extract, Goto, OnlyOf, TypeInv, TypeOK
  <2>2. Available => Available'
    BY <2>1 DEF Available, Ready, TypeInv, TypeOK
  <2> QED
    BY <2>1, <2>2, UsingStep DEF Available, Ready
<1>11. CASE Rename(e)
  <2>1. OnlyOf(e) /\ UNCHANGED <<files, marker>> /\ pc[e] # "using" /\ pc'[e] # "using"
    BY <1>11 DEF Rename, Goto, OnlyOf, TypeInv, TypeOK
  <2>2. dir' = dir \/ dir = NoDir \/ Empty(dir)
    BY <1>11 DEF Rename
  <2>3. Available => Available'
    BY <2>1, <2>2 DEF Available, Ready, Empty
  <2> QED
    BY <2>1, <2>3, UsingStep DEF Available, Ready
<1> QED
  BY <1>3, <1>4, <1>5, <1>6, <1>7, <1>8, <1>9, <1>10, <1>11

SettledInv == Settled => ServedInv

LEMMA SettledStep == TypeInv /\ SettledInv /\ [Next]_vars => SettledInv'
<1> SUFFICES ASSUME TypeInv, SettledInv, [Next]_vars, Settled' PROVE ServedInv'
  BY DEF SettledInv
<1>1. UNCHANGED setting
  BY DEF Next, Begin, Recall, Look, Verify, OpenDir, Unlink, RemoveDir, Extract, Rename,
         Reuse, Judge, Record, Release, Crash, vars
<1>2. Settled /\ ServedInv
  BY <1>1 DEF Settled, SettledInv, setting
<1>3. CASE Next
  BY <1>2, <1>3, ServedStep
<1>4. CASE UNCHANGED vars
  <2>1. UNCHANGED <<setting, disk, pc, round, removing, retried>>
    BY <1>4 DEF vars
  <2>2. PathIsSettled' /\ Solo'
    BY <1>2, <2>1 DEF ServedInv, PathIsSettled, Solo, Available, Ready, Unready, setting, disk
  <2>3. ASSUME NEW e \in Extractors PROVE StepFits(e)'
    BY <1>2, <2>1 DEF ServedInv, StepFits, Unready, Available, Ready, Empty, Own, setting, disk
  <2> QED
    BY <2>2, <2>3 DEF ServedInv
<1> QED
  BY <1>3, <1>4

LEMMA SettledInvariant == Spec => []SettledInv
<1>1. Init => SettledInv
  BY ServedInit DEF SettledInv
<1> QED
  BY TypeInvariant, SettledStep, <1>1, PTL DEF Spec

\* The cache implements LayerService for any number of extractors: what it gives
\* is the whole layer, and stays.
THEOREM LayersAreServed == Spec => LayerIsServed
<1>1. Init => (Settled => Service!Init)
  BY DEF Init, Service!Init, Available, Ready
<1>2. TypeInv /\ SettledInv /\ [Next]_vars =>
        [Settled => Service!Next \/ UNCHANGED Service!vars]_vars
  BY ImplementsStep DEF SettledInv
<1> QED
  BY TypeInvariant, SettledInvariant, <1>1, <1>2, PTL DEF Spec, LayerIsServed

\* A lost race is never an error of the extraction that lost it.
THEOREM ConflictsAreResolved == Spec => []ConflictsResolve
<1>1. SettledInv => ConflictsResolve
  BY DEF SettledInv, ServedInv, StepFits, ConflictsResolve
<1> QED
  BY SettledInvariant, <1>1, PTL
=============================================================================
