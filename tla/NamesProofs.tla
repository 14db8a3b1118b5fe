----------------------------- MODULE NamesProofs ----------------------------
(***************************************************************************)
(* What names come to mean: the names of containers, of any clients and    *)
(* containers (ContainerNames), and the names of arguments and variables   *)
(* in any Dockerfiles (BuildArguments).                                    *)
(***************************************************************************)
EXTENDS ContainerNames, BuildArguments, FiniteSetTheorems, SequenceTheorems, WellFoundedInduction, TLAPS

(***************************************************************************)
(* The names of containers.                                                *)
(***************************************************************************)

\* Steps with a container in hand that had its record when it was taken up, or
\* is to get it.
Holding == {"load", "refresh", "save", "write", "unlink", "rmdir"}

\* What a command has in hand, or was shown, was made.
HandsAreUsed ==
    \A c \in Clients :
        /\ pc[c] \in Holding \cup {"read"} => entry[c] \in Used
        /\ opened[c] \cup seen[c] \subseteq Used

\* A container whose record is still to be written is nobody else's.
WriterIsAlone ==
    \A c \in Clients : pc[c] = "write" =>
        /\ entry[c] \in dirs \ recorded
        /\ \A d \in Clients \ {c} : pc[d] \in Holding => entry[d] # entry[c]

\* Only create makes containers, and never gives one an id for a name.
CreatesGiveNames ==
    \A c \in Clients :
        /\ pc[c] = "mkdir" => cmd[c] = "create"
        /\ cmd[c] = "create" => arg[c] \in Names \cup {Anonymous}

TypeInv == TypeOK /\ HandsAreUsed /\ WriterIsAlone /\ CreatesGiveNames

-----------------------------------------------------------------------------
(***************************************************************************)
(* Types                                                                   *)
(***************************************************************************)
LEMMA TypeInit == Init => TypeInv
  BY NamesAssumption DEF Init, TypeInv, TypeOK, HandsAreUsed, WriterIsAlone, CreatesGiveNames, Holding,
     Used, Commands, Steps

LEMMA TypeStep == TypeInv /\ [Next]_vars => TypeInv'
<1> SUFFICES ASSUME TypeInv, [Next]_vars PROVE TypeInv'
    OBVIOUS
<1> USE NamesAssumption DEF TypeInv, TypeOK, HandsAreUsed, WriterIsAlone, CreatesGiveNames, Holding,
        Used, Commands, Steps, Goto, files, history
<1>1. ASSUME NEW c \in Clients, Begin(c) PROVE TypeInv'
    BY <1>1 DEF Begin
<1>2. ASSUME NEW c \in Clients, Resolve(c) PROVE TypeInv'
    BY <1>2, SMTT(30) DEF Resolve, GoOn, StopLooking
<1>3. ASSUME NEW c \in Clients, OpenDir(c) PROVE TypeInv'
    BY <1>3 DEF OpenDir
<1>4. ASSUME NEW c \in Clients, NextEntry(c) PROVE TypeInv'
    BY <1>4 DEF NextEntry
<1>5. ASSUME NEW c \in Clients, EndOfDir(c) PROVE TypeInv'
    <2>1. CASE cmd[c] = "create" /\ GoOn(c, "mkdir")
        BY <1>5, <2>1 DEF EndOfDir, GoOn
    <2>2. CASE cmd[c] # "create" /\ Return(c)
        BY <1>5, <2>2 DEF EndOfDir, Return, StopLooking
    <2> QED
        BY <1>5, <2>1, <2>2 DEF EndOfDir
<1>6. ASSUME NEW c \in Clients, ReadEntry(c) PROVE TypeInv'
    BY <1>6, SMTT(30) DEF ReadEntry, GoOn, Return, StopLooking
<1>7. ASSUME NEW c \in Clients, MakeDir(c) PROVE TypeInv'
    <2>1. PICK i \in Ids \ Used :
                /\ dirs' = dirs \cup {i}
                /\ name' = [name EXCEPT ![i] = arg[c]]
                /\ entry' = [entry EXCEPT ![c] = i]
                /\ missed' = [missed EXCEPT ![i] = {j \in opened[c] : name[j] = arg[c]}]
        BY <1>7 DEF MakeDir
    <2>2. /\ pc[c] = "mkdir" /\ pc' = [pc EXCEPT ![c] = "write"]
          /\ opened' = [opened EXCEPT ![c] = {}]
          /\ seen' = [seen EXCEPT ![c] = {}]
          /\ arg' = [arg EXCEPT ![c] = Anonymous]
          /\ UNCHANGED <<recorded, temp, litter, cmd, lost, refilled>>
        BY <1>7 DEF MakeDir, StopLooking
    <2>3. arg[c] \in Names \cup {Anonymous}
        BY <2>2
    <2>4. name' \in [Ids -> Names \cup {Anonymous, Unborn}] /\ name'[i] = arg[c]
          /\ \A j \in Ids \ {i} : name'[j] = name[j]
        BY <2>1, <2>3
    <2>5. {j \in opened[c] : name[j] = arg[c]} \in SUBSET Ids
        OBVIOUS
    <2>6. missed' \in [Ids -> SUBSET Ids]
        BY <2>1, <2>5
    <2>7. i \in Used' /\ \A j \in Used : j \in Used'
        BY <2>3, <2>4
    <2>8. TypeOK'
        BY <2>1, <2>2, <2>4, <2>6, <2>7
    <2>9. HandsAreUsed'
        BY <2>1, <2>2, <2>7
    <2>10. WriterIsAlone'
        BY <2>1, <2>2
    <2>11. CreatesGiveNames'
        BY <2>2
    <2> QED
        BY <2>8, <2>9, <2>10, <2>11
<1>8. ASSUME NEW c \in Clients, WriteRecord(c) PROVE TypeInv'
    BY <1>8 DEF WriteRecord, Return, StopLooking
<1>9. ASSUME NEW c \in Clients, LoadRecord(c) PROVE TypeInv'
    <2>1. CASE entry[c] \in recorded /\ GoOn(c, "refresh")
        BY <1>9, <2>1 DEF LoadRecord, GoOn
    <2>2. CASE Return(c)
        BY <1>9, <2>2 DEF LoadRecord, Return, StopLooking
    <2> QED
        BY <1>9, <2>1, <2>2 DEF LoadRecord
<1>10. ASSUME NEW c \in Clients, Refresh(c) PROVE TypeInv'
    <2>1. CASE UNCHANGED temp /\ GoOn(c, "walk")
        BY <1>10, <2>1 DEF Refresh, GoOn
    <2>2. CASE UNCHANGED temp /\ GoOn(c, "unlink")
        BY <1>10, <2>2 DEF Refresh, GoOn
    <2>3. CASE UNCHANGED temp /\ Return(c)
        BY <1>10, <2>3 DEF Refresh, Return, StopLooking
    <2>4. CASE entry[c] \in dirs /\ temp' = temp \cup {c} /\ GoOn(c, "save")
        BY <1>10, <2>4 DEF Refresh, GoOn
    <2>5. CASE UNCHANGED temp /\ GoOn(c, "refresh")
        BY <1>10, <2>5 DEF Refresh, GoOn
    <2> QED
        BY <1>10, <2>1, <2>2, <2>3, <2>4, <2>5 DEF Refresh, AfterRefresh
<1>11. ASSUME NEW c \in Clients, SaveRecord(c) PROVE TypeInv'
    BY <1>11, SMTT(30) DEF SaveRecord, AfterRefresh, GoOn, Return, StopLooking
<1>12. ASSUME NEW c \in Clients, Unlink(c) PROVE TypeInv'
    <2>1. CASE entry[c] \in dirs /\ GoOn(c, "rmdir")
        BY <1>12, <2>1 DEF Unlink, SavingIn, GoOn
    <2>2. CASE Return(c)
        BY <1>12, <2>2 DEF Unlink, SavingIn, Return, StopLooking
    <2> QED
        BY <1>12, <2>1, <2>2 DEF Unlink
<1>121. ASSUME NEW c \in Clients, LeaveFile(c) PROVE TypeInv'
    BY <1>121 DEF LeaveFile, locals
<1>13. ASSUME NEW c \in Clients, RemoveDir(c) PROVE TypeInv'
    BY <1>13 DEF RemoveDir, SavingIn, Forget, Return, StopLooking
<1>14. ASSUME NEW c \in Clients, WriteFails(c) PROVE TypeInv'
    BY <1>14 DEF WriteFails, Lose, Return, StopLooking
<1>15. ASSUME NEW c \in Clients, Dies(c) PROVE TypeInv'
    BY <1>15 DEF Dies, Lose, Return, StopLooking
<1>16. CASE UNCHANGED vars
    BY <1>16 DEF vars, locals
<1> QED
    BY <1>1, <1>2, <1>3, <1>4, <1>5, <1>6, <1>7, <1>8, <1>9, <1>10, <1>11, <1>12, <1>121, <1>13, <1>14, <1>15, <1>16 DEF Next, Step

\* The types of ContainerNames: a record is in a directory, a temporary file in
\* that of a command about to rename it.
THEOREM NamesTypeCorrect == Spec => []TypeOK
<1>1. TypeInv => TypeOK
    BY DEF TypeInv
<1> QED
    BY TypeInit, TypeStep, <1>1, PTL DEF Spec

-----------------------------------------------------------------------------
(***************************************************************************)
(* Removal                                                                 *)
(***************************************************************************)
\* What rm has removed does not come back (write_record, remove).
THEOREM RemovedStaysGone == Spec => GoneForGood
<1>1. TypeInv /\ [Next]_vars => [\A i \in Used \ dirs : i \notin dirs' \cup recorded']_vars
    <2> SUFFICES ASSUME TypeInv, Next
                 PROVE  \A i \in Used \ dirs : i \notin dirs' \cup recorded'
        OBVIOUS
    <2> USE DEF TypeInv, TypeOK, WriterIsAlone, Used, files
    <2> DEFINE NoneBack == \A i \in Used \ dirs : i \notin dirs' \cup recorded'
    <2>1. ASSUME NEW c \in Clients, MakeDir(c) PROVE NoneBack
        BY <2>1 DEF MakeDir
    <2>2. ASSUME NEW c \in Clients, WriteRecord(c) PROVE NoneBack
        BY <2>2 DEF WriteRecord
    <2>3. ASSUME NEW c \in Clients, SaveRecord(c) PROVE NoneBack
        BY <2>3 DEF SaveRecord
    <2>4. ASSUME NEW c \in Clients, Unlink(c) \/ RemoveDir(c) PROVE NoneBack
        BY <2>4 DEF Unlink, RemoveDir
    <2>5. ASSUME NEW c \in Clients,
                 \/ Begin(c) \/ Resolve(c) \/ OpenDir(c) \/ NextEntry(c) \/ EndOfDir(c)
                 \/ ReadEntry(c) \/ LoadRecord(c) \/ Refresh(c) \/ LeaveFile(c)
                 \/ WriteFails(c) \/ Dies(c)
          PROVE NoneBack
        BY <2>5 DEF Begin, Resolve, OpenDir, NextEntry, EndOfDir, ReadEntry, LoadRecord,
           Refresh, LeaveFile, WriteFails, Dies
    <2> QED
        BY <2>1, <2>2, <2>3, <2>4, <2>5 DEF Next, Step
<1> QED
    BY TypeInit, TypeStep, <1>1, PTL DEF Spec, GoneForGood

\* A file that rm meets where it has emptied the directory is of a command that was
\* killed, or was made since rm began.
LitterIsNew ==
    \A c \in Clients : pc[c] = "rmdir" /\ entry[c] \in litter => entry[c] \in lost \cup refilled

HalfInv == LitterIsNew /\ HalfDirHasOwner

LEMMA HalfStep == TypeInv /\ HalfInv /\ [Next]_vars => HalfInv'
<1> SUFFICES ASSUME TypeInv, HalfInv, [Next]_vars PROVE HalfInv'
    OBVIOUS
<1> USE DEF TypeInv, TypeOK, WriterIsAlone, HandsAreUsed, Holding, HalfInv, LitterIsNew,
        HalfDirHasOwner, Goto, files, history, Used
<1>1. ASSUME NEW c \in Clients, Begin(c) PROVE HalfInv'
    BY <1>1 DEF Begin
<1>2. ASSUME NEW c \in Clients, Resolve(c) PROVE HalfInv'
    BY <1>2 DEF Resolve, GoOn, StopLooking
<1>3. ASSUME NEW c \in Clients, OpenDir(c) PROVE HalfInv'
    BY <1>3 DEF OpenDir
<1>4. ASSUME NEW c \in Clients, NextEntry(c) PROVE HalfInv'
    BY <1>4 DEF NextEntry
<1>5. ASSUME NEW c \in Clients, EndOfDir(c) PROVE HalfInv'
    BY <1>5 DEF EndOfDir, GoOn, Return, StopLooking
<1>6. ASSUME NEW c \in Clients, ReadEntry(c) PROVE HalfInv'
    BY <1>6 DEF ReadEntry, GoOn, Return, StopLooking
<1>7. ASSUME NEW c \in Clients, MakeDir(c) PROVE HalfInv'
    BY <1>7 DEF MakeDir, StopLooking
<1>8. ASSUME NEW c \in Clients, WriteRecord(c) PROVE HalfInv'
    BY <1>8 DEF WriteRecord, Return, StopLooking
<1>9. ASSUME NEW c \in Clients, LoadRecord(c) PROVE HalfInv'
    BY <1>9 DEF LoadRecord, GoOn, Return, StopLooking
<1>10. ASSUME NEW c \in Clients, Refresh(c) PROVE HalfInv'
    BY <1>10 DEF Refresh, AfterRefresh, GoOn, Return, StopLooking
<1>11. ASSUME NEW c \in Clients, SaveRecord(c) PROVE HalfInv'
    BY <1>11 DEF SaveRecord, AfterRefresh, GoOn, Return, StopLooking
<1>12. ASSUME NEW c \in Clients, Unlink(c) PROVE HalfInv'
    BY <1>12 DEF Unlink, SavingIn, GoOn, Return, StopLooking
<1>121. ASSUME NEW c \in Clients, LeaveFile(c) PROVE HalfInv'
    BY <1>121 DEF LeaveFile, locals
<1>13. ASSUME NEW c \in Clients, RemoveDir(c) PROVE HalfInv'
    BY <1>13 DEF RemoveDir, SavingIn, Forget, Return, StopLooking
<1>14. ASSUME NEW c \in Clients, WriteFails(c) PROVE HalfInv'
    BY <1>14 DEF WriteFails, Lose, Return, StopLooking
<1>15. ASSUME NEW c \in Clients, Dies(c) PROVE HalfInv'
    BY <1>15 DEF Dies, Lose, Return, StopLooking
<1>16. CASE UNCHANGED vars
    BY <1>16 DEF vars, locals
<1> QED
    BY <1>1, <1>2, <1>3, <1>4, <1>5, <1>6, <1>7, <1>8, <1>9, <1>10, <1>11, <1>12, <1>121, <1>13, <1>14, <1>15, <1>16 DEF Next, Step

\* A directory without container.json has somebody who will remove it or write
\* that file, or was left by a command that was killed or could not write, or by
\* an rm that met with a file somebody made there after it had begun.
THEOREM HalfDirsHaveOwners == Spec => []HalfDirHasOwner
<1>1. Init => HalfInv
    BY DEF Init, HalfInv, LitterIsNew, HalfDirHasOwner
<1>2. HalfInv => HalfDirHasOwner
    BY DEF HalfInv
<1> QED
    BY TypeInit, TypeStep, HalfStep, <1>1, <1>2, PTL DEF Spec

-----------------------------------------------------------------------------
(***************************************************************************)
(* Names                                                                   *)
(***************************************************************************)
\* A create that has not given up.
Looks(c) == pc[c] = "mkdir" \/ (cmd[c] = "create" /\ pc[c] \in {"walk", "read"})

\* What it was shown and has read.
Judged(c) == IF pc[c] = "read" THEN seen[c] \ {entry[c]} ELSE seen[c]

\* It has read no record with the name it is going to give, and what it was not
\* shown was not there when it began to look, or is there no more.
LooksAreFresh ==
    \A c \in Clients :
        /\ pc[c] = "returned" => opened[c] = {} /\ seen[c] = {}
        /\ Looks(c) => \A j \in Judged(c) : name[j] # arg[c]
        /\ pc[c] = "mkdir" => opened[c] \cap dirs \subseteq seen[c]

MissedAreUsed == \A i \in Ids : missed[i] \subseteq Used

NamesInv == LooksAreFresh /\ MissedAreUsed /\ SharedNamesOverlapped

LEMMA NamesStep == TypeInv /\ NamesInv /\ [Next]_vars => NamesInv'
<1> SUFFICES ASSUME TypeInv, NamesInv, [Next]_vars PROVE NamesInv'
    OBVIOUS
<1> USE DEF TypeInv, TypeOK, HandsAreUsed, CreatesGiveNames, Holding, NamesInv, LooksAreFresh,
        Looks, Judged, MissedAreUsed, SharedNamesOverlapped, Goto, files, history, Used,
        Commands, Steps
<1>1. ASSUME NEW c \in Clients, Begin(c) PROVE NamesInv'
    BY <1>1 DEF Begin
<1>2. ASSUME NEW c \in Clients, Resolve(c) PROVE NamesInv'
    BY <1>2 DEF Resolve, GoOn, StopLooking
<1>3. ASSUME NEW c \in Clients, OpenDir(c) PROVE NamesInv'
    BY <1>3 DEF OpenDir
<1>4. ASSUME NEW c \in Clients, NextEntry(c) PROVE NamesInv'
    BY <1>4 DEF NextEntry
<1>5. ASSUME NEW c \in Clients, EndOfDir(c) PROVE NamesInv'
    BY <1>5 DEF EndOfDir, GoOn, Return, StopLooking
<1>6. ASSUME NEW c \in Clients, ReadEntry(c) PROVE NamesInv'
    BY <1>6 DEF ReadEntry, GoOn, Return, StopLooking
<1>7. ASSUME NEW c \in Clients, MakeDir(c) PROVE NamesInv'
    BY <1>7 DEF MakeDir, StopLooking
<1>8. ASSUME NEW c \in Clients, WriteRecord(c) PROVE NamesInv'
    BY <1>8 DEF WriteRecord, Return, StopLooking
<1>9. ASSUME NEW c \in Clients, LoadRecord(c) PROVE NamesInv'
    BY <1>9 DEF LoadRecord, GoOn, Return, StopLooking
<1>10. ASSUME NEW c \in Clients, Refresh(c) PROVE NamesInv'
    BY <1>10 DEF Refresh, AfterRefresh, GoOn, Return, StopLooking
<1>11. ASSUME NEW c \in Clients, SaveRecord(c) PROVE NamesInv'
    BY <1>11 DEF SaveRecord, AfterRefresh, GoOn, Return, StopLooking
<1>12. ASSUME NEW c \in Clients, Unlink(c) PROVE NamesInv'
    BY <1>12 DEF Unlink, SavingIn, GoOn, Return, StopLooking
<1>121. ASSUME NEW c \in Clients, LeaveFile(c) PROVE NamesInv'
    BY <1>121 DEF LeaveFile, locals
<1>13. ASSUME NEW c \in Clients, RemoveDir(c) PROVE NamesInv'
    BY <1>13 DEF RemoveDir, SavingIn, Forget, Return, StopLooking
<1>14. ASSUME NEW c \in Clients, WriteFails(c) PROVE NamesInv'
    BY <1>14 DEF WriteFails, Lose, Return, StopLooking
<1>15. ASSUME NEW c \in Clients, Dies(c) PROVE NamesInv'
    BY <1>15 DEF Dies, Lose, Return, StopLooking
<1>16. CASE UNCHANGED vars
    BY <1>16 DEF vars, locals
<1> QED
    BY <1>1, <1>2, <1>3, <1>4, <1>5, <1>6, <1>7, <1>8, <1>9, <1>10, <1>11, <1>12, <1>121, <1>13, <1>14, <1>15, <1>16 DEF Next, Step

\* Two containers get one name only from two creates at once.
THEOREM NamesSharedByOverlap == Spec => []SharedNamesOverlapped
<1>1. Init => NamesInv
    BY DEF Init, NamesInv, LooksAreFresh, Looks, MissedAreUsed, SharedNamesOverlapped
<1>2. NamesInv => SharedNamesOverlapped
    BY DEF NamesInv
<1> QED
    BY TypeInit, TypeStep, NamesStep, <1>1, <1>2, PTL DEF Spec

-----------------------------------------------------------------------------
(***************************************************************************)
(* What names mean.  The scope of a stage is defined by recursion on its   *)
(* instructions; that it is what the recursion says is proved first.       *)
(***************************************************************************)
LEMMA LeastNumber ==
  ASSUME NEW S \in SUBSET Nat, S # {}
  PROVE  \E m \in S : \A n \in S : m <= n
<1>1. IsWellFoundedOn(OpToRel(<, Nat), Nat)
  BY NatLessThanWellFounded
<1>2. PICK m \in S : \A n \in S : ~(<<n, m>> \in OpToRel(<, Nat))
  BY <1>1, WFMin
<1>3. \A n \in S : ~(n < m)
  BY <1>2 DEF OpToRel
<1> QED
  BY <1>3

FirstScope(s) ==
  [env |-> Images[file[s].base], args |-> <<>>, start |-> Images[file[s].base]]

\* The scopes of stage s before its first i instructions.
AreScopes(g, s, i) ==
  g = [k \in 1..i |-> IF k = 1 THEN FirstScope(s) ELSE AfterStep(StepsOf(s)[k - 1], g[k - 1])]

LEMMA ScopesExist == \A s : \A i \in Nat : \E g : AreScopes(g, s, i)
<1> SUFFICES ASSUME NEW s, {i \in Nat : ~\E g : AreScopes(g, s, i)} # {} PROVE FALSE
  OBVIOUS
<1>1. PICK i \in Nat : /\ ~\E g : AreScopes(g, s, i)
                       /\ \A k \in Nat : k < i => \E g : AreScopes(g, s, k)
  <2>1. PICK m \in {i \in Nat : ~\E g : AreScopes(g, s, i)} :
               \A n \in {i \in Nat : ~\E g : AreScopes(g, s, i)} : m <= n
    BY LeastNumber
  <2> QED
    BY <2>1
<1>2. CASE i = 0
  <2> DEFINE g == [k \in 1..0 |-> FirstScope(s)]
  <2>1. AreScopes(g, s, 0)
    BY DEF AreScopes
  <2> QED
    BY <1>1, <1>2, <2>1
<1>3. CASE i # 0
  <2>1. PICK g : AreScopes(g, s, i - 1)
    BY <1>1, <1>3
  <2> DEFINE last == IF i = 1 THEN FirstScope(s) ELSE AfterStep(StepsOf(s)[i - 1], g[i - 1])
             h == [k \in 1..i |-> IF k = i THEN last ELSE g[k]]
  <2>2. ASSUME NEW k \in 1..i
        PROVE  h[k] = IF k = 1 THEN FirstScope(s) ELSE AfterStep(StepsOf(s)[k - 1], h[k - 1])
    <3>1. CASE k = i
      BY <1>3, <3>1
    <3>2. CASE k # i
      <4>1. k \in 1..(i - 1) /\ h[k] = g[k]
        BY <3>2
      <4>2. k # 1 => k - 1 \in 1..i /\ k - 1 # i /\ h[k - 1] = g[k - 1]
        BY <3>2
      <4> HIDE DEF h
      <4> QED
        BY <2>1, <4>1, <4>2 DEF AreScopes
    <3> QED
      BY <3>1, <3>2
  <2>3. h = [k \in 1..i |-> h[k]]
    OBVIOUS
  <2> HIDE DEF h
  <2>4. AreScopes(h, s, i)
    BY <2>2, <2>3 DEF AreScopes
  <2> QED
    BY <1>1, <2>4
<1> QED
  BY <1>2, <1>3

LEMMA ScopesAgree ==
  ASSUME NEW s, NEW i \in Nat, NEW j \in Nat, NEW g, NEW h,
         AreScopes(g, s, i), AreScopes(h, s, j)
  PROVE  \A k \in 1..i : k <= j => g[k] = h[k]
<1> SUFFICES ASSUME {k \in 1..i : k <= j /\ g[k] # h[k]} # {} PROVE FALSE
  OBVIOUS
<1>1. PICK k \in 1..i : /\ k <= j /\ g[k] # h[k]
                        /\ \A n \in 1..i : n <= j /\ g[n] # h[n] => k <= n
  <2> DEFINE bad == {k \in 1..i : k <= j /\ g[k] # h[k]}
  <2>1. bad \in SUBSET Nat /\ bad # {}
    OBVIOUS
  <2>2. PICK m \in bad : \A n \in bad : m <= n
    BY <2>1, LeastNumber
  <2> QED
    BY <2>2
<1>2. /\ g[k] = IF k = 1 THEN FirstScope(s) ELSE AfterStep(StepsOf(s)[k - 1], g[k - 1])
      /\ h[k] = IF k = 1 THEN FirstScope(s) ELSE AfterStep(StepsOf(s)[k - 1], h[k - 1])
  BY <1>1 DEF AreScopes
<1>3. k # 1 => g[k - 1] = h[k - 1]
  BY <1>1
<1> QED
  BY <1>1, <1>2, <1>3

LEMMA ScopeSteps ==
  ASSUME NEW s
  PROVE  /\ Scope(s, 1) = FirstScope(s)
         /\ \A i \in Nat \ {0} : Scope(s, i + 1) = AfterStep(StepsOf(s)[i], Scope(s, i))
<1> DEFINE Of(i) == CHOOSE g : AreScopes(g, s, i)
<1>1. ASSUME NEW i \in Nat PROVE AreScopes(Of(i), s, i) /\ Scope(s, i) = Of(i)[i]
  BY ScopesExist DEF Scope, AreScopes, FirstScope
<1> HIDE DEF Of
<1>2. Scope(s, 1) = FirstScope(s)
  BY <1>1 DEF AreScopes
<1>3. ASSUME NEW i \in Nat \ {0} PROVE Scope(s, i + 1) = AfterStep(StepsOf(s)[i], Scope(s, i))
  <2>1. Of(i + 1)[i + 1] = AfterStep(StepsOf(s)[i], Of(i + 1)[i])
    BY <1>1 DEF AreScopes
  <2>2. Of(i)[i] = Of(i + 1)[i]
    BY <1>1, ScopesAgree
  <2> QED
    BY <1>1, <2>1, <2>2
<1> QED
  BY <1>2, <1>3

\* An instruction gives one name a value, in the environment or as an argument.
LEMMA StepFacts ==
  ASSUME NEW step \in Instructions, NEW e, NEW a, NEW t
  PROVE  LET scope == [env |-> e, args |-> a, start |-> t]
             next == AfterStep(step, scope)
         IN  /\ step.op = "arg" /\ step.name \in DOMAIN given =>
                  next = [env |-> e, args |-> With(a, step.name, given[step.name]), start |-> e]
             /\ step.op = "arg" /\ step.name \notin DOMAIN given /\ step.text # NoDefault =>
                  next = [env |-> e, args |-> With(a, step.name, Meant(scope, step.text)),
                          start |-> e]
             /\ step.op = "arg" /\ step.name \notin DOMAIN given /\ step.text = NoDefault =>
                  next = [env |-> e, args |-> a, start |-> e]
             /\ step.op \notin {"env", "arg"} => next = [env |-> e, args |-> a, start |-> e]
BY DEF AfterStep

LEMMA EnvFacts ==
  ASSUME NEW step \in Instructions, step.op = "env", NEW e, NEW a, NEW t
  PROVE  AfterStep(step, [env |-> e, args |-> a, start |-> t]) =
           [env |-> With(e, step.name, Meant(Around(step, [env |-> e, args |-> a, start |-> t]),
                                             step.text)),
            args |-> a, start |-> IF step.joined THEN t ELSE e]
BY DEF AfterStep, Around

LEMMA WithFacts ==
  ASSUME NEW map, NEW x, NEW value
  PROVE  /\ DOMAIN With(map, x, value) = {x} \cup DOMAIN map
         /\ With(map, x, value)[x] = value
         /\ \A y \in DOMAIN map : y # x => With(map, x, value)[y] = map[y]
BY DEF With

Plain(s) == ~FromStage(s) /\ \A x \in NamesOf(s) : ~Surprising(s, x)

LEMMA FileFacts ==
  ASSUME file \in Dockerfiles
  PROVE  /\ Len(file) \in Nat /\ Len(file) # 0 /\ DOMAIN file = 1..Len(file)
         /\ \A s \in DOMAIN file :
              /\ StepsOf(s) \in Seq(Instructions)
              /\ Len(StepsOf(s)) \in Nat /\ DOMAIN StepsOf(s) = 1..Len(StepsOf(s))
              /\ \A i \in DOMAIN StepsOf(s) : StepsOf(s)[i] \in Instructions
<1>1. file \in Seq([alias : STRING, base : STRING, steps : Seq(Instructions)]) /\ file # <<>>
  BY FilesAssumption
<1>2. Len(file) \in Nat /\ Len(file) # 0 /\ DOMAIN file = 1..Len(file)
  BY <1>1
<1>3. ASSUME NEW s \in DOMAIN file
      PROVE  /\ StepsOf(s) \in Seq(Instructions)
             /\ Len(StepsOf(s)) \in Nat /\ DOMAIN StepsOf(s) = 1..Len(StepsOf(s))
             /\ \A i \in DOMAIN StepsOf(s) : StepsOf(s)[i] \in Instructions
  <2> DEFINE stages == [alias : STRING, base : STRING, steps : Seq(Instructions)]
  <2>1. file[s] \in stages
    <3>1. file \in Seq(stages)
      BY <1>1
    <3> HIDE DEF stages
    <3> QED
      BY <1>2, <1>3, <3>1
  <2>2. StepsOf(s) \in Seq(Instructions)
    BY <2>1 DEF StepsOf
  <2> QED
    BY <2>2
<1> QED
  BY <1>2, <1>3

IsScope(scope) ==
  scope = [env |-> scope.env, args |-> scope.args, start |-> scope.start]

\* The scope of a stage is two environments and arguments, and names stay in the first.
LEMMA ScopeGrows ==
  ASSUME file \in Dockerfiles, NEW s \in DOMAIN file
  PROVE  /\ \A i \in 1..(Len(StepsOf(s)) + 1) : IsScope(Scope(s, i))
         /\ \A i \in 1..Len(StepsOf(s)) :
              DOMAIN Scope(s, i).env \subseteq DOMAIN Scope(s, i + 1).env
<1> DEFINE n == Len(StepsOf(s))
           Fits(i) == IsScope(Scope(s, i))
<1>0. n \in Nat /\ DOMAIN StepsOf(s) = 1..n /\ \A i \in 1..n : StepsOf(s)[i] \in Instructions
  BY FileFacts
<1> HIDE DEF n
<1>1. Fits(1)
  BY ScopeSteps DEF FirstScope, IsScope
<1>2. ASSUME NEW i \in 1..n, Fits(i)
      PROVE  Fits(i + 1) /\ DOMAIN Scope(s, i).env \subseteq DOMAIN Scope(s, i + 1).env
  <2>1. PICK e, a, t : Scope(s, i) = [env |-> e, args |-> a, start |-> t]
    BY <1>2 DEF IsScope
  <2>2. Scope(s, i + 1) = AfterStep(StepsOf(s)[i], [env |-> e, args |-> a, start |-> t])
    <3>1. \A k \in Nat \ {0} : Scope(s, k + 1) = AfterStep(StepsOf(s)[k], Scope(s, k))
      BY ScopeSteps
    <3>2. i \in Nat \ {0}
      BY <1>0
    <3> QED
      BY <2>1, <3>1, <3>2
  <2> DEFINE step == StepsOf(s)[i]
  <2>3. \E f, b, u : /\ Scope(s, i + 1) = [env |-> f, args |-> b, start |-> u]
                     /\ DOMAIN e \subseteq DOMAIN f
    <3> DEFINE scope == [env |-> e, args |-> a, start |-> t]
               value == Meant(scope, step.text)
               other == Meant(Around(step, scope), step.text)
    <3>0. step \in Instructions
      BY <1>0
    <3> HIDE DEF step
    <3>1. CASE step.op = "env"
      <4>0. Scope(s, i + 1) = AfterStep(step, [env |-> e, args |-> a, start |-> t])
        BY <2>2 DEF step
      <4>1. AfterStep(step, [env |-> e, args |-> a, start |-> t]) =
              [env |-> With(e, step.name, other), args |-> a,
               start |-> IF step.joined THEN t ELSE e]
        BY <3>0, <3>1, EnvFacts
      <4>2. DOMAIN e \subseteq DOMAIN With(e, step.name, other)
        BY DEF With
      <4> DEFINE f == With(e, step.name, other)
                 u == IF step.joined THEN t ELSE e
      <4>3. Scope(s, i + 1) = [env |-> f, args |-> a, start |-> u] /\ DOMAIN e \subseteq DOMAIN f
        BY <4>0, <4>1, <4>2
      <4> HIDE DEF f, u
      <4> QED
        BY <4>3
    <3>2. CASE step.op # "env"
      <4>1. AfterStep(step, [env |-> e, args |-> a, start |-> t]) \in
               {[env |-> e, args |-> b, start |-> e] :
                  b \in {a, With(a, step.name, given[step.name]), With(a, step.name, value)}}
        BY <3>0, <3>2, StepFacts
      <4> HIDE DEF value
      <4> QED
        BY <2>2, <4>1 DEF step
    <3> QED
      BY <3>1, <3>2
  <2>4. PICK f, b, u : /\ Scope(s, i + 1) = [env |-> f, args |-> b, start |-> u]
                       /\ DOMAIN e \subseteq DOMAIN f
    BY <2>3
  <2> QED
    BY <2>1, <2>4 DEF IsScope
<1>3. \A i \in 1..(n + 1) : Fits(i)
  <2> DEFINE bad == {i \in 1..(n + 1) : ~Fits(i)}
  <2> SUFFICES ASSUME bad # {} PROVE FALSE
    OBVIOUS
  <2>1. PICK m \in bad : \A k \in bad : m <= k
    <3>1. bad \in SUBSET Nat
      BY <1>0
    <3> QED
      BY <3>1, LeastNumber
  <2>2. m # 1
    BY <1>1, <2>1
  <2>3. m - 1 \in 1..n /\ m - 1 \notin bad
    BY <1>0, <2>1, <2>2
  <2>4. Fits(m - 1)
    BY <1>0, <2>3
  <2>5. Fits(m - 1 + 1)
    BY <1>2, <2>3, <2>4
  <2> QED
    BY <1>0, <2>1, <2>5
<1> QED
  BY <1>0, <1>2, <1>3 DEF n

LEMMA NextScope ==
  ASSUME file \in Dockerfiles, NEW s \in DOMAIN file, NEW i \in 1..Len(StepsOf(s))
  PROVE  LET step == StepsOf(s)[i]
             e == Scope(s, i).env
             a == Scope(s, i).args
             t == Scope(s, i).start
             f == Scope(s, i + 1).env
             b == Scope(s, i + 1).args
             u == Scope(s, i + 1).start
         IN  /\ step \in Instructions
             /\ step.op = "env" =>
                  /\ f = With(e, step.name, Meant(Around(step, Scope(s, i)), step.text))
                  /\ b = a /\ u = IF step.joined THEN t ELSE e
             /\ step.op # "env" => f = e /\ u = e
             /\ step.op = "arg" /\ step.name \in DOMAIN given =>
                  b = With(a, step.name, given[step.name])
             /\ step.op = "arg" /\ step.name \notin DOMAIN given /\ step.text # NoDefault =>
                  b = With(a, step.name, Meant(Scope(s, i), step.text))
             /\ step.op = "arg" /\ step.name \notin DOMAIN given /\ step.text = NoDefault => b = a
             /\ step.op # "arg" => b = a
<1> DEFINE step == StepsOf(s)[i]
           value == Meant(Scope(s, i), step.text)
           other == Meant(Around(step, Scope(s, i)), step.text)
           next == Scope(s, i + 1)
<1>1. step \in Instructions /\ i \in Nat \ {0} /\ i \in 1..(Len(StepsOf(s)) + 1)
  BY FileFacts
<1>2. PICK e, a, t : Scope(s, i) = [env |-> e, args |-> a, start |-> t]
  BY <1>1, ScopeGrows DEF IsScope
<1>3. next = AfterStep(step, [env |-> e, args |-> a, start |-> t])
  <2>1. \A k \in Nat \ {0} : Scope(s, k + 1) = AfterStep(StepsOf(s)[k], Scope(s, k))
    BY ScopeSteps
  <2> QED
    BY <1>1, <1>2, <2>1
<1> HIDE DEF step, next
<1>4. e = Scope(s, i).env /\ a = Scope(s, i).args /\ t = Scope(s, i).start
  BY <1>2
<1>5. /\ step.op = "env" =>
           next = [env |-> With(e, step.name, other), args |-> a,
                   start |-> IF step.joined THEN t ELSE e]
      /\ step.op = "arg" /\ step.name \in DOMAIN given =>
           next = [env |-> e, args |-> With(a, step.name, given[step.name]), start |-> e]
      /\ step.op = "arg" /\ step.name \notin DOMAIN given /\ step.text # NoDefault =>
           next = [env |-> e, args |-> With(a, step.name, value), start |-> e]
      /\ step.op = "arg" /\ step.name \notin DOMAIN given /\ step.text = NoDefault =>
           next = [env |-> e, args |-> a, start |-> e]
      /\ step.op \notin {"env", "arg"} => next = [env |-> e, args |-> a, start |-> e]
  BY <1>1, <1>2, <1>3, StepFacts, EnvFacts
<1>6. step.op = "arg" \/ step.op = "env" \/ step.op \notin {"env", "arg"}
  OBVIOUS
<1>7. step.op = "env" => /\ next.env = With(e, step.name, other) /\ next.args = a
                         /\ next.start = IF step.joined THEN t ELSE e
  BY <1>5
<1>8. step.op # "env" => next.env = e /\ next.start = e
  BY <1>5, <1>6
<1>9. /\ step.op = "arg" /\ step.name \in DOMAIN given =>
           next.args = With(a, step.name, given[step.name])
      /\ step.op = "arg" /\ step.name \notin DOMAIN given /\ step.text # NoDefault =>
           next.args = With(a, step.name, value)
      /\ step.op = "arg" /\ step.name \notin DOMAIN given /\ step.text = NoDefault => next.args = a
      /\ step.op # "arg" => next.args = a
  BY <1>5, <1>6
<1> QED
  BY <1>1, <1>4, <1>7, <1>8, <1>9 DEF step, next

\* What the ENV that ends before the i-th instruction has not set is as it was.
NotSet(s, x, i) ==
  \A j \in DOMAIN StepsOf(s) : SameEnv(s, j, i - 1) \/ j = i - 1 => StepsOf(s)[j].name # x

Alike(e, f, x) == (x \in DOMAIN e <=> x \in DOMAIN f) /\ (x \in DOMAIN e => e[x] = f[x])

LEMMA StartAgrees ==
  ASSUME file \in Dockerfiles, NEW s \in DOMAIN file, NEW x
  PROVE  \A i \in 1..(Len(StepsOf(s)) + 1) :
           NotSet(s, x, i) => Alike(Scope(s, i).start, Scope(s, i).env, x)
<1> DEFINE n == Len(StepsOf(s))
           Good(i) == NotSet(s, x, i) => Alike(Scope(s, i).start, Scope(s, i).env, x)
<1>0. n \in Nat /\ DOMAIN StepsOf(s) = 1..n
  BY FileFacts
<1>1. Good(1)
  BY ScopeSteps DEF FirstScope, Alike
<1>2. ASSUME NEW i \in 1..n, Good(i) PROVE Good(i + 1)
  <2> SUFFICES ASSUME NotSet(s, x, i + 1)
               PROVE  Alike(Scope(s, i + 1).start, Scope(s, i + 1).env, x)
    OBVIOUS
  <2> DEFINE step == StepsOf(s)[i]
             e == Scope(s, i).env
             t == Scope(s, i).start
             value == Meant(Around(step, Scope(s, i)), step.text)
  <2>1. /\ step.op = "env" => /\ Scope(s, i + 1).env = With(e, step.name, value)
                              /\ Scope(s, i + 1).start = IF step.joined THEN t ELSE e
        /\ step.op # "env" => Scope(s, i + 1).env = e /\ Scope(s, i + 1).start = e
    BY NextScope
  <2>2. i + 1 - 1 = i /\ i \in DOMAIN StepsOf(s)
    BY <1>0
  <2>3. step.name # x
    BY <2>2 DEF NotSet
  <2> HIDE DEF e, t, value
  <2>4. Alike(e, With(e, step.name, value), x)
    BY <2>3 DEF With, Alike
  <2>5. step.joined => NotSet(s, x, i)
    <3> SUFFICES ASSUME step.joined, NEW j \in DOMAIN StepsOf(s),
                        SameEnv(s, j, i - 1) \/ j = i - 1
                 PROVE  StepsOf(s)[j].name # x
      BY DEF NotSet
    <3>1. j < i /\ i \in Int /\ j \in Int
      BY <1>0 DEF SameEnv
    <3>2. \A k \in (j + 1)..i : k = i \/ k \in (j + 1)..(i - 1)
      BY <3>1
    <3>3. \A k \in (j + 1)..(i - 1) : StepsOf(s)[k].joined
      BY <3>1 DEF SameEnv
    <3>4. SameEnv(s, j, i)
      BY <3>1, <3>2, <3>3 DEF SameEnv
    <3> QED
      BY <2>2, <3>4 DEF NotSet
  <2>6. step.joined => Alike(t, e, x)
    BY <1>2, <2>5 DEF t, e
  <2>7. Alike(e, e, x)
    BY DEF Alike
  <2>8. CASE step.op # "env"
    BY <2>1, <2>7, <2>8
  <2>9. CASE step.op = "env"
    BY <2>1, <2>4, <2>6, <2>9 DEF Alike
  <2> QED
    BY <2>8, <2>9
<1> DEFINE bad == {i \in 1..(n + 1) : ~Good(i)}
<1> SUFFICES ASSUME bad # {} PROVE FALSE
  OBVIOUS
<1> HIDE DEF n
<1>3. PICK m \in bad : \A k \in bad : m <= k
  <2>1. bad \in SUBSET Nat
    BY <1>0
  <2> QED
    BY <2>1, LeastNumber
<1>4. m # 1
  BY <1>1, <1>3
<1>5. m - 1 \in 1..n /\ m - 1 \notin bad
  BY <1>0, <1>3, <1>4
<1>6. Good(m - 1)
  BY <1>0, <1>5
<1>7. Good(m - 1 + 1)
  BY <1>2, <1>5, <1>6
<1> QED
  BY <1>0, <1>3, <1>7

\* In a plain stage a pair of an ENV means the same wherever its ENV started.
LEMMA PairsAgree ==
  ASSUME file \in Dockerfiles, NEW s \in DOMAIN file, NEW i \in 1..Len(StepsOf(s)), Plain(s)
  PROVE  LET step == StepsOf(s)[i]
         IN  /\ step.text[1] # "orelse"
             /\ step.op = "workdir" => step.text[1] # "ref"
             /\ step.op = "env" => Meant(Around(step, Scope(s, i)), step.text) =
                                   Meant(Scope(s, i), step.text)
<1> DEFINE step == StepsOf(s)[i]
           scope == Scope(s, i)
           x == step.text[2]
<1>1. /\ i \in DOMAIN StepsOf(s) /\ i \in 1..(Len(StepsOf(s)) + 1) /\ i \in Int
      /\ step \in Instructions /\ step \in Range(StepsOf(s))
  BY FileFacts DEF Range
<1>2. step.text = <<step.text[1], x>>
  <2> HIDE DEF step
  <2>1. step.text \in {"word", "ref", "orelse", "none"} \X STRING
    BY <1>1 DEF Instructions
  <2> QED
    BY <2>1 DEF step
<1>3. step.text[1] \in {"ref", "orelse"} => ~Surprising(s, x)
  <2>1. step.text[1] \in {"ref", "orelse"} => x \in NamesOf(s)
    BY <1>1 DEF NamesOf
  <2> QED
    BY <2>1 DEF Plain
<1>4. step.text[1] # "orelse"
  BY <1>1, <1>2, <1>3 DEF Surprising
<1>5. step.op = "workdir" => step.text[1] # "ref"
  BY <1>1, <1>2, <1>3 DEF Surprising
<1>6. ASSUME step.joined, step.text[1] = "ref"
      PROVE  Alike(scope.start, scope.env, x)
  <2>1. \A j \in DOMAIN StepsOf(s) : ~(SameEnv(s, j, i) /\ StepsOf(s)[j].name = x)
    BY <1>1, <1>2, <1>3, <1>6 DEF Surprising
  <2>2. ASSUME NEW j \in DOMAIN StepsOf(s), SameEnv(s, j, i - 1) \/ j = i - 1
        PROVE  SameEnv(s, j, i)
    <3>1. j \in Int /\ j < i
      BY <1>1, <2>2, FileFacts DEF SameEnv
    <3>2. \A k \in (j + 1)..i : k = i \/ k \in (j + 1)..(i - 1)
      BY <1>1, <3>1
    <3>3. \A k \in (j + 1)..(i - 1) : StepsOf(s)[k].joined
      BY <1>1, <2>2, <3>1 DEF SameEnv
    <3> QED
      BY <1>6, <3>1, <3>2, <3>3 DEF SameEnv
  <2>3. NotSet(s, x, i)
    BY <2>1, <2>2 DEF NotSet
  <2> QED
    BY <1>1, <2>3, StartAgrees
<1>7. PICK e, a, t : scope = [env |-> e, args |-> a, start |-> t]
  BY <1>1, ScopeGrows DEF IsScope
<1> HIDE DEF step, scope, x
<1>8. Meant(Around(step, scope), step.text) = Meant(scope, step.text)
  <2>1. CASE ~step.joined
    BY <2>1 DEF Around
  <2>2. CASE step.joined /\ step.text[1] = "ref"
    <3>1. Around(step, scope) = [env |-> t, args |-> a, start |-> t]
      BY <1>7, <2>2 DEF Around
    <3>2. Alike(t, e, x)
      BY <1>6, <1>7, <2>2
    <3>3. Lookup(t, a, x) = Lookup(e, a, x)
      BY <3>2 DEF Alike, Lookup
    <3> QED
      BY <1>7, <2>2, <3>1, <3>3 DEF Meant, x
  <2>3. CASE step.text[1] # "ref"
    BY <1>4, <2>3 DEF Meant
  <2> QED
    BY <2>1, <2>2, <2>3
<1> QED
  BY <1>4, <1>5, <1>8 DEF step, scope

\* The argument x in the scope before the i-th instruction, of a stage with one ARG of
\* it whose default refers to nothing.
ArgSettled(s, x, i) ==
  LET a == Scope(s, i).args
  IN  /\ x \in DOMAIN a <=> \E j \in ArgSteps(s, x) :
                               j < i /\ (x \in DOMAIN given \/ StepsOf(s)[j].text # NoDefault)
      /\ \A j \in ArgSteps(s, x) :
           x \in DOMAIN a => a[x] = IF x \in DOMAIN given THEN given[x] ELSE StepsOf(s)[j].text

LEMMA ArgsSettle ==
  ASSUME file \in Dockerfiles, NEW s \in DOMAIN file, NEW x,
         \A i, j \in ArgSteps(s, x) : i = j,
         \A j \in ArgSteps(s, x) :
           x \in DOMAIN given \/ StepsOf(s)[j].text[1] \notin {"ref", "orelse"}
  PROVE  \A i \in 1..(Len(StepsOf(s)) + 1) : ArgSettled(s, x, i)
<1> DEFINE n == Len(StepsOf(s))
<1>0. n \in Nat /\ DOMAIN StepsOf(s) = 1..n
  BY FileFacts
<1>1. ArgSettled(s, x, 1)
  <2>1. Scope(s, 1).args = <<>>
    BY ScopeSteps DEF FirstScope
  <2>2. DOMAIN Scope(s, 1).args = {}
    BY <2>1
  <2>3. \A j \in ArgSteps(s, x) : ~(j < 1)
    BY <1>0 DEF ArgSteps
  <2> QED
    BY <2>2, <2>3 DEF ArgSettled
<1>2. ASSUME NEW i \in 1..n, ArgSettled(s, x, i) PROVE ArgSettled(s, x, i + 1)
  <2> DEFINE step == StepsOf(s)[i]
             a == Scope(s, i).args
             b == Scope(s, i + 1).args
             value == Meant(Scope(s, i), step.text)
  <2>1. /\ step \in Instructions
        /\ step.op = "arg" /\ step.name \in DOMAIN given => b = With(a, step.name, given[step.name])
        /\ step.op = "arg" /\ step.name \notin DOMAIN given /\ step.text # NoDefault =>
             b = With(a, step.name, value)
        /\ step.op = "arg" /\ step.name \notin DOMAIN given /\ step.text = NoDefault => b = a
        /\ step.op # "arg" => b = a
    BY NextScope
  <2>2. step.text[1] \notin {"ref", "orelse"} => value = step.text
    BY DEF Meant
  <2>3. i \in ArgSteps(s, x) <=> step.op = "arg" /\ step.name = x
    BY <1>0 DEF ArgSteps
  <2>4. \A j \in ArgSteps(s, x) : j \in Nat /\ (j < i + 1 <=> j < i \/ j = i)
    BY <1>0 DEF ArgSteps
  <2>5. /\ x \in DOMAIN a <=> \E j \in ArgSteps(s, x) :
                 j < i /\ (x \in DOMAIN given \/ StepsOf(s)[j].text # NoDefault)
        /\ \A j \in ArgSteps(s, x) :
             x \in DOMAIN a => a[x] = IF x \in DOMAIN given THEN given[x] ELSE StepsOf(s)[j].text
    BY <1>2 DEF ArgSettled
  <2> HIDE DEF a, b, value, n
  <2>6. CASE ~(step.op = "arg" /\ step.name = x)
    <3>1. (x \in DOMAIN b <=> x \in DOMAIN a) /\ (x \in DOMAIN a => b[x] = a[x])
      BY <2>1, <2>6 DEF With
    <3>2. \A j \in ArgSteps(s, x) : j < i + 1 <=> j < i
      BY <2>3, <2>4, <2>6
    <3> QED
      BY <2>5, <3>1, <3>2 DEF ArgSettled, b
  <2>7. CASE step.op = "arg" /\ step.name = x
    <3>1. ArgSteps(s, x) = {i} /\ x \notin DOMAIN a
      BY <2>3, <2>4, <2>5, <2>7
    <3>2. x \in DOMAIN given => x \in DOMAIN b /\ b[x] = given[x]
      BY <2>1, <2>7 DEF With
    <3>3. x \notin DOMAIN given /\ step.text # NoDefault => x \in DOMAIN b /\ b[x] = step.text
      BY <2>1, <2>2, <2>7, <3>1 DEF With
    <3>4. x \notin DOMAIN given /\ step.text = NoDefault => x \notin DOMAIN b
      BY <2>1, <2>7, <3>1
    <3>5. i < i + 1
      BY <1>0
    <3> QED
      BY <3>1, <3>2, <3>3, <3>4, <3>5 DEF ArgSettled, b
  <2> QED
    BY <2>6, <2>7
<1> DEFINE bad == {i \in 1..(n + 1) : ~ArgSettled(s, x, i)}
<1> SUFFICES ASSUME bad # {} PROVE FALSE
  OBVIOUS
<1> HIDE DEF n
<1>3. PICK m \in bad : \A k \in bad : m <= k
  <2>1. bad \in SUBSET Nat
    BY <1>0
  <2> QED
    BY <2>1, LeastNumber
<1>4. m # 1
  BY <1>1, <1>3
<1>5. m - 1 \in 1..n /\ m - 1 \notin bad
  BY <1>0, <1>3, <1>4
<1>6. ArgSettled(s, x, m - 1)
  BY <1>0, <1>5
<1>7. ArgSettled(s, x, m - 1 + 1)
  BY <1>2, <1>5, <1>6
<1> QED
  BY <1>0, <1>3, <1>7

LEMMA EnvironmentGrows ==
  ASSUME file \in Dockerfiles, NEW s \in DOMAIN file, NEW i \in 1..(Len(StepsOf(s)) + 1)
  PROVE  DOMAIN Scope(s, i).env \subseteq DOMAIN Scope(s, Len(StepsOf(s)) + 1).env
<1> DEFINE n == Len(StepsOf(s))
           In(k) == DOMAIN Scope(s, i).env \subseteq DOMAIN Scope(s, k).env
           bad == {k \in i..(n + 1) : ~In(k)}
<1>0. n \in Nat /\ \A k \in 1..n : DOMAIN Scope(s, k).env \subseteq DOMAIN Scope(s, k + 1).env
  BY FileFacts, ScopeGrows
<1> HIDE DEF n
<1>1. ASSUME bad # {} PROVE FALSE
  <2>1. PICK m \in bad : \A k \in bad : m <= k
    <3>1. bad \in SUBSET Nat
      BY <1>0
    <3> QED
      BY <1>1, <3>1, LeastNumber
  <2>2. m \in i..(n + 1) /\ m # i
    BY <2>1
  <2>3. m - 1 \in i..(n + 1) /\ m - 1 \in 1..n /\ m - 1 + 1 = m /\ m - 1 \notin bad
    BY <1>0, <2>1, <2>2 DEF n
  <2>4. In(m - 1) /\ ~In(m)
    BY <2>1, <2>3
  <2>5. DOMAIN Scope(s, m - 1).env \subseteq DOMAIN Scope(s, m - 1 + 1).env
    BY <1>0, <2>3
  <2> QED
    BY <2>3, <2>4, <2>5
<1>2. n + 1 \in i..(n + 1)
  BY <1>0 DEF n
<1> QED
  BY <1>1, <1>2 DEF n

\* qbuild has the arguments of the whole stage from its start and looks a name up in
\* one order in RUN and in the other elsewhere; for a plain name both find what Docker
\* finds.
LEMMA LookupsAgree ==
  ASSUME file \in Dockerfiles, NEW s \in DOMAIN file, NEW i \in 1..Len(StepsOf(s)),
         NEW x, ~Surprising(s, x), Reads(StepsOf(s)[i], x), StepsOf(s)[i].op # "arg"
  PROVE  LET scope == Scope(s, i)
             meant == Lookup(scope.env, scope.args, x)
         IN  Lookup(Collected(s), scope.env, x) = meant /\ Lookup(scope.env, Collected(s), x) = meant
<1> DEFINE n == Len(StepsOf(s))
           e == Scope(s, i).env
           a == Scope(s, i).args
           c == Collected(s)
<1>0. /\ n \in Nat /\ DOMAIN StepsOf(s) = 1..n /\ s \in Nat \ {0}
      /\ i \in 1..(n + 1) /\ \A j \in ArgSteps(s, x) : j \in 1..n
  BY FileFacts DEF ArgSteps
<1>1. /\ x \in DOMAIN given => ArgSteps(s, x) # {}
      /\ \A t \in 1..(s - 1) : ArgSteps(t, x) = {}
      /\ \A k, j \in ArgSteps(s, x) : k = j
      /\ \A j \in ArgSteps(s, x) :
           /\ \A k \in 1..(j - 1) : ~Reads(StepsOf(s)[k], x)
           /\ x \in DOMAIN given \/ StepsOf(s)[j].text[1] \notin {"ref", "orelse"}
           /\ x \notin DOMAIN Scope(s, n + 1).env
  BY DEF Surprising
<1>2. ArgSettled(s, x, i)
  BY <1>0, <1>1, ArgsSettle
<1>3. x \in DOMAIN a <=> \E j \in ArgSteps(s, x) :
                            j < i /\ (x \in DOMAIN given \/ StepsOf(s)[j].text # NoDefault)
  BY <1>2 DEF ArgSettled
<1>4. \A j \in ArgSteps(s, x) :
        x \in DOMAIN a => a[x] = IF x \in DOMAIN given THEN given[x] ELSE StepsOf(s)[j].text
  BY <1>2 DEF ArgSettled
<1>5. Declaring(s, x) = {t \in {s} : ArgSteps(t, x) # {}}
  BY <1>0, <1>1 DEF Declaring
<1>6. DOMAIN c = DOMAIN given \cup Declared(s)
  BY DEF Collected
<1>7. CASE ArgSteps(s, x) = {}
  <2>1. x \notin Declared(s)
    BY <1>5, <1>7 DEF Declared
  <2>2. x \notin DOMAIN c /\ x \notin DOMAIN a
    BY <1>1, <1>3, <1>6, <1>7, <2>1
  <2> HIDE DEF a, c, e
  <2>3. Lookup(c, e, x) = Lookup(e, a, x) /\ Lookup(e, c, x) = Lookup(e, a, x)
    BY <2>2 DEF Lookup
  <2> QED
    BY <2>3 DEF a, c, e
<1>8. ASSUME NEW j \in ArgSteps(s, x)
      PROVE  Lookup(c, e, x) = Lookup(e, a, x) /\ Lookup(e, c, x) = Lookup(e, a, x)
  <2>1. j \in 1..n /\ StepsOf(s)[j].op = "arg" /\ StepsOf(s)[j].name = x
    BY <1>0 DEF ArgSteps
  <2>2. j < i
    <3>1. ~(i \in 1..(j - 1))
      BY <1>1
    <3>2. i # j
      BY <2>1
    <3> QED
      BY <1>0, <2>1, <3>1, <3>2
  <2>3. x \notin DOMAIN e
    BY <1>0, <1>1, EnvironmentGrows
  <2>4. ArgSteps(s, x) = {j} /\ Declaring(s, x) = {s}
    BY <1>1, <1>5
  <2>5. x \in Declared(s)
    <3>1. StepsOf(s)[j] \in Range(StepsOf(s))
      BY <1>0, <2>1 DEF Range
    <3>2. s \in 1..s
      BY <1>0
    <3> QED
      BY <2>1, <2>4, <3>1, <3>2 DEF Declared
  <2>6. FirstDefault(s, x) = Default(StepsOf(s)[j].text)
    <3>1. \A m \in Nat : Min({m}) = m
      BY DEF Min
    <3> QED
      BY <1>0, <2>1, <2>4, <3>1 DEF FirstDefault
  <2>7. x \in DOMAIN c /\ c[x] = IF x \in DOMAIN given THEN given[x] ELSE Default(StepsOf(s)[j].text)
    BY <1>6, <2>5, <2>6 DEF Collected
  <2>8. x \in DOMAIN a <=> x \in DOMAIN given \/ StepsOf(s)[j].text # NoDefault
    BY <1>3, <2>2, <2>4
  <2>9. x \in DOMAIN a => a[x] = c[x]
    BY <1>4, <2>7, <2>8 DEF Default
  <2>10. x \notin DOMAIN a => c[x] = Empty
    BY <2>7, <2>8 DEF Default
  <2> HIDE DEF a, c, e
  <2> QED
    BY <2>3, <2>7, <2>9, <2>10 DEF Lookup
<1> QED
  BY <1>7, <1>8

LEMMA AskedKept ==
  ASSUME UNCHANGED asked
  PROVE  /\ TargetIndices' = TargetIndices
         /\ \A s : /\ StepsOf(s)' = StepsOf(s) /\ Collected(s)' = Collected(s)
                   /\ Plain(s)' = Plain(s)
                   /\ \A i : Scope(s, i)' = Scope(s, i)
<1>1. file' = file /\ given' = given /\ target' = target
  BY DEF asked
<1>2. TargetIndices' = TargetIndices
  BY <1>1 DEF TargetIndices
<1>3. \A s : StepsOf(s)' = StepsOf(s)
  BY <1>1 DEF StepsOf
<1>4. \A s, x : ArgSteps(s, x)' = ArgSteps(s, x)
  BY <1>3 DEF ArgSteps
<1>5. \A s : Collected(s)' = Collected(s)
  <2>1. \A s, x : Declaring(s, x)' = Declaring(s, x)
    BY <1>4 DEF Declaring
  <2>2. \A s : Declared(s)' = Declared(s)
    BY <1>3, <2>1 DEF Declared
  <2>3. \A s, x : FirstDefault(s, x)' = FirstDefault(s, x)
    BY <1>3, <1>4, <2>1 DEF FirstDefault
  <2> QED
    BY <1>1, <2>2, <2>3 DEF Collected
<1>6. \A s, i : Scope(s, i)' = Scope(s, i)
  BY <1>1 DEF Scope, AfterStep, Around, StepsOf, Meant, Lookup, With
<1>7. \A s : Plain(s)' = Plain(s)
  <2>1. \A s : FromStage(s)' = FromStage(s)
    BY <1>1 DEF FromStage
  <2>2. \A s : NamesOf(s)' = NamesOf(s)
    BY <1>3 DEF NamesOf
  <2>3. \A s, j, i : SameEnv(s, j, i)' = SameEnv(s, j, i)
    BY <1>3 DEF SameEnv
  <2>4. \A s, x : Surprising(s, x)' = Surprising(s, x)
    BY <1>1, <1>3, <1>4, <1>6, <2>3 DEF Surprising, Reads
  <2> QED
    BY <2>1, <2>2, <2>4 DEF Plain
<1> QED
  BY <1>2, <1>3, <1>5, <1>6, <1>7

\* What the instructions of stage s read is what Docker says.
UsesFit(s, reads) ==
  \A i \in DOMAIN reads :
    reads[i].value = Meant(Scope(s, reads[i].step), reads[i].text)

\* The stage that is built: its arguments do not change while it is, and its
\* environment is Docker's.
StageFits ==
  ending = "building" /\ upnext # 0 =>
    /\ upnext \in 1..(Len(StepsOf(stage)) + 1)
    /\ TargetIndices # {}
    /\ args = Collected(stage)
    /\ Len(uses) \in Nat /\ uses = [i \in 1..Len(uses) |-> uses[i]]
    /\ Plain(stage) => env = Scope(stage, upnext).env /\ UsesFit(stage, uses)

OutputsFit ==
  /\ Len(outputs) \in Nat /\ outputs = [s \in 1..Len(outputs) |-> outputs[s]]
  /\ \A s \in DOMAIN outputs :
       Plain(s) => /\ outputs[s].env = Scope(s, Len(StepsOf(s)) + 1).env
                   /\ UsesFit(s, outputs[s].uses)

OrderFits ==
  /\ file \in Dockerfiles /\ upnext \in Nat
  /\ ending = "building" =>
       /\ stage \in DOMAIN file /\ Len(outputs) = stage - 1
       /\ \A t \in TargetIndices : stage <= t

ArgsInv == OrderFits /\ OutputsFit /\ StageFits

LEMMA Appended ==
  ASSUME NEW s, NEW x, Len(s) \in Nat, s = [i \in 1..Len(s) |-> s[i]]
  PROVE  Append(s, x) = [i \in 1..(Len(s) + 1) |-> IF i = Len(s) + 1 THEN x ELSE s[i]]
<1> DEFINE members == {x} \cup {s[i] : i \in 1..Len(s)}
<1>1. s \in Seq(members) /\ x \in members
  <2>1. \A i \in 1..Len(s) : s[i] \in members
    OBVIOUS
  <2> HIDE DEF members
  <2>2. s \in [1..Len(s) -> members]
    BY <2>1
  <2> QED
    BY <2>2 DEF members
<1> HIDE DEF members
<1>2. /\ Append(s, x) \in Seq(members) /\ Len(Append(s, x)) = Len(s) + 1
      /\ \A i \in 1..Len(s) : Append(s, x)[i] = s[i]
      /\ Append(s, x)[Len(s) + 1] = x
  BY <1>1, AppendProperties
<1>3. Append(s, x) = [i \in 1..(Len(s) + 1) |-> Append(s, x)[i]]
  <2> DEFINE all == Append(s, x)
  <2>1. all \in Seq(members) /\ Len(all) = Len(s) + 1
    BY <1>2
  <2> HIDE DEF all
  <2>2. all = [i \in 1..Len(all) |-> all[i]]
    BY <2>1
  <2> QED
    BY <2>1, <2>2 DEF all
<1>4. ASSUME NEW i \in 1..(Len(s) + 1)
      PROVE  Append(s, x)[i] = IF i = Len(s) + 1 THEN x ELSE s[i]
  <2>1. CASE i = Len(s) + 1
    BY <1>2, <2>1
  <2>2. CASE i # Len(s) + 1
    <3>1. i \in 1..Len(s)
      BY <2>2
    <3> QED
      BY <1>2, <2>2, <3>1
  <2> QED
    BY <2>1, <2>2
<1> QED
  BY <1>3, <1>4

LEMMA TargetFacts ==
  ASSUME file \in Dockerfiles
  PROVE  TargetIndices \subseteq DOMAIN file /\ \A t, u \in TargetIndices : t = u
<1>1. Len(file) \in Nat /\ Len(file) # 0 /\ DOMAIN file = 1..Len(file)
  BY FileFacts
<1>2. CASE target = NoTarget
  BY <1>1, <1>2 DEF TargetIndices
<1>3. CASE target # NoTarget
  <2>1. \A t \in TargetIndices : /\ t \in 1..Len(file) /\ file[t].alias = target
                                 /\ \A u \in 1..(t - 1) : file[u].alias # target
    BY <1>1, <1>3 DEF TargetIndices
  <2>2. \A t, u \in TargetIndices : ~(u \in 1..(t - 1))
    BY <2>1
  <2> QED
    BY <1>1, <2>1, <2>2
<1> QED
  BY <1>2, <1>3

LEMMA ArgsInitFits == ArgsInit => ArgsInv
<1> SUFFICES ASSUME ArgsInit PROVE ArgsInv
  OBVIOUS
<1>1. file \in Dockerfiles /\ stage = 1 /\ upnext = 0 /\ outputs = <<>>
  BY DEF ArgsInit
<1>2. \A t \in TargetIndices : 1 <= t
  BY <1>1, FileFacts, TargetFacts
<1>3. Len(outputs) = 0 /\ DOMAIN outputs = {} /\ outputs = [s \in 1..0 |-> outputs[s]]
  BY <1>1
<1>4. 1 \in DOMAIN file
  BY <1>1, FileFacts
<1> QED
  BY <1>1, <1>2, <1>3, <1>4 DEF ArgsInv, OrderFits, OutputsFit, StageFits

\* An instruction of the stage that reads nothing, or reads what it should.
LEMMA ReadFits ==
  ASSUME ArgsInv, ending = "building", upnext \in DOMAIN StepsOf(stage), upnext # 0,
         Plain(stage), NEW x, Reads(Current, x), Current.op # "arg", x \in NamesOf(stage)
  PROVE  LET meant == Meant(Scope(stage, upnext), <<"ref", x>>)
         IN  Lookup(args, env, x) = meant /\ Lookup(env, args, x) = meant
<1> DEFINE scope == Scope(stage, upnext)
<1>1. /\ file \in Dockerfiles /\ stage \in DOMAIN file
      /\ args = Collected(stage) /\ env = scope.env
  BY DEF ArgsInv, OrderFits, StageFits
<1>2. upnext \in 1..Len(StepsOf(stage)) /\ ~Surprising(stage, x)
  BY <1>1, FileFacts DEF Plain
<1>3. /\ Lookup(Collected(stage), scope.env, x) = Lookup(scope.env, scope.args, x)
      /\ Lookup(scope.env, Collected(stage), x) = Lookup(scope.env, scope.args, x)
  BY <1>1, <1>2, LookupsAgree DEF Current
<1>4. Meant(scope, <<"ref", x>>) = Lookup(scope.env, scope.args, x)
  BY DEF Meant
<1> QED
  BY <1>1, <1>3, <1>4

LEMMA NamesInStage ==
  ASSUME file \in Dockerfiles, NEW s \in DOMAIN file, NEW i \in DOMAIN StepsOf(s)
  PROVE  /\ StepsOf(s)[i].name \in NamesOf(s)
         /\ StepsOf(s)[i].text[1] = "ref" =>
              /\ StepsOf(s)[i].text[2] \in NamesOf(s)
              /\ StepsOf(s)[i].text = <<"ref", StepsOf(s)[i].text[2]>>
<1> DEFINE step == StepsOf(s)[i]
<1>1. step \in Range(StepsOf(s))
  BY DEF Range
<1>2. step \in Instructions
  BY FileFacts
<1> HIDE DEF step
<1>3. step.text \in {"word", "ref", "orelse", "none"} \X STRING
  BY <1>2 DEF Instructions
<1>4. step.text = <<step.text[1], step.text[2]>>
  BY <1>3
<1> QED
  BY <1>1, <1>4 DEF NamesOf, step

\* An instruction of the stage that is carried out.
LEMMA InstructionStep ==
  ASSUME ArgsInv, NEW op, AtStep(op), upnext # 0,
         args' = args,
         Plain(stage) => env' = Scope(stage, upnext + 1).env,
         \/ uses' = uses
         \/ \E way, text, value : /\ Read(way, text, value)
                                  /\ Plain(stage) => value = Meant(Scope(stage, upnext), text)
  PROVE  ArgsInv'
<1> DEFINE n == Len(StepsOf(stage))
<1>1. /\ ending = "building" /\ upnext' = upnext + 1 /\ upnext \in DOMAIN StepsOf(stage)
      /\ UNCHANGED <<stage, outputs, ending>> /\ UNCHANGED asked
  BY DEF AtStep
<1>2. /\ TargetIndices' = TargetIndices
      /\ \A s : /\ StepsOf(s)' = StepsOf(s) /\ Collected(s)' = Collected(s)
                /\ Plain(s)' = Plain(s) /\ \A i : Scope(s, i)' = Scope(s, i)
  BY <1>1, AskedKept
<1>3. /\ file \in Dockerfiles /\ file' = file /\ stage \in DOMAIN file /\ TargetIndices # {}
      /\ args = Collected(stage)
      /\ Len(uses) \in Nat /\ uses = [i \in 1..Len(uses) |-> uses[i]]
      /\ Plain(stage) => UsesFit(stage, uses)
  BY <1>1 DEF ArgsInv, OrderFits, StageFits, asked
<1>4. n \in Nat /\ DOMAIN StepsOf(stage) = 1..n /\ upnext \in 1..n /\ upnext' \in 1..(n + 1)
  BY <1>1, <1>3, FileFacts
<1>5. OrderFits' /\ OutputsFit'
  <2>1. OrderFits'
    BY <1>1, <1>2, <1>3, <1>4 DEF ArgsInv, OrderFits
  <2>2. \A s, reads : UsesFit(s, reads)' = UsesFit(s, reads)
    BY <1>2 DEF UsesFit, Meant
  <2> QED
    BY <1>1, <1>2, <2>1, <2>2 DEF ArgsInv, OutputsFit
<1>6. /\ Len(uses') \in Nat /\ uses' = [i \in 1..Len(uses') |-> uses'[i]]
      /\ Plain(stage) => \A i \in DOMAIN uses' :
           uses'[i].value = Meant(Scope(stage, uses'[i].step), uses'[i].text)
  <2>1. CASE uses' = uses
    BY <1>3, <2>1 DEF UsesFit
  <2>2. ASSUME NEW way, NEW text, NEW value, Read(way, text, value),
               Plain(stage) => value = Meant(Scope(stage, upnext), text)
        PROVE  /\ Len(uses') \in Nat /\ uses' = [i \in 1..Len(uses') |-> uses'[i]]
               /\ Plain(stage) => \A i \in DOMAIN uses' :
                    uses'[i].value = Meant(Scope(stage, uses'[i].step), uses'[i].text)
    <3> DEFINE use == [step |-> upnext, way |-> way, text |-> text, value |-> value]
               all == [i \in 1..(Len(uses) + 1) |-> IF i = Len(uses) + 1 THEN use ELSE uses[i]]
    <3>1. uses' = all
      <4>1. uses' = Append(uses, use)
        BY <2>2 DEF Read
      <4> HIDE DEF use
      <4> QED
        BY <1>3, <4>1, Appended, ZenonT(60)
    <3>2. Len(all) = Len(uses) + 1 /\ DOMAIN all = 1..(Len(uses) + 1)
      BY <1>3
    <3>3. use.step = upnext /\ use.text = text /\ use.value = value
      OBVIOUS
    <3> HIDE DEF use
    <3>4. all[Len(uses) + 1] = use /\ \A i \in 1..Len(uses) : all[i] = uses[i]
      BY <1>3
    <3> HIDE DEF all
    <3>5. ASSUME Plain(stage), NEW i \in DOMAIN all
          PROVE  all[i].value = Meant(Scope(stage, all[i].step), all[i].text)
      <4>1. CASE i = Len(uses) + 1
        BY <2>2, <3>3, <3>4, <3>5, <4>1
      <4>2. CASE i # Len(uses) + 1
        <5>1. i \in 1..Len(uses) /\ i \in DOMAIN uses
          BY <1>3, <3>2, <3>5, <4>2
        <5> QED
          BY <1>3, <3>4, <3>5, <5>1 DEF UsesFit
      <4> QED
        BY <4>1, <4>2
    <3>6. all = [i \in 1..Len(all) |-> all[i]]
      BY <1>3, <3>2 DEF all
    <3> QED
      BY <1>3, <3>1, <3>2, <3>5, <3>6
  <2> QED
    BY <2>1, <2>2
<1>7. Plain(stage) => UsesFit(stage, uses)'
  <2>1. stage' = stage
    BY <1>1
  <2> QED
    BY <1>2, <1>6, <2>1 DEF UsesFit, Meant
<1>8. StageFits'
  BY <1>1, <1>2, <1>3, <1>4, <1>6, <1>7 DEF StageFits
<1> QED
  BY <1>5, <1>8 DEF ArgsInv

LEMMA ArgsStep == ArgsInv /\ [ArgsNext]_argVars => ArgsInv'
<1> SUFFICES ASSUME ArgsInv, [ArgsNext]_argVars PROVE ArgsInv'
  OBVIOUS
<1> DEFINE n == Len(StepsOf(stage))
           step == StepsOf(stage)[upnext]
           scope == Scope(stage, upnext)
           next == Scope(stage, upnext + 1)
<1>1. /\ file \in Dockerfiles /\ upnext \in Nat
      /\ ending = "building" => stage \in DOMAIN file /\ stage \in Nat \ {0}
  <2>1. file \in Dockerfiles /\ upnext \in Nat /\ (ending = "building" => stage \in DOMAIN file)
    BY DEF ArgsInv, OrderFits
  <2> QED
    BY <2>1, FileFacts
<1>2. ASSUME ending = "building", upnext \in DOMAIN StepsOf(stage), upnext # 0
      PROVE  /\ stage \in DOMAIN file /\ upnext \in 1..n /\ step \in Instructions
             /\ args = Collected(stage)
             /\ Plain(stage) => env = scope.env
             /\ Plain(stage) =>
                  /\ step.op = "env" =>
                       next.env = With(scope.env, step.name, Meant(scope, step.text))
                  /\ step.text[1] # "orelse" /\ (step.op = "workdir" => step.text[1] # "ref")
             /\ step.op # "env" => next.env = scope.env
             /\ step.name \in NamesOf(stage)
             /\ step.text[1] = "ref" => /\ step.text[2] \in NamesOf(stage)
                                        /\ step.text = <<"ref", step.text[2]>>
  <2>1. /\ stage \in DOMAIN file /\ args = Collected(stage)
        /\ Plain(stage) => env = scope.env
    BY <1>1, <1>2 DEF ArgsInv, StageFits
  <2>2. upnext \in 1..n
    BY <1>1, <1>2, <2>1, FileFacts
  <2>3. /\ step \in Instructions
        /\ step.op = "env" =>
             next.env = With(scope.env, step.name, Meant(Around(step, scope), step.text))
        /\ step.op # "env" => next.env = scope.env
    BY <1>1, <2>1, <2>2, NextScope
  <2>4. Plain(stage) =>
          /\ step.text[1] # "orelse" /\ (step.op = "workdir" => step.text[1] # "ref")
          /\ step.op = "env" => Meant(Around(step, scope), step.text) = Meant(scope, step.text)
    BY <1>1, <2>1, <2>2, PairsAgree
  <2> QED
    BY <1>1, <1>2, <2>1, <2>2, <2>3, <2>4, NamesInStage
<1>3. ASSUME NEW op, AtStep(op)
      PROVE  upnext # 0 /\ ending = "building" /\ upnext \in DOMAIN StepsOf(stage) /\ step.op = op
  <2>1. upnext \in DOMAIN StepsOf(stage) /\ ending = "building" /\ step.op = op
    BY <1>3 DEF AtStep, Current
  <2>2. stage \in DOMAIN file
    BY <2>1 DEF ArgsInv, OrderFits
  <2> QED
    BY <1>1, <2>1, <2>2, FileFacts
<1>4. CASE BeginNextStage
  <2>1. /\ ending = "building" /\ upnext = 0 /\ TargetIndices # {}
        /\ env' = Images[file[stage].base] /\ args' = Collected(stage) /\ uses' = <<>> /\ upnext' = 1
        /\ UNCHANGED asked /\ UNCHANGED <<stage, outputs, ending>>
    BY <1>4 DEF BeginNextStage
  <2>2. /\ TargetIndices' = TargetIndices
        /\ \A s : /\ StepsOf(s)' = StepsOf(s) /\ Collected(s)' = Collected(s)
                  /\ Plain(s)' = Plain(s) /\ \A i : Scope(s, i)' = Scope(s, i)
    BY <2>1, AskedKept
  <2>3. file' = file /\ stage \in DOMAIN file /\ n \in Nat
    BY <1>1, <2>1, FileFacts DEF asked, ArgsInv, OrderFits
  <2>4. \A s, reads : UsesFit(s, reads)' = UsesFit(s, reads)
    BY <2>2 DEF UsesFit, Meant
  <2>5. OrderFits' /\ OutputsFit'
    BY <1>1, <2>1, <2>2, <2>3, <2>4 DEF ArgsInv, OrderFits, OutputsFit
  <2>6. env' = Scope(stage, 1).env
    BY <2>1, ScopeSteps DEF FirstScope
  <2>7. Len(uses') = 0 /\ DOMAIN uses' = {} /\ uses' = [i \in 1..0 |-> uses'[i]]
    BY <2>1
  <2>8. StageFits'
    BY <2>1, <2>2, <2>3, <2>6, <2>7 DEF StageFits, UsesFit
  <2> QED
    BY <2>5, <2>8 DEF ArgsInv
<1>5. CASE CannotBegin \/ (CopyFrom /\ ending' = "failed")
  <2>1. ending' = "failed" /\ UNCHANGED outputs /\ UNCHANGED asked /\ upnext' = upnext
    BY <1>5 DEF CannotBegin, CopyFrom
  <2>2. \A s : StepsOf(s)' = StepsOf(s) /\ Plain(s)' = Plain(s) /\ \A i : Scope(s, i)' = Scope(s, i)
    BY <2>1, AskedKept
  <2>3. \A s, reads : UsesFit(s, reads)' = UsesFit(s, reads)
    BY <2>2 DEF UsesFit, Meant
  <2> QED
    BY <1>1, <2>1, <2>2, <2>3 DEF ArgsInv, OrderFits, OutputsFit, StageFits, asked
<1>6. CASE Arg
  <2>1. AtStep("arg") /\ UNCHANGED <<env, uses>>
    BY <1>6 DEF Arg
  <2>2. upnext # 0 /\ ending = "building" /\ upnext \in DOMAIN StepsOf(stage) /\ step.op = "arg"
    BY <1>3, <2>1
  <2>3. step.name \in DOMAIN args
    <3>1. stage \in 1..stage /\ upnext \in ArgSteps(stage, step.name)
      BY <1>1, <1>2, <2>2, FileFacts DEF ArgSteps
    <3>2. step \in Range(StepsOf(stage))
      BY <2>2 DEF Range
    <3>3. step.name \in Declared(stage)
      BY <3>1, <3>2 DEF Declared, Declaring
    <3> QED
      BY <1>2, <2>2, <3>3 DEF Collected
  <2>4. args' = args
    BY <1>6, <2>3 DEF Arg, Current
  <2> QED
    BY <1>2, <2>1, <2>2, <2>4, InstructionStep
<1>7. ASSUME NEW op, AtStep(op), op \notin {"arg", "run"}, Plain(stage)
      PROVE  Expand(step.text) = Meant(scope, step.text)
  <2>1. upnext # 0 /\ ending = "building" /\ upnext \in DOMAIN StepsOf(stage) /\ step.op = op
    BY <1>3, <1>7
  <2>2. CASE step.text[1] = "ref"
    <3>1. Reads(step, step.text[2])
      BY <1>2, <2>1, <2>2 DEF Reads
    <3>2. Lookup(args, env, step.text[2]) = Meant(scope, <<"ref", step.text[2]>>)
      BY <1>2, <1>7, <2>1, <2>2, <3>1, ReadFits DEF Current
    <3> QED
      BY <1>2, <2>1, <2>2, <3>2 DEF Expand
  <2>3. CASE step.text[1] # "ref"
    BY <1>2, <1>7, <2>1, <2>3 DEF Expand, Meant
  <2> QED
    BY <2>2, <2>3
<1>71. CASE Env
  <2>1. AtStep("env") /\ UNCHANGED <<args, uses>> /\ env' = With(env, step.name, Expand(step.text))
    BY <1>71 DEF Env, Current
  <2>2. upnext # 0 /\ ending = "building" /\ upnext \in DOMAIN StepsOf(stage) /\ step.op = "env"
    BY <1>3, <2>1
  <2>3. Plain(stage) => env' = next.env
    BY <1>2, <1>7, <2>1, <2>2
  <2> QED
    BY <2>1, <2>2, <2>3, InstructionStep
<1>8. ASSUME NEW op \in {"expand", "workdir", "run"}, NEW way, NEW text, NEW value, AtStep(op),
             Read(way, text, value), UNCHANGED <<env, args>>,
             Plain(stage) => value = Meant(scope, text)
      PROVE  ArgsInv'
  <2>1. upnext # 0 /\ ending = "building" /\ upnext \in DOMAIN StepsOf(stage) /\ step.op = op
    BY <1>3, <1>8
  <2>2. Plain(stage) => env' = next.env
    BY <1>2, <1>8, <2>1
  <2> QED
    BY <1>8, <2>1, <2>2, InstructionStep
<1>9. CASE ExpandText
  <2>1. /\ AtStep("expand") /\ UNCHANGED <<env, args>>
        /\ Read("expand", step.text, Expand(step.text))
    BY <1>9 DEF ExpandText, Current
  <2>2. Plain(stage) => Expand(step.text) = Meant(scope, step.text)
    BY <1>7, <2>1
  <2> QED
    BY <1>8, <2>1, <2>2
<1>91. CASE Workdir
  <2>1. AtStep("workdir") /\ UNCHANGED <<env, args>> /\ Read("workdir", step.text, step.text)
    BY <1>91 DEF Workdir, Current
  <2>2. upnext # 0 /\ ending = "building" /\ upnext \in DOMAIN StepsOf(stage) /\ step.op = "workdir"
    BY <1>3, <2>1
  <2>3. Plain(stage) => step.text = Meant(scope, step.text)
    BY <1>2, <2>2 DEF Meant
  <2> QED
    BY <1>8, <2>1, <2>3
<1>10. CASE Run
  <2> DEFINE text == <<"ref", step.name>>
             value == Lookup(env, args, step.name)
  <2>1. AtStep("run") /\ UNCHANGED <<env, args>> /\ Read("run", text, value)
    BY <1>10 DEF Run, Current
  <2>2. upnext # 0 /\ ending = "building" /\ upnext \in DOMAIN StepsOf(stage) /\ step.op = "run"
    BY <1>3, <2>1
  <2>3. Reads(step, step.name)
    BY <2>2 DEF Reads
  <2>4. Plain(stage) => value = Meant(scope, text)
    BY <1>2, <2>2, <2>3, ReadFits DEF Current
  <2> QED
    BY <1>8, <2>1, <2>4
<1>11. CASE CopyFrom /\ ending' # "failed"
  <2>1. AtStep("copy") /\ UNCHANGED <<env, args, uses>>
    BY <1>11 DEF CopyFrom, AtStep
  <2>2. upnext # 0 /\ ending = "building" /\ upnext \in DOMAIN StepsOf(stage) /\ step.op = "copy"
    BY <1>3, <2>1
  <2> QED
    BY <1>2, <2>1, <2>2, InstructionStep
<1>12. CASE EndStage
  <2> DEFINE done == [alias |-> file[stage].alias, env |-> env, uses |-> uses]
  <2>1. /\ ending = "building" /\ upnext = n + 1 /\ outputs' = Append(outputs, done)
        /\ UNCHANGED asked
        /\ \/ ending' = "built" /\ UNCHANGED upnext
           \/ /\ stage \notin TargetIndices /\ stage' = stage + 1
              /\ upnext' = 0 /\ UNCHANGED ending
    BY <1>12 DEF EndStage
  <2>2. /\ TargetIndices' = TargetIndices
        /\ \A s : /\ StepsOf(s)' = StepsOf(s) /\ Plain(s)' = Plain(s)
                  /\ \A i : Scope(s, i)' = Scope(s, i)
    BY <2>1, AskedKept
  <2>3. /\ file' = file /\ stage \in DOMAIN file /\ n \in Nat /\ upnext # 0
        /\ Len(outputs) = stage - 1 /\ DOMAIN file = 1..Len(file) /\ Len(file) \in Nat
    BY <1>1, <2>1, FileFacts DEF asked, ArgsInv, OrderFits
  <2>4. TargetIndices # {} /\ (Plain(stage) => env = Scope(stage, n + 1).env /\ UsesFit(stage, uses))
    BY <2>1, <2>3 DEF ArgsInv, StageFits
  <2>5. done.env = env /\ done.uses = uses
    OBVIOUS
  <2> HIDE DEF done
  <2>6. outputs' = [i \in 1..stage |-> IF i = stage THEN done ELSE outputs[i]]
    BY <2>1, <2>3, Appended DEF ArgsInv, OutputsFit
  <2>7. Len(outputs') = stage /\ DOMAIN outputs' = 1..stage /\ outputs' = [i \in 1..Len(outputs') |-> outputs'[i]]
    BY <2>3, <2>6
  <2>8. OutputsFit'
    <3>1. ASSUME NEW s \in DOMAIN outputs', Plain(s)
          PROVE  /\ outputs'[s].env = Scope(s, Len(StepsOf(s)) + 1).env
                 /\ UsesFit(s, outputs'[s].uses)
      <4>1. CASE s = stage
        BY <2>4, <2>5, <2>6, <2>7, <3>1, <4>1
      <4>2. CASE s # stage
        <5>1. s \in DOMAIN outputs /\ outputs'[s] = outputs[s]
          BY <2>3, <2>6, <2>7, <3>1, <4>2 DEF ArgsInv, OutputsFit
        <5> QED
          BY <3>1, <5>1 DEF ArgsInv, OutputsFit
      <4> QED
        BY <4>1, <4>2
    <3>2. \A s, reads : UsesFit(s, reads)' = UsesFit(s, reads)
      BY <2>2 DEF UsesFit, Meant
    <3>3. \A s \in DOMAIN outputs' : Plain(s) => UsesFit(s, outputs[s].uses)'
      BY <2>2, <3>1 DEF UsesFit, Meant
    <3> QED
      BY <2>2, <2>3, <2>7, <3>1, <3>3 DEF OutputsFit
  <2>9. OrderFits'
    <3>1. CASE ending' = "built"
      BY <1>1, <2>1, <2>3, <3>1 DEF OrderFits
    <3>2. CASE stage \notin TargetIndices /\ stage' = stage + 1 /\ upnext' = 0
      <4>1. \A t \in TargetIndices : stage <= t /\ t # stage /\ t \in 1..Len(file)
        BY <1>1, <2>1, <2>3, <3>2, TargetFacts DEF ArgsInv, OrderFits
      <4>2. PICK t \in TargetIndices : TRUE
        BY <2>4
      <4>3. stage + 1 \in DOMAIN file /\ \A u \in TargetIndices : stage + 1 <= u
        BY <2>3, <4>1, <4>2
      <4> QED
        BY <1>1, <2>2, <2>3, <2>7, <3>2, <4>3 DEF OrderFits
    <3> QED
      BY <2>1, <3>1, <3>2
  <2>10. StageFits'
    BY <2>1 DEF StageFits
  <2> QED
    BY <2>8, <2>9, <2>10 DEF ArgsInv
<1>13. CASE UNCHANGED argVars
  <2>1. UNCHANGED asked /\ UNCHANGED <<stage, upnext, env, args, outputs, uses, ending>>
    BY <1>13 DEF argVars, asked
  <2>2. /\ TargetIndices' = TargetIndices
        /\ \A s : /\ StepsOf(s)' = StepsOf(s) /\ Collected(s)' = Collected(s)
                  /\ Plain(s)' = Plain(s) /\ \A i : Scope(s, i)' = Scope(s, i)
    BY <2>1, AskedKept
  <2>3. \A s, reads : UsesFit(s, reads)' = UsesFit(s, reads)
    BY <2>2 DEF UsesFit, Meant
  <2> QED
    BY <2>1, <2>2, <2>3 DEF ArgsInv, OrderFits, OutputsFit, StageFits, asked
<1> QED
  BY <1>4, <1>5, <1>6, <1>71, <1>9, <1>91, <1>10, <1>11, <1>12, <1>13 DEF ArgsNext

\* In any Dockerfile of the instructions and texts that BuildArguments has, in a stage
\* where no name is used in one of the ways that Surprising lists, the instructions
\* read, and the image ends with, what Docker says.
THEOREM PlainNamesMeanDockers == ArgsSpec => []NamesMeanDockers
<1>1. ArgsInv => NamesMeanDockers
  BY DEF ArgsInv, OutputsFit, NamesMeanDockers, UsesFit, Plain
<1> QED
  BY <1>1, ArgsInitFits, ArgsStep, PTL DEF ArgsSpec
=============================================================================
