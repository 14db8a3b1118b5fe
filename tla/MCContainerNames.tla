-------------------------- MODULE MCContainerNames --------------------------
(* Model-checking instance of ContainerNames.                              *)
EXTENDS ContainerNames, TLC

\* Clients, and ids, differ in nothing but their names.
NamesSymmetry == Permutations(Clients) \cup Permutations(Ids)

\* The bounds: one command at a time neither makes nor removes a container; one
\* container at a time has met with an accident; a log or a status file is made only
\* where an rm is at work, as any other rm takes it with the rest.
Looks(c) == pc[c] # "returned" /\ cmd[c] \in {"list", "show"}

MCBegin(c) == Begin(c) /\ ~\A d \in Clients : Looks(d)'

MCNext ==
    /\ \E c \in Clients :
          \/ MCBegin(c) \/ WriteFails(c) \/ Dies(c)
          \/ Step(c) /\ litter' \subseteq litter \cup refilled'
    /\ Cardinality(lost' \cup refilled') <= MaxLost

MCSpec == Init /\ [][MCNext]_vars
=============================================================================
