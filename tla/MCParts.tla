------------------------------ MODULE MCParts ------------------------------
(***************************************************************************)
(* Five components that share no state, model-checked in one run: `part'   *)
(* says which of them a behaviour is about, and the others stand still.    *)
(* What the run explores is the union of the five state spaces.            *)
(***************************************************************************)
EXTENDS RunRootfs, GuestRpc, ImageNames, GpuDevices, BuildArguments

CONSTANTS r1, r2, c, h1, h2, d1, d2

VARIABLE part

allVars == <<part, runVars, rpcVars, nameVars, gpuVars, argVars>>

Asks(ns, user, gpu, limits, bare) ==
  [ns |-> ns, user |-> user, gpu |-> gpu, limits |-> limits, bare |-> bare]

\* A bind mount in a mount namespace, with limits; an AMD device without one; a bare
\* image; the combination that is refused.
Usual == Asks(TRUE, TRUE, FALSE, TRUE, FALSE)
NoNamespace == Asks(FALSE, FALSE, TRUE, FALSE, FALSE)
MCRequests ==
  {Usual, NoNamespace, Asks(TRUE, TRUE, FALSE, FALSE, TRUE), Asks(FALSE, TRUE, FALSE, FALSE, FALSE)}

\* Of the two runs of one name, one is usual; the other asks for anything on a host
\* where mounts propagate to an overlay, for the same on one where they do not and
\* groups cannot be killed, and for no namespace on the others.
MCRuns ==
  /\ want[r1] = Usual
  /\ IF kernel.kill
       THEN /\ kernel.overlay \/ kernel.shared
            /\ (kernel.overlay /\ kernel.shared) \/ want[r2] = NoNamespace
       ELSE kernel.overlay /\ ~kernel.shared /\ want[r2] = Usual

\* app, app:v_1, app:v:1, app@sha256:a, an alias of Docker Hub, a registry with a
\* port and an '_', two names of which one needs the other's file as a directory, a
\* tag with a slash, and another registry.
MCInputs ==
  {<<"app">>, <<"app", ":", "v", "_", "1">>, <<"app", ":", "v", ":", "1">>,
   <<"app", "@", "sha256", ":", "a">>,
   <<"index", ".", "docker", ".", "io", "/", "app">>,
   <<"localhost", ":", "5000", "/", "my", "_", "app", ":", "v">>,
   <<"docker", ".", "io", "/", "library", "/", "app", "/", "latest", ":", "x">>,
   <<"ghcr", ".", "io", "/", "team", "/", "app", ":", "x", "/", "y">>,
   <<"ghcr", ".", "io", "/", "a", ":", "v", "_", "1">>}

Machine(nvidia, render, dxg) == [nvidia |-> nvidia, render |-> render, dxg |-> dxg]

MCMachines ==
  {Machine({0, 2}, 0, FALSE), Machine({0}, 2, FALSE), Machine({1}, 2, FALSE),
   Machine({}, 2, FALSE), Machine({}, 2, TRUE), Machine({1}, 0, TRUE)}

\* The instructions of a Dockerfile, about two names.
Say(op, x, text) == [op |-> op, name |-> x, text |-> text, joined |-> FALSE]
AndSay(x, text) == [op |-> "env", name |-> x, text |-> text, joined |-> TRUE]
Word(w) == <<"word", w>>
Ref(x) == <<"ref", x>>
Sets == {Say("arg", "A", NoDefault), Say("arg", "A", Word("d")), Say("arg", "B", Ref("A")),
         Say("arg", "B", Word("d")), Say("env", "A", Word("e")), Say("env", "A", Ref("B")),
         Say("env", "B", Ref("A"))}
Expands(x) == Say("expand", x, Ref(x))
Gets == {Expands("A"), Say("run", "A", Empty), Expands("B")}
Others == {Say("workdir", "", Ref("A")), Say("workdir", "", Word("w")),
           Say("expand", "", <<"orelse", "A">>), Say("env", "B", <<"orelse", "A">>)}
Pairs == {AndSay(x, text) : x \in {"A", "B"}, text \in {Word("e"), Ref("A"), Ref("B")}}
Copies == {Say("copy", from, Empty) : from \in {"one", "0", "two"}}

\* Three instructions, of which two may be pairs of one ENV, in a stage of its own; or
\* three after a stage that may set a name and may be the one it is FROM; or a COPY.
Stage(alias, from, steps) == [alias |-> alias, base |-> from, steps |-> steps]
Plainly == {<<a, b, c2>> : a \in Sets, b \in Sets \cup Gets, c2 \in Gets} \cup
           {<<a, b, c2>> : a \in Gets, b \in Sets, c2 \in Gets}
Otherwise == {<<a, b, c2>> : a \in Sets, b \in Others, c2 \in Gets} \cup
             {<<Say("env", "A", text), b, c2>> :
                text \in {Word("e"), Ref("B")}, b \in Pairs, c2 \in Gets}
OneStage == <<Stage("one", "scratch", <<>>)>>
CopyFiles == {<<Stage("one", "scratch", <<>>), Stage("two", "image", <<copy>>)>> : copy \in Copies}
MCFiles ==
  {OneStage} \cup CopyFiles \cup
  {<<Stage("one", "scratch", steps)>> : steps \in Plainly \cup Otherwise} \cup
  {<<Stage("one", "scratch", <<first>>), Stage("two", from, steps)>> :
     first \in {Say("arg", "A", Word("d")), Say("env", "A", Word("e")), Say("run", "B", Empty)},
     from \in {"image", "one"}, steps \in Plainly}
MCGivens == {<<>>, "A" :> Word("g")}
MCImages == [from \in {"scratch", "image"} |->
              IF from = "scratch" THEN <<>> ELSE "B" :> Word("i")]

\* The constants of the parts that stand still have one value.
Init ==
  /\ part \in {"run", "rpc", "names", "gpu", "args"}
  /\ part # "run" => /\ kernel = [overlay |-> TRUE, shared |-> TRUE, kill |-> TRUE]
                     /\ want = [r \in Runs |-> Usual]
  /\ part # "gpu" => /\ machine = Machine({}, 2, FALSE)
                     /\ request = [count |-> 0, ids |-> <<>>]
  /\ part # "args" => file = OneStage /\ given = <<>> /\ target = NoTarget
  /\ RunInit /\ MCRuns
  /\ RpcInit /\ NamesInit /\ GpuInit
  /\ ArgsInit /\ (target # NoTarget => file \in {OneStage} \cup CopyFiles)

Next ==
  \/ part = "run" /\ RunNext /\ UNCHANGED <<part, rpcVars, nameVars, gpuVars, argVars>>
  \/ part = "rpc" /\ RpcNext /\ UNCHANGED <<part, runVars, nameVars, gpuVars, argVars>>
  \/ part = "names" /\ NamesNext /\ UNCHANGED <<part, runVars, rpcVars, gpuVars, argVars>>
  \/ part = "gpu" /\ GpuNext /\ UNCHANGED <<part, runVars, rpcVars, nameVars, argVars>>
  \/ part = "args" /\ ArgsNext /\ UNCHANGED <<part, runVars, rpcVars, nameVars, gpuVars>>

\* RpcFairness, in the behaviours that are about commands.
Fairness ==
  \A h \in Hosts :
    /\ WF_rpcVars(part = "rpc" /\ HostStep(h))
    /\ SF_rpcVars(part = "rpc" /\ Deadline(h))
    /\ WF_rpcVars(part = "rpc" /\ FreeStep(h))

Spec == Init /\ [][Next]_allVars /\ Fairness
============================================================================
