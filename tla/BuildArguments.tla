--------------------------- MODULE BuildArguments ---------------------------
(***************************************************************************)
(* What names mean in a Dockerfile (build.rs): the stages are built in     *)
(* their order up to the target, ARG and ENV give names values, and later  *)
(* instructions refer to them.                                             *)
(*                                                                         *)
(* A text is one word, <<"word", w>>, one reference, <<"ref", name>>, or   *)
(* `${name:-d}', <<"orelse", name>>; Docker's other forms (`${name:+w}',   *)
(* escapes, quotes) are left out.  `expand' stands for an instruction with *)
(* a text in which references are replaced (USER, LABEL, EXPOSE, VOLUME,   *)
(* the paths of COPY and ADD), and RUN reads a name from its environment.  *)
(* An ENV of several pairs is a step for each, all but the first `joined'. *)
(***************************************************************************)
EXTENDS SequencesExt

CONSTANTS Dockerfiles, \* sequences of [alias, base, steps]
          Givens,      \* build arguments of a request: functions from names to texts
          Targets,     \* target stages of a request, NoTarget or aliases
          Images       \* the environment of each base image that can be had

NoTarget == "no target"
NoDefault == <<"none", "">>
Empty == <<"word", "">>

Instructions == [op : {"arg", "env", "expand", "workdir", "run", "copy"}, name : STRING,
                 text : {"word", "ref", "orelse", "none"} \X STRING, joined : BOOLEAN]

\* A file without FROM is not built (parse_dockerfile_with_parser).
ASSUME FilesAssumption == \A f \in Dockerfiles :
    /\ f \in Seq([alias : STRING, base : STRING, steps : Seq(Instructions)])
    /\ f # <<>>

VARIABLES file,      \* the Dockerfile
          given,     \* the request's arguments
          target,    \* the request's target stage
          stage,        \* the number of the stage that is built
          upnext,      \* its next instruction
          env,       \* env_map
          args,      \* build_args
          outputs,   \* stages that are done, with the environment of their image
          uses,      \* what the stage's instructions read: [step, way, text, value]
          ending     \* "building", "built" or "failed"

argVars == <<file, given, target, stage, upnext, env, args, outputs, uses, ending>>
asked == <<file, given, target>>

StepsOf(s) == file[s].steps
Current == StepsOf(stage)[upnext]

\* resolve_target_stage_index: the first stage of that name, or the last of all.
TargetIndices ==
  IF target = NoTarget THEN {Len(file)}
  ELSE {s \in DOMAIN file : /\ file[s].alias = target
                            /\ \A t \in 1..(s - 1) : file[t].alias # target}

\* collect_stage_build_args, before a stage's first instruction: what was given, then
\* the first ARG of each name in this stage or one before it, its default as written.
ArgSteps(s, x) == {i \in DOMAIN StepsOf(s) : StepsOf(s)[i].op = "arg" /\ StepsOf(s)[i].name = x}
Declaring(s, x) == {t \in 1..s : ArgSteps(t, x) # {}}
Declared(s) == {x \in {step.name : step \in UNION {Range(StepsOf(t)) : t \in 1..s}} :
                  Declaring(s, x) # {}}

Default(text) == IF text = NoDefault THEN Empty ELSE text
FirstDefault(s, x) ==
  LET t == Min(Declaring(s, x)) IN Default(StepsOf(t)[Min(ArgSteps(t, x))].text)
LastDefault(s, x) ==
  LET t == Max(Declaring(s, x)) IN Default(StepsOf(t)[Max(ArgSteps(t, x))].text)

Collected_LastWins(s) ==
  [x \in DOMAIN given \cup Declared(s) |->
     IF x \in Declared(s) THEN LastDefault(s, x) ELSE given[x]]

Collected(s) ==
  [x \in DOMAIN given \cup Declared(s) |->
     IF x \in DOMAIN given THEN given[x] ELSE FirstDefault(s, x)]

\* HashMap::insert
With(map, x, value) == [y \in {x} \cup DOMAIN map |-> IF y = x THEN value ELSE map[y]]

\* interpolate: an argument hides a variable of the environment.
Lookup(first, second, x) ==
  IF x \in DOMAIN first THEN first[x] ELSE IF x \in DOMAIN second THEN second[x] ELSE Empty
\* What stands before the `}' is the name: nothing is called `name:-d'.
Expand(text) ==
  IF text[1] = "ref" THEN Lookup(args, env, text[2])
  ELSE IF text[1] = "orelse" THEN Empty
  ELSE text

ArgsInit ==
  /\ file \in Dockerfiles /\ given \in Givens /\ target \in Targets
  /\ stage = 1 /\ upnext = 0
  /\ env = <<>> /\ args = <<>>
  /\ outputs = <<>> /\ uses = <<>>
  /\ ending = "building"

----------------------------------------------------------------------------
\* FROM is always an image of the store or the registry, whatever the stages' names.
BeginNextStage ==
  /\ ending = "building" /\ upnext = 0 /\ TargetIndices # {}
  /\ file[stage].base \in DOMAIN Images
  /\ env' = Images[file[stage].base]
  /\ args' = Collected(stage)
  /\ uses' = <<>>
  /\ upnext' = 1
  /\ UNCHANGED <<asked, stage, outputs, ending>>

\* There is no such stage, before anything is built, or no such image.
CannotBegin ==
  /\ ending = "building" /\ upnext = 0
  /\ TargetIndices = {} \/ file[stage].base \notin DOMAIN Images
  /\ ending' = "failed"
  /\ UNCHANGED <<asked, stage, upnext, env, args, outputs, uses>>

AtStep(op) ==
  /\ ending = "building" /\ upnext \in DOMAIN StepsOf(stage) /\ Current.op = op
  /\ upnext' = upnext + 1
  /\ UNCHANGED <<asked, stage, outputs, ending>>

Arg ==
  /\ AtStep("arg")
  /\ args' = IF Current.name \notin DOMAIN args /\ Current.text # NoDefault
               THEN With(args, Current.name, Expand(Current.text)) ELSE args
  /\ UNCHANGED <<env, uses>>

\* Each pair is there when the next one is expanded.
Env ==
  /\ AtStep("env")
  /\ env' = With(env, Current.name, Expand(Current.text))
  /\ UNCHANGED <<args, uses>>

Read(way, text, value) ==
  uses' = Append(uses, [step |-> upnext, way |-> way, text |-> text, value |-> value])

ExpandText ==
  /\ AtStep("expand")
  /\ Read("expand", Current.text, Expand(Current.text))
  /\ UNCHANGED <<env, args>>

\* The path of a WORKDIR is taken as it is written.
Workdir ==
  /\ AtStep("workdir")
  /\ Read("workdir", Current.text, Current.text)
  /\ UNCHANGED <<env, args>>

\* execute_run: here the environment hides an argument.
Run ==
  /\ AtStep("run")
  /\ Read("run", <<"ref", Current.name>>, Lookup(env, args, Current.name))
  /\ UNCHANGED <<env, args>>

\* COPY --from: the first stage done of that name, else the one of that number.
Number(from) == {s \in DOMAIN outputs : from = ToString(s - 1)}
Named(from) == {s \in DOMAIN outputs : outputs[s].alias = from}

CopyFrom ==
  /\ ending = "building" /\ upnext \in DOMAIN StepsOf(stage) /\ Current.op = "copy"
  /\ IF Named(Current.name) \cup Number(Current.name) # {}
       THEN upnext' = upnext + 1 /\ UNCHANGED ending
       ELSE ending' = "failed" /\ UNCHANGED upnext
  /\ UNCHANGED <<asked, stage, env, args, outputs, uses>>

EndStage ==
  /\ ending = "building" /\ upnext = Len(StepsOf(stage)) + 1
  /\ outputs' = Append(outputs, [alias |-> file[stage].alias, env |-> env, uses |-> uses])
  /\ IF stage \in TargetIndices
       THEN ending' = "built" /\ UNCHANGED <<stage, upnext>>
       ELSE stage' = stage + 1 /\ upnext' = 0 /\ UNCHANGED ending
  /\ UNCHANGED <<asked, env, args, uses>>

ArgsNext ==
  \/ BeginNextStage \/ CannotBegin \/ Arg \/ Env \/ ExpandText \/ Workdir \/ Run
  \/ CopyFrom \/ EndStage

ArgsSpec == ArgsInit /\ [][ArgsNext]_argVars

----------------------------------------------------------------------------
\* What Docker says the names of a stage mean (external): an argument counts from its
\* ARG on, in its stage, its default expanded there; the environment hides it; and the
\* pairs of an ENV are expanded in the environment that it started in.

Else == <<"word", "else">>
Meant(scope, text) ==
  LET value == Lookup(scope.env, scope.args, text[2])
  IN  IF text[1] = "ref" THEN value
      ELSE IF text[1] = "orelse" THEN IF value = Empty THEN Else ELSE value
      ELSE text

Around(step, scope) == IF step.joined THEN [scope EXCEPT !.env = scope.start] ELSE scope

AfterStep(step, scope) ==
  LET outside == Around(step, scope)
      next == [scope EXCEPT !.start = scope.env]
  IN  IF step.op = "env"
        THEN [scope EXCEPT !.env = With(@, step.name, Meant(outside, step.text)),
                           !.start = outside.env]
      ELSE IF step.op = "arg" /\ step.name \in DOMAIN given
        THEN [next EXCEPT !.args = With(@, step.name, given[step.name])]
      ELSE IF step.op = "arg" /\ step.text # NoDefault
        THEN [next EXCEPT !.args = With(@, step.name, Meant(scope, step.text))]
      ELSE next

\* The scope of a stage before its i-th instruction; FROM an earlier stage is that one.
FromStage(s) == \E t \in 1..(s - 1) : file[t].alias = file[s].base
Scope(s, i) ==
  LET base == Images[file[s].base]
      scope[k \in 1..i] == IF k = 1 THEN [env |-> base, args |-> <<>>, start |-> base]
                           ELSE AfterStep(StepsOf(s)[k - 1], scope[k - 1])
  IN scope[i]

\* The names to which qbuild may give another value: given and not declared, declared in
\* an earlier stage, twice, or after an instruction that reads them, with a default that
\* refers to a name, or both an argument and in the environment; in the path of a
\* WORKDIR, in `${name:-d}', or in an ENV that has set them itself.
Reads(step, x) == (step.op = "run" /\ step.name = x) \/ step.text = <<"ref", x>>

\* Pair j comes before pair i in one ENV.
SameEnv(s, j, i) == j < i /\ \A k \in (j + 1)..i : StepsOf(s)[k].joined

Surprising(s, x) ==
  \/ x \in DOMAIN given /\ ArgSteps(s, x) = {}
  \/ \E t \in 1..(s - 1) : ArgSteps(t, x) # {}
  \/ \E i, j \in ArgSteps(s, x) : i # j
  \/ \E i \in ArgSteps(s, x) :
       \/ \E j \in 1..(i - 1) : Reads(StepsOf(s)[j], x)
       \/ x \notin DOMAIN given /\ StepsOf(s)[i].text[1] \in {"ref", "orelse"}
       \/ x \in DOMAIN Scope(s, Len(StepsOf(s)) + 1).env
  \/ \E i \in DOMAIN StepsOf(s) :
       \/ StepsOf(s)[i].op = "workdir" /\ StepsOf(s)[i].text = <<"ref", x>>
       \/ StepsOf(s)[i].text = <<"orelse", x>>
       \/ /\ StepsOf(s)[i].text = <<"ref", x>>
          /\ \E j \in DOMAIN StepsOf(s) : SameEnv(s, j, i) /\ StepsOf(s)[j].name = x

NamesOf(s) ==
  UNION {{step.name} \cup {x \in {step.text[2]} : step.text[1] \in {"ref", "orelse"}} :
           step \in Range(StepsOf(s))}

\* In a stage without such a name, and not FROM another stage, every instruction
\* reads, and the image ends with, what Docker says, whatever ENV made of arguments on
\* the way (build_stage, collect_stage_build_args, interpolate, execute_run).
NamesMeanDockers ==
  \A s \in DOMAIN outputs :
    ~FromStage(s) /\ (\A x \in NamesOf(s) : ~Surprising(s, x)) =>
      /\ outputs[s].env = Scope(s, Len(StepsOf(s)) + 1).env
      /\ \A i \in DOMAIN outputs[s].uses :
           LET use == outputs[s].uses[i]
           IN use.value = Meant(Scope(s, use.step), use.text)
============================================================================
