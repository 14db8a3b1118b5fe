----------------------------- MODULE GpuDevices -----------------------------
(***************************************************************************)
(* Which GPU devices a run gets (gpu.rs, prepare_gpu_runtime; protocol.rs, *)
(* GpuRequest::validate).  A request names a number of devices, and may    *)
(* name the devices: by name (nvidia0, amd1), by path or by bare index.    *)
(* Several ids name one device, an index names devices of both vendors.    *)
(***************************************************************************)
EXTENDS Naturals, Sequences, FiniteSets

CONSTANTS Machines,  \* hosts: [nvidia, render, dxg]
          MaxCount   \* bound on a request's number of devices

\* nvidia: the minor numbers of /dev/nvidia<n>; render: how many /dev/dri/renderD<n>
\* there are; dxg: /dev/dxg exists (WSL), which hides the render nodes.
ASSUME MachineShape ==
  \A h \in Machines :
    h \in [nvidia : SUBSET Nat, render : Nat, dxg : BOOLEAN] /\ IsFiniteSet(h.nvidia)
ASSUME MaxCountIsNat == MaxCount \in Nat

VARIABLES machine,   \* the host
          request,   \* [count, ids]
          answer     \* [state, vendor, visible, nodes]: visible is the sequence of
                     \* indexes in the environment, nodes the device nodes bound

gpuVars == <<machine, request, answer>>

Device(vendor, index) == [vendor |-> vendor, index |-> index]
Unanswered == [state |-> "asked", vendor |-> "none", visible |-> <<>>, nodes |-> {}]

----------------------------------------------------------------------------
\* discover_local_gpus: NVIDIA devices by minor number, then AMD ones by ordinal.
Sorted(S) == [i \in 1..Cardinality(S) |-> CHOOSE x \in S : Cardinality({y \in S : y < x}) = i - 1]

NvidiaDevices(h) ==
  [i \in 1..Cardinality(h.nvidia) |-> Device("nvidia", Sorted(h.nvidia)[i])]
AmdDevices(h) == [i \in 1..(IF h.dxg THEN 1 ELSE h.render) |-> Device("amd", i - 1)]
Discover(h) == NvidiaDevices(h) \o AmdDevices(h)

\* An id: a name or a path of one device, or an index, which normalize_gpu_id turns
\* into an NVIDIA name and select_devices also compares with every device's index.
Ids(h) ==
  [form : {"name", "path"}, vendor : {"nvidia", "amd"}, index : h.nvidia \cup 0..1]
    \cup [form : {"index"}, vendor : {"any"}, index : h.nvidia \cup 0..1]

Matches(d, id) == d.index = id.index /\ id.vendor \in {"any", d.vendor}

\* normalize_gpu_id: the device an id stands for.
Normalized(id) == Device(IF id.form = "index" THEN "nvidia" ELSE id.vendor, id.index)

\* GpuRequest::validate: the ids differ, the devices need not.
Valid(r) ==
  /\ r.count = 0 => r.ids = <<>>
  /\ r.ids # <<>> => Len(r.ids) = r.count
  /\ \A i, j \in DOMAIN r.ids : r.ids[i] = r.ids[j] => i = j

\* select_devices: the first match of every id, or the first devices of one vendor.
FirstMatch(devices, id) ==
  LET found == {i \in DOMAIN devices : Matches(devices[i], id)}
  IN devices[CHOOSE i \in found : \A j \in found : i <= j]

OfVendor(devices, vendor) ==
  LET places == Sorted({i \in DOMAIN devices : devices[i].vendor = vendor})
  IN [k \in DOMAIN places |-> devices[places[k]]]

SelectCount(devices, count) ==
  LET nvidia == OfVendor(devices, "nvidia")
      amd == OfVendor(devices, "amd")
  IN IF Len(nvidia) >= count THEN SubSeq(nvidia, 1, count)
     ELSE IF Len(amd) >= count THEN SubSeq(amd, 1, count) ELSE <<>>

Select(devices, r) ==
  IF r.ids = <<>>
    THEN SelectCount(devices, r.count)
    ELSE IF \A i \in DOMAIN r.ids : \E j \in DOMAIN devices : Matches(devices[j], r.ids[i])
           THEN [i \in DOMAIN r.ids |-> FirstMatch(devices, r.ids[i])]
           ELSE <<>>
----------------------------------------------------------------------------
\* The device nodes: one per NVIDIA device; for AMD /dev/dxg, and the whole of
\* /dev/dri, with every render node, where there is one.
Node(kind, index) == [kind |-> kind, index |-> index]
NodeOf(d) ==
  IF d.vendor = "nvidia" THEN Node("nvidia", d.index)
  ELSE IF machine.dxg THEN Node("dxg", 0) ELSE Node("render", d.index)

Nodes(selected) ==
  IF selected[1].vendor = "nvidia"
    THEN {NodeOf(selected[i]) : i \in DOMAIN selected}
    ELSE {Node("dxg", 0) : x \in {y \in {1} : machine.dxg}}
           \cup {Node("render", i) : i \in 0..machine.render - 1}

OneVendor_Unchecked(selected) == TRUE

OneVendor(selected) == \A i \in DOMAIN selected : selected[i].vendor = selected[1].vendor

Granted(selected) ==
  [state |-> "granted", vendor |-> selected[1].vendor,
   visible |-> [i \in DOMAIN selected |-> selected[i].index],
   nodes |-> Nodes(selected)]

GpuInit ==
  /\ machine \in Machines
  /\ \E count \in 0..MaxCount :
       request \in [count : {count}, ids : UNION {[1..n -> Ids(machine)] : n \in {0, count}}]
  /\ answer = Unanswered

\* prepare_gpu_runtime: nothing to do, a refusal, or the devices.
PrepareGpu ==
  LET selected == Select(Discover(machine), request)
  IN /\ answer = Unanswered
     /\ answer' = IF ~Valid(request) THEN [Unanswered EXCEPT !.state = "refused"]
                  ELSE IF request.count = 0 THEN [Unanswered EXCEPT !.state = "disabled"]
                  ELSE IF selected = <<>> \/ ~OneVendor(selected)
                         THEN [Unanswered EXCEPT !.state = "refused"]
                         ELSE Granted(selected)
     /\ UNCHANGED <<machine, request>>

GpuNext == PrepareGpu

GpuSpec == GpuInit /\ [][GpuNext]_gpuVars

----------------------------------------------------------------------------
\* Properties.

\* A granted request gets devices of the host and of one vendor, each reachable
\* through a node bound into the container, and of NVIDIA's no other node.  It gets
\* fewer devices than it asked for only when two of its ids spell one device in
\* different ways, and another device than normalize_gpu_id makes of an id only when
\* the id is a bare index that no NVIDIA device of the host has (select_devices,
\* prepare_nvidia_runtime, prepare_amd_runtime).
GrantsFollowIds ==
  answer.state = "granted" =>
    LET given == [i \in DOMAIN answer.visible |-> Device(answer.vendor, answer.visible[i])]
        ids == request.ids
        all == Discover(machine)
    IN /\ Len(given) = request.count
       /\ \A i \in DOMAIN given :
            /\ \E j \in DOMAIN all : all[j] = given[i]
            /\ NodeOf(given[i]) \in answer.nodes
            /\ ids # <<>> /\ given[i] # Normalized(ids[i]) =>
                 ids[i].form = "index" /\ ids[i].index \notin machine.nvidia
       /\ \A i, j \in DOMAIN given :
            i # j /\ given[i] = given[j] => ids # <<>> /\ ids[i].form # ids[j].form
       /\ answer.vendor = "nvidia" =>
            answer.nodes = {NodeOf(given[i]) : i \in DOMAIN given}
============================================================================
