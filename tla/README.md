# A TLA+ verification of grout-cni

grout-cni is a CNI plugin: the container runtime starts one short-lived process per call (ADD,
DEL, CHECK, GC, STATUS), several at a time on a node. The processes share three things: the
interface table of the grout daemon, the reservations of a delegated IPAM plugin, and a file lock.
Nothing else is stored, so every later call has to recover from grout what an earlier one did,
whatever was killed or lost in between. This directory models that protocol, model-checks it with
TLC and proves its central invariants with TLAPS.

## The system and its parts

| Part | Code | Here |
|------|------|------|
| Command entry points: dial grout, run the handler, close | `cmd/grout-cni/main.go` | `GroutCNI`: `Dial`, `Exit`, `Handler` |
| ADD: IPAM ADD, bridge, gateways, port, netdev; rollbacks | `pkg/cni/handler.go` `HandleAdd`, `ensureBridge`, `cleanupAfterAddFailure`, `ipamDel` | `GroutCNI`: actions of `HandleAdd` |
| DEL: port, socket file, bridge if empty, IPAM DEL | `HandleDel`, `removeVhostSocket`, `gcBridgeIfEmpty` | `GroutCNI`: `HandleDel`, `gcBridgeIfEmpty` |
| CHECK: port, then socket or netdev | `HandleCheck` | `GroutCNI`: `HandleCheck` |
| GC: stale ports of the network's bridge, the bridge, IPAM GC | `HandleGC`, `gcIPAM` | `GroutCNI`: `HandleGC` |
| File lock: flock(2) with a timeout | `pkg/cni/lock.go` | `FileLock`, `CniLock` |
| Port names: prefix and hash of (container, interface) | `pkg/cni/portname.go` | constants `PortName`, `PortNames`; partly |
| Pod netns: move, configure, verify the netdev | `pkg/cni/netns.go` | `PodNetns`; one step each in `GroutCNI`, which `PodLink` states |
| grout API client: mutex, request ids, requests, streams | `pkg/groutapi/client.go`, `protocol.go` | `GroutClient`, with the promise `Rpc` |
| grout API client: what each call encodes and decodes | `pkg/groutapi/client.go`, `types.go` | `IfaceApi`, `L3Api`, `WireFormat` |
| Configuration, bridge name, log level | `pkg/cni/config.go`, `logging.go` | `CniConfig`; its results are constants of `GroutCNI` |
| Gateway derivation | `handler.go` `gatewaysFor` | `Addressing`; constant `Gateways` of `GroutCNI` |
| grout daemon, IPAM plugin, runtime (external) | used by `pkg/cni`, `pkg/groutapi` | `Grout`; `ipam`, `OrphanedIpam`; `Invoke...` actions |

A call goes: dial grout, open and take the file lock, handler, unlock, close the lock file, close
the connection. The order matters. The connection is made before the wait for the lock, so a
handler may start on a connection to a daemon that has been replaced since; and grout has other
clients, which do not take the lock at all.

## Modules

| Module | Content |
|--------|---------|
| `Grout` | External. The daemon's interface table `iface` (unique names, ids reused after a delete, bridge membership through `domain`, addresses that block a delete), the netdev of a TAP port (`link`), vhost-user socket files (`socks`), crash, restart, other clients. |
| `GroutCNI` | The plugin's processes, the runtime that starts them, the IPAM reservations, the failures. |
| `MCGroutCNI` | Instances of `GroutCNI` for TLC. |
| `OrphanedIpam`, `MCOrphanedIpam` | `GroutCNI` with IPAM children that outlive a killed parent, and its instance. |
| `GroutClient` | `groutapi.Client` and the framing of `protocol.go`, over two byte streams to a peer that may misbehave. |
| `Rpc` | What the client promises: at most one execution per call, and the answer to the call itself. |
| `WireFormat` | Payloads: what the client writes at an offset, and what grout reads by the layout of its C structs. |
| `IfaceApi` | `InterfaceAdd`, `InterfaceDel`, `InterfaceList` over `WireFormat`. |
| `L3Api` | The address, route and flood calls over `WireFormat`. |
| `PodNetns` | `pkg/cni/netns.go` one netlink operation at a time, and the rollback of ADD. |
| `PodLink` | The two steps that `GroutCNI` takes for the netns functions of ADD. |
| `Addressing` | `gatewaysFor`, with its byte arithmetic. |
| `CniConfig` | `LoadConfig`, `bridgeNameFor` and the log level. |
| `MCParts` | `Addressing`, `CniConfig`, `L3Api`, `IfaceApi` and `PodNetns`, which share no state and no names, extended side by side for TLC: a behaviour runs the one that `part` names. |
| `FileLock` | `pkg/cni/lock.go` down to the kernel's rule that a flock belongs to an open file description. |
| `CniLock` | What the handlers rely on: at most one holder. |
| `GroutCNI_proofs` | Theorems about every behaviour of the plugin: type correctness, serialised and undisturbed handlers, no stranded port, intact attachments, GC and foreign interfaces, CHECK. |
| `NoLeak_proofs` | A DEL that succeeds leaves no port, no reservation and no socket file, and an ADD that fails no port and no reservation. |
| `NoEmptyBridge_proofs` | No bridge is left without ports. |
| `GroutClientSteps_proofs` | The inductive invariant of the client, and the steps that touch the wire. |
| `GroutClient_proofs` | The remaining steps; type correctness, no spurious error, and that the client implements `Rpc`. |
| `Parts_proofs` | `FileLock`: type correctness, mutual exclusion, and that it implements `CniLock`. `PodNetns`: its safety properties, and that it implements `PodLink`. `Addressing` and `CniConfig`: what `gatewaysFor`, `LoadConfig` and the log level compute. |
| `Encodings_proofs` | `WireFormat` and `IfaceApi`: where the fields of grout's structs are, what grout makes of a request, what a list gives. |
| `L3_proofs` | `L3Api`: the calls on addresses, routes and flood entries. |

### State and actions of GroutCNI

`pc[p]` is where process `p` is. Labels `a_*` are steps of ADD, `d_*` of DEL, `b_*` of
`gcBridgeIfEmpty`, `c_*` of CHECK and `g_*` of GC; `ipamdel` is shared by the error paths of ADD
and by DEL. `req[p]` is the call, `br`, `port`, `gws` and `todo` are the handler's local variables,
`err` whether it will return an error. `conn[p]` is `open` while the connection is the one to the
running daemon and `dead` once that daemon has crashed. `rt` is what the runtime believes of an
attachment, which is a (container id, interface name) pair: `absent`, `attached`, or `failed` while
it owes the attachment a DEL. `lost` is a ghost: the attachments hit by a grout crash or by a change
inside the pod. Such a change (`NetdevDrift`) takes the interface down or its addresses away, or puts
them back.

One action is one request to grout, one call of the IPAM plugin, or one change to a file or netdev.
Each request has four outcomes: it is served, it is refused (grout's rules forbid it, or the
connection is dead), it fails by an injected fault, or grout serves it and the connection breaks
before the reply (`ReplyLost`), which the handler cannot tell from a failure. `AddressFlush` is two
actions because it is two requests. `Intact`, `Members` and the like read the table the way the
code's loops over `InterfaceList` do.

The data are abstract. A name is a member of a small set; `groutPortName` is an injective function
into the prefixed names (`PortNamesDistinct`: 55 bits of SHA-256); the gateways of a network are a
fixed set of addresses, some of them IPv6.

The runtime follows the CNI specification: calls for one attachment are serialised, GC is not run
while an ADD or DEL is in progress, an ADD that did not succeed is owed a DEL, and a DEL may be
repeated. A kill ends the process at any label; the kernel then closes its connection and drops its
lock.

### State and actions of FileLock

`mode` is the main goroutine, `flock` the goroutine `Lock` spawns, `fd` the processes whose
descriptor is open, `child` the IPAM plugin that the handler forks, `owner` the process whose open
file description has the lock. `OwnerAfter` is the kernel's rule: the lock goes with the last
reference to the description. References are the descriptor, a thread blocked in flock(2), and the
copy a child has between fork and exec, which `O_CLOEXEC` ends. So a grant that comes after the
timeout and the `Close` is covered, and so is a child that outlives its parent.

`GroutCNI` has the lock as one variable, `lock`. Its `Acquire`, `Unlock` and the release in `Kill` do to
it what `Acquire` and `Release` of `CniLock` do to `holder`, which `FileLock` is shown to implement.
What the plugin needs the lock for is a property of its own, `NoInterference`.

### The API client

`GroutClient` has goroutines that share one connection. A call takes the mutex and the next id,
writes a header and a payload, and reads one reply, or replies up to an empty one. `toGrout` and
`toClient` are the two directions of the socket. The peer serves requests in order; it may refuse
one (also in the middle of a stream), answer twice, break off within an answer, hang up, or announce
a payload above the limit. That payload stays unread and the next call takes it for a header (`Junk`):
an id, a status and a length of any value. If the length is one that `readResponse` accepts, it
swallows as much of what follows, and waits for more if there is not enough (`body`, `ReadRest`).
Ids wrap at `IdMod`. `garbled` is set when replies cannot be told apart any more: by an oversized
reply, or when a call takes an id that something still on the wire carries. The plugin itself has one
goroutine per process; the mutex is there for other users of the package.

`IfaceApi` and `L3Api` have no interleavings but long sequences of calls. A request is a set of
writes at the offsets of `client.go`; grout reads its fields at the offsets that the C ABI gives to
the structs, which are declared from the comments in `client.go` because grout's headers are not in
the repository. A field that is only partly overwritten reads as garbled. In `L3Api` the connection
can be lost at every request, before grout carries it out or after. `IfaceApi` keeps name
buffers that grout reuses without zeroing, which is what the comment on `cString` is about.

### The pod's network namespace

`PodNetns` has one action per netlink operation; each can fail, and grout can die at any point and
take its TAP with it. The pod may already have an interface, even one of the name ADD is to use. A
netlink handle keeps referring to its interface after a rename (`handle`), a name does not. CHECK is
split where the code reads flags and addresses in two queries, between which the pod may take the
interface down, up, or change its addresses (`Drift`). `ipam.ConfigureIface` is external:
up, addresses in any order, then routes.

## Runs

| Run | Question | Result | States | Time |
|-----|----------|--------|--------|------|
| `concurrent` | Two processes, two dual-stack TAP attachments of one network; kills, crashes, failing requests, lost replies. `TypeOK`, `LockOwnership`, `NoStrandedPort`, `AttachedIntact` | holds | 1.25 M | 45 s |
| `cleanup` | A TAP and a virtio network, every failure of the ADD path. `NoLeakAfterDel`, `FailedAddRollsBack`, `NoInterference` | holds | 1.76 M | 68 s |
| `check` | CHECK against crashes, drift in the pod, kills and lost replies. `CheckTruthful`, `NoLeakAfterDel` | holds | 1.83 M | 51 s |
| `foreign` | Other clients add and delete a bridge member, and a port that has a bridge's name. `GCScopedToNetwork`, `ForeignUntouched` | holds | 753 k | 22 s |
| `orderly` | No kill, no crash, no refused request. `NoSocketLeak`, `NoEmptyBridge` | holds | 273 k | 10 s |
| `liveness` | Failing requests, lost replies, kills, and IPAM children that act after their parent was killed. `CallsReturn`, `LeftoversReleased`, `LateReservationReaped` | holds | 71 k | 58 s |
| `filelock` | Three processes. `TypeOK`, `LockedIsOwner`, `ImplementsCniLock`, `LockCallReturns`, `NoLockLeak` | holds | 4 320 | 2 s |
| `client` | Two goroutines, five calls, ids modulo 2, one misbehaviour of grout. `TypeOK`, `NoSpuriousError`, `ImplementsRpc`, `CallReturns` | holds | 612 k | 115 s |
| `parts` | `MCParts`, 121 k states in all: | holds | | 87 s |
| | *Addressing*: results of up to three addresses. `OneGatewayPerFamily`, `GatewayIsFirstHost` | | 66 k | |
| | *CniConfig*: every configuration within the bounds. `ConfFitsWire`, `LevelHonoured` | | 14 k | |
| | *L3Api*: tables of up to three objects. `CallsDoWhatTheySay`, `FloodListTrue` | | 32 k | |
| | *IfaceApi*: ports, bridges and VXLANs. `GroutHasWhatWasAsked`, `ListTrue`, `VdevsDistinct` | | 6 569 | |
| | *PodNetns*: one attachment, every failure. `PodMacDiffersWithIPs`, `CheckHonest`, `OthersUntouched`, `ImplementsPodLink` | | 2 600 | |
| `gc_shared_bridge` | Two networks on one bridge. `GCScopedToNetwork` | violated | | 1 s |
| `socket_leak` | A killed DEL or a grout crash. `NoSocketLeak` | violated | | 5 s |
| `operator_bridge` | A bridge somebody else made under the network's name. `ForeignUntouched` | violated | | 2 s |

What the properties say:

* `AttachedIntact`: from a successful ADD to the DEL, nothing the plugin does for any attachment
  takes away the port, the bridge, the gateways, the netdev or socket, or the reservation.
* `NoStrandedPort`: no port of the plugin is in the domain of an interface that is not a bridge,
  although `gcBridgeIfEmpty` lists, flushes and deletes in four requests and ids are reused.
* `NoLeakAfterDel`, `NoSocketLeak`: after a successful DEL no port, no reservation and no socket
  file of the attachment is left.
* `FailedAddRollsBack`: an ADD that returns an error has released its reservation and its port.
* `NoEmptyBridge`: when no handler runs, a bridge the plugin made has members.
* `GCScopedToNetwork`, `ForeignUntouched`: GC reaps only ports of its own network; DEL and GC leave
  interfaces of others as they are.
* `CheckTruthful`: a CHECK that succeeds is right about the pod side and, at the moment it answers,
  about the port, with one exception: the socket of a virtio port outlives grout, so CHECK can succeed
  on it when grout died after the list. An error that no failing request explains means that one of
  the two is missing or that grout died.
* `CallsReturn`, `LeftoversReleased`: every call returns; with DEL repeated and GC run, nothing of a
  failed attachment is left, even if a request of the cleanup failed or its reply was lost.
* `NoInterference`: while a handler has the lock, no other process of the plugin changes an interface
  of the plugin, a reservation or a socket file; what the handler has read stays true between its
  requests, unless grout dies.
* `LateReservationReaped`: a reservation that an orphaned IPAM child makes for an attachment the
  runtime has already deleted does not stay for ever.
* `ImplementsRpc`, `NoSpuriousError`, `CallReturns`: no call is executed twice, a call that succeeds
  returns what its own execution produced unless the stream is `garbled`, and while grout behaves a
  call fails only if grout refused that call; every call returns unless the stream is `garbled`. In a
  garbled stream `readResponse` may wait for bytes that never come, because the client has no deadline.
* `CallsDoWhatTheySay`, `GroutHasWhatWasAsked`: a call that returns nil has changed grout's tables
  exactly as asked, one that is refused has changed nothing, and one that lost its connection has been
  carried out, or not, or, for `AddressFlush`, by half; every field arrives where grout reads it.
* `ListTrue`, `FloodListTrue`: the lists return what exists, whatever a reused buffer holds.
* `VdevsDistinct`, `PodMacDiffersWithIPs`: distinct ports get distinct DPDK devices, and a pod's MAC is
  not that of grout's end of the TAP.
* `ImplementsPodLink`, `OthersUntouched`, `CheckHonest`: the netlink steps add up to the atomic ones of
  `GroutCNI`, no interface of others is touched, and a CHECK that returns nil has seen the interface up
  and seen every expected address, perhaps at two different moments.
* `OneGatewayPerFamily`, `GatewayIsFirstHost`: the bridge gets exactly one gateway per family of the
  IPAM result, that of the family's first address; a derived gateway is the lowest address above the
  network address, within the subnet. With a full-length mask it lies outside the subnet.
* `ConfFitsWire`, `LevelHonoured`: a configuration that `LoadConfig` accepts has a bridge name that
  fits grout's field and an MTU that fits its uint16; its log level is the one that is installed.

### Faults that a run leaves out, and why

The code logs and ignores a failing `InterfaceDel` and a failing IPAM DEL, in DEL and in the
rollback of ADD. The port or reservation then stays after a DEL that succeeded. `cleanup` therefore
leaves out the fault kinds `del` and `ipamdel`, and `liveness` has them: `LeftoversReleased` says
that a later DEL or GC releases what was left. `cleanup` also leaves out `convert`: an IPAM result
that does not convert makes `HandleAdd` return without an IPAM DEL, and the runtime's DEL releases
the reservation. A lost reply (`lost`) is left out of `cleanup` too: an ADD whose `InterfaceAdd` was
served without its reply arriving returns an error and leaves the port to the next DEL, which
`check` (`NoLeakAfterDel`) and `liveness` cover. `orderly` leaves out every fault that touches
grout: an ADD that fails late leaves its bridge on purpose ("The bridge is shared; do not tear it
down", `src/pkg/cni/handler.go`), and a socket file can then be left, which is the finding below.

### Bounds

Two processes are enough for every race that needs one lock holder and one other actor; in
`concurrent` both serve attachments of one bridge, the only data handlers share. Three or four ids
hold a bridge and two ports, or two bridges and two ports, so that ids are exhausted and reused
after a crash. Two
injected faults (`MaxFaults`) are one failure and a failure of its cleanup, or a crash and a kill.
The networks cover TAP with and without a netns path, virtio, and single- and dual-stack gateways.
`Procs` is a symmetry set in the safety runs; processes are never compared except for equality.
`liveness` has one attachment and no symmetry. `foreign` has one process, because the other clients
are the concurrent actors there. `filelock` has three processes: a holder, one whose wait timed out
and a third that waits.

`client`: two goroutines and the handshake make five calls, so that ids modulo 2 come round twice, onto
an id whose reply is still unread as well as onto one whose reply is gone. One misbehaviour is enough
to put the stream out of step.

`parts`: in `IfaceApi` two ids, and names shorter and longer than those of ports, so that a buffer
holds a stale tail. In `L3Api` one address, one prefix length and a missing interface are enough,
since a call reads nothing else of the tables; both address families and the IPv4-mapped form are in.
In `Addressing` bytes of four values and addresses of two bytes and more, with subnets of a single
address, below, at and above the size of a byte. In `CniConfig` names around the limit of
six letters, and bridge names up to one above it. L3Api and IfaceApi are sequential, so the states
they have are tables, not interleavings.

### Fairness

`Fairness` of `GroutCNI`: a process that can take a step does (weak fairness of `Step`), the kernel
eventually grants the flock to a waiter that finds it free again and again (strong fairness of
`Acquire`), and a dead grout is restarted, which its DaemonSet does. `RuntimeFairness` is what the CNI
specification asks of the runtime: a failed DEL is repeated and GC is run, both strongly fair because
other calls disable them now and then. `SpecO` of `OrphanedIpam`, which `liveness` checks, has both.
`LeftoversReleased` and `LateReservationReaped` need the second, `CallsReturn` does not.
`CallsReturn` assumes that grout answers or that its connection breaks: the client has no deadline.
In `FileLock` the timer, the deferred `Close`, the exit after it and a child's exec are weakly fair.
The critical section is not: `LockCallReturns` holds even if the holder hangs.
In `GroutClient` goroutines that can go on do, Go's mutex starves nobody (strong fairness of `Lock`),
and grout serves what it was sent unless it hangs up; `CallReturns` needs the last. An orphaned IPAM child
runs in the end (weak fairness of `OrphanActs`).

### Findings

Each is a statement of the repository that the code does not keep; the run of the same name has the
counterexample.

1. `gc_shared_bridge`. The comment above `HandleGC` (`src/pkg/cni/handler.go:555-557`) says that
   scoping the reap to the network's bridge "keeps it from touching other networks' ports". Two
   networks may name one bridge, as `src/deploy/nad-mixed.yaml` does; GC of one then takes the
   other's ports for stale.
2. `socket_leak`. Comments (`src/pkg/cni/handler.go:197-199`, `src/pkg/cni/handler_test.go:286-287`)
   say that DEL can reconstruct and remove the vhost-user socket because its path is deterministic.
   `HandleDel` removes it only when grout still lists the port; after a kill between the delete and
   the unlink, or a crash of grout, nobody looks for the file again.
3. `operator_bridge`. The comment on `portPrefix` (`src/pkg/cni/portname.go:11-12`) says that "DEL/GC
   never touch grout interfaces owned by something else". Bridges carry no prefix: `ensureBridge`
   adopts a bridge of the configured name, and `gcBridgeIfEmpty` flushes and deletes it.

Comments that say more than the code does, and for which the properties are stated so as to hold:

* `src/pkg/cni/handler.go:320-322`: without a gateway from IPAM "the first host address of that subnet
  is used". For a full-length mask the address computed is outside the subnet. And a gateway is derived
  if "IPAM did not supply a gateway for a family", but the code asks only the family's first address.
* `src/pkg/cni/netns.go:95-96`: the MAC is derived "from the first IP address in result"; an IPv4
  address anywhere in the result is preferred.
* `src/pkg/cni/config.go:92-93`: "distinct networks do not collapse onto the same bridge". A short name
  is kept even if it is spelled like the cut form of a long one, so no hash would give this.
* `src/pkg/cni/netns.go:71-73`: "The pod-side TAP must have a different MAC than grout's port". With an
  IPAM result without addresses it keeps the MAC it shares with the port; hence the premise of
  `PodMacDiffersWithIPs`.

## Proofs

The theorems hold for every number of processes, attachments, networks, ids, names and foreign
interfaces, and every set and number of faults, except where a hypothesis is named.
They rest on the assumptions that TLC evaluates in the
runs: `GroutAssumption` (ids are positive, foreign interfaces do not use the port prefix),
`CNIAssumption` (the constants have their types, bridge names are not port names),
`PortNamesDistinct`, `FileLockAssumption`, `ClientAssumption`, `AddressingAssumption`,
`ConfAssumption`, `L3Assumption` and `IfaceAssumption` (types and sizes of the constants).

**`TypeCorrect`, `HandlersSerialised`** (`GroutCNI_proofs`). `TypeOK` and `LockOwnership` are not
inductive: that `Bridge[req[p].net]` is a name, or `MyName(p)` a port name, depends on which verb can
be at which label. `CoreInv` adds `CallOK`: the verb of a process fits its label (`VerbsAt`) and its
request carries the arguments of that verb (`RequestOK`). All handler steps move a process from a
critical label to a critical label and leave lock and request alone (`HandlerMoves`), so the
control part is proved once for all of them (`MovesControl`); the data are then typed action by
action (`HandlerHost`, `HandlerGrout`).

**`HandlerUndisturbed`** (`GroutCNI_proofs`). Every step that touches the plugin's interfaces, a
reservation or a socket file is one of the process that is in its handler, hence of the lock holder by
`CoreInv`, and moves that process on; other clients touch only interfaces of their own. So if the
holder does not move and grout does not die, all of that stays.

**`PortsNeverStranded`** (`GroutCNI_proofs`). `NoStrandedPort` fails on a single step unless
one knows why the interface that is deleted has no members. `PortInv`
adds that an interface with a port's name is never a bridge (`PortsOK`) and what each process has
learned (`Learned`): at the delete of a port, `port[p]` still has a port's name; at the flush and
delete of a bridge, no port of the plugin has `br[p]` as its domain. Other processes cannot
change either, because only the lock holder adds or deletes ports, and foreign clients delete only
what they own. If grout has been replaced since the dial, the connection is dead and the id, which
may name something else now, is never acted on. `CoreInv` gives the
exclusion.

**`AttachmentsStayIntact`, `GCStaysInNetwork`, `ForeignStaysUntouched`** (`GroutCNI_proofs`).
These need a hypothesis on the configuration, `OwnBridges`: no two networks name the same bridge, and
other users of grout make no bridges. The runs `gc_shared_bridge` and `operator_bridge` are the
counterexamples without it. `IntactInv` adds to `PortInv`:

* every port hangs off the bridge of its network, which has the gateways (`Rooted`), and every bridge
  is the plugin's (`BridgesOurs`);
* the discipline of the runtime, read off its actions (`CallsApart`): one call per attachment at a
  time, no GC during an ADD or DEL, and a GC that lists every live attachment;
* what a live attachment has (`Live`), extended backwards to an ADD that is about to report success,
  and for an ADD on its way what it has achieved so far (`Progress`);
* that the ids a handler deletes by still name what it found under them (`Precise`), as long as its
  connection is open, and that GC's list holds only dead attachments of its network (`Reapable`).

Each handler step either leaves the interface table alone or makes one update to it, with one lemma
per kind of update for `Rooted` (`RootedAddBridge` and those below it). That a bridge is only deleted
without ports comes from `PortInv`.

**`CheckAnswersTruthfully`** (`GroutCNI_proofs`). `CheckInv` adds that a CHECK at its look into
the pod has no error and, with its connection open, that the port it found is still there: the lock
keeps the other handlers away, foreign clients do not touch ports, and a crash of grout kills the
connection. With the connection dead the netdev of a TAP port is gone too and CHECK fails; only a
socket file is still there to be found.

**`DelLeavesNothing`, `FailedAddLeavesNothing`** (`NoLeak_proofs`). The code logs and ignores failing
deletes, so the theorems assume `ReliableDel` (no `del` or `ipamdel` fault), and the second one
`ReliableAdd` (no `convert` or `lost` fault), for the reasons given under "Faults that a run leaves
out". All other faults, kills and crashes may happen in any number. `LeakInv` says that a port name
occurs once (`OnePort`), so that the single `InterfaceDel` of a DEL or rollback is enough; that the
handler can delete the port by the id it has, or it is gone (`Held`); and that an attachment the
runtime has never added, or has deleted, is clean (`AbsentClean`), which is why an ADD starts clean.
It is stated so that it needs no more than `PortsDeleted` (no `del` fault); what depends on the IPAM
plugin or on replies is conditional inside it.

**`DelLeavesNoSocket`** (`NoLeak_proofs`). The hypothesis `SocketsSafe` leaves out the faults `kill`,
`crash`, `unlink` and `lost`: each of them can separate the end of a port from the removal of its
file, and nobody looks for the file afterwards (run `socket_leak`). Requests may fail in any other
way. `SockInv` says that every socket file has its port or a handler that is about to remove it
(`SocksOwned`), that the ids a handler deletes by still carry the names it found (`Exact`), and
that a DEL past its removal has no file left (`SocketGone`).

**`NoBridgeIsLeftEmpty`** (`NoEmptyBridge_proofs`). `Tidy` has three parts. `RequestsServed`: grout
and the kernel carry out what they are asked and no handler is killed, since an ADD that fails late
leaves its bridge on purpose. `BridgesUnshared`: other clients put nothing into a bridge, or the last
DEL finds it in use. `EnoughIds`: grout does not run out of ids between making a bridge and its first
port. Crashes, dead connections, IPAM failures and lock timeouts are allowed. `EmptyInv` extends
`LeakInv`: an empty bridge of the plugin has a handler that will add a port to it or look at it again
(`Attended`), and what that handler relies on stays true (`Keeping`), given unique names (`TableOK`).

**`MutualExclusion`, `Refinement`, `LockTypeOK`** (`Parts_proofs`, about `FileLock`).
`LockedIsOwner` needs that the goroutine's result `granted`, while the call is still in the select,
goes with ownership, and that the owner has an open descriptor. With it `Holder` is the unique
locked process, and each step acquires, releases or leaves it.

**`ClientTypeOK`, `NoSpuriousErrors`, `ClientImplementsRpc`** (`GroutClientSteps_proofs`,
`GroutClient_proofs`). For any number of goroutines, calls, ids and misbehaviours. `ClientInv` knows
what may be on the wire. While grout has not misbehaved (`InStep`) only the call that holds the mutex
has anything there, and the reply that ends it is the last; so its id cannot meet an older one,
however often ids have come round, and the stream is not garbled. When grout has misbehaved but the
stream is not garbled (`WireOK`), a reply that a call would accept as its end comes with exactly the
items that the execution of this call produced. A call that reuses an id for which something is on
the wire sets `garbled`, and from there on `Rpc` promises only that nothing is executed twice.

**`PodMacDiffers`, `CheckIsHonest`, `OthersStayUntouched`,
`PodNetnsImplementsPodLink`** (`Parts_proofs`, about `PodNetns`). For any results of IPAM, any
interfaces in the pod and any failures. `PodInv` says where the port's netdev is at each step and
that the name the next operation looks it up by is nobody else's (`Placed`), how far it is
configured (`Shape`), and that what CHECK looks for counts as seen as soon as it is so while CHECK
runs, the interface being up at the latest by the first query (`Looked`).
`NoLinkApart` says that the value for "no interface" is
not an interface.

**`GatewayIsHost`, `OneGateway`** (`Parts_proofs`, about `Addressing`). For results of any length, any
subnet sizes that are even or one, and any even number of values of a byte. The loop of `gatewaysFor` is a
recursive function; what it computes is proved by induction over its rounds.
The library's induction theorems cannot be applied by the installed provers, so `Parts_proofs` does it
by least counterexamples: `LeastElement` from the well-founded order on the naturals, `UpTo` for a set
that is closed under the next round, `LoopExists` for the function that a loop defines.
`OneGateway` then follows from what one round does to the gateways of a family (`RoundOfFamily`).
`GatewayIsHost` is arithmetic: a masked address is even, so its last byte can be incremented
(`MaskedEven`, `DerivedGateway`); with a full-length mask the increment leaves the subnet, which is the
address itself (`FullMaskGateway`).

**`ConfigFits`, `LevelIsHonoured`** (`Parts_proofs`, about `CniConfig`). For names of any length, any
size of the name field from 6, and any hash.

**`IfaceCorrect`, `ListCorrect`, `DevicesDistinct`** (`Encodings_proofs`). For any ids, names of
any length that fits the field, MTUs, socket paths and VXLAN configurations: what
`InterfaceAdd` writes at the offsets of `client.go` is what grout reads out of its structs, and
`InterfaceList` gives back the interfaces that exist. The argument has three parts.

* The places of the fields are derived from the declarations of the structs. `Offsets`
  is a recursive function; `LaidOut` says that a table of offsets that follows the alignment rule is
  the layout, `StructAs`, `CatAs` and `LayoutAs` lift this to nested structs, and each struct has
  a lemma with its table (`IfacePortSeqLayout` and those like it).
* A field that one write covers exactly is read back, and one that no write touches is zero (`GetOne`,
  `GetNone`). `PortGot`, `BridgeGot` and `VxlanGot` collect what grout makes of a request.
* `IfaceInv` is inductive. It says that what grout keeps is `Faithful` to the request, that names
  are unique, and that the name buffer reads as the name of the interface. The buffer is not zeroed
  between interfaces: `NameReadBack` shows that `cString` stops at the terminator of the latest name.

`VdevInjective` unfolds the loop of `vdevID`: it keeps every letter and digit, and the prefix is the
same for all ports.

**`CallsCorrect`, `FloodListCorrect`** (`L3_proofs`). For any interfaces, addresses, prefix lengths and
VRFs, and with the connection lost at any request, before grout carries it out or after: a call on
addresses, routes or flood entries that succeeds has done in grout's tables exactly what it was asked
for, one that grout refuses has done nothing and had a reason, and one whose connection is lost has
been carried out, or not, or by half. `FloodList` tells the truth about a VRF.
The step from a table to the next one needs only that its objects have the fields of their kind
(`TableInv`), because grout compares the fields of a request with those of an object; the
places of the fields are those of `Encodings_proofs`.

Only model-checked: liveness (`CallsReturn`, `LeftoversReleased`, `LateReservationReaped`,
`CallReturns`, `LockCallReturns`, `NoLockLeak`), which is out of the prover's reach.
Every other property of a passing run has a theorem.

## Not modelled

* The hashes (SHA-256 of port names, FNV of bridge names). A collision of port names is
  excluded by assumption; the hash of a bridge name may be any function.
* The bytes of the MAC that `podMACFromResult` derives. It takes the last four bytes of one address, so two
  pods of one bridge may get the same MAC, an IPv4-only and an IPv6-only one for instance. Nothing in the
  code prevents that; whether it happens is a matter of the IPAM configuration.
* Byte order and the bits within a field: a field is written and read whole. Message type numbers
  are names.
* A reply whose payload is shorter than the struct the client decodes, which a grout of the promised
  API version does not send; the client then fails the call, or skips the item of a list.
* `RouteAdd` does not encode its `IfaceID`, so the model's route calls have none. What grout does with
  a second next hop for one destination is not known from this repository and not asked for.
* Threads and namespace switching (`ns.Do`), JSON parsing, the text of results and errors, the output
  of the log, `linkExists` (which nothing calls).
* An orphaned IPAM DEL or GC that releases the reservation of an attachment added again: `OrphanedIpam`
  has these steps, but nothing in the code guards against them and no property is stated.
* The prefix length above 32 that an IPv4 address with a 128-bit mask would be sent with: the CNI
  library's parser does not produce such an address.
