# NCSDK: verification of the Neural Compute API

This directory holds TLA+ models of the code in `src/`, the configurations that
check them with TLC, and proofs checked by TLAPS. The program is the host side
of the Movidius Neural Compute SDK, version 1: a C library through which an
application opens Neural Compute Sticks, allocates a compiled graph on each,
and runs inferences.

## The system

| Part | Code | State | Operations |
|---|---|---|---|
| Registry | `api/src/mvnc_api.c` | list of `struct Device`, each with its list of `struct Graph`, global mutex `mm` | open, close, allocate, deallocate, find |
| Inference pipeline | `api/src/mvnc_api.c` | per graph `have_data`, `input_idx`, `output_idx`, `user_param[2]`, `started`, `failed`; per device mutex `d->mm` | `mvncLoadTensor`, `mvncGetResult` |
| Options | `api/src/mvnc_api.c` | fields of both structs, `optimisation_list`, log level | get and set |
| Graph file header | `api/src/mvnc_api.c:434-452` | none | size and version checks |
| USB link | `api/src/usb_link_vsc.c` | what is on the wire | set and get data, status, reset, `usblink_resetall` |
| Enumeration and boot | `api/src/usb_boot.c`, `mvncOpenDevice` | cached list `devs`, mode and address of each stick | find, wait, send the firmware |
| Python binding | `api/python/mvnc/mvncapi.py` | `userobjs` of a graph | wraps the C calls |
| Firmware download | `api/src/get_mvcmd.sh` | directories `mvnc`, `mvnc.old` | save, download, restore |
| Examples, installers, docs | `examples`, `*.sh`, `docs` | none | |

How they interact. Application threads call the C library directly or through
the Python binding. Every call takes `mm`, checks its handle against the lists
and takes the mutex of the device; the calls that only need the device then
release `mm`. `LoadTensor` and `GetResult` exchange data with the stick through
the link under the device mutex; allocation and the first `config` message go
through the same link under `mm`. Nothing is called back: waiting is
`usleep(1000)` and another try, with no mutex held, after which the handle is
looked up again.

What is hard about it:

- `have_data` is tested under `mm` and changed under the device mutex, by two
  functions on different threads.
- A graph or a device may be freed while another thread sleeps inside a call.
- The decision to start an inference (`hostready`) is taken from `have_data` at
  two places; if both say no, the stick stays idle and nothing reports it.
- Each USB transfer may fail, and each failure leaves a different mixture of
  released mutexes, counters and flags.
- `GetResult` may give up and its answer may come afterwards.
- Open, boot and reset deal with sticks that disappear and come back under
  another address, in several processes at once.

## Modules

| Module | What it is |
|---|---|
| `InferenceQueue` | What a caller is promised: a graph is a queue of two inferences, `GetResult` returns the oldest with the `userParam` it was loaded with. No locks, no buffers. |
| `Mvnc` | The registry and the pipeline, one action per step of each call, with the properties. Its last lines map it to `InferenceQueue`. |
| `MCMvnc` | Symmetry sets and a bound for TLC. |
| `MvncProofs` | Theorems about `Mvnc`: types, locks, memory, the link, freed graphs. |
| `MvncPipelineProofs` | Theorems about the double buffer of `Mvnc`, and that it implements `InferenceQueue`. |
| `UsbBoot` | Sticks on a bus and several processes that list, boot, open, close and reset them. |
| `UsbBootProofs` | Theorems about `UsbBoot`. |
| `MCUsbBoot` | Two sticks with their addresses, the names applications use, symmetry. |
| `Mailbox` | What the link promises the code above it: named buffers that are set and got in one step, until a transfer times out and again after a reset. |
| `UsbLink` | The protocol of `usb_link_vsc.c` over two bulk pipes. Its last lines map it to `Mailbox`. |
| `UsbLinkProofs` | Theorems about `UsbLink`, and that it implements `Mailbox`. |
| `MCUsbLink` | Two buffers, of one and of two units. |
| `MvncOptions` | What the stick is told of the options, by `send_opt_data` and by `get_optimisation_list`. |
| `MvncOptionsProofs` | Theorems about `MvncOptions`. |
| `PyGraph` | The Python binding over an instance of `InferenceQueue`. |
| `MCPyGraph` | Symmetry sets. |
| `PyGraphProofs` | Theorems about `PyGraph`. |
| `GetMvcmd` | The download script, its kills and the runs after it. |
| `GetMvcmdProofs` | Theorems about `GetMvcmd`. |
| `GraphFile` | Pure operators: what `mvncAllocateGraph` reads in a graph file and the buffers it sizes. |
| `Fp16` | Pure operators: the conversions of `fp16.c`, and IEEE 754 to compare them with. |
| `MCData` | Enumerates the inputs of `GraphFile` and `Fp16`. |
| `DataProofs` | Theorems about `GraphFile` and `Fp16`, and from them about `MCData`. |

`Mvnc` looks at one process and takes `mvncOpenDevice` as one step that works
or fails; `UsbBoot` looks at that call, and at what the processes do to each
other before and after a device is open. They share `OpenDevice` and
`CloseDevice`: a device `d` of `Mvnc` is an element of `opened[p]` of
`UsbBoot`. `Mvnc` takes `usblink_setdata` and `usblink_getdata` as transactions
that work or fail. `UsbLink` shows that they are, up to the first transfer that
times out and again after a reset; after a time-out in the middle of an exchange
they are not, and `Mvnc` is then about a better link than the code has. `Mailbox`
also says only that some buffer is set to some payload: that it is the buffer and
the payload of the call is a matter of `UsbLink`'s state, not of the refinement.
`PyGraph` runs on the queue that `Mvnc` implements, and `MvncOptions` looks at
the contents of the config messages whose sending and locking are steps of
`Mvnc`.

### How `Mvnc` corresponds to the code

`mm` and `dmm[d]` hold the thread that owns the mutex. `devices` is the list of
open devices and `live` the structures not freed: `mvncCloseDevice` unlinks a
device before it waits for its mutex, so the two differ for a while.
`graphs[d]` is `d->graphs`; `graph[g]` has the fields of `struct Graph` that
steer the control flow. `thermal[d]` is the graph whose buffer
`d->thermal_stats` points into, `optList[d]` is `d->optimisation_list` as
`none`, `empty` (allocated, never filled) or `filled`. Graphs and devices are
addresses: with `Reuse = TRUE` a freed address may be handed out again, as by
`malloc`. A `Tag` stands for a tensor, for its output and for the `userParam`
given with it, so that a wrong pairing shows as two different tags.

`pc[t]` names a place in the call, `call[t]` holds its arguments, locals and
results. A step is the code between two points at which another thread can
interfere:

| `pc` | Place in `mvnc_api.c` | Holds |
|---|---|---|
| `cd_dmm` | CloseDevice before line 401 | `mm` |
| `ag_usb` | AllocateGraph, 472-535 | `mm` |
| `dg_dmm` | DeallocateGraph before 550 | `mm` |
| `so_dmm`, `so_set` | SetGraphOption before 575, then 577-592 | `mm`, then device |
| `go_dmm`, `go_list` | GetDeviceOption before 792, then 794-844 | `mm`, then device |
| `lt_opt`, `lt_check`, `lt_sleep`, `lt_dmm` | LoadTensor 883, 891, 901, 908 | `mm`; nothing in `lt_sleep` |
| `lt_put`, `lt_xfer`, `lt_store` | LoadTensor: arguments of `usblink_setdata`, the transfer, 917-920 | device |
| `gr_check`, `gr_sleep`, `gr_dmm` | GetResult 939, 945, 955 | `mm`; nothing in `gr_sleep` |
| `gr_out`, `gr_aux`, `gr_store` | GetResult 957, 962, 986-992 | device |
| `gr_retry` | GetResult 972 | nothing |
| `gr_late`, `gr_late_store` | the code after the loop when it timed out | `mm` |

The increment and the decrement of `have_data` are a read and a write in two
steps (`call[t].hd`), because they are not made under one mutex everywhere.
`mvncOpenDevice` is one step: it holds `mm` from start to end and its device
cannot be known to anyone before it returns. `mvncCloseDevice` from line 401 on
is one step for the same reason: it holds both mutexes. The sleep of half a
second after a close changes nothing.

In each module the section headed "Mutated forms" (in `Mvnc` and `UsbBoot`:
"Mistakes") holds variants of definitions with one bug each. No action uses
them; substituting one for the definition it varies makes TLC report the
property named with it, which shows that the property is able to notice.

The stick's firmware is a binary. `fw[d]` and `FirmwareRun` state what the host
relies on: two inputs taken in turn, one inference started by each `hostready`,
one output offered until it is read. `AllocateGraph` and a reset empty it.

`Faults` selects what may fail:

| Fault | Where | Effect |
|---|---|---|
| `open` | anything in `mvncOpenDevice` | error, nothing changes |
| `blob` | lines 475-511 | error, what was allocated is freed |
| `config` | `send_opt_data` | error, `started` stays 0 |
| `input` | line 911 | error; unlocks `mm`, keeps the device mutex |
| `output` | line 957 | retried |
| `aux` | line 962 | error, `failed` set; `hostready` may have arrived or not |
| `query` | `get_optimisation_list` | error, the buffer stays |
| `debug` | line 989 | `MVNC_MYRIAD_ERROR`, `failed` set |
| `timeout` | line 978 | gives up after 15 seconds |

An output that is not ready also makes the `output` transfer fail (the stick
refuses the permit), without any fault.

Two simplifications. `get_optimisation_list` sends its query with `hostready`
set (line 741), which starts an inference when it comes with an input or with
`auxBuffer`; what the firmware makes of it in a query is not known, and `fw`
stays as it is. So `NothingStalls` and the properties that rest on it are silent
about a stick that takes the query for a start. And the `calloc` of `struct
Graph` (lines 492-493) is not checked by the code, which writes through the
pointer; `AllocateFails` has the outcomes of the two that are checked.

### How `UsbBoot` corresponds to the code

A process is the library in one application. `mvncGetDeviceName`,
`mvncOpenDevice` and the part of `mvncCloseDevice` that touches the stick hold
`mm` from start to end, so a process is in one of these calls at a time.
`claim[s]` is the process for which the kernel has claimed interface 0 of the
stick; `initialized`, `devs[p]` and `opened[p]` are the static variables of the
library: whether `usblink_resetall` has run, the device list that
`usb_find_device` keeps between calls, and the `devices` list with the
`dev_addr` of each. `stale[p]` is the rest of the list that `usblink_resetall`
goes through.

`mode[s]` is what the stick does. It offers its ROM (`rom`, and `booting` once it
has got the firmware and is about to leave the bus), runs (`starting`, `waiting`
for commands, `resetting`), or is off the bus (`loaded` and `reset` on the way,
`gone` if unplugged). `bus` is the order in which libusb lists the sticks.
A stick has an address as ROM and one as running device, which on some ports
are equal.

| `pc` | Place |
|---|---|
| `reset`, `settle` | `usblink_resetall`, lines 119-142 and 143-162 |
| `name` | the search of `mvncGetDeviceName` |
| `boot`, `send` | `wait_findopen`, `send_file` |
| `open` | `usblink_open(device_name)`, `mvnc_api.c:259` |
| `scan` | the search by index, `mvnc_api.c:262-280` |
| `status`, `wait` | lines 282-295 and 297 |

One step looks at the bus once. Listing, opening and claiming a stick is one
step, because only the claim can be lost to another process, and what fails
between the two fails like the claim. For the same reason `ResetOne` opens,
claims, resets and closes a stale stick in one step, and the reset, whose result
the code ignores, works. The 15 seconds of the search, the 2
seconds of `wait_findopen` and the 50 rounds of `usblink_resetall` are numbers
of tries. Which error code a failing call returns is written beside each
`Return` as a comment: nothing in the state depends on it. Left out: the tests
of the arguments, and libusb failing to list the bus or to read a descriptor.

`enum[p]` is no variable of the library: it follows an application that asks for
the names 0, 1, 2 until there are no more, and whether the bus changed
meanwhile. `Faults` selects a missing firmware file (`mvcmd`), a failing bulk
transfer of the firmware (`send`), a stick pulled out (`unplug`) and a process
that ends at any moment (`exit`).

### How `UsbLink` corresponds to the code

`out` and `in` are the bulk pipes, sequences of items: a header, an answer
(`operation_permit`, 0xABCD or anything else), a unit of data, or a transfer of
no bytes. `host.stage` is the `usb_write` or `usb_read` the call is in:
`header`, `permit`, then `write` or `read`, or `status`; `host.done` and
`host.got` are what the loop has moved. One step is one
`libusb_bulk_transfer`, which may move less than it was asked to, at most
`Chunk` units (`USB_MAX_PACKET_SIZE`). When nothing can move, the transfer
times out and the call returns -1 where it stands; the firmware then finishes
what it was doing, and the answer comes late. The firmware is external: it may
refuse a set or a get, end a message with an empty transfer, take what follows
a granted set for its data, and stop at any point.

`late` says that a transfer has timed out since the stick last booted. From
then on header, data and answers of different calls may meet; `Retries` bounds
the calls that are tried in that state before a reset.

### How `MvncOptions` corresponds to the code

`limits` is the options in `struct Device` (temperatures, back-off times), `graph.opts`
those in `struct Graph` (iterations, throttle), which start anew with each
allocation; `stick` is the last config message that got through. `mm` and `dmm`
are held from step to step by `LoadTensor` (`mm`, from `send_opt_data` to the
device mutex of the input, but for the sleep of its wait loop) and by the
option calls (`dmm`). `graph.addr` is the address of the graph and `handle[t]` the one
`LoadTensor` was called with: after the sleep (`LoadWake`) the graph is looked
up again by address, and `started` is not looked at again. A query message is
zeros but for the query bit (`config[1]`). Ghosts: `changed` says that an
option was stored after the message of `LoadTensor` was filled in, `queried`
that a query has sent a config since, `failed` that a query ended half-way,
`overtaken` that a config of `LoadTensor` arrived inside a query, `strange` has
the threads whose graph was freed while they slept.

### How `PyGraph` corresponds to the code

ctypes releases the interpreter lock in a call of the C library and Python may
switch threads anywhere, so each call is cut where another thread may run:
`load` and `loaded` before and after `mvncLoadTensor`, `copy` and `lookup` after
`mvncGetResult`. A `Graph` is a Python object, a `Handle` the address of a
`struct Graph`, and `graphOf[h]` says whose struct is at `h`. An address may be
given out again: `DeallocateGraph` clears `Graph.handle`, but `CloseDevice`
leaves it as it was, and a `LoadTensor` that sleeps in the library keeps its own
copy, so that a call may reach the struct of another `Graph` (`Found`, `Reach`;
the ghost `stray` has the Graphs of such calls and `by`, in a queued inference,
the Graph it was loaded for). `GetResult` then looks the `userParam` up in the
wrong dictionary and raises `KeyError`, which is the second branch of `LookUp`.
An `Addr` is the address of a `py_object`; it may be used again as soon as
nothing refers to the object, which is how CPython frees it. `output[h]` is the
buffer of the C library that `memmove` reads.

The C library is `InferenceQueue` for each address: `QueueIsImplemented` (below)
says so for `Mvnc` with addresses reused, one loading thread, no time-out, and
no failing transfer of the input or of `auxBuffer`. `PyGraph` therefore has one
thread that loads (`Loader`) and one that does the rest (`Reader`), and that is
an assumption of its theorems too (`RoleAssumption`). Calls answer with MVNC_OK,
MVNC_BUSY or another error, and `GetResult` also raises when the library
delivers MVNC_MYRIAD_ERROR. `leaked` is a ghost: the entries a busy `LoadTensor`
or a raising `GetResult` leaves behind. The application keeps its `Graph`
objects: if it dropped one, Python could give the address of a `py_object` out
again while its inference is in the library.

### How `GetMvcmd`, `GraphFile` and `Fp16` correspond to the code

In `GetMvcmd` `pc` names the next command of the script and each command is an
action with its ways to work and to fail. The script looks at the status of
`wget`, of `grep` behind `tar -t`, of `tar -x` and of `ls`, and its own exit
status is that of its last `rm`; after any other command (`rm`, `mv`, `ln`,
`mkdir`) it goes on as if it had worked. The ghost `unheeded` has the commands
of the run that failed in this way. A `mv` to a directory that is still there
moves into it (`Moved`, `inside`), an `rm -rf` that fails has removed
everything, a part or nothing (`Remains`). `Kill` stops the script between two
commands or inside one: a directory that was being removed or unpacked has part
of its files. A directory is absent or holds no, some or all of the firmware.

`GraphFile` reads the file byte by byte with the offsets of the code; sums and
products wrap at a word of four bytes. A file that says it has no stages is left out: the
code's unsigned `(nstages - 1) * 227` wraps, and it reads some 4 GB after the
header. `Fp16` has one alternative for each path of
the code; masks and shifts are `%`, `\div` and `*`.

## What is checked

Passing runs:

| Run | Question | States |
|---|---|---|
| `mvnc_pipeline` | Loader, reader and owner on their own threads, input and output transfers that fail: is the double buffer the queue it should be, does an inference ever get stuck, are transactions ever interleaved, is `GONE` reported? | 306 thousand |
| `mvnc_lifecycle` | Two threads that make every call, with addresses reused and every failure but `input`: does the state stay well formed, is freed memory used, is a mutex kept, is every graph that lost an inference marked as failed? | 3.2 million |
| `mvnc_progress` | Under fairness: is every mutex released, does `GetResult` come back? | 25 thousand |
| `mvnc_options` | Setting, listing, loading and allocating threads, a loader that sleeps while its graph is replaced: does an inference run as configured, does it ever meet query mode, is the list that is kept the right one? | 39 thousand |
| `usb_link` | Short, empty, refused and timed-out transfers: is a transaction atomic, is anything left on the wire, does every call end? | 395 thousand |
| `usb_boot_shared` | Two processes, two sticks, processes that die: can one take or reset the stick of the other, does a failed `mvncOpenDevice` keep a stick claimed? | 433 thousand |
| `usb_boot_alone` | One process, sticks that come and go, every fault: is an enumeration complete, is anything kept, does every call end? | 136 thousand |
| `py_graph` | A loader and a reader that also opens and closes, with addresses of graphs and objects given out again: does a result come with its own object, what leaks? | 371 thousand |
| `get_mvcmd` | The script, each of its commands failing, killed and run again: is the firmware lost, is exit status 0 true? | 12 thousand |
| `data` | Every half, with the floats at the ends of its rounding intervals; 65536 graph files: are they converted and read as they should be? | 65536 |

The properties, in `Mvnc`:

- `LinkExclusive`: two multi-transfer transactions with one stick never overlap.
- `HaveDataInBounds`, `ResultsMatch`, `ImplementsQueue`: no slot of `user_param`
  is overwritten or read early; each result goes with its own `userParam`; every
  step of the code is a step of `InferenceQueue` or changes nothing in it.
- `NothingStalls`: whenever the device mutex is free, `have_data` is the number
  of inferences on the stick, and if there is one, it runs or its output waits.
- `SoundUntilFailure`: a failed `auxBuffer` transfer (line 963) loses an output
  that `have_data` still counts, and a `GetResult` that gives up (line 995) takes
  a `userParam` whose output is still to come. Both set `failed`, by which
  `LoadTensor` knows not to wait for room (line 896). A graph that is not marked,
  and that no `GetResult` is about to mark, has lost nothing: `have_data` is
  within bounds and in step with the stick (`InStep`), and each output is paired
  with its own `userParam`. After the mark the code promises nothing and the
  next results are indeed mixed up (`mvnc_timeout`).
- `GoneIsReported`: a call whose graph was freed while it slept returns `GONE`.
- `LockDiscipline`, `NoUseAfterFree`, `ThermalPointsToGraph`, `TypeOK`.
- `LocksAreReleased`, `GetResultReturns`: liveness.

In `UsbBoot`:

- `NothingIsLeaked`: a process has claimed exactly the sticks of its open devices
  and of the call it is in. A stick that stayed claimed could not be opened
  again by anyone until the process ends.
- `OneHandle`: no stick is behind two devices. `is_device_opened` compares names
  only, and names may be wrong (see below): it is the claim that ensures this.
- `InUseIsNotReset`: a stick that waits for commands and is claimed is reset only
  by the process that closes it. A stick that was booted and not yet opened is
  not protected: the `mvncOpenDevice` that booted it then fails.
- `EnumerationIsComplete`: if no stick came or went since index 0, the names
  obtained are those of all sticks, each once, although `mvncOpenDevice` of
  another thread frees the list `devs` between two of the calls.
- `OpenReturns`: liveness.

In `UsbLink`:

- `InStep`: while no transfer has timed out, a call that returned has left
  nothing to read but empty transfers, and the stick is owed exactly the data
  it granted: no data is taken for a header, a refused call included.
- `ImplementsMailbox`: up to the first time-out and again after a reset, every
  step is a set, a get or a refused call of `Mailbox`, or changes nothing in it.
  This is what `Mvnc` relies on when it takes a transfer as one step.
- `CallsReturn`: liveness.

In `MvncOptions`:

- `RunsAsConfigured`: an input goes out only when the stick has the options of
  the device and of the graph as stored, unless they were set after the first
  `LoadTensor`, a query came in between, or the graph was freed while the call
  slept and another one took its address. The exceptions are the code's:
  `started` is never cleared, a query sends zeros, and the config is sent before
  the wait loop, not after it.
- `NoInferenceInQueryMode`: no input goes out in query mode unless a query failed.
- `ListIsRead`: the list that is kept is the one of the stick unless a query
  failed (`zeros`) or was overtaken by a first `LoadTensor` (`other`).

In `PyGraph`:

- `UserParamsAreLive`: each `userParam` the library holds is the key of the
  object of its inference, and of no other, in the dictionary of the Graph that
  loaded it, although addresses are used again. `GetResult` looks there, and raises no
  `KeyError`, unless the struct of one of the two Graphs was freed and its
  address given out again.
- `TensorMatchesObject`: the tensor and the object of a result are those of one
  `LoadTensor`, although the tensor is copied without a lock, and even if the
  handle reached another struct: `GetResult` then raises.
- `LeaksAreKnown`: `userobjs` of a Graph whose struct is there keeps nothing but
  what is under way, was busy, or belongs to a `GetResult` that raised.

In `GetMvcmd`:

- `FirmwareSurvives`: a run that finds the firmware leaves it in one of the two
  directories, wherever it fails or is killed, unless the `mv` that puts it aside
  failed: the archive is then unpacked over the only copy, and a failure removes
  it.
- `SuccessMeansFirmware`: exit status 0 means that the firmware is there, if the
  run began with all of it or none and the `mv` back and the two `rm` before a `mv`
  worked.
- `NothingIsLeftBehind`: exit status 0 means that neither `mvnc.old` nor the archive is
  there, unless the one command that removes it failed.

The script does not look at the commands named, so these exceptions are what it
does: it exits with 0 without firmware, or with `mvnc.old` left. That any other
of the unchecked commands fails does no harm to the three.

In `MCData`: `HalfsRoundTrip`, `FloatsRound`, `NaNsAreKept` compare `fp16.c` with
IEEE 754; `FilesAreRead` says that a well-formed file is read within its bounds
and refused only for its size, `BuffersFit` that for any bytes at all the
transfers of `GetResult` and the pointers handed out stay within the buffers.

Bounds. Two tensors fill the double buffer and a third is needed for a loader
that waits while both slots are taken, so the pipeline run has three tags. Two
graph addresses are enough for a freed graph and its successor, at the same
address or at another one. One stick: the only state shared by two sticks is
`mm` and the list, and the proofs below cover any number. Three threads give
one for each role. `HaveDataBound` (in `MCMvnc`) cuts behaviours in which
`have_data` has left -1..2; it counts on only after a time-out or after the
reuse of an address.

In `UsbBoot`, two sticks are needed for a scan to find another stick than the one
that was booted; one of the two changes its address and the other does not.
Applications open either by its name and the second also by `first:second`. One
retry of `wait_findopen`, two rounds of `usblink_resetall` and two of the search
let each loop go on once and give up once. The run with two processes leaves the
loop over names out (`NobodyEnumerates`), the run with one process has it: the
list it depends on is private to a process.

In `UsbLink` a buffer of two units and chunks of two units let a transfer be
whole or short; two items of room make the host wait for the stick, and five
hold the longest answer with an empty transfer; two tries after a time-out let a
late answer be taken for that of the next call and of the one after it. In
`PyGraph` four addresses of objects are one more than the entries of one graph
that can be in use at once, before leaks, so that they run out and are used
again; two Graphs and two addresses of graphs let one be freed and followed by
another at its address or elsewhere. In `MvncOptions` two addresses do the same.
In `GetMvcmd` nothing is bounded. In `MCData` bytes have two bits, so that TLC's
integers hold the product of three words: `GraphFile` does not depend on the
width, and the largest word is among the inputs, so that products wrap;
`MaxOutputs` and `MaxLength` are scaled with it. All halves are enumerated;
floats are taken at both ends of the two intervals around each half, and NaNs
with small significands.

`CHECK_DEADLOCK FALSE` is said only where the failed input transfer is enabled:
the system then really stops.

Fairness (`Fairness` in `Mvnc`). A thread that holds a mutex keeps running, so
its steps are weakly fair; so is the firmware. A thread that slept competes for
`mm` every millisecond with the others. Strong fairness of `Wake` says that it
gets `mm` some time if `mm` is free again and again: `pthread_mutex_lock` does
not promise it, but nobody holds `mm` for long without sleeping in between. The
15 seconds of `GetResult` pass by themselves, which is the strong fairness of
`GetGiveUp`. Starting a call is never fair: an application may stop calling. In
`UsbBoot` a call that has begun keeps running (weak fairness of `Continue`);
sticks may take for ever to come back. In `UsbLink` a transfer that can move
does and one that cannot times out, as libusb does; nothing is assumed of the
stick, but that it ends a message with at most one empty transfer. If empty
transfers came for ever, `usb_read` would go round for ever.

Runs that find a violation, each of something the documentation says:

| Run | What happens |
|---|---|
| `mvnc_close_hangs` | The error branch of `LoadTensor` (line 913) unlocks `mm` instead of the device mutex. `CloseDevice` then never returns, and it holds `mm`, so that no other call does. |
| `mvnc_timeout` | After a time-out, the next result comes with the `userParam` of the one after it. |

Other disagreements with the documentation that the models show and no run
repeats, with the settings that show them:

- `GoneIsReported` with `Reuse = TRUE` in `MvncPipeline.cfg`: the wait loops
  recognise a graph by its address. If it was freed and another was allocated
  there, `GetResult` returns a result of the other graph instead of `MVNC_GONE`.
- `ResultsMatch` with two threads in `Loader`: both pass `have_data == 2`, and
  one overwrites a `userParam` that was not read yet.
- `MVNC_DONT_BLOCK` does not keep `GetResult` from waiting for an inference that
  is running: only `GetCheck`, before the first transfer, looks at it.
- `mvncOpenDevice` keeps in `name2` the name of a stick that it claimed and had to
  release; when the next round opens the right stick by `device_name`, the
  device gets the other name (`opened` in `UsbBoot` has the name as `addr`).
- A second query after a failed one returns an empty list with `MVNC_OK`, and
  inferences after a query run with zeros for options (drop `~failed`
  or `~queried` from the properties of `MvncOptions`).
- A `LoadTensor` that sleeps while its graph is freed and another one is
  allocated at the same address sends its input to a graph whose config was
  never sent (drop `t \notin strange` from `RunsAsConfigured`). In the Python
  binding the same call queues its key with the other graph, whose `GetResult`
  raises `KeyError`; so does a Graph that is used after `CloseDevice` once its
  address is in use again (drop `stray` from `UserParamsAreLive`).
- The script that is killed after it moved `mvnc` aside loses the firmware in
  the next run, which begins by deleting `mvnc.old` (drop the test of `had`);
  after `make clean` a failed download restores a directory without firmware
  and exits with 0 (drop `sound`); a failing `mv` or `rm` that nobody looks at
  loses the firmware, or exits with 0 without it or with the old directory left
  (drop the tests of `unheeded`).

Consequences, for a reader who uses the passing runs and the theorems: the queue
properties hold with one loading thread and any number of reading ones, no
time-out and no failed input or `auxBuffer` transfer, even if addresses are
reused; with time-outs and failed `auxBuffer` transfers the counts and the
pairing are right until `failed` is set. That a freed graph is reported needs
that its address is not reused, whatever else happens. `LinkExclusive` holds
with any number of loading threads but needs in addition that addresses are not
reused and that nobody asks for the optimisation list while another thread
allocates: `get_optimisation_list` runs under the device mutex alone, allocation
under `mm` alone.

## What is proved

`MvncProofs`, for every set of threads, devices, graphs and tags, every
assignment of roles and, where nothing else is said, with or without reuse of
addresses:

| Theorem | Statement | Assumption |
|---|---|---|
| `TypeCorrect` | `Spec => []TypeOK` | none |
| `LocksAreDisciplined` | `Spec => []LockDiscipline` | `"input" \notin Faults` |
| `MemoryIsSafe` | `Spec => []NoUseAfterFree` | `"input" \notin Faults` |
| `ThermalIsSafe` | `Spec => []ThermalPointsToGraph` | `"input" \notin Faults` |
| `GoneGraphsAreReported` | `Spec => []GoneIsReported` | `~Reuse` |
| `LinkIsExclusive` | `Spec => []LinkExclusive` | `"input" \notin Faults`, `~Reuse`, `Lister = {}` |

`TypeOK` is inductive by itself: besides the sets of values it says that the
graphs in a device's list point back to it and that a call past its handle check
has a graph and a device. The next three are not inductive one by one: that
nobody's graph is freed follows from who holds which mutex, and who may unlock
which mutex follows from the handle that the call keeps. The inductive invariant
is their conjunction with `Registry`: open devices are live, a device that is
live and not open belongs to one thread, which is waiting to free it, only live
devices have graphs, and the thread at `ag_usb` holds `mm` and found the list
of its device empty.
The proof goes action by action; the assumption is needed because the error
branch of line 913 breaks `LockDiscipline` in one step.

`GoneIsReported` follows from `Lost`: a thread whose graph was freed while it
slept has returned `GONE`, or still sleeps with an address that is that of no
graph and, without reuse, never becomes one. `LinkExclusive` is the hardest to
see in the code: the first config message is sent under `mm` alone and all other
transactions under the device mutex alone. What keeps them apart is `started`:
a graph that has not sent its options has no thread past the config message
(`Started`, `Warm`), a thread that found it not started holds `mm` until it has,
and a device has one graph at most. A thread that waits for a graph may find
another at the same address, not started, hence the assumption on reuse;
`Lister = {}` is needed because `get_optimisation_list` respects neither rule.

`MvncPipelineProofs`, for every set of threads, devices, graphs and tags, with
addresses reused or not:

| Theorem | Statement |
|---|---|
| `HaveDataIsBounded` | `Spec => []HaveDataInBounds` |
| `ResultsAreMatched` | `Spec => []ResultsMatch` |
| `NothingIsStalled` | `Spec => []NothingStalls` |
| `FailuresAreMarked` | `Spec => []SoundUntilFailure` |
| `QueueIsImplemented` | `Spec => ImplementsQueue` |

They assume `OneLoader`, at most one thread that calls `mvncLoadTensor`, because
two may both see `have_data < 2` before either has the device mutex.
`FailuresAreMarked` assumes besides only that no input transfer fails, since
that one keeps the device mutex for ever. The others assume
`InTime`, that no input and no `auxBuffer` transfer fails and `GetResult` does
not give up, because each of these leaves the stick and `have_data` apart (the
findings and the list above say what then happens). Any number of threads may
read; failed outputs, config messages and allocations and `MVNC_MYRIAD_ERROR`
are included. None of the
properties is inductive, since between the transfer and line 917 or 986 the
fields of the graph and the stick disagree on purpose. The invariant `Pipeline`
therefore looks at the graph as the call that has the mutex will leave it:
`Count`, `Slot`, `Oldest` and `Params` are the number of inferences, the slot of
the next and of the oldest one and the slots of `user_param`, corrected for the
place of that call. `Agree` says that the stick has just these inferences in
just this order, `Pipe` in addition that one of them runs or waits to be read
unless the call is about to send `hostready`, and `Place` what each call has
read and may still rely on: above all that a loader past its check at line 891
still finds room, since others can only take inferences away. `Pipe` and the part
of `Place` that is about the pipeline are claimed of the graphs that are `Sound`:
all of them under `InTime`, otherwise those that are not marked as failed and
that no `GetResult` is about to mark. A step never makes a graph sound again that
it does not free (`StillSound`), and the two steps that break a pipeline,
`GetAuxFails` and `GetLate`, leave it unsound (`GetAuxFailsPipe`, `GetLatePipe`);
that `GetLate` toggles `output_idx` without the mutex of the device, under the
feet of a loader or of another reader, therefore harms nothing that is claimed.
In the refinement
the queue of a graph is what `have_data` and `input_idx` tell of `user_param`
(`QueueOf`). The steps with an effect in it are the stores at the end of
`LoadTensor` (`Load`) and of `GetResult` (`Deliver`), the freeing of a graph
(`Drop`) and the start of a call (`Forget`); for each other action there is a
step of the proof that it leaves all queues and answers as they were.
`mvnc_pipeline` checks the same properties with failing input transfers,
which the proof leaves out.

`UsbBootProofs`, for every finite set of sticks, every set of processes and every
assignment of addresses, with every fault:

| Theorem | Statement |
|---|---|
| `StateIsTyped` | `Spec => []StateOK`, the part of `TypeOK` that is not about lists |
| `TypeCorrect` | `Spec => []TypeOK` |
| `ClaimsAreReturned` | `Spec => []NothingIsLeaked` |
| `SticksAreExclusive` | `Spec => []OneHandle` |
| `ResetsAreByOwner` | `Spec => InUseIsNotReset` |
| `LoopsAreComplete` | `Spec => EnumerationIsComplete` |

`StateOK` is inductive by itself. `NothingIsLeaked` is not: if the stick in the
hands of a call were also behind a device of that process, releasing it would
leave the device without its claim, and if two devices had one stick, closing
one would do so to the other. `OwnOnce` excludes both, and `Own`, the
conjunction of the three, is inductive; there is one lemma for each thing that
can happen to a claim (taken, dropped, kept for a device, closed, lost by the
death of the process or of the stick). `OneHandle` and `InUseIsNotReset`
follow from `Own` alone.

That the bus lists each stick once is not inductive either: a step that takes a
stick off the bus relies on its being there, so the sticks that are still to be
reset, those behind devices and the one that gets firmware must be of the kind
(ROM or running) that the code took them for when it saw them. This is `Kinds`.
`InLoop` says how far a loop over the names that nothing disturbed has come, and
that the list kept in `devs` is gone or up to date. `Listed`, the conjunction of
both with `TypeOK`, is inductive. The work is in the steps that change the bus:
a stick that comes is appended, one that leaves is removed from every list, and
both end the loops that are under way (`Disturb`).

`UsbLinkProofs`, for any buffers, payloads, sizes and limits, with every fault:

| Theorem | Statement |
|---|---|
| `TypeCorrect` | `Spec => []TypeOK` |
| `LinkInStep` | `Spec => []InStep` |
| `MailboxIsImplemented` | `Spec => ImplementsMailbox` |

The invariant has two halves. `Typed` holds always: what a call has filled in at
each stage, and that each buffer of the stick has its length. `Framed` holds
while nothing has timed out and says for both pipes who owes what: only a call
that waits has a header on its way, and it is the last item (`OutFramed`); a
stick in a set gets one payload, whole, before anything else (`SetFramed`); what
there is to read is the answer to the header that was read, and nothing else but
empty transfers, which may stand before and after any message (`InFramed`,
`Carries`); the part that was moved and the part on the way make up the buffer
(`DataFramed`). A time-out makes `Framed` void, and a reset restores it: both
pipes are empty and the buffers blank. `InStep` follows at the end of a call. In
the refinement a set takes effect when its last unit is on its way (`Stored`), a
get when the host has the last unit, a reset with its header; `Retries`, `Chunk`
and the room in the pipes may have any value, so that the numbers in the run are
no restriction.

`MvncOptionsProofs`, `GetMvcmdProofs` and `PyGraphProofs`, for all values,
graphs, addresses and versions. For the options there may be any number of
threads in each role; for `PyGraph` one that loads and one that does the rest,
as `RoleAssumption` says:

| Theorem | Statement |
|---|---|
| `InferencesAreConfigured`, `QueriesAreAtomic` | `Spec => RunsAsConfigured`, `Spec => NoInferenceInQueryMode` |
| `ListIsGenuine` | `Spec => []ListIsRead` |
| `FirmwareIsSafe`, `SuccessIsReal`, `RunsCleanUp` | `Spec => []` each of the three properties of `GetMvcmd` |
| `UserParamsLive`, `OnlyKnownLeaks` | `Spec => []UserParamsAreLive`, `Spec => []LeaksAreKnown` |
| `TensorsMatch` | `Spec => []TensorMatchesObject` |

For the options the invariant adds who holds which mutex at each place, that the
message being sent has the options as stored or `changed` is set, and that the
graph of a call in the wait loop is still there and started, unless the call is
`strange`; for `ListIsRead` also that a query in progress has the stick in query mode
unless it was overtaken. For the script it says, command by command, where the
good directory is, given which of the commands before have failed unheeded. For
`PyGraph` it is that every entry of `userobjs` belongs to one inference in a
queue, to one call (`Holds`) or is leaked, that no two of these share an address
and no two dictionaries have one in common, whatever struct a handle reaches;
there is one struct at a time (`OneGraph`), and what is queued is queued there.
`LookUp` may miss the entry, because it looks in the dictionary of its own
Graph, but cannot find that of another inference: this is why `TensorsMatch`
needs no exception. It needs that the thread which reads also closes, because
the tensor is copied out of the buffer of the library without a lock and the
next `GetResult`, or `DeallocateGraph`, would replace it. Its invariant
`Matched` follows the tensor from that buffer to the frame of the call and to
the result.

`DataProofs` is about functions, not behaviours:

| Theorem | Statement |
|---|---|
| `HalfsAreKept` | `RoundTrip(h)` for every half |
| `FloatsAreRounded` | `Nearest(m, f)` for every half `m` and every float |
| `FloatsLieBetween` | every float below 2^16 lies between two halves that `Nearest` speaks of |
| `NaNsAlwaysStay` | `NaNsStayNaNs(f)` for every float |
| `BuffersAlwaysHold` | `BuffersHold(f, length)` for every memory `f` and length, and every width of a byte |
| `HeadersAreRead` | `HeaderIsRead(n, x, y, s, c)` for every header, with bytes of eight bits |
| `NumbersAlwaysConvert` | `Spec => [](HalfsRoundTrip /\ FloatsRound /\ NaNsAreKept)` |
| `FilesAlwaysFit` | `Spec => [](FilesAreRead /\ BuffersFit)`, with bytes of eight bits and `MaxLength >= 3400` |

The last two state what the run `data` checks; the others, on which they rest,
go further. TLC meets all halfs, but of the floats only the ends of the
intervals that round to one half, and files with bytes of two bits, where its
integers suffice.

For the floats the argument is that a half `m` and the next one are a power of
two apart. `NormalValues` and `SubnormalValues` work out where `Exact(m)`,
`Middle(m)` and `Above(m)` are as bit patterns: a normal half has 8192 floats, a
subnormal one whose highest bit is `p` has `2^(23-p)`. A float between them is
then `m` in the high places and a rest `r` in the low ones (`NormalPlace`,
`SubnormalPlace`), and `NormalRounded` and `SubnormalRounded` say what adding a half of the
last place and cutting off makes of it. For a subnormal the code shifts the significand
before it rounds, which loses bits; the lemma shows that they cannot turn the
rounding, since a half of the last place is added above them. Below the smallest
subnormal (`ZeroNearest`), and where rounding carries into the exponent, the same
sum comes out right, up to infinity for the largest half.

For the files, a memory is a function on all offsets, because `mvncAllocateGraph`
reads at offsets that the file itself gives and may leave it if the file is no
graph: `BuffersHold` says that even then the sizes derived from what was read fit
each other. `HeadersAreRead` rests on a lemma that a number written in four digits
is read back, and on one that a product below a word does not wrap in between. In
`FilesAlwaysFit` the bound on `MaxLength`, which is 512 MB in the code, keeps the last of
fifteen stages inside the memory that `badfile` defines.

Only model-checked: the liveness properties (`LocksAreReleased`,
`GetResultReturns`, `OpenReturns`, `CallsReturn`), which TLAPS does not reach.

## What is not modelled, and the plan

Everything in `api/` that changes state is modelled. Left out, with the reason:

- `libusb_open` returning -1 in `usblink_resetall` (line 131): the code then uses
  an uninitialised handle, and no outcome of that can be named.
- The mixture on the wire of two transactions at once: `LinkExclusive` says that
  there is none when nobody lists optimisations and no address is reused.
- `strchr` over the optimisation list (line 760), which may run past the last
  entry: the list is a value here, not characters.
- The option calls of the Python binding: they convert and forward arguments.
- MVNC_TIMEOUT, a failing transfer of the input or of `auxBuffer`, and a second
  loading thread in `PyGraph`: the queue of the C library is then broken.
- What becomes of the firmware at a query with `hostready` set (line 741).
- A graph file with no stages: `FilesAreRead` is about files with one or more.
- That sticks which were reset come back in time: `usblink_resetall` waits for
  them (`Settle`), and the safety properties of `UsbBoot` hold whether or not
  they do.
- Logging, wording, the tests of null arguments, the firmware itself, the
  programs under `examples` (sequential callers of the API with no state of
  their own, but for `fp16.c`), the installers (package managers), HTML.

Of the 42903 lines that count as implementation about 39200 are copies of
`stb_image.h` and `stb_image_resize.h`, third-party image code under
`examples`. The model covers most of what remains of the C library, the link
and the download script, and cannot cover a large share of the whole.

Worth doing next: a proof of the pipeline with failing input transfers, where the
thread that failed keeps the device mutex for ever and its graph stays as it
left it; a run in which `UsbLink` carries two transactions of two threads.
