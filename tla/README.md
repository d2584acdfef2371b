# TLA+ models of the XNU 11.2 private headers

The repository ships kernel *headers* only (24 files under `src/BUILD/dst/...`).
Most of them are struct layouts, constants and prototypes. The behaviour in them is
of two kinds:

- **Contracts written as comments.** `kern/turnstile.h` documents most of the turnstile
  protocol this way: what `turnstile_prepare` and `turnstile_complete` transfer, under
  which lock, what `turnstile_update_inheritor` stashes, and the hop bound of the
  propagation.
- **Inline functions and macros.** Examples are the PTE helpers of `i386/pmap.h`, the
  decmpfs package encoding and `EV_SET`.

The turnstile manager is the one stateful, concurrent component written as a
protocol, and is modelled first. Each of the other headers that states behaviour is
modelled as the contract it states: the PTE helpers, the physmap checks, the decmpfs
encoding, an EVFILT_USER knote, the workloop sync waiters, the work-interval deferred
finish, and the performance controller's deadline timer and callouts. These
implementations are not in the repository, so each model's actions apply the header's
macros and inline functions in the order its comments give.

All paths below are relative to
`src/BUILD/dst/System/Library/Frameworks/Kernel.framework/Versions/A/PrivateHeaders/`
unless they say otherwise.

## 1. Inventory

### Components

| component | source | state | operations |
|---|---|---|---|
| Turnstile pool | `kern/turnstile.h` 136-191, 297-343 | Each thread's spare turnstile. A primitive's turnstile, in its `tstore` slot or in the hash table. A turnstile's free list. `ts_state` bits. | `turnstile_prepare`, `turnstile_complete`, `turnstile_state_add/remove/init` |
| Inheritor graph and update protocol | `kern/turnstile.h` 196-250, 345-408 | Each turnstile's inheritor. The old inheritor stashed on the calling thread. | `turnstile_update_inheritor` (IMMEDIATE / DELAYED), `turnstile_kernel_update_inheritor_on_wake_locked` |
| Priority propagation | `kern/turnstile.h` 36-44, 366-389 | A turnstile's push and a thread's inherited priority. | `turnstile_update_inheritor_complete`, which walks at most `TURNSTILE_MAX_HOP_DEFAULT` hops. |
| Sleep-with-inheritor KPI | `kern/turnstile.h` 116-119, 410-429 | The waiters of an event, kept in its hash-table turnstile. | sleep, wakeup (one, one without push transfer, all), change inheritor |
| Hash bucket lock | `kern/turnstile.h` 261-295 | A spinlock per bucket. | lock / unlock |
| Statistics | `kern/turnstile.h` 37-44; also `System.framework/.../kern/turnstile.h` | counters | incremented by propagation |
| PTE encoding, physmap | `i386/pmap.h` 196-485 | 64-bit PTE words; `physmap_base`, `physmap_max` | `pte_set_ex`, `pte_remove_ex`, `ept_refmod_to_physmap`, the `PTE_*(is_ept)` selectors, the compressed marker, `physmap_enclosed`, `PHYSMAP_PTOV_check` |
| decmpfs header value | `System.framework/.../sys/decmpfs.h` 79-158 | a 64-bit word, magic, type | `DECMPFS_PKG_SIZE`, `_CHLD_COUNT`, `_VALUE_FROM_SIZE_COUNT`, `decmpfs_get_uncompressed_size`, `decmpfs_get_directory_entries` |
| kevent flags, EVFILT_USER | `sys/event.h` 203-287 | one knote: flags, enabled, triggered, fflags | `EV_ADD/DELETE/ENABLE/DISABLE`, `EV_ONESHOT/CLEAR/DISPATCH`, `NOTE_TRIGGER`, `NOTE_FF*` |
| workloop sync waiters | `sys/event.h` 289-365 | each waiter's knote, the owner, the debounce word | `NOTE_WL_SYNC_WAIT`, `NOTE_WL_SYNC_WAKE`, `END_OWNERSHIP`, `DISCOVER_OWNER`, `IGNORE_ESTALE` |
| work interval | `sys/work_interval.h` 104-152 | members, auto-joined threads, frame phase | start, finish, wakeup (auto-join), block (un-join, deferred finish) |
| perfcontrol deadline and callouts | `arm/machine_routines.h` 805-834, 866-872, 1026-1036 | the one timer, callouts in flight, each core's thread | `update_callback_deadline`, `deadline_passed`, context_switch, offcore, oncore |
| persona lifecycle | `sys/persona.h` (Kernel 109-173, System 33-134, 198-239) | each persona's state, name, type and reference count; each client's references; each process's persona | `kpersona_alloc/palloc/dealloc`, `persona_lookup`, `persona_find`, `persona_find_by_type`, `persona_proc_get`, `persona_get`, `persona_put` |
| memory limits and their reports | `sys/kern_memorystatus.h` 284-289, 339-360, 446-464; `sys/event.h` 440, 457-481 | a process's active and inactive limits, its state and footprint; an `EVFILT_MEMORYSTATUS` knote's fflags | `MEMORYSTATUS_CMD_SET_JETSAM_HIGH_WATER_MARK`, `_SET_JETSAM_TASK_LIMIT`, `_SET_MEMLIMIT_PROPERTIES`, `_INCREASE_JETSAM_TASK_LIMIT`, the limit check, the high-water-mark kill, registration |
| exception callbacks | `arm/machine_routines.h` 197-212 | one callback per class | `ex_cb_register` |
| everything else | NECP, network agents, classq, vm types, shared region, `vm/pmap.h`, memorystatus bands and snapshots, pgtrace, simple_lock, semaphore, monotonic, tcp_cc, IOHibernate, i386 machine routines | layouts only | none to translate |

### How the turnstile parts interact

A sleeper runs `turnstile_prepare` under the event's bucket lock. That lends its own
turnstile to the event. It then runs `turnstile_update_inheritor(DELAYED_UPDATE)`, and
its assert-wait queues it on the turnstile and applies the inheritor. It drops the
lock, calls `turnstile_update_inheritor_complete(INTERLOCK_NOT_HELD)`, and blocks.

A waker takes the same lock. It dequeues one waiter or all of them. It either makes
the woken thread the inheritor (`..._on_wake_locked`) or leaves no inheritor. It then
propagates.

The woken thread calls `turnstile_complete` and gets a turnstile back. If it was the
last waiter, that is the event's own turnstile, and its inheritor is cleared.

Propagation recomputes one node per hop: turnstile, then thread, then turnstile…
Other CPUs run their own steps between those hops.

### Hard behaviours

- **Interleavings.** Prepare and complete by several threads interleave on one
  primitive. Concurrent walks interleave with sleeps, wakeups and inheritor changes.
- **Early stop.** A walk stops when a node does not change, trusting a concurrent walk
  to carry on.
- **Stale push.** The old inheritor is stashed and only dropped later.
- **Hop limit.** A walk that is still changing priorities can be cut.
- **Cycles.** Avoiding inheritor cycles is left to the caller.
- **Returned turnstiles.** A turnstile returned to a thread must not keep its inheritor.

`PROJECT.json` lists each hazard at its line.

## 2. Plan

1. `TurnstilePool`, `TurnstileSleep`, and the abstract `TurnstileLending` that the
   pool refines (turnstiles). **Done.**
2. `PmapPte`, `PhysmapBounds`, `Decmpfs` (bit encodings, widths scaled and kept as
   `% 2^w`). **Done.**
3. `KeventUser`, `WorkloopSync` (kevent), `WorkInterval`, and `PerfcontrolDeadline`
   with `PerfcontrolCallouts`, composed in `PerfcontrolSched`. **Done.**
4. Next sittings:
   - liveness of the turnstile walk, in a configuration without symmetry;
   - turnstile-as-inheritor chains and a run on what a cycle does.

## 3. Modules

### `TurnstilePool`

This module models `turnstile_prepare` and `turnstile_complete` with a NULL explicit
turnstile.

**State.** The variables are:

- `thread_ts`: the turnstile each thread carries.
- `prim_ts`: the `tstore` slot or hash entry of each proprietor.
- `ts_free`: the free list of each turnstile.
- `ts_state`: the `TURNSTILE_STATE_*` bits, as a set.
- `ts_returned` and `prepared_on`: what prepare returned, and to whom.

**Actions.**

- `turnstile_prepare` is one of two disjuncts:
  - `PrepareInstall`: the first waiter's turnstile becomes the primitive's.
  - `PrepareDonate`: it goes onto the free list.
- `turnstile_complete` is one of two disjuncts:
  - `CompleteFromFreelist`, while the free list is non-empty.
  - `CompleteFromPrimitive`, only when it is empty.

Both are single steps because the caller holds the primitive's interlock. Which
proprietors use the hash table (`tstore == NULL`) is the constant `HashedProprietors`.

### `TurnstileLending`

This is the abstract contract of prepare and complete, as the header words it:

- prepare transfers the caller's turnstile to the primitive;
- complete transfers one of the primitive's turnstiles back;
- the turnstile prepare returns is "safe to use until the thread calls
  turnstile_complete".

**State.** `holder[ts]` is a thread or a primitive. `lent[th]` is the primitive `th`
lent to. `primary[p]` is the turnstile prepare returns for `p`.

**Actions.** `Lend` and `Return`. `Return` may hand back any turnstile the primitive
holds, except that the primary one goes only to the primitive's last user.

`TurnstilePool` refines it (`LendingRefined`, an `INSTANCE ... WITH` in
`TurnstilePool.tla`):

- `holder` maps a turnstile to the thread carrying it, or to the primitive whose
  slot, hash entry or free list holds it (`HolderOf`);
- `lent` is `prepared_on`;
- `primary` is `prim_ts`.

### `TurnstileSleep`

This module models TURNSTILE_SLEEP_INHERITOR. It uses the pool through an `INSTANCE`,
with every event hashed.

**State.** Beyond the pool, it adds:

- `ts_inheritor`.
- `ts_pri`: the push a turnstile computed from its waiters.
- `th_pri`: base priority or the highest push received.
- `waiting_on`, and `pc`, which is sleeping or idle.
- `walk`: the pending hops of the thread's own `update_inheritor_complete`. Each hop is
  a node plus a hop count. A second cursor is used for the stashed old inheritor.
- `hop_cut`: a history variable, set when a walk was stopped by the hop limit while its
  node was still changing.

**Actions.**

- **`sleep_with_inheritor`**: prepare, set the inheritor, queue the thread, start the
  walk.
- **`wakeup_with_inheritor`**: one of:
  - `WakeOne` with transfer, which is `LCK_WAKE_DEFAULT`;
  - `WakeOne` without transfer, which is `DO_NOT_TRANSFER_PUSH`;
  - `WakeAll`.
- **`change_sleep_inheritor`**.
- **`sleep_return`**: complete. If the event's turnstile comes back, its inheritor is
  cleared and the old inheritor is walked.
- **`turnstile_update_inheritor_complete`**: one hop. It is `PropagateTurnstile` or
  `PropagateThread`. It stops in any of these cases:
  - there is no inheritor (`ts_no_inheritor`);
  - the thread is runnable (`ts_thread_runnable`);
  - past hop 0, the node did not change (`ts_no_priority_change_required`);
  - the next hop would exceed `MaxHop`.
- **`NoCycle`** is the caller's obligation from the header's "Caution" comment
  (234-238). It is a guard on the calls that set an inheritor, an assumption about the
  adopter and not a check of the KPI: no run asks whether it holds.

### `PmapPte`

This module models `i386/pmap.h` 196-425. A PTE word is a set of bit positions in
0..63, so `&` is intersection, `|` is union and `& ~m` is difference. Bits 52-63 do
not fit TLC's integers, which is why words are sets.

**State.**

- `pte[is_ept]`: the entry mapping one page in a regular pmap and in an EPT pmap.
- `phys_attr`: the page's collected ref/mod, in the physmap encoding.
- `req[is_ept]`: what the last enter, protect or wiring change asked of the entry.
- `accessed`: the ref/mod the hardware performed since the last clear.

**Actions.** Each action applies the header's helpers to one entry:

- `Enter`: `pte_kernel_rw/ro`, or `INTEL_EPT_READ/WRITE` for EPT, then a cache type,
  the wired marker, and `pte_set_ex` or `pte_remove_ex`.
- `Protect` and `ChangeWiring`.
- `HwAccess`: sets `PTE_REF(is_ept)`, and `PTE_MOD(is_ept)` on a write.
- `CollectRefMod`, `Remove` and `ClearRefMod`: EPT bits go through
  `ept_refmod_to_physmap`. `Remove` collects the entry's ref/mod into the page's
  attributes and stores `INTEL_PTE_INVALID` with `pmap_store_pte`. The choice
  `pmap_remove_options` makes between the compressed marker and an invalid entry is
  in code this repository does not contain, so it is not modelled.
- `Compress` and `Decompress`: `pmap_store_pte` of `INTEL_PTE_COMPRESSED`, with or
  without `_ALT`, and of an invalid entry.
- `LockPte` and `UnlockPte`: the `INTEL_PTE_SWLOCK` bit, which blocks the updates.

The EPT bits alias regular bits: `EPT_EX` is `PTE_USER`, `EPT_WTHRU` is `PTE_REF`,
and `EPT_IPAT` is `PTE_MOD`. Because of this, a helper that picks the wrong format
changes another permission silently.

### `MC_Pmap`

The PTE model and the physmap model are checked in one run. `part` is chosen in
`Init`; the part not being explored is pinned to one initial state and left unchanged,
so the run's states are the sum of the two models' states, not their product.

### `PhysmapBounds`

This module models `i386/pmap.h` 461-484. `physmap_base` and `physmap_max` are chosen
at boot from `Bases` and `Sizes`. `PHYSMAP_PTOV_check(paddr)` is the one action. It is
taken for an address `physmap_enclosed` accepts. It panics when
`paddr + physmap_base`, computed modulo `2^W`, is at least `physmap_max`. Otherwise it
returns that sum. 64-bit addresses are scaled to `W = 6` bits, with `GB = 2`.

### `Decmpfs`

This module models `sys/decmpfs.h` 79-158 (System.framework). The writer stores a
header for one of three kinds:

- a regular file, with a 64-bit size;
- a dataless directory, with a 64-bit child count;
- a dataless package, stored as `DECMPFS_PKG_VALUE_FROM_SIZE_COUNT`.

`written` records what was meant. The two accessors decode `hdr` exactly as the inline
functions do, including the `(uint32_t)` casts. The widths 64/40/24/32 are scaled to
8/5/3/4 bits, and every mask and cast is kept as `% 2^w`.

### `KeventUser`

This module models one EVFILT_USER knote (`sys/event.h` 203-287).

- **Application actions.** `EV_ADD`, `EV_DELETE`, `EV_ENABLE` and `EV_DISABLE`.
  `Touch` is a change without `EV_ADD`, which applies `NOTE_FF*` to the stored fflags
  and may set `NOTE_TRIGGER`.
- **Receiver action.** `Deliver` reports the event with the stored fflags and then
  applies `EV_ONESHOT`, `EV_DISPATCH` or `EV_CLEAR`.
- **History variable.** `pending` records a trigger not yet reported.

`EV_DELETE` on a disabled knote whose flags include `EV_DISPATCH2`
(`EV_DISPATCH | EV_UDATA_SPECIFIC`) only marks the knote `deferred`, as the header's
comment at 221-225 says (the call returns `EINPROGRESS`). The next `EV_ENABLE` then
finishes the delete instead of enabling.

The 24 fflags bits are scaled to `FBits = {0, 1}`.

### `MemorystatusNotify`

This module models a process's memory limits (`sys/kern_memorystatus.h`) and the
`EVFILT_MEMORYSTATUS` knote that reports them (`sys/event.h` 457-481).

**State.** `memlimit[s]` is the limit of the active and of the inactive state, with
`MEMORYSTATUS_MEMLIMIT_ATTR_FATAL`; `memlimit_is_active`, `footprint`, `alive` and
`exit_reason`; `mkn` is the knote's registration and `sfflags`.

**Actions.**

- `Grow`: the footprint grows one unit and the limit of the current state is checked.
  Past a fatal limit the process is killed (`JETSAM_REASON_MEMORY_PERPROCESSLIMIT`).
  Past a soft limit `Notify` reports `PROC_LIMIT_CRITICAL`, and one unit below it
  `PROC_LIMIT_WARN`. `Notify` sends only if the restriction bit of that state and kind
  (`_WARN_ACTIVE`, `_WARN_INACTIVE`, `_CRITICAL_ACTIVE`, `_CRITICAL_INACTIVE`) is not
  in the knote's fflags, and sets it.
- `Shrink`, `SetActive`, and `JetsamHighwater` (`NOTE_EXIT_MEMORY_HIWAT`: a kill above
  a soft limit).
- The commands `SET_JETSAM_HIGH_WATER_MARK` (both limits, non-fatal),
  `SET_JETSAM_TASK_LIMIT` (both, fatal), `SET_MEMLIMIT_PROPERTIES` (each on its own) and
  `INCREASE_JETSAM_TASK_LIMIT` (both raised).
- `Register`: `EV_ADD` with the fflags userspace passes, masked by
  `EVFILT_MEMORYSTATUS_ALL_MASK`. `Unregister`: `EV_DELETE`.

The restriction bits are knote fflags, so only a registration resets them; the
commands act on the process and leave the knote alone. MB are scaled to small
integers, and the warning level is one unit below the limit.

### `MC_Kevent`

`KeventUser` and `MemorystatusNotify` are checked in one run, in the way of `MC_Pmap`:
`part` picks one filter, and the other stays in one initial state. The
`MemorystatusNotify` part has no property: the header's only contract for its reports
is the once-per-limit restriction bit, which `Notify` sets as it sends, so a property
about it would restate that assignment. The part is in the run so that its actions
are parsed and explored.

### `Persona`

This module models the persona KPI of `sys/persona.h` (Kernel and System frameworks).
A persona is one of a few slots (the slot is its id).

**State.** `pstate` is `free`, `live` (allocated) or `dead` (deallocated but still
referenced); `pname` and `ptype` are set at allocation; `refcnt` is the reference
count; `held[c][pe]` counts the references client thread `c` holds; `proc_persona`
is the persona each process runs under.

**Actions.**

- `kpersona_alloc` (and `palloc`): a free slot becomes live with one reference, the
  kernel list's. `kpersona_dealloc` drops that reference; the persona is freed if it
  was the last and is `dead` otherwise.
- `persona_lookup`: a reference on a live persona.
- `persona_find` and `persona_find_by_type` share `Find`: the matches are the live
  personas with the name or type; `plen` on output is their number, "could be larger
  than input value", and the buffer gets at most its input size of them, each a
  reference.
- `persona_proc_get`, `persona_get` (through a held pointer) and `persona_put`.
- `ProcSpawn` and `ProcExit` are the environment: a process spawned into a live
  persona holds a reference until it exits.

### `WorkloopSync`

This module models the sync waiters of `EVFILT_WORKLOOP` (`sys/event.h` 289-365).
Each waiter thread has its own knote with `SYNC_WAIT` and `SYNC_WAKE` bits.

- **Actions.**
  - `SyncWait(t, ...)`: a thread waits on its own knote.
  - `SyncWake(c, t, ...)`: thread `c` wakes waiter `t`. The second wake returns
    `EALREADY`.
  - `Delete`: the waiter drops its knote.
  - `UserStore`: userspace changes the debounce word.
- **Debounce.** Every update loads the word at `EV_EXTIDX_WL_ADDR` first. A mismatch
  is `ESTALE`, or a success that does nothing under `IGNORE_ESTALE` (`Stale`).
  `END_OWNERSHIP` and `DISCOVER_OWNER` act on the kernel's record of the owner
  (`OwnerAfter`). `ESTALE` and `IGNORE_ESTALE` differ only in the error returned,
  which the model does not keep.

No run checks this module. The header's wake-before-wait and debounce contracts are
each a single guard of one action, so properties about them restate the guard.

### `WorkInterval`

This module models auto-join and deferred finish (`sys/work_interval.h` 104-152).

- **Threads.** `Members` joined explicitly. `RTThreads` auto-join when a thread in the
  interval wakes them (`Wakeup`), and leave when they block (`Block`).
- **`Finish`.** With `DEFERRED_FINISH` and auto-joined threads present, the finish is
  held in phase `"deferred"`.
- **Delivery.** The held finish is delivered by the `Block` of the last auto-joined
  thread, or by the next `Start`.
- **Controller view.** `clpc_open` is the performance controller's view of the
  frames.

No run checks this module. Its safety contracts (the held finish is flushed by the
next start or by the last block) are each one action's effect, and its liveness is
not promised by the header (see section 6).

### `PerfcontrolDeadline`, `PerfcontrolCallouts` and `PerfcontrolSched`

These modules model `arm/machine_routines.h`.

**`PerfcontrolDeadline`** models the single callback timer.

- `sched_perfcontrol_update_callback_deadline(d)` re-arms it. The arming is recorded
  in `cancelled` when it replaced an armed, unfired callback, which is when the call
  returns TRUE.
- `ContextSwitchTakes(c)` takes the expired timer on core `c`. The timer is cancelled
  as it fires.
- `deadline_passed(c)` makes the callout with the armed deadline.
- Each arming gets a sequence number, so the model can tell which arming a callout
  or a cancel resolves.

**`PerfcontrolCallouts`** models the callout order around a context switch.

- `Switch` is the context_switch callout. The old thread stays locked.
- `Offcore` releases the old thread to run elsewhere, or records that it blocked or
  terminated.
- `Oncore` makes the oncore callout, and `ParameterChange` adds an oncore callout
  that is not paired with an offcore.
- `Wakeup` makes a blocked thread runnable.

**`PerfcontrolSched`** composes the two with `INSTANCE`. The timer is taken only by a
core running a thread (`TimerRuns`), as the header's "on a non-idle core" says. Every
other step of one component leaves the other's variables unchanged.

## 4. Runs

| run | cfg | checks | result |
|---|---|---|---|
| `pool_safety` | `MC_TurnstilePool.cfg` | `TypeOK`, `PrepareResultStable`, `TurnstileConservation`, `StateMatchesOwnership`, `LendingRefined` | pass |
| `sleep_pi` | `MC_TurnstileSleep.cfg` | `TypeOK`, `PriorityInheritanceAtRest` | pass, about 1.4M distinct states in about 2 min |
| `pmap` | `MC_Pmap.cfg` | `TypeOK`, `RefModExact`, `PteAttributesIntact`, `CompressedRecognized`, `NoPtovPanic` | pass, 67,743 states in about 5 s |
| `physmap_small` | `MC_PhysmapBounds_small.cfg` | `NoPtovPanic` | violation |
| `decmpfs_pkg` | `MC_Decmpfs.cfg` | `DecodesWritten` | pass, 4,864 states, about 23M generated |
| `decmpfs_dir` | `MC_Decmpfs_dir.cfg` | `DirEntriesExact` | violation |
| `kevent` | `MC_Kevent.cfg` | `TriggerReported` | pass, 10,036 states in about 5 s |
| `perfcontrol_sched` | `MC_PerfcontrolSched.cfg` | `TypeOK`, `DeadlineAccounting`, `OffcoreBeforeRunningElsewhere`, `ArmedResolvedUnlessIdle` | pass, 237,503 states in about 22 s |
| `persona` | `MC_Persona.cfg` | `TypeOK`, `RefcountExact` | pass, 8,704 states |

**`pool_safety`** checks that:

- the turnstile prepare returned stays the primitive's until the caller completes
  (`PrepareResultStable`), even while others prepare and complete in between;
- each turnstile has exactly one holder, and a primitive holds one turnstile per
  current user (`TurnstileConservation`);
- the DEBUG state bits always name the place the turnstile is held
  (`StateMatchesOwnership`);
- every step is a `Lend` or `Return` of `TurnstileLending`, or leaves its image
  unchanged (`LendingRefined`).

**`sleep_pi`** checks **`PriorityInheritanceAtRest`**. Whenever no walk is pending and
no walk was cut by the hop limit, every thread's priority equals the recursive
definition `TrueThreadPri`: the maximum of its base priority and of the priorities of
everything blocked on it, directly or through a chain. This survives early stops
racing concurrent walks, wakeups between the assert-wait and the propagation, and
old-inheritor cleanup. A hop limit compared one hop late, or an old inheritor that is
never walked, breaks it.

**`pmap`** checks, in its PTE part, three properties of a regular and an EPT mapping of one page,
under every order of enter, protect, wiring, hardware access, collect, remove, clear,
compress and lock:

- **`RefModExact`.** The collected attributes plus the bits still in live entries are
  exactly the accesses made since the last clear.
- **`PteAttributesIntact`.** A valid entry grants exactly the write, execute, cache
  type, wired marker and frame its last enter or protect asked for.
- **`CompressedRecognized`.** A compressed marker, locked or not, passes the fast test
  of `PTE_IS_COMPRESSED`, and a valid entry never does.

In its physmap part, `NoPtovPanic` shows that with a window of at least the 4 GB floor, every address
`physmap_enclosed` accepts translates without a panic.

**`physmap_small`** is a spec gap. `NPHYSMAP` floors the window at 4 GB. With a smaller
physmap, `physmap_enclosed` accepts an address at or past `physmap_max`, and
`PHYSMAP_PTOV_check` panics on it. Nothing in the header says the physmap is always at
least 4 GB.

**`decmpfs_pkg`** shows that every size and count within its field width decodes back
through both accessors, and that neither package field leaks into the other.

**`decmpfs_dir`** is a spec-code divergence. The comment at `decmpfs.h:83` calls the
directory value "a 64bits-encoded number of children". `decmpfs_get_directory_entries`
returns it cast to `uint32_t`, so a count of `2^32` (16 in the scaled model) reads back
as 0.

**`kevent`** checks, in its `EVFILT_USER` part, **`TriggerReported`**: a trigger,
including one made while the knote was disabled, is eventually reported unless the
application deletes the knote or leaves it disabled. A `Touch` that drops a trigger
made while the knote is disabled breaks it.

**`perfcontrol_sched`** checks four properties:

- **`DeadlineAccounting`.** Every arming is in exactly one place: armed, in flight on
  one core, cancelled by an update that returned TRUE, or delivered once with a
  deadline that has passed.
- **`OffcoreBeforeRunningElsewhere`.** No thread runs while its offcore callout is
  owed. A terminated thread gets no further callout.
- **`ArmedResolvedUnlessIdle`.** An armed deadline is delivered or cancelled unless
  every core goes idle.
- **`TypeOK`.**

**`persona`** checks, with two clients, two personas and one process:

- **`RefcountExact`.** A persona's count is the kernel list's reference while it is
  allocated, plus the clients' references, plus one per process under it, and it is
  freed exactly when that reaches zero. A find that took references on matches that
  did not fit the buffer breaks it.
- **`TypeOK`.** A put of a reference the caller does not hold drives its count
  negative.

Each property of a passing run has a mutant in `PROJECT.json`. Each mutant is a
plausible bug of the code, and TLC finds it violated:

- re-entrant prepare;
- complete taking the primitive's turnstile past a non-empty free list;
- install without checking for an installed turnstile;
- the THREAD bit kept on a donated turnstile;
- the hop limit compared one hop late;
- NX moved out of the word;
- the EPT ref/mod conversion swapped;
- `pte_remove_ex` setting NX on an EPT entry;
- SWLOCK left out of the compressed mask;
- `physmap_enclosed` with `<=`;
- the package count shifted by 39;
- a re-arm numbered with a stale id, or reporting a cancel of a callback in flight;
- the expired timer taken only by one fixed core, so a deadline armed while that
  core is idle is never delivered although another core is busy;
- the old thread released at the switch, before its offcore;
- a trigger dropped while the knote is disabled;
- `persona_put` without checking the caller holds a reference;
- a find that takes references on every match, not only those returned.

## 5. Bounds, symmetry, fairness

- **`MC_TurnstilePool`** uses three threads, three turnstiles, and two proprietors: one
  with a slot and one hashed. That is enough for an install, two donations and every
  return order on one primitive, and for the two `InstalledFlag` cases.
- **`MC_TurnstileSleep`** uses three threads with base priorities 1, 1 and 2, three
  turnstiles, two events, and `MaxHop = 10` as in the header.
  - The longest acyclic chain is three hops.
  - Two events are needed for a chain thread → event → thread → event → thread.
  - A priority difference is needed for a push to change anything.
- **Symmetry.** The symmetry is over turnstiles, over events, and over the two threads
  of equal priority. No definition names one of them, and the runs check only
  invariants.
- **Constraint.** The constraint `MC_TwoWalks` keeps at most two walks in flight at
  once. Two racing walks are the case the early stop has to survive. Without the
  constraint the model has about 10M states, checked once in about 4 minutes with
  `MaxHop = 3`, with the same result.
- **Deadlock.** `CHECK_DEADLOCK FALSE` is set in the sleep runs. Every thread can end
  up asleep with nobody left to wake it, for example after a wake-all or a wakeup
  without push transfer. The KPI does not promise a wakeup, so this is a real terminal
  state of the system, not a model error. The pool run checks deadlock.
- **Fairness.** `Spec` of `TurnstileSleep` has weak fairness on each thread's
  propagation hop and on its return from sleep once woken. The walk runs with
  preemption disabled under spinlocks, and a woken thread is runnable. No liveness
  property is checked yet, and the pool has no fairness: completing is the caller's
  choice.
- **`PmapPte`** has no constants. One page is mapped in the two formats, and the
  state is every reachable pair of 64-bit entries. Every cache type of each format is
  entered.
- **`MemorystatusNotify`** uses limits of 2 and 3, raised to at most 4, and a
  footprint up to 4. That puts every limit's warning level and its excess within
  reach, in either state, and lets a footprint exceed a limit set or reached by a
  state change below it. No fairness: nothing in the header promises that a process
  grows, shrinks or changes state.
- **`Persona`** uses two personas, two clients, one process, two names and two types,
  `MaxRef = 3` and buffers of 0 or 1 entries. Two personas with one name give a find
  more matches than its buffer holds; `MaxRef = 3` leaves room for the list's
  reference, a client's and a process's at once. Deadlock is checked: a free persona
  can always be allocated.
- **`PhysmapBounds`** uses `W = 6` and `GB = 2`, so the 4 GB floor is 8 units. The
  bases are 8, 24 and 40, and no sum wraps.
  - The pass run uses window sizes 8 to 14, which are whole and fractional multiples
    of the scaled GB above the floor.
  - The violation run uses sizes 4 to 8, all below or at the floor.
- **`Decmpfs`** scales the widths 64/40/24/32 to 8/5/3/4. Every 8-bit value is written
  as a size or count, and every 4-bit count for packages. This includes values past
  the 5- and 3-bit fields, so truncation cases happen.
- **`KeventUser`** uses two fflags bits, which is enough for AND, OR and COPY to
  differ. Every flag combination is added.
- **`PerfcontrolSched`** uses two cores and two threads, which is enough for a
  preempted thread to be picked by the other core while its offcore is owed. It has
  two deadlines, 1 and 3, three armings and a clock of four ticks, so a re-arm can
  race a timer in flight on either core. The clock runs to 4, one tick past the
  latest deadline, so each deadline can expire and be taken before the clock stops.
  There is no symmetry, because it checks liveness.
- **More deadlock settings.**
  - `PerfcontrolSched` sets `CHECK_DEADLOCK FALSE`. Every thread may terminate, and the
    clock and arming bounds end behaviours.
  - The physmap and decmpfs violation runs set it too, because they only look for the
    first bad state.
  - The other new runs check deadlock.
- **Fairness of `KeventUser`.** `Spec` has weak fairness on `Deliver`. A receiver
  blocked in `kevent()` collects an enabled, triggered event. The application is not
  assumed to do anything.
- **Fairness of `PerfcontrolSched`.** It has weak fairness on three things:
  - the clock;
  - each core's `deadline_passed`, since a started callout completes;
  - some busy core taking the expired timer. A core running a thread keeps taking
    quantum interrupts and switches, and the header calls the timer from that
    context.

  The scheduler's choices and wakeups are not fair, so cores may go idle for good.
  This is why the liveness property allows "every core idle".

## 6. Not modelled

- The statistics counters: they only count outcomes the walk already distinguishes.
- The bucket lock itself: it is represented by atomic steps.
- Turnstile and workqueue inheritors, and the user-promote policies.
- The pure-layout headers: there is nothing to translate. This includes
  `kern_memorystatus.h`, whose commands and priority bands are constants and structs;
  the policy that uses them is in code this repository does not contain.
- The `EVFILT_MEMORYSTATUS` pressure notes. `vm_pressure_level_t` has five levels and
  there are three `PRESSURE_*` notes plus the private `JETSAM_FG_BAND`; the header
  does not say which note `kVMPressureUrgent` raises. Jetsam priority bands, aging,
  snapshots and the freezer are constants and layouts.
- `current_persona_get` and the voucher it consults, the persona credential getters,
  and find by uid (a lookup by id). `EV_ADD` on a knote whose delete is deferred.
- `physmap_refmod_to_ept`, the user PTE forms and the PV hash. No function of this
  repository applies them to an entry.
- Callers of `PHYSMAP_PTOV` that skip `physmap_enclosed`. A physical address wraps the
  sum only near `2^64`, which the kernel never passes.
- `NOTE_WL_THREAD_REQUEST`, `UPDATE_QOS`, `SYNC_IPC` and the debounce mask. The header
  gives no contract for them beyond their names. The other kevent filters are not
  modelled either.
- The exception callbacks (`ex_cb_register`, `ex_cb_invoke`). The header says only
  that one callback per class is supported. It does not say what a second
  registration does, so there is no behaviour to translate.
- The other perfcontrol callouts (thread groups, clusters, the edge matrix, CPU power).
  They pass data and have no ordering contract.
- Liveness of the deferred finish. Auto-joined RT threads that keep waking each other
  can postpone the finish forever, and the header accepts this ("auto-joined threads
  would delay finish calls").
- Acyclicity of the inheritor graph. The header leaves it to the adopter, and the model
  assumes it through the `NoCycle` guard; no run checks it.
- Which turnstile the compressor is credited for on removal
  (`PMAP_OPTIONS_COMPRESSOR*`): the decision is in `pmap_remove_options`, whose body
  is not in this repository.
