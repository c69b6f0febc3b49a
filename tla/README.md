# TLA+ models of folo's linked object families and work distribution modes

This directory holds TLA+ models of parts of this repository, checked with
TLC. Most of them model the `linked` object family pattern, which has three parts:
- a runtime that creates families and instances;
- a proc macro that makes a struct a linked object;
- the `linked_std_box` example, which uses both from several threads.

One module models the work distribution modes of the `many_cpus_benchmarking`
harness.

## Inventory

| Component | Source | State | Operations | Interacts with |
|---|---|---|---|---|
| Family identity (runtime) | not in `src/`; spec.md 3, 4.1 | identity token, constructor recipe, atomic reference count | create (`linked::new!`), produce, handle clone/drop | instances (Link), named statics |
| Instance lifecycle (runtime + generated impls) | `linked_object.rs:48-64`; spec 4.3 | per instance: Link, Unconstructed/Live/Dropped, payload | `family()`, `clone()` (re-runs the recipe), `From<Family>` (produce), drop | family identity |
| Named static `linked::instances!` | `linked_std_box.rs:70`; spec 4.2 | a once-cell: uninit / running / done, plus the family | `get()` | all threads; the once-cell is the only cross-thread barrier |
| `linked_std_box` program | `linked_std_box.rs` | per thread: its EventCounter and loop position; shared: the `Arc<AtomicUsize>` captured by the recipe | spawn, get, increment × N, box + finalize, join, final get + load | static, atomics |
| Type erasure | `linked_std_box.rs:98-102`; spec 4.4 | none at run time | `Box<dyn CountResult>` | instance |
| `#[linked::object]` macro | `linked_object.rs:12-68` | none (pure function of the token stream) | entrypoint, core | compiler |
| WorkDistribution | `work_distribution.rs`, `lib.rs:8-38` | enum constants; per iteration: worker placement, who holds which payload | `all*()` lists; prepare, exchange, process | benchmark harness (not in `src/`) |
| `spawn_on_any_processors` | `many_cpus/examples/spawn_on_any_processors.rs` | main: spawn and join loops; per thread: start instant, loop position | spawn, start, spin-and-check, join | real time |
| ResourceQuota, pal | `many_cpus/src/...` | one float | a getter, re-exports | none |

**Hard behaviour.** Several threads can make the first `get()` at the same
time, and the static's family must then be built exactly once. Threads that
find the once-cell being initialised block on it. The shared counter is read
with `Relaxed` loads, and those loads are ordered only by thread joins. The
lifetime of an instance returned by `get()` is also hard, because the spec and
the example disagree about it. The macro's behaviour depends on the shape of
its input: generics, where clauses, and kinds of items that are not structs.

**Correctness by component.**
- Runtime and static: one family per named static; an instance produced by the
  recipe, never copied field-wise; an identity that stays alive while it is
  referenced.
- Example program: an exact final count; reports that include the thread's own
  work; the program terminates.
- Macro: expansions equal to the tested ones; misuse always becomes a
  diagnostic.
- Runtime API: a family's count reaches 0 exactly when its last handle or
  Link goes; an erased instance never mints.
- WorkDistribution: each mode list holds exactly the modes its doc comment
  describes.

## Modules

- `Linked.tla` models the runtime state. The variables are:
  - `famRef`: the reference count of each family;
  - `allocated`: the identity tokens handed out so far;
  - `link` and `istate`: each instance's Link and its lifecycle state;
  - `once`: the named static's once-cell.

  The operations are `CreateFamily`, `Produce` (the generated `From<Family>`),
  `DropInstance`, `ClaimInit` and `PublishInit`. The runtime crate is not under
  `src/`, so most of these follow the spec. PROJECT.json marks them
  `spec_modelled`. There is one departure from the spec: `get()` produces a
  fresh owned instance on each call. The example needs this, because it moves
  the result of `get()` into a `Box<dyn CountResult>`.
- `LinkedStdBox.tla` EXTENDS `Linked` with the example program. It has one
  action per step of `main` and of the worker closure: `Spawn`, `Join`,
  `GetClaim`, `GetInit`, `GetProduce`, `Increment`, `Finalize`, `Exit` and
  `MainRead`. The shared `AtomicUsize` is `counter[f]`. A Relaxed load may
  return any value in `seen[a] .. counter[f]`. `seen[a]` is the thread's own
  last write or observation, raised by each join. This is the coherence rule of
  the memory model for a counter that only grows.
  `LinkedStdBox` also has its own refinement mapping onto `LinkedFamilies`.
  That composes the example with the runtime and checks the whole program
  against what the runtime promises. The mapping works like this:
  - a family's members are the instances some `get()` constructed;
  - the family the static published stays aware, because the static keeps
    its `Family` handle for the whole program;
  - the abstract `Create` is the first `get()` that returns an instance.
    The instance `EventCounter::new()` builds only to extract the family is
    gone before the cell is published.
- `MC_LinkedStdBox.tla` instantiates it with families and instance ids `1..ThreadCount+1`.
- `LinkedObjectMacro.tla` models `entrypoint` and `core` as operators over
  abstract items. An item has a kind, generics, a where clause, a field shape
  and field names. Token strings are not modelled. The state machine picks an
  input and expands it once. Only its type invariant is checked. The
  expansion is a pure function of the item, so a property comparing it with
  the tests' expected output would only restate `core()`.
- `LinkedFamilies.tla` is the abstract specification of what the runtime
  promises. It has no handles, counts or threads. A family is a set of
  members, the subset of them still live, a flag saying whether anything
  family-aware holds it, and a flag saying whether it is freed. Its actions:
  - `Create`: a new family with its first member;
  - `Mint`: a new member, allowed only while the family is aware;
  - `Narrow`: drop members and give up awareness, never regain it; the
    family is freed exactly when nothing is left.
- `LinkedRuntime.tla` EXTENDS `Linked` with the general API used by threads
  (`Threads`):
  - `handles[t][f]` counts the `Family<T>` handles thread `t` holds;
  - `owner[i]` is the thread that owns instance `i`;
  - `erased[i]` says it was moved into a `Box<dyn Trait>`.

  There is one action per operation:
  - `New` is `linked::new!`;
  - `FamilyOf`, `CloneInstance` and `FromFamily` are the three impls that
    `linked_object.rs:48-64` generates;
  - `CloneHandle`, `SendHandle` and `DropHandle` act on `Family<T>` handles;
  - `Erase` is boxing, as at `linked_std_box.rs:101`;
  - `Drop` drops an instance.

  The refinement mapping `Abs` maps to the abstract state as follows:
  - a family's members are the constructed instances whose Link points at it;
  - a family is aware while a thread holds a handle of it or a live,
    un-erased member;
  - a family is freed when its count is 0.

  `RefinesLinkedFamilies == Abs!Spec` is checked as a PROPERTY.
- `MC_LinkedRuntime.tla` instantiates it with 2 families, 3 instances and a
  symmetry set of threads.
- `SpawnOnAnyProcessors.tla` models the `spawn_on_any_processors` example:
  - `Spawn` is one turn of main's spawn loop, and `Join` one turn of its
    join loop, which joins in push order;
  - `Start(t)` is the thread taking `Instant::now()`;
  - `Check(t)` is a batch of adds followed by the
    `start.elapsed().as_secs() > 10` test, with `as_secs()` truncating;
  - `Tick` advances real time by 1/`TicksPerSec` s for every started
    thread.

  A batch of 100,000 adds takes microseconds, and each thread has a
  processor of its own. So `Tick` waits until every spinning thread has
  checked the clock since the previous tick. The counter `x` only feeds a
  `println!` and is left out.
- `WorkDistribution.tla` has three parts:
  - the enum variants (`Modes`);
  - what each variant's doc comment says: `GivesOwnPayload`, and
    `Placements`, the processor sets the two workers of a pair may run on;
  - the four lists `All`, `AllWithoutSelf`, `AllWithUniqueProcessors` and
    `AllWithUniqueProcessorsWithoutSelf`, transcribed from the code.

  Processors are `<<region, index>>` pairs. The state machine is one
  iteration of one pair, with `Multiplier` payload pairs (the payload
  multiplier of `lib.rs:103-112`). Payload `<<w, k>>` starts with worker `w`,
  and `holder[p]` is the worker that has payload `p`. The iteration runs as
  the crate docs (`lib.rs:10-38`) describe it:
  1. `Init` chooses a mode from `BenchedModes` and a placement.
     `BenchedModes` is what the demo benchmarks: `all()`, at `lib.rs:93-96`. The mode
     `PinnedMemoryRegionPairs` has none on a single region, so it is skipped
     there.
  2. `Prepare(w, p)` prepares a payload `p` of worker `w` on a processor
     `w` may use.
  3. `Exchange` swaps the payloads unless the mode gives each worker its own.
  4. `Process(w, p)` processes a payload `p` that `w` holds.

  The payload is the docs' `CopyBytes`. A payload of a new pair has no
  buffer yet (`NoProc`).

  The harness code that pins and spawns workers (`run.rs`) is not in the
  source tree. Placements therefore follow the doc comments.
  `PinnedSameMemoryRegion` pins its two workers to different processors,
  since the docs set it apart from `PinnedSameProcessor`.

## Runs

| Run | Config | Result | What it shows |
|---|---|---|---|
| `linked_std_box` | `LinkedStdBox.cfg` | pass, 21,900 states | 3 workers × 2 increments, all first-`get()` races explored. Main prints exactly 6 (`FinalCountExact`). Each worker reports local = 2 and a global count ≥ 2 (`ReportSeesOwnWork`). The program always ends (`Termination`). |
| `linked_std_box_refinement` | `LinkedStdBoxRefinement.cfg` | pass, 21,900 states | The same program, checked against `LinkedFamilies` (`RefinesLinkedFamilies`). Every `get()` mints into the one family the static stored. Box drops only narrow it. Its identity record is never released while the static holds it. |
| `slot_lifetime` | `LinkedStdBoxSlot.cfg` | violation | Spec 3 and 4.2 say `get()`'s instance lives in the thread's slot until the thread ends. The example drops it in `finalize_counter_processing` while the thread still runs. |
| `linked_runtime` | `LinkedRuntime.cfg` | pass, 67,429 states | 2 threads, 2 families, 3 instances, at most 2 handles per thread and family. The runtime implements `LinkedFamilies` (`RefinesLinkedFamilies`). A family's count hits 0 exactly when its last holder goes. A family held only by erased instances never mints again. |
| `work_distribution` | `WorkDistribution.cfg` | pass, 167,221 states | Payload multiplier 2. Each mode list is duplicate-free and holds exactly the modes its doc describes (`ListsMatchDocumentedModes`). Every iteration completes (`IterationCompletes`). |
| `spawn_any` | `SpawnOnAnyProcessors.cfg` | pass, 110,656 states | 3 threads, 2 ticks a second. Every thread's clock stays within 11 s (`TypeOK`). The program always ends (`Termination`): every thread's `as_secs()` eventually exceeds 10, and main's in-order joins then all return. |
| `spin_duration` | `SpawnOnAnyProcessorsTenSeconds.cfg` | violation | The docs (lines 5 and 31) say each thread spins for 10 s. `as_secs() > 10` breaks only at 11 whole seconds. |
| `foreign_data` | `WorkDistributionForeign.cfg` | violation | `all_without_self()` is documented as the modes that exchange payloads "between processors" so that foreign data is processed on each processor (`lib.rs:26-27`). It lists `PinnedSameProcessor`, where a payload is processed on the processor that prepared it. |
| `macro_expansion` | `LinkedObjectMacro.cfg` | pass, 434 states | 217 inputs: each item kind, up to two named fields, each subset of `{'y, T}`, with and without a where clause, plus unparseable tokens. Named structs expand exactly as the tests expect. Every other input is a compile error that re-emits the input. |

Each property of a passing run has a mutant in PROJECT.json, and TLC finds the
property violated under that mutant. The mutants are:
- an off-by-one in the increment loop;
- main skipping the joins;
- `get()` copying fields from a sibling;
- `get()` linking its instance without cloning the family's record;
- an initialiser that never marks the cell done;
- `core` without its named-fields check;
- a handle dropped without one being held;
- `clone()` reachable through an erased box;
- the neighbouring region computed without wrapping around;
- `PinnedSameProcessor` added to `all_with_unique_processors()`;
- a worker that processes only payloads the other worker prepared;
- the break literal one second late;
- `let start = Instant::now()` taken inside the spin loop, so the elapsed
  time restarts at every batch.

**Bounds.** Three workers are enough to get every ordering of "two threads
race the claim while a third finds the cell running". Two increments per
worker make the Relaxed-load intervals non-trivial: a worker can observe
another worker's half-finished work. Families and instances have one slot per
actor, so a broken once-cell can actually create extra families.
`LinkedRuntime` uses two threads, so that handles can be sent and a family
can be held on both sides. Two families show that operations keep families
apart. With three instances a family can have a clone and a `From<Family>`
member besides its first one. Two handles per thread and family allow a
clone of a handle next to the original. `WorkDistribution` uses two regions
of two processors. That is the smallest topology where every mode has a
placement, where pairs cross regions, and where the halves of a region are
non-empty. A multiplier of 2 gives each worker two payloads. The prepares of both
workers then interleave before the exchange, and their process steps
interleave after it.
`SpawnOnAnyProcessors` uses three threads, so that threads start, finish
and are joined in different orders. Two ticks a second make the truncation
of `as_secs()` visible: at 10.5 s a thread's `as_secs()` is still 10. The
break literal 10 is kept as in the code, so a thread really spins through
22 ticks.

**Fairness.** Every actor is an OS thread, so it has weak fairness
(`WF_vars`) on its own steps. A thread that waits on the once-cell or on a
join is disabled until the step it waits for happens, and the enabling
condition then stays true, so weak fairness is enough. The program ends, and
its final state has no successor. That is why the configs say
`CHECK_DEADLOCK FALSE`. `Termination` is the check that nothing gets stuck
before the end.

`LinkedRuntime` checks only safety and assumes no fairness: no thread of
that API is obliged to drop what it holds. `WorkDistribution` makes each
worker's prepare and process steps weakly fair, and the harness's exchange
too. Workers are OS threads, and the harness waits for both workers (the
iteration time is the slower worker's, `lib.rs:11-12`).
`SpawnOnAnyProcessors` makes main, each thread and `Tick` weakly fair,
because real time advances. `LinkedRuntime` says `CHECK_DEADLOCK FALSE` because of its bounds:
a state with no successor is one where every instance id is used and every
handle is dropped. `WorkDistribution` says it because an iteration really
ends once both payloads are processed.

**Not modelled.**
- The saturating `local_count + 1` and the wrapping `fetch_add`. The example
  never comes near `usize::MAX`.
- Printing.
- Thread panics. `join().unwrap()` cannot fail here, because nothing in the
  closure panics.
- The temporary first instance that `linked::new!` builds while the static is
  initialised. It is dropped before the cell is published, so no other thread
  can observe it.
- The placement code of the benchmark harness (`run.rs`) and the
  `Payload` implementations. They are not in the source tree, so placements
  follow the doc comments. The self-mode deadlock the docs warn of (a
  payload that waits for its partner) depends on benchmark code and goes
  unchecked. So do topologies too small for a mode's placement, such as
  regions of one processor, which `ConstrainedSameMemoryRegion` would split
  into an empty half: what the absent harness does then is not in the tree.
- `ResourceQuota` (a constructor and a float getter) and `pal/linux.rs`
  (module declarations and re-exports). They have no state change, guard or
  control flow to check.
- The wrapping counter `x` of `spawn_on_any_processors`. It is only printed,
  and at about 10^9 adds a second it cannot wrap a `u64` in 11 seconds.

## Plan

1. Done: `Linked`, `LinkedStdBox` and `LinkedObjectMacro`.
2. Done: `LinkedRuntime`, with the refinement of `LinkedFamilies`.
3. Done: `WorkDistribution`.
4. Done: `SpawnOnAnyProcessors`, and liveness for `WorkDistribution`.
5. Done: the `linked_std_box` program refines `LinkedFamilies`, and the
   work-distribution modes come from the demo's `all()`.
6. Not planned: liveness for `LinkedRuntime`. Nothing in the API obliges a
   thread to drop its handles or instances, so a "family is eventually
   freed" property would need fairness the code does not give.
