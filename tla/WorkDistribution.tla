--------------------------- MODULE WorkDistribution ---------------------------
(***************************************************************************)
(* The work distribution modes of many_cpus_benchmarking                   *)
(* (src/work_distribution.rs) and one benchmark iteration of one worker    *)
(* pair as the crate documentation describes it (src/lib.rs, "Execution   *)
(* model" and "Usage"): the pair of payloads is created, each payload is   *)
(* moved to its worker's processor and prepared there, the payloads are    *)
(* exchanged unless the mode gives each worker back its own payload, and   *)
(* each worker processes the payload it holds.                             *)
(*                                                                         *)
(* Where a worker runs is what each variant's documentation says: pinned   *)
(* to one processor, or floating over a set of processors.  Processors     *)
(* are <<region, index>> pairs of a topology of RegionCount memory regions *)
(* with ProcsPerRegion processors each; the pair works on regions r and    *)
(* r + 1 (mod RegionCount), the "numerically neighboring" pair.            *)
(***************************************************************************)
EXTENDS Naturals, Sequences, FiniteSets

CONSTANTS
  RegionCount,     \* memory regions of the topology
  ProcsPerRegion,  \* processors in each region
  Multiplier       \* the payload multiplier, execute_runs' second generic parameter

ASSUME RegionCount \in Nat \ {0} /\ ProcsPerRegion \in Nat \ {0} /\ Multiplier \in Nat \ {0}

Regions == 0 .. RegionCount - 1
Procs(r) == {r} \X (0 .. ProcsPerRegion - 1)
AllProcs == UNION {Procs(r) : r \in Regions}
\* Mutant: the last region's neighbour is taken without wrapping around.
NeighborRegionNoWrap(r) == r + 1

(* The "numerically neighboring" region, wrapping around: (2, 0) for 3 regions. *)
NeighborRegion(r) == (r + 1) % RegionCount

(* The variants of enum WorkDistribution. *)
Modes == {"PinnedMemoryRegionPairs", "PinnedSameMemoryRegion", "PinnedSameProcessor",
          "PinnedSelf", "UnpinnedMemoryRegionPairs", "ConstrainedSameMemoryRegion",
          "UnpinnedSelf", "UnpinnedPerMemoryRegionSelf"}

(***************************************************************************)
(* The documented behaviour of each variant.  GivesOwnPayload: "each      *)
(* worker is given back its own payload".  Placements(m, r): the pairs    *)
(* <<S1, S2>> of processor sets the two workers may run on when the pair  *)
(* is based at region r (a singleton set for a pinned worker).            *)
(***************************************************************************)
GivesOwnPayload(m) ==
  m \in {"PinnedSelf", "UnpinnedSelf", "UnpinnedPerMemoryRegionSelf"}

Singletons(S) == {{p} : p \in S}

(* The two halves of a region's processors, as ConstrainedSameMemoryRegion splits them. *)
LowerHalf(r) == {p \in Procs(r) : 2 * p[2] < ProcsPerRegion}

Placements(m, r) ==
  CASE m = "PinnedMemoryRegionPairs" ->
         IF RegionCount < 2 THEN {}
         ELSE Singletons(Procs(r)) \X Singletons(Procs(NeighborRegion(r)))
    \* two processors of region r; the mode is set apart from PinnedSameProcessor
    [] m = "PinnedSameMemoryRegion" ->
         {<<{p}, {q}>> : p, q \in Procs(r)} \ {<<{p}, {p}>> : p \in Procs(r)}
    [] m = "PinnedSameProcessor" -> {<<{p}, {p}>> : p \in Procs(r)}
    [] m = "PinnedSelf" -> Singletons(AllProcs) \X Singletons(AllProcs)
    [] m = "UnpinnedMemoryRegionPairs" ->
         IF RegionCount < 2 THEN {} ELSE {<<Procs(r), Procs(NeighborRegion(r))>>}
    [] m = "ConstrainedSameMemoryRegion" ->
         {<<LowerHalf(r), Procs(r) \ LowerHalf(r)>>}
    [] m = "UnpinnedSelf" -> {<<AllProcs, AllProcs>>}
    [] m = "UnpinnedPerMemoryRegionSelf" ->
         IF RegionCount < 2 THEN {<<Procs(r), Procs(r)>>}
         ELSE {<<Procs(r), Procs(NeighborRegion(r))>>}

(* The mode lets the two workers run on different processors. *)
AllowsDistinctProcessors(m) ==
  \E r \in Regions : \E pl \in Placements(m, r) :
    \E p1 \in pl[1], p2 \in pl[2] : p1 # p2

(***************************************************************************)
(* The associated functions returning the mode lists.                      *)
(***************************************************************************)
All ==
  <<"PinnedMemoryRegionPairs", "PinnedSameMemoryRegion", "PinnedSameProcessor",
    "PinnedSelf", "UnpinnedMemoryRegionPairs", "ConstrainedSameMemoryRegion",
    "UnpinnedSelf", "UnpinnedPerMemoryRegionSelf">>

AllWithoutSelf ==
  <<"PinnedMemoryRegionPairs", "PinnedSameMemoryRegion", "PinnedSameProcessor",
    "UnpinnedMemoryRegionPairs", "ConstrainedSameMemoryRegion">>

\* Mutant: PinnedSameProcessor listed among the unique-processor modes.
AllWithUniqueProcessorsPlusSameProcessor ==
  <<"PinnedMemoryRegionPairs", "PinnedSameMemoryRegion", "PinnedSameProcessor",
    "PinnedSelf", "UnpinnedMemoryRegionPairs", "ConstrainedSameMemoryRegion",
    "UnpinnedSelf", "UnpinnedPerMemoryRegionSelf">>

AllWithUniqueProcessors ==
  <<"PinnedMemoryRegionPairs", "PinnedSameMemoryRegion", "PinnedSelf",
    "UnpinnedMemoryRegionPairs", "ConstrainedSameMemoryRegion", "UnpinnedSelf",
    "UnpinnedPerMemoryRegionSelf">>

AllWithUniqueProcessorsWithoutSelf ==
  <<"PinnedMemoryRegionPairs", "PinnedSameMemoryRegion",
    "UnpinnedMemoryRegionPairs", "ConstrainedSameMemoryRegion">>

Elems(s) == {s[k] : k \in DOMAIN s}

(* The modes the harness demo benchmarks: execute_runs::<CopyBytes, 1> *)
(* with WorkDistribution::all().                                       *)
BenchedModes == Elems(All)

-----------------------------------------------------------------------------
(***************************************************************************)
(* One iteration of one worker pair.  With a payload multiplier of        *)
(* Multiplier the pair makes Multiplier payload pairs with                *)
(* Payload::new_pair(); payload <<w, k>> of pair k starts with worker w,  *)
(* and every payload of an iteration stays on the worker that holds it.   *)
(***************************************************************************)
Workers == {1, 2}
Partner(w) == 3 - w
Payloads == Workers \X (1 .. Multiplier)
(* CopyBytes::default(): a payload of a new pair has no buffer yet. *)
NoProc == <<>>

VARIABLES
  mode,         \* the WorkDistribution of this run
  placement,    \* placement[w]: the processors worker w may run on
  holder,       \* holder[p]: the worker that has payload p
  preparedOn,   \* preparedOn[p]: the processor payload p was prepared on (NoProc: not yet)
  preparedBy,   \* preparedBy[p]: the worker that prepared payload p (0: not yet)
  processedBy,  \* processedBy[p]: the worker that processed payload p (0: not yet)
  processedOn,  \* processedOn[p]: the processor payload p was processed on (NoProc: not yet)
  exchanged     \* the exchange step is behind the pair

vars == <<mode, placement, holder, preparedOn, preparedBy, processedBy, processedOn,
          exchanged>>

TypeOK ==
  /\ mode \in Modes
  /\ placement \in [Workers -> SUBSET AllProcs]
  /\ holder \in [Payloads -> Workers]
  /\ preparedOn \in [Payloads -> AllProcs \cup {NoProc}]
  /\ preparedBy \in [Payloads -> Workers \cup {0}]
  /\ processedBy \in [Payloads -> Workers \cup {0}]
  /\ processedOn \in [Payloads -> AllProcs \cup {NoProc}]
  /\ exchanged \in BOOLEAN

(* A mode without a placement on this topology (PinnedMemoryRegionPairs on *)
(* a single region) is skipped: it has no initial state.                  *)
Init ==
  /\ mode \in BenchedModes
  /\ \E r \in Regions : \E pl \in Placements(mode, r) :
       placement = [w \in Workers |-> pl[w]]
  /\ holder = [p \in Payloads |-> p[1]]
  /\ preparedOn = [p \in Payloads |-> NoProc]
  /\ preparedBy = [p \in Payloads |-> 0]
  /\ processedBy = [p \in Payloads |-> 0]
  /\ processedOn = [p \in Payloads |-> NoProc]
  /\ exchanged = FALSE

(* Payload::prepare on the worker's processor, allocating the data set there. *)
Prepare(w, p) ==
  /\ holder[p] = w
  /\ preparedBy[p] = 0
  /\ \E c \in placement[w] : preparedOn' = [preparedOn EXCEPT ![p] = c]
  /\ preparedBy' = [preparedBy EXCEPT ![p] = w]
  /\ UNCHANGED <<mode, placement, holder, processedBy, processedOn, exchanged>>

(* Once all are prepared, the payloads change hands unless the mode gives *)
(* each worker its own payloads back.                                     *)
Exchange ==
  /\ ~exchanged
  /\ \A p \in Payloads : preparedBy[p] # 0
  /\ holder' = IF GivesOwnPayload(mode) THEN holder
               ELSE [p \in Payloads |-> Partner(holder[p])]
  /\ exchanged' = TRUE
  /\ UNCHANGED <<mode, placement, preparedOn, preparedBy, processedBy, processedOn>>

\* Mutant: a worker processes only payloads the other worker prepared.
ProcessOnlyForeign(w, p) ==
  /\ exchanged
  /\ holder[p] = w
  /\ preparedBy[p] # w
  /\ processedBy[p] = 0
  /\ processedBy' = [processedBy EXCEPT ![p] = w]
  /\ \E c \in placement[w] : processedOn' = [processedOn EXCEPT ![p] = c]
  /\ UNCHANGED <<mode, placement, holder, preparedOn, preparedBy, exchanged>>

(* Payload::process, the timed step, on a processor the worker may run on. *)
Process(w, p) ==
  /\ exchanged
  /\ holder[p] = w
  /\ processedBy[p] = 0
  /\ processedBy' = [processedBy EXCEPT ![p] = w]
  /\ \E c \in placement[w] : processedOn' = [processedOn EXCEPT ![p] = c]
  /\ UNCHANGED <<mode, placement, holder, preparedOn, preparedBy, exchanged>>

(* The iteration ends once every payload is processed. *)
Next ==
  \/ \E w \in Workers, p \in Payloads : Prepare(w, p) \/ Process(w, p)
  \/ Exchange

(* Each worker is an OS thread, and the harness performs the exchange once *)
(* every payload is prepared: all three are weakly fair.                    *)
Fairness ==
  /\ WF_vars(Exchange)
  /\ \A w \in Workers : /\ WF_vars(\E p \in Payloads : Prepare(w, p))
                       /\ WF_vars(\E p \in Payloads : Process(w, p))

Spec == Init /\ [][Next]_vars /\ Fairness

-----------------------------------------------------------------------------
(***************************************************************************)
(* The four mode lists say what their doc comments say: all() lists every *)
(* variant once; all_without_self() the modes that exchange payloads;      *)
(* all_with_unique_processors() the modes whose documented placement lets  *)
(* every worker run on a different processor; and the last list both.     *)
(* Every listed mode is an initial mode, so stating it of the run's mode  *)
(* covers each of them, and all() leaving a variant out is caught here.   *)
(***************************************************************************)
ListsMatchDocumentedModes ==
  /\ \A s \in {All, AllWithoutSelf, AllWithUniqueProcessors,
               AllWithUniqueProcessorsWithoutSelf} :
       Cardinality(Elems(s)) = Len(s)
  /\ Elems(All) = Modes
  /\ (mode \in Elems(AllWithoutSelf)) <=> ~GivesOwnPayload(mode)
  /\ (mode \in Elems(AllWithUniqueProcessors)) <=> AllowsDistinctProcessors(mode)
  /\ (mode \in Elems(AllWithUniqueProcessorsWithoutSelf)) <=>
       (mode \in Elems(AllWithoutSelf) \cap Elems(AllWithUniqueProcessors))

(***************************************************************************)
(* The crate documentation (lib.rs, step 3 of "Usage") and the doc comment *)
(* of all_without_self(): in the listed modes the payloads are exchanged   *)
(* "between the assigned processors, to ensure that we process 'foreign'   *)
(* data on each processor", i.e. a payload is processed on a processor    *)
(* other than the one that prepared it.                                    *)
(***************************************************************************)
ExchangeCrossesProcessors ==
  \A p \in Payloads :
    processedOn[p] # NoProc /\ mode \in Elems(AllWithoutSelf) =>
      processedOn[p] # preparedOn[p]

(***************************************************************************)
(* Every iteration completes: each payload of the pair is eventually       *)
(* processed, which needs each worker to have a processor to run on in     *)
(* every mode that has a placement on the topology.                        *)
(***************************************************************************)
IterationCompletes == <>(\A p \in Payloads : processedBy[p] # 0)

=============================================================================
