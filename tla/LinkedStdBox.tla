---------------------------- MODULE LinkedStdBox ----------------------------
(***************************************************************************)
(* The program of crates/linked/examples/linked_std_box.rs running on the  *)
(* linked runtime (module Linked): `main` spawns ThreadCount worker        *)
(* threads; each calls RECORDS_PROCESSED.get(), increments its            *)
(* EventCounter Records times, moves it into a Box<dyn CountResult> that   *)
(* finalize_counter_processing reads and drops; `main` joins the workers   *)
(* in spawn order and reads the global count through one more get().      *)
(*                                                                         *)
(* The counter shared by the family (Arc<AtomicUsize>) is `counter[f]`.    *)
(* Its loads are Relaxed: a load may return any value of the counter's     *)
(* modification order that is not older than what the loading thread has   *)
(* already written or observed, or what happened before it through a join *)
(* (`seen[a]`).  The counter only grows, so that is an interval of values. *)
(***************************************************************************)
EXTENDS Linked

CONSTANTS
  ThreadCount,  \* THREAD_COUNT
  Records,      \* RECORDS_PER_THREAD
  None          \* no instance held

Workers == 1 .. ThreadCount
Main == 0
Actors == Workers \cup {Main}

ASSUME ThreadCount \in Nat \ {0} /\ Records \in Nat \ {0}
ASSUME None \notin Instances

VARIABLES
  pc,           \* pc[a]: where actor a is in its body
  held,         \* held[a]: the EventCounter actor a owns (by value or boxed)
  obtained,     \* obtained[a]: the instance a's get() returned (history)
  local,        \* local[i]: the local_count field of instance i
  counter,      \* counter[f]: the AtomicUsize captured by family f's recipe
  done,         \* done[t]: iterations of the increment loop completed
  seen,         \* seen[a]: oldest counter value a Relaxed load of a may return
  report,       \* report[t]: what finalize_counter_processing printed
  mainRead      \* the final global count main printed

exampleVars == <<pc, held, obtained, local, counter, done, seen, report, mainRead>>
vars == <<linkedVars, exampleVars>>

WorkerPcs == {"unspawned", "get", "init", "inc", "finalize", "exit", "terminated", "joined"}
MainPcs == {"spawning", "joining", "get", "init", "read", "done"}
Reports == [local : Nat, global : Nat]

TypeOK ==
  /\ LinkedTypeOK
  /\ pc \in [Actors -> WorkerPcs \cup MainPcs]
  /\ pc[Main] \in MainPcs
  /\ \A t \in Workers : pc[t] \in WorkerPcs
  /\ held \in [Actors -> Instances \cup {None}]
  /\ obtained \in [Actors -> Instances \cup {None}]
  /\ local \in [Instances -> Nat]
  /\ counter \in [Families -> Nat]
  /\ done \in [Workers -> 0 .. Records]
  /\ seen \in [Actors -> Nat]
  /\ report \in [Workers -> Reports \cup {None}]
  /\ mainRead \in Nat \cup {None}

Init ==
  /\ LinkedInit
  /\ pc = [a \in Actors |-> IF a = Main THEN "spawning" ELSE "unspawned"]
  /\ held = [a \in Actors |-> None]
  /\ obtained = [a \in Actors |-> None]
  /\ local = [i \in Instances |-> 0]
  /\ counter = [f \in Families |-> 0]
  /\ done = [t \in Workers |-> 0]
  /\ seen = [a \in Actors |-> 0]
  /\ report = [t \in Workers |-> None]
  /\ mainRead = None

LowestWorker(S) == CHOOSE t \in S : \A u \in S : t <= u

\* Mutant: main reads the count right after spawning, without the joins.
SpawnWithoutJoin ==
  LET t == LowestWorker({u \in Workers : pc[u] = "unspawned"}) IN
  /\ pc[Main] = "spawning"
  /\ pc' = [pc EXCEPT ![t] = "get",
                      ![Main] = IF t = ThreadCount THEN "get" ELSE "spawning"]
  /\ UNCHANGED <<linkedVars, held, obtained, local, counter, done, seen, report, mainRead>>

(***************************************************************************)
(* main, lines 90-104: thread::spawn in a loop, the handles pushed in      *)
(* spawn order.                                                            *)
(***************************************************************************)
Spawn ==
  LET t == LowestWorker({u \in Workers : pc[u] = "unspawned"}) IN
  /\ pc[Main] = "spawning"
  /\ pc' = [pc EXCEPT ![t] = "get",
                      ![Main] = IF t = ThreadCount THEN "joining" ELSE "spawning"]
  /\ UNCHANGED <<linkedVars, held, obtained, local, counter, done, seen, report, mainRead>>

(***************************************************************************)
(* main, lines 106-108: join the handles in order.  The join waits for the *)
(* thread to end, and everything the thread did happens before it returns. *)
(***************************************************************************)
Join ==
  LET t == LowestWorker({u \in Workers : pc[u] # "joined"}) IN
  /\ pc[Main] = "joining"
  /\ pc[t] = "terminated"
  /\ pc' = [pc EXCEPT ![t] = "joined",
                      ![Main] = IF t = ThreadCount THEN "get" ELSE "joining"]
  /\ seen' = [seen EXCEPT ![Main] = IF seen[t] > @ THEN seen[t] ELSE @]
  /\ UNCHANGED <<linkedVars, held, obtained, local, counter, done, report, mainRead>>

(***************************************************************************)
(* RECORDS_PROCESSED.get() (lines 70, 92, 110), first part: the caller     *)
(* that finds the static uninitialised claims its once-cell.               *)
(***************************************************************************)
GetClaim(a) ==
  /\ pc[a] = "get"
  /\ ClaimInit
  /\ pc' = [pc EXCEPT ![a] = "init"]
  /\ UNCHANGED <<famRef, allocated, link, istate>>
  /\ UNCHANGED <<held, obtained, local, counter, done, seen, report, mainRead>>

(***************************************************************************)
(* The claimer runs the static's initialiser EventCounter::new() (lines    *)
(* 42-49): a fresh Arc<AtomicUsize> at 0, captured by the recipe of a new  *)
(* family made by linked::new!.  The first instance new() returns only     *)
(* serves to extract the family, which the static keeps; that instance is  *)
(* dropped before the cell is published, so it is not an observable state. *)
(***************************************************************************)
NewFamily == CHOOSE f \in Families : f \notin allocated

GetInit(a) ==
  /\ pc[a] = "init"
  /\ Families \ allocated # {}
  /\ CreateFamily(NewFamily)
  /\ PublishInit(NewFamily)
  /\ counter' = [counter EXCEPT ![NewFamily] = 0]
  /\ pc' = [pc EXCEPT ![a] = "get"]
  /\ UNCHANGED <<link, istate>>
  /\ UNCHANGED <<held, obtained, local, done, seen, report, mainRead>>

\* Mutant: get() duplicates the fields of a live sibling instead of running
\* the recipe.
GetProduceCopyingFields(a) ==
  LET i == FreshInstance
      siblings == LiveInstances(once.family)
  IN
  /\ pc[a] = "get"
  /\ once.state = "Done"
  /\ CanProduce
  /\ Produce(once.family, i)
  /\ local' = [local EXCEPT ![i] = IF siblings = {} THEN 0
                                    ELSE local[CHOOSE s \in siblings : TRUE]]
  /\ held' = [held EXCEPT ![a] = i]
  /\ obtained' = [obtained EXCEPT ![a] = i]
  /\ pc' = [pc EXCEPT ![a] = IF a = Main THEN "read" ELSE "inc"]
  /\ UNCHANGED <<allocated, once, counter, done, seen, report, mainRead>>

\* Mutant: the new instance's Link does not clone the family's identity
\* record, so the reference count misses the instance.
GetProduceWithoutLinkRef(a) ==
  LET i == FreshInstance IN
  /\ pc[a] = "get"
  /\ once.state = "Done"
  /\ CanProduce
  /\ famRef[once.family] > 0
  /\ LinkInstance(once.family, i)
  /\ local' = [local EXCEPT ![i] = 0]
  /\ held' = [held EXCEPT ![a] = i]
  /\ obtained' = [obtained EXCEPT ![a] = i]
  /\ pc' = [pc EXCEPT ![a] = IF a = Main THEN "read" ELSE "inc"]
  /\ UNCHANGED <<famRef, allocated, once, counter, done, seen, report, mainRead>>

(***************************************************************************)
(* get() on an initialised static: a new instance of the stored family,    *)
(* built by the recipe (local_count 0, an Arc clone of the shared counter) *)
(* and returned by value.                                                  *)
(***************************************************************************)
GetProduce(a) ==
  LET i == FreshInstance IN
  /\ pc[a] = "get"
  /\ once.state = "Done"
  /\ CanProduce
  /\ Produce(once.family, i)
  /\ local' = [local EXCEPT ![i] = 0]
  /\ held' = [held EXCEPT ![a] = i]
  /\ obtained' = [obtained EXCEPT ![a] = i]
  /\ pc' = [pc EXCEPT ![a] = IF a = Main THEN "read" ELSE "inc"]
  /\ UNCHANGED <<allocated, once, counter, done, seen, report, mainRead>>

\* Mutant: the loop runs one iteration too many (0..=RECORDS_PER_THREAD).
IncrementOffByOne(t) ==
  LET i == held[t]
      f == link[i]
  IN
  /\ pc[t] = "inc"
  /\ local' = [local EXCEPT ![i] = @ + 1]
  /\ counter' = [counter EXCEPT ![f] = @ + 1]
  /\ seen' = [seen EXCEPT ![t] = counter[f] + 1]
  /\ done' = [done EXCEPT ![t] = @ + 1]
  /\ pc' = [pc EXCEPT ![t] = IF done[t] = Records THEN "finalize" ELSE "inc"]
  /\ UNCHANGED <<linkedVars, held, obtained, report, mainRead>>

(***************************************************************************)
(* EventCounter::increment (lines 51-55), called Records times by the      *)
(* loop of lines 94-96: local_count + 1 (saturating; never near usize::MAX *)
(* here), then fetch_add(1, Relaxed) on the shared counter.  The thread's  *)
(* own write is the oldest value its later loads may return.               *)
(***************************************************************************)
Increment(t) ==
  LET i == held[t]
      f == link[i]
  IN
  /\ pc[t] = "inc"
  /\ local' = [local EXCEPT ![i] = @ + 1]
  /\ counter' = [counter EXCEPT ![f] = @ + 1]
  /\ seen' = [seen EXCEPT ![t] = counter[f] + 1]
  /\ done' = [done EXCEPT ![t] = @ + 1]
  /\ pc' = [pc EXCEPT ![t] = IF done[t] + 1 = Records THEN "finalize" ELSE "inc"]
  /\ UNCHANGED <<linkedVars, held, obtained, report, mainRead>>

(***************************************************************************)
(* Lines 101-102 with finalize_counter_processing (lines 75-82) and the    *)
(* CountResult impl (lines 57-65): the counter is boxed as                 *)
(* Box<dyn CountResult>, local_count() and a Relaxed global_count() are    *)
(* read, and the box, with the instance in it, is dropped on return.       *)
(***************************************************************************)
Finalize(t) ==
  LET i == held[t]
      f == link[i]
  IN
  /\ pc[t] = "finalize"
  /\ \E v \in seen[t] .. counter[f] :
       /\ report' = [report EXCEPT ![t] = [local |-> local[i], global |-> v]]
       /\ seen' = [seen EXCEPT ![t] = v]
  /\ DropInstance(i)
  /\ held' = [held EXCEPT ![t] = None]
  /\ pc' = [pc EXCEPT ![t] = "exit"]
  /\ UNCHANGED <<allocated, once, obtained, local, counter, done, mainRead>>

(* The spawned closure returns (line 103) and the thread ends. *)
Exit(t) ==
  /\ pc[t] = "exit"
  /\ pc' = [pc EXCEPT ![t] = "terminated"]
  /\ UNCHANGED <<linkedVars, held, obtained, local, counter, done, seen, report, mainRead>>

(***************************************************************************)
(* main, line 110: RECORDS_PROCESSED.get().global_count(), a Relaxed load  *)
(* after every join; the temporary instance is dropped at the end of the   *)
(* statement.                                                              *)
(***************************************************************************)
MainRead ==
  LET i == held[Main] IN
  /\ pc[Main] = "read"
  /\ \E v \in seen[Main] .. counter[link[i]] : mainRead' = v
  /\ DropInstance(i)
  /\ held' = [held EXCEPT ![Main] = None]
  /\ pc' = [pc EXCEPT ![Main] = "done"]
  /\ UNCHANGED <<allocated, once, obtained, local, counter, done, seen, report>>

GetStep(a) == GetClaim(a) \/ GetInit(a) \/ GetProduce(a)

WorkerStep(t) == GetStep(t) \/ Increment(t) \/ Finalize(t) \/ Exit(t)

MainStep == Spawn \/ Join \/ GetStep(Main) \/ MainRead

Next == MainStep \/ \E t \in Workers : WorkerStep(t)

(***************************************************************************)
(* Every actor is an OS thread that keeps being scheduled while it can     *)
(* run; a thread waiting on the once-cell or on a join is not enabled.     *)
(***************************************************************************)
Fairness == WF_vars(MainStep) /\ \A t \in Workers : WF_vars(WorkerStep(t))

Spec == Init /\ [][Next]_vars /\ Fairness

-----------------------------------------------------------------------------
(***************************************************************************)
(* Properties                                                              *)
(***************************************************************************)

(***************************************************************************)
(* The count main prints after joining every worker (line 110) is exactly  *)
(* THREAD_COUNT * RECORDS_PER_THREAD (spec section 8): no increment is     *)
(* lost to a second family with its own counter and no Relaxed load in    *)
(* main is stale, because every increment happens before its join.         *)
(***************************************************************************)
FinalCountExact ==
  pc[Main] = "done" => mainRead = ThreadCount * Records

(***************************************************************************)
(* What a worker's finalize_counter_processing prints reflects that        *)
(* worker's own work: its local count is exactly RECORDS_PER_THREAD, i.e.  *)
(* its instance started from the recipe's 0 and no other thread touched    *)
(* it, and the Relaxed global count it loads already contains its own      *)
(* increments.                                                             *)
(***************************************************************************)
ReportSeesOwnWork ==
  \A t \in Workers :
    report[t] # None =>
      /\ report[t].local = Records
      /\ report[t].global >= Records

(***************************************************************************)
(* The program ends: every worker gets past the once-cell, main joins all  *)
(* of them and prints the final count.                                     *)
(***************************************************************************)
Termination == <>(pc[Main] = "done")

(***************************************************************************)
(* Spec sections 3 and 4.2: the instance get() returns on a thread stays   *)
(* in that thread's slot for the thread's whole lifetime.  The example     *)
(* moves it into a Box that finalize_counter_processing drops while the    *)
(* thread is still running (lines 101-102).                                *)
(***************************************************************************)
SlotLivesWithThread ==
  \A a \in Actors :
    obtained[a] # None /\ pc[a] \notin {"terminated", "joined", "done"} =>
      istate[obtained[a]] = "Live"


(***************************************************************************)
(* Refinement.  The program's families are those of the runtime: members  *)
(* are the instances some get() constructed, live those not yet dropped.  *)
(* The static keeps the Family handle it stored for the whole program, so *)
(* the family it published stays aware.  The instance EventCounter::new() *)
(* builds only to extract the family is dropped before the cell is        *)
(* published, so the abstract creation is the first get() that returns an *)
(* instance: until then the family has no member and maps to nothing.     *)
(***************************************************************************)
Members(f) == {i \in Instances : istate[i] # "Unconstructed" /\ link[i] = f}

Abs == INSTANCE LinkedFamilies WITH
  members <- [f \in Families |-> Members(f)],
  live <- [f \in Families |-> LiveInstances(f)],
  aware <- [f \in Families |-> Members(f) # {} /\ once.family = f],
  freed <- [f \in Families |-> Members(f) # {} /\ famRef[f] = 0]

(***************************************************************************)
(* The program, threads racing on the first get() and boxes dropped in    *)
(* finalize_counter_processing included, implements LinkedFamilies: every *)
(* get() adds a member to the one family the static stored, every drop    *)
(* only narrows it, and its identity record is never released while the   *)
(* static, which still hands out instances, holds it.                      *)
(***************************************************************************)
RefinesLinkedFamilies == Abs!Spec

=============================================================================
