------------------------ MODULE SpawnOnAnyProcessors ------------------------
(***************************************************************************)
(* The spawn_on_any_processors example of many_cpus                        *)
(* (crates/many_cpus/examples/spawn_on_any_processors.rs): main spawns one *)
(* unpinned thread per processor of ProcessorSet::default() and joins them *)
(* in order; each thread takes Instant::now() and spins in batches of     *)
(* 100_000 wrapping adds until start.elapsed().as_secs() > 10.             *)
(*                                                                         *)
(* Time is a clock of TicksPerSec ticks a second, advanced by Tick; each   *)
(* thread's elapsed time since its start is elapsed[t] ticks.  A batch of  *)
(* adds takes microseconds and every thread has a processor of its own,    *)
(* so each spinning thread checks the clock at least once a tick: Tick     *)
(* waits until every spinning thread has checked since the last tick.      *)
(* The counter x only feeds a println and is not modelled.                 *)
(***************************************************************************)
EXTENDS Naturals

CONSTANTS
  ProcessorCount,  \* processor_set.len()
  TicksPerSec      \* clock resolution of the model

ASSUME ProcessorCount \in Nat \ {0} /\ TicksPerSec \in Nat \ {0}

Threads == 1 .. ProcessorCount

(* The literal of the break condition: start.elapsed().as_secs() > 10. *)
SpinSecs == 10

(* No thread's elapsed time goes past the first check after 11 seconds. *)
MaxElapsed == (SpinSecs + 1) * TicksPerSec

VARIABLES
  mpc,       \* main: "spawn", "join" or "end"
  spawned,   \* threads pushed so far
  joined,    \* threads joined so far (in push order)
  pc,        \* pc[t]: "unspawned", "new" (not yet at Instant::now()), "spin", "done"
  elapsed,   \* elapsed[t]: ticks since thread t took its start instant
  checked    \* checked[t]: t has checked the clock since the last tick

vars == <<mpc, spawned, joined, pc, elapsed, checked>>

(***************************************************************************)
(* Type invariant.  Its bound on elapsed says that no thread's clock runs  *)
(* past 11 seconds: the loop breaks at the first check after as_secs()     *)
(* exceeds 10.                                                             *)
(***************************************************************************)
TypeOK ==
  /\ mpc \in {"spawn", "join", "end"}
  /\ spawned \in 0 .. ProcessorCount
  /\ joined \in 0 .. ProcessorCount
  /\ pc \in [Threads -> {"unspawned", "new", "spin", "done"}]
  /\ elapsed \in [Threads -> 0 .. MaxElapsed]
  /\ checked \in [Threads -> BOOLEAN]

Init ==
  /\ mpc = "spawn"
  /\ spawned = 0
  /\ joined = 0
  /\ pc = [t \in Threads |-> "unspawned"]
  /\ elapsed = [t \in Threads |-> 0]
  /\ checked = [t \in Threads |-> FALSE]

(* One turn of the spawn loop: thread::spawn and threads.push; after the *)
(* last one main prints the count and goes on to the joins.              *)
Spawn ==
  /\ mpc = "spawn"
  /\ spawned < ProcessorCount
  /\ pc' = [pc EXCEPT ![spawned + 1] = "new"]
  /\ spawned' = spawned + 1
  /\ mpc' = IF spawned + 1 = ProcessorCount THEN "join" ELSE "spawn"
  /\ UNCHANGED <<joined, elapsed, checked>>

(* The closure starts: let start = Instant::now(). *)
Start(t) ==
  /\ pc[t] = "new"
  /\ pc' = [pc EXCEPT ![t] = "spin"]
  /\ elapsed' = [elapsed EXCEPT ![t] = 0]
  /\ checked' = [checked EXCEPT ![t] = TRUE]
  /\ UNCHANGED <<mpc, spawned, joined>>

\* Mutant: the break literal is one second late (as_secs() > 11).
CheckLateBreak(t) ==
  /\ pc[t] = "spin"
  /\ ~checked[t]
  /\ checked' = [checked EXCEPT ![t] = TRUE]
  /\ pc' = [pc EXCEPT ![t] = IF elapsed[t] \div TicksPerSec > SpinSecs + 1
                             THEN "done" ELSE "spin"]
  /\ UNCHANGED <<mpc, spawned, joined, elapsed>>

\* Mutant: let start = Instant::now() is taken inside the loop, so each
\* check measures from the start of its own batch.
CheckRestartingStart(t) ==
  /\ pc[t] = "spin"
  /\ ~checked[t]
  /\ checked' = [checked EXCEPT ![t] = TRUE]
  /\ pc' = [pc EXCEPT ![t] = IF elapsed[t] \div TicksPerSec > SpinSecs
                             THEN "done" ELSE "spin"]
  /\ elapsed' = [elapsed EXCEPT ![t] = 0]
  /\ UNCHANGED <<mpc, spawned, joined>>

(* A batch of adds, then the check: as_secs() truncates to whole seconds, *)
(* and the thread breaks out of the loop once it exceeds 10.              *)
Check(t) ==
  /\ pc[t] = "spin"
  /\ ~checked[t]
  /\ checked' = [checked EXCEPT ![t] = TRUE]
  /\ pc' = [pc EXCEPT ![t] = IF elapsed[t] \div TicksPerSec > SpinSecs
                             THEN "done" ELSE "spin"]
  /\ UNCHANGED <<mpc, spawned, joined, elapsed>>

(* Real time passes for every thread that has taken its start instant. *)
Tick ==
  /\ \E t \in Threads : pc[t] = "spin"
  /\ \A t \in Threads : pc[t] = "spin" => checked[t]
  /\ elapsed' = [t \in Threads |-> IF pc[t] = "spin" THEN elapsed[t] + 1 ELSE elapsed[t]]
  /\ checked' = [t \in Threads |-> FALSE]
  /\ UNCHANGED <<mpc, spawned, joined, pc>>

(* thread.join() on the next thread in push order; after the last one main *)
(* prints "All threads have finished."                                     *)
Join ==
  /\ mpc = "join"
  /\ joined < ProcessorCount
  /\ pc[joined + 1] = "done"
  /\ joined' = joined + 1
  /\ mpc' = IF joined + 1 = ProcessorCount THEN "end" ELSE "join"
  /\ UNCHANGED <<spawned, pc, elapsed, checked>>

Next ==
  \/ Spawn \/ Join \/ Tick
  \/ \E t \in Threads : Start(t) \/ Check(t)

(* Each thread, main and the passing of time are weakly fair: the threads *)
(* are OS threads on processors of their own, and real time advances.     *)
Fairness ==
  /\ WF_vars(Spawn) /\ WF_vars(Join) /\ WF_vars(Tick)
  /\ \A t \in Threads : WF_vars(Start(t)) /\ WF_vars(Check(t))

Spec == Init /\ [][Next]_vars /\ Fairness

-----------------------------------------------------------------------------
(***************************************************************************)
(* The program always ends: every spawned thread eventually sees more than *)
(* 10 seconds elapsed, and main's joins then all return.                   *)
(***************************************************************************)
Termination == <>(mpc = "end")

(***************************************************************************)
(* The module doc (line 5) and the comment at line 31 say every thread     *)
(* spins for 10 seconds: with the clock checked at least once a tick, a    *)
(* thread is done before 11 seconds have elapsed.                          *)
(***************************************************************************)
SpinsTenSeconds ==
  \A t \in Threads : pc[t] = "done" => elapsed[t] < (SpinSecs + 1) * TicksPerSec

=============================================================================
