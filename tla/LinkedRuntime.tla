---------------------------- MODULE LinkedRuntime ----------------------------
(***************************************************************************)
(* The general API of linked objects used by several threads: linked::new! *)
(* and the three impls #[linked::object] generates (family(), clone(),     *)
(* From<Family<T>>), Family handle clone, send and drop, type erasure into *)
(* a Box<dyn Trait>, and instance drop.  Builds on the runtime state of    *)
(* module Linked; each thread owns its instances and its handles, and the  *)
(* family reference count is the only state threads share (an atomic      *)
(* count, so each update is one step).                                     *)
(***************************************************************************)
EXTENDS Linked

CONSTANTS
  Threads,      \* threads owning instances and handles
  MaxHandles,   \* bound on the handles of one family a thread holds at once
  NoThread      \* owner of an instance never constructed

ASSUME NoThread \notin Threads /\ MaxHandles \in Nat \ {0}

VARIABLES
  handles,      \* handles[t][f]: Family<T> handles of family f thread t holds
  owner,        \* owner[i]: the thread that owns instance i
  erased        \* erased[i]: instance i has been moved into a Box<dyn Trait>

runtimeVars == <<handles, owner, erased>>
vars == <<linkedVars, runtimeVars>>

TypeOK ==
  /\ LinkedTypeOK
  /\ handles \in [Threads -> [Families -> 0 .. MaxHandles]]
  /\ owner \in [Instances -> Threads \cup {NoThread}]
  /\ erased \in [Instances -> BOOLEAN]

Init ==
  /\ LinkedInit
  /\ handles = [t \in Threads |-> [f \in Families |-> 0]]
  /\ owner = [i \in Instances |-> NoThread]
  /\ erased = [i \in Instances |-> FALSE]

(* Instance i is owned by t and still exposes clone() and family(). *)
FamilyAware(t, i) == owner[i] = t /\ istate[i] = "Live" /\ ~erased[i]

Mint(t, f, i) ==
  /\ LinkInstance(f, i)
  /\ owner' = [owner EXCEPT ![i] = t]

(***************************************************************************)
(* linked::new!: a new family and its first instance; the Link of that     *)
(* instance is the identity record's only holder.                          *)
(***************************************************************************)
New(t) ==
  LET f == CHOOSE g \in Families \ allocated : TRUE
      i == FreshInstance
  IN
  /\ Families \ allocated # {}
  /\ CanProduce
  /\ CreateFamily(f)
  /\ Mint(t, f, i)
  /\ UNCHANGED <<once, handles, erased>>

(* Object::family(): self.__private_linked_link.family() clones the identity *)
(* record into a new handle.                                                 *)
FamilyOf(t, i) ==
  /\ FamilyAware(t, i)
  /\ handles[t][link[i]] < MaxHandles
  /\ handles' = [handles EXCEPT ![t][link[i]] = @ + 1]
  /\ famRef' = [famRef EXCEPT ![link[i]] = @ + 1]
  /\ UNCHANGED <<allocated, link, istate, once, owner, erased>>

\* Mutant: clone() is reachable through the erased Box<dyn Trait> as well.
CloneInstanceErased(t, i) ==
  /\ owner[i] = t /\ istate[i] = "Live"
  /\ CanProduce
  /\ Produce(link[i], FreshInstance)
  /\ owner' = [owner EXCEPT ![FreshInstance] = t]
  /\ UNCHANGED <<allocated, once, handles, erased>>

(***************************************************************************)
(* Clone: linked::__private::clone(self), a new instance built by the     *)
(* family's recipe (the handle it goes through is dropped again, so only  *)
(* the new Link adds a reference).                                         *)
(***************************************************************************)
CloneInstance(t, i) ==
  /\ FamilyAware(t, i)
  /\ CanProduce
  /\ Produce(link[i], FreshInstance)
  /\ owner' = [owner EXCEPT ![FreshInstance] = t]
  /\ UNCHANGED <<allocated, once, handles, erased>>

(* From<Family<T>>: family.__private_into() consumes the handle; its     *)
(* reference passes to the Link of the new instance.                     *)
FromFamily(t, f) ==
  /\ handles[t][f] > 0
  /\ CanProduce
  /\ Mint(t, f, FreshInstance)
  /\ handles' = [handles EXCEPT ![t][f] = @ - 1]
  /\ UNCHANGED <<famRef, allocated, once, erased>>

CloneHandle(t, f) ==
  /\ 0 < handles[t][f] /\ handles[t][f] < MaxHandles
  /\ handles' = [handles EXCEPT ![t][f] = @ + 1]
  /\ famRef' = [famRef EXCEPT ![f] = @ + 1]
  /\ UNCHANGED <<allocated, link, istate, once, owner, erased>>

(* A Family<T> is Send: a thread moves one of its handles to another. *)
SendHandle(t, u, f) ==
  /\ t # u
  /\ handles[t][f] > 0 /\ handles[u][f] < MaxHandles
  /\ handles' = [handles EXCEPT ![t][f] = @ - 1, ![u][f] = @ + 1]
  /\ UNCHANGED <<linkedVars, owner, erased>>

\* Mutant: a handle is dropped without checking that one is held (double drop).
DropHandleUnchecked(t, f) ==
  /\ famRef[f] > 0
  /\ handles' = [handles EXCEPT ![t][f] = @ - 1]
  /\ famRef' = [famRef EXCEPT ![f] = @ - 1]
  /\ UNCHANGED <<allocated, link, istate, once, owner, erased>>

DropHandle(t, f) ==
  /\ handles[t][f] > 0
  /\ handles' = [handles EXCEPT ![t][f] = @ - 1]
  /\ famRef' = [famRef EXCEPT ![f] = @ - 1]
  /\ UNCHANGED <<allocated, link, istate, once, owner, erased>>

(* Box::new(instance) as Box<dyn Trait>: the Link stays, clone() and *)
(* family() are no longer reachable (spec 4.4).                      *)
Erase(t, i) ==
  /\ FamilyAware(t, i)
  /\ erased' = [erased EXCEPT ![i] = TRUE]
  /\ UNCHANGED <<linkedVars, handles, owner>>

Drop(t, i) ==
  /\ owner[i] = t
  /\ DropInstance(i)
  /\ UNCHANGED <<allocated, once, handles, owner, erased>>

Next ==
  \E t \in Threads :
    \/ New(t)
    \/ \E i \in Instances :
         FamilyOf(t, i) \/ CloneInstance(t, i) \/ Erase(t, i) \/ Drop(t, i)
    \/ \E f \in Families :
         \/ FromFamily(t, f) \/ CloneHandle(t, f) \/ DropHandle(t, f)
         \/ \E u \in Threads : SendHandle(t, u, f)

Spec == Init /\ [][Next]_vars

-----------------------------------------------------------------------------
(***************************************************************************)
(* Refinement.  The members of a family are the instances whose Link      *)
(* points at it; a family is aware while a thread holds one of its        *)
(* handles or a live un-erased member; it is freed when its reference     *)
(* count is back to 0.                                                     *)
(***************************************************************************)
Abs == INSTANCE LinkedFamilies WITH
  members <- [f \in Families |->
                {i \in Instances : istate[i] # "Unconstructed" /\ link[i] = f}],
  live <- [f \in Families |-> LiveInstances(f)],
  aware <- [f \in Families |->
              \/ \E t \in Threads : handles[t][f] > 0
              \/ \E i \in LiveInstances(f) : ~erased[i]],
  freed <- [f \in Families |-> f \in allocated /\ famRef[f] = 0]

(***************************************************************************)
(* The runtime implements LinkedFamilies: every step of any thread is a   *)
(* creation, a mint through something family-aware, or a narrowing; in    *)
(* particular the reference count reaches 0 exactly when the last handle  *)
(* or Link goes, never earlier or later, and a family left with only      *)
(* erased members never grows again.                                       *)
(***************************************************************************)
RefinesLinkedFamilies == Abs!Spec

=============================================================================
