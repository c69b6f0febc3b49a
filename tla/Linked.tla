------------------------------- MODULE Linked -------------------------------
(***************************************************************************)
(* The linked object family runtime: family identities with their shared   *)
(* reference count, instances carrying a Link to one family, and the       *)
(* exactly-once initialisation cell behind a `linked::instances!` static.  *)
(*                                                                         *)
(* The runtime crate itself is not part of the source tree that is         *)
(* modelled; the operations below follow spec.md sections 3, 4.1-4.3 and   *)
(* 6, and the generated `From<Family<T>>` impl of                          *)
(* crates/linked_macros_impl/src/linked_object.rs.  The constructor recipe *)
(* (the user's payload initialiser) is left to the composing module, which *)
(* conjoins its own payload update to these actions.                       *)
(***************************************************************************)
EXTENDS Naturals, FiniteSets

CONSTANTS
  Families,     \* family identity tokens that may be allocated
  Instances,    \* instance identities that may be allocated
  NoFamily      \* the Link of an instance that was never constructed

ASSUME NoFamily \notin Families

VARIABLES
  famRef,       \* famRef[f]: strong count of family f's identity record; 0 = not allocated or freed
  allocated,    \* the family identities ever allocated (an identity token is never reused)
  link,         \* link[i]: the family instance i's hidden Link points at
  istate,       \* istate[i] \in {"Unconstructed", "Live", "Dropped"}  (spec 4.3)
  once          \* the lazy cell of the named static: [state, family]

linkedVars == <<famRef, allocated, link, istate, once>>

InstanceStates == {"Unconstructed", "Live", "Dropped"}
OnceStates == {"Uninit", "Running", "Done"}

LinkedTypeOK ==
  /\ famRef \in [Families -> Nat]
  /\ allocated \subseteq Families
  /\ link \in [Instances -> Families \cup {NoFamily}]
  /\ istate \in [Instances -> InstanceStates]
  /\ once \in [state : OnceStates, family : Families \cup {NoFamily}]

LinkedInit ==
  /\ famRef = [f \in Families |-> 0]
  /\ allocated = {}
  /\ link = [i \in Instances |-> NoFamily]
  /\ istate = [i \in Instances |-> "Unconstructed"]
  /\ once = [state |-> "Uninit", family |-> NoFamily]

LiveInstances(f) == {i \in Instances : istate[i] = "Live" /\ link[i] = f}

(***************************************************************************)
(* linked::new! run for the first time (spec 4.1, 6): a fresh identity     *)
(* token wrapping the constructor recipe, its record held once by the      *)
(* handle that is returned.                                                *)
(***************************************************************************)
CreateFamily(f) ==
  /\ f \notin allocated
  /\ famRef' = [famRef EXCEPT ![f] = 1]
  /\ allocated' = allocated \cup {f}

(***************************************************************************)
(* `From<Family<T>> for T`: family.__private_into() runs the recipe once   *)
(* and links the new instance to the family, cloning the identity record   *)
(* into the Link.  The caller must hold a reference to a live family.      *)
(* The new instance takes the lowest identity never constructed.           *)
(***************************************************************************)
FreshInstance ==
  CHOOSE i \in Instances :
    /\ istate[i] = "Unconstructed"
    /\ \A j \in Instances : istate[j] = "Unconstructed" => i <= j

CanProduce == \E i \in Instances : istate[i] = "Unconstructed"

(* The recipe has run: instance i is live and linked to family f. *)
LinkInstance(f, i) ==
  /\ istate[i] = "Unconstructed"
  /\ istate' = [istate EXCEPT ![i] = "Live"]
  /\ link' = [link EXCEPT ![i] = f]

(* Produce from a handle the caller keeps: the Link adds a reference. *)
Produce(f, i) ==
  /\ famRef[f] > 0
  /\ LinkInstance(f, i)
  /\ famRef' = [famRef EXCEPT ![f] = @ + 1]

(***************************************************************************)
(* Dropping an instance releases the Link's reference to its family; no    *)
(* other teardown happens (spec 4.3).                                      *)
(***************************************************************************)
DropInstance(i) ==
  /\ istate[i] = "Live"
  /\ istate' = [istate EXCEPT ![i] = "Dropped"]
  /\ famRef' = [famRef EXCEPT ![link[i]] = @ - 1]
  /\ UNCHANGED link

(***************************************************************************)
(* The exactly-once barrier of the named static (spec 4.2): the first      *)
(* caller claims the cell and runs the initialiser, callers that find it   *)
(* running wait, callers that find it done use the stored family.          *)
(***************************************************************************)
ClaimInit ==
  /\ once.state = "Uninit"
  /\ once' = [once EXCEPT !.state = "Running"]

\* Mutant: the initialiser stores the family but never marks the cell done.
PublishInitWithoutDone(f) ==
  once' = [once EXCEPT !.family = f]

PublishInit(f) ==
  once' = [state |-> "Done", family |-> f]

=============================================================================
