--------------------------- MODULE LinkedFamilies ---------------------------
(***************************************************************************)
(* What the linked runtime promises about families, without handles,       *)
(* reference counts or threads (spec.md sections 3, 4.3 and 4.4):          *)
(*   - an instance joins exactly one family when it is minted and never    *)
(*     leaves it;                                                          *)
(*   - a family gains members only while something family-aware (a handle  *)
(*     or a live instance that was not type-erased) exists, and once       *)
(*     nothing family-aware is left, nothing can become family-aware again *)
(*     (type erasure is one-way);                                          *)
(*   - a family's identity is freed exactly when no holder is left, and    *)
(*     a freed family never changes again.                                 *)
(***************************************************************************)
EXTENDS FiniteSets

CONSTANTS Families, Instances

VARIABLES
  members,   \* members[f]: every instance ever minted in family f
  live,      \* live[f]: the members of f not yet dropped
  aware,     \* aware[f]: some holder of f can still mint (handle or un-erased instance)
  freed      \* freed[f]: f's identity record has been released

vars == <<members, live, aware, freed>>

Minted == UNION {members[f] : f \in Families}

Init ==
  /\ members = [f \in Families |-> {}]
  /\ live = [f \in Families |-> {}]
  /\ aware = [f \in Families |-> FALSE]
  /\ freed = [f \in Families |-> FALSE]

(* A new family with its first instance. *)
Create(f, i) ==
  /\ members[f] = {}
  /\ i \notin Minted
  /\ members' = [members EXCEPT ![f] = {i}]
  /\ live' = [live EXCEPT ![f] = {i}]
  /\ aware' = [aware EXCEPT ![f] = TRUE]
  /\ UNCHANGED freed

(* A further member, possible only through something family-aware. *)
Mint(f, i) ==
  /\ aware[f]
  /\ i \notin Minted
  /\ members' = [members EXCEPT ![f] = @ \cup {i}]
  /\ live' = [live EXCEPT ![f] = @ \cup {i}]
  /\ UNCHANGED <<aware, freed>>

(* Members are dropped and family-awareness is given up; when no holder *)
(* remains the identity is freed.                                      *)
Narrow(f) ==
  /\ members[f] # {}
  /\ ~freed[f]
  /\ \E l \in SUBSET live[f], a \in BOOLEAN :
       /\ a => aware[f]
       /\ live' = [live EXCEPT ![f] = l]
       /\ aware' = [aware EXCEPT ![f] = a]
       /\ freed' = [freed EXCEPT ![f] = (l = {} /\ ~a)]
  /\ UNCHANGED members

Next ==
  \/ \E f \in Families, i \in Instances : Create(f, i) \/ Mint(f, i)
  \/ \E f \in Families : Narrow(f)

Spec == Init /\ [][Next]_vars

=============================================================================
