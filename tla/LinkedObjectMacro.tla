-------------------------- MODULE LinkedObjectMacro --------------------------
(***************************************************************************)
(* The `#[linked::object]` attribute macro,                                *)
(* crates/linked_macros_impl/src/linked_object.rs.  Token streams are      *)
(* abstracted to the items they parse to: an item is a record of its       *)
(* kind, name, generic parameters, where clause and fields; an expansion   *)
(* is the sequence of items it emits plus the compile error it carries,   *)
(* if any.  The state machine takes one input item, expands it once and   *)
(* stops, so that TLC checks the expansion of every item of the bounded   *)
(* input set.                                                              *)
(***************************************************************************)
EXTENDS Sequences, FiniteSets

CONSTANTS
  FieldNames,   \* author field names
  Generics,     \* generic parameters (lifetimes and types)
  TypeName,     \* the name of the annotated item
  NoError       \* an expansion without a compile error

LinkField == "__private_linked_link"
ASSUME LinkField \notin FieldNames

ItemKinds == {"struct", "enum", "fn"}
FieldShapes == {"named", "unnamed", "unit"}
ErrNotStruct == "the linked::object attribute must be applied to a struct"
ErrNotNamed == "the linked::object attribute must be applied to a struct with named fields"
ErrParse == "expected an item"

(* Field lists of at most two fields. *)
NamedFieldLists == {<<>>} \cup {<<n>> : n \in FieldNames}
                          \cup {<<n, m>> : n, m \in FieldNames}

Items ==
  [kind : ItemKinds, name : {TypeName}, generics : SUBSET Generics,
   where : BOOLEAN, shape : {"named"}, fields : NamedFieldLists]
  \cup [kind : ItemKinds, name : {TypeName}, generics : SUBSET Generics,
        where : BOOLEAN, shape : {"unnamed", "unit"}, fields : {<<>>}]

(* Token streams that do not parse as an item at all. *)
Unparseable == [kind : {"tokens"}]

Inputs == Items \cup Unparseable

VARIABLES input, output
vars == <<input, output>>

(***************************************************************************)
(* core(): split_for_impl keeps the generics and where clause for  *)
(* every impl; a struct without named fields is rejected; otherwise the   *)
(* hidden Link<Self> field is pushed after the author's fields and the     *)
(* three impls are emitted, each delegating to the linked runtime.         *)
(***************************************************************************)
Impl(item, trait, body) ==
  [kind |-> "impl", trait |-> trait, for |-> item.name,
   generics |-> item.generics, where |-> item.where, body |-> body]

\* Mutant: the named-fields check is dropped; the Link is appended to the
\* fields of any struct.
CoreAcceptingTuples(item) ==
  [items |-> << [item EXCEPT !.fields = Append(@, LinkField)],
                Impl(item, "Object", "link.family()"),
                Impl(item, "Clone", "__private::clone(self)"),
                Impl(item, "From<Family>", "family.__private_into()") >>,
   error |-> NoError]

Core(item) ==
  IF item.shape # "named"
  THEN [items |-> <<>>, error |-> ErrNotNamed]
  ELSE [items |-> << [item EXCEPT !.fields = Append(@, LinkField)],
                     Impl(item, "Object", "link.family()"),
                     Impl(item, "Clone", "__private::clone(self)"),
                     Impl(item, "From<Family>", "family.__private_into()") >>,
        error |-> NoError]

(***************************************************************************)
(* token_stream_and_error: the input tokens are emitted unchanged next to *)
(* the compile error.                                                      *)
(***************************************************************************)
TokenStreamAndError(in, e) == [items |-> <<in>>, error |-> e]

(***************************************************************************)
(* entrypoint(): parse the input as an item; a struct goes to core(), any *)
(* other item and a parse failure become an error; an error is emitted     *)
(* with the input tokens.                                                  *)
(***************************************************************************)
Entrypoint(in) ==
  LET r == CASE in.kind = "tokens" -> [items |-> <<>>, error |-> ErrParse]
             [] in.kind = "struct" -> Core(in)
             [] OTHER              -> [items |-> <<>>, error |-> ErrNotStruct]
  IN IF r.error = NoError THEN r ELSE TokenStreamAndError(in, r.error)

Init ==
  /\ input \in Inputs
  /\ output = NoError

Expand ==
  /\ output = NoError
  /\ output' = Entrypoint(input)
  /\ UNCHANGED input

Next == Expand

Spec == Init /\ [][Next]_vars

-----------------------------------------------------------------------------
Expanded ==
  [kind : {"struct"}, name : {TypeName}, generics : SUBSET Generics,
   where : BOOLEAN, shape : {"named"},
   fields : {fs \o <<LinkField>> : fs \in NamedFieldLists}]
Impls ==
  [kind : {"impl"}, trait : {"Object", "Clone", "From<Family>"}, for : {TypeName},
   generics : SUBSET Generics, where : BOOLEAN, body : STRING]
Expansions ==
  [items : Seq(Inputs \cup Expanded \cup Impls),
   error : {NoError, ErrParse, ErrNotStruct, ErrNotNamed}]

(***************************************************************************)
(* Type invariant: the input is one of the enumerated items, and an       *)
(* expansion emits only the input, a struct with named fields ending in   *)
(* the Link field, or one of the three impls core() generates.            *)
(***************************************************************************)
TypeOK ==
  /\ input \in Inputs
  /\ output = NoError \/ output \in Expansions

=============================================================================
