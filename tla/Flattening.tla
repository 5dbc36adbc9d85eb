----------------------------- MODULE Flattening -----------------------------
(***************************************************************************)
(* flatten (ingestion/transforms).  A value is given by what stands at     *)
(* each of its places: an atom, or an object, whose members stand one      *)
(* place further down.  A place is a sequence of numbers: <<2, 1>> is the  *)
(* first member of the second member.  Each has a key, a sequence of parts:*)
(* the separator may occur in it, so "a_b" is <<"a", "b">>.                *)
(***************************************************************************)
EXTENDS Integers, Sequences, SequencesExt

CONSTANT MaxDepth    \* FlattenOptions.max_depth

Object(key)     == [key |-> key, kind |-> "object"]
Atom(key, atom) == [key |-> key, kind |-> "atom", value |-> atom]

(* The path of a place: the keys on the way, joined. *)
Name(at, place) ==
    LET prefix[n \in 0..Len(place)] ==
            IF n = 0 THEN <<>> ELSE prefix[n - 1] \o at[SubSeq(place, 1, n)].key
    IN  prefix[Len(place)]

(* _flatten_value looks into objects above max_depth. *)
Expanded(at, place) == at[place].kind = "object" /\ Len(place) < MaxDepth

(* Mutant: what lies deeper than max_depth is cut off. *)
AssignedCut(at) ==
    {p \in DOMAIN at : /\ at[p].kind = "atom"
                       /\ \A n \in 0..(Len(p) - 1) : Expanded(at, SubSeq(p, 1, n))}

(* The places it comes to and does not look into: out[prefix] = value.     *)
Assigned(at) ==
    {p \in DOMAIN at : /\ ~Expanded(at, p)
                       /\ \A n \in 0..(Len(p) - 1) : Expanded(at, SubSeq(p, 1, n))}

(* It comes to p before q: items() are in order. *)
Before(p, q) == \E n \in DOMAIN p \cap DOMAIN q :
                    p[n] < q[n] /\ SubSeq(p, 1, n - 1) = SubSeq(q, 1, n - 1)

(* What stands at a place and below it. *)
Part(at, place) ==
    [q \in {SubSeq(p, Len(place) + 1, Len(p)) : p \in {p \in DOMAIN at : IsPrefix(place, p)}} |->
        at[place \o q]]

(* A cell of a flattened column: only an object fills the new columns, in  *)
(* which a later assignment replaces an earlier one of the same name.      *)
FlatCell(at) ==
    LET all == Assigned(at)
    IN  IF at[<<>>].kind # "object" THEN [name \in {} |-> at]
        ELSE [name \in {Name(at, p) : p \in all} |->
                 Part(at, CHOOSE p \in all :
                              /\ Name(at, p) = name
                              /\ \A q \in all : Name(at, q) = name => q = p \/ Before(q, p))]

(* The atoms of a value, with their paths. *)
Atoms(at) == {<<Name(at, p), at[p].value>> : p \in {q \in DOMAIN at : at[q].kind = "atom"}}

(* The atoms of its cells, with the name of the cell before the path.      *)
FlatAtoms(at) ==
    LET cells == FlatCell(at)
    IN  UNION {{<<name \o a[1], a[2]>> : a \in Atoms(cells[name])} : name \in DOMAIN cells}

(* A later place has the same name: a.b_c and a.b.c.                       *)
ReplacedLater(at, p) == \E q \in Assigned(at) : Name(at, q) = Name(at, p) /\ Before(p, q)

(* "Expand nested objects into columns": every atom of the cells is one of *)
(* the object, with the path it has there, and every atom of the object is *)
(* in the cells, unless what it belongs to was replaced.                   *)
FlattenKeepsAtoms(at) ==
    at[<<>>].kind = "object" =>
        /\ FlatAtoms(at) \subseteq Atoms(at)
        /\ \A p \in DOMAIN at :
              at[p].kind = "atom" /\ <<Name(at, p), at[p].value>> \notin FlatAtoms(at)
                  => \E q \in Assigned(at) : IsPrefix(q, p) /\ ReplacedLater(at, q)

=============================================================================
