------------------------- MODULE MCContractEvolution -------------------------
(***************************************************************************)
(* A table with a column that has a nested field.  The entities a person   *)
(* writes are the ones in Shapes; what merges make of them goes beyond.    *)
(***************************************************************************)
EXTENDS ContractEvolution, TLC

CONSTANTS table, amount, part, fk, texted, bare, today, later

Int16 == [family |-> "int", width |-> 16, scale |-> 0]
Int32 == [family |-> "int", width |-> 32, scale |-> 0]
Money == [family |-> "decimal", width |-> 10, scale |-> 2]
Cents == [family |-> "decimal", width |-> 10, scale |-> 1]

MCPhysical == {Int16, Int32, Money, Cents}
MCParent == [n \in {amount, part} |-> IF n = part THEN amount ELSE table]

Bare ==
  [declared |-> Null, since |-> Null, logical |-> Null, physical |-> Null,
   required |-> Null, about |-> Null, links |-> {}, rules |-> {}, unnamed |-> [r \in Unnamed |-> 0]]
Typed == [Bare EXCEPT !.physical = Int32, !.required = FALSE]
Priced == [Typed EXCEPT !.physical = Money]

Shapes ==
  [n \in Entities |->
     IF n = table THEN {Bare, [Bare EXCEPT !.declared = "deprecated"]}
     ELSE IF n = part
     THEN {Typed, [Typed EXCEPT !.physical = Int16], [Typed EXCEPT !.declared = "draft"]}
     ELSE {Priced, [Priced EXCEPT !.physical = Cents], [Priced EXCEPT !.required = TRUE],
           [Priced EXCEPT !.declared = "deprecated"],
           [Priced EXCEPT !.declared = "invalid"]}]

Only(f, ids) == [n \in Entities |-> IF n \in ids THEN f[n] ELSE Null]

\* One entity written anew, or removed with what is in it.
Rewritten(c) ==
  {c.entities}
    \cup UNION {{[c.entities EXCEPT ![n] = e] : e \in Shapes[n]} :
                  n \in {m \in Entities : m = table \/ Parent[m] \in Ids(c)}}
    \cup {Only(c.entities, ids) : ids \in {{}, {table}, {table, amount}} \cap SUBSET Ids(c)}

\* Among them: promoting and rewriting at once, retiring and removing at once.
MCEdits(c) ==
  {[c EXCEPT !.id = "other"], [c EXCEPT !.version = "2.0.0"], [c EXCEPT !.status = "invalid"],
   [c EXCEPT !.clash = ~@]}
    \cup {[c EXCEPT !.status = status, !.entities = f] :
            status \in {c.status, "active"}, f \in Rewritten(c)}
    \cup {[c EXCEPT !.status = "retired", !.entities = Only(c.entities, ids)] :
            ids \in {{}, Ids(c)}}

Named(status, f) ==
  [id |-> "c", version |-> "1.0.0", status |-> status, clash |-> FALSE, entities |-> f]
Whole == Only([n \in Entities |-> IF n = table THEN Bare ELSE IF n = amount THEN Priced ELSE Typed],
              {table, amount, part})

MCInitial == {Named(status, Whole) : status \in {"draft", "active"}}

\* A field as an importer gives it: nothing is said of what it does not know.
Seen(physical) ==
  [Bare EXCEPT !.physical = physical, !.required = FALSE,
               !.about = Unset, !.logical = Unset]

Source(f) ==
  [id |-> "imported", version |-> "7", status |-> "active", clash |-> FALSE,
   entities |-> Only(f, DOMAIN f)]

\* Among them: the table dropped, the column dropped, types narrowed at both depths,
\* a stricter column with a foreign key, a column a source declares active, rules
\* without a name, and a source that cannot be indexed.
MCSources ==
  {Source(<<>>), Source(table :> Bare),
   Source(table :> Bare @@ amount :> Seen(Cents) @@ part :> Seen(Int16)),
   Source(table :> Bare
            @@ amount :> [Seen(Cents) EXCEPT !.required = TRUE, !.links = {fk}]),
   Source(table :> [Bare EXCEPT !.unnamed = [r \in Unnamed |-> 1]]
            @@ amount :> [Seen(Money) EXCEPT !.declared = "active", !.required = Unset]
            @@ part :> Seen(Int32)),
   [Source(<<>>) EXCEPT !.clash = TRUE]}

\* Effective dates are compared for equality only.
DatesAlike == Permutations({today, later})
=============================================================================
