--------------------------- MODULE MCReleaseFlow ---------------------------
(***************************************************************************)
(* Instances of ReleaseFlow: an active contract of two columns at 1.0.0,   *)
(* and changes of it with the verdicts and bumps that Lifecycle has for    *)
(* them: a description, a third column, one less, retirement, another id.  *)
(***************************************************************************)
EXTENDS ReleaseFlow, TLC

CONSTANTS f1, f2

Identities == {"orders", "amount", "currency", "discount"}

Governance == INSTANCE Lifecycle WITH
  Schemas <- {"orders"}, Columns <- Identities \ {"orders"}, Nested <- {},
  Parent <- [n \in Identities \ {"orders"} |-> "orders"],
  Logical <- {}, Physical <- {}, Links <- {}, Rules <- {}, Unnamed <- {},
  Identified <- {}, Texts <- {"net of tax"}, Dates <- {},
  Root <- "contract", Null <- None

Entity(about) ==
  [declared |-> None, since |-> None, logical |-> None, physical |-> None,
   required |-> None, about |-> about, links |-> {}, rules |-> {}, unnamed |-> <<>>]

\* The governed contract after some changes.
After(content) ==
  [id |-> IF "rename" \in content THEN "invoices" ELSE "orders", version |-> "",
   status |-> IF "retire" \in content THEN "retired" ELSE "active", clash |-> FALSE,
   entities |-> [n \in Identities |->
     IF \/ n = "currency" /\ "drop" \in content
        \/ n = "discount" /\ "add" \notin content
     THEN None
     ELSE Entity(IF n = "amount" /\ "fix" \in content THEN "net of tax" ELSE None)]]

Decision(content, c) ==
  Governance!Evaluate(After(content), After(content \cup {c}), {})

MCRetiring == Changes \cap {"retire"}
MCBump == [c \in Changes |->
  CASE c \in {"fix", "retire"} -> "none" [] c = "add" -> "minor" [] OTHER -> "major"]
MCVerdict == [c \in Changes |->
  CASE c = "fix" -> "ALLOW" [] c = "rename" -> "BLOCK" [] OTHER -> "REVIEW"]

\* These are Lifecycle's, and what Assess takes for granted holds: the decision is
\* the change's own, whatever was released before, except that nothing passes
\* once the contract is retired.
ASSUME DecisionsOfChanges ==
  \A content \in SUBSET {c \in Changes : MCVerdict[c] # "BLOCK"} :
  \A c \in Changes \ content :
    Decision(content, c) =
      [result |-> IF content \cap MCRetiring = {} THEN MCVerdict[c] ELSE "BLOCK",
       bump |-> MCBump[c]]

FixAddDrop == {"fix", "add", "drop"}
FixAndRetire == {"fix", "retire", "rename"}
MCTags == {<<1, 0, 0>>, <<1, 0, 1>>, <<1, 1, 0>>, <<2, 0, 0>>}
MCFirst == <<1, 0, 0>>
Symmetry == Permutations({f1, f2})
============================================================================
