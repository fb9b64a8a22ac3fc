--------------------------- MODULE MCSemanticCache ---------------------------
(* Instance of SemanticCache for TLC: p and q resemble each other, r does not *)
(* resemble them; the name "alias" stands for a model nobody names directly.  *)
EXTENDS SemanticCache, TLC

CONSTANTS p, q, r, none, m, alias, other

MCPrompts == {p, q, r, none}
MCModels == {m, alias}
MCResolve == m :> m @@ alias :> other
MCScore == [pair \in MCPrompts \X MCPrompts |->
    IF pair[1] = pair[2] THEN 2 ELSE IF {pair[1], pair[2]} = {p, q} THEN 1 ELSE 0]
MCSymmetry == Permutations(Clients)
=============================================================================
