---------------------------- MODULE MCReplication ----------------------------
(* Replication for TLC: the filter lists that the streams ask for.          *)
EXTENDS Replication

CONSTANTS r1, r2

\* A client's view of one model, and the global server's pull of a local server
\* that owns two scopes.
OneModel   == <<{r1}>>
ManyScopes == <<{r1}, {r2}>>

OnlyModel  == {OneModel}
Both       == {OneModel, ManyScopes}

\* Bound: a behaviour has any number of the first, while the second row does not
\* exist, or one of the second.
InBounds ==
  \/ asked \in {<<>>, <<ManyScopes>>}
  \/ source[r2] = 0 /\ r2 \notin removed /\ \A n \in DOMAIN asked : asked[n] = OneModel

MCReplSpec == ReplInit /\ [][ReplNext /\ InBounds']_replVars /\ ReplFairness
=============================================================================
