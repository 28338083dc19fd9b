------------------------------ MODULE MCSeeding ------------------------------
EXTENDS Seeding

\* The edges of each graph over three tables, as topologicalSort is given
\* them: every order of a table's parents that the query may return.
Three == {"a", "b", "c"}
Graphs == [Three -> {s \in SeqOf(Three, 3) : \A i, j \in DOMAIN s : s[i] = s[j] => i = j}]

\* Whom t refers to, over any number of references.
Ancestors(g, t) ==
    LET one == ToSet(g[t])
        two == one \cup UNION {ToSet(g[u]) : u \in one}
    IN  two \cup UNION {ToSet(g[u]) : u \in two}

\* topologicalSort returns each table once, and none after one that it
\* refers to itself, unless that one leads back to it.  (On a cycle of tables
\* one may come after a table that it leads to: there is none in the schema,
\* but for tables that refer to themselves.)
ASSUME SortsChildrenFirst ==
    \A g \in Graphs :
        LET order == TopologicalSort(<<"a", "b", "c">>, g)
        IN  /\ Len(order) = 3 /\ ToSet(order) = Three
            /\ \A i, j \in 1..3 :
                   /\ order[j] \in ToSet(g[order[i]])
                   /\ order[i] \notin Ancestors(g, order[j])
                   => i <= j
=============================================================================
