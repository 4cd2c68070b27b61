----------------------------- MODULE MCChecker -----------------------------
(* Two names, one subdirectory; symbolic links to a directory, to the root   *)
(* and to places that do not exist; after the crash one entry may differ.    *)
EXTENDS Checker

\* Names, as model values.
CONSTANTS foo, bar

MCPaths == {<<foo>>, <<bar>>, <<foo, bar>>}
MCByte  == 0..2

Plain(kind) == [NoNode EXCEPT !.kind = kind]
Link(to)    == [NoNode EXCEPT !.kind = "link", !.to = to]
Kinds       == {Plain("none"), Plain("dir"), Plain("file"), Link(<<>>), Link(<<foo>>), Link(<<bar>>)}

Trees == {t \in [MCPaths -> Kinds] :
            /\ t[<<bar>>] # Link(<<>>)
            /\ t[<<foo, bar>>].kind # "none" => t[<<foo>>].kind = "dir"
            /\ \A p \in MCPaths : t[p].kind = "link" /\ t[p].to # <<>> => t[t[p].to].kind # "link"}

\* The same tree, or one entry with another kind, other attributes or data.
Recovered(t) ==
    {t} \cup {u \in Trees : \E p \in MCPaths : \A q \in MCPaths \ {p} : u[q] = t[q]}
        \cup {[t EXCEPT ![p].attr = 1] : p \in {q \in {<<foo>>, <<foo, bar>>} : t[q].kind # "none"}}
        \cup {[t EXCEPT ![p].data = <<1>>] : p \in {q \in MCPaths : t[q].kind = "file"}}

Tree(t, u, ty) == [record |-> t, replay |-> u, mod |-> [type |-> ty, path |-> <<foo, bar>>]]

TreeInputs == UNION {{Tree(t, u, "sync") : u \in Recovered(t)} : t \in Trees} \cup
              UNION {{Tree(t, u, "fsync") : u \in {v \in Recovered(t) : v[<<foo>>] = t[<<foo>>] /\ v[<<bar>>] = t[<<bar>>]}} :
                         t \in {v \in Trees : v[<<foo, bar>>].kind # "none"}}

File(d) == [p \in MCPaths |-> IF p = <<bar>> THEN [Plain("file") EXCEPT !.data = d] ELSE NoNode]
Data    == UNION {[1..n -> MCByte] : n \in 0..2}

DataInputs == {[record |-> File(d), replay |-> File(e),
                mod |-> [type |-> "data", path |-> <<bar>>, loc |-> loc, len |-> len]] :
                   d \in Data, e \in Data, loc \in 0..1, len \in 0..2}

\* Files longer than IntMax = 3, and modifications the int parameters change:
\* 4 to 6 are negative, 7 is -1, and 8 is 0 again.
LongInputs == {[record |-> File(d), replay |-> File(e),
                mod |-> [type |-> "data", path |-> <<bar>>, loc |-> loc, len |-> len]] :
                   d \in {<<1, 0, 2, 1, 1>>}, e \in {<<1, 0, 2, 1, 1>>, <<1, 0, 2, 1, 2>>},
                   loc \in {0, 2, 3, 4, 8}, len \in {1, 2, 3, 5, 7, 8}}

MCInputs == TreeInputs \cup DataInputs \cup LongInputs
=============================================================================
