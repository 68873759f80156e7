------------------------------ MODULE MCDesktop ------------------------------
EXTENDS Desktop
CONSTANTS s, t, o, k1, k2
MCLimit == [k \in Kinds |-> IF k = "source" THEN 2 ELSE 1]
E(w, key) == [who |-> w, key |-> key, muted |-> FALSE]
Setup(sources, outputs, key) ==
    [entries |-> [k \in Kinds |-> IF k = "source" THEN sources ELSE outputs],
     monitorKey |-> key, exclusive |-> TRUE]
\* An empty setup, a source without an output, and a shortcut assigned twice.
MCSetups ==
    {Setup(<<>>, <<>>, NoKey)}
    \cup {Setup(<<E(a, NoKey)>>, <<>>, NoKey) : a \in Who}
    \cup {Setup(<<E(x[1], x[4]), E(x[2], NoKey)>>, <<E(x[3], NoKey)>>, x[4]) :
             x \in {y \in Who \X Who \X Who \X Chords :
                       y[1] # y[2] /\ y[2] # y[3] /\ y[1] # y[3]}}
MCSymmetry == Permutations(Who) \cup Permutations(Chords)
==============================================================================
