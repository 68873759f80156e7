----------------------------- MODULE MCOutputList -----------------------------
EXTENDS OutputList
CONSTANTS a1, a2, b1, NameA, NameB, PartOfA
MCName == [e \in Endpoints |-> IF e = b1 THEN NameB ELSE NameA]
MCPartOf == {<<NameA, PartOfA>>}
\* An empty list, an old file with a part of a name, and two chosen devices.
MCPresets == {<<>>, <<[id |-> NoId, name |-> PartOfA]>>,
              <<[id |-> a1, name |-> NameA], [id |-> b1, name |-> NameB]>>}
\* The instance without twins is one of those OutputsDistinct is proved for.
ASSUME InstanceIsUnambiguous == Twins \/ Unambiguous
==============================================================================
