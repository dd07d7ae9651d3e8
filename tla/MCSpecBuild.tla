---------------------------- MODULE MCSpecBuild ----------------------------
(* Specs of up to three tasks over the ids a, b and c; x is never declared. *)
EXTENDS SpecBuild

CONSTANTS a, b, c, x

Declared == TaskIds \ {x}

Task(ids, deps) == [id : ids, depends_on : deps]
Deps0 == {<< >>}
Deps1 == {<<i>> : i \in TaskIds}
Deps2 == {<<i, j>> : i, j \in TaskIds}

\* Up to two tasks with up to two dependencies each, repeated ones included.
ShortSpecs ==
  UNION {[1..n -> Task({a, b}, Deps0 \cup Deps1 \cup Deps2)] : n \in 0..2}

\* Three tasks with distinct ids, or with an id that comes twice; of the
\* dependencies, one per task, or two for the last.
LongSpecs ==
  {<<s1, s2, s3>> : s1 \in Task({a}, Deps0 \cup {<<i>> : i \in Declared}),
                    s2 \in Task({a, b}, Deps0 \cup {<<i>> : i \in Declared}),
                    s3 \in Task({a, c}, Deps0 \cup {<<i>> : i \in Declared}
                                              \cup {<<i, j>> : i, j \in {a, b}})}

MCSpecs == ShortSpecs \cup LongSpecs
=============================================================================
