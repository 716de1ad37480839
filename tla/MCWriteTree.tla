---------------------------- MODULE MCWriteTree ----------------------------
(* Model-checking instance of WriteTree: a root with the children A, which *)
(* has the children x and y, and b.                                        *)
EXTENDS WriteTree

CONSTANTS x, y, b

A == {x, y}
PathsDef == {{x, y, b}, A, {x}, {y}, {b}}

Merge(p, at) == [path |-> p, at |-> at]

\* Overwrites and merges of children, as the app issues them, that cover
\* each other, overlap, or touch at one leaf.
ShapesDef == {Overwrite(Root), Overwrite(A), Overwrite({x}), Merge(A, {{x}, {y}}),
              Merge(Root, {A, {b}})}

\* With a merge that names a path of two keys.
DeepShapesDef == {Overwrite(A), Merge(Root, {{x}})}
=============================================================================
