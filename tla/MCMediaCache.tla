---------------------------- MODULE MCMediaCache ----------------------------
EXTENDS MediaCacheProps, TLC

CONSTANTS p1, p2, c1, c2, t1, t2, t3, e1, e2

\* A post of two originals and a post of one; two posts of one; one post of one.
AlbumObjects == {1, 2, 3}
AlbumPlans == (1 :> p1) @@ (2 :> p1) @@ (3 :> p2)
SingleObjects == {1, 2}
SinglePlans == (1 :> p1) @@ (2 :> p2)
OneObject == {1}
OnePlan == (1 :> p1)

AlbumLimits == [o \in AlbumObjects |-> 2]
SingleLimits == [o \in SingleObjects |-> 2]
OneLimit == [o \in OneObject |-> 2]
Sizes == (c1 :> 1) @@ (c2 :> 2)

\* Two posts with a content each; two posts of the same content; an album whose first original
\* may be served with either of two contents and exceed the post limit, and a post that shares one.
Distinct == (1 :> {c1}) @@ (2 :> {c2})
Shared == (1 :> {c1}) @@ (2 :> {c1})
FickleAlbum == (1 :> {c1, c2}) @@ (2 :> {c2}) @@ (3 :> {c1})
OneSource == (1 :> {c1})

=============================================================================
