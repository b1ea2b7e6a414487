-------------------------- MODULE MCPackageManager ---------------------------
(* Instance of PackageManager: three names, two versions of each.  The new  *)
(* versions of the first two names have every manifest with at most one     *)
(* dependency: conflicts, circles and dead ends found late are among them.  *)
EXTENDS PackageManager

Dep(n, vs) == [name |-> n, ok |-> vs]
Manifests(n) == {<< >>} \union {<<Dep(m, vs)>> : m \in Name \ {n}, vs \in {{1}, {2}, {1, 2}}}

\* At first everything is there, or one new version is still to come.
MCOffers == {Name \X Version, (Name \X Version) \ {<<1, 2>>}}

MCWorlds ==
    {[root |-> <<Dep(1, {1, 2}), Dep(2, {1, 2})>>,
      manifest |-> [nv \in Name \X Version |->
                      CASE nv = <<1, 1>> -> m11 [] nv = <<1, 2>> -> m12
                        [] nv = <<2, 1>> -> m21 [] nv = <<2, 2>> -> m22
                        [] nv = <<3, 1>> -> << >> [] OTHER -> <<Dep(1, {1})>>]] :
       m11 \in {<< >>, <<Dep(3, {1, 2})>>}, m12 \in Manifests(1),
       m21 \in {<< >>, <<Dep(1, {1})>>}, m22 \in Manifests(2)}
==============================================================================
