------------------------------- MODULE MCVmc -------------------------------
(* Vmc on small instances: two files, one or two that may be in a folder,   *)
(* and two of which one's name begins the other's, in a folder too, each    *)
(* with the handles, clusters and mishaps that matter to it.                *)
EXTENDS Vmc, TLC

CONSTANTS h1, h2, one, two, inner, save, save2, folder

MCFiles == {one, two, inner, save, save2}
MCPrefixes == {<<save, save2>>}

Setup(names, folders, handles, last, followed) ==
    [names |-> names, folders |-> folders, handles |-> handles, last |-> last,
     followed |-> followed]

MCSetups ==
    {Setup({one, two}, {}, {h1, h2}, 8, {}),
     Setup({one, two}, {}, {h1, h2}, 7, {"held"}),
     Setup({one, two}, {}, {h1}, 8, {"dropped"}),
     Setup({inner}, {folder}, {h1}, 8, {"held"}),
     Setup({one, two}, {folder}, {h1}, 7, {"held"}),
     Setup({inner}, {folder}, {h1}, 5, {"half"}),
     Setup({save, save2}, {folder}, {h1}, 7, {"short"})}

\* With h2 in place of h1 the setups of one handle have the same behaviours.
Symmetry == Permutations({one, two}) \cup Permutations(Handles)
=============================================================================
