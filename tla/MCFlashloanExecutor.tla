------------------------ MODULE MCFlashloanExecutor ------------------------
(* TLC instance of FlashloanExecutor: WETH, a plain token and a taxed one, two *)
(* routers, routes of one to three hops with V2 and V3 mixed, and a call       *)
(* with mismatched lengths.                                                   *)
EXTENDS FlashloanExecutor

CONSTANTS w, a, b, r, s

Arguments(path, routers, isV3) ==
  [path |-> path, routers |-> routers, isV3 |-> isV3,
   feeTiers |-> [i \in DOMAIN routers |-> 0], amount |-> 1]

SomeCalls ==
  {Arguments(<<w, a, w>>, <<r, s>>, <<FALSE, TRUE>>),
   Arguments(<<w, b, w>>, <<r, r>>, <<TRUE, FALSE>>),
   Arguments(<<w, a, b, w>>, <<r, s, r>>, <<TRUE, TRUE, FALSE>>),
   Arguments(<<w, a>>, <<s>>, <<TRUE>>),
   Arguments(<<a, w>>, <<r>>, <<FALSE>>),
   Arguments(<<w, a, w>>, <<r>>, <<FALSE>>)}
=============================================================================
