-------------------------- MODULE MCRouteResolution --------------------------
(* Instances of RouteResolution: four ids, two model names and "".         *)
EXTENDS RouteResolution

R(models, target, upstream_model, priority) ==
    [models |-> models, target |-> target,
     upstream_model |-> upstream_model, priority |-> priority]
AnyModel == Models
MCIdOrder == <<"d", "p", "q", "r">>

(* A router, two pools, and an upstream or a second router, in shapes that *)
(* chain, nest, tie, dangle and close cycles, and a static router below.   *)
MCCatalogue ==
  [id \in Ids |->
    CASE id = "r" -> {Router(<<R({"m"}, "p", None, 1), R(AnyModel, "d", "n", 1),
                               R(AnyModel, "q", None, None)>>)}
      [] id = "q" -> {Pool(<<"d", "r">>)}
      [] id = "p" -> {Pool(<<"d", "q", "d">>), Pool(<<"d">>)}
      [] id = "d" -> {Direct(TRUE), Direct(FALSE), Router(<<R({"n"}, "p", "m", 1)>>)}]

MCStatics ==
  [id \in Ids |-> IF id = "r" THEN Router(<<R({"m"}, "p", None, 1), R(AnyModel, "q", "m", 0)>>)
                  ELSE None]

(* A second admin checks an upsert only while one of the first is on its    *)
(* way, and what comes of both is seen through before a request comes: no   *)
(* walk notices a pending upsert.                                          *)
MCOneAdminWhileWalking ==
    /\ upserts["bob"] # None => upserts["alice"] # None \/ upserts["bob"].read # table
    /\ walk.pc # "idle" =>
         /\ upserts["bob"] = None
         /\ upserts["alice"] # None => upserts["alice"].read = table
===============================================================================
