--------------------------- MODULE MCRESTClient ---------------------------
(* Instances of RESTClient: a store with pods of the same name in two      *)
(* namespaces and in none, and a node.                                     *)
EXTENDS RESTClient, TLC

Obj(res, ns, name) == [res |-> res, ns |-> ns, name |-> name]

MCObjects == {Obj("pods", "", "p"), Obj("pods", "x", "p"), Obj("pods", "y", "p"),
              Obj("pods", "x", "q"), Obj("nodes", "", "n")}

Req(path, watch) == [path |-> path, watch |-> watch, matches |-> MCObjects]

(* One request of every shape Do tells apart. *)
MCShapes ==
    {Req(<<>>, FALSE),
     Req(<<"pods">>, FALSE),
     Req(<<"pods">>, TRUE),
     [path |-> <<"pods">>, watch |-> FALSE, matches |-> {Obj("pods", "x", "p")}],
     Req(<<"watch">>, FALSE),
     Req(<<"watch", "nodes">>, FALSE),
     Req(<<"storageclasses">>, FALSE),
     Req(<<"nodes", "n">>, FALSE),
     Req(<<"pods", "q">>, FALSE),
     Req(<<"namespaces", "x", "pods">>, FALSE),
     Req(<<"other", "x", "pods">>, FALSE),
     Req(<<"namespaces", "x", "pods", "p">>, FALSE),
     Req(<<"namespaces", "y", "pods", "q">>, FALSE),
     Req(<<"namespaces", "y", "pods", "p", "Status">>, FALSE),
     Req(<<"namespaces", "y", "pods", "p", "log">>, FALSE),
     Req(<<"namespaces", "x", "pods", "p", "status", "z">>, FALSE)}

MCStatusFolds == {"status", "Status", "STATUS"}

MCSymmetry == Permutations(Callers)

(* What the informers ask for at startup, and a refused request. *)
MCStartup == {Req(<<"pods">>, FALSE), Req(<<"pods">>, TRUE), Req(<<"nodes">>, TRUE),
              Req(<<"storageclasses">>, FALSE)}
=============================================================================
