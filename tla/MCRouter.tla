------------------------------ MODULE MCRouter ------------------------------
(* TLC instances of Router.  The addresses of the first state are taken in  *)
(* order, and its pod is starting if it lives: a pod that loads or is ready *)
(* has only got on before the first update came.                            *)
EXTENDS Router

MCInit == /\ Init
          /\ record <= 1 /\ pod <= record + 1
          /\ cache \in {0, record, pod} \/ \A a \in Addresses : a < cache => a \in {record, pod}
          /\ \A a \in Addresses : Lives(a) => host[a] = "starting"

MCSpec == MCInit /\ [][Next]_vars /\ Fairness
=============================================================================
