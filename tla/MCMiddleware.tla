---------------------------- MODULE MCMiddleware ----------------------------
(***************************************************************************)
(* The runners that are checked, the layers outermost first.               *)
(***************************************************************************)
EXTENDS Middleware

\* All layers over a synchronous backend; retry directly on an asynchronous one;
\* transactions without retry, under cancellation.
MCRunners ==
    {[layers |-> <<"audit", "idempotency", "retry", "transaction">>,
      async |-> FALSE, cancellable |-> FALSE],
     [layers |-> <<"audit", "idempotency", "retry">>,
      async |-> TRUE, cancellable |-> FALSE],
     [layers |-> <<"audit", "idempotency", "transaction">>,
      async |-> TRUE, cancellable |-> TRUE]}

\* Retry over transactions on an asynchronous backend.
RetryOverTransaction ==
    {[layers |-> <<"retry", "transaction">>, async |-> TRUE, cancellable |-> FALSE]}
=============================================================================
