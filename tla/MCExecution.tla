----------------------------- MODULE MCExecution -----------------------------
(* A payload with three entries side by side and one inside another. *)
EXTENDS Execution

MCOrder == << << >>, <<"a">>, <<"a", "x">>, <<"b">>, <<"c">> >>

\* The first level has an entry with two steps and two with one; the entry a is
\* at its target already, the one inside it is not.
MCSteps == [e \in {MCOrder[i] : i \in DOMAIN MCOrder} |->
               CASE e \in {<< >>, <<"b">>} -> 2
                 [] e = <<"a">> -> 0
                 [] OTHER -> 1]

\* A pool and a task group of two with a retry; one task with functions that work
\* in place, whose scopes suppress exceptions; the same in another process, retried;
\* the calling thread with scopes that suppress.
MCConfigs ==
    {[mode |-> "threads", workers |-> 2, scopes |-> 1, suppress |-> FALSE, inPlace |-> FALSE,
      cancellable |-> FALSE, attempts |-> 2],
     [mode |-> "tasks", workers |-> 2, scopes |-> 1, suppress |-> FALSE, inPlace |-> FALSE,
      cancellable |-> TRUE, attempts |-> 2],
     [mode |-> "tasks", workers |-> 1, scopes |-> 2, suppress |-> TRUE, inPlace |-> TRUE,
      cancellable |-> TRUE, attempts |-> 1],
     [mode |-> "process", workers |-> 2, scopes |-> 1, suppress |-> TRUE, inPlace |-> TRUE,
      cancellable |-> FALSE, attempts |-> 2],
     [mode |-> "threads", workers |-> 1, scopes |-> 1, suppress |-> TRUE, inPlace |-> FALSE,
      cancellable |-> FALSE, attempts |-> 1]}

\* Functions that work in place in the calling thread, retried.
RetriedInPlace ==
    {[mode |-> "threads", workers |-> 0, scopes |-> 0, suppress |-> FALSE, inPlace |-> TRUE,
      cancellable |-> FALSE, attempts |-> 2]}

=============================================================================
