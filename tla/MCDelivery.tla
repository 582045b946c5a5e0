---------------------------- MODULE MCDelivery ----------------------------
(***************************************************************************)
(* Applications for TLC: each transport with the targets, runner and       *)
(* telemetry that set it apart, and traffic that takes it through its      *)
(* cases.                                                                  *)
(***************************************************************************)
EXTENDS Delivery, TLC

Symmetry == Permutations(Jobs)

Message(version, header, channel, located) ==
    [version |-> version, header |-> header, channel |-> channel, located |-> located]

Base ==
    [ transport |-> "faststream", runner |-> "async", client |-> "async",
      early |-> FALSE, receiver |-> TRUE, issues |-> {}, gate |-> TRUE, level |-> "error", validate |-> FALSE, copy |-> "deep",
      ids |-> "fresh", mode |-> "all", flaky |-> FALSE,
      header |-> FALSE, task |-> NoPolicy, default |-> Latest,
      channels |-> [c \in {"a"} |-> NoPolicy],
      declared |-> 1, registered |-> 3, late |-> 3,
      publisher |-> FALSE, outputs |-> << >>,
      messages |-> {Message(1, NoPolicy, "a", TRUE)}, results |-> {-1} ]

\* httpx: requests to version 2, responses to the latest, with one request that
\* is not JSON.
Http == [Base EXCEPT !.transport = "httpx", !.declared = 0, !.default = 2,
            !.outputs = <<Latest>>, !.results = {-1, 2},
            !.messages = {Message(1, NoPolicy, "a", TRUE), Message(0, NoPolicy, "a", FALSE)}]

\* The same with a synchronous client over a synchronous runner that validates,
\* and over an asynchronous runner.
HttpSync == [Http EXCEPT !.runner = "sync", !.client = "sync", !.validate = TRUE]

HttpMismatch == [Http EXCEPT !.client = "sync", !.results = {-1}]

\* Celery: header, task name, queue and default; no return target.
Celery == [Base EXCEPT !.transport = "celery", !.runner = "sync", !.client = "sync",
            !.header = TRUE, !.registered = 2, !.issues = {"warning"},
            !.channels = ("a" :> NoPolicy @@ "b" :> 1),
            !.messages = {Message(1, NoPolicy, "a", TRUE), Message(1, 1, "a", TRUE),
                          Message(2, NoPolicy, "b", TRUE), Message(1, Malformed, "b", FALSE)},
            !.results = {2}]

CeleryUnhealthy == [Celery EXCEPT !.issues = {"warning", "error"}, !.level = "warning",
            !.task = 1,
            !.messages = {Message(2, NoPolicy, "a", TRUE)}]

\* The lifecycle's startup called directly, over a runner the runtime has already.
CeleryDirect == [Celery EXCEPT !.receiver = FALSE, !.early = TRUE, !.issues = {"error"},
            !.outputs = <<1>>, !.messages = {Message(1, NoPolicy, "a", TRUE)}]

\* FastStream: topics with their own targets and one without; a publisher.
Topics == [Base EXCEPT !.declared = 2, !.registered = 1, !.late = 3,
            !.channels = ("a" :> 1 @@ "b" :> Latest @@ "c" :> NoPolicy),
            !.publisher = TRUE, !.outputs = <<Latest>>, !.results = {1},
            !.messages = {Message(1, NoPolicy, "b", TRUE), Message(2, NoPolicy, "a", TRUE),
                          Message(1, NoPolicy, "c", TRUE)}]

\* A subscriber of one topic, the version negotiated in a header.
Negotiated == [Base EXCEPT !.header = TRUE, !.channels = [c \in {"a"} |-> 2],
            !.messages = {Message(1, NoPolicy, "a", TRUE), Message(3, 1, "a", TRUE),
                          Message(2, Malformed, "a", TRUE), Message(0, 2, "a", TRUE)}]

Mapped == [Base EXCEPT !.channels = ("a" :> 3 @@ "b" :> 2), !.registered = 2, !.late = 3,
            !.validate = TRUE, !.issues = {"error"},
            !.messages = {Message(2, NoPolicy, "b", TRUE), Message(1, NoPolicy, "a", TRUE)}]

\* A broker constructed with a runner, before its last version is registered.
Constructed == [Mapped EXCEPT !.early = TRUE, !.channels = ("a" :> Latest @@ "b" :> 2),
            !.issues = {}]

\* Routes of publish_to.
Routes == [Base EXCEPT !.channels = [c \in {"a"} |-> 2], !.outputs = <<1, 3>>,
            !.results = {2}, !.messages = {Message(2, NoPolicy, "a", TRUE)},
            !.mode = "errors"]

RoutesInPlace == [Routes EXCEPT !.copy = "none", !.mode = "sampled"]

\* One run id for every run; a lineage client that may fail.
Shared == [Base EXCEPT !.ids = "shared", !.registered = 2, !.late = 2,
            !.channels = [c \in {"a"} |-> Latest], !.flaky = TRUE,
            !.issues = {"error"}, !.level = "never"]

Flaky == [Shared EXCEPT !.ids = "fresh"]

MCSettings ==
    {Http, HttpSync, HttpMismatch, Celery, CeleryUnhealthy, CeleryDirect, Topics,
     Negotiated, Mapped, Constructed, Routes, RoutesInPlace, Shared, Flaky}

MCSampledIds == {r \in Runs : r[2] # 2}
=============================================================================
