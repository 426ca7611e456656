------------------------------- MODULE MCServer -------------------------------
(* Server on small instances: a few connections and a choice of requests.  *)
EXTENDS Server, TLC

\* The order in which gcc on x86-64 evaluates the arguments of snprintf.
RightToLeft == <<"ko_405", "ko_404", "ko_403", "ko_400", "ok_200",
                 "served_requests", "served_connections">>

Get(shape) == [method |-> "HTTP_GET", shape |-> shape, long |-> FALSE]
Head_(shape) == [Get(shape) EXCEPT !.method = "HTTP_HEAD"]
Post(shape) == [Get(shape) EXCEPT !.method = "HTTP_UNSUPPORTED"]
Long(r) == [r EXCEPT !.long = TRUE]

GetFile == {Get("file")}
FileOrHeadMissing == {Get("file"), Head_("missing")}
HeadMissing == {Head_("missing")}

\* One request for every way through respond_client.  The method of a request
\* that is "short" is what the uninitialised variable holds.
EveryPath ==
  {Get(shape) : shape \in Shapes} \cup {Head_("file"), Head_("short"),
   Head_("nohost"), Post("file")}
  \cup {Long(Get(shape)) : shape \in {"file", "noext", "short"}}
  \cup {Long(Head_("missing"))}

AllFaults == {"accept", "fork", "fdopen", "vanish"}
NoFaults == {}

\* Connections are interchangeable; not used where liveness is checked.
Symmetry == Permutations(Conns)
===============================================================================
