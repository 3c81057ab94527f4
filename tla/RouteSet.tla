------------------------------ MODULE RouteSet -------------------------------
(***************************************************************************)
(* What a Router promises: it is a set of routes, and a request goes to    *)
(* the most specific of those that match it (Lookup of RoutePatterns).     *)
(***************************************************************************)
EXTENDS RoutePatterns

CONSTANTS
  Methods,   \* the HTTP methods
  Patterns,  \* the patterns add_route is called with, valid or not
  Handlers   \* the handler objects it is called with

VARIABLES
  routes,  \* the routes registered: [method, shape, handler, names]
  outcome  \* what the last add_route did

vars == <<routes, outcome>>

-----------------------------------------------------------------------------
Init == routes = {} /\ outcome = "none"

Refuse(p) ==
  /\ ~IsPattern(p)
  /\ outcome' = "invalid"
  /\ UNCHANGED routes

Clash(m, p) ==
  /\ IsPattern(p)
  /\ \E r \in routes : r.method = m /\ r.shape = Shape(p)
  /\ outcome' = "duplicate"
  /\ UNCHANGED routes

Add(m, p, h) ==
  /\ IsPattern(p)
  /\ ~ \E r \in routes : r.method = m /\ r.shape = Shape(p)
  /\ routes' = routes \cup
       {[method |-> m, shape |-> Shape(p), handler |-> h, names |-> Names(p)]}
  /\ outcome' = "added"

Next ==
  \E p \in Patterns :
    \/ Refuse(p)
    \/ \E m \in Methods : Clash(m, p) \/ \E h \in Handlers : Add(m, p, h)

Spec == Init /\ [][Next]_vars

=============================================================================
