------------------------------ MODULE Endpoint ------------------------------
(* TrackerEndpoint (tracker-endpoint.c): what every kind of endpoint shares.  *)
(* The access settings are turned into a prologue that is put in front of     *)
(* every query text, and the prepared statements of the last query texts are  *)
(* kept, each under the text it was made from.                                *)
EXTENDS Naturals, Sequences, FiniteSets, SequencesExt

CONSTANTS Hosts,       \* the processes that run an endpoint
          BadTexts,    \* the texts that do not compile
          Needs,       \* per text, the parameters it uses
          MAX_CACHED_STMTS

ASSUME CacheAssumption == MAX_CACHED_STMTS \in Nat \ {0}

VARIABLES policy,      \* per host: readonly, the graphs it lets through, whom it blocks
          mru,         \* per host: the texts of the cached statements, last used first
          bindings     \* per host: the values bound to each cached statement

endpointVars == <<policy, mru, bindings>>

AllGraphs == {"*"}

OpenPolicy == [readonly |-> FALSE, graphs |-> AllGraphs, blocked |-> {}]

EndpointInit(start) ==
  /\ policy = start
  /\ mru = [h \in Hosts |-> <<>>]
  /\ bindings = [h \in Hosts |-> <<>>]

(* A text as the store gets it: with the constraints of the endpoints it went *)
(* through in front, the last one first.                                      *)
Plain(sparql) == [prologue |-> <<>>, sparql |-> sparql]

Constrained(graphs, text) ==
  IF graphs = AllGraphs THEN text ELSE [text EXCEPT !.prologue = <<graphs>> \o @]

Rewritten(h, text) == Constrained(policy[h].graphs, text)

Compiles(text) == text.sparql \notin BadTexts

(* Executing a text needs a value for each of its parameters.                 *)
Executable(text, args) ==
  Compiles(text) /\ Needs[text.sparql] \subseteq {a[1] : a \in args}

(* The statements a host keeps after it used the one of this text: a known    *)
(* one moves to the front, a new one comes in front and the last ones leave.  *)
UpdatedMru(h, text) ==
  IF text \in ToSet(mru[h])
  THEN <<text>> \o RemoveAt(mru[h], CHOOSE i \in DOMAIN mru[h] : mru[h][i] = text)
  ELSE LET all == <<text>> \o mru[h]
       IN  SubSeq(all, 1, IF Len(all) > MAX_CACHED_STMTS THEN MAX_CACHED_STMTS ELSE Len(all))

Bound(values, args) ==
  {v \in values : \A a \in args : a[1] # v[1]} \cup args

(* The cached statement of this text, without the values of its last use, or  *)
(* a new one; the values of this call are then bound to it.  The least used   *)
(* statement is forgotten when there are too many.                            *)
SelectAndBind(h, text, args) ==
  /\ mru' = [mru EXCEPT ![h] = UpdatedMru(h, text)]
  /\ bindings' = [bindings EXCEPT ![h] =
                    [t \in ToSet(UpdatedMru(h, text)) |->
                       IF t = text THEN Bound({}, args) ELSE @[t]]]
  /\ UNCHANGED policy
=============================================================================
