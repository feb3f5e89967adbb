----------------------------- MODULE MCRouting ------------------------------
(* A TLC instance of Routing: a public route, a stricter one below it, one *)
(* bound to a host and a header, and one to a query; targets that try to   *)
(* reach the stricter route by another spelling.                           *)
EXTENDS Routing, TLC

MCUnclean == {"\\admin"}
MCEncoded == "%2e%2e" :> <<"..">> @@ "pub%2f..%2fadmin" :> <<"pub", "..", "admin">>
MCSlotOf == <<"v4", 1>> :> 1
MCInstancesOf == "u1" :> {"a"} @@ "u2" :> {"b", "c"}

Base == [host |-> Wild, prefix |-> <<"">>, method |-> Wild, headers |-> {}, query |-> {},
         filters |-> FALSE, strip |-> Wild, limit |-> Wild,
         weights |-> <<1>>, upstreams |-> <<"u1">>]

MCRoutes == <<
  [Base EXCEPT !.prefix = <<"pub">>, !.strip = <<"pub">>,
               !.limit = [burst |-> 2, rate |-> 2, key |-> "client-ip"],
               !.weights = <<2, 0, 4>>, !.upstreams = <<"u1", "u2", "u2">>],
  [Base EXCEPT !.prefix = <<"admin">>, !.filters = TRUE],
  [Base EXCEPT !.prefix = <<"admin", "">>, !.host = "a", !.headers = {<<"env", "x">>},
               !.strip = <<"">>],
  [Base EXCEPT !.prefix = <<"admin">>, !.method = "GET", !.query = {<<"v", "2">>}] >>

Ask == [authority |-> [name |-> "b", dots |-> 0], form |-> "origin", path |-> <<"pub">>,
        method |-> "GET", headers |-> << >>, query |-> << >>,
        peer |-> [family |-> "v4", net |-> 1]]

MCRequests == {
  Ask,
  [Ask EXCEPT !.peer.family = "mapped", !.query = << <<"v", "1">> >>],
  [Ask EXCEPT !.path = <<"pub", "", "x">>],
  [Ask EXCEPT !.path = <<"pub", "..", "admin">>],
  [Ask EXCEPT !.path = <<"pub", "%2e%2e", "admin">>],
  [Ask EXCEPT !.path = <<"pub%2f..%2fadmin">>],
  [Ask EXCEPT !.path = <<"pub", ".", "..", "..", "admin">>],
  [Ask EXCEPT !.path = <<"\\admin">>],
  [Ask EXCEPT !.path = <<"pub", "..">>],
  [Ask EXCEPT !.form = "asterisk"],
  [Ask EXCEPT !.path = <<"pubx">>],
  [Ask EXCEPT !.path = <<"admin", "">>, !.authority = [name |-> "a", dots |-> 1],
              !.headers = << <<"env", "x">>, <<"env", "y">> >>],
  [Ask EXCEPT !.path = <<"admin", "x">>, !.authority = [name |-> "a", dots |-> 2],
              !.headers = << <<"env", "y">>, <<"env", "x">> >>],
  [Ask EXCEPT !.path = <<"admin">>, !.query = << <<"v", "2">>, <<"v", "1">> >>] }

(* Instances flip under the route that is split, while the clock stands    *)
(* and nothing is reloaded: no step of a request reads the clock or the    *)
(* generation once it picks, nor eligibility before.                       *)
FlipsAlone ==
  flipped => /\ clock = MinClock /\ gen = 1
             /\ \A w \in Workers : req[w].stage # "idle" => req[w].route = 1

WorkerSymmetry == Permutations(Workers)
=============================================================================
