---------------------------- MODULE MCAppGrouping ----------------------------
(***************************************************************************)
(* Small instances of AppGrouping: a namespace that lists up to four apps, *)
(* of one vhost in either spelling or of a second one, with two routing    *)
(* tags; a list of five hosts leaves room for three more in its array.     *)
(***************************************************************************)
EXTENDS AppGrouping, TLC

CONSTANTS n1, n2, web, WEB, api, blue, BLUE, green

MCNamespaces == {n1, n2}
MCNames == {web, WEB, api, blue, BLUE, green}
MCLower == [x \in MCNames |-> CASE x = WEB -> web [] x = BLUE -> blue [] OTHER -> x]
App(v, t, n) == [vhost |-> v, tag |-> t, size |-> n]

MCListed ==
    (n1 :> {App(web, BLUE, 1), App(WEB, green, 1), App(web, blue, 5), App(web, NoTag, 2),
            App(api, blue, 1), App(web, green, 0)}) @@
    (n2 :> {App(web, green, 2), App(WEB, blue, 1), App(api, NoTag, 1)})

\* append doubles an array that is full.
MCCapacity(n) == CHOOSE c \in {2^k : k \in 0 .. n} : n <= c /\ (c = 1 \/ c < 2 * n)

MCMaxApps == (n1 :> 4) @@ (n2 :> 2)

NoRule == [n \in MCNamespaces |-> {}]
Config(tagged, realm, suffix) == [routingTag |-> tagged, realm |-> realm, suffix |-> suffix]
MCConfigs == {Config({n1, n2}, NoRule, NoRule), Config({n1}, NoRule, NoRule),
              Config({}, (n1 :> {web}) @@ (n2 :> {WEB}), (n1 :> {}) @@ (n2 :> {api})),
              Config({n2}, NoRule, [n \in MCNamespaces |-> {api}])}
==============================================================================
