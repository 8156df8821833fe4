------------------------- MODULE MCServerStateBlocks -------------------------
(***************************************************************************)
(* Two backends with blocks and one without, a server template's slot, two *)
(* orders of the columns, and configs whose blocks are empty, stale, not   *)
(* closed or not there.                                                    *)
(***************************************************************************)
EXTENDS ServerStateBlocks, TLC

CONSTANTS web, api, admin, s1, s2, slot, fixed, a1, a2

MCBackends == {web, api, admin}
MCServerNames == {s1, s2, slot, fixed}
Server(s, a) == [name |-> s, addr |-> a, port |-> 8080]
Servers(w, a) == (web :> w) @@ (api :> a) @@ (admin :> {Server(fixed, a1)})
MCReconciled == {Servers({Server(s1, a1)}, {Server(s2, a2)}),
                 Servers({Server(s1, a2), Server(s2, a1)}, {})}

MCLayouts == {<<"be_name", "srv_name", "srv_addr", "srv_port">>,
              <<"srv_addr", "be_id", "srv_name", "srv_port", "be_name">>}

Mark(kind, name) == Line(kind, name, NoAddress, 0)
Block(b, lines) == <<Mark("begin", b)>> \o lines \o <<Mark("end", NoName)>>
Admin == <<Mark("backend", admin), Line("server", fixed, a1, 8080), Mark("end", NoName)>>
Backend(b) == <<Mark("backend", b)>>

Empty == Backend(web) \o Block(web, <<>>) \o Backend(api) \o Block(api, <<>>) \o Admin
Stale == Admin \o Backend(web) \o Block(web, <<Line("server", s2, a2, 8080)>>)
               \o Backend(api) \o <<Mark("slot", slot)>> \o Block(api, <<Mark("other", NoName)>>)
NotClosed == Backend(web) \o <<Mark("begin", web)>> \o Backend(api) \o Block(api, <<>>) \o Admin
NoBlocks == Backend(web) \o Backend(api) \o Admin
MCTemplates == {Empty, Stale, NotClosed, NoBlocks}

MCOddFiles ==
    {[version |-> 2, header |-> DefaultOrder, rows |-> <<>>],
     [version |-> 1, header |-> <<>>, rows |-> <<<<web, s1, a1>>>>]}
==============================================================================
