----------------------------- MODULE ProxyClients -----------------------------
(***************************************************************************)
(* The worker's Reconcile through either of the two runtime APIs:          *)
(* setupGlobalProxyManager (proxy_manager.go) chooses one by the platform  *)
(* and for good.  The two clients share the variables of ReconcileLoop.    *)
(***************************************************************************)
EXTENDS HaproxyReconcile

VARIABLES
    platform,                    \* config.ProxyPlatform
    upstream, servers, ignored   \* of NginxReconcile

Nginx == INSTANCE NginxReconcile

nginxVars == <<upstream, servers, ignored>>
haproxyVars == <<config, server, ip, stateFile, listing, resolved, errs, srv, todo, upset,
                 restarts, events>>

ClientsInit ==
    /\ platform \in {"haproxy", "nginx"}
    /\ Init /\ Nginx!Init

ClientsNext ==
    \/ platform = "haproxy" /\ Next /\ UNCHANGED <<nginxVars, platform>>
    \/ platform = "nginx" /\ Nginx!Next /\ UNCHANGED <<haproxyVars, platform>>

ReconcileStep ==
    \/ platform = "haproxy" /\ ReconcileNext /\ UNCHANGED <<nginxVars, platform>>
    \/ platform = "nginx" /\ Nginx!ReconcileNext /\ UNCHANGED <<haproxyVars, platform>>

\* Every call is answered or times out, and every retry has a deadline.
ClientsSpec == ClientsInit /\ [][ClientsNext]_<<vars, nginxVars, platform>>
                           /\ WF_<<vars, nginxVars, platform>>(ReconcileStep)
----------------------------------------------------------------------------
(* Correctness.                                                            *)

\* The state of either client is well formed.
ClientTypeOK == IF platform = "haproxy" THEN TypeOK ELSE Nginx!TypeOK

\* A Reconcile that succeeds has left the proxy with the servers it was asked
\* for, see SuccessMeansDesired of HaproxyReconcile and of NginxReconcile.
ClientSuccessMeansDesired ==
    IF platform = "haproxy" THEN SuccessMeansDesired ELSE Nginx!SuccessMeansDesired

\* No Reconcile takes a backend's or an upstream's last server while it replaces
\* them, see NoDowntime of HaproxyReconcile and of NginxReconcile.
ClientNoDowntime == NoDowntime /\ Nginx!NoDowntime

\* The reload worker, which waits for a Reconcile, is not held up for ever: the
\* retries of deletions and additions (haproxy_runtime_api_client.go:372) and
\* the wait for a new upstream (nginx_http_api_client.go:150) have deadlines.
ClientReconcileEnds == pc # "idle" ~> pc = "idle"
=============================================================================
