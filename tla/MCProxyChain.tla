---------------------------- MODULE MCProxyChain ----------------------------
(* Small instances of ProxyChain for TLC. *)
EXTENDS ProxyChain, TLC

CONSTANTS a, a2, b, p, q

\* The process p embeds two applications.
MCProcessOf == (a :> p) @@ (a2 :> p) @@ (b :> q)
\* p may restart once, which is enough for a loop through q to meet a new instance.
MCMaxRestarts == (p :> 1) @@ (q :> 0)

Mock(host, recording) == [proxy_host |-> host, recording |-> recording]
MCMocks == {Mock(NoHost, FALSE), Mock(a, TRUE), Mock(a2, FALSE), Mock(b, FALSE), Mock(Unreachable, FALSE)}
===============================================================================
