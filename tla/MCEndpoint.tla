----------------------------- MODULE MCEndpoint -----------------------------
(* Two configs with the same certificate and key, one with half a pair and *)
(* one with a pair of its own: the callers share a config, use two with    *)
(* the same pair, or use two pairs.                                        *)
EXTENDS Endpoint

CONSTANTS c1, c2, c3, c4, k1, k2, p1, p2

MCPairOf ==
  [c \in {c1, c2, c3, c4} |->
     CASE c = c3 -> "partial" [] c = c4 -> k2 [] OTHER -> k1]
MCRequests ==
  [p \in {p1, p2} |->
     IF p = p1 THEN {<<"listenTLS", c1>>}
     ELSE {<<"listen", None>>, <<"packet", None>>, <<"listenTLS", c2>>,
           <<"listenTLS", c3>>, <<"listenTLS", c4>>,
           <<"listenTLS", None>>, <<"dialTLS", c1>>, <<"dialTLS", None>>}]
=============================================================================
