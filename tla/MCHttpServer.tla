---------------------------- MODULE MCHttpServer ----------------------------
(* HttpServer with two addresses, one of which fills the map.                *)
EXTENDS HttpServer

CONSTANTS ip1, ip2, a, b

MCIPs == {ip1, ip2}
MCClosers == {a, b}
=============================================================================
