----------------------------- MODULE MCHttpServer -----------------------------
(***************************************************************************)
(* One hub and one warehouse, two connections at a time, two maps m and   *)
(* n; m will do as a body for the other routes.                            *)
(***************************************************************************)
EXTENDS HttpServer

CONSTANTS w, h, m, n, c1, c2

TheRequests ==
    [route : {"map"}, body : {m, n}] \cup [route : {"path"}, body : {m}]
      \cup [route : {"circuit", "refresh", "results", "other"}, body : {Empty}]
=============================================================================
