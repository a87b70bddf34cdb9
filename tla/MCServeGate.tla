---------------------------- MODULE MCServeGate ----------------------------
(* A small instance of ServeGate: what requests are made of it.             *)
EXTENDS ServeGate

Some ==
  [route : {"mcp"}, user : {"bob"}, remote : {"near"}]
  \cup [route : {"managed", "board"}, user : {"ann"}, remote : {"near"}]
  \cup [route : {"managed"}, user : {None}, remote : Remotes]
  \cup [route : {"public"}, user : {None}, remote : Remotes]
  \cup [route : {"login"}, user : {None}, remote : {"near"}]
============================================================================
