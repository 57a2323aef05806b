-------------------------- MODULE MCListController --------------------------
(* A small instance of ListController for TLC. *)
EXTENDS ListController, TLC

CONSTANTS r1, r2, r3

(* Two refreshes and a forget or a rebind, or a rebind and a forget before a *)
(* refresh.                                                                *)
MCCommands ==
    {r1 :> "force" @@ r2 :> k @@ r3 :> "force" : k \in {"forget", "rebind"}}
    \cup {r1 :> "rebind" @@ r2 :> "forget" @@ r3 :> "force"}
=============================================================================
