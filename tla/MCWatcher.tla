------------------------------- MODULE MCWatcher -------------------------------
(* Instances of Watcher for TLC: a service at r with another inside it.     *)
EXTENDS Watcher

MCPath == [s \in Service |-> IF s = "api" THEN <<"r">> ELSE <<"r", "web">>]
MCMode == [s \in Service |-> IF s = "api" THEN "watch" ELSE "native"]
MCTree == {<<"r">>, <<"r", "web">>, <<"r", "dist">>}
================================================================================
