------------------------------ MODULE MCJsonStore ------------------------------
(* Two threads; two payloads, one the default; an update makes the one of the    *)
(* other, so that one that started from an outdated payload shows.               *)
EXTENDS JsonStore

CONSTANTS empty, full

MCPayloads == {empty, full}
MCUpdates == {[p \in MCPayloads |-> IF p = empty THEN full ELSE empty]}
===============================================================================
