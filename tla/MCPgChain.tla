------------------------------ MODULE MCPgChain ------------------------------
(* Three replicas and three events: two transactions that both missed the    *)
(* commit of a third, in every order of their timestamps, ties included.     *)
EXTENDS PgChain

MCIds == 1..3
MCTimes == {1}
===============================================================================
