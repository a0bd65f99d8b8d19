------------------------------ MODULE MCEvents ------------------------------
(* Two threads, and one receiver of one event: its handler may emit it.    *)
EXTENDS Events
=============================================================================
