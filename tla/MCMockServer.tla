---------------------------- MODULE MCMockServer ----------------------------
(* Values for TLC: a test that lets the read-only parameter fall back.     *)
EXTENDS MockServer

MCShows == <<"on", "off", "on">>
=============================================================================
