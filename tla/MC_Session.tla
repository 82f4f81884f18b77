----------------------------- MODULE MC_Session -----------------------------
EXTENDS Session, Codec, Memcpy

\* Calls that fail on the client side, or on the server side before it
\* answers: the server tells the client in its response.
MCClientFailPoints ==
  {"connect", "client_create", "client_modify", "client_memfd", "post", "poll",
   "server_oom", "server_load"}

\* Calls that fail on the server side after it answered success.
MCServerFailPoints == {"server_memfd", "server_create", "server_modify"}

\* Any one call of either side may fail.
MCFailPoints == MCClientFailPoints \cup MCServerFailPoints

MCOps == {"BACKUP", "LOAD"}
=============================================================================
