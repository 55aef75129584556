-------------------------- MODULE MCZeroTierSocket --------------------------
(***************************************************************************)
(* One listening socket, the rendezvous client's, the reporter's and the    *)
(* runtime's sockets, and the sockets of sessions.                         *)
(***************************************************************************)
EXTENDS ZeroTierSocket

CONSTANTS client, reporter

const_Clients == {client, reporter, Runtime}
const_Owners == {Server, client, reporter, Runtime}
=============================================================================
