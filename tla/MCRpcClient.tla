---------------------------- MODULE MCRpcClient ----------------------------
(* Small instances of RpcClient: two processes one after the other.          *)
EXTENDS RpcClient

CONSTANTS u1, boot
=============================================================================
