----------------------------- MODULE MCSessions -----------------------------
(***************************************************************************)
(* A WebSocket beside a gRPC Connect stream, or beside an SSE stream.      *)
(***************************************************************************)
EXTENDS Sessions, TLC

CONSTANTS v, w, x

WebSocketAndAnother ==
  {w :> "WebSocket" @@ v :> other : other \in {"Connect", "Sse"}}

=============================================================================
